SPECIFICATION FairSpec
CONSTANTS
  Wallets = {w1}
  Services = {s1}
  Tickets = {t1}
  MaxTries = 2
  HoldTtl = 2
  LastTick = 4
  Payments = {p1, p2}
  RequestIds = {q1, q2}
  MaxSends = 2
  MaxQueue = 1
  Delays = 1
  Agents = {a1, a2}
  OwnerCalls = {1, 2}
  MaxOfferings = 3
  Existing = 2
  MaxCreated = 4
  MaxActs = 3
  Desks = {a1, a2}
  Requests = {1, 2}
  Versions = 1
  MaxClicks = 4
  Accounts = {w1, w2}
  Depositor = w1
  Syncs = {1, 2}
  Window = 1
  MaxSteps = 1
  MaxAttempts = 2
  MaxLag = 1
  LastBlock = 2
  MaxCredited = 2
  MaxSwitches = 1
  Deployments <- MCDeployments
  Accesses = 2
  ListedCosts = {1, 2}
  MinCost = 2
  MaxPurse = 2
  GateWindow = 0
  LastSecond = 1
INVARIANTS
  ChargesExplained
  AcceptedIsRecorded
  AskedOrderFirst
  SavesKeepEndpointsApart
  SyncedMeansCredited
PROPERTIES
  OfferingWriteIsMeant
  RefusedForCause
  LostTicketComesBack
  ReportsEnd
CHECK_DEADLOCK FALSE
