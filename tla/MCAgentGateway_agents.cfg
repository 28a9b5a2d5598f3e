SPECIFICATION FairSpec
CONSTANTS
  Agents = {a1, a2}
  Owners = {o1, o2}
  Nobody = nobody
  FirstOwner = o1
  Busy = {a1}
  ChunkSize = 0
  MaxLag = 1
  MaxEvents = 2
  Endpoints = {e1, e2}
  Home <- HomeOf
  Signers = {s1, s2}
  Callers = {c1, c2}
  MaxActive = 1
  Limit = 1
  ConfiguredStale = 1
  BufferRuns = 0
INVARIANTS
  OwnerIsIndexed
  ReadyMeansProven
  SignersBounded
PROPERTIES
  ReadinessFollows
