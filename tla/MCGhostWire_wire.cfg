SPECIFICATION WireSpec
CONSTANTS
  Addresses = {"client", "provider", "evaluator", "admin"}
  Zero = "zero"
  Admins = {"admin"}
  Operators = {}
  Terms = {"quoted"}
  Budgets = {10, 20}
  FeeBps = {500}
  Treasuries = {"admin"}
  Purse = 20
  Clients = {"client"}
  Providers = {"provider"}
  Evaluators = {"evaluator"}
  Deadlines = {12}
  Times = {28}
  MaxJobs = 1
  Quotes = {"q"}
  Requests = {"p1", "p2"}
  Posts = {"c1"}
  Ticks = {"t1", "t2"}
  Cron = {"t1"}
  Deal <- QuotedDeal
  Follow = {"COMPLETED"}
  MaxAttempts = 2
  MaxMishaps = 1
INVARIANTS
  EscrowCovered
  OneJobPerQuote
  MirrorIsPaid
  GivenUpInTheEnd
PROPERTIES
  ImplementsEscrowMirror
  
CHECK_DEADLOCK FALSE
