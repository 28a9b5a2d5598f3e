----------------------------- MODULE DepositSync -----------------------------
(***************************************************************************)
(* The deposit sync of one wallet: app/api/sync-credits/route.ts together  *)
(* with getHistoricalCreditSyncCursor and syncDeposits of lib/db.ts.       *)
(*                                                                         *)
(* A request reads the chain's head, the balance row and the ledger's      *)
(* vault_sync rows, in that order and at different times, scans a window   *)
(* of blocks for Deposited events and writes credits and cursor with a     *)
(* compare-and-set on the cursor. A request that names the block of a      *)
(* deposit repeats this until the cursor has caught up with it. Blocks     *)
(* already mined do not change, so the scan is part of the write.          *)
(***************************************************************************)
EXTENDS Integers, FiniteSets, Totals

CONSTANTS
  Requests,        \* concurrent sync requests for the wallet
  Targets,         \* deposit blocks a request may name
  Amounts,         \* wei the wallet may deposit in one block
  Price,           \* GHOST_CREDIT_PRICE_WEI
  StartBlock,      \* GHOST_VAULT_DEPLOYMENT_BLOCK
  Window,          \* MAX_BLOCKS_PER_SYNC_REQUEST
  MaxSteps,        \* MAX_TX_AWARE_CATCHUP_STEPS_PER_REQUEST
  MaxRetries,      \* MAX_SYNC_DEPOSIT_WRITE_CONFLICT_RETRIES
  LedgerEnabled,   \* GHOST_CREDIT_LEDGER_ENABLED
  MaxLag,          \* how many blocks an RPC node may be behind
  LastBlock,       \* bound on the chain
  MaxCredited      \* bound on how often a block is credited

ASSUME SyncAssumption ==
  /\ Targets \subseteq Nat
  /\ Amounts \subseteq Nat
  /\ Price \in Nat \ {0}
  /\ StartBlock \in Nat
  /\ Window \in Nat \ {0}
  /\ MaxSteps \in Nat \ {0}
  /\ MaxRetries \in Nat
  /\ LedgerEnabled \in BOOLEAN
  /\ MaxLag \in Nat
  /\ LastBlock \in Nat
  /\ MaxCredited \in Nat

VARIABLES
  head,        \* latest block of the chain
  wei,         \* wei the wallet deposited in each block
  cursor,      \* CreditBalance.lastSyncedBlock, NoRow before the first sync
  history,     \* highest block the vault_sync ledger rows mention
  credited,    \* how often each block's deposits were turned into credits
  granted,     \* credits granted so far
  rolledBack,  \* a sync has rescanned from a fallback window
  requests,    \* the requests in flight
  answers      \* last answer of each request to a named deposit block

vars == <<head, wei, cursor, history, credited, granted, rolledBack, requests, answers>>
chainVars == <<head, wei>>
walletVars == <<cursor, history, credited, granted, rolledBack>>

Blocks == 0 .. LastBlock
NoRow == -1
NoTarget == -1
NoBlock == -1
Idle == [at |-> "idle"]
NoAnswer == [caughtUp |-> FALSE, target |-> NoTarget]

\* The blocks a sync looks at: the scan starts after cursor 0.
Scannable == {b \in Blocks : StartBlock <= b /\ b > 0}

Least(a, b) == IF a < b THEN a ELSE b
Greatest(a, b) == IF a > b THEN a ELSE b

Progress == [target : Targets \cup {NoTarget}, steps : Nat, previous : Blocks \cup {NoBlock}, retries : Nat]
Plan == [from : Nat, to : Blocks, syncedTo : Blocks, rollback : BOOLEAN]

Init ==
  /\ head = 0
  /\ wei = [b \in Blocks |-> 0]
  /\ cursor = NoRow
  /\ history = 0
  /\ credited = [b \in Blocks |-> 0]
  /\ granted = 0
  /\ rolledBack = FALSE
  /\ requests = [r \in Requests |-> Idle]
  /\ answers = [r \in Requests |-> NoAnswer]

\* The chain (external): the vault emits Deposited events in new blocks.
Mine ==
  /\ head < LastBlock
  /\ head' = head + 1
  /\ \E amount \in Amounts : wei' = [wei EXCEPT ![head + 1] = amount]
  /\ UNCHANGED <<walletVars, requests, answers>>

(***************************************************************************)
(* One step of a request: three reads, each at its own time.               *)
(***************************************************************************)
PersistedCursor == IF cursor = NoRow THEN 0 ELSE cursor

StartSync(r, target) ==
  /\ requests[r] = Idle
  /\ requests' = [requests EXCEPT ![r] =
       [at |-> "head", progress |-> [target |-> target, steps |-> 0, previous |-> NoBlock, retries |-> 0]]]
  /\ UNCHANGED <<chainVars, walletVars, answers>>

ReadHead(r, latest) ==
  /\ requests[r].at = "head"
  /\ latest \in head - MaxLag .. head
  /\ latest >= 0
  /\ LET p == requests[r].progress
         effective == IF p.target = NoTarget THEN latest ELSE Least(p.target, latest)
     IN requests' = [requests EXCEPT ![r] = [at |-> "balance", progress |-> p, effective |-> effective]]
  /\ UNCHANGED <<chainVars, walletVars, answers>>

ReadBalance(r) ==
  /\ requests[r].at = "balance"
  /\ LET q == requests[r]
     IN requests' = [requests EXCEPT ![r] =
          [at |-> "history", progress |-> q.progress, effective |-> q.effective,
           persisted |-> PersistedCursor]]
  /\ UNCHANGED <<chainVars, walletVars, answers>>

FallbackFrom(anchor) ==
  IF anchor <= StartBlock THEN StartBlock
  ELSE Greatest(StartBlock, Greatest(0, anchor - (Window - 1)))

\* Mutant: the block after the cursor is counted twice.
NextButOne(recovered) == Greatest(StartBlock, recovered + 2)
NextFrom(recovered) == Greatest(StartBlock, recovered + 1)

PlanStep(target, effective, recovered) ==
  LET ahead == recovered > effective
      before == IF ahead THEN 0 ELSE recovered
      from == IF ahead
              THEN FallbackFrom(IF target = NoTarget THEN effective ELSE target)
              ELSE NextFrom(before)
      to == IF from <= effective THEN Least(from + Window - 1, effective) ELSE effective
  IN [from |-> from, to |-> to, syncedTo |-> IF from <= to THEN to ELSE before, rollback |-> ahead]

ReadHistory(r) ==
  /\ requests[r].at = "history"
  /\ LET q == requests[r]
         recovered == Greatest(history, q.persisted)
     IN requests' = [requests EXCEPT ![r] =
          [at |-> "write", progress |-> q.progress, persisted |-> q.persisted,
           plan |-> PlanStep(q.progress.target, q.effective, recovered)]]
  /\ UNCHANGED <<chainVars, walletVars, answers>>

(***************************************************************************)
(* syncDeposits, and what the route does with its outcome.                 *)
(***************************************************************************)
NextCursor(plan) ==
  IF cursor = NoRow \/ plan.syncedTo > cursor \/ plan.rollback THEN plan.syncedTo ELSE cursor

\* Every vault_sync ledger row names the block it synced to and the cursor it found.
NextHistory(plan, added) ==
  IF LedgerEnabled /\ added > 0
  THEN Greatest(history, Greatest(plan.syncedTo, PersistedCursor))
  ELSE history

\* Mutant: any request that named a block is told it has caught up.
NamedTarget(p, synced) == p.target # NoTarget
CaughtUp(p, synced) == p.target # NoTarget /\ synced >= p.target

LastStep(p, synced) ==
  \/ p.target = NoTarget
  \/ synced >= p.target
  \/ p.previous # NoBlock /\ synced <= p.previous
  \/ p.steps + 1 = MaxSteps

\* Mutant: the write compares nothing.
AnyCursor(persisted) == TRUE
SameCursor(persisted) == PersistedCursor = persisted

\* What a scan of the window finds, or it throws; the chunks it asks for do
\* not matter.
DepositedWei(plan) == Total(wei, plan.from .. plan.to)

WriteSync(r) ==
  /\ requests[r].at = "write"
  /\ SameCursor(requests[r].persisted)
  /\ LET plan == requests[r].plan
         p == requests[r].progress
         scanned == plan.from .. plan.to
         added == DepositedWei(plan) \div Price
         synced == NextCursor(plan)
     IN /\ \A b \in scanned : credited[b] < MaxCredited
        /\ cursor' = synced
        /\ history' = NextHistory(plan, added)
        /\ credited' = [b \in Blocks |-> IF b \in scanned THEN credited[b] + 1 ELSE credited[b]]
        /\ granted' = granted + added
        /\ rolledBack' = (rolledBack \/ plan.rollback)
        /\ requests' = [requests EXCEPT ![r] =
             IF LastStep(p, synced) THEN Idle
             ELSE [at |-> "head", progress |->
                    [p EXCEPT !.steps = @ + 1, !.previous = synced, !.retries = 0]]]
        /\ answers' = IF LastStep(p, synced)
                      THEN [answers EXCEPT ![r] = [caughtUp |-> CaughtUp(p, synced), target |-> p.target]]
                      ELSE answers
  /\ UNCHANGED chainVars

RetryConflict(r) ==
  /\ requests[r].at = "write"
  /\ ~SameCursor(requests[r].persisted)
  /\ LET p == requests[r].progress
     IN requests' = [requests EXCEPT ![r] =
          IF p.retries >= MaxRetries THEN Idle
          ELSE [at |-> "head", progress |-> [p EXCEPT !.retries = @ + 1]]]
  /\ UNCHANGED <<chainVars, walletVars, answers>>

\* An RPC or database error ends the request with a 500.
Fail(r) ==
  /\ requests[r] # Idle
  /\ requests' = [requests EXCEPT ![r] = Idle]
  /\ UNCHANGED <<chainVars, walletVars, answers>>

Request(r) ==
  \/ \E latest \in Blocks : ReadHead(r, latest)
  \/ ReadBalance(r)
  \/ ReadHistory(r)
  \/ WriteSync(r)
  \/ RetryConflict(r)

Next ==
  \/ Mine
  \/ \E r \in Requests :
       \/ \E target \in Targets \cup {NoTarget} : StartSync(r, target)
       \/ Request(r)
       \/ Fail(r)

Spec == Init /\ [][Next]_vars

(***************************************************************************)
(* Types.                                                                  *)
(***************************************************************************)
InFlight ==
  [at : {"head"}, progress : Progress]
    \cup [at : {"balance"}, progress : Progress, effective : Blocks]
    \cup [at : {"history"}, progress : Progress, effective : Blocks, persisted : Blocks]
    \cup [at : {"write"}, progress : Progress, persisted : Blocks, plan : Plan]

\* Every variable has its type, in every state of every request: the cursor a sync compares with and
\* the windows it plans are blocks of the chain.
TypeOK ==
  /\ head \in Blocks
  /\ wei \in [Blocks -> Nat]
  /\ cursor \in Blocks \cup {NoRow}
  /\ history \in Blocks
  /\ credited \in [Blocks -> Nat]
  /\ granted \in Nat
  /\ rolledBack \in BOOLEAN
  /\ requests \in [Requests -> InFlight \cup {Idle}]
  /\ answers \in [Requests -> [caughtUp : BOOLEAN, target : Targets \cup {NoTarget}]]

(***************************************************************************)
(* Safety.                                                                 *)
(***************************************************************************)

\* No deposit is skipped: every block the next sync will not look at again,
\* by the cursor or by the ledger's history, has been credited, whatever
\* windows, conflicts, lagging nodes and fallbacks came before.
NoDepositSkipped ==
  \A b \in Scannable : b <= Greatest(history, PersistedCursor) => credited[b] >= 1

\* "targetCaughtUp" is true: the named deposit has been credited.
CaughtUpMeansCredited ==
  \A r \in Requests : answers[r].caughtUp /\ answers[r].target \in Scannable =>
    credited[answers[r].target] >= 1

\* As long as no sync fell back to an earlier window, the cursor is the
\* frontier: blocks up to it were credited once, blocks after it never, and
\* the wallet was not granted more than it deposited up to there.
ExactUntilRollback ==
  ~rolledBack =>
    /\ \A b \in Blocks : credited[b] = IF b \in Scannable /\ b <= PersistedCursor THEN 1 ELSE 0
    /\ granted * Price <= Total(wei, StartBlock .. PersistedCursor)

\* A deposit is credited at most once. The code breaks it (see README, finding).
CreditedOnce == \A b \in Blocks : wei[b] > 0 => credited[b] <= 1

=============================================================================
