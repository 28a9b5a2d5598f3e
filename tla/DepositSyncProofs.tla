-------------------------- MODULE DepositSyncProofs --------------------------
(***************************************************************************)
(* Theorems of DepositSync for every chain, window, target and number of   *)
(* concurrent requests: no deposit is skipped.                             *)
(***************************************************************************)
EXTENDS DepositSync, TotalsProofs, TLAPS

USE SyncAssumption

-----------------------------------------------------------------------------
(***************************************************************************)
(* Type correctness.                                                       *)
(***************************************************************************)

\* Reading the chain's head keeps the types.
LEMMA HeadType ==
  ASSUME TypeOK, NEW r \in Requests, NEW latest \in Blocks, ReadHead(r, latest)
  PROVE  TypeOK'
<1> DEFINE p == requests[r].progress
           effective == IF p.target = NoTarget THEN latest ELSE Least(p.target, latest)
<1>1. p \in Progress
  BY DEF TypeOK, ReadHead, InFlight, Idle
<1>2. effective \in Blocks
  <2>1. p.target \in Nat \cup {NoTarget}
    BY <1>1 DEF Progress
  <2> HIDE DEF p
  <2> QED BY <2>1 DEF Blocks, Least
<1>3. requests' = [requests EXCEPT ![r] = [at |-> "balance", progress |-> p, effective |-> effective]]
  BY DEF ReadHead
<1> HIDE DEF p, effective
<1>4. [at |-> "balance", progress |-> p, effective |-> effective] \in InFlight
  BY <1>1, <1>2 DEF InFlight
<1>5. requests' \in [Requests -> InFlight \cup {Idle}]
  BY <1>3, <1>4 DEF TypeOK
<1>6. UNCHANGED <<chainVars, walletVars, answers>>
  BY DEF ReadHead
<1> QED BY <1>5, <1>6 DEF TypeOK, chainVars, walletVars

\* Reading the balance row keeps the types.
LEMMA BalanceType ==
  ASSUME TypeOK, NEW r \in Requests, ReadBalance(r)
  PROVE  TypeOK'
<1> DEFINE q == requests[r]
           read == [at |-> "history", progress |-> q.progress, effective |-> q.effective,
                    persisted |-> PersistedCursor]
<1>1. q.progress \in Progress /\ q.effective \in Blocks
  BY DEF TypeOK, ReadBalance, InFlight, Idle
<1>2. PersistedCursor \in Blocks
  BY DEF TypeOK, PersistedCursor, Blocks
<1>3. read \in InFlight
  BY <1>1, <1>2 DEF InFlight
<1>4. requests' = [requests EXCEPT ![r] = read]
  BY DEF ReadBalance
<1> HIDE DEF read
<1>5. requests' \in [Requests -> InFlight \cup {Idle}]
  BY <1>3, <1>4 DEF TypeOK
<1>6. UNCHANGED <<chainVars, walletVars, answers>>
  BY DEF ReadBalance
<1> QED BY <1>5, <1>6 DEF TypeOK, chainVars, walletVars

\* A plan scans mined blocks only, and claims no more than it scans or than
\* the reads had already found synced.
LEMMA PlanType ==
  ASSUME NEW target \in Nat \cup {NoTarget}, NEW effective \in Blocks, NEW recovered \in Blocks
  PROVE  LET plan == PlanStep(target, effective, recovered)
         IN /\ plan \in Plan
            /\ plan.syncedTo > recovered => /\ ~plan.rollback
                                            /\ plan.from = NextFrom(recovered)
                                            /\ plan.to = plan.syncedTo
<1> DEFINE anchor == IF target = NoTarget THEN effective ELSE target
           ahead == recovered > effective
           before == IF ahead THEN 0 ELSE recovered
           from == IF ahead THEN FallbackFrom(anchor) ELSE NextFrom(before)
           to == IF from <= effective THEN Least(from + Window - 1, effective) ELSE effective
           plan == PlanStep(target, effective, recovered)
<1>1. anchor \in Nat
  BY DEF Blocks, NoTarget
<1>2. from \in Nat
  <2> HIDE DEF anchor
  <2> QED BY <1>1 DEF FallbackFrom, NextFrom, Greatest, Blocks
<1>3. to \in Blocks /\ to <= effective
  <2> HIDE DEF from
  <2> QED BY <1>2 DEF Least, Blocks
<1>4. plan = [from |-> from, to |-> to, syncedTo |-> IF from <= to THEN to ELSE before, rollback |-> ahead]
  BY DEF PlanStep
<1>5. before \in Blocks /\ before <= recovered
  BY DEF Blocks
<1>6. ~ahead => from = NextFrom(recovered)
  OBVIOUS
<1>7. ahead \in BOOLEAN /\ (ahead => effective < recovered)
  OBVIOUS
<1> HIDE DEF from, to, before, ahead, plan
<1>8. plan \in Plan
  BY <1>2, <1>3, <1>4, <1>5, <1>7 DEF Plan
<1>9. plan.syncedTo > recovered => /\ ~plan.rollback
                                   /\ plan.from = NextFrom(recovered)
                                   /\ plan.to = plan.syncedTo
  BY <1>2, <1>3, <1>4, <1>5, <1>6, <1>7 DEF Blocks
<1> QED BY <1>8, <1>9 DEF plan

\* What ReadHistory has read and what it plans.
LEMMA HistoryRead ==
  ASSUME TypeOK, NEW r \in Requests, ReadHistory(r)
  PROVE  LET q == requests[r]
             recovered == Greatest(history, q.persisted)
         IN /\ q.progress \in Progress /\ q.effective \in Blocks /\ q.persisted \in Blocks
            /\ q.progress.target \in Nat \cup {NoTarget}
            /\ recovered \in Blocks
<1>1. /\ requests[r].progress \in Progress
      /\ requests[r].effective \in Blocks
      /\ requests[r].persisted \in Blocks
  BY DEF TypeOK, ReadHistory, InFlight, Idle
<1> QED BY <1>1 DEF Progress, TypeOK, Greatest

\* Planning a step from the ledger's history keeps the types.
LEMMA HistoryType ==
  ASSUME TypeOK, NEW r \in Requests, ReadHistory(r)
  PROVE  TypeOK'
<1> DEFINE q == requests[r]
           plan == PlanStep(q.progress.target, q.effective, Greatest(history, q.persisted))
           read == [at |-> "write", progress |-> q.progress, persisted |-> q.persisted, plan |-> plan]
<1>1. q.progress \in Progress /\ q.persisted \in Blocks /\ plan \in Plan
  BY HistoryRead, PlanType
<1>2. requests' = [requests EXCEPT ![r] = read]
  BY DEF ReadHistory
<1> HIDE DEF plan
<1>3. read \in InFlight
  BY <1>1 DEF InFlight
<1> HIDE DEF read
<1>4. requests' \in [Requests -> InFlight \cup {Idle}]
  BY <1>2, <1>3 DEF TypeOK
<1>5. UNCHANGED <<chainVars, walletVars, answers>>
  BY DEF ReadHistory
<1> QED BY <1>4, <1>5 DEF TypeOK, chainVars, walletVars

\* The request that writes has a well-typed plan.
LEMMA WriterType ==
  ASSUME TypeOK, NEW r \in Requests, requests[r].at = "write"
  PROVE  /\ requests[r].progress \in Progress
         /\ requests[r].persisted \in Blocks
         /\ requests[r].plan \in Plan
BY DEF TypeOK, InFlight, Idle

\* A write that passes the compare-and-set keeps the types.
LEMMA WriteType ==
  ASSUME TypeOK, NEW r \in Requests, WriteSync(r)
  PROVE  TypeOK'
<1> DEFINE plan == requests[r].plan
           p == requests[r].progress
           scanned == plan.from .. plan.to
           added == Total(wei, scanned) \div Price
           synced == NextCursor(plan)
           next == [at |-> "head", progress |-> [p EXCEPT !.steps = @ + 1, !.previous = synced, !.retries = 0]]
<1>1. p \in Progress /\ plan \in Plan
  BY WriterType DEF WriteSync
<1>2. /\ plan.from \in Nat /\ plan.to \in Blocks /\ plan.syncedTo \in Blocks /\ plan.rollback \in BOOLEAN
  BY <1>1 DEF Plan
<1>3. synced \in Blocks
  BY <1>2 DEF NextCursor, TypeOK, Blocks
<1>4. added \in Nat
  <2>1. IsFiniteSet(scanned)
    BY <1>2, FS_Interval DEF Blocks
  <2>2. \A b \in scanned : wei[b] \in Nat
    <3>1. wei \in [Blocks -> Nat]
      BY DEF TypeOK
    <3> HIDE DEF plan
    <3>2. scanned \subseteq Blocks
      BY <1>2 DEF Blocks
    <3> HIDE DEF scanned
    <3> QED BY <3>1, <3>2
  <2>3. Total(wei, scanned) \in Nat
    <3> HIDE DEF scanned
    <3> QED BY <2>1, <2>2, TotalType
  <2> HIDE DEF scanned
  <2> QED BY <2>3
<1>5. PersistedCursor \in Blocks
  BY DEF TypeOK, PersistedCursor, Blocks
<1>6. /\ cursor' = synced
      /\ history' = NextHistory(plan, added)
      /\ credited' = [b \in Blocks |-> IF b \in scanned THEN credited[b] + 1 ELSE credited[b]]
      /\ granted' = granted + added
      /\ rolledBack' = (rolledBack \/ plan.rollback)
      /\ requests' = [requests EXCEPT ![r] = IF LastStep(p, synced) THEN Idle ELSE next]
      /\ answers' = IF LastStep(p, synced)
                    THEN [answers EXCEPT ![r] = [caughtUp |-> CaughtUp(p, synced), target |-> p.target]]
                    ELSE answers
      /\ UNCHANGED chainVars
  BY DEF WriteSync, DepositedWei
<1>7. next \in InFlight
  <2> HIDE DEF p, plan, synced
  <2>1. [p EXCEPT !.steps = @ + 1, !.previous = synced, !.retries = 0] \in Progress
    <3>1. p.steps + 1 \in Nat
      BY <1>1 DEF Progress
    <3> QED BY <1>1, <1>3, <3>1 DEF Progress
  <2> QED BY <2>1 DEF InFlight
<1>8. p.target \in Targets \cup {NoTarget} /\ CaughtUp(p, synced) \in BOOLEAN
  BY <1>1 DEF Progress, CaughtUp
<1> HIDE DEF plan, p, added, scanned, synced, next
<1>9. history' \in Blocks
  BY <1>2, <1>5, <1>6 DEF TypeOK, NextHistory, Greatest
<1>10. credited' \in [Blocks -> Nat]
  BY <1>6 DEF TypeOK
<1>11. requests' \in [Requests -> InFlight \cup {Idle}]
  BY <1>6, <1>7 DEF TypeOK
<1>12. answers' \in [Requests -> [caughtUp : BOOLEAN, target : Targets \cup {NoTarget}]]
  BY <1>6, <1>8 DEF TypeOK
<1>13. granted' \in Nat /\ rolledBack' \in BOOLEAN
  BY <1>2, <1>4, <1>6 DEF TypeOK
<1> QED BY <1>3, <1>6, <1>9, <1>10, <1>11, <1>12, <1>13 DEF TypeOK, chainVars

\* The steps that leave the wallet and the chain alone and keep or end a request.
LEMMA StartType ==
  ASSUME TypeOK, NEW r \in Requests, NEW target \in Targets \cup {NoTarget}, StartSync(r, target)
  PROVE  TypeOK'
<1> DEFINE p == [target |-> target, steps |-> 0, previous |-> NoBlock, retries |-> 0]
<1>1. p \in Progress
  BY DEF Progress
<1>2. requests' = [requests EXCEPT ![r] = [at |-> "head", progress |-> p]]
  BY DEF StartSync
<1> HIDE DEF p
<1>3. [at |-> "head", progress |-> p] \in InFlight
  BY <1>1 DEF InFlight
<1>4. requests' \in [Requests -> InFlight \cup {Idle}]
  BY <1>2, <1>3 DEF TypeOK
<1>5. UNCHANGED <<chainVars, walletVars, answers>>
  BY DEF StartSync
<1> QED BY <1>4, <1>5 DEF TypeOK, chainVars, walletVars

\* A lost compare-and-set keeps the types.
LEMMA RetryType ==
  ASSUME TypeOK, NEW r \in Requests, RetryConflict(r) \/ Fail(r)
  PROVE  TypeOK'
<1>1. CASE RetryConflict(r)
  <2> DEFINE p == requests[r].progress
             again == [at |-> "head", progress |-> [p EXCEPT !.retries = @ + 1]]
  <2>1. p \in Progress
    BY <1>1, WriterType DEF RetryConflict
  <2>2. again \in InFlight
    BY <2>1 DEF InFlight, Progress
  <2>3. requests' = [requests EXCEPT ![r] = IF p.retries >= MaxRetries THEN Idle ELSE again]
    BY <1>1 DEF RetryConflict
  <2> HIDE DEF p, again
  <2>4. requests' \in [Requests -> InFlight \cup {Idle}]
    BY <2>2, <2>3 DEF TypeOK
  <2>5. UNCHANGED <<chainVars, walletVars, answers>>
    BY <1>1 DEF RetryConflict
  <2> QED BY <2>4, <2>5 DEF TypeOK, chainVars, walletVars
<1>2. CASE Fail(r)
  <2>1. requests' \in [Requests -> InFlight \cup {Idle}]
    BY <1>2 DEF Fail, TypeOK
  <2>2. UNCHANGED <<chainVars, walletVars, answers>>
    BY <1>2 DEF Fail
  <2> QED BY <2>1, <2>2 DEF TypeOK, chainVars, walletVars
<1> QED BY <1>1, <1>2

\* A new block keeps the types.
LEMMA MineType ==
  ASSUME TypeOK, Mine
  PROVE  TypeOK'
<1>1. PICK amount \in Amounts : wei' = [wei EXCEPT ![head + 1] = amount]
  BY DEF Mine
<1>2. amount \in Nat
  OBVIOUS
<1>3. head' \in Blocks /\ wei' \in [Blocks -> Nat]
  BY <1>1, <1>2 DEF Mine, TypeOK, Blocks
<1> QED BY <1>3 DEF Mine, TypeOK, walletVars

\* Every step keeps the types.
LEMMA SyncTypeInductive == TypeOK /\ [Next]_vars => TypeOK'
<1> SUFFICES ASSUME TypeOK, [Next]_vars PROVE TypeOK'
  OBVIOUS
<1>1. CASE UNCHANGED vars
  BY <1>1 DEF vars, TypeOK
<1> QED BY <1>1, HeadType, BalanceType, HistoryType, WriteType, StartType, RetryType, MineType
     DEF Next, Request

\* The empty table is well typed.
LEMMA SyncTypeInitial == Init => TypeOK
<1> SUFFICES ASSUME Init PROVE TypeOK
  OBVIOUS
<1>1. 0 \in Blocks
  BY DEF Blocks
<1>2. requests \in [Requests -> InFlight \cup {Idle}]
  BY DEF Init
<1>3. NoAnswer \in [caughtUp : BOOLEAN, target : Targets \cup {NoTarget}]
  BY DEF NoAnswer
<1> QED BY <1>1, <1>2, <1>3 DEF Init, TypeOK

-----------------------------------------------------------------------------
(***************************************************************************)
(* No deposit is skipped. A request that has read a cursor, or planned a   *)
(* write, holds claims about the past that stay true because blocks are    *)
(* never un-credited.                                                      *)
(***************************************************************************)
Covered(n) == \A b \in Scannable : b <= n => credited[b] >= 1

CoveredBy(plan) ==
  \A b \in Scannable : b <= plan.syncedTo => credited[b] >= 1 \/ b \in plan.from .. plan.to

RequestsCovered ==
  \A r \in Requests :
    /\ requests[r].at = "history" => Covered(requests[r].persisted)
    /\ requests[r].at = "write" => CoveredBy(requests[r].plan)

Frontier == TypeOK /\ NoDepositSkipped /\ RequestsCovered /\ CaughtUpMeansCredited

\* How often a block was credited is a natural number.
LEMMA CreditedType ==
  ASSUME TypeOK, [Next]_vars
  PROVE  \A b \in Blocks : credited[b] \in Nat /\ credited'[b] \in Nat
BY SyncTypeInductive DEF TypeOK

\* Credited blocks stay credited.
LEMMA CreditedGrows ==
  ASSUME TypeOK, [Next]_vars
  PROVE  \A b \in Blocks : credited'[b] >= credited[b]
<1>1. ASSUME NEW r \in Requests, WriteSync(r)
      PROVE  \A b \in Blocks : credited'[b] >= credited[b]
  BY <1>1 DEF WriteSync, TypeOK
<1>2. UNCHANGED credited => \A b \in Blocks : credited'[b] >= credited[b]
  BY DEF TypeOK
<1> QED BY <1>1, <1>2 DEF Next, Request, vars, walletVars, Mine, StartSync, ReadHead, ReadBalance,
     ReadHistory, RetryConflict, Fail

\* What is covered stays covered, and what is planned stays planned.
LEMMA KnowledgeStays ==
  ASSUME TypeOK, [Next]_vars
  PROVE  /\ \A n : Covered(n) => \A b \in Scannable : b <= n => credited'[b] >= 1
         /\ \A plan : CoveredBy(plan) =>
              \A b \in Scannable : b <= plan.syncedTo => credited'[b] >= 1 \/ b \in plan.from .. plan.to
         /\ \A b \in Scannable : credited[b] >= 1 => credited'[b] >= 1
<1>1. \A b \in Scannable : b \in Blocks
  BY DEF Scannable
<1>2. \A b \in Scannable : credited[b] >= 1 => credited'[b] >= 1
  BY <1>1, CreditedType, CreditedGrows
<1> QED BY <1>2 DEF Covered, CoveredBy

\* The last block a sync will not look at again.
Seen == Greatest(history, PersistedCursor)

\* A step that writes nothing to the wallet and hands out no new knowledge.
LEMMA QuietStep ==
  ASSUME Frontier, [Next]_vars, UNCHANGED <<walletVars, answers>>,
         NEW r \in Requests,
         \A q \in Requests \ {r} : requests'[q] = requests[q],
         \/ requests'[r] = requests[r]
         \/ requests'[r].at \notin {"history", "write"}
         \/ requests'[r].at = "history" /\ Covered(requests'[r].persisted)
         \/ requests'[r].at = "write" /\ CoveredBy(requests'[r].plan)
  PROVE  Frontier'
<1>1. TypeOK'
  BY SyncTypeInductive DEF Frontier
<1>2. NoDepositSkipped' /\ CaughtUpMeansCredited'
  BY DEF Frontier, NoDepositSkipped, CaughtUpMeansCredited, walletVars, PersistedCursor
<1>3. RequestsCovered'
  <2> SUFFICES ASSUME NEW q \in Requests
               PROVE  /\ requests'[q].at = "history" =>
                           \A b \in Scannable : b <= requests'[q].persisted => credited'[b] >= 1
                      /\ requests'[q].at = "write" =>
                           \A b \in Scannable : b <= requests'[q].plan.syncedTo =>
                             credited'[b] >= 1 \/ b \in requests'[q].plan.from .. requests'[q].plan.to
    BY DEF RequestsCovered, Covered, CoveredBy
  <2>1. credited' = credited
    BY DEF walletVars
  <2>2. CASE requests'[q] = requests[q]
    BY <2>1, <2>2 DEF Frontier, RequestsCovered, Covered, CoveredBy
  <2>3. CASE q = r /\ requests'[r] # requests[r]
    BY <2>1, <2>3 DEF Covered, CoveredBy
  <2> QED BY <2>2, <2>3
<1> QED BY <1>1, <1>2, <1>3 DEF Frontier

\* The step that moves from one read to the next.
LEMMA ReadsKeepFrontier ==
  ASSUME Frontier, [Next]_vars, NEW r \in Requests,
         \/ \E target \in Targets \cup {NoTarget} : StartSync(r, target)
         \/ \E latest \in Blocks : ReadHead(r, latest)
         \/ RetryConflict(r)
         \/ Fail(r)
  PROVE  Frontier'
<1>1. /\ UNCHANGED <<walletVars, answers>>
      /\ \A q \in Requests \ {r} : requests'[q] = requests[q]
  BY DEF StartSync, ReadHead, RetryConflict, Fail, Frontier, TypeOK
<1>2. requests'[r].at \notin {"history", "write"}
  <2>1. CASE \E target \in Targets \cup {NoTarget} : StartSync(r, target)
    BY <2>1 DEF StartSync, Frontier, TypeOK
  <2>2. CASE \E latest \in Blocks : ReadHead(r, latest)
    BY <2>2 DEF ReadHead, Frontier, TypeOK
  <2>3. CASE RetryConflict(r) \/ Fail(r)
    BY <2>3 DEF RetryConflict, Fail, Idle, Frontier, TypeOK
  <2> QED BY <2>1, <2>2, <2>3
<1> QED BY <1>1, <1>2, QuietStep

\* The cursor a request reads is covered.
LEMMA BalanceKeepsFrontier ==
  ASSUME Frontier, [Next]_vars, NEW r \in Requests, ReadBalance(r)
  PROVE  Frontier'
<1>1. /\ UNCHANGED <<walletVars, answers>>
      /\ \A q \in Requests \ {r} : requests'[q] = requests[q]
      /\ requests'[r].at = "history"
      /\ requests'[r].persisted = PersistedCursor
  BY DEF ReadBalance, Frontier, TypeOK
<1>2. history \in Nat /\ PersistedCursor \in Nat
  BY DEF Frontier, TypeOK, Blocks, PersistedCursor
<1>3. Covered(PersistedCursor)
  BY <1>2 DEF Frontier, NoDepositSkipped, Covered, Greatest, Scannable, Blocks
<1> QED BY <1>1, <1>3, QuietStep

\* The plan a request makes claims nothing that is neither covered nor scanned.
LEMMA HistoryKeepsFrontier ==
  ASSUME Frontier, [Next]_vars, NEW r \in Requests, ReadHistory(r)
  PROVE  Frontier'
<1> DEFINE q == requests[r]
           recovered == Greatest(history, q.persisted)
           plan == PlanStep(q.progress.target, q.effective, recovered)
<1>1. /\ UNCHANGED <<walletVars, answers>>
      /\ \A c \in Requests \ {r} : requests'[c] = requests[c]
      /\ requests'[r].at = "write"
      /\ requests'[r].plan = plan
  BY DEF ReadHistory, Frontier, TypeOK
<1>2. /\ q.persisted \in Blocks
      /\ recovered \in Blocks
      /\ plan \in Plan
      /\ plan.syncedTo > recovered => plan.from = NextFrom(recovered) /\ plan.to = plan.syncedTo
  <2>1. /\ q.effective \in Blocks /\ q.persisted \in Blocks
        /\ q.progress.target \in Nat \cup {NoTarget}
        /\ recovered \in Blocks
    BY HistoryRead DEF Frontier
  <2> HIDE DEF recovered
  <2> QED BY <2>1, PlanType
<1>3. Covered(q.persisted) /\ Covered(history)
  <2>1. Covered(q.persisted)
    BY DEF ReadHistory, Frontier, RequestsCovered
  <2>2. Covered(history)
    <3>1. history \in Nat /\ PersistedCursor \in Nat
      BY DEF Frontier, TypeOK, Blocks, PersistedCursor
    <3> QED BY <3>1 DEF Frontier, NoDepositSkipped, Covered, Greatest, Scannable, Blocks
  <2> QED BY <2>1, <2>2
<1>4. Covered(recovered)
  BY <1>3 DEF Greatest
<1> HIDE DEF q, recovered, plan
<1>5. CoveredBy(plan)
  <2> SUFFICES ASSUME NEW b \in Scannable, b <= plan.syncedTo
               PROVE  credited[b] >= 1 \/ b \in plan.from .. plan.to
    BY DEF CoveredBy
  <2>1. b \in Nat /\ b > 0 /\ b >= StartBlock
    BY DEF Scannable, Blocks
  <2>2. CASE b <= recovered
    BY <1>4, <2>2 DEF Covered
  <2>3. CASE ~(b <= recovered)
    <3>1. plan.syncedTo \in Nat /\ recovered \in Nat
      BY <1>2 DEF Plan, Blocks
    <3>2. plan.from = NextFrom(recovered) /\ plan.to = plan.syncedTo
      BY <1>2, <2>1, <2>3, <3>1
    <3> QED BY <2>1, <2>3, <3>1, <3>2 DEF NextFrom, Greatest
  <2> QED BY <2>2, <2>3
<1> QED BY <1>1, <1>5, QuietStep

\* The write credits what its plan claimed and was not yet credited.
LEMMA WriteKeepsFrontier ==
  ASSUME Frontier, [Next]_vars, NEW r \in Requests, WriteSync(r)
  PROVE  Frontier'
<1> DEFINE plan == requests[r].plan
           p == requests[r].progress
           scanned == plan.from .. plan.to
           synced == NextCursor(plan)
           added == Total(wei, scanned) \div Price
<1>1. TypeOK /\ TypeOK'
  BY SyncTypeInductive DEF Frontier
<1>2. /\ p \in Progress /\ plan.syncedTo \in Blocks /\ plan.from \in Nat /\ plan.to \in Blocks
      /\ CoveredBy(plan)
  <2>1. p \in Progress /\ plan \in Plan
    BY <1>1, WriterType DEF WriteSync
  <2>2. CoveredBy(plan)
    BY DEF WriteSync, Frontier, RequestsCovered
  <2> QED BY <2>1, <2>2 DEF Plan
<1>3. /\ cursor' = synced
      /\ history' = NextHistory(plan, added)
      /\ credited' = [b \in Blocks |-> IF b \in scanned THEN credited[b] + 1 ELSE credited[b]]
      /\ \A q \in Requests \ {r} : requests'[q] = requests[q]
      /\ requests'[r].at \notin {"history", "write"}
      /\ answers' = IF LastStep(p, synced)
                    THEN [answers EXCEPT ![r] = [caughtUp |-> CaughtUp(p, synced), target |-> p.target]]
                    ELSE answers
  BY <1>1 DEF WriteSync, DepositedWei, TypeOK, Idle
<1>4. /\ PersistedCursor \in Nat /\ history \in Nat /\ plan.syncedTo \in Nat
      /\ synced \in Blocks /\ history' \in Nat
  <2>1. synced \in Blocks
    BY <1>1, <1>2 DEF NextCursor, TypeOK, Blocks
  <2>2. PersistedCursor \in Nat
    BY <1>1 DEF TypeOK, PersistedCursor, Blocks
  <2>3. history \in Nat /\ history' \in Nat
    BY <1>1 DEF TypeOK, Blocks
  <2> QED BY <1>2, <2>1, <2>2, <2>3 DEF Blocks
<1> HIDE DEF plan, p, added, scanned, synced
<1>5. \A b \in Scannable : b <= plan.syncedTo \/ b <= Seen => credited'[b] >= 1
  <2> TAKE b \in Scannable
  <2>1. b \in Blocks
    BY DEF Scannable
  <2>2. CASE b <= Seen
    BY <2>1, <2>2, KnowledgeStays, <1>1 DEF Frontier, NoDepositSkipped, Seen
  <2>3. CASE b <= plan.syncedTo
    <3>1. CASE b \in scanned
      <4>1. credited[b] \in Nat
        BY <1>1, <2>1 DEF TypeOK
      <4> QED BY <1>3, <2>1, <3>1, <4>1
    <3>2. CASE b \notin scanned
      BY <1>1, <1>2, <2>3, <3>2, KnowledgeStays DEF CoveredBy, scanned
    <3> QED BY <3>1, <3>2
  <2> QED BY <2>2, <2>3
<1>6. \A b \in Nat : b <= Greatest(history', synced) => b <= plan.syncedTo \/ b <= Seen
  <2>1. synced = plan.syncedTo \/ synced = PersistedCursor
    BY DEF synced, NextCursor, PersistedCursor
  <2>2. history' = history \/ history' = plan.syncedTo \/ history' = PersistedCursor
    BY <1>3 DEF NextHistory, Greatest
  <2> QED BY <1>4, <2>1, <2>2 DEF Seen, Greatest
<1>7. PersistedCursor' = synced
  BY <1>3, <1>4 DEF PersistedCursor, Blocks, NoRow
<1>8. \A b \in Scannable : b <= Greatest(history', synced) => credited'[b] >= 1
  BY <1>5, <1>6 DEF Scannable, Blocks
<1>9. NoDepositSkipped'
  BY <1>7, <1>8 DEF NoDepositSkipped
<1>10. RequestsCovered'
  <2> SUFFICES ASSUME NEW q \in Requests
               PROVE  /\ requests'[q].at = "history" =>
                           \A b \in Scannable : b <= requests'[q].persisted => credited'[b] >= 1
                      /\ requests'[q].at = "write" =>
                           \A b \in Scannable : b <= requests'[q].plan.syncedTo =>
                             credited'[b] >= 1 \/ b \in requests'[q].plan.from .. requests'[q].plan.to
    BY DEF RequestsCovered, Covered, CoveredBy
  <2>1. CASE q = r
    BY <1>3, <2>1
  <2>2. CASE q # r
    BY <1>1, <1>3, <2>2, KnowledgeStays DEF Frontier, RequestsCovered
  <2> QED BY <2>1, <2>2
<1>11. CaughtUpMeansCredited'
  <2> SUFFICES ASSUME NEW q \in Requests, answers'[q].caughtUp, answers'[q].target \in Scannable
               PROVE  credited'[answers'[q].target] >= 1
    BY DEF CaughtUpMeansCredited
  <2>1. CASE answers'[q] = answers[q]
    BY <1>1, <2>1, KnowledgeStays DEF Frontier, CaughtUpMeansCredited
  <2>2. CASE answers'[q] # answers[q]
    <3>1. answers'[q] = [caughtUp |-> CaughtUp(p, synced), target |-> p.target]
      BY <1>1, <1>3, <2>2 DEF TypeOK
    <3>2. answers'[q].caughtUp = CaughtUp(p, synced) /\ answers'[q].target = p.target
      BY <3>1
    <3>3. CaughtUp(p, synced) /\ p.target \in Scannable
      BY <3>2
    <3>4. synced >= p.target /\ p.target \in Nat
      BY <3>3 DEF CaughtUp, Scannable, Blocks
    <3>5. p.target <= Greatest(history', synced)
      BY <1>4, <3>4 DEF Greatest, Blocks
    <3> QED BY <1>8, <3>2, <3>3, <3>5
  <2> QED BY <2>1, <2>2
<1> QED BY <1>1, <1>9, <1>10, <1>11 DEF Frontier

\* Every step keeps the strengthened invariant.
LEMMA FrontierInductive == Frontier /\ [Next]_vars => Frontier'
<1> SUFFICES ASSUME Frontier, [Next]_vars PROVE Frontier'
  OBVIOUS
<1>1. CASE Mine \/ UNCHANGED vars
  <2>1. UNCHANGED <<walletVars, requests, answers>>
    BY <1>1 DEF Mine, vars, walletVars
  <2>2. TypeOK'
    BY SyncTypeInductive DEF Frontier
  <2>3. NoDepositSkipped' /\ CaughtUpMeansCredited'
    BY <2>1 DEF Frontier, NoDepositSkipped, CaughtUpMeansCredited, walletVars, PersistedCursor
  <2>4. RequestsCovered'
    BY <2>1 DEF Frontier, RequestsCovered, Covered, CoveredBy, walletVars
  <2> QED BY <2>2, <2>3, <2>4 DEF Frontier
<1> QED BY <1>1, ReadsKeepFrontier, BalanceKeepsFrontier, HistoryKeepsFrontier, WriteKeepsFrontier
     DEF Next, Request

\* It holds of the empty table.
LEMMA FrontierInitial == Init => Frontier
<1> SUFFICES ASSUME Init PROVE Frontier
  OBVIOUS
<1>1. TypeOK
  BY SyncTypeInitial
<1>2. NoDepositSkipped
  BY DEF Init, NoDepositSkipped, Scannable, Blocks, Greatest, PersistedCursor
<1>3. RequestsCovered /\ CaughtUpMeansCredited
  BY DEF Init, RequestsCovered, CaughtUpMeansCredited, Idle, NoAnswer
<1> QED BY <1>1, <1>2, <1>3 DEF Frontier

-----------------------------------------------------------------------------
(***************************************************************************)
(* Credited exactly once, until a sync falls back. What a request carries  *)
(* is exact if the cursor it has read is still the cursor, which is what   *)
(* the compare-and-set asks for; a cursor that moved on never comes back.  *)
(***************************************************************************)
\* A plan that continues from cursor n.
ContinuesFrom(plan, n) ==
  /\ ~plan.rollback
  /\ plan.from = NextFrom(n)
  /\ plan.syncedTo = IF plan.from <= plan.to THEN plan.to ELSE n

\* What a request carries of the cursor it has read.
CarriedExact(q) ==
  /\ q.at \in {"history", "write"} => q.persisted <= PersistedCursor
  /\ q.at = "write" /\ q.persisted = PersistedCursor => q.plan.rollback \/ ContinuesFrom(q.plan, q.persisted)

CreditedToCursor == \A b \in Blocks : credited[b] = IF b \in Scannable /\ b <= PersistedCursor THEN 1 ELSE 0

GrantedToCursor == granted * Price <= Total(wei, StartBlock .. PersistedCursor)

Exact ==
  ~rolledBack =>
    /\ CreditedToCursor
    /\ GrantedToCursor
    /\ history <= PersistedCursor
    /\ \A r \in Requests : CarriedExact(requests[r])

EmptyAhead == \A b \in Blocks : b > head => wei[b] = 0

ExactInv == TypeOK /\ EmptyAhead /\ Exact

\* Blocks up to n are blocks of the chain, and they can be added up.
LEMMA ScannedBlocks ==
  ASSUME TypeOK, NEW m \in Nat, NEW n \in Blocks
  PROVE  /\ IsFiniteSet(m .. n)
         /\ m .. n \subseteq Blocks
         /\ \A b \in m .. n : wei[b] \in Nat
         /\ Total(wei, m .. n) \in Nat
<1>1. n \in Nat /\ m .. n \subseteq Blocks
  BY DEF Blocks
<1>2. IsFiniteSet(m .. n)
  BY <1>1, FS_Interval
<1>3. \A b \in m .. n : wei[b] \in Nat
  BY <1>1 DEF TypeOK
<1> QED BY <1>1, <1>2, <1>3, TotalType

\* The window after the cursor and the blocks up to the cursor make up the
\* blocks up to the new cursor.
LEMMA WindowAddsUp ==
  ASSUME TypeOK, NEW n \in Blocks, NEW to \in Blocks, NextFrom(n) <= to
  PROVE  Total(wei, StartBlock .. to) = Total(wei, StartBlock .. n) + Total(wei, NextFrom(n) .. to)
<1> DEFINE S == StartBlock .. to
           T == StartBlock .. n
<1>1. n \in Nat /\ to \in Nat /\ NextFrom(n) \in Nat
  BY DEF Blocks, NextFrom, Greatest
<1>2. T \in SUBSET S /\ S \ T = NextFrom(n) .. to
  BY <1>1 DEF NextFrom, Greatest
<1>3. IsFiniteSet(S) /\ \A b \in S : wei[b] \in Nat
  BY ScannedBlocks
<1> HIDE DEF S, T
<1>4. Total(wei, S) = Total(wei, T) + Total(wei, S \ T)
  BY <1>2, <1>3, TotalSplit
<1>5. Total(wei, S) = Total(wei, T) + Total(wei, NextFrom(n) .. to)
  BY <1>2, <1>4
<1> QED BY <1>5 DEF S, T

\* Credits are rounded down.
LEMMA RoundedDown ==
  ASSUME NEW x \in Nat
  PROVE  x \div Price \in Nat /\ (x \div Price) * Price <= x
OBVIOUS

\* Multiplication distributes over a sum.
LEMMA Distributes ==
  ASSUME NEW x \in Nat, NEW y \in Nat, NEW p \in Nat
  PROVE  (x + y) * p = x * p + y * p
OBVIOUS

\* The cursor is a block.
LEMMA CursorType ==
  ASSUME TypeOK
  PROVE  PersistedCursor \in Blocks /\ PersistedCursor \in Nat /\ history \in Nat /\ granted \in Nat
BY DEF TypeOK, PersistedCursor, Blocks

\* A new block adds to what was deposited behind the cursor, or leaves it.
LEMMA MineKeepsExact ==
  ASSUME ExactInv, [Next]_vars, Mine
  PROVE  ExactInv'
<1>1. TypeOK /\ TypeOK'
  BY SyncTypeInductive DEF ExactInv
<1>2. PICK amount \in Amounts : wei' = [wei EXCEPT ![head + 1] = amount]
  BY DEF Mine
<1>3. /\ head' = head + 1 /\ head \in Nat /\ head + 1 \in Blocks
      /\ UNCHANGED <<walletVars, requests, answers>>
  BY <1>1 DEF Mine, TypeOK, Blocks
<1>4. amount \in Nat /\ wei[head + 1] = 0
  BY <1>3 DEF ExactInv, EmptyAhead
<1>5. EmptyAhead'
  BY <1>1, <1>2, <1>3 DEF ExactInv, EmptyAhead, TypeOK, Blocks
<1>6. PersistedCursor' = PersistedCursor
  BY <1>3 DEF walletVars, PersistedCursor
<1> DEFINE S == StartBlock .. PersistedCursor
<1>7. /\ IsFiniteSet(S) /\ S \subseteq Blocks /\ \A b \in S : wei[b] \in Nat
      /\ Total(wei, S) \in Nat
  BY <1>1, CursorType, ScannedBlocks
<1> HIDE DEF S
<1>8. \A b \in S : wei'[b] \in Nat
  BY <1>1, <1>7 DEF TypeOK
<1>9. Total(wei', S) >= Total(wei, S)
  <2>1. CASE head + 1 \in S
    <3>1. \A b \in S \ {head + 1} : wei[b] = wei'[b]
      BY <1>1, <1>2, <1>7 DEF TypeOK
    <3>2. wei'[head + 1] = amount
      BY <1>1, <1>2, <1>3 DEF TypeOK
    <3>3. /\ Total(wei', S) \in Nat
          /\ Total(wei', S) = Total(wei, S) - wei[head + 1] + wei'[head + 1]
      BY <2>1, <3>1, <1>7, <1>8, TotalChange
    <3> QED BY <1>4, <1>7, <3>2, <3>3
  <2>2. CASE head + 1 \notin S
    <3>1. \A b \in S : wei[b] = wei'[b]
      BY <1>1, <1>2, <1>7, <2>2 DEF TypeOK
    <3> QED BY <3>1, <1>7, TotalSame
  <2> QED BY <2>1, <2>2
<1>10. Total(wei', S) \in Nat /\ granted \in Nat /\ granted * Price \in Nat
  BY <1>1, <1>7, <1>8, TotalType, CursorType
<1>11. GrantedToCursor => GrantedToCursor'
  BY <1>3, <1>6, <1>7, <1>9, <1>10 DEF GrantedToCursor, S, walletVars
<1>12. CreditedToCursor => CreditedToCursor'
  BY <1>3, <1>6 DEF CreditedToCursor, walletVars
<1>13. \A r \in Requests : CarriedExact(requests[r]) => CarriedExact(requests[r])'
  BY <1>3, <1>6 DEF CarriedExact, ContinuesFrom
<1>14. Exact'
  BY <1>3, <1>6, <1>11, <1>12, <1>13 DEF ExactInv, Exact, walletVars
<1> QED BY <1>1, <1>5, <1>14 DEF ExactInv

\* A step that writes nothing to the wallet, of a request that carries
\* something exact afterwards.
LEMMA QuietKeepsExact ==
  ASSUME ExactInv, [Next]_vars, UNCHANGED <<chainVars, walletVars>>,
         NEW r \in Requests,
         \A q \in Requests \ {r} : requests'[q] = requests[q],
         Exact /\ ~rolledBack => CarriedExact(requests'[r])
  PROVE  ExactInv'
<1>1. TypeOK'
  BY SyncTypeInductive DEF ExactInv
<1>2. EmptyAhead'
  BY DEF ExactInv, EmptyAhead, chainVars
<1>3. PersistedCursor' = PersistedCursor
  BY DEF walletVars, PersistedCursor
<1>4. /\ CreditedToCursor => CreditedToCursor'
      /\ GrantedToCursor => GrantedToCursor'
  BY <1>3 DEF CreditedToCursor, GrantedToCursor, walletVars, chainVars
<1>5. ASSUME ~rolledBack', NEW q \in Requests
      PROVE  CarriedExact(requests[q])'
  <2>1. CarriedExact(requests'[q])
    BY <1>5 DEF ExactInv, Exact, walletVars
  <2> QED BY <1>3, <2>1 DEF CarriedExact, ContinuesFrom
<1>6. Exact'
  BY <1>3, <1>4, <1>5 DEF ExactInv, Exact, walletVars
<1> QED BY <1>1, <1>2, <1>6 DEF ExactInv

\* The reads: the cursor is read as it is, and the plan continues from it.
LEMMA ReadsKeepExact ==
  ASSUME ExactInv, [Next]_vars, NEW r \in Requests,
         \/ \E target \in Targets \cup {NoTarget} : StartSync(r, target)
         \/ \E latest \in Blocks : ReadHead(r, latest)
         \/ ReadBalance(r)
         \/ RetryConflict(r)
         \/ Fail(r)
  PROVE  ExactInv'
<1>1. TypeOK
  BY DEF ExactInv
<1>2. /\ UNCHANGED <<chainVars, walletVars>>
      /\ \A q \in Requests \ {r} : requests'[q] = requests[q]
  BY <1>1 DEF StartSync, ReadHead, ReadBalance, RetryConflict, Fail, TypeOK
<1>3. CarriedExact(requests'[r])
  <2>1. CASE \E target \in Targets \cup {NoTarget} : StartSync(r, target)
    <3>1. requests'[r].at = "head"
      BY <1>1, <2>1 DEF StartSync, TypeOK
    <3> QED BY <3>1 DEF CarriedExact
  <2>2. CASE \E latest \in Blocks : ReadHead(r, latest)
    <3>1. requests'[r].at = "balance"
      BY <1>1, <2>2 DEF ReadHead, TypeOK
    <3> QED BY <3>1 DEF CarriedExact
  <2>3. CASE ReadBalance(r)
    <3>1. requests'[r].at = "history" /\ requests'[r].persisted = PersistedCursor
      BY <1>1, <2>3 DEF ReadBalance, TypeOK
    <3> QED BY <1>1, <3>1, CursorType DEF CarriedExact
  <2>4. CASE RetryConflict(r) \/ Fail(r)
    <3>1. requests'[r].at \notin {"history", "write"}
      BY <1>1, <2>4 DEF RetryConflict, Fail, Idle, TypeOK
    <3> QED BY <3>1 DEF CarriedExact
  <2> QED BY <2>1, <2>2, <2>3, <2>4
<1> QED BY <1>2, <1>3, QuietKeepsExact

\* The plan of a request whose cursor is still the cursor continues from it.
LEMMA HistoryKeepsExact ==
  ASSUME ExactInv, [Next]_vars, NEW r \in Requests, ReadHistory(r)
  PROVE  ExactInv'
<1> DEFINE q == requests[r]
           recovered == Greatest(history, q.persisted)
           plan == PlanStep(q.progress.target, q.effective, recovered)
<1>1. TypeOK
  BY DEF ExactInv
<1>2. /\ UNCHANGED <<chainVars, walletVars>>
      /\ \A c \in Requests \ {r} : requests'[c] = requests[c]
      /\ requests'[r].at = "write"
      /\ requests'[r].persisted = q.persisted
      /\ requests'[r].plan = plan
  BY <1>1 DEF ReadHistory, TypeOK
<1>3. q.persisted \in Nat /\ q.effective \in Nat /\ history \in Nat /\ PersistedCursor \in Nat
  BY <1>1, HistoryRead, CursorType DEF Blocks
<1>4. ASSUME Exact, ~rolledBack
      PROVE  CarriedExact(requests'[r])
  <2>1. q.persisted <= PersistedCursor /\ history <= PersistedCursor
    BY <1>4 DEF Exact, CarriedExact, ReadHistory
  <2>2. ASSUME q.persisted = PersistedCursor, ~plan.rollback
        PROVE  ContinuesFrom(plan, q.persisted)
    <3>1. recovered = q.persisted
      BY <1>3, <2>1, <2>2 DEF Greatest
    <3>2. plan.rollback = (q.persisted > q.effective)
      BY <3>1 DEF PlanStep
    <3>3. ~(q.persisted > q.effective)
      BY <2>2, <3>2
    <3>4. /\ plan.from = NextFrom(q.persisted)
          /\ plan.syncedTo = IF plan.from <= plan.to THEN plan.to ELSE q.persisted
      BY <3>1, <3>3 DEF PlanStep
    <3> QED BY <2>2, <3>4 DEF ContinuesFrom
  <2> HIDE DEF q, plan
  <2> QED BY <1>2, <2>1, <2>2 DEF CarriedExact
<1> HIDE DEF q, plan
<1> QED BY <1>2, <1>4, QuietKeepsExact

\* The write credits the window after the cursor and moves the cursor to its end.
LEMMA WriteKeepsExact ==
  ASSUME ExactInv, [Next]_vars, NEW r \in Requests, WriteSync(r)
  PROVE  ExactInv'
<1> DEFINE plan == requests[r].plan
           scanned == plan.from .. plan.to
           synced == NextCursor(plan)
           added == Total(wei, scanned) \div Price
           n == PersistedCursor
<1>1. TypeOK /\ TypeOK'
  BY SyncTypeInductive DEF ExactInv
<1>2. /\ plan.syncedTo \in Blocks /\ plan.from \in Nat /\ plan.to \in Blocks /\ plan.rollback \in BOOLEAN
  BY <1>1, WriterType DEF WriteSync, Plan
<1>3. /\ cursor' = synced
      /\ history' = NextHistory(plan, added)
      /\ credited' = [b \in Blocks |-> IF b \in scanned THEN credited[b] + 1 ELSE credited[b]]
      /\ granted' = granted + added
      /\ rolledBack' = (rolledBack \/ plan.rollback)
      /\ requests[r].persisted = n
      /\ requests[r].at = "write"
      /\ UNCHANGED chainVars
  BY DEF WriteSync, DepositedWei, SameCursor
<1>4. /\ \A q \in Requests \ {r} : requests'[q] = requests[q]
      /\ requests'[r].at \notin {"history", "write"}
  BY <1>1 DEF WriteSync, TypeOK, Idle
<1>5. EmptyAhead'
  BY <1>3 DEF ExactInv, EmptyAhead, chainVars
<1>6. n \in Blocks /\ n \in Nat /\ history \in Nat /\ granted \in Nat
  BY <1>1, CursorType
<1>7. Total(wei, scanned) \in Nat
  BY <1>1, <1>2, ScannedBlocks
<1>8. SUFFICES ASSUME ~rolledBack' PROVE Exact'
  BY <1>1, <1>5 DEF ExactInv, Exact
<1>9. /\ CreditedToCursor /\ GrantedToCursor /\ history <= n
      /\ \A q \in Requests : CarriedExact(requests[q])
      /\ ContinuesFrom(plan, n)
  <2>1. ~rolledBack /\ ~plan.rollback
    BY <1>3, <1>8
  <2> QED BY <1>3, <2>1 DEF ExactInv, Exact, CarriedExact
<1> HIDE DEF plan, added, scanned, synced, n
<1>10. NextFrom(n) \in Nat /\ NextFrom(n) > n
  BY <1>6 DEF NextFrom, Greatest
<1>11. plan.syncedTo \in Nat /\ plan.syncedTo >= n /\ plan.to \in Nat
  <2>1. plan.syncedTo \in Nat /\ plan.to \in Nat
    BY <1>2 DEF Blocks
  <2> QED BY <1>6, <1>9, <1>10, <2>1 DEF ContinuesFrom
<1>12. synced = plan.syncedTo
  <2>1. CASE cursor = NoRow
    BY <2>1 DEF synced, NextCursor
  <2>2. CASE cursor # NoRow
    <3>1. cursor = n
      BY <2>2 DEF n, PersistedCursor
    <3> QED BY <1>6, <1>11, <3>1 DEF synced, NextCursor
  <2> QED BY <2>1, <2>2
<1>13. PersistedCursor' = synced
  BY <1>3, <1>11, <1>12 DEF PersistedCursor, NoRow
<1>14. history' <= synced
  BY <1>3, <1>6, <1>9, <1>11, <1>12 DEF NextHistory, Greatest, n
<1>15. \A b \in Blocks : credited'[b] = IF b \in Scannable /\ b <= synced THEN 1 ELSE 0
  <2> TAKE b \in Blocks
  <2>1. b \in Nat
    BY DEF Blocks
  <2>2. credited[b] = IF b \in Scannable /\ b <= n THEN 1 ELSE 0
    BY <1>9 DEF CreditedToCursor, n
  <2>3. b \in Scannable <=> StartBlock <= b /\ b > 0
    BY DEF Scannable
  <2>4. b \in scanned <=> plan.from <= b /\ b <= plan.to
    BY <1>2, <1>11, <2>1 DEF scanned
  <2>5. b \in scanned <=> b \in Scannable /\ b > n /\ b <= synced
    BY <1>6, <1>9, <1>11, <1>12, <2>1, <2>3, <2>4 DEF ContinuesFrom, NextFrom, Greatest
  <2>6. credited'[b] = IF b \in scanned THEN credited[b] + 1 ELSE credited[b]
    BY <1>3
  <2>7. b <= n => b <= synced
    BY <1>6, <1>11, <1>12, <2>1
  <2> QED BY <1>6, <1>11, <1>12, <2>1, <2>2, <2>5, <2>6, <2>7
<1>16. granted' * Price <= Total(wei, StartBlock .. synced)
  <2>1. added \in Nat /\ added * Price <= Total(wei, scanned)
    BY <1>7, RoundedDown DEF added
  <2>2. granted' * Price = granted * Price + added * Price
    BY <1>3, <1>6, <2>1, Distributes
  <2>3. granted * Price <= Total(wei, StartBlock .. n)
    BY <1>9 DEF GrantedToCursor, n
  <2>4. Total(wei, StartBlock .. n) \in Nat /\ Total(wei, StartBlock .. synced) \in Nat
    BY <1>1, <1>2, <1>6, <1>12, ScannedBlocks
  <2>5. granted * Price \in Nat /\ added * Price \in Nat
    BY <1>6, <2>1
  <2>6. CASE plan.from <= plan.to
    <3>1. synced = plan.to /\ scanned = NextFrom(n) .. plan.to /\ NextFrom(n) <= plan.to
      BY <1>9, <1>12, <2>6 DEF ContinuesFrom, scanned
    <3>2. Total(wei, StartBlock .. synced) = Total(wei, StartBlock .. n) + Total(wei, scanned)
      BY <1>1, <1>2, <1>6, <3>1, WindowAddsUp
    <3> QED BY <1>7, <2>1, <2>2, <2>3, <2>4, <2>5, <3>2
  <2>7. CASE ~(plan.from <= plan.to)
    <3>1. synced = n
      BY <1>9, <1>12, <2>7 DEF ContinuesFrom
    <3>2. scanned = {}
      BY <1>2, <1>11, <2>7 DEF scanned
    <3>3. Total(wei, scanned) = 0
      BY <3>2, TotalZero
    <3> QED BY <2>1, <2>2, <2>3, <2>4, <2>5, <3>1, <3>3
  <2> QED BY <2>6, <2>7
<1>17. ASSUME NEW q \in Requests
       PROVE  CarriedExact(requests[q])'
  <2>1. CASE q = r
    BY <1>4, <2>1 DEF CarriedExact
  <2>2. CASE q # r
    <3>1. requests'[q] = requests[q]
      BY <1>4, <2>2
    <3>2. CarriedExact(requests[q])
      BY <1>9
    <3>3. CASE requests[q].at \notin {"history", "write"}
      BY <3>1, <3>3 DEF CarriedExact
    <3>4. CASE requests[q].at \in {"history", "write"}
      <4>1. requests[q].persisted \in Nat
        <5>1. requests[q].persisted \in Blocks
          BY <1>1, <3>4 DEF TypeOK, InFlight, Idle
        <5> QED BY <5>1 DEF Blocks
      <4>2. requests[q].persisted <= n
        BY <3>2, <3>4 DEF CarriedExact, n
      <4>3. requests[q].persisted <= synced
        BY <1>6, <1>11, <1>12, <4>1, <4>2
      <4>4. requests[q].persisted = synced => synced = n
        BY <1>6, <1>11, <1>12, <4>1, <4>2
      <4>5. requests[q].at = "write" /\ requests[q].persisted = synced =>
              requests[q].plan.rollback \/ ContinuesFrom(requests[q].plan, requests[q].persisted)
        BY <3>2, <4>4 DEF CarriedExact, n
      <4> QED BY <1>13, <3>1, <4>3, <4>5 DEF CarriedExact, ContinuesFrom
    <3> QED BY <3>3, <3>4
  <2> QED BY <2>1, <2>2
<1>18. CreditedToCursor' /\ GrantedToCursor'
  BY <1>3, <1>13, <1>15, <1>16 DEF CreditedToCursor, GrantedToCursor, chainVars
<1> QED BY <1>13, <1>14, <1>17, <1>18 DEF Exact

\* Every step keeps what is exact.
LEMMA ExactInductive == ExactInv /\ [Next]_vars => ExactInv'
<1> SUFFICES ASSUME ExactInv, [Next]_vars PROVE ExactInv'
  OBVIOUS
<1>1. CASE UNCHANGED vars
  <2>1. TypeOK'
    BY SyncTypeInductive DEF ExactInv
  <2>2. PersistedCursor' = PersistedCursor
    BY <1>1 DEF vars, walletVars, PersistedCursor
  <2>3. EmptyAhead' /\ CreditedToCursor' = CreditedToCursor /\ GrantedToCursor' = GrantedToCursor
    BY <1>1, <2>2 DEF ExactInv, EmptyAhead, CreditedToCursor, GrantedToCursor, vars, walletVars, chainVars
  <2>4. \A r \in Requests : CarriedExact(requests[r]) => CarriedExact(requests[r])'
    BY <1>1, <2>2 DEF CarriedExact, ContinuesFrom, vars
  <2> QED BY <1>1, <2>1, <2>2, <2>3, <2>4 DEF ExactInv, Exact, vars, walletVars
<1> QED BY <1>1, MineKeepsExact, ReadsKeepExact, HistoryKeepsExact, WriteKeepsExact DEF Next, Request

\* It holds before the first sync.
LEMMA ExactInitial == Init => ExactInv
<1> SUFFICES ASSUME Init PROVE ExactInv
  OBVIOUS
<1>1. TypeOK /\ PersistedCursor = 0 /\ granted = 0
  BY SyncTypeInitial DEF Init, PersistedCursor
<1>2. EmptyAhead /\ CreditedToCursor
  BY <1>1 DEF Init, EmptyAhead, CreditedToCursor, Scannable, Blocks
<1>3. Total(wei, StartBlock .. PersistedCursor) \in Nat
  BY <1>1, CursorType, ScannedBlocks
<1>4. GrantedToCursor
  BY <1>1, <1>3 DEF GrantedToCursor
<1>5. \A r \in Requests : CarriedExact(requests[r])
  BY DEF Init, CarriedExact, Idle
<1> QED BY <1>1, <1>2, <1>4, <1>5 DEF ExactInv, Exact, Init

-----------------------------------------------------------------------------
(***************************************************************************)
(* Theorems.                                                               *)
(***************************************************************************)

\* Cursor, history and plans are blocks of the chain in every reachable state.
THEOREM SyncTypeCorrect == Spec => []TypeOK
BY SyncTypeInitial, SyncTypeInductive, PTL DEF Spec

\* No deposit is ever skipped, whatever windows, named blocks, lagging nodes,
\* lost races and rescans a wallet's syncs go through.
THEOREM NothingSkipped == Spec => []NoDepositSkipped
<1>1. Frontier => NoDepositSkipped
  BY DEF Frontier
<1> QED BY FrontierInitial, FrontierInductive, <1>1, PTL DEF Spec

\* A request that was told it has caught up with a deposit has its credits.
THEOREM CaughtUpIsTrue == Spec => []CaughtUpMeansCredited
<1>1. Frontier => CaughtUpMeansCredited
  BY DEF Frontier
<1> QED BY FrontierInitial, FrontierInductive, <1>1, PTL DEF Spec

\* Until a sync falls back to an earlier window, every block behind the cursor
\* was credited once and every other not at all, and the wallet was granted no
\* more than it deposited there, whatever syncs run at the same time.
THEOREM ExactlyOnceUntilRollback == Spec => []ExactUntilRollback
<1>1. ExactInv => ExactUntilRollback
  BY DEF ExactInv, Exact, ExactUntilRollback, CreditedToCursor, GrantedToCursor
<1> QED BY ExactInitial, ExactInductive, <1>1, PTL DEF Spec

=============================================================================
