-------------------------- MODULE MerchantSettlement --------------------------
(***************************************************************************)
(* The settlement operator: lib/merchant-settlement-allocator.ts,          *)
(* lib/merchant-settlement-reconcile.ts and createMerchantSettlementRollups*)
(* of lib/db.ts. Earnings are grouped into rollups, rollups are claimed by *)
(* a batch, a batch is one transaction to the vault, and reconcile reads   *)
(* the chain to decide what became of it.                                  *)
(*                                                                         *)
(* A call of POST allocate creates at most one batch and broadcasts at     *)
(* most one transaction, so the call names both. A rollup's amounts and    *)
(* settlement id are fixed when it is created: `members` stands for them,  *)
(* while an earning's own pointer to its rollup may be taken back.         *)
(* Selection order, limits, locked rows that SKIP LOCKED passes over, fee  *)
(* threshold and age only decide which rows a call takes: any that fit.    *)
(***************************************************************************)
EXTENDS Integers, FiniteSets, Functions, Totals

CONSTANTS
  Earnings, Merchants, Rollups,
  Calls,          \* calls of POST allocate
  Reconcilers,    \* callers of POST reconcile, one call at a time each
  Cron,           \* those whose calls name no batch and no settlement id
  MaxMembers,     \* maxEarningsPerRollup
  Limit,          \* resolveAllocatorSelectionLimit: rollups per batch
  None

ASSUME SettlementAssumption ==
  /\ IsFiniteSet(Earnings)
  /\ IsFiniteSet(Rollups)
  /\ Cron \subseteq Reconcilers
  /\ MaxMembers \in Nat \ {0}
  /\ Limit \in Nat \ {0}
  /\ None \notin Rollups \cup Calls \cup Merchants

VARIABLES
  earning,   \* MerchantEarning rows
  rollup,    \* MerchantSettlementRollup rows
  batch,     \* MerchantSettlementBatch status
  recent,    \* batches updated within the cooldown
  call,      \* where each allocate call stands
  payload,   \* the rollups each call claimed
  chain,     \* the fate of each call's transaction
  lost,      \* calls whose transaction was accepted and which heard of a failure
  picked     \* what each reconcile call has selected

rows == <<earning, rollup, batch, recent>>
vars == <<rows, call, payload, chain, lost, picked>>

NoEarning == [status |-> "NONE", merchant |-> None, rollup |-> None, batch |-> None]
NoRollup == [status |-> "NONE", members |-> {}, batch |-> None, tx |-> FALSE]
NothingPicked == [active |-> FALSE, rollups |-> {}, hashed |-> {}]

Init ==
  /\ earning = [e \in Earnings |-> NoEarning]
  /\ rollup = [r \in Rollups |-> NoRollup]
  /\ batch = [a \in Calls |-> "NONE"]
  /\ recent = {}
  /\ call = [a \in Calls |-> "idle"]
  /\ payload = [a \in Calls |-> {}]
  /\ chain = [a \in Calls |-> "unsent"]
  /\ lost = {}
  /\ picked = [c \in Reconcilers |-> NothingPicked]

\* A gate debit or a capture leaves an earning behind.
Earn(e, m) ==
  /\ earning[e] = NoEarning
  /\ earning' = [earning EXCEPT ![e].status = "PENDING", ![e].merchant = m]
  /\ UNCHANGED <<rollup, batch, recent, call, payload, chain, lost, picked>>

(***************************************************************************)
(* Claiming. The cooldown is read outside any transaction, rollups are     *)
(* created in one transaction, and claimed in another.                     *)
(***************************************************************************)
Goto(a, place) == call' = [call EXCEPT ![a] = place]

BeginAllocate(a) ==
  /\ call[a] = "idle"
  /\ Goto(a, IF \E b \in recent : batch[b] \in {"OPEN", "SUBMITTED"} THEN "done" ELSE "checked")
  /\ UNCHANGED <<rows, payload, chain, lost, picked>>

CooldownPasses(b) ==
  /\ b \in recent
  /\ recent' = recent \ {b}
  /\ UNCHANGED <<earning, rollup, batch, call, payload, chain, lost, picked>>

Unattached(e) == earning[e].status = "PENDING" /\ earning[e].rollup = None

\* buildMerchantSettlementRollupCandidates: the earnings of one merchant.
Candidate(taken, m) == {e \in taken : earning[e].merchant = m}

\* One rollup for each merchant whose earnings are released, with an id never used before.
CreateRollups(a) ==
  /\ call[a] = "checked"
  /\ Goto(a, "rolled")
  /\ \E taken \in SUBSET {e \in Earnings : Unattached(e)} :
       LET owners == {earning[e].merchant : e \in taken}
       IN /\ Cardinality(owners) <= Limit
          /\ \A m \in owners : Cardinality(Candidate(taken, m)) <= MaxMembers
          /\ \E id \in Injection(owners, {r \in Rollups : rollup[r] = NoRollup}) :
               /\ rollup' = [r \in Rollups |->
                    IF \E m \in owners : id[m] = r
                    THEN [NoRollup EXCEPT !.status = "PENDING",
                                          !.members = UNION {Candidate(taken, m) : m \in {m \in owners : id[m] = r}}]
                    ELSE rollup[r]]
               /\ earning' = [e \in Earnings |->
                    IF e \in taken THEN [earning[e] EXCEPT !.rollup = id[earning[e].merchant]]
                                   ELSE earning[e]]
  /\ UNCHANGED <<batch, recent, payload, chain, lost, picked>>

Attached(rs, status) == {e \in Earnings : earning[e].rollup \in rs /\ earning[e].status = status}
MemberCount(rs) == Total([r \in rs |-> Cardinality(rollup[r].members)], rs)

\* A count that differs makes the transaction throw: the call ends there (Dies).
ClaimBatch(a) ==
  /\ call[a] = "rolled"
  /\ \E ids \in SUBSET {r \in Rollups : rollup[r].status = "PENDING"} \ {{}} :
       /\ Cardinality(ids) <= Limit
       /\ Cardinality(Attached(ids, "PENDING")) = MemberCount(ids)
       /\ batch' = [batch EXCEPT ![a] = "OPEN"]
       /\ recent' = recent \cup {a}
       /\ rollup' = [r \in Rollups |->
            IF r \in ids THEN [rollup[r] EXCEPT !.status = "SUBMITTED", !.batch = a, !.tx = FALSE]
                         ELSE rollup[r]]
       /\ earning' = [e \in Earnings |->
            IF e \in Attached(ids, "PENDING")
            THEN [earning[e] EXCEPT !.status = "SUBMITTED", !.batch = a]
            ELSE earning[e]]
       /\ payload' = [payload EXCEPT ![a] = ids]
  /\ Goto(a, "claimed")
  /\ UNCHANGED <<chain, lost, picked>>

(***************************************************************************)
(* What both files write: rollups given up, with their earnings back to    *)
(* the queue, and rollups confirmed.                                       *)
(***************************************************************************)
Failed(row) == [row EXCEPT !.status = "FAILED", !.batch = None, !.tx = FALSE]

\* Mutant: the earning keeps its rollup.
QueuedInPlace(row) == [row EXCEPT !.status = "PENDING", !.batch = None]

Requeued(row) == [row EXCEPT !.status = "PENDING", !.rollup = None, !.batch = None]

Confirmed(row) == [row EXCEPT !.status = "CONFIRMED"]

Submitted(row, a) == row.batch = a /\ row.status = "SUBMITTED"

revertBatchToPending(a) ==
  /\ rollup' = [r \in Rollups |-> IF Submitted(rollup[r], a) THEN Failed(rollup[r]) ELSE rollup[r]]
  /\ earning' = [e \in Earnings |->
       IF Submitted(earning[e], a) THEN Requeued(earning[e]) ELSE earning[e]]
  /\ batch' = [batch EXCEPT ![a] = "FAILED"]
  /\ recent' = recent \cup {a}

markBatchConfirmed(a) ==
  /\ rollup' = [r \in Rollups |-> IF Submitted(rollup[r], a) THEN Confirmed(rollup[r]) ELSE rollup[r]]
  /\ earning' = [e \in Earnings |->
       IF Submitted(earning[e], a) THEN Confirmed(earning[e]) ELSE earning[e]]
  /\ batch' = [batch EXCEPT ![a] = "CONFIRMED"]
  /\ recent' = recent \cup {a}

(***************************************************************************)
(* submitMerchantSettlementBatch.                                          *)
(***************************************************************************)
GasTooHigh(a) ==
  /\ call[a] = "claimed"
  /\ revertBatchToPending(a)
  /\ Goto(a, "done")
  /\ UNCHANGED <<payload, chain, lost, picked>>

\* The node takes the transaction and says so.
Broadcast(a) ==
  /\ call[a] = "claimed"
  /\ chain' = [chain EXCEPT ![a] = "pending"]
  /\ Goto(a, "sent")
  /\ UNCHANGED <<rows, payload, lost, picked>>

\* The node takes the transaction and the answer is lost.
BroadcastUnheard(a) ==
  /\ call[a] = "claimed"
  /\ chain' = [chain EXCEPT ![a] = "pending"]
  /\ lost' = lost \cup {a}
  /\ Goto(a, "failed")
  /\ UNCHANGED <<rows, payload, picked>>

\* No key, a refused transaction, or a request that did not arrive.
BroadcastRefused(a) ==
  /\ call[a] = "claimed"
  /\ Goto(a, "failed")
  /\ UNCHANGED <<rows, payload, chain, lost, picked>>

\* The batch is updated whatever its status; rollups only while they are submitted.
StoreHash(a) ==
  /\ call[a] = "sent"
  /\ batch' = [batch EXCEPT ![a] = "SUBMITTED"]
  /\ recent' = recent \cup {a}
  /\ rollup' = [r \in Rollups |->
       IF Submitted(rollup[r], a) THEN [rollup[r] EXCEPT !.tx = TRUE] ELSE rollup[r]]
  /\ Goto(a, "done")
  /\ UNCHANGED <<earning, payload, chain, lost, picked>>

StoreHashFails(a) ==
  /\ call[a] = "sent"
  /\ lost' = lost \cup {a}
  /\ Goto(a, "failed")
  /\ UNCHANGED <<rows, payload, chain, picked>>

\* The catch block reads the vault, possibly from a node that lags behind.
ReadProcessed(a) ==
  /\ call[a] = "failed"
  /\ \E seen \in {"unsent", chain[a]} :
       Goto(a, IF seen = "success" THEN "confirming" ELSE "reverting")
  /\ UNCHANGED <<rows, payload, chain, lost, picked>>

ConfirmAfterFailure(a) ==
  /\ call[a] = "confirming"
  /\ markBatchConfirmed(a)
  /\ Goto(a, "done")
  /\ UNCHANGED <<payload, chain, lost, picked>>

RevertAfterFailure(a) ==
  /\ call[a] = "reverting"
  /\ revertBatchToPending(a)
  /\ Goto(a, "done")
  /\ UNCHANGED <<payload, chain, lost, picked>>

\* A crash, a timeout, or an error no handler repairs: the call goes no further.
Dies(a) ==
  /\ call[a] \notin {"idle", "done"}
  /\ Goto(a, "done")
  /\ UNCHANGED <<rows, payload, chain, lost, picked>>

(***************************************************************************)
(* The chain. A pending transaction is mined or dropped. The vault refuses *)
(* a batch that repeats a processed id, and may refuse it for the state of *)
(* its books, a pause, or the operator's rights.                           *)
(***************************************************************************)
Processed == UNION {payload[a] : a \in {a \in Calls : chain[a] = "success"}}

Resolve(a) ==
  /\ chain[a] = "pending"
  /\ \E fate \in {"success", "reverted", "dropped"} :
       /\ fate = "success" => payload[a] \cap Processed = {}
       /\ chain' = [chain EXCEPT ![a] = fate]
  /\ UNCHANGED <<rows, call, payload, lost, picked>>

(***************************************************************************)
(* reconcileMerchantSettlementRows: select, read the chain, write.         *)
(***************************************************************************)
InFlight == {r \in Rollups : rollup[r].status = "SUBMITTED"}

Select(c) ==
  /\ ~picked[c].active
  /\ \E rs \in SUBSET InFlight :
       /\ rs # {}
       /\ c \in Cron => rs = InFlight
       /\ picked' = [picked EXCEPT ![c] =
            [active |-> TRUE, rollups |-> rs, hashed |-> {r \in rs : rollup[r].tx}]]
  /\ UNCHANGED <<rows, call, payload, chain, lost>>

BatchOf(r) == CHOOSE a \in Calls : r \in payload[a]

\* Mutant: any receipt confirms.
Mined(r) == chain[BatchOf(r)] \in {"success", "reverted"}

\* processedSettlementIds, or a receipt that is deep enough and successful.
Settled(r) == chain[BatchOf(r)] = "success"

\* Mutant: no receipt is taken for a reverted one.
Unsettled(r) == chain[BatchOf(r)] # "success"

Reverted(r) == chain[BatchOf(r)] = "reverted"

deriveBatchStatusUpdate(statuses) ==
  IF "SUBMITTED" \in statuses THEN "SUBMITTED"
  ELSE IF statuses = {"CONFIRMED"} THEN "CONFIRMED" ELSE "FAILED"

\* One transaction. A row that another call has moved on makes it throw, and nothing is written.
Write(rs, confirmed, requeued) ==
  LET InStep(ids) == ids \subseteq InFlight /\ Cardinality(Attached(ids, "SUBMITTED")) = MemberCount(ids)
      touched == {BatchOf(r) : r \in rs}
      Statuses(a) == {rollup'[r].status : r \in {r \in Rollups : rollup'[r].batch = a}}
                       \cup {"FAILED" : r \in {r \in requeued : BatchOf(r) = a}}
      derived == {a \in touched : Statuses(a) # {}}
  IN IF InStep(confirmed) /\ InStep(requeued)
     THEN /\ rollup' = [r \in Rollups |->
               IF r \in confirmed THEN Confirmed(rollup[r])
               ELSE IF r \in requeued THEN Failed(rollup[r]) ELSE rollup[r]]
          /\ earning' = [e \in Earnings |->
               IF e \in Attached(confirmed, "SUBMITTED") THEN Confirmed(earning[e])
               ELSE IF e \in Attached(requeued, "SUBMITTED") THEN Requeued(earning[e]) ELSE earning[e]]
          /\ batch' = [a \in Calls |->
               IF a \in derived THEN deriveBatchStatusUpdate(Statuses(a)) ELSE batch[a]]
          /\ recent' = recent \cup derived
     ELSE UNCHANGED rows

\* Mutant: only rows whose hash was stored are looked up.
ByReceipt(c) == {r \in picked[c].hashed : Settled(r)}

\* What the reads find is what the chain says, less what the node has not seen yet: receipts are
\* looked up by the hash the row had when it was selected, processed ids by settlement id.
Confirmable(c) == {r \in picked[c].rollups : Settled(r)}
Requeueable(c) == {r \in picked[c].hashed : Reverted(r)}

Finish(c, confirmed, requeued) ==
  /\ picked[c].active
  /\ Write(picked[c].rollups, confirmed, requeued)
  /\ picked' = [picked EXCEPT ![c] = NothingPicked]
  /\ UNCHANGED <<call, payload, chain, lost>>

Reconcile(c) ==
  \E confirmed \in SUBSET Confirmable(c), requeued \in SUBSET Requeueable(c) :
    Finish(c, confirmed, requeued)

\* The node has seen it all.
ReconcileInFull(c) == Finish(c, Confirmable(c), Requeueable(c))

ReconcileFails(c) ==
  /\ picked[c].active
  /\ picked' = [picked EXCEPT ![c] = NothingPicked]
  /\ UNCHANGED <<rows, call, payload, chain, lost>>

Next ==
  \/ \E e \in Earnings, m \in Merchants : Earn(e, m)
  \/ \E a \in Calls :
       \/ BeginAllocate(a)
       \/ CooldownPasses(a)
       \/ CreateRollups(a)
       \/ ClaimBatch(a)
       \/ GasTooHigh(a)
       \/ Broadcast(a)
       \/ BroadcastUnheard(a)
       \/ BroadcastRefused(a)
       \/ StoreHash(a)
       \/ StoreHashFails(a)
       \/ ReadProcessed(a)
       \/ ConfirmAfterFailure(a)
       \/ RevertAfterFailure(a)
       \/ Dies(a)
       \/ Resolve(a)
  \/ \E c \in Reconcilers :
       \/ Select(c)
       \/ Reconcile(c)
       \/ ReconcileFails(c)

Spec == Init /\ [][Next]_vars

\* The workflow calls reconcile every few minutes; a node that lags and a call that fails are
\* not so for ever.
FairSpec ==
  /\ Spec
  /\ \A c \in Cron : WF_vars(Select(c)) /\ SF_vars(ReconcileInFull(c))

----------------------------------------------------------------------------
EarningRow == [status : {"NONE", "PENDING", "SUBMITTED", "CONFIRMED"},
               merchant : Merchants \cup {None},
               rollup : Rollups \cup {None},
               batch : Calls \cup {None}]
RollupRow == [status : {"NONE", "PENDING", "SUBMITTED", "CONFIRMED", "FAILED"},
              members : SUBSET Earnings,
              batch : Calls \cup {None},
              tx : BOOLEAN]

\* Every variable has its type, and a row carries a batch, and a transaction hash, exactly while
\* its status says it was submitted (allocatorBatchId and txHash of MerchantSettlementRollup).
TypeOK ==
  /\ earning \in [Earnings -> EarningRow]
  /\ rollup \in [Rollups -> RollupRow]
  /\ batch \in [Calls -> {"NONE", "OPEN", "SUBMITTED", "CONFIRMED", "FAILED"}]
  /\ recent \subseteq Calls
  /\ call \in [Calls -> {"idle", "checked", "rolled", "claimed", "sent", "failed",
                         "confirming", "reverting", "done"}]
  /\ payload \in [Calls -> SUBSET Rollups]
  /\ chain \in [Calls -> {"unsent", "pending", "success", "reverted", "dropped"}]
  /\ lost \subseteq Calls
  /\ picked \in [Reconcilers -> [active : BOOLEAN, rollups : SUBSET Rollups, hashed : SUBSET Rollups]]
  /\ \A r \in Rollups :
       /\ rollup[r].batch # None <=> rollup[r].status \in {"SUBMITTED", "CONFIRMED"}
       /\ rollup[r].tx => rollup[r].batch # None
  /\ \A e \in Earnings :
       earning[e].batch # None <=> earning[e].status \in {"SUBMITTED", "CONFIRMED"}

\* An earning and its rollup tell the same story, whichever of two allocate and two reconcile calls
\* wrote last: a live rollup holds all the earnings its amounts were computed from, in its own
\* status and batch; a rollup that was given up holds none.
EarningsMirrorRollups ==
  /\ \A e \in Earnings : earning[e].rollup # None => e \in rollup[earning[e].rollup].members
  /\ \A r \in Rollups : \A e \in rollup[r].members :
       IF rollup[r].status = "FAILED" THEN earning[e].rollup # r
       ELSE /\ earning[e].rollup = r
            /\ earning[e].status = rollup[r].status
            /\ earning[e].batch = rollup[r].batch

\* What the database calls confirmed, the vault has processed.
ConfirmedWasPaid ==
  \A e \in Earnings : earning[e].status = "CONFIRMED" => earning[e].rollup \in Processed

\* An earning back in the queue gets a new settlement id, so the vault cannot tell that it was paid
\* before. It is paid twice, or waits to be paid again, only when a transaction that the node had
\* accepted was taken for a failure by the call that sent it.
PaidAgainOnlyIfLost ==
  \A e \in Earnings, a \in Calls, r \in Rollups :
    /\ e \in rollup[r].members /\ r \in payload[a] /\ chain[a] \in {"pending", "success"}
    /\ earning[e].rollup # r
    => a \in lost

\* Settlement allocation is replay-protected: the vault pays an earning once.
PaidOnce ==
  \A r, s \in Processed : r # s => rollup[r].members \cap rollup[s].members = {}

\* The status of a batch: failed when none of its rollups is in flight, confirmed when all are
\* confirmed, unless the call that sent it gave them up while the transaction was pending.
BatchTellsRollups ==
  \A a \in Calls : \A r \in payload[a] :
    /\ batch[a] = "CONFIRMED" =>
         rollup[r].status = "CONFIRMED" \/ (rollup[r].status = "FAILED" /\ a \in lost)
    /\ batch[a] = "FAILED" => rollup[r].status # "SUBMITTED"

Moves == {<<"NONE", "PENDING">>, <<"PENDING", "SUBMITTED">>,
          <<"SUBMITTED", "CONFIRMED">>, <<"SUBMITTED", "FAILED">>}

\* A rollup moves only forward, and what it stands for never changes: a late answer does not
\* reopen a confirmed rollup, and a failed one is not claimed again.
RollupsMoveForward ==
  [][\A r \in Rollups :
       /\ rollup'[r].status # rollup[r].status => <<rollup[r].status, rollup'[r].status>> \in Moves
       /\ rollup[r].status # "NONE" => rollup'[r].members = rollup[r].members]_vars

\* A rollup the vault has processed does not stay in flight: reconcile finds it by its settlement
\* id even when the transaction hash was never stored.
PaidIsNoticed ==
  \A r \in Rollups : r \in Processed /\ rollup[r].status = "SUBMITTED" ~> rollup[r].status # "SUBMITTED"

=============================================================================
