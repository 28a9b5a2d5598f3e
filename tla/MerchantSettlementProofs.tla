---------------------- MODULE MerchantSettlementProofs ----------------------
(***************************************************************************)
(* Proofs about MerchantSettlement, for any earnings, merchants, rollups,  *)
(* allocate calls and reconcilers.                                         *)
(*                                                                         *)
(* None of the invariants is inductive alone. What a row says has to be    *)
(* tied to the call that claimed it and to the fate of its transaction:    *)
(*   Claimed    a rollup in flight is in the payload of one call;          *)
(*   Sent       how far a call has come bounds what the chain knows of it; *)
(*   GivenUp    why a rollup has failed.                                   *)
(***************************************************************************)
EXTENDS MerchantSettlement, TLAPS

\* A payload is set once, by the call that claims it; its rollups were claimed and by nobody else.
Claimed ==
  /\ \A a \in Calls : call[a] \in {"idle", "checked", "rolled"} => payload[a] = {}
  /\ \A a \in Calls : \A r \in payload[a] : rollup[r].status \in {"SUBMITTED", "CONFIRMED", "FAILED"}
  /\ \A a, b \in Calls : \A r \in payload[a] : r \in payload[b] => a = b
  /\ \A r \in Rollups : rollup[r].batch # None => r \in payload[rollup[r].batch]
  /\ \A c \in Reconcilers : \A r \in picked[c].rollups : \E a \in Calls : r \in payload[a]
  /\ \A e \in Earnings : earning[e].batch # None => earning[e].rollup # None

\* A transaction exists only after its call claimed; a call that handles a failure although its
\* transaction exists has lost it; what is confirmed has succeeded.
Sent ==
  /\ \A a \in Calls : call[a] \in {"idle", "checked", "rolled", "claimed"} => chain[a] = "unsent"
  /\ \A a \in Calls : call[a] \in {"failed", "confirming", "reverting"} => chain[a] = "unsent" \/ a \in lost
  /\ \A a \in Calls : call[a] = "confirming" => chain[a] = "success"
  /\ \A r \in Rollups : rollup[r].status = "CONFIRMED" => chain[rollup[r].batch] = "success"

\* A rollup fails because its transaction was never sent, was reverted, or was lost.
GivenUp ==
  \A a \in Calls : \A r \in payload[a] :
    rollup[r].status = "FAILED" =>
      \/ a \in lost
      \/ chain[a] = "reverted"
      \/ chain[a] = "unsent" /\ call[a] = "done"

Consistent ==
  /\ TypeOK
  /\ EarningsMirrorRollups
  /\ Claimed
  /\ Sent
  /\ GivenUp
  /\ BatchTellsRollups

-----------------------------------------------------------------------------
(***************************************************************************)
(* What the steps with nested definitions write.                           *)
(***************************************************************************)
Fresh == {r \in Rollups : rollup[r] = NoRollup}

\* `taken` leave the queue, each for the new rollup `into` sends it to.
Rolled(taken, into) ==
  /\ taken \subseteq {e \in Earnings : Unattached(e)}
  /\ into \in [taken -> Fresh]
  /\ rollup' = [r \in Rollups |->
       IF \E e \in taken : into[e] = r
       THEN [NoRollup EXCEPT !.status = "PENDING", !.members = {e \in taken : into[e] = r}]
       ELSE rollup[r]]
  /\ earning' = [e \in Earnings |->
       IF e \in taken THEN [earning[e] EXCEPT !.rollup = into[e]] ELSE earning[e]]

\* createMerchantSettlementRollups sends every earning to the rollup of its merchant.
LEMMA RollupsCreated ==
  ASSUME NEW a \in Calls, CreateRollups(a)
  PROVE  \E taken, into : Rolled(taken, into)
<1>1. PICK taken \in SUBSET {e \in Earnings : Unattached(e)} :
        \E id \in Injection({earning[e].merchant : e \in taken}, Fresh) :
          /\ rollup' = [r \in Rollups |->
               IF \E m \in {earning[e].merchant : e \in taken} : id[m] = r
               THEN [NoRollup EXCEPT !.status = "PENDING",
                       !.members = UNION {{e \in taken : earning[e].merchant = m} :
                         m \in {m \in {earning[e].merchant : e \in taken} : id[m] = r}}]
               ELSE rollup[r]]
          /\ earning' = [e \in Earnings |->
               IF e \in taken THEN [earning[e] EXCEPT !.rollup = id[earning[e].merchant]]
                              ELSE earning[e]]
  BY DEF CreateRollups, Candidate, Fresh
<1> DEFINE owners == {earning[e].merchant : e \in taken}
<1>2. PICK id \in Injection(owners, Fresh) :
          /\ rollup' = [r \in Rollups |->
               IF \E m \in owners : id[m] = r
               THEN [NoRollup EXCEPT !.status = "PENDING",
                       !.members = UNION {{e \in taken : earning[e].merchant = m} :
                         m \in {m \in owners : id[m] = r}}]
               ELSE rollup[r]]
          /\ earning' = [e \in Earnings |->
               IF e \in taken THEN [earning[e] EXCEPT !.rollup = id[earning[e].merchant]]
                              ELSE earning[e]]
  BY <1>1
<1> DEFINE into == [e \in taken |-> id[earning[e].merchant]]
<1>3. into \in [taken -> Fresh]
  BY <1>2 DEF Injection
<1>4. ASSUME NEW r \in Rollups
      PROVE  /\ (\E m \in owners : id[m] = r) <=> (\E e \in taken : into[e] = r)
             /\ UNION {{e \in taken : earning[e].merchant = m} : m \in {m \in owners : id[m] = r}}
                  = {e \in taken : into[e] = r}
  OBVIOUS
<1>5. rollup' = [r \in Rollups |->
        IF \E e \in taken : into[e] = r
        THEN [NoRollup EXCEPT !.status = "PENDING", !.members = {e \in taken : into[e] = r}]
        ELSE rollup[r]]
  <2> HIDE DEF owners, into
  <2> QED BY <1>2, <1>4
<1>6. earning' = [e \in Earnings |->
        IF e \in taken THEN [earning[e] EXCEPT !.rollup = into[e]] ELSE earning[e]]
  BY <1>2
<1>7. Rolled(taken, into)
  <2> HIDE DEF owners, into
  <2> QED BY <1>1, <1>3, <1>5, <1>6 DEF Rolled
<1> QED BY <1>7

\* A reconcile call writes its findings, each about a rollup in flight, or nothing at all.
Reconciled(confirmed, requeued) ==
  /\ confirmed \subseteq InFlight
  /\ requeued \subseteq InFlight
  /\ rollup' = [r \in Rollups |->
       IF r \in confirmed THEN Confirmed(rollup[r])
       ELSE IF r \in requeued THEN Failed(rollup[r]) ELSE rollup[r]]
  /\ earning' = [e \in Earnings |->
       IF e \in Attached(confirmed, "SUBMITTED") THEN Confirmed(earning[e])
       ELSE IF e \in Attached(requeued, "SUBMITTED") THEN Requeued(earning[e]) ELSE earning[e]]

\* Reconcile writes all it found, or nothing.
LEMMA WriteReconciles ==
  ASSUME NEW rs, NEW confirmed, NEW requeued, Write(rs, confirmed, requeued)
  PROVE  Reconciled(confirmed, requeued) \/ UNCHANGED rows
  BY DEF Write, Reconciled

\* A rollup is in one payload, and BatchOf finds it.
LEMMA BatchFound ==
  ASSUME Claimed, NEW a \in Calls, NEW r \in payload[a]
  PROVE  BatchOf(r) = a
  BY DEF Claimed, BatchOf

-----------------------------------------------------------------------------
(***************************************************************************)
(* Eight ways to write earnings and rollups.                               *)
(***************************************************************************)
Earned == \E e \in Earnings, m \in Merchants :
  /\ earning[e] = NoEarning
  /\ earning' = [earning EXCEPT ![e].status = "PENDING", ![e].merchant = m]
  /\ UNCHANGED rollup

RolledUp == \E taken, into : Rolled(taken, into)

Claims(a, ids) ==
  /\ ids \subseteq {r \in Rollups : rollup[r].status = "PENDING"}
  /\ rollup' = [r \in Rollups |->
       IF r \in ids THEN [rollup[r] EXCEPT !.status = "SUBMITTED", !.batch = a, !.tx = FALSE]
                    ELSE rollup[r]]
  /\ earning' = [e \in Earnings |->
       IF e \in Attached(ids, "PENDING")
       THEN [earning[e] EXCEPT !.status = "SUBMITTED", !.batch = a]
       ELSE earning[e]]

GivesUp(a) ==
  /\ rollup' = [r \in Rollups |-> IF Submitted(rollup[r], a) THEN Failed(rollup[r]) ELSE rollup[r]]
  /\ earning' = [e \in Earnings |->
       IF Submitted(earning[e], a) THEN Requeued(earning[e]) ELSE earning[e]]

Confirms(a) ==
  /\ rollup' = [r \in Rollups |-> IF Submitted(rollup[r], a) THEN Confirmed(rollup[r]) ELSE rollup[r]]
  /\ earning' = [e \in Earnings |->
       IF Submitted(earning[e], a) THEN Confirmed(earning[e]) ELSE earning[e]]

Hashes(a) ==
  /\ rollup' = [r \in Rollups |->
       IF Submitted(rollup[r], a) THEN [rollup[r] EXCEPT !.tx = TRUE] ELSE rollup[r]]
  /\ UNCHANGED earning

\* Every step writes the rows in one of these ways, or not at all.
LEMMA RowSteps ==
  ASSUME [Next]_vars
  PROVE  \/ Earned
         \/ RolledUp
         \/ \E a \in Calls, ids \in SUBSET Rollups : Claims(a, ids)
         \/ \E a \in Calls : GivesUp(a)
         \/ \E a \in Calls : Confirms(a)
         \/ \E a \in Calls : Hashes(a)
         \/ \E confirmed, requeued : Reconciled(confirmed, requeued)
         \/ UNCHANGED <<earning, rollup>>
<1>1. CASE UNCHANGED vars
  BY <1>1 DEF vars, rows
<1>2. CASE \E e \in Earnings, m \in Merchants : Earn(e, m)
  BY <1>2 DEF Earn, Earned
<1>3. ASSUME NEW a \in Calls, CreateRollups(a)
      PROVE  RolledUp
  BY <1>3, RollupsCreated DEF RolledUp
<1>4. ASSUME NEW a \in Calls, ClaimBatch(a)
      PROVE  \E ids \in SUBSET Rollups : Claims(a, ids)
  <2>1. PICK ids \in SUBSET {r \in Rollups : rollup[r].status = "PENDING"} : Claims(a, ids)
    BY <1>4 DEF ClaimBatch, Claims
  <2> QED BY <2>1
<1>5. ASSUME NEW a \in Calls, GasTooHigh(a) \/ RevertAfterFailure(a)
      PROVE  GivesUp(a)
  BY <1>5 DEF GasTooHigh, RevertAfterFailure, revertBatchToPending, GivesUp
<1>6. ASSUME NEW a \in Calls, ConfirmAfterFailure(a)
      PROVE  Confirms(a)
  BY <1>6 DEF ConfirmAfterFailure, markBatchConfirmed, Confirms
<1>7. ASSUME NEW a \in Calls, StoreHash(a)
      PROVE  Hashes(a)
  BY <1>7 DEF StoreHash, Hashes
<1>8. ASSUME NEW c \in Reconcilers, Reconcile(c)
      PROVE  \/ \E confirmed, requeued : Reconciled(confirmed, requeued)
             \/ UNCHANGED <<earning, rollup>>
  BY <1>8, WriteReconciles DEF Reconcile, Finish, rows
<1>9. ASSUME NEW a \in Calls,
             \/ BeginAllocate(a) \/ CooldownPasses(a) \/ Broadcast(a) \/ BroadcastUnheard(a)
             \/ BroadcastRefused(a) \/ StoreHashFails(a) \/ ReadProcessed(a) \/ Dies(a) \/ Resolve(a)
      PROVE  UNCHANGED <<earning, rollup>>
  BY <1>9 DEF BeginAllocate, CooldownPasses, Broadcast, BroadcastUnheard, BroadcastRefused,
              StoreHashFails, ReadProcessed, Dies, Resolve, rows
<1>10. ASSUME NEW c \in Reconcilers, Select(c) \/ ReconcileFails(c)
       PROVE  UNCHANGED <<earning, rollup>>
  BY <1>10 DEF Select, ReconcileFails, rows
<1> QED
  BY <1>1, <1>2, <1>3, <1>4, <1>5, <1>6, <1>7, <1>8, <1>9, <1>10 DEF Next

-----------------------------------------------------------------------------
(***************************************************************************)
(* Types, and the mirror.                                                  *)
(***************************************************************************)
RowsTyped ==
  /\ earning \in [Earnings -> EarningRow]
  /\ rollup \in [Rollups -> RollupRow]
  /\ \A r \in Rollups :
       /\ rollup[r].batch # None <=> rollup[r].status \in {"SUBMITTED", "CONFIRMED"}
       /\ rollup[r].tx => rollup[r].batch # None
  /\ \A e \in Earnings :
       earning[e].batch # None <=> earning[e].status \in {"SUBMITTED", "CONFIRMED"}

\* The fields of a row.
RollupIs(row, status, members, claimedBy, tx) ==
  row \in RollupRow /\ row.status = status /\ row.members = members /\ row.batch = claimedBy /\ row.tx = tx

EarningIs(row, status, merchant, into, claimedBy) ==
  /\ row \in EarningRow /\ row.status = status /\ row.merchant = merchant
  /\ row.rollup = into /\ row.batch = claimedBy

\* What each write does to them.
LEMMA RollupWrites ==
  ASSUME NEW row \in RollupRow
  PROVE  /\ \A a \in Calls : RollupIs([row EXCEPT !.status = "SUBMITTED", !.batch = a, !.tx = FALSE],
                                      "SUBMITTED", row.members, a, FALSE)
         /\ RollupIs(Failed(row), "FAILED", row.members, None, FALSE)
         /\ RollupIs(Confirmed(row), "CONFIRMED", row.members, row.batch, row.tx)
         /\ RollupIs([row EXCEPT !.tx = TRUE], row.status, row.members, row.batch, TRUE)
  BY DEF RollupRow, RollupIs, Failed, Confirmed

\* The same for an earning.
LEMMA EarningWrites ==
  ASSUME NEW row \in EarningRow
  PROVE  /\ \A a \in Calls : EarningIs([row EXCEPT !.status = "SUBMITTED", !.batch = a],
                                       "SUBMITTED", row.merchant, row.rollup, a)
         /\ EarningIs(Requeued(row), "PENDING", row.merchant, None, None)
         /\ EarningIs(Confirmed(row), "CONFIRMED", row.merchant, row.rollup, row.batch)
         /\ \A r \in Rollups : EarningIs([row EXCEPT !.rollup = r], row.status, row.merchant, r, row.batch)
  BY DEF EarningRow, EarningIs, Requeued, Confirmed

\* The new rollups are rows in the queue, and so are the earnings they take.
RolledFields(taken, into) ==
  /\ taken \subseteq Earnings
  /\ \A e \in taken : into[e] \in Fresh /\ into[e] \in Rollups
  /\ \A e \in taken : earning[e].status = "PENDING" /\ earning[e].rollup = None
  /\ \A r \in Rollups : (\E e \in taken : into[e] = r) =>
       RollupIs(rollup'[r], "PENDING", {e \in taken : into[e] = r}, None, FALSE)
  /\ \A r \in Rollups : ~(\E e \in taken : into[e] = r) => rollup'[r] = rollup[r]
  /\ \A e \in taken :
       EarningIs(earning'[e], earning[e].status, earning[e].merchant, into[e], earning[e].batch)
  /\ \A e \in Earnings \ taken : earning'[e] = earning[e]

\* Rows after createMerchantSettlementRollups.
LEMMA RolledRows ==
  ASSUME RowsTyped, NEW taken, NEW into, Rolled(taken, into)
  PROVE  RolledFields(taken, into)
<1>1. taken \subseteq Earnings /\ \A e \in taken : into[e] \in Fresh /\ into[e] \in Rollups
  BY DEF Rolled, Fresh
<1>2. \A e \in taken : earning[e].status = "PENDING" /\ earning[e].rollup = None
  BY DEF Rolled, Unattached
<1>3. ASSUME NEW r \in Rollups, \E e \in taken : into[e] = r
      PROVE  RollupIs(rollup'[r], "PENDING", {e \in taken : into[e] = r}, None, FALSE)
  <2>1. rollup'[r] = [NoRollup EXCEPT !.status = "PENDING", !.members = {e \in taken : into[e] = r}]
    BY <1>3 DEF Rolled
  <2>2. rollup'[r] = [status |-> "PENDING", members |-> {e \in taken : into[e] = r},
                      batch |-> None, tx |-> FALSE]
    BY <2>1 DEF NoRollup
  <2>3. {e \in taken : into[e] = r} \in SUBSET Earnings
    BY <1>1
  <2> QED BY <2>2, <2>3 DEF RollupRow, RollupIs
<1>4. \A r \in Rollups : ~(\E e \in taken : into[e] = r) => rollup'[r] = rollup[r]
  BY DEF Rolled
<1>5. /\ \A e \in taken : earning'[e] = [earning[e] EXCEPT !.rollup = into[e]]
      /\ \A e \in Earnings \ taken : earning'[e] = earning[e]
  BY <1>1 DEF Rolled
<1>6. \A e \in taken :
        EarningIs(earning'[e], earning[e].status, earning[e].merchant, into[e], earning[e].batch)
  <2> TAKE e \in taken
  <2>1. earning[e] \in EarningRow /\ into[e] \in Rollups
    BY <1>1 DEF RowsTyped
  <2>2. \A r \in Rollups : EarningIs([earning[e] EXCEPT !.rollup = r],
                                    earning[e].status, earning[e].merchant, r, earning[e].batch)
    BY <2>1, EarningWrites
  <2> QED BY <1>5, <2>1, <2>2
<1> QED BY <1>1, <1>2, <1>3, <1>4, <1>5, <1>6 DEF RolledFields

\* A new earning is in the queue.
EarnedFields(e, m) ==
  /\ earning[e] = NoEarning
  /\ EarningIs(earning'[e], "PENDING", m, None, None)
  /\ \A other \in Earnings \ {e} : earning'[other] = earning[other]
  /\ UNCHANGED rollup

\* Rows after a new earning.
LEMMA EarnedRows ==
  ASSUME RowsTyped, Earned
  PROVE  \E e \in Earnings, m \in Merchants : EarnedFields(e, m)
<1>1. PICK e \in Earnings, m \in Merchants :
        /\ earning[e] = NoEarning
        /\ earning' = [earning EXCEPT ![e].status = "PENDING", ![e].merchant = m]
        /\ UNCHANGED rollup
  BY DEF Earned
<1>2. earning'[e] = [NoEarning EXCEPT !.status = "PENDING", !.merchant = m]
  BY <1>1 DEF RowsTyped
<1>3. earning'[e] = [status |-> "PENDING", merchant |-> m, rollup |-> None, batch |-> None]
  BY <1>2 DEF NoEarning
<1>4. EarningIs(earning'[e], "PENDING", m, None, None)
  BY <1>3 DEF EarningIs, EarningRow
<1>5. \A other \in Earnings \ {e} : earning'[other] = earning[other]
  BY <1>1 DEF RowsTyped
<1> QED BY <1>1, <1>4, <1>5 DEF EarnedFields

\* The other writes, field by field.
ClaimedFields(a, ids) ==
  /\ ids \subseteq Rollups /\ \A r \in ids : rollup[r].status = "PENDING"
  /\ \A r \in ids : RollupIs(rollup'[r], "SUBMITTED", rollup[r].members, a, FALSE)
  /\ \A r \in Rollups \ ids : rollup'[r] = rollup[r]
  /\ \A e \in Attached(ids, "PENDING") :
       EarningIs(earning'[e], "SUBMITTED", earning[e].merchant, earning[e].rollup, a)
  /\ \A e \in Earnings \ Attached(ids, "PENDING") : earning'[e] = earning[e]

\* Rows after a batch is created.
LEMMA ClaimedRows ==
  ASSUME RowsTyped, NEW a \in Calls, NEW ids \in SUBSET Rollups, Claims(a, ids)
  PROVE  ClaimedFields(a, ids)
<1>1. \A e \in Attached(ids, "PENDING") : e \in Earnings
  BY DEF Attached
<1>2. \A e \in Attached(ids, "PENDING") :
         earning'[e] = [earning[e] EXCEPT !.status = "SUBMITTED", !.batch = a]
  BY <1>1 DEF Claims
<1>3. \A r \in ids : rollup'[r] = [rollup[r] EXCEPT !.status = "SUBMITTED", !.batch = a, !.tx = FALSE]
  BY DEF Claims
<1>4. \A r \in ids : RollupIs(rollup'[r], "SUBMITTED", rollup[r].members, a, FALSE)
  <2> TAKE r \in ids
  <2>1. rollup[r] \in RollupRow
    BY DEF RowsTyped
  <2> QED BY <1>3, <2>1, RollupWrites
<1>5. \A e \in Attached(ids, "PENDING") :
        EarningIs(earning'[e], "SUBMITTED", earning[e].merchant, earning[e].rollup, a)
  <2> TAKE e \in Attached(ids, "PENDING")
  <2>1. earning[e] \in EarningRow
    BY <1>1 DEF RowsTyped
  <2> QED BY <1>2, <2>1, EarningWrites
<1> QED BY <1>4, <1>5 DEF Claims, ClaimedFields

GivenUpFields(a) ==
  /\ \A r \in Rollups : Submitted(rollup[r], a) =>
       RollupIs(rollup'[r], "FAILED", rollup[r].members, None, FALSE)
  /\ \A r \in Rollups : ~Submitted(rollup[r], a) => rollup'[r] = rollup[r]
  /\ \A e \in Earnings : Submitted(earning[e], a) =>
       EarningIs(earning'[e], "PENDING", earning[e].merchant, None, None)
  /\ \A e \in Earnings : ~Submitted(earning[e], a) => earning'[e] = earning[e]

\* Rows after revertBatchToPending.
LEMMA GivenUpRows ==
  ASSUME RowsTyped, NEW a \in Calls, GivesUp(a)
  PROVE  GivenUpFields(a)
  BY RollupWrites, EarningWrites DEF GivesUp, RowsTyped, GivenUpFields

ConfirmedFields(a) ==
  /\ \A r \in Rollups : Submitted(rollup[r], a) =>
       RollupIs(rollup'[r], "CONFIRMED", rollup[r].members, rollup[r].batch, rollup[r].tx)
  /\ \A r \in Rollups : ~Submitted(rollup[r], a) => rollup'[r] = rollup[r]
  /\ \A e \in Earnings : Submitted(earning[e], a) =>
       EarningIs(earning'[e], "CONFIRMED", earning[e].merchant, earning[e].rollup, earning[e].batch)
  /\ \A e \in Earnings : ~Submitted(earning[e], a) => earning'[e] = earning[e]

\* Rows after markBatchConfirmed.
LEMMA ConfirmedRows ==
  ASSUME RowsTyped, NEW a \in Calls, Confirms(a)
  PROVE  ConfirmedFields(a)
  BY RollupWrites, EarningWrites DEF Confirms, RowsTyped, ConfirmedFields

HashedFields(a) ==
  /\ \A r \in Rollups : Submitted(rollup[r], a) =>
       RollupIs(rollup'[r], rollup[r].status, rollup[r].members, rollup[r].batch, TRUE)
  /\ \A r \in Rollups : ~Submitted(rollup[r], a) => rollup'[r] = rollup[r]
  /\ \A e \in Earnings : earning'[e] = earning[e]

\* Rows after the transaction hash is stored.
LEMMA HashedRows ==
  ASSUME RowsTyped, NEW a \in Calls, Hashes(a)
  PROVE  HashedFields(a)
  BY RollupWrites DEF Hashes, RowsTyped, HashedFields

ReconciledFields(confirmed, requeued) ==
  /\ confirmed \subseteq InFlight /\ requeued \subseteq InFlight
  /\ \A r \in confirmed :
       RollupIs(rollup'[r], "CONFIRMED", rollup[r].members, rollup[r].batch, rollup[r].tx)
  /\ \A r \in requeued \ confirmed :
       RollupIs(rollup'[r], "FAILED", rollup[r].members, None, FALSE)
  /\ \A r \in Rollups \ (confirmed \cup requeued) : rollup'[r] = rollup[r]
  /\ \A e \in Attached(confirmed, "SUBMITTED") :
       EarningIs(earning'[e], "CONFIRMED", earning[e].merchant, earning[e].rollup, earning[e].batch)
  /\ \A e \in Attached(requeued, "SUBMITTED") \ Attached(confirmed, "SUBMITTED") :
       EarningIs(earning'[e], "PENDING", earning[e].merchant, None, None)
  /\ \A e \in Earnings \ (Attached(confirmed, "SUBMITTED") \cup Attached(requeued, "SUBMITTED")) :
       earning'[e] = earning[e]

\* Rows after a reconcile call that writes.
LEMMA ReconciledRows ==
  ASSUME RowsTyped, NEW confirmed, NEW requeued, Reconciled(confirmed, requeued)
  PROVE  ReconciledFields(confirmed, requeued)
<1>1. /\ \A e \in Attached(confirmed, "SUBMITTED") : e \in Earnings
      /\ \A e \in Attached(requeued, "SUBMITTED") : e \in Earnings
  BY DEF Attached
<1>2. confirmed \subseteq Rollups /\ requeued \subseteq Rollups
  BY DEF Reconciled, InFlight
<1>3. /\ \A r \in confirmed : rollup'[r] = Confirmed(rollup[r])
      /\ \A r \in requeued \ confirmed : rollup'[r] = Failed(rollup[r])
      /\ \A r \in Rollups \ (confirmed \cup requeued) : rollup'[r] = rollup[r]
  BY <1>2 DEF Reconciled
<1>4. /\ \A e \in Attached(confirmed, "SUBMITTED") : earning'[e] = Confirmed(earning[e])
      /\ \A e \in Attached(requeued, "SUBMITTED") \ Attached(confirmed, "SUBMITTED") :
           earning'[e] = Requeued(earning[e])
      /\ \A e \in Earnings \ (Attached(confirmed, "SUBMITTED") \cup Attached(requeued, "SUBMITTED")) :
           earning'[e] = earning[e]
  BY <1>1 DEF Reconciled
<1>5. /\ \A r \in Rollups : rollup[r] \in RollupRow
      /\ \A e \in Earnings : earning[e] \in EarningRow
  BY DEF RowsTyped
<1> QED BY <1>1, <1>2, <1>3, <1>4, <1>5, RollupWrites, EarningWrites
  DEF Reconciled, ReconciledFields

\* Every step, by the fields it leaves behind.
LEMMA FieldSteps ==
  ASSUME RowsTyped, [Next]_vars
  PROVE  \/ \E e \in Earnings, m \in Merchants : EarnedFields(e, m)
         \/ \E taken, into : RolledFields(taken, into)
         \/ \E a \in Calls, ids \in SUBSET Rollups : ClaimedFields(a, ids)
         \/ \E a \in Calls : GivenUpFields(a)
         \/ \E a \in Calls : ConfirmedFields(a)
         \/ \E a \in Calls : HashedFields(a)
         \/ \E confirmed, requeued : ReconciledFields(confirmed, requeued)
         \/ UNCHANGED <<earning, rollup>>
<1>1. CASE Earned
  BY <1>1, EarnedRows
<1>2. CASE RolledUp
  BY <1>2, RolledRows DEF RolledUp
<1>3. CASE \E a \in Calls, ids \in SUBSET Rollups : Claims(a, ids)
  BY <1>3, ClaimedRows
<1>4. CASE \E a \in Calls : GivesUp(a)
  BY <1>4, GivenUpRows
<1>5. CASE \E a \in Calls : Confirms(a)
  BY <1>5, ConfirmedRows
<1>6. CASE \E a \in Calls : Hashes(a)
  BY <1>6, HashedRows
<1>7. CASE \E confirmed, requeued : Reconciled(confirmed, requeued)
  BY <1>7, ReconciledRows
<1> QED BY <1>1, <1>2, <1>3, <1>4, <1>5, <1>6, <1>7, RowSteps

SoundRollup(row) ==
  /\ row \in RollupRow
  /\ row.batch # None <=> row.status \in {"SUBMITTED", "CONFIRMED"}
  /\ row.tx => row.batch # None

SoundEarning(row) ==
  /\ row \in EarningRow
  /\ row.batch # None <=> row.status \in {"SUBMITTED", "CONFIRMED"}

\* Rows keep their type; a rollup or an earning has a batch only while it is submitted or confirmed.
LEMMA RowsStayTyped ==
  ASSUME RowsTyped, [Next]_vars
  PROVE  RowsTyped'
<1>1. \A r \in Rollups : SoundRollup(rollup[r])
  BY DEF RowsTyped, SoundRollup
<1>2. \A e \in Earnings : SoundEarning(earning[e])
  BY DEF RowsTyped, SoundEarning
<1>3. None \notin Calls
  BY SettlementAssumption
<1>4. rollup' = [r \in Rollups |-> rollup'[r]] /\ earning' = [e \in Earnings |-> earning'[e]]
  BY RowSteps DEF RowsTyped, Earned, RolledUp, Rolled, Claims, GivesUp, Confirms, Hashes, Reconciled
<1>5. ASSUME \A r \in Rollups : SoundRollup(rollup'[r]), \A e \in Earnings : SoundEarning(earning'[e])
      PROVE  RowsTyped'
  BY <1>4, <1>5 DEF RowsTyped, SoundRollup, SoundEarning
<1>6. ASSUME NEW e \in Earnings, NEW m \in Merchants, EarnedFields(e, m)
      PROVE  RowsTyped'
  BY <1>1, <1>2, <1>5, <1>6 DEF EarnedFields, EarningIs, SoundEarning
<1>7. ASSUME NEW taken, NEW into, RolledFields(taken, into)
      PROVE  RowsTyped'
  <2>1. \A r \in Rollups : SoundRollup(rollup'[r])
    BY <1>1, <1>7 DEF RolledFields, RollupIs, SoundRollup
  <2>2. \A e \in Earnings : SoundEarning(earning'[e])
    BY <1>2, <1>7 DEF RolledFields, EarningIs, SoundEarning
  <2> QED BY <1>5, <2>1, <2>2
<1>8. ASSUME NEW a \in Calls, NEW ids \in SUBSET Rollups, ClaimedFields(a, ids)
      PROVE  RowsTyped'
  <2>1. \A r \in Rollups : SoundRollup(rollup'[r])
    BY <1>1, <1>3, <1>8 DEF ClaimedFields, RollupIs, SoundRollup
  <2>2. \A e \in Earnings : SoundEarning(earning'[e])
    BY <1>2, <1>3, <1>8 DEF ClaimedFields, EarningIs, SoundEarning
  <2> QED BY <1>5, <2>1, <2>2
<1>9. ASSUME NEW a \in Calls, GivenUpFields(a)
      PROVE  RowsTyped'
  <2>1. \A r \in Rollups : SoundRollup(rollup'[r])
    BY <1>1, <1>9 DEF GivenUpFields, RollupIs, SoundRollup
  <2>2. \A e \in Earnings : SoundEarning(earning'[e])
    BY <1>2, <1>9 DEF GivenUpFields, EarningIs, SoundEarning
  <2> QED BY <1>5, <2>1, <2>2
<1>10. ASSUME NEW a \in Calls, ConfirmedFields(a)
       PROVE  RowsTyped'
  <2>1. \A r \in Rollups : SoundRollup(rollup'[r])
    BY <1>1, <1>10 DEF ConfirmedFields, RollupIs, SoundRollup, Submitted
  <2>2. \A e \in Earnings : SoundEarning(earning'[e])
    BY <1>2, <1>10 DEF ConfirmedFields, EarningIs, SoundEarning, Submitted
  <2> QED BY <1>5, <2>1, <2>2
<1>11. ASSUME NEW a \in Calls, HashedFields(a)
       PROVE  RowsTyped'
  <2>1. \A r \in Rollups : SoundRollup(rollup'[r])
    BY <1>1, <1>11 DEF HashedFields, RollupIs, SoundRollup, Submitted
  <2>2. \A e \in Earnings : SoundEarning(earning'[e])
    BY <1>2, <1>11 DEF HashedFields
  <2> QED BY <1>5, <2>1, <2>2
<1>12. ASSUME NEW confirmed, NEW requeued, ReconciledFields(confirmed, requeued)
       PROVE  RowsTyped'
  <2>1. \A r \in Rollups : SoundRollup(rollup'[r])
    BY <1>1, <1>12 DEF ReconciledFields, InFlight, RollupIs, SoundRollup
  <2>2. \A e \in Earnings : SoundEarning(earning'[e])
    BY <1>2, <1>12 DEF ReconciledFields, Attached, EarningIs, SoundEarning
  <2> QED BY <1>5, <2>1, <2>2
<1>13. CASE UNCHANGED <<earning, rollup>>
  BY <1>13, <1>1, <1>2, <1>5
<1> QED BY <1>6, <1>7, <1>8, <1>9, <1>10, <1>11, <1>12, <1>13, FieldSteps

\* The two halves of the mirror, for one earning and for one member of a rollup.
Pointing(e) == earning[e].rollup # None => e \in rollup[earning[e].rollup].members

Mirrored(r, e) ==
  IF rollup[r].status = "FAILED" THEN earning[e].rollup # r
  ELSE /\ earning[e].rollup = r
       /\ earning[e].status = rollup[r].status
       /\ earning[e].batch = rollup[r].batch

\* No step breaks the mirror: what finds a rollup finds all its earnings.
LEMMA MirrorStays ==
  ASSUME RowsTyped, EarningsMirrorRollups, [Next]_vars
  PROVE  EarningsMirrorRollups'
<1>1. \A e \in Earnings : Pointing(e)
  BY DEF EarningsMirrorRollups, Pointing
<1>2. \A r \in Rollups : \A e \in rollup[r].members : Mirrored(r, e)
  BY DEF EarningsMirrorRollups, Mirrored
<1>3. /\ \A r \in Rollups : rollup[r].members \subseteq Earnings
      /\ \A e \in Earnings : earning[e].rollup \in Rollups \cup {None}
      /\ \A e \in Earnings :
           earning[e].batch # None <=> earning[e].status \in {"SUBMITTED", "CONFIRMED"}
      /\ \A r \in Rollups :
           rollup[r].batch # None <=> rollup[r].status \in {"SUBMITTED", "CONFIRMED"}
  BY DEF RowsTyped, RollupRow, EarningRow
<1>4. None \notin Calls /\ None \notin Rollups
  BY SettlementAssumption
<1>5. ASSUME NEW e0 \in Earnings, NEW m \in Merchants, EarnedFields(e0, m)
      PROVE  EarningsMirrorRollups'
  <2>1. ASSUME NEW e \in Earnings
        PROVE  Pointing(e)'
    BY <1>1, <1>2, <1>3, <1>4, <1>5 DEF EarnedFields, EarningIs, NoEarning, Pointing, Mirrored
  <2>2. ASSUME NEW r \in Rollups, NEW e \in rollup'[r].members
        PROVE  Mirrored(r, e)'
    BY <1>1, <1>2, <1>3, <1>4, <1>5, <2>2 DEF EarnedFields, EarningIs, NoEarning, Pointing, Mirrored
  <2> QED BY <2>1, <2>2 DEF EarningsMirrorRollups, Pointing, Mirrored
<1>6. ASSUME NEW taken, NEW into, RolledFields(taken, into)
      PROVE  EarningsMirrorRollups'
  <2>1. ASSUME NEW e \in Earnings
        PROVE  Pointing(e)'
    BY <1>1, <1>2, <1>3, <1>4, <1>6
    DEF RolledFields, Fresh, NoRollup, RollupIs, EarningIs, Pointing, Mirrored
  <2>2. ASSUME NEW r \in Rollups, NEW e \in rollup'[r].members
        PROVE  Mirrored(r, e)'
    BY <1>1, <1>2, <1>3, <1>4, <1>6, <2>2
    DEF RolledFields, Fresh, NoRollup, RollupIs, EarningIs, Pointing, Mirrored
  <2> QED BY <2>1, <2>2 DEF EarningsMirrorRollups, Pointing, Mirrored
<1>7. ASSUME NEW a \in Calls, NEW ids \in SUBSET Rollups, ClaimedFields(a, ids)
      PROVE  EarningsMirrorRollups'
  <2>1. ASSUME NEW e \in Earnings
        PROVE  Pointing(e)'
    BY <1>1, <1>2, <1>3, <1>4, <1>7 DEF ClaimedFields, Attached, RollupIs, EarningIs, Pointing, Mirrored
  <2>2. ASSUME NEW r \in Rollups, NEW e \in rollup'[r].members
        PROVE  Mirrored(r, e)'
    BY <1>1, <1>2, <1>3, <1>4, <1>7, <2>2 DEF ClaimedFields, Attached, RollupIs, EarningIs, Pointing, Mirrored
  <2> QED BY <2>1, <2>2 DEF EarningsMirrorRollups, Pointing, Mirrored
<1>8. ASSUME NEW a \in Calls, GivenUpFields(a)
      PROVE  EarningsMirrorRollups'
  <2>1. ASSUME NEW e \in Earnings
        PROVE  Pointing(e)'
    BY <1>1, <1>2, <1>3, <1>4, <1>8 DEF GivenUpFields, Submitted, RollupIs, EarningIs, Pointing, Mirrored
  <2>2. ASSUME NEW r \in Rollups, NEW e \in rollup'[r].members
        PROVE  Mirrored(r, e)'
    BY <1>1, <1>2, <1>3, <1>4, <1>8, <2>2 DEF GivenUpFields, Submitted, RollupIs, EarningIs, Pointing, Mirrored
  <2> QED BY <2>1, <2>2 DEF EarningsMirrorRollups, Pointing, Mirrored
<1>9. ASSUME NEW a \in Calls, ConfirmedFields(a)
      PROVE  EarningsMirrorRollups'
  <2>1. ASSUME NEW e \in Earnings
        PROVE  Pointing(e)'
    BY <1>1, <1>2, <1>3, <1>4, <1>9
    DEF ConfirmedFields, Submitted, RollupIs, EarningIs, Pointing, Mirrored
  <2>2. ASSUME NEW r \in Rollups, NEW e \in rollup'[r].members
        PROVE  Mirrored(r, e)'
    BY <1>1, <1>2, <1>3, <1>4, <1>9, <2>2
    DEF ConfirmedFields, Submitted, RollupIs, EarningIs, Pointing, Mirrored
  <2> QED BY <2>1, <2>2 DEF EarningsMirrorRollups, Pointing, Mirrored
<1>10. ASSUME NEW a \in Calls, HashedFields(a)
       PROVE  EarningsMirrorRollups'
  <2>1. ASSUME NEW e \in Earnings
        PROVE  Pointing(e)'
    BY <1>1, <1>2, <1>3, <1>4, <1>10 DEF HashedFields, Submitted, RollupIs, Pointing, Mirrored
  <2>2. ASSUME NEW r \in Rollups, NEW e \in rollup'[r].members
        PROVE  Mirrored(r, e)'
    BY <1>1, <1>2, <1>3, <1>4, <1>10, <2>2 DEF HashedFields, Submitted, RollupIs, Pointing, Mirrored
  <2> QED BY <2>1, <2>2 DEF EarningsMirrorRollups, Pointing, Mirrored
<1>11. ASSUME NEW confirmed, NEW requeued, ReconciledFields(confirmed, requeued)
       PROVE  EarningsMirrorRollups'
  <2>1. ASSUME NEW e \in Earnings
        PROVE  Pointing(e)'
    BY <1>1, <1>2, <1>3, <1>4, <1>11
    DEF ReconciledFields, InFlight, Attached, RollupIs, EarningIs, Pointing, Mirrored
  <2>2. ASSUME NEW r \in Rollups, NEW e \in rollup'[r].members
        PROVE  Mirrored(r, e)'
    BY <1>1, <1>2, <1>3, <1>4, <1>11, <2>2
    DEF ReconciledFields, InFlight, Attached, RollupIs, EarningIs, Pointing, Mirrored
  <2> QED BY <2>1, <2>2 DEF EarningsMirrorRollups, Pointing, Mirrored
<1>12. CASE UNCHANGED <<earning, rollup>>
  BY <1>12 DEF EarningsMirrorRollups
<1> QED BY <1>5, <1>6, <1>7, <1>8, <1>9, <1>10, <1>11, <1>12, FieldSteps

-----------------------------------------------------------------------------
(***************************************************************************)
(* The rest of the types.                                                  *)
(***************************************************************************)
RestTyped ==
  /\ batch \in [Calls -> {"NONE", "OPEN", "SUBMITTED", "CONFIRMED", "FAILED"}]
  /\ recent \subseteq Calls
  /\ call \in [Calls -> {"idle", "checked", "rolled", "claimed", "sent", "failed",
                         "confirming", "reverting", "done"}]
  /\ payload \in [Calls -> SUBSET Rollups]
  /\ chain \in [Calls -> {"unsent", "pending", "success", "reverted", "dropped"}]
  /\ lost \subseteq Calls
  /\ picked \in [Reconcilers -> [active : BOOLEAN, rollups : SUBSET Rollups, hashed : SUBSET Rollups]]

\* The statuses from which reconcile derives the status of a batch.
StatusesAfter(a, requeued) ==
  {rollup'[r].status : r \in {r \in Rollups : rollup'[r].batch = a}}
    \cup {"FAILED" : r \in {r \in requeued : BatchOf(r) = a}}

Derived(rs, requeued) ==
  {a \in {BatchOf(r) : r \in rs} : StatusesAfter(a, requeued) # {}}

\* Reconcile also derives the status of the batches it touched.
LEMMA WriteDerives ==
  ASSUME NEW rs, NEW confirmed, NEW requeued, Write(rs, confirmed, requeued)
  PROVE  \/ /\ Reconciled(confirmed, requeued)
            /\ batch' = [a \in Calls |-> IF a \in Derived(rs, requeued)
                                         THEN deriveBatchStatusUpdate(StatusesAfter(a, requeued))
                                         ELSE batch[a]]
            /\ recent' = recent \cup Derived(rs, requeued)
         \/ UNCHANGED rows
  BY DEF Write, Reconciled, Derived, StatusesAfter

\* Calls, payloads, batches and selections keep their types.
LEMMA RestStaysTyped ==
  ASSUME RestTyped, Claimed, [Next]_vars
  PROVE  RestTyped'
<1> USE DEF RestTyped, Goto
<1>1. CASE UNCHANGED vars
  BY <1>1 DEF vars, rows
<1>2. CASE \E e \in Earnings, m \in Merchants : Earn(e, m)
  BY <1>2 DEF Earn
<1>3. ASSUME NEW a \in Calls, BeginAllocate(a) \/ CreateRollups(a) \/ BroadcastRefused(a)
                              \/ ReadProcessed(a) \/ Dies(a) \/ CooldownPasses(a)
      PROVE  RestTyped'
  BY <1>3 DEF BeginAllocate, CreateRollups, BroadcastRefused, ReadProcessed, Dies, CooldownPasses, rows
<1>4. ASSUME NEW a \in Calls, ClaimBatch(a)
      PROVE  RestTyped'
  <2>1. PICK ids \in SUBSET {r \in Rollups : rollup[r].status = "PENDING"} :
          /\ batch' = [batch EXCEPT ![a] = "OPEN"]
          /\ recent' = recent \cup {a}
          /\ payload' = [payload EXCEPT ![a] = ids]
    BY <1>4 DEF ClaimBatch
  <2>2. payload' \in [Calls -> SUBSET Rollups]
    BY <2>1
  <2> QED BY <1>4, <2>1, <2>2 DEF ClaimBatch
<1>5. ASSUME NEW a \in Calls, GasTooHigh(a) \/ RevertAfterFailure(a) \/ ConfirmAfterFailure(a)
      PROVE  RestTyped'
  BY <1>5 DEF GasTooHigh, RevertAfterFailure, ConfirmAfterFailure, revertBatchToPending, markBatchConfirmed
<1>6. ASSUME NEW a \in Calls, Broadcast(a) \/ BroadcastUnheard(a) \/ StoreHash(a) \/ StoreHashFails(a)
      PROVE  RestTyped'
  BY <1>6 DEF Broadcast, BroadcastUnheard, StoreHash, StoreHashFails, rows
<1>7. ASSUME NEW a \in Calls, Resolve(a)
      PROVE  RestTyped'
  BY <1>7 DEF Resolve, rows
<1>8. ASSUME NEW c \in Reconcilers, Select(c)
      PROVE  RestTyped'
  <2>1. PICK rs \in SUBSET InFlight :
          picked' = [picked EXCEPT ![c] =
            [active |-> TRUE, rollups |-> rs, hashed |-> {r \in rs : rollup[r].tx}]]
    BY <1>8 DEF Select
  <2>2. rs \in SUBSET Rollups /\ {r \in rs : rollup[r].tx} \in SUBSET Rollups
    BY DEF InFlight
  <2>3. picked' \in [Reconcilers -> [active : BOOLEAN, rollups : SUBSET Rollups, hashed : SUBSET Rollups]]
    BY <2>1, <2>2
  <2> QED BY <1>8, <2>3 DEF Select, rows
<1>9. ASSUME NEW c \in Reconcilers, Reconcile(c) \/ ReconcileFails(c)
      PROVE  RestTyped'
  <2>1. picked' \in [Reconcilers -> [active : BOOLEAN, rollups : SUBSET Rollups, hashed : SUBSET Rollups]]
    <3>1. picked' = [picked EXCEPT ![c] = NothingPicked]
      BY <1>9 DEF Reconcile, Finish, ReconcileFails
    <3>2. NothingPicked \in [active : BOOLEAN, rollups : SUBSET Rollups, hashed : SUBSET Rollups]
      BY DEF NothingPicked
    <3> QED BY <3>1, <3>2
  <2>2. CASE ReconcileFails(c)
    BY <2>1, <2>2 DEF ReconcileFails, rows
  <2>3. CASE Reconcile(c)
    <3>1. PICK confirmed, requeued : Write(picked[c].rollups, confirmed, requeued)
      BY <2>3 DEF Reconcile, Finish
    <3>2. \A r \in picked[c].rollups : BatchOf(r) \in Calls
      BY BatchFound DEF Claimed
    <3>3. Derived(picked[c].rollups, requeued) \subseteq Calls
      BY <3>2 DEF Derived
    <3>4. \A a \in Calls :
            deriveBatchStatusUpdate(StatusesAfter(a, requeued)) \in {"SUBMITTED", "CONFIRMED", "FAILED"}
      BY DEF deriveBatchStatusUpdate
    <3>5. CASE UNCHANGED rows
      BY <2>1, <2>3, <3>5 DEF Reconcile, Finish, rows
    <3>6. CASE /\ batch' = [a \in Calls |-> IF a \in Derived(picked[c].rollups, requeued)
                                           THEN deriveBatchStatusUpdate(StatusesAfter(a, requeued))
                                           ELSE batch[a]]
               /\ recent' = recent \cup Derived(picked[c].rollups, requeued)
      BY <2>1, <2>3, <3>3, <3>4, <3>6 DEF Reconcile, Finish
    <3> QED BY <3>1, <3>5, <3>6, WriteDerives
  <2> QED BY <1>9, <2>2, <2>3
<1> QED BY <1>1, <1>2, <1>3, <1>4, <1>5, <1>6, <1>7, <1>8, <1>9 DEF Next

\* TypeOK in two parts.
LEMMA TypeSplit == TypeOK <=> RowsTyped /\ RestTyped
  BY DEF TypeOK, RowsTyped, RestTyped

-----------------------------------------------------------------------------
(***************************************************************************)
(* Payloads.                                                               *)
(***************************************************************************)
\* What ClaimBatch does, with the rollups it chose named.
LEMMA BatchClaims ==
  ASSUME TypeOK, NEW a \in Calls, ClaimBatch(a)
  PROVE  \E ids \in SUBSET Rollups :
           /\ ClaimedFields(a, ids)
           /\ payload' = [payload EXCEPT ![a] = ids]
           /\ batch' = [batch EXCEPT ![a] = "OPEN"]
           /\ call[a] = "rolled"
           /\ call' = [call EXCEPT ![a] = "claimed"]
           /\ UNCHANGED <<chain, lost, picked>>
<1>1. PICK ids \in SUBSET {r \in Rollups : rollup[r].status = "PENDING"} :
        /\ Claims(a, ids)
        /\ payload' = [payload EXCEPT ![a] = ids]
        /\ batch' = [batch EXCEPT ![a] = "OPEN"]
  BY DEF ClaimBatch, Claims
<1>2. ClaimedFields(a, ids)
  BY <1>1, ClaimedRows, TypeSplit
<1> QED BY <1>1, <1>2 DEF ClaimBatch, Goto

\* What a reconcile call does when it writes.
ReconcileWrites(c, confirmed, requeued) ==
  /\ confirmed \subseteq Confirmable(c)
  /\ requeued \subseteq Requeueable(c)
  /\ ReconciledFields(confirmed, requeued)
  /\ batch' = [a \in Calls |-> IF a \in Derived(picked[c].rollups, requeued)
                               THEN deriveBatchStatusUpdate(StatusesAfter(a, requeued))
                               ELSE batch[a]]

\* A reconcile call writes what its reads support, or nothing, and forgets its selection.
LEMMA ReconcileSteps ==
  ASSUME TypeOK, NEW c \in Reconcilers, Reconcile(c)
  PROVE  /\ (\E confirmed, requeued : ReconcileWrites(c, confirmed, requeued)) \/ UNCHANGED rows
         /\ picked' = [picked EXCEPT ![c] = NothingPicked]
         /\ UNCHANGED <<call, payload, chain, lost>>
<1>1. PICK confirmed \in SUBSET Confirmable(c), requeued \in SUBSET Requeueable(c) :
        Finish(c, confirmed, requeued)
  BY DEF Reconcile
<1>2. Write(picked[c].rollups, confirmed, requeued)
  BY <1>1 DEF Finish
<1>3. Reconciled(confirmed, requeued) => ReconciledFields(confirmed, requeued)
  BY ReconciledRows, TypeSplit
<1> QED BY <1>1, <1>2, <1>3, WriteDerives DEF Finish, ReconcileWrites

\* Every rollup that has been claimed stays in the one payload it is in.
LEMMA ClaimedStays ==
  ASSUME TypeOK, Claimed, [Next]_vars
  PROVE  Claimed'
<1>1. RowsTyped /\ RestTyped
  BY TypeSplit
<1>2. None \notin Calls /\ None \notin Rollups
  BY SettlementAssumption
<1>3. CASE UNCHANGED vars
  BY <1>3 DEF vars, rows, Claimed
<1>4. ASSUME NEW e0 \in Earnings, NEW m \in Merchants, Earn(e0, m)
      PROVE  Claimed'
  <2>1. \E e \in Earnings, n \in Merchants : EarnedFields(e, n)
    BY <1>1, <1>4, EarnedRows DEF Earned, Earn
  <2> QED BY <1>4, <2>1 DEF Earn, EarnedFields, EarningIs, Claimed
<1>5. ASSUME NEW a \in Calls,
             \/ BeginAllocate(a) \/ CooldownPasses(a) \/ Broadcast(a) \/ BroadcastUnheard(a)
             \/ BroadcastRefused(a) \/ StoreHashFails(a) \/ ReadProcessed(a) \/ Dies(a) \/ Resolve(a)
      PROVE  Claimed'
  BY <1>1, <1>5 DEF BeginAllocate, CooldownPasses, Broadcast, BroadcastUnheard, BroadcastRefused,
       StoreHashFails, ReadProcessed, Dies, Resolve, rows, Goto, Claimed, RestTyped
<1>6. ASSUME NEW a \in Calls, CreateRollups(a)
      PROVE  Claimed'
  <2>1. PICK taken, into : RolledFields(taken, into)
    BY <1>1, <1>6, RollupsCreated, RolledRows
  <2>2. call' = [call EXCEPT ![a] = "rolled"] /\ call[a] = "checked" /\ UNCHANGED <<payload, picked>>
    BY <1>6 DEF CreateRollups, Goto
  <2> QED BY <1>1, <1>2, <2>1, <2>2 DEF RolledFields, Fresh, NoRollup, RollupIs, EarningIs, Claimed, RestTyped
<1>7. ASSUME NEW a \in Calls, ClaimBatch(a)
      PROVE  Claimed'
  <2>1. PICK ids \in SUBSET Rollups :
           /\ ClaimedFields(a, ids)
           /\ payload' = [payload EXCEPT ![a] = ids]
           /\ call[a] = "rolled"
           /\ call' = [call EXCEPT ![a] = "claimed"]
           /\ UNCHANGED picked
    BY <1>7, BatchClaims
  <2>2. payload[a] = {} /\ payload'[a] = ids /\ \A b \in Calls : b # a => payload'[b] = payload[b]
    BY <1>1, <2>1 DEF Claimed, RestTyped
  <2> QED BY <1>1, <1>2, <2>1, <2>2 DEF ClaimedFields, Attached, RollupIs, EarningIs, Claimed, RestTyped
<1>8. ASSUME NEW a \in Calls, GasTooHigh(a) \/ RevertAfterFailure(a)
      PROVE  Claimed'
  <2>1. GivenUpFields(a)
    BY <1>1, <1>8, GivenUpRows DEF GasTooHigh, RevertAfterFailure, revertBatchToPending, GivesUp
  <2>2. call' = [call EXCEPT ![a] = "done"] /\ UNCHANGED <<payload, picked>>
    BY <1>8 DEF GasTooHigh, RevertAfterFailure, Goto
  <2> QED BY <1>1, <2>1, <2>2 DEF GivenUpFields, RollupIs, EarningIs, Submitted, Claimed, RestTyped
<1>9. ASSUME NEW a \in Calls, ConfirmAfterFailure(a)
      PROVE  Claimed'
  <2>1. ConfirmedFields(a)
    BY <1>1, <1>9, ConfirmedRows DEF ConfirmAfterFailure, markBatchConfirmed, Confirms
  <2>2. call' = [call EXCEPT ![a] = "done"] /\ UNCHANGED <<payload, picked>>
    BY <1>9 DEF ConfirmAfterFailure, Goto
  <2> QED BY <1>1, <2>1, <2>2 DEF ConfirmedFields, RollupIs, EarningIs, Claimed, RestTyped
<1>10. ASSUME NEW a \in Calls, StoreHash(a)
       PROVE  Claimed'
  <2>1. HashedFields(a)
    BY <1>1, <1>10, HashedRows DEF StoreHash, Hashes
  <2>2. call' = [call EXCEPT ![a] = "done"] /\ UNCHANGED <<payload, picked>>
    BY <1>10 DEF StoreHash, Goto
  <2> QED BY <1>1, <2>1, <2>2 DEF HashedFields, RollupIs, Claimed, RestTyped
<1>11. ASSUME NEW c \in Reconcilers, Select(c)
       PROVE  Claimed'
  <2>1. PICK rs \in SUBSET InFlight :
          picked' = [picked EXCEPT ![c] =
            [active |-> TRUE, rollups |-> rs, hashed |-> {r \in rs : rollup[r].tx}]]
    BY <1>11 DEF Select
  <2>2. picked'[c].rollups = rs /\ \A other \in Reconcilers : other # c => picked'[other] = picked[other]
    BY <1>1, <2>1 DEF RestTyped
  <2>3. \A r \in rs : \E a \in Calls : r \in payload[a]
    BY <1>1, <1>2 DEF InFlight, Claimed, RowsTyped, RollupRow
  <2> QED BY <1>11, <2>2, <2>3 DEF Select, rows, Claimed
<1>12. ASSUME NEW c \in Reconcilers, Reconcile(c)
       PROVE  Claimed'
  <2>1. /\ \A r \in picked'[c].rollups : FALSE
        /\ \A other \in Reconcilers : other # c => picked'[other] = picked[other]
        /\ UNCHANGED <<call, payload>>
    BY <1>1, <1>12, ReconcileSteps DEF RestTyped, NothingPicked
  <2>2. CASE \E confirmed, requeued : ReconcileWrites(c, confirmed, requeued)
    <3>1. PICK confirmed, requeued : ReconciledFields(confirmed, requeued)
      BY <2>2 DEF ReconcileWrites
    <3>2. \A r \in Rollups :
            /\ rollup[r].status \in {"SUBMITTED", "CONFIRMED", "FAILED"}
                 => rollup'[r].status \in {"SUBMITTED", "CONFIRMED", "FAILED"}
            /\ rollup'[r].batch \in {rollup[r].batch, None}
      BY <3>1 DEF ReconciledFields, InFlight, RollupIs
    <3>3. \A e \in Earnings : earning'[e].batch # None => earning'[e].rollup # None
      BY <3>1 DEF ReconciledFields, Attached, EarningIs, Claimed
    <3>4. \A a \in Calls : payload[a] \subseteq Rollups
      BY <1>1 DEF RestTyped
    <3> QED BY <2>1, <3>2, <3>3, <3>4 DEF Claimed
  <2>3. CASE UNCHANGED rows
    BY <2>1, <2>3 DEF rows, Claimed
  <2> QED BY <1>12, <2>2, <2>3, ReconcileSteps
<1>13. ASSUME NEW c \in Reconcilers, ReconcileFails(c)
       PROVE  Claimed'
  BY <1>1, <1>13 DEF ReconcileFails, NothingPicked, rows, Claimed, RestTyped
<1> QED
  BY <1>3, <1>4, <1>5, <1>6, <1>7, <1>8, <1>9, <1>10, <1>11, <1>12, <1>13 DEF Next

-----------------------------------------------------------------------------
(***************************************************************************)
(* The chain, and what the database makes of it.                           *)
(***************************************************************************)
Story == Claimed /\ Sent /\ GivenUp /\ BatchTellsRollups

\* A rollup that a call's batch holds is in that call's payload and in no other.
LEMMA PayloadOf ==
  ASSUME TypeOK, Claimed, NEW r \in Rollups, rollup[r].batch # None
  PROVE  /\ rollup[r].batch \in Calls
         /\ r \in payload[rollup[r].batch]
         /\ BatchOf(r) = rollup[r].batch
         /\ \A a \in Calls : r \in payload[a] => a = rollup[r].batch
<1>1. rollup[r].batch \in Calls
  BY DEF TypeOK, RollupRow
<1>2. r \in payload[rollup[r].batch]
  BY DEF Claimed
<1> QED BY <1>1, <1>2, BatchFound DEF Claimed

\* Steps of a call that write no row: they move the call, the chain and the set of lost calls.
LEMMA CallSteps ==
  ASSUME TypeOK, Story, NEW a \in Calls,
         \/ BeginAllocate(a) \/ CooldownPasses(a) \/ Broadcast(a) \/ BroadcastUnheard(a)
         \/ BroadcastRefused(a) \/ StoreHashFails(a) \/ ReadProcessed(a) \/ Dies(a) \/ Resolve(a)
  PROVE  Sent' /\ GivenUp' /\ BatchTellsRollups'
<1>1. RowsTyped /\ RestTyped
  BY TypeSplit
<1>2. UNCHANGED <<earning, rollup, batch, payload, picked>>
  BY DEF BeginAllocate, CooldownPasses, Broadcast, BroadcastUnheard, BroadcastRefused,
         StoreHashFails, ReadProcessed, Dies, Resolve, rows
<1>3. /\ \A b \in Calls : b # a => call'[b] = call[b] /\ chain'[b] = chain[b]
      /\ lost \subseteq lost' /\ lost' \subseteq lost \cup {a}
  BY <1>1 DEF BeginAllocate, CooldownPasses, Broadcast, BroadcastUnheard, BroadcastRefused,
         StoreHashFails, ReadProcessed, Dies, Resolve, rows, Goto, RestTyped
<1>4. chain[a] \in {"success", "reverted"} => chain'[a] = chain[a]
  BY <1>1 DEF BeginAllocate, CooldownPasses, Broadcast, BroadcastUnheard, BroadcastRefused,
         StoreHashFails, ReadProcessed, Dies, Resolve, rows, Goto, RestTyped, Story, Sent
<1>5. chain[a] = "unsent" /\ call[a] = "done" => chain'[a] = "unsent" /\ call'[a] = "done"
  BY <1>1 DEF BeginAllocate, CooldownPasses, Broadcast, BroadcastUnheard, BroadcastRefused,
         StoreHashFails, ReadProcessed, Dies, Resolve, rows, Goto, RestTyped
<1>6. /\ call'[a] \in {"idle", "checked", "rolled", "claimed"} => chain'[a] = "unsent"
      /\ call'[a] \in {"failed", "confirming", "reverting"} => chain'[a] = "unsent" \/ a \in lost'
      /\ call'[a] = "confirming" => chain'[a] = "success"
  BY <1>1 DEF BeginAllocate, CooldownPasses, Broadcast, BroadcastUnheard, BroadcastRefused,
         StoreHashFails, ReadProcessed, Dies, Resolve, rows, Goto, RestTyped, Story, Sent
<1>7. \A r \in Rollups : rollup[r].status = "CONFIRMED" => chain'[rollup[r].batch] = "success"
  BY <1>1, <1>3, <1>4, PayloadOf DEF Story, Sent, RowsTyped
<1>8. Sent'
  BY <1>2, <1>3, <1>6, <1>7 DEF Sent, Story
<1>9. GivenUp'
  BY <1>2, <1>3, <1>4, <1>5 DEF GivenUp, Story
<1>10. BatchTellsRollups'
  BY <1>2, <1>3 DEF BatchTellsRollups, Story
<1> QED BY <1>8, <1>9, <1>10

\* A call that gives its batch up, or confirms it, or claims it.
LEMMA BatchSteps ==
  ASSUME TypeOK, Story, NEW a \in Calls,
         GasTooHigh(a) \/ RevertAfterFailure(a) \/ ConfirmAfterFailure(a) \/ StoreHash(a) \/ ClaimBatch(a)
  PROVE  Sent' /\ GivenUp' /\ BatchTellsRollups'
<1>1. RowsTyped /\ RestTyped
  BY TypeSplit
<1>2. \A r \in Rollups : Submitted(rollup[r], a) =>
        r \in payload[a] /\ \A b \in Calls : r \in payload[b] => b = a
  BY <1>1, PayloadOf, SettlementAssumption DEF Submitted, Story
<1>3. \A r \in payload[a] : r \in Rollups /\ (rollup[r].status = "SUBMITTED" => Submitted(rollup[r], a))
  <2>1. \A r \in payload[a] : r \in Rollups
    BY <1>1 DEF RestTyped
  <2>2. \A r \in Rollups : rollup[r].status = "SUBMITTED" => rollup[r].batch # None
    BY <1>1 DEF RowsTyped
  <2> QED BY <2>1, <2>2, PayloadOf DEF Submitted, Story
<1>4. CASE GasTooHigh(a) \/ RevertAfterFailure(a)
  <2>1. GivenUpFields(a)
    BY <1>1, <1>4, GivenUpRows DEF GasTooHigh, RevertAfterFailure, revertBatchToPending, GivesUp
  <2>2. /\ call[a] \in {"claimed", "reverting"}
        /\ call'[a] = "done" /\ \A b \in Calls : b # a => call'[b] = call[b]
        /\ batch'[a] = "FAILED" /\ \A b \in Calls : b # a => batch'[b] = batch[b]
        /\ UNCHANGED <<payload, chain, lost>>
    BY <1>1, <1>4 DEF GasTooHigh, RevertAfterFailure, revertBatchToPending, Goto, RestTyped
  <2>3. a \in lost \/ chain[a] = "unsent"
    BY <2>2 DEF Story, Sent
  <2>4. \A r \in Rollups : rollup'[r].status # rollup[r].status =>
          r \in payload[a] /\ rollup'[r].status = "FAILED"
    BY <1>2, <2>1 DEF GivenUpFields, RollupIs
  <2>5. \A r \in Rollups : rollup'[r].status = "CONFIRMED" =>
          rollup[r].status = "CONFIRMED" /\ rollup'[r].batch = rollup[r].batch
    BY <2>1 DEF GivenUpFields, RollupIs
  <2>6. Sent'
    BY <2>2, <2>5 DEF Sent, Story
  <2>7. GivenUp'
    BY <1>1, <2>2, <2>3, <2>4 DEF GivenUp, Story, Claimed, RestTyped
  <2>8. \A r \in payload[a] : rollup'[r].status # "SUBMITTED"
    BY <1>3, <2>1 DEF GivenUpFields, RollupIs
  <2>9. BatchTellsRollups'
    BY <1>1, <2>2, <2>4, <2>8 DEF BatchTellsRollups, Story, Claimed, RestTyped
  <2> QED BY <2>6, <2>7, <2>9
<1>5. CASE ConfirmAfterFailure(a)
  <2>1. ConfirmedFields(a)
    BY <1>1, <1>5, ConfirmedRows DEF ConfirmAfterFailure, markBatchConfirmed, Confirms
  <2>2. /\ call[a] = "confirming"
        /\ call'[a] = "done" /\ \A b \in Calls : b # a => call'[b] = call[b]
        /\ batch'[a] = "CONFIRMED" /\ \A b \in Calls : b # a => batch'[b] = batch[b]
        /\ UNCHANGED <<payload, chain, lost>>
    BY <1>1, <1>5 DEF ConfirmAfterFailure, markBatchConfirmed, Goto, RestTyped
  <2>3. a \in lost /\ chain[a] = "success"
    BY <2>2 DEF Story, Sent
  <2>4. \A r \in Rollups : rollup'[r].status # rollup[r].status =>
          r \in payload[a] /\ rollup'[r].status = "CONFIRMED"
    BY <1>2, <2>1 DEF ConfirmedFields, RollupIs
  <2>5. \A r \in Rollups : rollup'[r].status = "CONFIRMED" =>
          rollup'[r].batch = a \/ (rollup[r].status = "CONFIRMED" /\ rollup'[r].batch = rollup[r].batch)
    BY <2>1 DEF ConfirmedFields, RollupIs, Submitted
  <2>6. Sent'
    BY <2>2, <2>3, <2>5 DEF Sent, Story
  <2>7. GivenUp'
    BY <1>1, <2>2, <2>3, <2>4 DEF GivenUp, Story, RestTyped
  <2>8. \A r \in payload[a] : rollup'[r].status \in {"CONFIRMED", "FAILED"}
    BY <1>3, <2>1 DEF ConfirmedFields, RollupIs, Story, Claimed
  <2>9. BatchTellsRollups'
    BY <1>1, <2>2, <2>3, <2>4, <2>8 DEF BatchTellsRollups, Story, Claimed, RestTyped
  <2> QED BY <2>6, <2>7, <2>9
<1>6. CASE StoreHash(a)
  <2>1. HashedFields(a)
    BY <1>1, <1>6, HashedRows DEF StoreHash, Hashes
  <2>2. /\ call[a] = "sent"
        /\ call'[a] = "done" /\ \A b \in Calls : b # a => call'[b] = call[b]
        /\ batch'[a] = "SUBMITTED" /\ \A b \in Calls : b # a => batch'[b] = batch[b]
        /\ UNCHANGED <<payload, chain, lost>>
    BY <1>1, <1>6 DEF StoreHash, Goto, RestTyped
  <2>3. \A r \in Rollups : rollup'[r].status = rollup[r].status /\ rollup'[r].batch = rollup[r].batch
    BY <2>1 DEF HashedFields, RollupIs
  <2> QED BY <1>1, <2>2, <2>3 DEF Sent, GivenUp, BatchTellsRollups, Story, RestTyped
<1>7. CASE ClaimBatch(a)
  <2>1. PICK ids \in SUBSET Rollups :
          /\ ClaimedFields(a, ids)
          /\ payload' = [payload EXCEPT ![a] = ids]
          /\ batch' = [batch EXCEPT ![a] = "OPEN"]
          /\ call[a] = "rolled"
          /\ call' = [call EXCEPT ![a] = "claimed"]
          /\ UNCHANGED <<chain, lost, picked>>
    BY <1>7, BatchClaims
  <2>2. /\ call'[a] = "claimed" /\ \A b \in Calls : b # a => call'[b] = call[b]
        /\ batch'[a] = "OPEN" /\ \A b \in Calls : b # a => batch'[b] = batch[b]
        /\ payload'[a] = ids /\ \A b \in Calls : b # a => payload'[b] = payload[b]
    BY <1>1, <2>1 DEF RestTyped
  <2>3. \A b \in Calls : \A r \in payload[b] : rollup'[r] = rollup[r]
    BY <1>1, <2>1 DEF ClaimedFields, Story, Claimed, RestTyped
  <2>4. \A r \in ids : rollup'[r].status = "SUBMITTED"
    BY <2>1 DEF ClaimedFields, RollupIs
  <2>5. \A r \in Rollups : rollup'[r].status = "CONFIRMED" => rollup'[r] = rollup[r]
    BY <2>1, <2>4 DEF ClaimedFields
  <2>6. Sent'
    BY <2>1, <2>2, <2>5 DEF Sent, Story
  <2>7. GivenUp'
    BY <2>1, <2>2, <2>3, <2>4 DEF GivenUp, Story
  <2>8. BatchTellsRollups'
    BY <2>1, <2>2, <2>3, <2>4 DEF BatchTellsRollups, Story
  <2> QED BY <2>6, <2>7, <2>8
<1> QED BY <1>4, <1>5, <1>6, <1>7

\* A reconcile call that writes.
LEMMA ReconcileKeepsStory ==
  ASSUME TypeOK, Story, NEW c \in Reconcilers, Reconcile(c)
  PROVE  Sent' /\ GivenUp' /\ BatchTellsRollups'
<1>1. RowsTyped /\ RestTyped
  BY TypeSplit
<1>2. UNCHANGED <<call, payload, chain, lost>>
  BY ReconcileSteps
<1>3. CASE UNCHANGED rows
  BY <1>2, <1>3 DEF rows, Sent, GivenUp, BatchTellsRollups, Story
<1>4. ASSUME NEW confirmed, NEW requeued, ReconcileWrites(c, confirmed, requeued)
      PROVE  Sent' /\ GivenUp' /\ BatchTellsRollups'
  <2>1. /\ confirmed \subseteq InFlight /\ requeued \subseteq InFlight
        /\ \A r \in confirmed : r \in picked[c].rollups /\ chain[BatchOf(r)] = "success"
        /\ \A r \in requeued : chain[BatchOf(r)] = "reverted"
        /\ requeued \subseteq picked[c].hashed
    BY <1>4 DEF ReconcileWrites, ReconciledFields, Confirmable, Requeueable, Settled, Reverted
  <2>2. \A r \in InFlight : /\ r \in Rollups
                            /\ rollup[r].batch \in Calls
                            /\ BatchOf(r) = rollup[r].batch
                            /\ \A a \in Calls : r \in payload[a] => a = rollup[r].batch
    BY <1>1, PayloadOf DEF InFlight, RowsTyped, Story
  <2>3. \A r \in Rollups \ (confirmed \cup requeued) : rollup'[r] = rollup[r]
    BY <1>4 DEF ReconcileWrites, ReconciledFields
  <2>4. \A r \in confirmed : /\ rollup[r].status = "SUBMITTED" /\ rollup'[r].status = "CONFIRMED"
                             /\ rollup'[r].batch = rollup[r].batch
                             /\ chain[rollup[r].batch] = "success"
    BY <1>4, <2>1, <2>2 DEF ReconcileWrites, ReconciledFields, RollupIs, InFlight
  <2>5. \A r \in requeued : /\ rollup[r].status = "SUBMITTED" /\ rollup'[r].status = "FAILED"
                            /\ chain[rollup[r].batch] = "reverted"
    BY <1>4, <2>1, <2>2, <2>4 DEF ReconcileWrites, ReconciledFields, RollupIs, InFlight
  <2>6. Sent'
    BY <1>2, <2>3, <2>4, <2>5 DEF Sent, Story
  <2>7. GivenUp'
    BY <1>1, <1>2, <2>1, <2>2, <2>3, <2>4, <2>5 DEF GivenUp, Story, RestTyped
  <2>8. BatchTellsRollups'
    <3> SUFFICES ASSUME NEW a \in Calls, NEW r \in payload[a]
                 PROVE  /\ batch'[a] = "CONFIRMED" =>
                             rollup'[r].status = "CONFIRMED" \/ (rollup'[r].status = "FAILED" /\ a \in lost)
                        /\ batch'[a] = "FAILED" => rollup'[r].status # "SUBMITTED"
      BY <1>2 DEF BatchTellsRollups
    <3>1. r \in Rollups /\ rollup[r].status \in {"SUBMITTED", "CONFIRMED", "FAILED"}
      BY <1>1 DEF RestTyped, Story, Claimed
    <3>2. rollup[r].status \in {"SUBMITTED", "CONFIRMED"} => rollup[r].batch = a
      BY <1>1, <3>1, PayloadOf DEF RowsTyped, Story
    <3>3. rollup'[r].status = "SUBMITTED" => rollup[r].status = "SUBMITTED" /\ rollup'[r].batch = a
      BY <2>3, <2>4, <2>5, <3>1, <3>2
    <3>4. CASE a \notin Derived(picked[c].rollups, requeued)
      <4>1. batch'[a] = batch[a]
        BY <1>4, <3>4 DEF ReconcileWrites
      <4>2. r \in requeued => rollup[r].status = "SUBMITTED"
        BY <2>5
      <4> QED BY <2>3, <2>4, <3>1, <3>3, <4>1, <4>2 DEF BatchTellsRollups, Story
    <3>5. CASE a \in Derived(picked[c].rollups, requeued)
      <4> DEFINE statuses == StatusesAfter(a, requeued)
      <4>1. batch'[a] = deriveBatchStatusUpdate(statuses) /\ statuses # {}
        BY <1>4, <3>5 DEF ReconcileWrites, Derived
      <4>2. rollup'[r].status = "SUBMITTED" => "SUBMITTED" \in statuses
        BY <3>1, <3>3 DEF StatusesAfter
      <4>3. ASSUME statuses = {"CONFIRMED"}, rollup'[r].status = "FAILED"
            PROVE  a \in lost
        <5>1. \E s \in Rollups : rollup'[s].batch = a /\ rollup'[s].status = "CONFIRMED"
          BY <4>3 DEF StatusesAfter
        <5>2. chain[a] = "success"
          BY <1>2, <2>6, <5>1 DEF Sent
        <5>3. r \notin requeued
          BY <2>5, <3>2, <5>2
        <5>4. rollup[r].status = "FAILED"
          BY <2>3, <2>4, <3>1, <4>3, <5>3
        <5> QED BY <5>2, <5>4 DEF GivenUp, Story
      <4>4. statuses = {"CONFIRMED"} => rollup'[r].status \in {"CONFIRMED", "FAILED"}
        BY <2>3, <2>4, <2>5, <3>1, <4>2
      <4> HIDE DEF statuses
      <4> QED BY <4>1, <4>2, <4>3, <4>4 DEF deriveBatchStatusUpdate
    <3> QED BY <3>4, <3>5
  <2> QED BY <2>6, <2>7, <2>8
<1> QED BY <1>3, <1>4, ReconcileSteps

\* The invariant that carries the others.
LEMMA ConsistentStays ==
  ASSUME Consistent, [Next]_vars
  PROVE  Consistent'
<1>1. TypeOK /\ RowsTyped /\ RestTyped /\ Story
  BY TypeSplit DEF Consistent, Story
<1>2. RowsTyped' /\ EarningsMirrorRollups'
  BY <1>1, RowsStayTyped, MirrorStays DEF Consistent
<1>3. RestTyped' /\ Claimed'
  BY <1>1, RestStaysTyped, ClaimedStays DEF Story
<1>4. TypeOK'
  BY <1>2, <1>3 DEF TypeOK, RowsTyped, RestTyped
<1>5. Sent' /\ GivenUp' /\ BatchTellsRollups'
  <2>1. CASE UNCHANGED vars
    BY <1>1, <2>1 DEF vars, rows, Sent, GivenUp, BatchTellsRollups, Story
  <2>2. CASE \E e \in Earnings, m \in Merchants : Earn(e, m)
    BY <1>1, <2>2 DEF Earn, Sent, GivenUp, BatchTellsRollups, Story
  <2>3. ASSUME NEW a \in Calls,
               \/ BeginAllocate(a) \/ CooldownPasses(a) \/ Broadcast(a) \/ BroadcastUnheard(a)
               \/ BroadcastRefused(a) \/ StoreHashFails(a) \/ ReadProcessed(a) \/ Dies(a) \/ Resolve(a)
        PROVE  Sent' /\ GivenUp' /\ BatchTellsRollups'
    BY <1>1, <2>3, CallSteps
  <2>4. ASSUME NEW a \in Calls,
               GasTooHigh(a) \/ RevertAfterFailure(a) \/ ConfirmAfterFailure(a) \/ StoreHash(a) \/ ClaimBatch(a)
        PROVE  Sent' /\ GivenUp' /\ BatchTellsRollups'
    BY <1>1, <2>4, BatchSteps
  <2>5. ASSUME NEW a \in Calls, CreateRollups(a)
        PROVE  Sent' /\ GivenUp' /\ BatchTellsRollups'
    <3>1. PICK taken, into : RolledFields(taken, into)
      BY <1>1, <2>5, RollupsCreated, RolledRows
    <3>2. /\ UNCHANGED <<payload, batch, chain, lost>>
          /\ call[a] = "checked" /\ call'[a] = "rolled"
          /\ \A b \in Calls : b # a => call'[b] = call[b]
      BY <1>1, <2>5 DEF CreateRollups, Goto, RestTyped
    <3>3. \A b \in Calls : \A r \in payload[b] : rollup'[r] = rollup[r]
      BY <1>1, <3>1 DEF RolledFields, Fresh, NoRollup, RestTyped, Story, Claimed
    <3>4. \A r \in Rollups : rollup'[r].status = "CONFIRMED" => rollup'[r] = rollup[r]
      BY <3>1 DEF RolledFields, RollupIs
    <3>5. Sent'
      BY <1>1, <3>2, <3>4 DEF Sent, Story
    <3>6. GivenUp'
      BY <1>1, <3>2, <3>3 DEF GivenUp, Story
    <3>7. BatchTellsRollups'
      BY <1>1, <3>2, <3>3 DEF BatchTellsRollups, Story
    <3> QED BY <3>5, <3>6, <3>7
  <2>6. ASSUME NEW c \in Reconcilers, Reconcile(c)
        PROVE  Sent' /\ GivenUp' /\ BatchTellsRollups'
    BY <1>1, <2>6, ReconcileKeepsStory
  <2>7. ASSUME NEW c \in Reconcilers, Select(c) \/ ReconcileFails(c)
        PROVE  Sent' /\ GivenUp' /\ BatchTellsRollups'
    BY <1>1, <2>7 DEF Select, ReconcileFails, rows, Sent, GivenUp, BatchTellsRollups, Story
  <2> QED BY <2>1, <2>2, <2>3, <2>4, <2>5, <2>6, <2>7 DEF Next
<1> QED BY <1>2, <1>3, <1>4, <1>5 DEF Consistent

\* An empty database is consistent.
LEMMA ConsistentAtFirst == Init => Consistent
<1> SUFFICES ASSUME Init PROVE Consistent
  OBVIOUS
<1>1. \A r \in Rollups : rollup[r] = NoRollup
  BY DEF Init
<1>2. \A e \in Earnings : earning[e] = NoEarning
  BY DEF Init
<1>3. NoRollup \in RollupRow /\ NoEarning \in EarningRow
  BY DEF NoRollup, NoEarning, RollupRow, EarningRow
<1>4. RowsTyped
  BY <1>1, <1>2, <1>3 DEF Init, RowsTyped, NoRollup, NoEarning
<1>5. RestTyped
  BY DEF Init, RestTyped, NothingPicked
<1>6. EarningsMirrorRollups
  BY <1>1, <1>2 DEF EarningsMirrorRollups, NoRollup, NoEarning
<1>7. Claimed
  BY <1>1, <1>2 DEF Init, Claimed, NoRollup, NoEarning, NothingPicked
<1>8. Sent /\ GivenUp /\ BatchTellsRollups
  BY <1>1 DEF Init, Sent, GivenUp, BatchTellsRollups, NoRollup
<1> QED BY <1>4, <1>5, <1>6, <1>7, <1>8, TypeSplit DEF Consistent

-----------------------------------------------------------------------------
\* The inductive invariant holds.
LEMMA AlwaysConsistent == Spec => []Consistent
  BY ConsistentAtFirst, ConsistentStays, PTL DEF Spec

\* Types, and that a row has a batch exactly while its status says it was submitted.
THEOREM SettlementTypeCorrect == Spec => []TypeOK
<1>1. Consistent => TypeOK
  BY DEF Consistent
<1> QED BY <1>1, AlwaysConsistent, PTL

\* Earnings and rollups tell the same story, for any number of allocate and reconcile calls.
THEOREM MirrorHolds == Spec => []EarningsMirrorRollups
<1>1. Consistent => EarningsMirrorRollups
  BY DEF Consistent
<1> QED BY <1>1, AlwaysConsistent, PTL

\* A batch's status tells what became of its rollups.
THEOREM BatchStatusSound == Spec => []BatchTellsRollups
<1>1. Consistent => BatchTellsRollups
  BY DEF Consistent
<1> QED BY <1>1, AlwaysConsistent, PTL

\* What the database calls confirmed, the vault has processed.
THEOREM OnlyPaidIsConfirmed == Spec => []ConfirmedWasPaid
<1>1. Consistent => ConfirmedWasPaid
  <2> SUFFICES ASSUME Consistent, NEW e \in Earnings, earning[e].status = "CONFIRMED"
               PROVE  earning[e].rollup \in Processed
    BY DEF ConfirmedWasPaid
  <2>1. earning[e].batch # None /\ earning[e].rollup \in Rollups \cup {None}
    BY DEF Consistent, TypeOK, EarningRow
  <2>2. earning[e].rollup \in Rollups
    BY <2>1 DEF Consistent, Claimed
  <2>3. rollup[earning[e].rollup].status = "CONFIRMED"
    BY <2>1, <2>2, SettlementAssumption DEF Consistent, EarningsMirrorRollups
  <2>4. rollup[earning[e].rollup].batch # None
    BY <2>2, <2>3 DEF Consistent, TypeOK
  <2>5. /\ rollup[earning[e].rollup].batch \in Calls
        /\ earning[e].rollup \in payload[rollup[earning[e].rollup].batch]
    BY <2>2, <2>4, PayloadOf DEF Consistent
  <2>6. chain[rollup[earning[e].rollup].batch] = "success"
    BY <2>2, <2>3 DEF Consistent, Sent
  <2> QED BY <2>5, <2>6 DEF Processed
<1> QED BY <1>1, AlwaysConsistent, PTL

\* An earning that a live transaction pays is queued again only if the call that sent the
\* transaction lost it.
THEOREM PaidAgainOnlyWhenLost == Spec => []PaidAgainOnlyIfLost
<1>1. Consistent => PaidAgainOnlyIfLost
  <2> SUFFICES ASSUME Consistent, NEW e \in Earnings, NEW a \in Calls, NEW r \in Rollups,
                      e \in rollup[r].members, r \in payload[a], chain[a] \in {"pending", "success"},
                      earning[e].rollup # r
               PROVE  a \in lost
    BY DEF PaidAgainOnlyIfLost
  <2>1. rollup[r].status = "FAILED"
    BY DEF Consistent, EarningsMirrorRollups
  <2> QED BY <2>1 DEF Consistent, GivenUp
<1> QED BY <1>1, AlwaysConsistent, PTL

\* A rollup moves only forward, and stands for the same earnings for ever.
THEOREM RollupsOnlyAdvance == Spec => RollupsMoveForward
<1> DEFINE Forward ==
      \A r \in Rollups :
        /\ rollup'[r].status # rollup[r].status => <<rollup[r].status, rollup'[r].status>> \in Moves
        /\ rollup[r].status # "NONE" => rollup'[r].members = rollup[r].members
<1>1. Consistent /\ [Next]_vars => [Forward]_vars
  <2> SUFFICES ASSUME Consistent, [Next]_vars
               PROVE  Forward
    OBVIOUS
  <2>1. RowsTyped
    BY TypeSplit DEF Consistent
  <2>2. ASSUME NEW e \in Earnings, NEW m \in Merchants, EarnedFields(e, m)
        PROVE  Forward
    BY <2>2 DEF EarnedFields
  <2>3. ASSUME NEW taken, NEW into, RolledFields(taken, into)
        PROVE  Forward
    BY <2>3 DEF RolledFields, Fresh, NoRollup, RollupIs, Moves
  <2>4. ASSUME NEW a \in Calls, NEW ids \in SUBSET Rollups, ClaimedFields(a, ids)
        PROVE  Forward
    BY <2>4 DEF ClaimedFields, RollupIs, Moves
  <2>5. ASSUME NEW a \in Calls, GivenUpFields(a)
        PROVE  Forward
    BY <2>5 DEF GivenUpFields, Submitted, RollupIs, Moves
  <2>6. ASSUME NEW a \in Calls, ConfirmedFields(a)
        PROVE  Forward
    BY <2>6 DEF ConfirmedFields, Submitted, RollupIs, Moves
  <2>7. ASSUME NEW a \in Calls, HashedFields(a)
        PROVE  Forward
    BY <2>7 DEF HashedFields, RollupIs
  <2>8. ASSUME NEW confirmed, NEW requeued, ReconciledFields(confirmed, requeued)
        PROVE  Forward
    BY <2>8 DEF ReconciledFields, InFlight, RollupIs, Moves
  <2>9. CASE UNCHANGED <<earning, rollup>>
    BY <2>9
  <2> QED BY <2>1, <2>2, <2>3, <2>4, <2>5, <2>6, <2>7, <2>8, <2>9, FieldSteps
<1> QED BY <1>1, AlwaysConsistent, PTL DEF Spec, RollupsMoveForward

=============================================================================
