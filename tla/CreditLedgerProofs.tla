------------------------- MODULE CreditLedgerProofs -------------------------
(***************************************************************************)
(* Theorems of CreditLedger for every set of wallets, services, tickets    *)
(* and callers and every configuration: first the types and the row locks  *)
(* (LedgerShape); then, each inductive relative to LedgerShape,            *)
(* heldCredits, the life of a ticket, gate replays and the conservation of *)
(* credits.                                                                *)
(***************************************************************************)
EXTENDS CreditLedger, TotalsProofs, TLAPS

USE LedgerAssumption

-----------------------------------------------------------------------------
(***************************************************************************)
(* Sums over the holds of a wallet.                                        *)
(***************************************************************************)

\* The cost a hold contributes to heldCredits is a natural number.
LEMMA HeldCostType ==
  ASSUME TypeOK, NEW w \in Wallets
  PROVE  \A t \in Tickets : HeldCost(holds, w)[t] \in Nat
<1> TAKE t \in Tickets
<1>1. CASE holds[t] = NoHold
  BY <1>1 DEF HeldCost, NoHold
<1>2. CASE holds[t] \in Hold
  BY <1>2 DEF HeldCost, Hold
<1> QED BY <1>1, <1>2 DEF TypeOK

\* The overdue holds of a wallet are tickets, and what they return is a
\* natural number.
LEMMA SweptType ==
  ASSUME TypeOK, NEW w \in Wallets, NEW now
  PROVE  /\ Overdue(w, now) \in SUBSET Tickets
         /\ Swept(w, Overdue(w, now)) \in Nat
<1>1. Overdue(w, now) \in SUBSET Tickets
  BY DEF Overdue, HeldBy
<1>2. IsFiniteSet(Overdue(w, now))
  BY <1>1, FS_Subset
<1>3. \A t \in Overdue(w, now) : HeldCost(holds, w)[t] \in Nat
  BY <1>1, HeldCostType
<1> QED BY <1>1, <1>2, <1>3, TotalType DEF Swept

-----------------------------------------------------------------------------
(***************************************************************************)
(* Type correctness.                                                       *)
(***************************************************************************)

\* The sweep of a wallet's own overdue holds leaves a well-typed table.
LEMMA AfterExpiryType ==
  ASSUME TypeOK, NEW due \in SUBSET Tickets, \A t \in due : holds[t].state = "HELD"
  PROVE  /\ AfterExpiry(due) \in [Tickets -> Hold \cup {NoHold}]
         /\ ExpireRows(due) \subseteq {"expire"} \X Tickets
<1>1. \A t \in Tickets : AfterExpiry(due)[t] \in Hold \cup {NoHold}
  <2> TAKE t \in Tickets
  <2>1. CASE t \in due
    <3>1. holds[t] \in Hold
      BY <2>1 DEF TypeOK, NoHold
    <3> QED BY <2>1, <3>1 DEF AfterExpiry, Hold
  <2>2. CASE t \notin due
    BY <2>2 DEF AfterExpiry, TypeOK
  <2> QED BY <2>1, <2>2
<1>2. AfterExpiry(due) \in [Tickets -> Hold \cup {NoHold}]
  BY <1>1 DEF AfterExpiry
<1> QED BY <1>2 DEF ExpireRows, ExpireRow

\* createFulfillmentHold refusing a ticket.
LEMMA RefuseTicketType ==
  ASSUME TypeOK, NEW w \in Wallets, NEW cost \in Costs, RefuseTicket(w, cost)
  PROVE  TypeOK'
<1> DEFINE due == Overdue(w, clock)
<1>1. /\ due \in SUBSET Tickets /\ Swept(w, due) \in Nat
      /\ \A t \in due : holds[t].state = "HELD"
  BY SweptType DEF Overdue, HeldBy
<1>2. /\ AfterExpiry(due) \in [Tickets -> Hold \cup {NoHold}]
      /\ ExpireRows(due) \subseteq {"expire"} \X Tickets
  BY <1>1, AfterExpiryType
<1>3. /\ credits' = [credits EXCEPT ![w] = @ + Swept(w, due)]
      /\ held' = [held EXCEPT ![w] = @ - Swept(w, due)]
      /\ holds' = AfterExpiry(due)
      /\ WriteLedgerRows(ExpireRows(due))
      /\ WriteTail(w, credits[w] + Swept(w, due))
      /\ Swept(w, due) <= held[w]
  BY DEF RefuseTicket, OwnHoldsSweepable
<1> HIDE DEF due
<1>4. /\ credits' \in [Wallets -> Nat]
      /\ held' \in [Wallets -> Nat]
      /\ tail' \in [Wallets -> Nat \cup {NoRow}]
  BY <1>1, <1>3 DEF TypeOK, WriteTail
<1>5. ledgerIds' \subseteq ({"hold", "capture", "expire"} \X Tickets) \cup ({"gate"} \X Requests)
  BY <1>2, <1>3 DEF TypeOK, WriteLedgerRows
<1>6. UNCHANGED <<opened, cursor, nonces, earnings, funded, spent, debits, active, clock, calls, sweeps>>
  BY DEF RefuseTicket
<1> QED BY <1>2, <1>3, <1>4, <1>5, <1>6 DEF TypeOK

\* createFulfillmentHold issuing a ticket.
LEMMA IssueTicketType ==
  ASSUME TypeOK, NEW w \in Wallets, NEW s \in Services, NEW n \in Nonces, NEW t \in Tickets,
         NEW cost \in Costs, NEW issuedAt \in 0 .. clock, IssueTicket(w, s, n, t, cost, issuedAt)
  PROVE  TypeOK'
<1> DEFINE due == Overdue(w, clock)
           new == [state |-> "HELD", wallet |-> w, service |-> s, cost |-> cost,
                   expiresAt |-> issuedAt + HoldTtl, proof |-> NoProof]
<1>1. /\ due \in SUBSET Tickets /\ Swept(w, due) \in Nat
      /\ \A u \in due : holds[u].state = "HELD"
  BY SweptType DEF Overdue, HeldBy
<1>2. /\ AfterExpiry(due) \in [Tickets -> Hold \cup {NoHold}]
      /\ ExpireRows(due) \subseteq {"expire"} \X Tickets
  BY <1>1, AfterExpiryType
<1>3. /\ credits' = [credits EXCEPT ![w] = @ + Swept(w, due) - cost]
      /\ held' = [held EXCEPT ![w] = @ - Swept(w, due) + cost]
      /\ holds' = [AfterExpiry(due) EXCEPT ![t] = new]
      /\ WriteLedgerRows(ExpireRows(due) \cup {HoldRow(t)})
      /\ WriteTail(w, credits[w] + Swept(w, due) - cost)
      /\ PersistAccessNonce(TicketNonce(<<w, s, n>>))
      /\ Swept(w, due) <= held[w]
      /\ credits[w] + Swept(w, due) >= cost
  BY DEF IssueTicket, OwnHoldsSweepable
<1>4. new \in Hold
  <2>1. issuedAt + HoldTtl \in Nat
    BY DEF TypeOK
  <2> QED BY <2>1 DEF Hold
<1> HIDE DEF due, new
<1>5. /\ credits' \in [Wallets -> Nat]
      /\ held' \in [Wallets -> Nat]
      /\ tail' \in [Wallets -> Nat \cup {NoRow}]
  BY <1>1, <1>3 DEF TypeOK, WriteTail
<1>6. holds' \in [Tickets -> Hold \cup {NoHold}]
  BY <1>2, <1>3, <1>4
<1>7. ledgerIds' \subseteq ({"hold", "capture", "expire"} \X Tickets) \cup ({"gate"} \X Requests)
  BY <1>2, <1>3 DEF TypeOK, WriteLedgerRows, HoldRow
<1>8. nonces' \subseteq {"ticket", "gate"} \X Requests
  BY <1>3 DEF TypeOK, PersistAccessNonce, TicketNonce, Requests
<1>9. UNCHANGED <<opened, cursor, earnings, funded, spent, debits, active, clock, calls, sweeps>>
  BY DEF IssueTicket
<1> QED BY <1>5, <1>6, <1>7, <1>8, <1>9 DEF TypeOK

\* The hold a capture holds locked is a hold, and its cost can be released.
LEMMA LockedHold ==
  ASSUME TypeOK, NEW c \in Callers, LockedHoldsAreHeld, FinalizeCapture(c)
  PROVE  /\ calls[c] \in CaptureCall
         /\ calls[c].ticket \in Tickets
         /\ calls[c].proof \in Proofs
         /\ holds[calls[c].ticket] \in Hold
         /\ holds[calls[c].ticket].state = "HELD"
<1>1. calls[c] \in CaptureCall
  BY DEF TypeOK, FinalizeCapture, SyncCall, CaptureCall, Idle
<1>2. calls[c].ticket \in Tickets /\ calls[c].proof \in Proofs
  BY <1>1 DEF CaptureCall
<1>3. holds[calls[c].ticket] \in Hold /\ holds[calls[c].ticket].state = "HELD"
  <2>1. holds[calls[c].ticket].state = "HELD"
    BY DEF LockedHoldsAreHeld, FinalizeCapture
  <2> QED BY <1>2, <2>1 DEF TypeOK, NoHold
<1> QED BY <1>1, <1>2, <1>3

\* captureFulfillmentHold, the write.
LEMMA FinalizeCaptureType ==
  ASSUME TypeOK, NEW c \in Callers, LockedHoldsAreHeld, FinalizeCapture(c)
  PROVE  TypeOK'
<1> DEFINE t == calls[c].ticket
           h == holds[t]
           e == [source |-> CaptureSource(t), wallet |-> h.wallet, credits |-> h.cost]
<1>1. /\ t \in Tickets /\ h \in Hold /\ calls[c].proof \in Proofs
  BY LockedHold
<1>2. h.wallet \in Wallets /\ h.cost \in Nat /\ h.cost \in Costs
  BY <1>1 DEF Hold
<1>3. /\ h.cost <= held[h.wallet]
      /\ holds' = [holds EXCEPT ![t].state = "CAPTURED", ![t].proof = calls[c].proof]
      /\ held' = [held EXCEPT ![h.wallet] = @ - h.cost]
      /\ spent' = [spent EXCEPT ![h.wallet] = @ + h.cost]
      /\ WriteLedgerRows({CaptureRow(t)})
      /\ WriteTail(h.wallet, credits[h.wallet])
      /\ earnings' = earnings \cup {e}
      /\ calls' = [calls EXCEPT ![c] = Idle]
  BY DEF FinalizeCapture, ReleaseHeld
<1>4. e \in Earning
  BY <1>1, <1>2 DEF Earning, CaptureSource
<1>5. [h EXCEPT !.state = "CAPTURED", !.proof = calls[c].proof] \in Hold
  BY <1>1 DEF Hold
<1>6. holds' \in [Tickets -> Hold \cup {NoHold}]
  BY <1>1, <1>3, <1>5 DEF TypeOK
<1> HIDE DEF t, h, e
<1>7. /\ held' \in [Wallets -> Nat]
      /\ spent' \in [Wallets -> Nat]
      /\ tail' \in [Wallets -> Nat \cup {NoRow}]
  BY <1>2, <1>3 DEF TypeOK, WriteTail
<1>8. ledgerIds' \subseteq ({"hold", "capture", "expire"} \X Tickets) \cup ({"gate"} \X Requests)
  BY <1>1, <1>3 DEF TypeOK, WriteLedgerRows, CaptureRow
<1>9. calls' \in [Callers -> SyncCall \cup CaptureCall \cup {Idle}]
  BY <1>3 DEF TypeOK
<1>10. UNCHANGED <<opened, credits, cursor, nonces, funded, debits, active, clock, sweeps>>
  BY DEF FinalizeCapture
<1> QED BY <1>3, <1>4, <1>6, <1>7, <1>8, <1>9, <1>10 DEF TypeOK

\* consumeUserCreditsForGate.
LEMMA GateDebitType ==
  ASSUME TypeOK, NEW w \in Wallets, NEW s \in Services, NEW n \in Nonces, NEW cost \in Costs,
         GateDebit(w, s, n, cost)
  PROVE  TypeOK'
<1> DEFINE r == <<w, s, n>>
           e == [source |-> GateSource(r), wallet |-> w, credits |-> cost]
<1>1. r \in Requests
  BY DEF Requests
<1>2. /\ credits[w] >= cost
      /\ credits' = [credits EXCEPT ![w] = @ - cost]
      /\ PersistAccessNonce(GateNonce(r))
      /\ WriteLedgerRows({GateRow(r)})
      /\ WriteTail(w, credits[w] - cost)
      /\ earnings' = IF s \in Owned THEN earnings \cup {e} ELSE earnings
      /\ spent' = [spent EXCEPT ![w] = @ + cost]
      /\ debits' = [debits EXCEPT ![r] = @ + 1]
  BY DEF GateDebit, HasCredits
<1> HIDE DEF r
<1>3. e \in Earning
  BY <1>1 DEF Earning, GateSource
<1> HIDE DEF e
<1>4. /\ credits' \in [Wallets -> Nat]
      /\ spent' \in [Wallets -> Nat]
      /\ tail' \in [Wallets -> Nat \cup {NoRow}]
      /\ debits' \in [Requests -> Nat]
  BY <1>1, <1>2 DEF TypeOK, WriteTail
<1>5. ledgerIds' \subseteq ({"hold", "capture", "expire"} \X Tickets) \cup ({"gate"} \X Requests)
  BY <1>1, <1>2 DEF TypeOK, WriteLedgerRows, GateRow
<1>6. nonces' \subseteq {"ticket", "gate"} \X Requests
  BY <1>1, <1>2 DEF TypeOK, PersistAccessNonce, GateNonce
<1>7. UNCHANGED <<opened, held, cursor, holds, funded, active, clock, calls, sweeps>>
  BY DEF GateDebit, HasCredits
<1> QED BY <1>2, <1>3, <1>4, <1>5, <1>6, <1>7 DEF TypeOK

\* syncDeposits, the write.
LEMMA ApplySyncType ==
  ASSUME TypeOK, NEW c \in Callers, ApplySync(c)
  PROVE  TypeOK'
<1> DEFINE call == calls[c]
           w == call.wallet
           after == call.seenCredits + call.added
<1>1. call \in SyncCall
  BY DEF TypeOK, ApplySync, SyncCall, CaptureCall, Idle
<1>2. /\ w \in Wallets /\ after \in Nat /\ call.added \in Nat
      /\ NextCursor(call.seenCursor, call.syncedTo, call.rollback) \in Nat
  BY <1>1 DEF SyncCall, NextCursor
<1>3. /\ opened' = opened \cup {w}
      /\ credits' = [credits EXCEPT ![w] = after]
      /\ cursor' = [cursor EXCEPT ![w] = NextCursor(call.seenCursor, call.syncedTo, call.rollback)]
      /\ funded' = [funded EXCEPT ![w] = @ + call.added]
      /\ IF call.added > 0 THEN WriteTail(w, after) ELSE UNCHANGED tail
      /\ calls' = [calls EXCEPT ![c] = Idle]
  BY DEF ApplySync
<1> HIDE DEF call, w, after
<1>4. /\ credits' \in [Wallets -> Nat]
      /\ cursor' \in [Wallets -> Nat]
      /\ funded' \in [Wallets -> Nat]
      /\ tail' \in [Wallets -> Nat \cup {NoRow}]
  BY <1>2, <1>3 DEF TypeOK, WriteTail
<1>5. calls' \in [Callers -> SyncCall \cup CaptureCall \cup {Idle}]
  BY <1>3 DEF TypeOK
<1>6. UNCHANGED <<held, holds, nonces, earnings, ledgerIds, spent, debits, active, clock, sweeps>>
  BY DEF ApplySync
<1> QED BY <1>2, <1>3, <1>4, <1>5, <1>6 DEF TypeOK

\* One transaction of the expire sweep.
LEMMA ExpireHoldType ==
  ASSUME TypeOK, NEW k \in Sweepers, NEW t \in Tickets, ExpireHold(k, t)
  PROVE  TypeOK'
<1> DEFINE h == holds[t]
<1>1. h \in Hold
  BY DEF TypeOK, ExpireHold, Expirable, NoHold
<1>2. h.wallet \in Wallets /\ h.cost \in Nat
  BY <1>1 DEF Hold
<1>3. /\ h.cost <= held[h.wallet]
      /\ holds' = [holds EXCEPT ![t].state = "EXPIRED"]
      /\ credits' = [credits EXCEPT ![h.wallet] = @ + h.cost]
      /\ held' = [held EXCEPT ![h.wallet] = @ - h.cost]
      /\ WriteLedgerRows({ExpireRow(t)})
      /\ WriteTail(h.wallet, credits[h.wallet] + h.cost)
      /\ sweeps' = [sweeps EXCEPT ![k].todo = @ \ {t}]
  BY DEF ExpireHold, Expirable, ReleaseHeld, DropCandidate
<1>4. [h EXCEPT !.state = "EXPIRED"] \in Hold
  BY <1>1 DEF Hold
<1>5. holds' \in [Tickets -> Hold \cup {NoHold}]
  BY <1>3, <1>4 DEF TypeOK
<1> HIDE DEF h
<1>6. /\ credits' \in [Wallets -> Nat]
      /\ held' \in [Wallets -> Nat]
      /\ tail' \in [Wallets -> Nat \cup {NoRow}]
  BY <1>2, <1>3 DEF TypeOK, WriteTail
<1>7. ledgerIds' \subseteq ({"hold", "capture", "expire"} \X Tickets) \cup ({"gate"} \X Requests)
  BY <1>3 DEF TypeOK, WriteLedgerRows, ExpireRow
<1>8. sweeps' \in [Sweepers -> [at : Nat, todo : SUBSET Tickets]]
  BY <1>3 DEF TypeOK
<1>9. UNCHANGED <<opened, cursor, nonces, earnings, funded, spent, debits, active, clock, calls>>
  BY DEF ExpireHold
<1> QED BY <1>5, <1>6, <1>7, <1>8, <1>9 DEF TypeOK

\* The steps that write no table: reads, locks, lists, failures, time.
LEMMA QuietStepType ==
  ASSUME TypeOK,
         \/ \E c \in Callers :
              \/ \E t \in Tickets, p \in Proofs, completedAt \in 0 .. LastTick :
                   CheckCapture(c, t, p, completedAt)
              \/ \E w \in Wallets, added \in 0 .. MaxFunding, syncedTo \in 0 .. LastBlock,
                    rollback \in BOOLEAN : ReadForSync(c, w, added, syncedTo, rollback)
              \/ RollBack(c)
         \/ \E k \in Sweepers : StartSweep(k) \/ \E t \in Tickets : SkipOrFailCandidate(k, t)
         \/ \E s \in Services : SetSigner(s)
         \/ Tick
  PROVE  TypeOK'
<1>1. ASSUME NEW c \in Callers, NEW t \in Tickets, NEW p \in Proofs, NEW completedAt \in 0 .. LastTick,
             CheckCapture(c, t, p, completedAt)
      PROVE  TypeOK'
  <2>1. [kind |-> "capture", ticket |-> t, proof |-> p] \in CaptureCall
    BY DEF CaptureCall
  <2> QED BY <1>1, <2>1 DEF TypeOK, CheckCapture, balanceVars, recordVars
<1>2. ASSUME NEW c \in Callers, NEW w \in Wallets, NEW added \in 0 .. MaxFunding,
             NEW syncedTo \in 0 .. LastBlock, NEW rollback \in BOOLEAN,
             ReadForSync(c, w, added, syncedTo, rollback)
      PROVE  TypeOK'
  <2> DEFINE call == [kind |-> "sync", wallet |-> w, known |-> w \in opened,
                      seenCredits |-> credits[w], seenCursor |-> cursor[w],
                      added |-> added, syncedTo |-> syncedTo, rollback |-> rollback]
  <2>1. call \in SyncCall
    BY DEF SyncCall, TypeOK
  <2>2. calls' = [calls EXCEPT ![c] = call]
    BY <1>2 DEF ReadForSync
  <2> HIDE DEF call
  <2> QED BY <1>2, <2>1, <2>2 DEF TypeOK, ReadForSync, balanceVars, recordVars
<1>3. ASSUME NEW c \in Callers, RollBack(c)
      PROVE  TypeOK'
  BY <1>3 DEF TypeOK, RollBack, balanceVars, recordVars
<1>4. ASSUME NEW k \in Sweepers, StartSweep(k)
      PROVE  TypeOK'
  <2> DEFINE due == UNION {Overdue(w, clock) : w \in Wallets}
  <2>1. PICK batch \in SUBSET due : sweeps' = [sweeps EXCEPT ![k] = [at |-> clock, todo |-> batch]]
    BY <1>4 DEF StartSweep
  <2>2. batch \in SUBSET Tickets
    BY <2>1 DEF Overdue, HeldBy
  <2> QED BY <1>4, <2>1, <2>2 DEF TypeOK, StartSweep, balanceVars, recordVars
<1>5. ASSUME NEW k \in Sweepers, NEW t \in Tickets, SkipOrFailCandidate(k, t)
      PROVE  TypeOK'
  BY <1>5 DEF TypeOK, SkipOrFailCandidate, DropCandidate, balanceVars, recordVars
<1>6. ASSUME NEW s \in Services, SetSigner(s)
      PROVE  TypeOK'
  BY <1>6 DEF TypeOK, SetSigner, balanceVars, recordVars
<1>7. ASSUME Tick
      PROVE  TypeOK'
  BY <1>7 DEF TypeOK, Tick, balanceVars, recordVars
<1> QED BY <1>1, <1>2, <1>3, <1>4, <1>5, <1>6, <1>7

-----------------------------------------------------------------------------
(***************************************************************************)
(* The row lock of a capture.                                              *)
(***************************************************************************)

\* A step that starts no capture and ends no locked hold keeps the locks.
LEMMA LocksKept ==
  ASSUME TypeOK, LockedHoldsAreHeld,
         \A c \in Callers : calls'[c].kind = "capture" => calls'[c] = calls[c],
         \A t \in Tickets : HoldLocked(t) /\ holds'[t] # holds[t] =>
                              \A c \in Callers : calls'[c].kind = "capture" => calls'[c].ticket # t
  PROVE  LockedHoldsAreHeld'
<1> SUFFICES ASSUME NEW c \in Callers, calls'[c].kind = "capture"
             PROVE  /\ holds'[calls'[c].ticket].state = "HELD"
                    /\ \A d \in Callers \ {c} :
                         calls'[d].kind = "capture" => calls'[d].ticket # calls'[c].ticket
  BY DEF LockedHoldsAreHeld
<1>1. calls[c] \in CaptureCall /\ calls'[c] = calls[c]
  BY DEF TypeOK, SyncCall, CaptureCall, Idle
<1>2. calls[c].ticket \in Tickets /\ HoldLocked(calls[c].ticket) /\ calls[c].kind = "capture"
  BY <1>1 DEF CaptureCall, HoldLocked
<1>3. holds'[calls[c].ticket] = holds[calls[c].ticket]
  BY <1>1, <1>2
<1>4. holds[calls[c].ticket].state = "HELD"
  BY <1>2 DEF LockedHoldsAreHeld
<1>5. ASSUME NEW d \in Callers \ {c}, calls'[d].kind = "capture"
      PROVE  calls'[d].ticket # calls'[c].ticket
  <2>1. calls'[d] = calls[d]
    BY <1>5
  <2> QED BY <1>1, <1>2, <1>5, <2>1 DEF LockedHoldsAreHeld
<1> QED BY <1>1, <1>3, <1>4, <1>5

\* Every step keeps the locks: a capture takes a lock that is free, and no
\* sweep touches a locked hold.
LEMMA LocksInductive ==
  ASSUME TypeOK, LockedHoldsAreHeld, [Next]_vars
  PROVE  LockedHoldsAreHeld'
<1>1. ASSUME NEW w \in Wallets, NEW cost \in Costs, RefuseTicket(w, cost)
      PROVE  LockedHoldsAreHeld'
  <2>1. calls' = calls
    BY <1>1 DEF RefuseTicket
  <2>2. \A t \in Tickets : HoldLocked(t) => holds'[t] = holds[t]
    BY <1>1 DEF RefuseTicket, OwnHoldsSweepable, AfterExpiry
  <2> QED BY <2>1, <2>2, LocksKept
<1>2. ASSUME NEW w \in Wallets, NEW s \in Services, NEW n \in Nonces, NEW t \in Tickets,
             NEW cost \in Costs, NEW issuedAt \in 0 .. clock, IssueTicket(w, s, n, t, cost, issuedAt)
      PROVE  LockedHoldsAreHeld'
  <2>1. calls' = calls
    BY <1>2 DEF IssueTicket
  <2>2. ~HoldLocked(t)
    BY <1>2 DEF IssueTicket, HoldLocked, LockedHoldsAreHeld, NoHold
  <2>3. \A u \in Tickets : u # t /\ HoldLocked(u) => holds'[u] = holds[u]
    BY <1>2 DEF IssueTicket, OwnHoldsSweepable, AfterExpiry
  <2> QED BY <2>1, <2>2, <2>3, LocksKept
<1>3. ASSUME NEW w \in Wallets, NEW s \in Services, NEW n \in Nonces, NEW cost \in Costs,
             GateDebit(w, s, n, cost)
      PROVE  LockedHoldsAreHeld'
  BY <1>3, LocksKept DEF GateDebit, HasCredits
<1>4. ASSUME NEW c \in Callers, NEW t \in Tickets, NEW p \in Proofs, NEW completedAt \in 0 .. LastTick,
             CheckCapture(c, t, p, completedAt)
      PROVE  LockedHoldsAreHeld'
  <2>1. /\ calls' = [calls EXCEPT ![c] = [kind |-> "capture", ticket |-> t, proof |-> p]]
        /\ holds' = holds
        /\ holds[t].state = "HELD"
        /\ ~HoldLocked(t)
    BY <1>4 DEF CheckCapture
  <2>2. /\ calls'[c] = [kind |-> "capture", ticket |-> t, proof |-> p]
        /\ \A d \in Callers \ {c} : calls'[d] = calls[d]
    BY <2>1 DEF TypeOK
  <2>3. ASSUME NEW d \in Callers, calls'[d].kind = "capture"
        PROVE  holds'[calls'[d].ticket].state = "HELD"
    <3>1. CASE d = c
      BY <3>1, <2>1, <2>2
    <3>2. CASE d # c
      BY <3>2, <2>1, <2>2, <2>3 DEF LockedHoldsAreHeld
    <3> QED BY <3>1, <3>2
  <2>4. ASSUME NEW d \in Callers, NEW e \in Callers \ {d},
               calls'[d].kind = "capture", calls'[e].kind = "capture"
        PROVE  calls'[e].ticket # calls'[d].ticket
    <3>1. CASE d = c
      BY <3>1, <2>1, <2>2, <2>4 DEF HoldLocked
    <3>2. CASE e = c
      BY <3>2, <2>1, <2>2, <2>4 DEF HoldLocked
    <3>3. CASE d # c /\ e # c
      BY <3>3, <2>2, <2>4 DEF LockedHoldsAreHeld
    <3> QED BY <3>1, <3>2, <3>3
  <2> QED BY <2>3, <2>4 DEF LockedHoldsAreHeld
<1>5. ASSUME NEW c \in Callers, FinalizeCapture(c)
      PROVE  LockedHoldsAreHeld'
  <2> DEFINE t == calls[c].ticket
  <2>1. /\ calls' = [calls EXCEPT ![c] = Idle]
        /\ holds' = [holds EXCEPT ![t].state = "CAPTURED", ![t].proof = calls[c].proof]
        /\ calls[c].kind = "capture"
    BY <1>5 DEF FinalizeCapture
  <2>2. /\ calls'[c] = Idle
        /\ \A d \in Callers \ {c} : calls'[d] = calls[d]
    BY <2>1 DEF TypeOK
  <2>3. \A d \in Callers : calls'[d].kind = "capture" => d # c /\ calls'[d] = calls[d]
    BY <2>2 DEF Idle
  <2>4. \A d \in Callers : calls'[d].kind = "capture" => calls'[d].ticket # t
    BY <2>1, <2>3 DEF LockedHoldsAreHeld
  <2>5. \A u \in Tickets : u # t => holds'[u] = holds[u]
    BY <2>1 DEF TypeOK
  <2> QED BY <2>3, <2>4, <2>5, LocksKept
<1>6. ASSUME NEW c \in Callers, NEW w \in Wallets, NEW added \in 0 .. MaxFunding,
             NEW syncedTo \in 0 .. LastBlock, NEW rollback \in BOOLEAN,
             ReadForSync(c, w, added, syncedTo, rollback)
      PROVE  LockedHoldsAreHeld'
  <2>1. holds' = holds /\ \A d \in Callers : calls'[d].kind = "capture" => calls'[d] = calls[d]
    BY <1>6 DEF ReadForSync, TypeOK
  <2> QED BY <2>1, LocksKept
<1>7. ASSUME NEW c \in Callers, ApplySync(c) \/ RollBack(c)
      PROVE  LockedHoldsAreHeld'
  <2>1. holds' = holds /\ calls' = [calls EXCEPT ![c] = Idle]
    BY <1>7 DEF ApplySync, RollBack
  <2>2. \A d \in Callers : calls'[d].kind = "capture" => calls'[d] = calls[d]
    BY <2>1 DEF TypeOK, Idle
  <2> QED BY <2>1, <2>2, LocksKept
<1>8. ASSUME NEW k \in Sweepers, NEW t \in Tickets, ExpireHold(k, t)
      PROVE  LockedHoldsAreHeld'
  <2>1. calls' = calls
    BY <1>8 DEF ExpireHold, Expirable
  <2>2. \A u \in Tickets : HoldLocked(u) => holds'[u] = holds[u]
    BY <1>8 DEF ExpireHold, Expirable, TypeOK
  <2> QED BY <2>1, <2>2, LocksKept
<1>9. ASSUME UNCHANGED <<holds, calls>>
      PROVE  LockedHoldsAreHeld'
  BY <1>9, LocksKept
<1> QED
  BY <1>1, <1>2, <1>3, <1>4, <1>5, <1>6, <1>7, <1>8, <1>9
  DEF Next, vars, CreateFulfillmentHold, ConsumeUserCreditsForGate, Call, Sweep, StartSweep,
      SkipOrFailCandidate, SetSigner, Tick

\* Types and locks together are inductive.
LedgerShape == TypeOK /\ LockedHoldsAreHeld

\* Types and locks are kept together: each step's case needs the other half.
LEMMA ShapeInductive ==
  ASSUME LedgerShape, [Next]_vars
  PROVE  LedgerShape'
<1>1. LockedHoldsAreHeld'
  BY LocksInductive DEF LedgerShape
<1>2. CASE UNCHANGED vars
  BY <1>1, <1>2 DEF LedgerShape, TypeOK, vars, balanceVars, recordVars
<1>3. CASE Next
  BY <1>1, <1>3, RefuseTicketType, IssueTicketType, GateDebitType, FinalizeCaptureType,
     ApplySyncType, ExpireHoldType, QuietStepType
  DEF LedgerShape, Next, CreateFulfillmentHold, ConsumeUserCreditsForGate, Call, Sweep
<1> QED BY <1>2, <1>3

\* The initial state has no calls in flight and empty tables.
LEMMA ShapeInitial == Init => LedgerShape
<1> SUFFICES ASSUME Init PROVE LedgerShape
  OBVIOUS
<1>1. TypeOK
  BY DEF Init, TypeOK, NoHold, NoRow
<1>2. LockedHoldsAreHeld
  BY DEF Init, LockedHoldsAreHeld, Idle
<1> QED BY <1>1, <1>2 DEF LedgerShape

\* Every reachable state is well typed, in particular no balance is negative,
\* and a hold whose capture passed its check is still HELD.
THEOREM TypeCorrect == Spec => []TypeOK
<1>1. LedgerShape /\ [Next]_vars => LedgerShape'
  BY ShapeInductive
<1>2. LedgerShape => TypeOK
  BY DEF LedgerShape
<1> QED BY ShapeInitial, <1>1, <1>2, PTL DEF Spec

\* No transaction ends a hold between the check of its capture and the write.
THEOREM LocksHold == Spec => []LockedHoldsAreHeld
<1>1. LedgerShape /\ [Next]_vars => LedgerShape'
  BY ShapeInductive
<1>2. LedgerShape => LockedHoldsAreHeld
  BY DEF LedgerShape
<1> QED BY ShapeInitial, <1>1, <1>2, PTL DEF Spec

-----------------------------------------------------------------------------
(***************************************************************************)
(* How the held total of a wallet moves.                                   *)
(***************************************************************************)
HoldTable == [Tickets -> Hold \cup {NoHold}]

HeldTotal(hs, w) == Total(HeldCost(hs, w), Tickets)

\* Costs contributed by any table of holds are natural numbers.
LEMMA TableCostType ==
  ASSUME NEW hs \in HoldTable, NEW w \in Wallets
  PROVE  \A t \in Tickets : HeldCost(hs, w)[t] \in Nat
<1> TAKE t \in Tickets
<1>1. CASE hs[t] = NoHold
  BY <1>1 DEF HeldCost, NoHold
<1>2. CASE hs[t] \in Hold
  BY <1>2 DEF HeldCost, Hold
<1> QED BY <1>1, <1>2 DEF HoldTable

\* Changing one hold moves each wallet's total by what that hold contributes.
LEMMA OneHoldChange ==
  ASSUME NEW hs \in HoldTable, NEW gs \in HoldTable, NEW t \in Tickets, NEW w \in Wallets,
         \A u \in Tickets \ {t} : gs[u] = hs[u]
  PROVE  /\ HeldTotal(hs, w) \in Nat
         /\ HeldTotal(gs, w) \in Nat
         /\ HeldTotal(gs, w) = HeldTotal(hs, w) - HeldCost(hs, w)[t] + HeldCost(gs, w)[t]
         /\ HeldCost(hs, w)[t] <= HeldTotal(hs, w)
<1> DEFINE f == HeldCost(hs, w)
           g == HeldCost(gs, w)
<1>1. /\ \A u \in Tickets : f[u] \in Nat
      /\ \A u \in Tickets : g[u] \in Nat
  BY TableCostType
<1>2. \A u \in Tickets \ {t} : f[u] = g[u]
  BY DEF HeldCost
<1> HIDE DEF f, g
<1>3. /\ Total(f, Tickets) \in Nat
      /\ Total(g, Tickets) \in Nat
      /\ Total(g, Tickets) = Total(f, Tickets) - f[t] + g[t]
      /\ f[t] <= Total(f, Tickets)
  BY <1>1, <1>2, TotalChange
<1> QED BY <1>3 DEF f, g, HeldTotal

\* Expiring holds of one wallet lowers its total by what they return and
\* leaves every other wallet's total alone.
LEMMA ExpiryTotal ==
  ASSUME TypeOK, NEW w \in Wallets, NEW due \in SUBSET HeldBy(w)
  PROVE  /\ AfterExpiry(due) \in HoldTable
         /\ Swept(w, due) \in Nat
         /\ HeldTotal(holds, w) \in Nat
         /\ HeldTotal(AfterExpiry(due), w) = HeldTotal(holds, w) - Swept(w, due)
         /\ \A v \in Wallets \ {w} : HeldTotal(AfterExpiry(due), v) = HeldTotal(holds, v)
<1> DEFINE f == HeldCost(holds, w)
           g == HeldCost(AfterExpiry(due), w)
<1>1. /\ due \in SUBSET Tickets
      /\ \A t \in due : holds[t].state = "HELD" /\ holds[t].wallet = w
  BY DEF HeldBy
<1>2. AfterExpiry(due) \in HoldTable /\ holds \in HoldTable
  BY <1>1, AfterExpiryType DEF HoldTable, TypeOK
<1>3. /\ \A t \in Tickets : f[t] \in Nat
      /\ \A t \in Tickets : g[t] \in Nat
  BY <1>2, TableCostType
<1>4. \A t \in Tickets \ due : AfterExpiry(due)[t] = holds[t]
  BY DEF AfterExpiry
<1>5. \A t \in due : holds[t] \in Hold /\ AfterExpiry(due)[t].state = "EXPIRED"
  <2> TAKE t \in due
  <2>1. holds[t] \in Hold
    BY <1>1 DEF TypeOK, NoHold
  <2> QED BY <1>1, <2>1 DEF AfterExpiry, Hold
<1>6. /\ \A t \in Tickets \ due : f[t] = g[t]
      /\ \A t \in due : g[t] = 0
  BY <1>1, <1>4, <1>5 DEF HeldCost
<1>7. \A v \in Wallets \ {w} : \A t \in Tickets :
        HeldCost(holds, v)[t] = HeldCost(AfterExpiry(due), v)[t]
  BY <1>1, <1>4, <1>5 DEF HeldCost
<1>8. \A v \in Wallets \ {w} : HeldTotal(AfterExpiry(due), v) = HeldTotal(holds, v)
  BY <1>7, TotalSame DEF HeldTotal
<1> HIDE DEF f, g
<1>9. /\ Total(f, Tickets) = Total(f, due) + Total(f, Tickets \ due)
      /\ Total(f, due) \in Nat /\ Total(f, Tickets \ due) \in Nat
  BY <1>1, <1>3, TotalSplit
<1>10. Total(g, Tickets) = Total(g, due) + Total(g, Tickets \ due)
  BY <1>1, <1>3, TotalSplit
<1>11. Total(f, Tickets \ due) = Total(g, Tickets \ due)
  BY <1>6, TotalSame
<1>12. Total(g, due) = 0
  BY <1>6, TotalZero
<1> QED BY <1>2, <1>8, <1>9, <1>10, <1>11, <1>12 DEF f, g, HeldTotal, Swept

-----------------------------------------------------------------------------
(***************************************************************************)
(* The steps of Next, once: those that change a hold, and the others.      *)
(***************************************************************************)
Issuing == \E w \in Wallets, s \in Services, n \in Nonces, t \in Tickets, cost \in Costs :
             \E issuedAt \in 0 .. clock : IssueTicket(w, s, n, t, cost, issuedAt)
Refusing == \E w \in Wallets, cost \in Costs : RefuseTicket(w, cost)
Finalizing == \E c \in Callers : FinalizeCapture(c)
Expiring == \E k \in Sweepers, t \in Tickets : ExpireHold(k, t)
Debiting == \E w \in Wallets, s \in Services, n \in Nonces, cost \in Costs : GateDebit(w, s, n, cost)
Syncing == \E c \in Callers : ApplySync(c)
Quiet == UNCHANGED <<balanceVars, holds, recordVars>>

StepOffHolds == Debiting \/ Syncing \/ Quiet

\* A step issues, refuses, captures or expires, or leaves the holds alone.
LEMMA StepsOfNext ==
  ASSUME [Next]_vars
  PROVE  Issuing \/ Refusing \/ Finalizing \/ Expiring \/ StepOffHolds
<1>1. CASE CreateFulfillmentHold
  BY <1>1 DEF CreateFulfillmentHold, Issuing, Refusing
<1>2. CASE ConsumeUserCreditsForGate
  BY <1>2 DEF ConsumeUserCreditsForGate, Debiting, StepOffHolds
<1>3. CASE \E c \in Callers : Call(c)
  <2>1. PICK c \in Callers : Call(c)
    BY <1>3
  <2>2. CASE FinalizeCapture(c)
    BY <2>2 DEF Finalizing
  <2>3. CASE ApplySync(c)
    BY <2>3 DEF Syncing, StepOffHolds
  <2>4. CASE RollBack(c)
    BY <2>4 DEF RollBack, Quiet, StepOffHolds
  <2>5. ASSUME NEW t \in Tickets, NEW p \in Proofs, NEW completedAt, CheckCapture(c, t, p, completedAt)
        PROVE  StepOffHolds
    BY <2>5 DEF CheckCapture, Quiet, StepOffHolds
  <2>6. ASSUME NEW w \in Wallets, NEW added, NEW syncedTo, NEW rollback,
               ReadForSync(c, w, added, syncedTo, rollback)
        PROVE  StepOffHolds
    BY <2>6 DEF ReadForSync, Quiet, StepOffHolds
  <2> QED BY <2>1, <2>2, <2>3, <2>4, <2>5, <2>6 DEF Call
<1>4. CASE \E k \in Sweepers : Sweep(k)
  <2>1. PICK k \in Sweepers : Sweep(k)
    BY <1>4
  <2>2. CASE StartSweep(k)
    BY <2>2 DEF StartSweep, Quiet, StepOffHolds
  <2>3. ASSUME NEW t \in Tickets, ExpireHold(k, t)
        PROVE  Expiring
    BY <2>3 DEF Expiring
  <2>4. ASSUME NEW t \in Tickets, SkipOrFailCandidate(k, t)
        PROVE  StepOffHolds
    BY <2>4 DEF SkipOrFailCandidate, Quiet, StepOffHolds
  <2> QED BY <2>1, <2>2, <2>3, <2>4 DEF Sweep
<1>5. CASE \E s \in Services : SetSigner(s)
  BY <1>5 DEF SetSigner, Quiet, StepOffHolds
<1>6. CASE Tick
  BY <1>6 DEF Tick, Quiet, StepOffHolds
<1>7. CASE UNCHANGED vars
  BY <1>7 DEF vars, Quiet, StepOffHolds
<1> QED BY <1>1, <1>2, <1>3, <1>4, <1>5, <1>6, <1>7 DEF Next

\* The steps that leave holds and heldCredits alone.
LEMMA OffHolds ==
  ASSUME StepOffHolds
  PROVE  UNCHANGED <<holds, held>>
<1>1. CASE Debiting
  BY <1>1 DEF Debiting, GateDebit, HasCredits
<1>2. CASE Syncing
  BY <1>2 DEF Syncing, ApplySync
<1>3. CASE Quiet
  BY <1>3 DEF Quiet, balanceVars
<1> QED BY <1>1, <1>2, <1>3 DEF StepOffHolds

-----------------------------------------------------------------------------
(***************************************************************************)
(* heldCredits.                                                            *)
(***************************************************************************)

\* Every step keeps heldCredits equal to the held total of each wallet.
LEMMA HeldInductive ==
  ASSUME LedgerShape, HeldCreditsMatchHolds, [Next]_vars
  PROVE  HeldCreditsMatchHolds'
<1> USE DEF HeldCreditsMatchHolds
<1>0. TypeOK /\ TypeOK' /\ holds \in HoldTable /\ holds' \in HoldTable
  <2>1. TypeOK /\ TypeOK'
    BY ShapeInductive DEF LedgerShape
  <2> QED BY <2>1 DEF TypeOK, HoldTable
<1>1. ASSUME NEW w \in Wallets, NEW cost \in Costs, RefuseTicket(w, cost)
      PROVE  HeldCreditsMatchHolds'
  <2> DEFINE due == Overdue(w, clock)
  <2>1. due \in SUBSET HeldBy(w)
    BY DEF Overdue
  <2>2. /\ holds' = AfterExpiry(due)
        /\ held' = [held EXCEPT ![w] = @ - Swept(w, due)]
    BY <1>1 DEF RefuseTicket
  <2> HIDE DEF due
  <2>3. /\ HeldTotal(holds', w) = HeldTotal(holds, w) - Swept(w, due)
        /\ \A v \in Wallets \ {w} : HeldTotal(holds', v) = HeldTotal(holds, v)
    BY <1>0, <2>1, <2>2, ExpiryTotal
  <2> QED BY <1>0, <2>2, <2>3 DEF HeldTotal, TypeOK
<1>2. ASSUME NEW w \in Wallets, NEW s \in Services, NEW n \in Nonces, NEW t \in Tickets,
             NEW cost \in Costs, NEW issuedAt \in 0 .. clock, IssueTicket(w, s, n, t, cost, issuedAt)
      PROVE  HeldCreditsMatchHolds'
  <2> DEFINE due == Overdue(w, clock)
             mid == AfterExpiry(due)
             new == [state |-> "HELD", wallet |-> w, service |-> s, cost |-> cost,
                     expiresAt |-> issuedAt + HoldTtl, proof |-> NoProof]
  <2>1. due \in SUBSET HeldBy(w) /\ t \notin due /\ holds[t] = NoHold
    BY <1>2 DEF Overdue, HeldBy, IssueTicket, NoHold
  <2>2. /\ holds' = [mid EXCEPT ![t] = new]
        /\ held' = [held EXCEPT ![w] = @ - Swept(w, due) + cost]
    BY <1>2 DEF IssueTicket
  <2>3. /\ mid \in HoldTable
        /\ Swept(w, due) \in Nat
        /\ HeldTotal(mid, w) = HeldTotal(holds, w) - Swept(w, due)
        /\ \A v \in Wallets \ {w} : HeldTotal(mid, v) = HeldTotal(holds, v)
    BY <1>0, <2>1, ExpiryTotal
  <2>4. mid[t] = NoHold
    BY <2>1 DEF AfterExpiry
  <2>5. \A v \in Wallets : /\ HeldCost(mid, v)[t] = 0
                           /\ HeldCost(holds', v)[t] = IF v = w THEN cost ELSE 0
    <3> HIDE DEF mid
    <3>1. holds'[t] = new
      BY <2>2, <2>3 DEF HoldTable
    <3> QED BY <2>4, <3>1 DEF HeldCost, NoHold
  <2> HIDE DEF due, mid, new
  <2>6. \A v \in Wallets :
          /\ HeldTotal(mid, v) \in Nat
          /\ HeldTotal(holds', v) = HeldTotal(mid, v) - HeldCost(mid, v)[t] + HeldCost(holds', v)[t]
    <3>1. \A u \in Tickets \ {t} : holds'[u] = mid[u]
      BY <2>2, <2>3 DEF HoldTable
    <3> QED BY <1>0, <2>3, <3>1, OneHoldChange
  <2>7. cost \in Nat
    OBVIOUS
  <2>8. HeldTotal(holds', w) = HeldTotal(holds, w) - Swept(w, due) + cost
    BY <2>3, <2>5, <2>6, <2>7
  <2>9. \A v \in Wallets \ {w} : HeldTotal(holds', v) = HeldTotal(holds, v)
    BY <2>3, <2>5, <2>6
  <2> QED BY <1>0, <2>2, <2>8, <2>9 DEF HeldTotal, TypeOK
<1>3. ASSUME NEW t \in Tickets, NEW h, h = holds[t], h \in Hold, h.state = "HELD",
             holds'[t].state # "HELD",
             \A u \in Tickets \ {t} : holds'[u] = holds[u],
             held' = [held EXCEPT ![h.wallet] = @ - h.cost]
      PROVE  HeldCreditsMatchHolds'
  <2>1. h.wallet \in Wallets /\ h.cost \in Nat
    BY <1>3 DEF Hold
  <2>2. \A v \in Wallets :
          /\ HeldTotal(holds, v) \in Nat
          /\ HeldTotal(holds', v) = HeldTotal(holds, v) - HeldCost(holds, v)[t] + HeldCost(holds', v)[t]
    BY <1>0, <1>3, OneHoldChange
  <2>3. \A v \in Wallets : /\ HeldCost(holds, v)[t] = IF v = h.wallet THEN h.cost ELSE 0
                           /\ HeldCost(holds', v)[t] = 0
    BY <1>3 DEF HeldCost
  <2>4. \A v \in Wallets :
          HeldTotal(holds', v) = IF v = h.wallet THEN HeldTotal(holds, v) - h.cost ELSE HeldTotal(holds, v)
    BY <2>1, <2>2, <2>3
  <2> QED BY <1>0, <1>3, <2>1, <2>4 DEF HeldTotal, TypeOK
<1>4. ASSUME NEW c \in Callers, FinalizeCapture(c)
      PROVE  HeldCreditsMatchHolds'
  <2> DEFINE t == calls[c].ticket
             h == holds[t]
  <2>1. t \in Tickets /\ h \in Hold /\ h.state = "HELD"
    BY <1>4, LockedHold DEF LedgerShape
  <2>2. /\ holds' = [holds EXCEPT ![t].state = "CAPTURED", ![t].proof = calls[c].proof]
        /\ held' = [held EXCEPT ![h.wallet] = @ - h.cost]
    BY <1>4 DEF FinalizeCapture, ReleaseHeld
  <2>3. /\ holds'[t].state # "HELD"
        /\ \A u \in Tickets \ {t} : holds'[u] = holds[u]
    BY <1>0, <2>1, <2>2 DEF HoldTable, Hold
  <2> QED BY <1>3, <2>1, <2>2, <2>3
<1>5. ASSUME NEW k \in Sweepers, NEW t \in Tickets, ExpireHold(k, t)
      PROVE  HeldCreditsMatchHolds'
  <2> DEFINE h == holds[t]
  <2>1. h \in Hold /\ h.state = "HELD"
    BY <1>0, <1>5 DEF TypeOK, ExpireHold, Expirable, NoHold
  <2>2. /\ holds' = [holds EXCEPT ![t].state = "EXPIRED"]
        /\ held' = [held EXCEPT ![h.wallet] = @ - h.cost]
    BY <1>5 DEF ExpireHold, ReleaseHeld
  <2>3. /\ holds'[t].state # "HELD"
        /\ \A u \in Tickets \ {t} : holds'[u] = holds[u]
    BY <1>0, <2>1, <2>2 DEF HoldTable, Hold
  <2> QED BY <1>3, <2>1, <2>2, <2>3
<1>6. UNCHANGED <<holds, held>> => HeldCreditsMatchHolds'
  OBVIOUS
<1>7. ASSUME StepOffHolds
      PROVE  HeldCreditsMatchHolds'
  BY <1>6, <1>7, OffHolds
<1> QED
  BY <1>1, <1>2, <1>4, <1>5, <1>7, StepsOfNext DEF Issuing, Refusing, Finalizing, Expiring

\* heldCredits always equals the sum of the wallet's HELD tickets, whatever
\* the number of wallets, tickets, callers and sweepers.
THEOREM HeldCreditsSound == Spec => []HeldCreditsMatchHolds
<1>1. Init => HeldCreditsMatchHolds
  <2> SUFFICES ASSUME Init, NEW w \in Wallets PROVE held[w] = Total(HeldCost(holds, w), Tickets)
    BY DEF HeldCreditsMatchHolds
  <2>1. \A t \in Tickets : HeldCost(holds, w)[t] = 0
    BY DEF HeldCost, Init, NoHold
  <2>2. Total(HeldCost(holds, w), Tickets) = 0
    BY <2>1, TotalZero
  <2> QED BY <2>2 DEF Init
<1>2. LedgerShape /\ HeldCreditsMatchHolds /\ [Next]_vars => LedgerShape' /\ HeldCreditsMatchHolds'
  BY ShapeInductive, HeldInductive
<1> QED BY ShapeInitial, <1>1, <1>2, PTL DEF Spec

-----------------------------------------------------------------------------
(***************************************************************************)
(* The life of a ticket.                                                   *)
(***************************************************************************)
\* What one step may do to a ticket.
Moves(h, g) ==
  \/ g = h
  \/ h = NoHold /\ g.state = "HELD"
  \/ /\ h.state = "HELD" /\ g.state \in {"CAPTURED", "EXPIRED"}
     /\ g.wallet = h.wallet /\ g.cost = h.cost

\* The sweep of a wallet's own holds, ticket by ticket.
LEMMA ExpiryMoves ==
  ASSUME TypeOK, NEW w \in Wallets, NEW due \in SUBSET HeldBy(w), NEW t \in Tickets
  PROVE  /\ t \notin due => AfterExpiry(due)[t] = holds[t]
         /\ t \in due => /\ holds[t] \in Hold /\ holds[t].state = "HELD"
                         /\ AfterExpiry(due)[t].state = "EXPIRED"
                         /\ AfterExpiry(due)[t].wallet = holds[t].wallet
                         /\ AfterExpiry(due)[t].cost = holds[t].cost
<1>1. CASE t \notin due
  BY <1>1 DEF AfterExpiry
<1>2. CASE t \in due
  <2>1. holds[t].state = "HELD"
    BY <1>2 DEF HeldBy
  <2>2. holds[t] \in Hold
    BY <2>1 DEF TypeOK, NoHold
  <2> QED BY <1>2, <2>1, <2>2 DEF AfterExpiry, Hold
<1> QED BY <1>1, <1>2

\* What the steps that change holds do to them and to the ledger's rows.
LEMMA RefuseEffect ==
  ASSUME LedgerShape, NEW w \in Wallets, NEW cost \in Costs, RefuseTicket(w, cost)
  PROVE  \E due \in SUBSET HeldBy(w) :
           /\ holds' = AfterExpiry(due)
           /\ WriteLedgerRows(ExpireRows(due))
           /\ UNCHANGED <<earnings, nonces, debits, spent>>
<1> DEFINE due == Overdue(w, clock)
<1>1. due \in SUBSET HeldBy(w)
  BY DEF Overdue
<1>2. /\ holds' = AfterExpiry(due)
      /\ WriteLedgerRows(ExpireRows(due))
      /\ UNCHANGED <<earnings, nonces, debits, spent>>
  BY DEF RefuseTicket
<1> QED BY <1>1, <1>2

\* A step that expires holds of w, none of them t, and writes the rows of
\* those and of a new hold t.
ExpiresFor(w, t) ==
  \E due \in SUBSET HeldBy(w) :
    /\ t \notin due
    /\ \A u \in Tickets \ {t} : holds'[u] = AfterExpiry(due)[u]
    /\ WriteLedgerRows(ExpireRows(due) \cup {HoldRow(t)})

\* Issuing a ticket turns an empty row into a new hold and expires the wallet's
\* overdue ones, each with its ledger row.
LEMMA IssueEffect ==
  ASSUME LedgerShape, NEW w \in Wallets, NEW s \in Services, NEW n \in Nonces, NEW t \in Tickets,
         NEW cost \in Costs, NEW issuedAt \in 0 .. clock, IssueTicket(w, s, n, t, cost, issuedAt)
  PROVE  /\ holds[t] = NoHold
         /\ holds'[t].state = "HELD"
         /\ ExpiresFor(w, t)
         /\ nonces \subseteq nonces'
         /\ UNCHANGED <<earnings, debits, spent>>
<1> DEFINE due == Overdue(w, clock)
           new == [state |-> "HELD", wallet |-> w, service |-> s, cost |-> cost,
                   expiresAt |-> issuedAt + HoldTtl, proof |-> NoProof]
<1>1. due \in SUBSET HeldBy(w)
  BY DEF Overdue
<1>2. /\ holds[t] = NoHold
      /\ holds' = [AfterExpiry(due) EXCEPT ![t] = new]
      /\ WriteLedgerRows(ExpireRows(due) \cup {HoldRow(t)})
      /\ PersistAccessNonce(TicketNonce(<<w, s, n>>))
      /\ UNCHANGED <<earnings, debits, spent>>
  BY DEF IssueTicket
<1>3. t \notin due
  BY <1>1, <1>2 DEF HeldBy, NoHold
<1>4. nonces \subseteq nonces'
  BY <1>2 DEF PersistAccessNonce
<1>5. new.state = "HELD"
  OBVIOUS
<1> HIDE DEF due, new
<1>6. holds'[t] = new /\ \A u \in Tickets \ {t} : holds'[u] = AfterExpiry(due)[u]
  BY <1>2 DEF AfterExpiry
<1>7. ExpiresFor(w, t)
  BY <1>1, <1>2, <1>3, <1>6 DEF ExpiresFor
<1> QED BY <1>2, <1>4, <1>5, <1>6, <1>7

\* Finalizing a capture ends one held ticket and adds the one earning that
\* names it; the ticket had none.
LEMMA CaptureEffect ==
  ASSUME LedgerShape, NEW c \in Callers, FinalizeCapture(c)
  PROVE  \E t \in Tickets, e \in Earning :
           /\ holds[t] \in Hold /\ holds[t].state = "HELD"
           /\ holds'[t].state = "CAPTURED"
           /\ holds'[t].wallet = holds[t].wallet /\ holds'[t].cost = holds[t].cost
           /\ \A u \in Tickets \ {t} : holds'[u] = holds[u]
           /\ WriteLedgerRows({CaptureRow(t)})
           /\ ~Earned(CaptureSource(t))
           /\ e.source = CaptureSource(t) /\ e.wallet = holds[t].wallet /\ e.credits = holds[t].cost
           /\ earnings' = earnings \cup {e}
           /\ spent' = [spent EXCEPT ![e.wallet] = @ + e.credits]
           /\ UNCHANGED <<nonces, debits>>
<1> DEFINE t == calls[c].ticket
           h == holds[t]
           e == [source |-> CaptureSource(t), wallet |-> h.wallet, credits |-> h.cost]
<1>1. t \in Tickets /\ h \in Hold /\ h.state = "HELD"
  BY LockedHold DEF LedgerShape
<1>2. /\ holds' = [holds EXCEPT ![t].state = "CAPTURED", ![t].proof = calls[c].proof]
      /\ WriteLedgerRows({CaptureRow(t)})
      /\ ~Earned(CaptureSource(t))
      /\ earnings' = earnings \cup {e}
      /\ spent' = [spent EXCEPT ![h.wallet] = @ + h.cost]
      /\ UNCHANGED <<nonces, debits>>
  BY DEF FinalizeCapture
<1>3. holds \in HoldTable
  BY DEF LedgerShape, TypeOK, HoldTable
<1>4. /\ holds'[t].state = "CAPTURED"
      /\ holds'[t].wallet = h.wallet /\ holds'[t].cost = h.cost
      /\ \A u \in Tickets \ {t} : holds'[u] = holds[u]
  BY <1>1, <1>2, <1>3 DEF HoldTable, Hold
<1>5. h.wallet \in Wallets /\ h.cost \in Costs
  BY <1>1 DEF Hold
<1>6. e \in Earning /\ e.source = CaptureSource(t) /\ e.wallet = h.wallet /\ e.credits = h.cost
  BY <1>1, <1>5 DEF Earning, CaptureSource
<1>7. spent' = [spent EXCEPT ![e.wallet] = @ + e.credits]
  BY <1>2, <1>6
<1> HIDE DEF e, t
<1> QED BY <1>1, <1>2, <1>4, <1>6, <1>7

\* A sweep expires one held ticket and gives its cost back.
LEMMA ExpireEffect ==
  ASSUME LedgerShape, NEW k \in Sweepers, NEW t \in Tickets, ExpireHold(k, t)
  PROVE  /\ holds[t] \in Hold /\ holds[t].state = "HELD"
         /\ holds'[t].state = "EXPIRED"
         /\ holds'[t].wallet = holds[t].wallet /\ holds'[t].cost = holds[t].cost
         /\ \A u \in Tickets \ {t} : holds'[u] = holds[u]
         /\ WriteLedgerRows({ExpireRow(t)})
         /\ UNCHANGED <<earnings, nonces, debits, spent>>
<1>1. /\ holds[t].state = "HELD"
      /\ holds' = [holds EXCEPT ![t].state = "EXPIRED"]
      /\ WriteLedgerRows({ExpireRow(t)})
      /\ UNCHANGED <<earnings, nonces, debits, spent>>
  BY DEF ExpireHold, Expirable
<1>2. holds \in HoldTable
  BY DEF LedgerShape, TypeOK, HoldTable
<1>3. holds[t] \in Hold
  BY <1>1, <1>2 DEF HoldTable, NoHold
<1> QED BY <1>1, <1>2, <1>3 DEF HoldTable, Hold

\* What a gate debit writes: of one request, and with one earning if the
\* service has an owner.
DebitWrites(r, e) ==
  /\ e.source = GateSource(r)
  /\ IF r[2] \in Owned
       THEN ~Earned(GateSource(r)) /\ earnings' = earnings \cup {e}
       ELSE UNCHANGED earnings
  /\ ~NonceUsed(GateNonce(r)) /\ LedgerRowsFree({GateRow(r)})
  /\ PersistAccessNonce(GateNonce(r))
  /\ WriteLedgerRows({GateRow(r)})
  /\ spent' = [spent EXCEPT ![e.wallet] = @ + e.credits]
  /\ debits' = [debits EXCEPT ![r] = @ + 1]
  /\ holds' = holds

\* A gate debit writes the nonce, the ledger row and the earning of its
\* request, none of which was there.
LEMMA DebitEffect ==
  ASSUME Debiting
  PROVE  \E r \in Requests, e \in Earning : DebitWrites(r, e)
<1>1. PICK w \in Wallets, s \in Services, n \in Nonces, cost \in Costs : GateDebit(w, s, n, cost)
  BY DEF Debiting
<1> DEFINE r == <<w, s, n>>
           e == [source |-> GateSource(r), wallet |-> w, credits |-> cost]
<1>2. r \in Requests /\ r[2] = s
  BY DEF Requests
<1>3. e \in Earning /\ e.source = GateSource(r) /\ e.wallet = w /\ e.credits = cost
  BY <1>2 DEF Earning, GateSource
<1>4. /\ earnings' = IF s \in Owned THEN earnings \cup {e} ELSE earnings
      /\ s \in Owned => ~Earned(GateSource(r))
      /\ ~NonceUsed(GateNonce(r)) /\ LedgerRowsFree({GateRow(r)})
      /\ PersistAccessNonce(GateNonce(r))
      /\ WriteLedgerRows({GateRow(r)})
      /\ spent' = [spent EXCEPT ![w] = @ + cost]
      /\ debits' = [debits EXCEPT ![r] = @ + 1]
      /\ holds' = holds
  BY <1>1 DEF GateDebit, HasCredits
<1> HIDE DEF e, r
<1>5. DebitWrites(r, e)
  BY <1>2, <1>3, <1>4 DEF DebitWrites
<1> QED BY <1>2, <1>3, <1>5

\* The other steps touch no hold, earning, nonce, debit or row of a ticket.
LEMMA RestEffect ==
  ASSUME Syncing \/ Quiet
  PROVE  UNCHANGED <<holds, ledgerIds, earnings, nonces, debits, spent>>
<1>1. CASE Syncing
  BY <1>1 DEF Syncing, ApplySync
<1>2. CASE Quiet
  BY <1>2 DEF Quiet, recordVars
<1> QED BY <1>1, <1>2

\* Every step takes each ticket one move on its way, or leaves it alone.
LEMMA HoldsMove ==
  ASSUME LedgerShape, [Next]_vars, NEW t \in Tickets
  PROVE  Moves(holds[t], holds'[t])
<1>0. TypeOK
  BY DEF LedgerShape
<1>1. CASE Issuing
  <2>1. PICK w \in Wallets, s \in Services, n \in Nonces, u \in Tickets, cost \in Costs :
          \E issuedAt \in 0 .. clock : IssueTicket(w, s, n, u, cost, issuedAt)
    BY <1>1 DEF Issuing
  <2>2. holds[u] = NoHold /\ holds'[u].state = "HELD" /\ ExpiresFor(w, u)
    BY <2>1, IssueEffect
  <2>3. CASE t = u
    BY <2>2, <2>3 DEF Moves
  <2>4. CASE t # u
    <3>1. PICK due \in SUBSET HeldBy(w) : holds'[t] = AfterExpiry(due)[t]
      BY <2>2, <2>4 DEF ExpiresFor
    <3> QED BY <1>0, <3>1, ExpiryMoves DEF Moves
  <2> QED BY <2>3, <2>4
<1>2. CASE Refusing
  <2>1. PICK w \in Wallets, cost \in Costs : RefuseTicket(w, cost)
    BY <1>2 DEF Refusing
  <2>2. PICK due \in SUBSET HeldBy(w) : holds' = AfterExpiry(due)
    BY <2>1, RefuseEffect
  <2> QED BY <1>0, <2>2, ExpiryMoves DEF Moves
<1>3. CASE Finalizing
  BY <1>3, CaptureEffect DEF Finalizing, Moves
<1>4. CASE Expiring
  BY <1>4, ExpireEffect DEF Expiring, Moves
<1>5. CASE StepOffHolds
  BY <1>5, OffHolds DEF Moves
<1> QED BY <1>1, <1>2, <1>3, <1>4, <1>5, StepsOfNext

-----------------------------------------------------------------------------
(***************************************************************************)
(* The ledger tells the story of each ticket.                              *)
(***************************************************************************)
\* The ledger's rows of one ticket, in a table of holds and a set of rows.
Told(h, rows, t) ==
  /\ HoldRow(t) \in rows <=> h # NoHold
  /\ CaptureRow(t) \in rows <=> h.state = "CAPTURED"
  /\ ExpireRow(t) \in rows <=> h.state = "EXPIRED"

\* The sweep of a wallet's own holds writes a row for each hold it expires.
LEMMA ExpiryTold ==
  ASSUME TypeOK, NEW w \in Wallets, NEW due \in SUBSET HeldBy(w), NEW t \in Tickets,
         Told(holds[t], ledgerIds, t)
  PROVE  Told(AfterExpiry(due)[t], ledgerIds \cup ExpireRows(due), t)
<1>1. /\ HoldRow(t) \notin ExpireRows(due)
      /\ CaptureRow(t) \notin ExpireRows(due)
      /\ ExpireRow(t) \in ExpireRows(due) <=> t \in due
  BY DEF HoldRow, CaptureRow, ExpireRow, ExpireRows
<1>2. CASE t \in due
  BY <1>1, <1>2, ExpiryMoves DEF Told, NoHold
<1>3. CASE t \notin due
  BY <1>1, <1>3, ExpiryMoves DEF Told
<1> QED BY <1>2, <1>3

\* Rows of other tickets and of gate requests say nothing of a ticket.
LEMMA OtherRows ==
  ASSUME NEW t, NEW rows, NEW h, Told(h, rows, t), NEW more,
         HoldRow(t) \notin more, CaptureRow(t) \notin more, ExpireRow(t) \notin more
  PROVE  Told(h, rows \cup more, t)
BY DEF Told

\* Every step that moves a ticket writes the row that says so.
LEMMA ToldInductive ==
  ASSUME LedgerShape, LedgerTellsHolds, [Next]_vars
  PROVE  LedgerTellsHolds'
<1> SUFFICES ASSUME LedgerEnabled, NEW t \in Tickets
             PROVE  Told(holds'[t], ledgerIds', t)
  BY DEF LedgerTellsHolds, Told
<1>0. TypeOK /\ Told(holds[t], ledgerIds, t)
  BY DEF LedgerTellsHolds, LedgerShape, Told
<1>1. CASE Issuing
  <2>1. PICK w \in Wallets, s \in Services, n \in Nonces, u \in Tickets, cost \in Costs :
          \E issuedAt \in 0 .. clock : IssueTicket(w, s, n, u, cost, issuedAt)
    BY <1>1 DEF Issuing
  <2>2. holds[u] = NoHold /\ holds'[u].state = "HELD" /\ ExpiresFor(w, u)
    BY <2>1, IssueEffect
  <2>3. PICK due \in SUBSET HeldBy(w) :
          /\ u \notin due
          /\ \A v \in Tickets \ {u} : holds'[v] = AfterExpiry(due)[v]
          /\ ledgerIds' = ledgerIds \cup ExpireRows(due) \cup {HoldRow(u)}
    BY <2>2 DEF ExpiresFor, WriteLedgerRows
  <2>4. CASE t # u
    <3>1. Told(holds'[t], ledgerIds \cup ExpireRows(due), t)
      BY <1>0, <2>3, <2>4, ExpiryTold
    <3>2. /\ HoldRow(t) \notin {HoldRow(u)}
          /\ CaptureRow(t) \notin {HoldRow(u)}
          /\ ExpireRow(t) \notin {HoldRow(u)}
      BY <2>4 DEF HoldRow, CaptureRow, ExpireRow
    <3> QED BY <2>3, <3>1, <3>2, OtherRows
  <2>5. CASE t = u
    <3>1. /\ CaptureRow(t) \notin ledgerIds /\ ExpireRow(t) \notin ledgerIds
      BY <1>0, <2>2, <2>5 DEF Told, NoHold
    <3>2. /\ CaptureRow(t) \notin ExpireRows(due) \cup {HoldRow(u)}
          /\ ExpireRow(t) \notin ExpireRows(due) \cup {HoldRow(u)}
      BY <2>3, <2>5 DEF HoldRow, CaptureRow, ExpireRow, ExpireRows
    <3> QED BY <2>2, <2>3, <2>5, <3>1, <3>2 DEF Told, NoHold
  <2> QED BY <2>4, <2>5
<1>2. CASE Refusing
  <2>1. PICK w \in Wallets, cost \in Costs : RefuseTicket(w, cost)
    BY <1>2 DEF Refusing
  <2>2. PICK due \in SUBSET HeldBy(w) : holds' = AfterExpiry(due) /\ ledgerIds' = ledgerIds \cup ExpireRows(due)
    BY <2>1, RefuseEffect DEF WriteLedgerRows
  <2> QED BY <1>0, <2>2, ExpiryTold
<1>3. CASE Finalizing
  <2>1. PICK u \in Tickets :
          /\ holds[u] \in Hold /\ holds[u].state = "HELD" /\ holds'[u].state = "CAPTURED"
          /\ \A v \in Tickets \ {u} : holds'[v] = holds[v]
          /\ ledgerIds' = ledgerIds \cup {CaptureRow(u)}
    BY <1>3, CaptureEffect DEF Finalizing, WriteLedgerRows
  <2>2. CASE t = u
    BY <1>0, <2>1, <2>2 DEF Told, NoHold, HoldRow, CaptureRow, ExpireRow
  <2>3. CASE t # u
    BY <1>0, <2>1, <2>3, OtherRows DEF HoldRow, CaptureRow, ExpireRow
  <2> QED BY <2>2, <2>3
<1>4. CASE Expiring
  <2>1. PICK u \in Tickets :
          /\ holds[u] \in Hold /\ holds[u].state = "HELD" /\ holds'[u].state = "EXPIRED"
          /\ \A v \in Tickets \ {u} : holds'[v] = holds[v]
          /\ ledgerIds' = ledgerIds \cup {ExpireRow(u)}
    BY <1>4, ExpireEffect DEF Expiring, WriteLedgerRows
  <2>2. CASE t = u
    BY <1>0, <2>1, <2>2 DEF Told, NoHold, HoldRow, CaptureRow, ExpireRow
  <2>3. CASE t # u
    BY <1>0, <2>1, <2>3, OtherRows DEF HoldRow, CaptureRow, ExpireRow
  <2> QED BY <2>2, <2>3
<1>5. CASE Debiting
  <2>1. PICK r \in Requests : holds' = holds /\ ledgerIds' = ledgerIds \cup {GateRow(r)}
    BY <1>5, DebitEffect DEF DebitWrites, WriteLedgerRows
  <2> QED BY <1>0, <2>1, OtherRows DEF HoldRow, CaptureRow, ExpireRow, GateRow
<1>6. CASE Syncing \/ Quiet
  BY <1>0, <1>6, RestEffect
<1> QED BY <1>1, <1>2, <1>3, <1>4, <1>5, <1>6, StepsOfNext DEF StepOffHolds

-----------------------------------------------------------------------------
(***************************************************************************)
(* A ticket pays once.                                                     *)
(***************************************************************************)
\* A step that captures nothing and earns nothing of a ticket.
LEMMA NothingCaptured ==
  ASSUME LedgerShape, CapturedIffEarnedOnce, [Next]_vars, UNCHANGED earnings,
         \A t \in Tickets : holds'[t].state = "CAPTURED" => holds'[t] = holds[t]
  PROVE  CapturedIffEarnedOnce'
<1>1. \A t \in Tickets : holds'[t].state = "CAPTURED" <=> holds[t].state = "CAPTURED"
  BY HoldsMove DEF Moves, NoHold
<1>2. \A t \in Tickets, e \in earnings : e.source = CaptureSource(t) => holds[t].state = "CAPTURED"
  BY DEF CapturedIffEarnedOnce, Earned
<1>3. \A t \in Tickets, e \in earnings' :
        e.source = CaptureSource(t) => e.wallet = holds'[t].wallet /\ e.credits = holds'[t].cost
  BY <1>1, <1>2 DEF CapturedIffEarnedOnce
<1> QED BY <1>1, <1>3 DEF CapturedIffEarnedOnce, Earned

\* A capture and its earning are one step, and no earning has the source of another.
LEMMA CapturedInductive ==
  ASSUME LedgerShape, CapturedIffEarnedOnce, [Next]_vars
  PROVE  CapturedIffEarnedOnce'
<1>0. TypeOK
  BY DEF LedgerShape
<1>1. CASE Issuing
  <2>1. PICK w \in Wallets, s \in Services, n \in Nonces, u \in Tickets, cost \in Costs :
          \E issuedAt \in 0 .. clock : IssueTicket(w, s, n, u, cost, issuedAt)
    BY <1>1 DEF Issuing
  <2>2. holds'[u].state = "HELD" /\ earnings' = earnings /\ ExpiresFor(w, u)
    BY <2>1, IssueEffect
  <2>3. PICK due \in SUBSET HeldBy(w) : \A v \in Tickets \ {u} : holds'[v] = AfterExpiry(due)[v]
    BY <2>2 DEF ExpiresFor
  <2>4. \A t \in Tickets : holds'[t].state = "CAPTURED" => holds'[t] = holds[t]
    BY <1>0, <2>2, <2>3, ExpiryMoves
  <2> QED BY <2>2, <2>4, NothingCaptured
<1>2. CASE Refusing
  <2>1. PICK w \in Wallets, cost \in Costs : RefuseTicket(w, cost)
    BY <1>2 DEF Refusing
  <2>2. PICK due \in SUBSET HeldBy(w) : holds' = AfterExpiry(due) /\ earnings' = earnings
    BY <2>1, RefuseEffect
  <2>3. \A t \in Tickets : holds'[t].state = "CAPTURED" => holds'[t] = holds[t]
    BY <1>0, <2>2, ExpiryMoves
  <2> QED BY <2>2, <2>3, NothingCaptured
<1>3. CASE Finalizing
  <2>1. PICK u \in Tickets, e \in Earning :
          /\ holds[u].state = "HELD" /\ holds'[u].state = "CAPTURED"
          /\ holds'[u].wallet = holds[u].wallet /\ holds'[u].cost = holds[u].cost
          /\ \A v \in Tickets \ {u} : holds'[v] = holds[v]
          /\ ~Earned(CaptureSource(u))
          /\ e.source = CaptureSource(u) /\ e.wallet = holds[u].wallet /\ e.credits = holds[u].cost
          /\ earnings' = earnings \cup {e}
    BY <1>3, CaptureEffect DEF Finalizing
  <2>2. \A t \in Tickets : CaptureSource(t) = CaptureSource(u) => t = u
    BY DEF CaptureSource
  <2>3. \A f \in earnings : f.source # e.source
    BY <2>1 DEF Earned
  <2>4. \A t \in Tickets : holds'[t].state = "CAPTURED" <=> \E f \in earnings' : f.source = CaptureSource(t)
    <3> TAKE t \in Tickets
    <3>1. CASE t = u
      BY <2>1, <3>1
    <3>2. CASE t # u
      <4>1. holds'[t] = holds[t] /\ e.source # CaptureSource(t)
        BY <2>1, <2>2, <3>2
      <4> QED BY <2>1, <4>1 DEF CapturedIffEarnedOnce, Earned
    <3> QED BY <3>1, <3>2
  <2>5. \A t \in Tickets, f \in earnings' :
          f.source = CaptureSource(t) => f.wallet = holds'[t].wallet /\ f.credits = holds'[t].cost
    <3> TAKE t \in Tickets, f \in earnings'
    <3>1. CASE t = u
      BY <2>1, <2>3, <3>1
    <3>2. CASE t # u
      BY <2>1, <2>2, <3>2 DEF CapturedIffEarnedOnce
    <3> QED BY <3>1, <3>2
  <2>6. \A f, g \in earnings' : f.source = g.source => f = g
    BY <2>1, <2>3 DEF CapturedIffEarnedOnce
  <2> QED BY <2>4, <2>5, <2>6 DEF CapturedIffEarnedOnce, Earned
<1>4. CASE Expiring
  <2>1. earnings' = earnings /\ \A t \in Tickets : holds'[t].state = "CAPTURED" => holds'[t] = holds[t]
    BY <1>4, ExpireEffect DEF Expiring
  <2> QED BY <2>1, NothingCaptured
<1>5. CASE Debiting
  <2>1. PICK r \in Requests, e \in Earning : DebitWrites(r, e)
    BY <1>5, DebitEffect
  <2>2. e.source = GateSource(r) /\ holds' = holds
    BY <2>1 DEF DebitWrites
  <2>3. CASE earnings' = earnings
    BY <2>2, <2>3, NothingCaptured
  <2>4. CASE ~Earned(GateSource(r)) /\ earnings' = earnings \cup {e}
    <3>1. \A f \in earnings : f.source # e.source
      BY <2>2, <2>4 DEF Earned
    <3>2. \A t \in Tickets : e.source # CaptureSource(t)
      BY <2>2 DEF GateSource, CaptureSource
    <3> QED BY <2>2, <2>4, <3>1, <3>2 DEF CapturedIffEarnedOnce, Earned
  <2> QED BY <2>1, <2>3, <2>4 DEF DebitWrites
<1>6. CASE Syncing \/ Quiet
  BY <1>6, RestEffect, NothingCaptured
<1> QED BY <1>1, <1>2, <1>3, <1>4, <1>5, <1>6, StepsOfNext DEF StepOffHolds

-----------------------------------------------------------------------------
(***************************************************************************)
(* A request is debited once: each of the three guards leaves a mark that  *)
(* is never removed.                                                       *)
(***************************************************************************)
Marked(r) ==
  /\ NonceStore => GateNonce(r) \in nonces
  /\ LedgerEnabled => GateRow(r) \in ledgerIds
  /\ Owned = Services => Earned(GateSource(r))

DebitedOnce ==
  (NonceStore \/ LedgerEnabled \/ Owned = Services) =>
    \A r \in Requests : debits[r] = 0 \/ (debits[r] = 1 /\ Marked(r))

\* Marks stay.
LEMMA MarksStay ==
  ASSUME LedgerShape, [Next]_vars
  PROVE  nonces \subseteq nonces' /\ ledgerIds \subseteq ledgerIds' /\ earnings \subseteq earnings'
<1>1. CASE Issuing
  <2>1. PICK w \in Wallets, s \in Services, n \in Nonces, u \in Tickets, cost \in Costs :
          \E issuedAt \in 0 .. clock : IssueTicket(w, s, n, u, cost, issuedAt)
    BY <1>1 DEF Issuing
  <2> QED BY <2>1 DEF IssueTicket, PersistAccessNonce, WriteLedgerRows
<1>2. CASE Refusing
  BY <1>2 DEF Refusing, RefuseTicket, WriteLedgerRows
<1>3. CASE Finalizing
  BY <1>3 DEF Finalizing, FinalizeCapture, WriteLedgerRows
<1>4. CASE Expiring
  BY <1>4 DEF Expiring, ExpireHold, WriteLedgerRows
<1>5. CASE Debiting
  BY <1>5 DEF Debiting, GateDebit, PersistAccessNonce, WriteLedgerRows
<1>6. CASE Syncing \/ Quiet
  BY <1>6, RestEffect
<1> QED BY <1>1, <1>2, <1>3, <1>4, <1>5, <1>6, StepsOfNext DEF StepOffHolds

\* A debit finds no mark of its request and leaves them all.
LEMMA DebitsInductive ==
  ASSUME LedgerShape, DebitedOnce, [Next]_vars
  PROVE  DebitedOnce'
<1> SUFFICES ASSUME NonceStore \/ LedgerEnabled \/ Owned = Services, NEW r \in Requests
             PROVE  debits'[r] = 0 \/ (debits'[r] = 1 /\ Marked(r)')
  BY DEF DebitedOnce
<1>1. debits[r] = 0 \/ (debits[r] = 1 /\ Marked(r))
  BY DEF DebitedOnce
<1>2. Marked(r) => Marked(r)'
  BY MarksStay DEF Marked, Earned
<1>3. CASE Debiting
  <2>1. PICK q \in Requests, e \in Earning : DebitWrites(q, e)
    BY <1>3, DebitEffect
  <2>2. /\ e.source = GateSource(q)
        /\ q[2] \in Owned => ~Earned(GateSource(q)) /\ earnings' = earnings \cup {e}
        /\ ~NonceUsed(GateNonce(q)) /\ LedgerRowsFree({GateRow(q)})
        /\ PersistAccessNonce(GateNonce(q))
        /\ WriteLedgerRows({GateRow(q)})
        /\ debits' = [debits EXCEPT ![q] = @ + 1]
    BY <2>1 DEF DebitWrites
  <2>3. CASE r # q
    <3>1. debits'[r] = debits[r]
      BY <2>2, <2>3 DEF LedgerShape, TypeOK
    <3> QED BY <1>1, <1>2, <3>1
  <2>4. CASE r = q
    <3>1. Owned = Services => r[2] \in Owned
      BY DEF Requests
    <3>2. ~Marked(r)
      BY <2>2, <2>4, <3>1 DEF Marked, NonceUsed, LedgerRowsFree
    <3>3. debits'[r] = 1
      BY <1>1, <2>2, <2>4, <3>2 DEF LedgerShape, TypeOK
    <3>4. Marked(r)'
      BY <2>2, <2>4, <3>1 DEF Marked, PersistAccessNonce, WriteLedgerRows, Earned
    <3> QED BY <3>3, <3>4
  <2> QED BY <2>3, <2>4
<1>4. CASE ~Debiting
  <2>1. debits' = debits
    <3>1. CASE Issuing
      <4>1. PICK w \in Wallets, s \in Services, n \in Nonces, u \in Tickets, cost \in Costs :
              \E issuedAt \in 0 .. clock : IssueTicket(w, s, n, u, cost, issuedAt)
        BY <3>1 DEF Issuing
      <4> QED BY <4>1 DEF IssueTicket
    <3>2. CASE Refusing
      BY <3>2 DEF Refusing, RefuseTicket
    <3>3. CASE Finalizing
      BY <3>3 DEF Finalizing, FinalizeCapture
    <3>4. CASE Expiring
      BY <3>4 DEF Expiring, ExpireHold
    <3>5. CASE Syncing \/ Quiet
      BY <3>5, RestEffect
    <3> QED BY <1>4, <3>1, <3>2, <3>3, <3>4, <3>5, StepsOfNext DEF StepOffHolds
  <2> QED BY <1>1, <1>2, <2>1
<1> QED BY <1>3, <1>4

-----------------------------------------------------------------------------
(***************************************************************************)
(* What wallets spent is what merchants earned.                            *)
(***************************************************************************)
EarnedTotal(es, w) == Total(EarnedBy(w, es), es)

EarningsAddUp ==
  /\ IsFiniteSet(earnings)
  /\ Owned = Services => \A w \in Wallets : spent[w] = EarnedTotal(earnings, w)

\* An earning adds its credits to what its wallet paid.
LEMMA OneMoreEarning ==
  ASSUME NEW es \in SUBSET Earning, IsFiniteSet(es), NEW e \in Earning, e \notin es, NEW w \in Wallets
  PROVE  /\ EarnedTotal(es, w) \in Nat
         /\ EarnedTotal(es \cup {e}, w) = EarnedTotal(es, w) + (IF e.wallet = w THEN e.credits ELSE 0)
<1> DEFINE S == es \cup {e}
           f == EarnedBy(w, S)
           g == EarnedBy(w, es)
<1>1. IsFiniteSet(S)
  BY FS_AddElement
<1>2. \A x \in S : f[x] = IF x.wallet = w THEN x.credits ELSE 0
  BY DEF EarnedBy
<1>3. \A x \in S : f[x] \in Nat
  <2> SUFFICES ASSUME NEW x \in S PROVE f[x] \in Nat
    OBVIOUS
  <2>1. x \in Earning
    BY DEF S
  <2>2. x.credits \in Nat
    BY <2>1, LedgerAssumption DEF Earning, LedgerAssumption
  <2>3. f[x] = IF x.wallet = w THEN x.credits ELSE 0
    BY <1>2
  <2> HIDE DEF f
  <2> QED BY <2>2, <2>3
<1>4. \A x \in es : f[x] = g[x]
  BY DEF EarnedBy
<1>5. f[e] = (IF e.wallet = w THEN e.credits ELSE 0) /\ f[e] \in Nat
  BY <1>2, <1>3
<1>6. es \in SUBSET S /\ S \ es = {e}
  OBVIOUS
<1> HIDE DEF S, f, g
<1>7. /\ Total(f, es) \in Nat
      /\ Total(f, S) = Total(f, es) + Total(f, S \ es)
  BY <1>1, <1>3, <1>6, TotalSplit
<1>8. Total(f, {e}) = f[e]
  BY <1>5, TotalOne
<1>9. Total(f, es) = Total(g, es)
  BY <1>4, TotalSame
<1>10. EarnedTotal(es, w) = Total(g, es)
  BY DEF g, EarnedTotal
<1>11. EarnedTotal(es \cup {e}, w) = Total(f, S)
  BY DEF f, S, EarnedTotal
<1> QED BY <1>5, <1>6, <1>7, <1>8, <1>9, <1>10, <1>11

\* A step that earns one more keeps the totals, if its wallet spends as much.
LEMMA SpentAndEarned ==
  ASSUME LedgerShape, EarningsAddUp, NEW e \in Earning, e \notin earnings,
         earnings' = earnings \cup {e},
         spent' = [spent EXCEPT ![e.wallet] = @ + e.credits]
  PROVE  EarningsAddUp'
<1>1. /\ earnings \in SUBSET Earning /\ IsFiniteSet(earnings)
      /\ spent \in [Wallets -> Nat]
      /\ e.wallet \in Wallets /\ e.credits \in Nat
  BY DEF LedgerShape, TypeOK, EarningsAddUp, Earning
<1>2. IsFiniteSet(earnings')
  BY <1>1, FS_AddElement
<1>3. ASSUME Owned = Services, NEW w \in Wallets
      PROVE  spent'[w] = EarnedTotal(earnings', w)
  <2>1. /\ EarnedTotal(earnings, w) \in Nat
        /\ EarnedTotal(earnings', w) = EarnedTotal(earnings, w) + (IF e.wallet = w THEN e.credits ELSE 0)
    BY <1>1, OneMoreEarning
  <2>2. spent[w] = EarnedTotal(earnings, w)
    BY <1>3 DEF EarningsAddUp
  <2> QED BY <1>1, <2>1, <2>2
<1> QED BY <1>2, <1>3 DEF EarningsAddUp, EarnedTotal

\* Every step spends what it earns.
LEMMA EarningsInductive ==
  ASSUME LedgerShape, EarningsAddUp, [Next]_vars
  PROVE  EarningsAddUp'
<1>0. UNCHANGED <<earnings, spent>> => EarningsAddUp'
  BY DEF EarningsAddUp, EarnedTotal
<1>1. CASE Issuing
  <2>1. PICK w \in Wallets, s \in Services, n \in Nonces, u \in Tickets, cost \in Costs :
          \E issuedAt \in 0 .. clock : IssueTicket(w, s, n, u, cost, issuedAt)
    BY <1>1 DEF Issuing
  <2> QED BY <1>0, <2>1 DEF IssueTicket
<1>2. CASE Refusing
  BY <1>0, <1>2 DEF Refusing, RefuseTicket
<1>3. CASE Finalizing
  <2>1. PICK u \in Tickets, e \in Earning :
          /\ ~Earned(CaptureSource(u))
          /\ e.source = CaptureSource(u)
          /\ earnings' = earnings \cup {e}
          /\ spent' = [spent EXCEPT ![e.wallet] = @ + e.credits]
    BY <1>3, CaptureEffect DEF Finalizing
  <2>2. e \notin earnings
    BY <2>1 DEF Earned
  <2> QED BY <2>1, <2>2, SpentAndEarned
<1>4. CASE Expiring
  BY <1>0, <1>4 DEF Expiring, ExpireHold
<1>5. CASE Debiting
  <2>1. PICK r \in Requests, e \in Earning : DebitWrites(r, e)
    BY <1>5, DebitEffect
  <2>2. spent' = [spent EXCEPT ![e.wallet] = @ + e.credits]
    BY <2>1 DEF DebitWrites
  <2>3. CASE r[2] \in Owned
    <3>1. e.source = GateSource(r) /\ ~Earned(GateSource(r)) /\ earnings' = earnings \cup {e}
      BY <2>1, <2>3 DEF DebitWrites
    <3>2. e \notin earnings
      BY <3>1 DEF Earned
    <3> QED BY <2>2, <3>1, <3>2, SpentAndEarned
  <2>4. CASE r[2] \notin Owned
    <3>1. earnings' = earnings
      BY <2>1, <2>4 DEF DebitWrites
    <3>2. Owned # Services
      BY <2>4 DEF Requests
    <3> QED BY <3>1, <3>2 DEF EarningsAddUp
  <2> QED BY <2>3, <2>4
<1>6. CASE Syncing \/ Quiet
  BY <1>0, <1>6, RestEffect
<1> QED BY <1>1, <1>2, <1>3, <1>4, <1>5, <1>6, StepsOfNext DEF StepOffHolds

-----------------------------------------------------------------------------
(***************************************************************************)
(* Conservation of credits.                                                *)
(***************************************************************************)
Conserved == \A w \in Wallets : OvertakenSync(w) \/ Wealth(w)' = Wealth(w)

\* Credits of one wallet move between available, held and spent.
Moved(w, x, y, z) ==
  /\ x + y + z = 0
  /\ \A v \in Wallets :
       /\ credits'[v] = IF v = w THEN credits[v] + x ELSE credits[v]
       /\ held'[v] = IF v = w THEN held[v] + y ELSE held[v]
       /\ spent'[v] = IF v = w THEN spent[v] + z ELSE spent[v]
  /\ funded' = funded

\* Moving credits of one wallet between available, held and spent conserves them.
LEMMA MovedWithin ==
  ASSUME LedgerShape, NEW w \in Wallets, NEW x \in Int, NEW y \in Int, NEW z \in Int, Moved(w, x, y, z)
  PROVE  Conserved
<1> SUFFICES ASSUME NEW v \in Wallets PROVE Wealth(v)' = Wealth(v)
  BY DEF Conserved
<1>1. /\ credits[v] \in Nat /\ held[v] \in Nat /\ spent[v] \in Nat /\ funded[v] \in Nat
  BY DEF LedgerShape, TypeOK
<1> QED BY <1>1 DEF Wealth, Moved

\* No step but the write of an overtaken sync makes or loses credits.
LEMMA StepsConserve ==
  ASSUME LedgerShape, [Next]_vars
  PROVE  Conserved
<1>0. TypeOK
  BY DEF LedgerShape
<1>1. CASE Issuing
  <2>1. PICK w \in Wallets, s \in Services, n \in Nonces, u \in Tickets, cost \in Costs :
          \E issuedAt \in 0 .. clock : IssueTicket(w, s, n, u, cost, issuedAt)
    BY <1>1 DEF Issuing
  <2>2. PICK x \in Nat : x = Swept(w, Overdue(w, clock))
    BY <1>0, SweptType
  <2>3. /\ credits' = [credits EXCEPT ![w] = @ + x - cost]
        /\ held' = [held EXCEPT ![w] = @ - x + cost]
        /\ UNCHANGED <<spent, funded>>
    BY <2>1, <2>2 DEF IssueTicket
  <2>4. /\ \A v \in Wallets : credits'[v] = IF v = w THEN credits[v] + (x - cost) ELSE credits[v]
        /\ \A v \in Wallets : held'[v] = IF v = w THEN held[v] + (cost - x) ELSE held[v]
        /\ \A v \in Wallets : spent'[v] = IF v = w THEN spent[v] + 0 ELSE spent[v]
    BY <1>0, <2>3, <2>2 DEF TypeOK
  <2>5. /\ (x - cost) \in Int /\ (cost - x) \in Int /\ 0 \in Int
        /\ (x - cost) + (cost - x) + 0 = 0 /\ funded' = funded
    BY <2>3, <2>2
  <2>6. Moved(w, x - cost, cost - x, 0)
    BY <2>4, <2>5 DEF Moved
  <2> QED BY <2>5, <2>6, MovedWithin
<1>2. CASE Refusing
  <2>1. PICK w \in Wallets, cost \in Costs : RefuseTicket(w, cost)
    BY <1>2 DEF Refusing
  <2>2. PICK x \in Nat : x = Swept(w, Overdue(w, clock))
    BY <1>0, SweptType
  <2>3. /\ credits' = [credits EXCEPT ![w] = @ + x]
        /\ held' = [held EXCEPT ![w] = @ - x]
        /\ UNCHANGED <<spent, funded>>
    BY <2>1, <2>2 DEF RefuseTicket
  <2>4. /\ \A v \in Wallets : credits'[v] = IF v = w THEN credits[v] + x ELSE credits[v]
        /\ \A v \in Wallets : held'[v] = IF v = w THEN held[v] + (0 - x) ELSE held[v]
        /\ \A v \in Wallets : spent'[v] = IF v = w THEN spent[v] + 0 ELSE spent[v]
    BY <1>0, <2>3, <2>2 DEF TypeOK
  <2>5. /\ x \in Int /\ (0 - x) \in Int /\ 0 \in Int
        /\ x + (0 - x) + 0 = 0 /\ funded' = funded
    BY <2>3, <2>2
  <2>6. Moved(w, x, 0 - x, 0)
    BY <2>4, <2>5 DEF Moved
  <2> QED BY <2>5, <2>6, MovedWithin
<1>3. CASE Finalizing
  <2>1. PICK c \in Callers : FinalizeCapture(c)
    BY <1>3 DEF Finalizing
  <2> DEFINE h == holds[calls[c].ticket]
  <2>2. h.wallet \in Wallets /\ h.cost \in Nat
    BY <2>1, LockedHold DEF LedgerShape, Hold
  <2>3. /\ held' = [held EXCEPT ![h.wallet] = @ - h.cost]
        /\ spent' = [spent EXCEPT ![h.wallet] = @ + h.cost]
        /\ UNCHANGED <<credits, funded>>
    BY <2>1 DEF FinalizeCapture, ReleaseHeld
  <2>4. PICK w \in Wallets, cost \in Nat : w = h.wallet /\ cost = h.cost
    BY <2>2
  <2>5. /\ \A v \in Wallets : credits'[v] = IF v = w THEN credits[v] + 0 ELSE credits[v]
        /\ \A v \in Wallets : held'[v] = IF v = w THEN held[v] + (0 - cost) ELSE held[v]
        /\ \A v \in Wallets : spent'[v] = IF v = w THEN spent[v] + cost ELSE spent[v]
    BY <1>0, <2>3, <2>4 DEF TypeOK
  <2>6. /\ 0 \in Int /\ (0 - cost) \in Int /\ cost \in Int
        /\ 0 + (0 - cost) + cost = 0 /\ funded' = funded
    BY <2>3, <2>4
  <2>7. Moved(w, 0, 0 - cost, cost)
    BY <2>5, <2>6 DEF Moved
  <2> QED BY <2>6, <2>7, MovedWithin
<1>4. CASE Expiring
  <2>1. PICK k \in Sweepers, t \in Tickets : ExpireHold(k, t)
    BY <1>4 DEF Expiring
  <2> DEFINE h == holds[t]
  <2>2. h.wallet \in Wallets /\ h.cost \in Nat
    BY <2>1, ExpireEffect DEF Hold
  <2>3. /\ credits' = [credits EXCEPT ![h.wallet] = @ + h.cost]
        /\ held' = [held EXCEPT ![h.wallet] = @ - h.cost]
        /\ UNCHANGED <<spent, funded>>
    BY <2>1 DEF ExpireHold, ReleaseHeld
  <2>4. PICK w \in Wallets, cost \in Nat : w = h.wallet /\ cost = h.cost
    BY <2>2
  <2>5. /\ \A v \in Wallets : credits'[v] = IF v = w THEN credits[v] + cost ELSE credits[v]
        /\ \A v \in Wallets : held'[v] = IF v = w THEN held[v] + (0 - cost) ELSE held[v]
        /\ \A v \in Wallets : spent'[v] = IF v = w THEN spent[v] + 0 ELSE spent[v]
    BY <1>0, <2>3, <2>4 DEF TypeOK
  <2>6. /\ cost \in Int /\ (0 - cost) \in Int /\ 0 \in Int
        /\ cost + (0 - cost) + 0 = 0 /\ funded' = funded
    BY <2>3, <2>4
  <2>7. Moved(w, cost, 0 - cost, 0)
    BY <2>5, <2>6 DEF Moved
  <2> QED BY <2>6, <2>7, MovedWithin
<1>5. CASE Debiting
  <2>1. PICK w \in Wallets, s \in Services, n \in Nonces, cost \in Costs : GateDebit(w, s, n, cost)
    BY <1>5 DEF Debiting
  <2>2. /\ credits' = [credits EXCEPT ![w] = @ - cost]
        /\ spent' = [spent EXCEPT ![w] = @ + cost]
        /\ UNCHANGED <<held, funded>>
    BY <2>1 DEF GateDebit
  <2>3. cost \in Nat
    OBVIOUS
  <2>4. /\ \A v \in Wallets : credits'[v] = IF v = w THEN credits[v] + (0 - cost) ELSE credits[v]
        /\ \A v \in Wallets : held'[v] = IF v = w THEN held[v] + 0 ELSE held[v]
        /\ \A v \in Wallets : spent'[v] = IF v = w THEN spent[v] + cost ELSE spent[v]
    BY <1>0, <2>2, <2>3 DEF TypeOK
  <2>5. /\ (0 - cost) \in Int /\ 0 \in Int /\ cost \in Int
        /\ (0 - cost) + 0 + cost = 0 /\ funded' = funded
    BY <2>2, <2>3
  <2>6. Moved(w, 0 - cost, 0, cost)
    BY <2>4, <2>5 DEF Moved
  <2> QED BY <2>5, <2>6, MovedWithin
<1>6. CASE Syncing
  <2>1. PICK c \in Callers : ApplySync(c)
    BY <1>6 DEF Syncing
  <2> DEFINE call == calls[c]
             w == call.wallet
  <2>2. call \in SyncCall
    BY <1>0, <2>1 DEF TypeOK, ApplySync, SyncCall, CaptureCall, Idle
  <2>3. w \in Wallets /\ call.added \in Nat /\ call.seenCredits \in Nat /\ call.kind = "sync"
    BY <2>2 DEF SyncCall
  <2>4. /\ credits' = [credits EXCEPT ![w] = call.seenCredits + call.added]
        /\ funded' = [funded EXCEPT ![w] = @ + call.added]
        /\ calls' = [calls EXCEPT ![c] = Idle]
        /\ UNCHANGED <<held, spent>>
    BY <2>1 DEF ApplySync
  <2>5. calls'[c] = Idle
    BY <1>0, <2>4 DEF TypeOK
  <2> SUFFICES ASSUME NEW v \in Wallets, ~OvertakenSync(v) PROVE Wealth(v)' = Wealth(v)
    BY DEF Conserved
  <2>6. v = w => call.seenCredits = credits[v]
    BY <2>3, <2>5 DEF OvertakenSync
  <2> HIDE DEF call, w
  <2>7. /\ credits[v] \in Nat /\ held[v] \in Nat /\ spent[v] \in Nat /\ funded[v] \in Nat
        /\ credits'[v] = IF v = w THEN call.seenCredits + call.added ELSE credits[v]
        /\ funded'[v] = IF v = w THEN funded[v] + call.added ELSE funded[v]
    BY <1>0, <2>3, <2>4 DEF TypeOK
  <2> QED BY <2>3, <2>4, <2>6, <2>7 DEF Wealth
<1>7. CASE Quiet
  BY <1>7 DEF Quiet, balanceVars, recordVars, Conserved, Wealth
<1> QED BY <1>1, <1>2, <1>3, <1>4, <1>5, <1>6, <1>7, StepsOfNext DEF StepOffHolds

\* The ledger has one row for the issue of a ticket and one for the way it
\* ended, for any number of tickets, callers and sweepers.
THEOREM LedgerTellsTickets == Spec => []LedgerTellsHolds
<1>1. Init => LedgerTellsHolds
  BY DEF Init, LedgerTellsHolds, NoHold
<1>2. LedgerShape /\ LedgerTellsHolds /\ [Next]_vars => LedgerShape' /\ LedgerTellsHolds'
  BY ShapeInductive, ToldInductive
<1> QED BY ShapeInitial, <1>1, <1>2, PTL DEF Spec

\* A ticket was captured exactly when one earning names it, with its wallet
\* and cost.
THEOREM TicketPaysOnce == Spec => []CapturedIffEarnedOnce
<1>1. Init => CapturedIffEarnedOnce
  BY DEF Init, CapturedIffEarnedOnce, Earned, NoHold
<1>2. LedgerShape /\ CapturedIffEarnedOnce /\ [Next]_vars => LedgerShape' /\ CapturedIffEarnedOnce'
  BY ShapeInductive, CapturedInductive
<1> QED BY ShapeInitial, <1>1, <1>2, PTL DEF Spec

\* A signed gate request is debited at most once as long as one of the three
\* guards against its replay is on.
THEOREM RequestDebitedOnce == Spec => []OneDebitPerRequest
<1>1. Init => DebitedOnce
  BY DEF Init, DebitedOnce
<1>2. LedgerShape /\ DebitedOnce /\ [Next]_vars => LedgerShape' /\ DebitedOnce'
  BY ShapeInductive, DebitsInductive
<1>3. DebitedOnce => OneDebitPerRequest
  BY DEF DebitedOnce, OneDebitPerRequest
<1> QED BY ShapeInitial, <1>1, <1>2, <1>3, PTL DEF Spec

\* A ticket that has ended never changes again.
THEOREM EndsAreFinal == Spec => EndedHoldsAreFinal
<1>1. LedgerShape /\ [Next]_vars =>
        [\A t \in Tickets : holds[t].state \in {"CAPTURED", "EXPIRED"} => holds'[t] = holds[t]]_vars
  BY HoldsMove DEF Moves, NoHold
<1>2. LedgerShape /\ [Next]_vars => LedgerShape'
  BY ShapeInductive
<1> QED BY ShapeInitial, <1>1, <1>2, PTL DEF Spec, EndedHoldsAreFinal

\* When every service has an owner, what each wallet spent is the sum of the
\* earnings it paid for.
THEOREM SpentIsEarned == Spec => []EarningsMatchSpend
<1>1. Init => EarningsAddUp
  <2> SUFFICES ASSUME Init PROVE EarningsAddUp
    OBVIOUS
  <2>1. earnings = {} /\ \A w \in Wallets : spent[w] = 0
    BY DEF Init
  <2>2. \A w \in Wallets : EarnedTotal(earnings, w) = 0
    BY <2>1, TotalZero DEF EarnedTotal
  <2>3. IsFiniteSet(earnings)
    BY <2>1, FS_EmptySet
  <2> QED BY <2>1, <2>2, <2>3 DEF EarningsAddUp
<1>2. LedgerShape /\ EarningsAddUp /\ [Next]_vars => LedgerShape' /\ EarningsAddUp'
  BY ShapeInductive, EarningsInductive
<1>3. EarningsAddUp => EarningsMatchSpend
  BY DEF EarningsAddUp, EarningsMatchSpend, EarnedTotal
<1> QED BY ShapeInitial, <1>1, <1>2, <1>3, PTL DEF Spec

\* Credits are only moved or granted, but for the write of a deposit sync
\* whose read was overtaken.
THEOREM CreditsConserved == Spec => OnlyOvertakenSyncLosesCredits
<1>1. LedgerShape /\ [Next]_vars => [\A w \in Wallets : OvertakenSync(w) \/ Wealth(w)' = Wealth(w)]_vars
  BY StepsConserve DEF Conserved
<1>2. LedgerShape /\ [Next]_vars => LedgerShape'
  BY ShapeInductive
<1> QED BY ShapeInitial, <1>1, <1>2, PTL DEF Spec, OnlyOvertakenSyncLosesCredits

-----------------------------------------------------------------------------
(***************************************************************************)
(* The holds implement TicketEscrow.                                       *)
(***************************************************************************)
\* A sweep in flight judges by a time that has passed: it lists overdue holds
\* by the clock it read before, and the clock only grows.
SweepsLookBack == \A k \in Sweepers : sweeps[k].at <= clock

\* Only sweeps write the sweeps, and only time moves the clock.
LEMMA ClockAndSweeps ==
  ASSUME [Next]_vars
  PROVE  \/ UNCHANGED <<sweeps, clock>>
         \/ (\E k \in Sweepers : Sweep(k)) /\ UNCHANGED clock
         \/ Tick
<1>1. CASE CreateFulfillmentHold
  <2>1. ASSUME NEW w \in Wallets, NEW cost \in Costs, RefuseTicket(w, cost)
        PROVE  UNCHANGED <<sweeps, clock>>
    BY <2>1 DEF RefuseTicket
  <2>2. ASSUME NEW w \in Wallets, NEW cost \in Costs, NEW s \in Services, NEW n \in Nonces,
               NEW t \in Tickets, NEW issuedAt, IssueTicket(w, s, n, t, cost, issuedAt)
        PROVE  UNCHANGED <<sweeps, clock>>
    BY <2>2 DEF IssueTicket
  <2> QED BY <1>1, <2>1, <2>2 DEF CreateFulfillmentHold
<1>2. CASE ConsumeUserCreditsForGate
  BY <1>2 DEF ConsumeUserCreditsForGate, GateDebit, HasCredits
<1>3. ASSUME NEW c \in Callers, Call(c)
      PROVE  UNCHANGED <<sweeps, clock>>
  BY <1>3 DEF Call, CheckCapture, FinalizeCapture, ReadForSync, ApplySync, RollBack
<1>4. ASSUME NEW k \in Sweepers, Sweep(k)
      PROVE  UNCHANGED clock
  BY <1>4 DEF Sweep, StartSweep, ExpireHold, SkipOrFailCandidate
<1>5. ASSUME NEW s \in Services, SetSigner(s)
      PROVE  UNCHANGED <<sweeps, clock>>
  BY <1>5 DEF SetSigner
<1>6. CASE UNCHANGED vars
  BY <1>6 DEF vars
<1> QED BY <1>1, <1>2, <1>3, <1>4, <1>5, <1>6 DEF Next

\* Sweeps start at the present time and the clock only grows.
LEMMA SweepsLookBackInductive ==
  ASSUME TypeOK, SweepsLookBack, [Next]_vars
  PROVE  SweepsLookBack'
<1>0. clock \in Nat /\ sweeps \in [Sweepers -> [at : Nat, todo : SUBSET Tickets]]
  BY DEF TypeOK
<1>1. CASE \E k \in Sweepers : Sweep(k)
  <2>1. PICK k \in Sweepers : Sweep(k)
    BY <1>1
  <2>2. CASE StartSweep(k)
    BY <1>0, <2>2 DEF StartSweep, SweepsLookBack
  <2>3. ASSUME NEW t \in Tickets, DropCandidate(k, t), clock' = clock
        PROVE  SweepsLookBack'
    BY <1>0, <2>3 DEF DropCandidate, SweepsLookBack
  <2> QED BY <2>1, <2>2, <2>3 DEF Sweep, ExpireHold, SkipOrFailCandidate
<1>2. CASE Tick
  BY <1>0, <1>2 DEF Tick, SweepsLookBack
<1>3. CASE UNCHANGED <<sweeps, clock>>
  BY <1>3 DEF SweepsLookBack
<1> QED BY <1>1, <1>2, <1>3, ClockAndSweeps

\* The ledger's words for a wallet's tickets are those of the escrow.
LEMMA SameTickets ==
  ASSUME NEW w
  PROVE  /\ Escrow!Live(w) = HeldBy(w)
         /\ Escrow!Lapsed(w) = Overdue(w, clock)
         /\ \A due : Escrow!WithExpired(due) = AfterExpiry(due)
         /\ Escrow!NoTicket = NoHold
         /\ Escrow!NoProof = NoProof
BY DEF Escrow!Live, Escrow!Lapsed, Escrow!WithExpired, Escrow!NoTicket, Escrow!NoProof,
       HeldBy, Overdue, AfterExpiry, NoHold, NoProof

\* Every step of the ledger is a step of the escrow.
LEMMA StepsOfEscrow ==
  ASSUME LedgerShape, SweepsLookBack, [Next]_vars
  PROVE  Escrow!Next
<1>0. TypeOK
  BY DEF LedgerShape
<1>1. CASE Issuing
  <2>1. PICK w \in Wallets, s \in Services, n \in Nonces, t \in Tickets, cost \in Costs :
          \E issuedAt \in 0 .. clock : IssueTicket(w, s, n, t, cost, issuedAt)
    BY <1>1 DEF Issuing
  <2>2. PICK issuedAt \in 0 .. clock : IssueTicket(w, s, n, t, cost, issuedAt)
    BY <2>1
  <2>3. Escrow!Issue(w, s, t, cost, issuedAt)
    BY <2>2, SameTickets DEF IssueTicket, Escrow!Issue
  <2> QED BY <2>3 DEF Escrow!Next
<1>2. CASE Refusing
  <2>1. PICK w \in Wallets, cost \in Costs : RefuseTicket(w, cost)
    BY <1>2 DEF Refusing
  <2> DEFINE due == Overdue(w, clock)
  <2>2. due # {} /\ holds' = AfterExpiry(due) /\ clock' = clock
    BY <2>1 DEF RefuseTicket
  <2>3. due \in SUBSET Tickets
    BY DEF Overdue, HeldBy
  <2>4. Escrow!Expire(due)
    BY <2>2, SameTickets DEF Escrow!Expire
  <2> QED BY <2>3, <2>4 DEF Escrow!Next
<1>3. CASE Finalizing
  <2>1. PICK c \in Callers : FinalizeCapture(c)
    BY <1>3 DEF Finalizing
  <2> DEFINE t == calls[c].ticket
             p == calls[c].proof
  <2>2. t \in Tickets /\ holds[t].state = "HELD"
    BY <2>1, LockedHold DEF LedgerShape
  <2>3. calls[c] \in CaptureCall
    BY <1>0, <2>1 DEF FinalizeCapture, TypeOK, SyncCall, Idle
  <2>4. p \in Proofs
    BY <2>3 DEF CaptureCall
  <2>5. holds' = [holds EXCEPT ![t].state = "CAPTURED", ![t].proof = p] /\ clock' = clock
    BY <2>1 DEF FinalizeCapture
  <2>6. Escrow!Capture(t, p)
    BY <2>2, <2>5 DEF Escrow!Capture
  <2> QED BY <2>2, <2>4, <2>6 DEF Escrow!Next
<1>4. CASE Expiring
  <2>1. PICK k \in Sweepers, t \in Tickets : ExpireHold(k, t)
    BY <1>4 DEF Expiring
  <2>2. /\ holds[t].state = "HELD" /\ holds[t].expiresAt <= sweeps[k].at
        /\ holds' = [holds EXCEPT ![t].state = "EXPIRED"] /\ clock' = clock
    BY <2>1 DEF ExpireHold, Expirable
  <2>3. holds \in [Tickets -> Hold \cup {NoHold}] /\ holds[t] \in Hold
    BY <1>0, <2>2 DEF TypeOK, NoHold
  <2>4. holds[t].wallet \in Wallets /\ holds[t].expiresAt <= clock
    <3>1. /\ holds[t].wallet \in Wallets /\ holds[t].expiresAt \in Nat
          /\ sweeps[k].at \in Nat /\ clock \in Nat
      BY <1>0, <2>3 DEF Hold, TypeOK
    <3> QED BY <2>2, <3>1 DEF SweepsLookBack
  <2>5. t \in Overdue(holds[t].wallet, clock)
    BY <2>2, <2>4 DEF Overdue, HeldBy
  <2>6. holds' = AfterExpiry({t})
    BY <2>2, <2>3 DEF AfterExpiry
  <2>7. Escrow!Expire({t})
    BY <2>2, <2>4, <2>5, <2>6, SameTickets DEF Escrow!Expire
  <2> QED BY <2>7 DEF Escrow!Next
<1>5. CASE StepOffHolds
  <2>1. holds' = holds
    BY <1>5, OffHolds
  <2>2. clock' = clock \/ Tick
    BY ClockAndSweeps
  <2> QED BY <2>1, <2>2 DEF Tick, Escrow!Next, Escrow!Refuse, Escrow!Tick, Escrow!vars
<1> QED BY <1>1, <1>2, <1>3, <1>4, <1>5, StepsOfNext

\* The ledger implements the abstract ticket escrow: each of its steps issues,
\* expires or captures tickets as the escrow does, or leaves them alone.
THEOREM LedgerImplementsEscrow == Spec => ImplementsTicketEscrow
<1>1. Init => Escrow!Init
  BY DEF Init, Escrow!Init, Escrow!NoTicket, NoHold
<1>2. Init => LedgerShape /\ SweepsLookBack
  <2>1. Init => SweepsLookBack
    BY DEF Init, SweepsLookBack
  <2> QED BY <2>1, ShapeInitial
<1>3. LedgerShape /\ SweepsLookBack /\ [Next]_vars => LedgerShape' /\ SweepsLookBack'
  BY ShapeInductive, SweepsLookBackInductive DEF LedgerShape
<1>4. LedgerShape /\ SweepsLookBack /\ [Next]_vars => [Escrow!Next]_(Escrow!vars)
  BY StepsOfEscrow
<1> QED BY <1>1, <1>2, <1>3, <1>4, PTL DEF Spec, ImplementsTicketEscrow, Escrow!Spec

=============================================================================
