---------------------------- MODULE CreditLedger ----------------------------
(***************************************************************************)
(* The off-chain credit ledger of lib/db.ts: prepaid balances, fulfillment *)
(* holds (tickets), gate debits, deposit syncs and the merchant earnings   *)
(* they create.                                                            *)
(*                                                                         *)
(* Each exported function of lib/db.ts runs one Postgres transaction at    *)
(* READ COMMITTED. A transaction that locks its rows before reading them   *)
(* is one action. The two that do not are split where the code may be      *)
(* overtaken: syncDeposits reads the balance row without a lock and writes *)
(* an absolute value later, and captureFulfillmentHold checks the          *)
(* delegated signer, under the lock of the hold row only, before it locks  *)
(* the balance. expireFulfillmentHolds lists its candidates without a lock *)
(* and then runs one transaction per hold.                                 *)
(***************************************************************************)
EXTENDS Integers, FiniteSets, Totals

CONSTANTS
  Wallets,        \* consumer wallets (keys of CreditBalance)
  Services,       \* service slugs
  Tickets,        \* ticket ids the ticket route may draw
  Proofs,         \* delivery proof ids merchants may sign
  Nonces,         \* request nonces clients may sign
  Callers,        \* concurrent requests in flight
  Sweepers,       \* concurrent runs of the expire sweep
  Costs,          \* authoritative prices a service may have
  WalletHoldCap,  \* getFulfillmentWalletHoldCap()
  HoldTtl,        \* getFulfillmentHoldTtlMs(), in clock ticks
  SweepLimit,     \* "limit" of the expire sweep
  Owned,          \* services whose gateway config names a merchant owner
  LedgerEnabled,  \* GHOST_CREDIT_LEDGER_ENABLED
  NonceStore,     \* GHOST_GATE_NONCE_STORE_ENABLED and its enforcement
  LastTick,       \* bound on the clock
  LastBlock,      \* bound on the block cursor of a deposit sync
  MaxFunding      \* bound on the credits ever granted to a wallet

ASSUME LedgerAssumption ==
  /\ IsFiniteSet(Tickets)
  /\ Costs \subseteq Nat \ {0}
  /\ WalletHoldCap \in Nat \ {0}
  /\ HoldTtl \in Nat \ {0}
  /\ SweepLimit \in Nat \ {0}
  /\ Owned \subseteq Services
  /\ LedgerEnabled \in BOOLEAN
  /\ NonceStore \in BOOLEAN
  /\ LastTick \in Nat
  /\ LastBlock \in Nat
  /\ MaxFunding \in Nat

VARIABLES
  opened,     \* wallets that have a CreditBalance row
  credits,    \* CreditBalance.credits
  held,       \* CreditBalance.heldCredits
  cursor,     \* CreditBalance.lastSyncedBlock
  holds,      \* FulfillmentHold, by ticket id
  nonces,     \* AccessNonce rows
  earnings,   \* MerchantEarning rows
  ledgerIds,  \* requestIds of the CreditLedger rows that carry one
  tail,       \* balanceAfter of the wallet's latest CreditLedger row
  funded,     \* credits granted to the wallet by deposit syncs so far
  spent,      \* credits that left the wallet for a service so far
  debits,     \* gate debits taken so far for one signed request
  active,     \* services whose delegated signer is ACTIVE
  clock,      \* server time
  calls,      \* transactions in flight: read or locked, not yet written
  sweeps      \* expire sweeps in flight: their "now" and remaining candidates

balanceVars == <<opened, credits, held, cursor>>
recordVars == <<nonces, earnings, ledgerIds, tail, funded, spent, debits>>
vars == <<balanceVars, holds, recordVars, active, clock, calls, sweeps>>

NoRow == -1
NoHold == [state |-> "NONE"]
Idle == [kind |-> "idle"]
NoProof == "none"
Requests == Wallets \X Services \X Nonces

Hold == [state : {"HELD", "CAPTURED", "EXPIRED"}, wallet : Wallets, service : Services,
         cost : Costs, expiresAt : Nat, proof : Proofs \cup {NoProof}]

SyncCall == [kind : {"sync"}, wallet : Wallets, known : BOOLEAN, seenCredits : Nat,
             seenCursor : Nat, added : Nat, syncedTo : Nat, rollback : BOOLEAN]
CaptureCall == [kind : {"capture"}, ticket : Tickets, proof : Proofs]

Earning == [source : ({"FULFILLMENT_CAPTURE"} \X Tickets) \cup ({"GATE_DEBIT"} \X Requests),
            wallet : Wallets, credits : Costs]

(***************************************************************************)
(* What the tables say.                                                    *)
(***************************************************************************)
HeldCost(hs, w) ==
  [t \in Tickets |-> IF hs[t].state = "HELD" /\ hs[t].wallet = w THEN hs[t].cost ELSE 0]

HeldBy(w) == {t \in Tickets : holds[t].state = "HELD" /\ holds[t].wallet = w}

Overdue(w, now) == {t \in HeldBy(w) : holds[t].expiresAt <= now}

HoldLocked(t) == \E c \in Callers : calls[c].kind = "capture" /\ calls[c].ticket = t

EarnedBy(w, es) == [e \in es |-> IF e.wallet = w THEN e.credits ELSE 0]

CaptureSource(t) == <<"FULFILLMENT_CAPTURE", t>>
GateSource(r) == <<"GATE_DEBIT", r>>
HoldRow(t) == <<"hold", t>>
CaptureRow(t) == <<"capture", t>>
ExpireRow(t) == <<"expire", t>>
GateRow(r) == <<"gate", r>>
TicketNonce(r) == <<"ticket", r>>
GateNonce(r) == <<"gate", r>>

\* persistAccessNonce with enforceUnique: the insert skipped a duplicate.
NonceUsed(nonce) == NonceStore /\ nonce \in nonces
PersistAccessNonce(nonce) == nonces' = IF NonceStore THEN nonces \cup {nonce} ELSE nonces

\* writeCreditLedger: rows with a requestId are unique per wallet, and the
\* latest row carries the balance after the write.
LedgerRowsFree(rows) == LedgerEnabled => rows \cap ledgerIds = {}
WriteLedgerRows(rows) == ledgerIds' = IF LedgerEnabled THEN ledgerIds \cup rows ELSE ledgerIds
WriteTail(w, after) == tail' = IF LedgerEnabled THEN [tail EXCEPT ![w] = after] ELSE tail

\* createMerchantEarning: (sourceType, sourceId) is unique.
\* Mutant: the table without its unique key.
NeverEarned(source) == FALSE
Earned(source) == \E e \in earnings : e.source = source

(***************************************************************************)
(* Initially no wallet has a balance row.                                  *)
(***************************************************************************)
Init ==
  /\ opened = {}
  /\ credits = [w \in Wallets |-> 0]
  /\ held = [w \in Wallets |-> 0]
  /\ cursor = [w \in Wallets |-> 0]
  /\ holds = [t \in Tickets |-> NoHold]
  /\ nonces = {}
  /\ earnings = {}
  /\ ledgerIds = {}
  /\ tail = [w \in Wallets |-> NoRow]
  /\ funded = [w \in Wallets |-> 0]
  /\ spent = [w \in Wallets |-> 0]
  /\ debits = [r \in Requests |-> 0]
  /\ active \in SUBSET Services
  /\ clock = 0
  /\ calls = [c \in Callers |-> Idle]
  /\ sweeps = [k \in Sweepers |-> [at |-> 0, todo |-> {}]]

(***************************************************************************)
(* createFulfillmentHold. The balance row is locked first; the wallet's    *)
(* overdue holds are expired in the same transaction. A refusal for credit *)
(* or for the hold cap commits that expiry; a replayed nonce or a second   *)
(* hold for the wallet and service throws, and rolls it back, so those two *)
(* outcomes leave every table as it was.                                   *)
(***************************************************************************)
Swept(w, due) == Total(HeldCost(holds, w), due)

\* Mutant: the wallet's own sweep returns the credits and leaves the holds HELD.
CreditedOnly(due) == holds

AfterExpiry(due) ==
  [t \in Tickets |-> IF t \in due THEN [holds[t] EXCEPT !.state = "EXPIRED"] ELSE holds[t]]

ExpireRows(due) == {ExpireRow(t) : t \in due}

OwnHoldsSweepable(w, due) ==
  /\ w \in opened
  /\ \A t \in due : ~HoldLocked(t)
  /\ Swept(w, due) <= held[w]
  /\ LedgerRowsFree(ExpireRows(due))

RefuseTicket(w, cost) ==
  LET due == Overdue(w, clock) IN
  /\ due # {}
  /\ OwnHoldsSweepable(w, due)
  /\ \/ credits[w] + Swept(w, due) < cost
     \/ Cardinality(HeldBy(w) \ due) >= WalletHoldCap
  /\ credits' = [credits EXCEPT ![w] = @ + Swept(w, due)]
  /\ held' = [held EXCEPT ![w] = @ - Swept(w, due)]
  /\ holds' = AfterExpiry(due)
  /\ WriteLedgerRows(ExpireRows(due))
  /\ WriteTail(w, credits[w] + Swept(w, due))
  /\ UNCHANGED <<opened, cursor, nonces, earnings, funded, spent, debits, active, clock, calls, sweeps>>

IssueTicket(w, s, n, t, cost, issuedAt) ==
  LET due == Overdue(w, clock) IN
  /\ s \in Owned
  /\ holds[t] = NoHold
  /\ OwnHoldsSweepable(w, due)
  /\ credits[w] + Swept(w, due) >= cost
  /\ Cardinality(HeldBy(w) \ due) < WalletHoldCap
  /\ ~NonceUsed(TicketNonce(<<w, s, n>>))
  /\ \A u \in HeldBy(w) \ due : holds[u].service # s
  /\ LedgerRowsFree({HoldRow(t)})
  /\ PersistAccessNonce(TicketNonce(<<w, s, n>>))
  /\ credits' = [credits EXCEPT ![w] = @ + Swept(w, due) - cost]
  /\ held' = [held EXCEPT ![w] = @ - Swept(w, due) + cost]
  /\ holds' = [AfterExpiry(due) EXCEPT ![t] =
                 [state |-> "HELD", wallet |-> w, service |-> s, cost |-> cost,
                  expiresAt |-> issuedAt + HoldTtl, proof |-> NoProof]]
  /\ WriteLedgerRows(ExpireRows(due) \cup {HoldRow(t)})
  /\ WriteTail(w, credits[w] + Swept(w, due) - cost)
  /\ UNCHANGED <<opened, cursor, earnings, funded, spent, debits, active, clock, calls, sweeps>>

CreateFulfillmentHold ==
  \E w \in Wallets, cost \in Costs :
    \/ RefuseTicket(w, cost)
    \/ \E s \in Services, n \in Nonces, t \in Tickets, issuedAt \in 0 .. clock :
         IssueTicket(w, s, n, t, cost, issuedAt)

(***************************************************************************)
(* captureFulfillmentHold, in two steps: under the lock of the hold row it *)
(* checks service, signer, state and the completion time the merchant      *)
(* signed; then it locks the balance and writes. Refusals, an idempotent   *)
(* replay and a conflict write only an attempt row.                        *)
(***************************************************************************)
\* Mutant: the end of a hold forgets heldCredits.
KeepHeld(w, amount) == held' = held
ReleaseHeld(w, amount) == held' = [held EXCEPT ![w] = @ - amount]

CheckCapture(c, t, p, completedAt) ==
  /\ calls[c] = Idle
  /\ ~HoldLocked(t)
  /\ holds[t].state = "HELD"
  /\ holds[t].service \in active
  /\ holds[t].expiresAt > completedAt
  /\ calls' = [calls EXCEPT ![c] = [kind |-> "capture", ticket |-> t, proof |-> p]]
  /\ UNCHANGED <<balanceVars, holds, recordVars, active, clock, sweeps>>

FinalizeCapture(c) ==
  /\ calls[c].kind = "capture"
  /\ LET t == calls[c].ticket
         h == holds[t]
     IN /\ h.cost <= held[h.wallet]
        /\ LedgerRowsFree({CaptureRow(t)})
        /\ ~Earned(CaptureSource(t))
        /\ holds' = [holds EXCEPT ![t].state = "CAPTURED", ![t].proof = calls[c].proof]
        /\ ReleaseHeld(h.wallet, h.cost)
        /\ spent' = [spent EXCEPT ![h.wallet] = @ + h.cost]
        /\ WriteLedgerRows({CaptureRow(t)})
        /\ WriteTail(h.wallet, credits[h.wallet])
        /\ earnings' = earnings \cup
             {[source |-> CaptureSource(t), wallet |-> h.wallet, credits |-> h.cost]}
  /\ calls' = [calls EXCEPT ![c] = Idle]
  /\ UNCHANGED <<opened, credits, cursor, nonces, funded, debits, active, clock, sweeps>>

(***************************************************************************)
(* consumeUserCreditsForGate: a conditional decrement that locks the row,  *)
(* then nonce, ledger row and, for a service with an owner, the earning. A *)
(* duplicate of any of the three rolls the debit back.                     *)
(***************************************************************************)
HasCredits(w, cost) == w \in opened /\ credits[w] >= cost

GateDebit(w, s, n, cost) ==
  /\ HasCredits(w, cost)
  /\ ~NonceUsed(GateNonce(<<w, s, n>>))
  /\ LedgerRowsFree({GateRow(<<w, s, n>>)})
  /\ s \in Owned => ~Earned(GateSource(<<w, s, n>>))
  /\ credits' = [credits EXCEPT ![w] = @ - cost]
  /\ PersistAccessNonce(GateNonce(<<w, s, n>>))
  /\ WriteLedgerRows({GateRow(<<w, s, n>>)})
  /\ WriteTail(w, credits[w] - cost)
  /\ earnings' = IF s \in Owned
                 THEN earnings \cup {[source |-> GateSource(<<w, s, n>>), wallet |-> w, credits |-> cost]}
                 ELSE earnings
  /\ spent' = [spent EXCEPT ![w] = @ + cost]
  /\ debits' = [debits EXCEPT ![<<w, s, n>>] = @ + 1]
  /\ UNCHANGED <<opened, held, cursor, holds, funded, active, clock, calls, sweeps>>

ConsumeUserCreditsForGate ==
  \E w \in Wallets, s \in Services, n \in Nonces, cost \in Costs : GateDebit(w, s, n, cost)

(***************************************************************************)
(* syncDeposits: an unlocked read of the row, then either an insert or an  *)
(* update that compares the block cursor alone and writes the credits it   *)
(* computed from the read. The caller scanned the blocks after the cursor, *)
(* unless it rolls the cursor back.                                        *)
(***************************************************************************)
ReadForSync(c, w, added, syncedTo, rollback) ==
  /\ calls[c] = Idle
  /\ ~rollback => /\ syncedTo >= cursor[w]
                  /\ added > 0 => syncedTo > cursor[w]
  /\ calls' = [calls EXCEPT ![c] =
                 [kind |-> "sync", wallet |-> w, known |-> w \in opened,
                  seenCredits |-> credits[w], seenCursor |-> cursor[w],
                  added |-> added, syncedTo |-> syncedTo, rollback |-> rollback]]
  /\ UNCHANGED <<balanceVars, holds, recordVars, active, clock, sweeps>>

NextCursor(seen, syncedTo, rollback) ==
  IF syncedTo > seen \/ rollback THEN syncedTo ELSE seen

SyncApplies(call) ==
  IF call.known THEN cursor[call.wallet] = call.seenCursor ELSE call.wallet \notin opened

ApplySync(c) ==
  /\ calls[c].kind = "sync"
  /\ SyncApplies(calls[c])
  /\ LET call == calls[c]
         w == call.wallet
         after == call.seenCredits + call.added
     IN /\ funded[w] + call.added <= MaxFunding
        /\ opened' = opened \cup {w}
        /\ credits' = [credits EXCEPT ![w] = after]
        /\ cursor' = [cursor EXCEPT ![w] = NextCursor(call.seenCursor, call.syncedTo, call.rollback)]
        /\ funded' = [funded EXCEPT ![w] = @ + call.added]
        /\ IF call.added > 0 THEN WriteTail(w, after) ELSE UNCHANGED tail
  /\ calls' = [calls EXCEPT ![c] = Idle]
  /\ UNCHANGED <<held, holds, nonces, earnings, ledgerIds, spent, debits, active, clock, sweeps>>

\* A sync that lost the race returns "conflict"; and any call in flight may
\* be rolled back by a deadlock victim choice, a timeout or a crash.
RollBack(c) ==
  /\ calls[c] # Idle
  /\ calls' = [calls EXCEPT ![c] = Idle]
  /\ UNCHANGED <<balanceVars, holds, recordVars, active, clock, sweeps>>

(***************************************************************************)
(* expireFulfillmentHolds: an unlocked list of at most SweepLimit overdue  *)
(* holds, oldest expiry first, then one transaction per candidate, each of *)
(* which may fail and is then only counted.                                *)
(***************************************************************************)
IsSweepBatch(batch, due) ==
  /\ Cardinality(batch) = IF Cardinality(due) < SweepLimit THEN Cardinality(due) ELSE SweepLimit
  /\ \A t \in batch, u \in due \ batch : holds[t].expiresAt <= holds[u].expiresAt

StartSweep(k) ==
  LET due == UNION {Overdue(w, clock) : w \in Wallets} IN
  /\ sweeps[k].todo = {}
  /\ due # {}
  /\ \E batch \in SUBSET due :
       /\ IsSweepBatch(batch, due)
       /\ sweeps' = [sweeps EXCEPT ![k] = [at |-> clock, todo |-> batch]]
  /\ UNCHANGED <<balanceVars, holds, recordVars, active, clock, calls>>

DropCandidate(k, t) == sweeps' = [sweeps EXCEPT ![k].todo = @ \ {t}]

\* Mutants: the sweep trusts its unlocked list; the comparison is inverted.
AsListed(k, t) == holds[t] # NoHold /\ holds[t].expiresAt <= sweeps[k].at
NotYetDue(k, t) == holds[t].state = "HELD" /\ holds[t].expiresAt > sweeps[k].at
Expirable(k, t) == holds[t].state = "HELD" /\ holds[t].expiresAt <= sweeps[k].at

ExpireHold(k, t) ==
  /\ t \in sweeps[k].todo
  /\ ~HoldLocked(t)
  /\ Expirable(k, t)
  /\ LET h == holds[t] IN
       /\ h.cost <= held[h.wallet]
       /\ LedgerRowsFree({ExpireRow(t)})
       /\ holds' = [holds EXCEPT ![t].state = "EXPIRED"]
       /\ credits' = [credits EXCEPT ![h.wallet] = @ + h.cost]
       /\ ReleaseHeld(h.wallet, h.cost)
       /\ WriteLedgerRows({ExpireRow(t)})
       /\ WriteTail(h.wallet, credits[h.wallet] + h.cost)
  /\ DropCandidate(k, t)
  /\ UNCHANGED <<opened, cursor, nonces, earnings, funded, spent, debits, active, clock, calls>>

SkipOrFailCandidate(k, t) ==
  /\ t \in sweeps[k].todo
  /\ DropCandidate(k, t)
  /\ UNCHANGED <<balanceVars, holds, recordVars, active, clock, calls>>

(***************************************************************************)
(* The environment of lib/db.ts: merchants register and revoke delegated   *)
(* signers, and time passes.                                               *)
(***************************************************************************)
SetSigner(s) ==
  /\ active' = IF s \in active THEN active \ {s} ELSE active \cup {s}
  /\ UNCHANGED <<balanceVars, holds, recordVars, clock, calls, sweeps>>

Tick ==
  /\ clock < LastTick
  /\ clock' = clock + 1
  /\ UNCHANGED <<balanceVars, holds, recordVars, active, calls, sweeps>>

Call(c) ==
  \/ \E t \in Tickets, p \in Proofs, completedAt \in 0 .. LastTick :
       CheckCapture(c, t, p, completedAt)
  \/ FinalizeCapture(c)
  \/ \E w \in Wallets, added \in 0 .. MaxFunding, syncedTo \in 0 .. LastBlock, rollback \in BOOLEAN :
       ReadForSync(c, w, added, syncedTo, rollback)
  \/ ApplySync(c)
  \/ RollBack(c)

Sweep(k) ==
  \/ StartSweep(k)
  \/ \E t \in Tickets : ExpireHold(k, t) \/ SkipOrFailCandidate(k, t)

Next ==
  \/ CreateFulfillmentHold
  \/ ConsumeUserCreditsForGate
  \/ \E c \in Callers : Call(c)
  \/ \E k \in Sweepers : Sweep(k)
  \/ \E s \in Services : SetSigner(s)
  \/ Tick

Spec == Init /\ [][Next]_vars

\* The sweep is invoked by a scheduled workflow, requests end (a transaction
\* that waits too long is rolled back) and time passes. A capture or a sweep
\* candidate may fail and be retried, but not for ever: strong fairness.
Fairness ==
  /\ WF_vars(Tick)
  /\ \A c \in Callers : /\ WF_vars(FinalizeCapture(c) \/ ApplySync(c) \/ RollBack(c))
                        /\ SF_vars(FinalizeCapture(c))
  /\ \A k \in Sweepers :
       /\ WF_vars(StartSweep(k))
       /\ \A t \in Tickets : /\ WF_vars(SkipOrFailCandidate(k, t))
                             /\ SF_vars(ExpireHold(k, t))

FairSpec == Spec /\ Fairness

(***************************************************************************)
(* Types.                                                                  *)
(***************************************************************************)
\* Every variable has its type. Credits and held credits are natural numbers: no debit, capture or
\* expiry of lib/db.ts takes a balance below zero, which the database itself does not check.
TypeOK ==
  /\ opened \subseteq Wallets
  /\ credits \in [Wallets -> Nat]
  /\ held \in [Wallets -> Nat]
  /\ cursor \in [Wallets -> Nat]
  /\ holds \in [Tickets -> Hold \cup {NoHold}]
  /\ nonces \subseteq {"ticket", "gate"} \X Requests
  /\ earnings \subseteq Earning
  /\ ledgerIds \subseteq ({"hold", "capture", "expire"} \X Tickets) \cup ({"gate"} \X Requests)
  /\ tail \in [Wallets -> Nat \cup {NoRow}]
  /\ funded \in [Wallets -> Nat]
  /\ spent \in [Wallets -> Nat]
  /\ debits \in [Requests -> Nat]
  /\ active \subseteq Services
  /\ clock \in Nat
  /\ calls \in [Callers -> SyncCall \cup CaptureCall \cup {Idle}]
  /\ sweeps \in [Sweepers -> [at : Nat, todo : SUBSET Tickets]]

(***************************************************************************)
(* Safety.                                                                 *)
(***************************************************************************)

\* heldCredits is the sum of the costs of the wallet's HELD tickets, through
\* every interleaving of issue, capture and the two ways a hold expires: the
\* "held drift" that scripts/reconcile-credits.ts looks for never appears,
\* and the "heldCredits invariant violation" throws are never reached.
HeldCreditsMatchHolds == \A w \in Wallets : held[w] = Total(HeldCost(holds, w), Tickets)

\* Between the check of a capture and its write the hold stays HELD, and no
\* second capture passes the check: the hold row's lock is what stops the
\* sweep, and the sweep inside a ticket request, from returning credits that
\* a capture is about to pay out.
LockedHoldsAreHeld ==
  \A c \in Callers : calls[c].kind = "capture" =>
    /\ holds[calls[c].ticket].state = "HELD"
    /\ \A d \in Callers \ {c} : calls[d].kind = "capture" => calls[d].ticket # calls[c].ticket

\* A ticket was captured exactly when one earning, for its wallet and cost,
\* names it as source: a replayed or raced capture never pays twice, an
\* expired one never pays.
CapturedIffEarnedOnce ==
  /\ \A t \in Tickets : holds[t].state = "CAPTURED" <=> Earned(CaptureSource(t))
  /\ \A t \in Tickets, e \in earnings :
       e.source = CaptureSource(t) => e.wallet = holds[t].wallet /\ e.credits = holds[t].cost
  /\ \A e, f \in earnings : e.source = f.source => e = f

\* When every service has an owner, what a wallet spent is what merchants
\* earned from it: no debit without an earning, no earning without a debit.
EarningsMatchSpend ==
  Owned = Services => \A w \in Wallets : spent[w] = Total(EarnedBy(w, earnings), earnings)

\* A signed gate request is debited at most once, however often it is sent:
\* by the nonce store, or else by the ledger's or the earning's unique key.
OneDebitPerRequest ==
  (NonceStore \/ LedgerEnabled \/ Owned = Services) => \A r \in Requests : debits[r] <= 1

\* The ledger tells each ticket's story: one row when it was held, one for
\* the way it ended, never both endings, so no unique key ever makes an
\* expiry or a capture fail.
LedgerTellsHolds ==
  LedgerEnabled => \A t \in Tickets :
    /\ HoldRow(t) \in ledgerIds <=> holds[t] # NoHold
    /\ CaptureRow(t) \in ledgerIds <=> holds[t].state = "CAPTURED"
    /\ ExpireRow(t) \in ledgerIds <=> holds[t].state = "EXPIRED"

\* The ledger half of scripts/reconcile-credits.ts: the balanceAfter of the
\* latest row is the balance. The code breaks it (see README, finding).
LedgerTailMatchesBalance == \A w \in Wallets : tail[w] # NoRow => tail[w] = credits[w]

(***************************************************************************)
(* Action properties.                                                      *)
(***************************************************************************)
OvertakenSync(w) ==
  \E c \in Callers : /\ calls[c].kind = "sync"
                     /\ calls[c].wallet = w
                     /\ calls'[c] = Idle
                     /\ calls[c].seenCredits # credits[w]

Wealth(w) == credits[w] + held[w] + spent[w] - funded[w]

\* Credits are neither made nor lost: a step moves them between available,
\* held and spent, or grants a deposit. The one exception is the write of a
\* deposit sync whose read was overtaken by another writer of the balance.
OnlyOvertakenSyncLosesCredits ==
  [][\A w \in Wallets : OvertakenSync(w) \/ Wealth(w)' = Wealth(w)]_vars

\* Whatever the credits behind them do, the holds implement TicketEscrow: one
\* live ticket per wallet and service, expiry no earlier than expiresAt, one
\* end for each ticket and, if that is a capture, the proof that paid for it,
\* although issue, capture, sweep and the sweep inside a ticket request end
\* tickets from rows and lists they read at different times.
Escrow == INSTANCE TicketEscrow WITH ticket <- holds

ImplementsTicketEscrow == Escrow!Spec

\* A ticket that ended stays as it ended, down to the delivery proof of its
\* capture: a late sweep, a second proof or a revoked signer changes nothing.
EndedHoldsAreFinal ==
  [][\A t \in Tickets : holds[t].state \in {"CAPTURED", "EXPIRED"} => holds'[t] = holds[t]]_vars

\* Every overdue hold ends: its credits are captured or come back.
OverdueHoldsEnd ==
  \A t \in Tickets :
    (holds[t].state = "HELD" /\ holds[t].expiresAt <= clock) ~> (holds[t].state # "HELD")

=============================================================================
