------------------------------- MODULE GateRail -------------------------------
(***************************************************************************)
(* The gate end to end: an agent signs a request for one access to a       *)
(* service and sends it to Ghost's gate, again if it hears nothing, and    *)
(* signs a new one if it is refused.  The gate checks the age of the       *)
(* signature, looks up the service's gateway row, prices the request, and  *)
(* has it debited in one transaction (CreditLedger's GateDebit, here of    *)
(* one wallet for one service, with what the route passes to it).          *)
(***************************************************************************)
EXTENDS Integers

CONSTANTS
  Deployments,  \* how a gate may be set up
  Accesses,     \* how many requests the agent signs, one after the other (bound)
  ListedCosts,  \* what the price table, the environment or the default may say
  MinCost,      \* GHOST_EXPRESS_MIN_CREDIT_COST
  MaxPurse,     \* bound on the credits of the agent's wallet
  GateWindow,   \* REPLAY_WINDOW_SECONDS
  LastSecond    \* bound on the clock

\* Is uniqueness of nonces enforced (a store that does not enforce it tells
\* the gate nothing), is there a ledger, is LIVE asked for; and how far is the
\* agent's clock ahead of the gate's.
Gates == [open : BOOLEAN, nonces : BOOLEAN, ledger : BOOLEAN, liveOnly : BOOLEAN, ahead : Nat]
ClosedGate == [open |-> FALSE, nonces |-> FALSE, ledger |-> FALSE, liveOnly |-> FALSE, ahead |-> 0]

ASSUME GateAssumption ==
  /\ Deployments \subseteq Gates
  /\ ListedCosts \subseteq Nat
  /\ MinCost \in Nat \ {0}

VARIABLES
  gate,          \* the deployment; no agent calls a closed one
  second,        \* the time, in seconds
  purse,         \* the wallet's credits
  accessNonces,  \* requests whose nonce is in AccessNonce
  gateDebits,    \* debits committed: for which copy, of what, with an earning?
  signedAt,      \* the timestamp of each signed request
  copy           \* each copy of a request: in the handler, and at the agent

gateVars == <<gate, second, purse, accessNonces, gateDebits, signedAt, copy>>

Asks == 1 .. Accesses
\* The last request is sent once, the one before it once more, and so on (bound).
Copies == {c \in Asks \X (1 .. Accesses) : c[1] + c[2] <= Accesses + 1}
Unsigned == -1
NoCopy == [at |-> "none", earns |-> FALSE, answer |-> "none", heard |-> "waiting"]

GateUnused ==
  /\ second = 0
  /\ purse = 0
  /\ accessNonces = {} /\ gateDebits = {}
  /\ signedAt = [r \in Asks |-> Unsigned]
  /\ copy = [c \in Copies |-> NoCopy]

GateInit == gate \in Deployments /\ GateUnused

\* Where no agent calls, the gate's tables play no part.
GateClosed == gate = ClosedGate /\ GateUnused

-----------------------------------------------------------------------------
(* The agent. *)

Waiting(c) == copy[c].at # "none" /\ copy[c].heard = "waiting"
Told(c) == copy[c].heard = "heard" /\ copy[c].answer = "200"

\* connect signs a fresh nonce each time it is called; an agent calls it
\* again when it was not let in.
SignAccess(r) ==
  /\ signedAt[r] = Unsigned
  /\ \A c \in Copies : c[1] < r => signedAt[c[1]] # Unsigned /\ ~Waiting(c) /\ ~Told(c)
  /\ signedAt' = [signedAt EXCEPT ![r] = second + gate.ahead]
  /\ UNCHANGED <<gate, second, purse, accessNonces, gateDebits, copy>>

\* A signed request may be sent again as it is, after a 429, a 500 or silence.
Resendable(c) == copy[c].heard = "lost" \/ (copy[c].heard = "heard" /\ copy[c].answer \in {"429", "500"})

SendCopy(c) ==
  /\ copy[c].at = "none"
  /\ signedAt[c[1]] # Unsigned /\ \A r \in Asks : r > c[1] => signedAt[r] = Unsigned
  /\ c[2] > 1 => Resendable(<<c[1], c[2] - 1>>)
  /\ copy' = [copy EXCEPT ![c].at = "arrived"]
  /\ UNCHANGED <<gate, second, purse, accessNonces, gateDebits, signedAt>>

HearAnswer(c) ==
  /\ copy[c].at = "over" /\ copy[c].heard = "waiting"
  /\ copy' = [copy EXCEPT ![c].heard = "heard"]
  /\ UNCHANGED <<gate, second, purse, accessNonces, gateDebits, signedAt>>

\* The connection ends without an answer; the handler goes on.
LoseAnswer(c) ==
  /\ Waiting(c)
  /\ copy' = [copy EXCEPT ![c].heard = "lost"]
  /\ UNCHANGED <<gate, second, purse, accessNonces, gateDebits, signedAt>>

-----------------------------------------------------------------------------
(* The handler of the route. *)

AnswerCopy(c, status) == copy' = [copy EXCEPT ![c] = [@ EXCEPT !.at = "over", !.earns = FALSE, !.answer = status]]

Throttle(c) ==
  /\ copy[c].at = "arrived"
  /\ AnswerCopy(c, "429")
  /\ UNCHANGED <<gate, second, purse, accessNonces, gateDebits, signedAt>>

\* isReplayWindowValid: no clock may be ahead of the gate's.
FreshSignature(r) == signedAt[r] <= second /\ second - signedAt[r] <= GateWindow

RefuseStale(c) ==
  /\ copy[c].at = "arrived" /\ ~FreshSignature(c[1])
  /\ AnswerCopy(c, "401")
  /\ UNCHANGED <<gate, second, purse, accessNonces, gateDebits, signedAt>>

\* resolveServiceGatewayReadiness: the merchant's AgentGatewayConfig row is
\* none, not LIVE, or LIVE at this moment, whatever it was or will be; the
\* owner it names will earn.
LookUpGateway(c, row) ==
  /\ copy[c].at = "arrived" /\ FreshSignature(c[1])
  /\ IF gate.liveOnly /\ row # "live"
       THEN AnswerCopy(c, "423")
       ELSE copy' = [copy EXCEPT ![c].at = "looked", ![c].earns = row # "none"]
  /\ UNCHANGED <<gate, second, purse, accessNonces, gateDebits, signedAt>>

\* It throws: only a gate that asks for LIVE refuses; another one goes on as
\* if the service had no owner.
LookUpFails(c) ==
  /\ copy[c].at = "arrived" /\ FreshSignature(c[1])
  /\ IF gate.liveOnly THEN AnswerCopy(c, "500")
                      ELSE copy' = [copy EXCEPT ![c].at = "looked"]
  /\ UNCHANGED <<gate, second, purse, accessNonces, gateDebits, signedAt>>

\* The first price that is found, table, environment or default, and no less than the minimum.
RequestCost(listed) == IF listed < MinCost THEN MinCost ELSE listed

ChargedFor(r) == \E d \in gateDebits : d.copy[1] = r

\* The nonce, the ledger row or the earning is there already.
Replayed(c) ==
  \/ gate.nonces /\ c[1] \in accessNonces
  \/ gate.ledger /\ ChargedFor(c[1])
  \/ copy[c].earns /\ \E d \in gateDebits : d.copy[1] = c[1] /\ d.earns

\* Mutant: the nonce is kept by a refusal for want of credits too.
RefuseAndKeepNonce(c, cost) ==
  /\ copy[c].at = "looked"
  /\ \/ purse < cost /\ AnswerCopy(c, "402")
     \/ Replayed(c) /\ AnswerCopy(c, "409")
  /\ accessNonces' = IF gate.nonces THEN accessNonces \cup {c[1]} ELSE accessNonces
  /\ UNCHANGED <<gate, second, purse, gateDebits, signedAt>>

\* No credits, or a replay: nothing is kept, the nonce neither.
RefuseDebit(c, cost) ==
  /\ copy[c].at = "looked"
  /\ \/ purse < cost /\ AnswerCopy(c, "402")
     \/ purse >= cost /\ Replayed(c) /\ AnswerCopy(c, "409")
  /\ UNCHANGED <<gate, second, purse, accessNonces, gateDebits, signedAt>>

\* consumeUserCreditsForGate commits; if that is not heard the answer is a 500.
TakeCredits(c, cost) ==
  /\ copy[c].at = "looked"
  /\ purse >= cost /\ ~Replayed(c)
  /\ purse' = purse - cost
  /\ accessNonces' = IF gate.nonces THEN accessNonces \cup {c[1]} ELSE accessNonces
  /\ gateDebits' = gateDebits \cup {[copy |-> c, cost |-> cost, earns |-> copy[c].earns]}
  /\ \E status \in {"200", "500"} : AnswerCopy(c, status)
  /\ UNCHANGED <<gate, second, signedAt>>

\* The transaction fails, and is rolled back.
DebitFails(c) ==
  /\ copy[c].at = "looked"
  /\ AnswerCopy(c, "500")
  /\ UNCHANGED <<gate, second, purse, accessNonces, gateDebits, signedAt>>

-----------------------------------------------------------------------------
(* The wallet's deposits, and time. *)

FillPurse ==
  /\ purse < MaxPurse
  /\ purse' = MaxPurse
  /\ UNCHANGED <<gate, second, accessNonces, gateDebits, signedAt, copy>>

GateTick ==
  /\ second < LastSecond
  /\ second' = second + 1
  /\ UNCHANGED <<gate, purse, accessNonces, gateDebits, signedAt, copy>>

GateNext ==
  /\ gate.open
  /\ \/ \E r \in Asks : SignAccess(r)
     \/ \E c \in Copies :
          \/ SendCopy(c) \/ HearAnswer(c) \/ LoseAnswer(c)
          \/ Throttle(c) \/ RefuseStale(c) \/ LookUpFails(c) \/ DebitFails(c)
          \/ \E row \in {"none", "notLive", "live"} : LookUpGateway(c, row)
          \/ \E listed \in ListedCosts :
               RefuseDebit(c, RequestCost(listed)) \/ TakeCredits(c, RequestCost(listed))
     \/ FillPurse \/ GateTick

-----------------------------------------------------------------------------
(* Properties. *)

\* The answers of the gate tell what was charged, though copies of a request
\* overtake each other, the gateway row changes between lookup and debit, and
\* answers are lost: a 200 was debited, and a 409 means that a copy of the
\* same request was; a request is debited twice only where neither nonces nor
\* the ledger nor an earning's key could tell; and an agent pays for a second
\* request only if it was not told that the first had been let in.
GateChargeExplained ==
  /\ \A c \in Copies : /\ copy[c].answer = "200" => \E d \in gateDebits : d.copy = c
                       /\ copy[c].answer = "409" => ChargedFor(c[1])
  /\ \A d \in gateDebits : copy[d.copy].answer \in {"200", "500"}
  /\ \A d, e \in gateDebits :
       /\ d # e /\ d.copy[1] = e.copy[1] =>
            ~gate.nonces /\ ~gate.ledger /\ ~(d.earns /\ e.earns)
       /\ d.copy[1] < e.copy[1] => ~Told(d.copy)

=============================================================================
