---------------------------- MODULE TicketEscrow ----------------------------
(***************************************************************************)
(* What the fulfillment API promises of a ticket, whatever credits are     *)
(* behind it: a wallet has one live ticket per service, a ticket ends once *)
(* and stays as it ended, with the delivery proof that paid for it if it   *)
(* was captured, and its wallet gets it back only when its time is up.     *)
(***************************************************************************)
EXTENDS Integers

CONSTANTS
  Wallets,   \* consumers
  Services,  \* what tickets are for
  Tickets,   \* ticket ids
  Proofs,    \* delivery proof ids
  Costs,     \* prices
  HoldTtl,   \* the life of a ticket, in clock ticks
  LastTick   \* bound on the clock

VARIABLES
  ticket,  \* each ticket's row
  clock    \* server time

vars == <<ticket, clock>>

NoTicket == [state |-> "NONE"]
NoProof == "none"

Init ==
  /\ ticket = [t \in Tickets |-> NoTicket]
  /\ clock = 0

Live(w) == {t \in Tickets : ticket[t].state = "HELD" /\ ticket[t].wallet = w}

Lapsed(w) == {t \in Live(w) : ticket[t].expiresAt <= clock}

WithExpired(due) ==
  [t \in Tickets |-> IF t \in due THEN [ticket[t] EXCEPT !.state = "EXPIRED"] ELSE ticket[t]]

\* Issuing ends the lapsed tickets of the wallet, and needs that no other
\* ticket of the wallet for the service is left.
Issue(w, s, t, cost, issuedAt) ==
  /\ ticket[t] = NoTicket
  /\ \A u \in Live(w) \ Lapsed(w) : ticket[u].service # s
  /\ ticket' = [WithExpired(Lapsed(w)) EXCEPT ![t] =
                  [state |-> "HELD", wallet |-> w, service |-> s, cost |-> cost,
                   expiresAt |-> issuedAt + HoldTtl, proof |-> NoProof]]
  /\ UNCHANGED clock

Expire(due) ==
  /\ due # {}
  /\ \A t \in due : \E w \in Wallets : t \in Lapsed(w)
  /\ ticket' = WithExpired(due)
  /\ UNCHANGED clock

Capture(t, p) ==
  /\ ticket[t].state = "HELD"
  /\ ticket' = [ticket EXCEPT ![t].state = "CAPTURED", ![t].proof = p]
  /\ UNCHANGED clock

\* A refused request, and whatever else the server does, leaves every ticket.
Refuse == UNCHANGED vars

Tick ==
  /\ clock < LastTick
  /\ clock' = clock + 1
  /\ UNCHANGED ticket

Next ==
  \/ Refuse
  \/ Tick
  \/ \E t \in Tickets, p \in Proofs : Capture(t, p)
  \/ \E due \in SUBSET Tickets : Expire(due)
  \/ \E w \in Wallets, s \in Services, t \in Tickets, cost \in Costs, issuedAt \in 0 .. clock :
       Issue(w, s, t, cost, issuedAt)

Spec == Init /\ [][Next]_vars

=============================================================================
