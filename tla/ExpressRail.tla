----------------------------- MODULE ExpressRail -----------------------------
(***************************************************************************)
(* The express rail end to end: a consumer asks Ghost for a ticket, sends  *)
(* it with its request to the merchant, the SDK's adapter there checks it, *)
(* runs the handler, asks Ghost to capture the ticket and answers.  Ghost  *)
(* is TicketEscrow, which CreditLedger implements; a visit's number stands *)
(* for the delivery proof it draws.  The clock ticks twice a second, since *)
(* the ticket and the proof carry whole seconds and the hold does not.     *)
(***************************************************************************)
EXTENDS Integers

CONSTANTS
  Wallets,   \* consumers
  Services,  \* merchants' services
  Tickets,   \* ticket ids
  MaxTries,  \* how often a consumer sends one ticket (bound)
  HoldTtl,   \* the life of a ticket, in half seconds
  LastTick   \* bound on the clock

ASSUME ExpressAssumption == HoldTtl \in Nat

VARIABLES
  ticket,  \* Ghost: each ticket's hold
  clock,   \* the time, on which the servers agree
  reply,   \* the answer that carries a ticket: none, sent, heard or lost
  visit,   \* each visit to a merchant with a ticket
  signer   \* is the merchant's delegated signer ACTIVE?

railVars == <<ticket, clock, reply, visit, signer>>

Visits == Tickets \X (1 .. MaxTries)

Escrow == INSTANCE TicketEscrow WITH Proofs <- Visits, Costs <- {1}

\* at: where the merchant is with it; work: how the handler ended, and when;
\* capture: what became of the capture call; answer: what the consumer saw.
NoVisit == [at |-> "none", work |-> "none", completedAt |-> 0, capture |-> "none", answer |-> "none"]

Sec(t) == t \div 2

RailInit ==
  /\ Escrow!Init
  /\ reply = [t \in Tickets |-> "none"]
  /\ visit = [v \in Visits |-> NoVisit]
  /\ signer = TRUE

-----------------------------------------------------------------------------
(* The consumer. *)

\* The hold commits before its ticket is signed and sent. Tickets are asked
\* for while the clock can still run past their expiry.
RequestTicket(w, s, t) ==
  /\ clock + HoldTtl < LastTick
  /\ Escrow!Issue(w, s, t, 1, clock)
  /\ reply' = [reply EXCEPT ![t] = "sent"]
  /\ UNCHANGED <<visit, signer>>

\* createFulfillmentHold: a refusal for want of credits, or over the cap, keeps the expiry of the
\* wallet's own holds.
RefuseTicket(w) ==
  /\ Escrow!Expire(Escrow!Lapsed(w))
  /\ UNCHANGED <<reply, visit, signer>>

HearOrLoseReply(t) ==
  /\ reply[t] = "sent"
  /\ \E r \in {"heard", "lost"} : reply' = [reply EXCEPT ![t] = r]
  /\ UNCHANGED <<ticket, clock, visit, signer>>

\* The same ticket again after a network error or a 5xx.
Retryable(v) == v[2] > 1 => visit[<<v[1], v[2] - 1>>].answer \in {"500", "502", "lost"}

Deliver(v) ==
  /\ reply[v[1]] = "heard"
  /\ visit[v].at = "none" /\ Retryable(v)
  /\ visit' = [visit EXCEPT ![v].at = "sent"]
  /\ UNCHANGED <<ticket, clock, reply, signer>>

\* The consumer's connection ends without an answer; the merchant goes on.
GiveUp(v) ==
  /\ visit[v].at # "none" /\ visit[v].answer = "none"
  /\ visit' = [visit EXCEPT ![v].answer = "lost"]
  /\ UNCHANGED <<ticket, clock, reply, signer>>

-----------------------------------------------------------------------------
(* The adapter in the merchant's server. *)

Over(r, answer) ==
  [r EXCEPT !.at = "over", !.answer = IF r.answer = "lost" THEN "lost" ELSE answer]

\* requireFulfillmentTicket compares whole seconds, and lets the last one pass.
TicketExpired(t) == Sec(clock) > Sec(ticket[t].expiresAt)

Verify(v) ==
  /\ visit[v].at = "sent"
  /\ visit' = [visit EXCEPT ![v] = IF TicketExpired(v[1]) THEN Over(@, "401")
                                                          ELSE [@ EXCEPT !.at = "working"]]
  /\ UNCHANGED <<ticket, clock, reply, signer>>

\* A handler that throws has answered 500, and its delivery is captured too.
Handle(v, work) ==
  /\ visit[v].at = "working"
  /\ visit' = [visit EXCEPT ![v] = [@ EXCEPT !.at = "capturing", !.work = work,
                                             !.completedAt = clock, !.capture = "sent"]]
  /\ UNCHANGED <<ticket, clock, reply, signer>>

\* captureCompletion throws only when no answer comes: the status of the
\* answer is not looked at, and the consumer gets the handler's response.
Respond(v) ==
  /\ visit[v].at = "capturing" /\ visit[v].capture \in {"paid", "refused", "failed"}
  /\ visit' = [visit EXCEPT ![v] = Over(@, IF @.work = "ok" THEN "200" ELSE "500")]
  /\ UNCHANGED <<ticket, clock, reply, signer>>

\* The call or its answer is lost; what was sent may yet arrive.
CaptureUnheard(v) ==
  /\ visit[v].at = "capturing"
  /\ visit' = [visit EXCEPT ![v] = Over(@, "502")]
  /\ UNCHANGED <<ticket, clock, reply, signer>>

Running == {v \in Visits : visit[v].at \in {"working", "capturing"}}

\* The server stops: no visit goes on, and captures it sent may still arrive.
RailCrash ==
  /\ Running # {}
  /\ visit' = [v \in Visits |-> IF v \in Running THEN Over(visit[v], "lost") ELSE visit[v]]
  /\ UNCHANGED <<ticket, clock, reply, signer>>

-----------------------------------------------------------------------------
(* Ghost. *)

\* Mutants: both compared in seconds; the proof's second rounded up.
SameSecond(v) == Sec(ticket[v[1]].expiresAt) >= Sec(visit[v].completedAt)
RoundedUp(v) == ticket[v[1]].expiresAt > 2 * Sec(visit[v].completedAt + 1)

\* The proof says when the work ended in whole seconds, rounded down.
CompletedInTime(v) == ticket[v[1]].expiresAt > 2 * Sec(visit[v].completedAt)

Capturable(v) == ticket[v[1]].state = "HELD" /\ signer /\ CompletedInTime(v)

\* Each visit draws a proof of its own, so a second one is never a replay.
CaptureArrives(v) ==
  /\ visit[v].capture = "sent"
  /\ IF Capturable(v) THEN Escrow!Capture(v[1], v) ELSE Escrow!Refuse
  /\ visit' = [visit EXCEPT ![v].capture = IF Capturable(v) THEN "paid" ELSE "refused"]
  /\ UNCHANGED <<reply, signer>>

\* The rate limit or a failing transaction answers (429, 500).
CaptureFails(v) ==
  /\ visit[v].capture = "sent"
  /\ visit' = [visit EXCEPT ![v].capture = "failed"]
  /\ UNCHANGED <<ticket, clock, reply, signer>>

\* Mutant: the sweep takes only tickets that a merchant has seen.
SweepVisited(t) ==
  /\ visit[<<t, 1>>].at # "none"
  /\ Escrow!Expire({t})
  /\ UNCHANGED <<reply, visit, signer>>

\* The sweep, one transaction for each overdue hold.
Sweep(t) ==
  /\ Escrow!Expire({t})
  /\ UNCHANGED <<reply, visit, signer>>

SetSigner ==
  /\ signer' = ~signer
  /\ UNCHANGED <<ticket, clock, reply, visit>>

RailTick ==
  /\ Escrow!Tick
  /\ UNCHANGED <<reply, visit, signer>>

RailNext ==
  \/ \E w \in Wallets, s \in Services, t \in Tickets : RequestTicket(w, s, t)
  \/ \E w \in Wallets : RefuseTicket(w)
  \/ \E t \in Tickets : HearOrLoseReply(t) \/ Sweep(t)
  \/ \E v \in Visits :
       \/ Deliver(v) \/ GiveUp(v) \/ Verify(v) \/ Respond(v) \/ CaptureUnheard(v)
       \/ CaptureArrives(v) \/ CaptureFails(v)
       \/ \E work \in {"ok", "error"} : Handle(v, work)
  \/ RailCrash \/ SetSigner \/ RailTick

-----------------------------------------------------------------------------
(* Properties. *)

\* A captured ticket paid for a handler that ran to its end, no later than
\* the hold's expiry; and a consumer who did not get a 200 for it has been
\* told of a failure or has heard nothing, but not that the ticket was no good.
ChargeExplained ==
  \A t \in Tickets : ticket[t].state = "CAPTURED" =>
    LET v == visit[ticket[t].proof]
    IN  /\ v.work # "none" /\ v.completedAt <= ticket[t].expiresAt
        /\ v.answer \in {"none", "lost", "502"} \cup IF v.work = "ok" THEN {"200"} ELSE {"500"}

\* A capture is refused (403, 409) only if by then the ticket is used or its
\* time is up, or the signer is revoked: no merchant whose capture is heard
\* before the expiry is turned away, although sweep, seconds and retries race.
RefusedForCause ==
  [][\A v \in Visits :
       visit[v].capture = "sent" /\ visit'[v].capture = "refused" =>
         \/ ticket[v[1]].state = "CAPTURED"
         \/ ticket[v[1]].expiresAt <= clock
         \/ ~signer]_railVars

\* A ticket whose answer never reached its consumer gives the credits back.
LostTicketComesBack ==
  \A t \in Tickets : reply[t] = "lost" ~> ticket[t].state = "EXPIRED"

=============================================================================
