---------------------------- MODULE ClientsProofs ----------------------------
(***************************************************************************)
(* Theorems of the programs that call Ghost's server, for every number of  *)
(* wallets, tickets and visits, of payments and reports, of agents, of     *)
(* requests in flight, of blocks, and of accesses asked of the gate.       *)
(***************************************************************************)
EXTENDS Clients, WellFoundedInduction, TLAPS

USE ExpressAssumption

(* Each program is alone on its machine: a step of all of them together is *)
(* a step of each, or leaves it alone.                                     *)
LEMMA StepOfEach ==
  ASSUME [Next]_vars
  PROVE  /\ [RailNext]_railVars
         /\ [X402Next]_x402Vars
         /\ [PanelNext]_panelVars
         /\ [DeskNext]_deskVars
         /\ [PageNext]_pageVars
         /\ [GateNext]_gateVars
<1>1. CASE AtService(OnExpress(RailNext))
  BY <1>1 DEF AtService, OnExpress, dashboardVars
<1>2. CASE AtService(OnX402(X402Next))
  BY <1>2 DEF AtService, OnX402, dashboardVars
<1>3. CASE AtPage(OnPanel(PanelNext))
  BY <1>3 DEF AtPage, OnPanel, kitVars
<1>4. CASE AtPage(OnDesk(DeskNext))
  BY <1>4 DEF AtPage, OnDesk, kitVars
<1>5. CASE AtPage(OnPage(PageNext))
  BY <1>5 DEF AtPage, OnPage, kitVars
<1>6. CASE AtGate(GateNext)
  BY <1>6 DEF AtGate, kitVars, dashboardVars
<1>7. CASE UNCHANGED vars
  BY <1>7 DEF vars, kitVars, dashboardVars
<1> QED BY <1>1, <1>2, <1>3, <1>4, <1>5, <1>6, <1>7 DEF Next, KitNext, DashboardNext, AtService, AtPage

LEMMA StartOfEach ==
  ASSUME Init
  PROVE  RailInit /\ X402Init /\ PanelInit /\ DeskInit /\ PageInit /\ (GateInit \/ GateClosed)
BY DEF Init, KitInit, NoService, DashboardInit

-----------------------------------------------------------------------------
(* The express rail: what a ticket and a visit say by now. *)

TicketRow ==
  [state : {"HELD", "CAPTURED", "EXPIRED"}, wallet : Wallets, service : Services, cost : {1},
   expiresAt : Int, proof : Visits \cup {"none"}]

VisitRow ==
  [at : {"none", "sent", "working", "capturing", "over"}, work : {"none", "ok", "error"},
   completedAt : Nat, capture : {"none", "sent", "paid", "refused", "failed"},
   answer : {"none", "lost", "200", "500", "502", "401"}]

\* What a consumer may be told once a capture has been sent.
MayHear(r) == {"none", "lost", "502"} \cup IF r.work = "ok" THEN {"200"} ELSE {"500"}

\* Captures are sent by handlers that ended; until then nothing is answered.
VisitSound(r, now) ==
  /\ r.at \in {"none", "sent", "working"} => r.capture = "none"
  /\ r.at # "over" => r.answer \in {"none", "lost"}
  /\ r.at = "capturing" => r.capture # "none"
  /\ r.capture # "none" => r.work # "none" /\ r.completedAt <= now /\ r.answer \in MayHear(r)

\* A ticket expires in time, and is captured for work that ended in time.
TicketSound(row, visits, now) ==
  /\ row.state = "EXPIRED" => row.expiresAt <= now
  /\ row.state = "CAPTURED" =>
       /\ row.proof \in Visits
       /\ visits[row.proof].capture = "paid"
       /\ visits[row.proof].completedAt <= row.expiresAt

RailInv ==
  /\ ticket \in [Tickets -> TicketRow \cup {Escrow!NoTicket}]
  /\ clock \in Nat
  /\ reply \in [Tickets -> {"none", "sent", "heard", "lost"}]
  /\ visit \in [Visits -> VisitRow]
  /\ \A t \in Tickets : /\ reply[t] # "none" => ticket[t] # Escrow!NoTicket
                        /\ TicketSound(ticket[t], visit, clock)
  /\ \A v \in Visits : /\ visit[v].at # "none" => ticket[v[1]] # Escrow!NoTicket
                       /\ VisitSound(visit[v], clock)

-----------------------------------------------------------------------------
(* The x402 rail: a report is only ever of a payment that is on the chain. *)

Hands == [payment : Payments, attempt : Nat, at : {"queued", "posted", "ok", "refused", "unanswered"}]

\* A row for the payment, or for another under the same request id.
Recorded(p, names, stock) == \E q \in stock : q = p \/ names[q] = names[p]

AllRecorded == \A p \in accepted : p \in settled /\ Recorded(p, setup.requestOf, rows)

X402Inv ==
  /\ setup \in Setups
  /\ settled \subseteq Payments /\ rows \subseteq Payments
  /\ call \in [Calls -> {"none", "settling", "handling", "reporting", "answered", "failed"}]
  /\ queue \subseteq Hands
  /\ sending \in Hands \cup {NoEntry}
  /\ \A c \in Calls : call[c] \in {"handling", "reporting"} => c[1] \in settled
  /\ \A e \in queue : e.payment \in settled
  /\ sending # NoEntry => sending.payment \in settled
  /\ sending.at = "ok" => Recorded(sending.payment, setup.requestOf, rows)
  /\ stray \subseteq settled
  /\ AllRecorded

-----------------------------------------------------------------------------
(* The gateway controls: an address for one agent, in whatever is under    *)
(* way for another, is there for a cause that is known.                    *)

Config == [url : Addresses, live : BOOLEAN]

Asked == [kind : {"load", "poll", "save", "verify", "reread"}, agent : Desks, url : Addresses,
          at : {"sent"}, mine : BOOLEAN]
Replied == [kind : {"load", "poll", "save", "reread"}, agent : Desks, at : {"answered"},
            mine : BOOLEAN, is : Config]

\* The address is the agent's own, or the agent is one that was mixed up.
Meant(url, a, mixedUp) == url.of = a \/ a \in mixedUp

RequestSound(q, selectedAgent, mixedUp) ==
  /\ q.kind = "load" /\ q.mine => q.agent = selectedAgent
  /\ q.kind = "save" /\ q.at = "sent" => Meant(q.url, q.agent, mixedUp)
  /\ q.at = "answered" => Meant(q.is.url, q.agent, mixedUp)

DeskInv ==
  /\ stored \in [Desks -> Config]
  /\ chosen \in Desks
  /\ field \in Addresses
  /\ requests \in [Requests -> Asked \cup Replied \cup {Idle}]
  /\ unloaded \in BOOLEAN
  /\ mixed \subseteq Desks
  /\ \A a \in Desks : Meant(stored[a].url, a, mixed)
  /\ unloaded \/ Meant(field, chosen, mixed)
  /\ \A r \in Requests : RequestSound(requests[r], chosen, mixed)

-----------------------------------------------------------------------------
(* The offerings panel: what a handler has looked up stays its agent's, or *)
(* goes away, until it writes.                                             *)

OfferingFields == {"agent", "order", "active"}

OfferingRow(row) ==
  \/ row = NoOffering
  \/ DOMAIN row = OfferingFields /\ row.agent \in Agents

CallFields ==
  {"at", "kind", "agent", "slug", "target", "offering", "active", "ids", "order", "list", "here", "open"}

CallRow(handler) ==
  \/ handler = Free
  \/ DOMAIN handler = CallFields /\ handler.agent \in Agents

\* Whose an offering may still be.
Owns(a, row) == row.agent \in {a, "none"}

CallSound(handler, stock, count) ==
  /\ handler.at = "found" /\ handler.offering \in Ids =>
       handler.offering <= count /\ Owns(handler.agent, stock[handler.offering])
  /\ handler.at = "compared" =>
       \A o \in ToSet(handler.ids) \cap Ids : o <= count /\ Owns(handler.agent, stock[o])

PanelInv ==
  /\ DOMAIN offerings = Ids /\ DOMAIN calls = OwnerCalls
  /\ created \in Nat
  /\ selected \in Agents
  /\ \A o \in Ids : OfferingRow(offerings[o]) /\ (o > created => offerings[o] = NoOffering)
  /\ \A c \in OwnerCalls : CallRow(calls[c]) /\ CallSound(calls[c], offerings, created)

-----------------------------------------------------------------------------
(* The deposit form: every deposit behind the depositor's cursor, or the   *)
(* history in its ledger, has been credited.                               *)

Ahead(b, cursorsOf, reachedOf) == b > cursorsOf[Depositor] /\ b > reachedOf[Depositor]

\* A loop has found no deposit, or that of its block, or one before it.
FoundSound(sync, stock, times) ==
  sync.found => times[sync.target] >= 1 \/ \E b \in stock : b < sync.target

\* What an answer says of a node that knows the block is so.
AnswerSound(sync, times) ==
  /\ sync.latest \in Nat
  /\ sync.latest >= sync.target /\ (~sync.partial \/ sync.cursor >= sync.target) =>
       times[sync.target] >= 1

SyncFields == {"kind", "at", "of", "target", "active", "attempt", "steps", "previous", "found"}
AnswerFields ==
  {"kind", "at", "of", "target", "active", "attempt", "found", "cursor", "partial", "latest", "credits"}

SyncRow(sync) ==
  \/ sync = Resting
  \/ /\ sync.kind \in {"poll", "loop"} /\ sync.of \in Accounts
     /\ \/ sync.at = "sent" /\ DOMAIN sync = SyncFields
        \/ sync.at = "answered" /\ DOMAIN sync = AnswerFields

SyncSound(sync, block, stock, times) ==
  /\ sync.kind = "poll" /\ sync.at = "sent" => sync.target = Nothing
  /\ sync.kind = "loop" =>
       /\ block # Nothing /\ sync.target = block
       /\ sync.of = Depositor =>
            FoundSound(sync, stock, times) /\ (sync.at = "answered" => AnswerSound(sync, times))

PageInv ==
  /\ tip \in Blocks
  /\ deposits \subseteq 1 .. tip
  /\ target = Nothing \/ target \in deposits
  /\ cursors \in [Accounts -> 0 .. tip]
  /\ reached \in [Accounts -> 0 .. tip]
  /\ credited \in [Blocks -> Nat]
  /\ address \in Accounts
  /\ \A b \in deposits : Ahead(b, cursors, reached) \/ credited[b] >= 1
  /\ DOMAIN syncs = Syncs
  /\ \A s \in Syncs : SyncRow(syncs[s]) /\ SyncSound(syncs[s], target, deposits, credited)
  /\ creditSyncState = "synced" /\ ~excused => target # Nothing /\ credited[target] >= 1

-----------------------------------------------------------------------------
(* The express rail keeps its invariant. *)

LEMMA Rail_Init == RailInit => RailInv
BY DEF RailInit, RailInv, Escrow!Init, NoVisit, VisitRow, TicketSound, VisitSound, Escrow!NoTicket, TicketRow, Visits

\* A step that leaves the tickets and the clock alone and moves one visit on.
LEMMA Rail_Visit ==
  ASSUME RailInv, UNCHANGED <<ticket, clock, reply>>,
         NEW v \in Visits, NEW r \in VisitRow, visit' = [visit EXCEPT ![v] = r],
         visit[v].capture = "paid" => r.capture = "paid" /\ r.completedAt = visit[v].completedAt,
         r.at # "none" => ticket[v[1]] # Escrow!NoTicket,
         VisitSound(r, clock)
  PROVE  RailInv'
<1>1. visit' \in [Visits -> VisitRow]
  BY DEF RailInv
<1>2. visit'[v] = r /\ \A u \in Visits : u # v => visit'[u] = visit[u]
  BY DEF RailInv
<1>3. \A t \in Tickets : TicketSound(ticket[t], visit', clock)
  BY <1>2 DEF RailInv, TicketSound
<1>4. \A u \in Visits : /\ visit'[u].at # "none" => ticket[u[1]] # Escrow!NoTicket
                        /\ VisitSound(visit'[u], clock)
  BY <1>2 DEF RailInv
<1> QED BY <1>1, <1>3, <1>4 DEF RailInv

\* Overdue tickets that are held may expire.
LEMMA Rail_Expired ==
  ASSUME RailInv, NEW overdue,
         \A t \in overdue : t \in Tickets /\ ticket[t].state = "HELD" /\ ticket[t].expiresAt <= clock
  PROVE  /\ Escrow!WithExpired(overdue) \in [Tickets -> TicketRow \cup {Escrow!NoTicket}]
         /\ \A t \in Tickets :
              /\ ticket[t] # Escrow!NoTicket => Escrow!WithExpired(overdue)[t] # Escrow!NoTicket
              /\ TicketSound(Escrow!WithExpired(overdue)[t], visit, clock)
<1> DEFINE after(t) == IF t \in overdue THEN [ticket[t] EXCEPT !.state = "EXPIRED"] ELSE ticket[t]
<1>1. ASSUME NEW t \in Tickets
      PROVE  /\ after(t) \in TicketRow \cup {Escrow!NoTicket}
             /\ ticket[t] # Escrow!NoTicket => after(t) # Escrow!NoTicket
             /\ TicketSound(after(t), visit, clock)
  <2>1. CASE t \in overdue
    <3>1. ticket[t] \in TicketRow
      BY <2>1 DEF RailInv, Escrow!NoTicket
    <3>2. after(t) \in TicketRow /\ after(t).state = "EXPIRED" /\ after(t).expiresAt <= clock
      BY <2>1, <3>1 DEF TicketRow
    <3> QED BY <3>2 DEF TicketSound, Escrow!NoTicket, TicketRow
  <2>2. CASE t \notin overdue
    BY <2>2 DEF RailInv
  <2> QED BY <2>1, <2>2
<1> QED BY <1>1 DEF Escrow!WithExpired

LEMMA Rail_Expire ==
  ASSUME RailInv, NEW overdue, Escrow!Expire(overdue), UNCHANGED <<reply, visit, signer>>
  PROVE  RailInv'
<1>1. \A t \in overdue : t \in Tickets /\ ticket[t].state = "HELD" /\ ticket[t].expiresAt <= clock
  BY DEF Escrow!Expire, Escrow!Lapsed, Escrow!Live
<1>2. ticket' = Escrow!WithExpired(overdue) /\ clock' = clock
  BY DEF Escrow!Expire
<1> QED BY <1>1, <1>2, Rail_Expired DEF RailInv, Visits

LEMMA Rail_Issue ==
  ASSUME RailInv, NEW w \in Wallets, NEW s \in Services, NEW t \in Tickets, RequestTicket(w, s, t)
  PROVE  RailInv'
<1> DEFINE row == [state |-> "HELD", wallet |-> w, service |-> s, cost |-> 1,
                   expiresAt |-> clock + HoldTtl, proof |-> "none"]
           left == Escrow!WithExpired(Escrow!Lapsed(w))
<1>1. \A u \in Escrow!Lapsed(w) : u \in Tickets /\ ticket[u].state = "HELD" /\ ticket[u].expiresAt <= clock
  BY DEF Escrow!Lapsed, Escrow!Live
<1>2. /\ left \in [Tickets -> TicketRow \cup {Escrow!NoTicket}]
      /\ \A u \in Tickets : /\ ticket[u] # Escrow!NoTicket => left[u] # Escrow!NoTicket
                            /\ TicketSound(left[u], visit, clock)
  BY <1>1, Rail_Expired
<1>3. row \in TicketRow /\ row # Escrow!NoTicket /\ TicketSound(row, visit, clock)
  BY DEF TicketRow, Escrow!NoTicket, TicketSound, RailInv
<1>4. /\ ticket' = [left EXCEPT ![t] = row]
      /\ reply' = [reply EXCEPT ![t] = "sent"]
      /\ clock' = clock /\ visit' = visit
  BY DEF RequestTicket, Escrow!Issue, Escrow!NoProof
<1> HIDE DEF left, row
<1>5. ticket'[t] = row /\ \A u \in Tickets : u # t => ticket'[u] = left[u]
  BY <1>2, <1>4
<1>6. ticket' \in [Tickets -> TicketRow \cup {Escrow!NoTicket}]
  BY <1>2, <1>3, <1>4
<1>7. \A u \in Tickets : /\ reply'[u] # "none" => ticket'[u] # Escrow!NoTicket
                         /\ TicketSound(ticket'[u], visit, clock)
  BY <1>2, <1>3, <1>4, <1>5 DEF RailInv
<1>8. \A v \in Visits : visit[v].at # "none" => ticket'[v[1]] # Escrow!NoTicket
  BY <1>2, <1>3, <1>5 DEF RailInv, Visits
<1> QED BY <1>4, <1>6, <1>7, <1>8 DEF RailInv

\* What a visit was answered last is no news to one who has hung up.
LEMMA Rail_Over ==
  ASSUME NEW r \in VisitRow, NEW answer \in {"lost", "200", "500", "502", "401"}, NEW now,
         VisitSound(r, now), r.at # "over",
         r.capture # "none" => answer \in MayHear(r)
  PROVE  /\ Over(r, answer) \in VisitRow
         /\ VisitSound(Over(r, answer), now)
         /\ Over(r, answer).capture = r.capture /\ Over(r, answer).completedAt = r.completedAt
         /\ Over(r, answer).at = "over"
<1>1. /\ Over(r, answer) \in VisitRow
      /\ Over(r, answer).at = "over" /\ Over(r, answer).work = r.work
      /\ Over(r, answer).capture = r.capture /\ Over(r, answer).completedAt = r.completedAt
      /\ Over(r, answer).answer \in {"lost", answer}
  BY DEF Over, VisitRow
<1> QED BY <1>1 DEF VisitSound, MayHear

LEMMA Rail_Capture ==
  ASSUME RailInv, NEW v \in Visits, CaptureArrives(v)
  PROVE  RailInv'
<1>1. v[1] \in Tickets
  BY DEF Visits
<1>2. CASE Capturable(v)
  <2> DEFINE row == [ticket[v[1]] EXCEPT !.state = "CAPTURED", !.proof = v]
             r == [visit[v] EXCEPT !.capture = "paid"]
  <2>1. /\ ticket' = [ticket EXCEPT ![v[1]] = row]
        /\ visit' = [visit EXCEPT ![v] = r]
        /\ UNCHANGED <<clock, reply>>
        /\ visit[v].capture = "sent"
    BY <1>2 DEF CaptureArrives, Escrow!Capture
  <2>2. ticket[v[1]] \in TicketRow
    BY <1>1, <1>2 DEF RailInv, Capturable, Escrow!NoTicket
  <2>3. row \in TicketRow /\ row.state = "CAPTURED" /\ row.proof = v /\ row.expiresAt = ticket[v[1]].expiresAt
    BY <2>2 DEF TicketRow
  <2>4. visit[v] \in VisitRow /\ VisitSound(visit[v], clock)
    BY DEF RailInv
  <2>5. /\ r \in VisitRow /\ r.capture = "paid" /\ r.completedAt = visit[v].completedAt
        /\ r.at = visit[v].at /\ r.work = visit[v].work /\ r.answer = visit[v].answer
    BY <2>4 DEF VisitRow
  <2>6. VisitSound(r, clock)
    BY <2>1, <2>4, <2>5 DEF VisitSound, MayHear
  <2>7. r.completedAt <= row.expiresAt
    <3>1. ticket[v[1]].expiresAt > 2 * (visit[v].completedAt \div 2)
      BY <1>2 DEF Capturable, CompletedInTime, Sec
    <3>2. ticket[v[1]].expiresAt \in Int /\ visit[v].completedAt \in Nat
      BY <2>2, <2>4 DEF TicketRow, VisitRow
    <3> QED BY <2>3, <2>5, <3>1, <3>2
  <2> HIDE DEF row, r
  <2>8. /\ ticket'[v[1]] = row /\ \A t \in Tickets : t # v[1] => ticket'[t] = ticket[t]
        /\ visit'[v] = r /\ \A u \in Visits : u # v => visit'[u] = visit[u]
    BY <1>1, <2>1 DEF RailInv
  <2>9. \A t \in Tickets : TicketSound(ticket'[t], visit', clock)
    BY <2>1, <2>3, <2>5, <2>7, <2>8 DEF RailInv, TicketSound
  <2>10. /\ ticket' \in [Tickets -> TicketRow \cup {Escrow!NoTicket}]
         /\ visit' \in [Visits -> VisitRow]
    BY <1>1, <2>1, <2>3, <2>5 DEF RailInv
  <2>11. \A t \in Tickets : ticket[t] # Escrow!NoTicket => ticket'[t] # Escrow!NoTicket
    BY <2>3, <2>8 DEF TicketRow, Escrow!NoTicket
  <2>12. \A u \in Visits : u[1] \in Tickets
    BY DEF Visits
  <2>13. \A u \in Visits : /\ visit'[u].at # "none" => ticket'[u[1]] # Escrow!NoTicket
                           /\ VisitSound(visit'[u], clock)
    BY <2>5, <2>6, <2>8, <2>11, <2>12 DEF RailInv
  <2> QED BY <2>1, <2>9, <2>10, <2>11, <2>13 DEF RailInv
<1>3. CASE ~Capturable(v)
  <2> DEFINE r == [visit[v] EXCEPT !.capture = "refused"]
  <2>1. visit' = [visit EXCEPT ![v] = r] /\ visit[v].capture = "sent" /\ UNCHANGED <<ticket, clock, reply>>
    BY <1>3 DEF CaptureArrives, Escrow!Refuse, Escrow!vars
  <2>2. visit[v] \in VisitRow /\ VisitSound(visit[v], clock)
    BY DEF RailInv
  <2>3. r \in VisitRow /\ VisitSound(r, clock) /\ r.at = visit[v].at
    BY <2>1, <2>2 DEF VisitRow, VisitSound, MayHear
  <2> HIDE DEF r
  <2> QED BY <2>1, <2>3, Rail_Visit DEF RailInv
<1> QED BY <1>2, <1>3

LEMMA Rail_Step ==
  ASSUME RailInv, [RailNext]_railVars
  PROVE  RailInv'
<1>1. ASSUME NEW w \in Wallets, NEW s \in Services, NEW t \in Tickets, RequestTicket(w, s, t)
      PROVE  RailInv'
  BY <1>1, Rail_Issue
<1>2. ASSUME NEW w \in Wallets, RefuseTicket(w)
      PROVE  RailInv'
  BY <1>2, Rail_Expire DEF RefuseTicket
<1>3. ASSUME NEW t \in Tickets, HearOrLoseReply(t)
      PROVE  RailInv'
  BY <1>3 DEF HearOrLoseReply, RailInv, Visits
<1>4. ASSUME NEW t \in Tickets, Sweep(t)
      PROVE  RailInv'
  BY <1>4, Rail_Expire DEF Sweep
<1>5. ASSUME NEW v \in Visits, Deliver(v)
      PROVE  RailInv'
  <2> DEFINE r == [visit[v] EXCEPT !.at = "sent"]
  <2>1. visit' = [visit EXCEPT ![v] = r] /\ UNCHANGED <<ticket, clock, reply>> /\ visit[v].at = "none"
    BY <1>5 DEF Deliver
  <2>2. visit[v] \in VisitRow /\ VisitSound(visit[v], clock) /\ v[1] \in Tickets
    BY DEF RailInv, Visits
  <2>3. r \in VisitRow /\ VisitSound(r, clock) /\ r.capture = visit[v].capture /\ r.completedAt = visit[v].completedAt
    BY <2>1, <2>2 DEF VisitRow, VisitSound, MayHear
  <2>4. ticket[v[1]] # Escrow!NoTicket
    BY <1>5, <2>2 DEF RailInv, Deliver
  <2> HIDE DEF r
  <2> QED BY <2>1, <2>3, <2>4, Rail_Visit
<1>6. ASSUME NEW v \in Visits, GiveUp(v)
      PROVE  RailInv'
  <2> DEFINE r == [visit[v] EXCEPT !.answer = "lost"]
  <2>1. visit' = [visit EXCEPT ![v] = r] /\ UNCHANGED <<ticket, clock, reply>> /\ visit[v].at # "none"
    BY <1>6 DEF GiveUp
  <2>2. visit[v] \in VisitRow /\ VisitSound(visit[v], clock) /\ ticket[v[1]] # Escrow!NoTicket
    BY <2>1 DEF RailInv
  <2>3. r \in VisitRow /\ VisitSound(r, clock) /\ r.capture = visit[v].capture /\ r.completedAt = visit[v].completedAt
    BY <2>1, <2>2 DEF VisitRow, VisitSound, MayHear
  <2> HIDE DEF r
  <2> QED BY <2>1, <2>2, <2>3, Rail_Visit
<1>7. ASSUME NEW v \in Visits, Verify(v)
      PROVE  RailInv'
  <2> DEFINE r == IF TicketExpired(v[1]) THEN Over(visit[v], "401") ELSE [visit[v] EXCEPT !.at = "working"]
  <2>1. visit' = [visit EXCEPT ![v] = r] /\ UNCHANGED <<ticket, clock, reply>> /\ visit[v].at = "sent"
    BY <1>7 DEF Verify
  <2>2. visit[v] \in VisitRow /\ VisitSound(visit[v], clock) /\ ticket[v[1]] # Escrow!NoTicket
    BY <2>1 DEF RailInv
  <2>3. r \in VisitRow /\ VisitSound(r, clock) /\ r.capture = visit[v].capture /\ r.completedAt = visit[v].completedAt
    <3>1. CASE TicketExpired(v[1])
      BY <2>1, <2>2, <3>1, Rail_Over DEF VisitSound
    <3>2. CASE ~TicketExpired(v[1])
      BY <2>1, <2>2, <3>2 DEF VisitRow, VisitSound, MayHear
    <3> QED BY <3>1, <3>2
  <2> HIDE DEF r
  <2> QED BY <2>1, <2>2, <2>3, Rail_Visit
<1>8. ASSUME NEW v \in Visits, NEW work \in {"ok", "error"}, Handle(v, work)
      PROVE  RailInv'
  <2> DEFINE r == [visit[v] EXCEPT !.at = "capturing", !.work = work, !.completedAt = clock, !.capture = "sent"]
  <2>1. visit' = [visit EXCEPT ![v] = r] /\ UNCHANGED <<ticket, clock, reply>> /\ visit[v].at = "working"
    BY <1>8 DEF Handle
  <2>2. visit[v] \in VisitRow /\ VisitSound(visit[v], clock) /\ ticket[v[1]] # Escrow!NoTicket /\ clock \in Nat
    BY <2>1 DEF RailInv
  <2>3. /\ r \in VisitRow /\ r.at = "capturing" /\ r.work = work /\ r.completedAt = clock
        /\ r.capture = "sent" /\ r.answer = visit[v].answer
    BY <2>2 DEF VisitRow
  <2>4. VisitSound(r, clock) /\ visit[v].capture # "paid"
    BY <2>1, <2>2, <2>3 DEF VisitSound, MayHear
  <2> HIDE DEF r
  <2> QED BY <2>1, <2>2, <2>3, <2>4, Rail_Visit
<1>9. ASSUME NEW v \in Visits, Respond(v)
      PROVE  RailInv'
  <2> DEFINE r == Over(visit[v], IF visit[v].work = "ok" THEN "200" ELSE "500")
  <2>1. visit' = [visit EXCEPT ![v] = r] /\ UNCHANGED <<ticket, clock, reply>> /\ visit[v].at = "capturing"
    BY <1>9 DEF Respond
  <2>2. visit[v] \in VisitRow /\ VisitSound(visit[v], clock) /\ ticket[v[1]] # Escrow!NoTicket
    BY <2>1 DEF RailInv
  <2>3. r \in VisitRow /\ VisitSound(r, clock) /\ r.capture = visit[v].capture /\ r.completedAt = visit[v].completedAt
    BY <2>1, <2>2, Rail_Over DEF MayHear
  <2> HIDE DEF r
  <2> QED BY <2>1, <2>2, <2>3, Rail_Visit
<1>10. ASSUME NEW v \in Visits, CaptureUnheard(v)
       PROVE  RailInv'
  <2> DEFINE r == Over(visit[v], "502")
  <2>1. visit' = [visit EXCEPT ![v] = r] /\ UNCHANGED <<ticket, clock, reply>> /\ visit[v].at = "capturing"
    BY <1>10 DEF CaptureUnheard
  <2>2. visit[v] \in VisitRow /\ VisitSound(visit[v], clock) /\ ticket[v[1]] # Escrow!NoTicket
    BY <2>1 DEF RailInv
  <2>3. r \in VisitRow /\ VisitSound(r, clock) /\ r.capture = visit[v].capture /\ r.completedAt = visit[v].completedAt
    BY <2>1, <2>2, Rail_Over DEF MayHear
  <2> HIDE DEF r
  <2> QED BY <2>1, <2>2, <2>3, Rail_Visit
<1>11. ASSUME NEW v \in Visits, CaptureArrives(v)
       PROVE  RailInv'
  BY <1>11, Rail_Capture
<1>12. ASSUME NEW v \in Visits, CaptureFails(v)
       PROVE  RailInv'
  <2> DEFINE r == [visit[v] EXCEPT !.capture = "failed"]
  <2>1. visit' = [visit EXCEPT ![v] = r] /\ UNCHANGED <<ticket, clock, reply>> /\ visit[v].capture = "sent"
    BY <1>12 DEF CaptureFails
  <2>2. visit[v] \in VisitRow /\ VisitSound(visit[v], clock)
    BY DEF RailInv
  <2>3. r \in VisitRow /\ VisitSound(r, clock) /\ r.at = visit[v].at
    BY <2>1, <2>2 DEF VisitRow, VisitSound, MayHear
  <2> HIDE DEF r
  <2> QED BY <2>1, <2>3, Rail_Visit DEF RailInv
<1>13. CASE RailCrash
  <2>1. UNCHANGED <<ticket, clock, reply>>
    BY <1>13 DEF RailCrash
  <2>2. ASSUME NEW v \in Visits
        PROVE  /\ visit'[v] \in VisitRow /\ VisitSound(visit'[v], clock)
               /\ visit'[v].capture = visit[v].capture /\ visit'[v].completedAt = visit[v].completedAt
               /\ visit'[v].at # "none" => visit[v].at # "none"
    <3>1. visit[v] \in VisitRow /\ VisitSound(visit[v], clock)
      BY DEF RailInv
    <3>2. CASE v \in Running
      <4>1. visit'[v] = Over(visit[v], "lost") /\ visit[v].at \in {"working", "capturing"}
        BY <1>13, <3>2 DEF RailCrash, Running
      <4> QED BY <3>1, <4>1, Rail_Over DEF MayHear
    <3>3. CASE v \notin Running
      BY <1>13, <3>1, <3>3 DEF RailCrash
    <3> QED BY <3>2, <3>3
  <2>3. visit' \in [Visits -> VisitRow]
    BY <1>13, <2>2 DEF RailCrash
  <2>4. \A t \in Tickets : TicketSound(ticket[t], visit', clock)
    BY <2>2 DEF RailInv, TicketSound
  <2> QED BY <2>1, <2>2, <2>3, <2>4 DEF RailInv
<1>14. CASE SetSigner
  BY <1>14 DEF SetSigner, RailInv, Visits
<1>15. CASE RailTick
  <2>1. clock' = clock + 1 /\ UNCHANGED <<ticket, reply, visit>>
    BY <1>15 DEF RailTick, Escrow!Tick
  <2>2. \A t \in Tickets : TicketSound(ticket[t], visit, clock + 1)
    <3> SUFFICES ASSUME NEW t \in Tickets PROVE TicketSound(ticket[t], visit, clock + 1)
      OBVIOUS
    <3>1. TicketSound(ticket[t], visit, clock) /\ clock \in Nat /\ ticket[t] \in TicketRow \cup {Escrow!NoTicket}
      BY DEF RailInv
    <3> QED BY <3>1 DEF TicketSound, TicketRow, Escrow!NoTicket
  <2>3. \A v \in Visits : VisitSound(visit[v], clock + 1)
    <3> SUFFICES ASSUME NEW v \in Visits PROVE VisitSound(visit[v], clock + 1)
      OBVIOUS
    <3>1. VisitSound(visit[v], clock) /\ clock \in Nat /\ visit[v] \in VisitRow
      BY DEF RailInv
    <3> QED BY <3>1 DEF VisitSound, VisitRow
  <2> QED BY <2>1, <2>2, <2>3 DEF RailInv
<1>16. CASE UNCHANGED railVars
  BY <1>16 DEF railVars, RailInv, Visits
<1> QED BY <1>1, <1>2, <1>3, <1>4, <1>5, <1>6, <1>7, <1>8, <1>9, <1>10, <1>11, <1>12, <1>13, <1>14,
           <1>15, <1>16 DEF RailNext

\* Only its own arrival refuses a capture.
LEMMA Rail_Refused ==
  ASSUME RailInv, [RailNext]_railVars, NEW v \in Visits,
         visit[v].capture = "sent", visit'[v].capture = "refused"
  PROVE  CaptureArrives(v) /\ ~Capturable(v)
<1>1. visit[v] \in VisitRow
  BY DEF RailInv
<1>2. ASSUME NEW u \in Visits, NEW r, visit' = [visit EXCEPT ![u] = r],
             r.capture = visit[u].capture \/ r.capture \in {"sent", "paid", "failed"}
      PROVE  FALSE
  BY <1>2 DEF RailInv
<1>3. ASSUME NEW u \in Visits, visit[u].at # "none" \/ visit[u].at = "none"
      PROVE  visit[u] \in VisitRow
  BY DEF RailInv
<1>4. ASSUME NEW r \in VisitRow, NEW answer
      PROVE  Over(r, answer).capture = r.capture
  BY DEF Over, VisitRow
<1>5. ASSUME NEW w \in Wallets, NEW s \in Services, NEW t \in Tickets, RequestTicket(w, s, t)
      PROVE  FALSE
  BY <1>5 DEF RequestTicket
<1>6. ASSUME NEW w \in Wallets, RefuseTicket(w)
      PROVE  FALSE
  BY <1>6 DEF RefuseTicket
<1>7. ASSUME NEW t \in Tickets, HearOrLoseReply(t) \/ Sweep(t)
      PROVE  FALSE
  BY <1>7 DEF HearOrLoseReply, Sweep
<1>8. ASSUME NEW u \in Visits, Deliver(u)
      PROVE  FALSE
  <2>1. [visit[u] EXCEPT !.at = "sent"].capture = visit[u].capture
    BY <1>3 DEF VisitRow
  <2> QED BY <1>2, <1>8, <2>1 DEF Deliver
<1>9. ASSUME NEW u \in Visits, GiveUp(u)
      PROVE  FALSE
  <2>1. [visit[u] EXCEPT !.answer = "lost"].capture = visit[u].capture
    BY <1>3 DEF VisitRow
  <2> QED BY <1>2, <1>9, <2>1 DEF GiveUp
<1>10. ASSUME NEW u \in Visits, Verify(u)
       PROVE  FALSE
  <2> DEFINE r == IF TicketExpired(u[1]) THEN Over(visit[u], "401") ELSE [visit[u] EXCEPT !.at = "working"]
  <2>1. r.capture = visit[u].capture
    BY <1>3, <1>4 DEF VisitRow
  <2>2. visit' = [visit EXCEPT ![u] = r]
    BY <1>10 DEF Verify
  <2> QED BY <1>2, <2>1, <2>2
<1>11. ASSUME NEW u \in Visits, NEW work \in {"ok", "error"}, Handle(u, work)
       PROVE  FALSE
  <2> DEFINE r == [visit[u] EXCEPT !.at = "capturing", !.work = work, !.completedAt = clock, !.capture = "sent"]
  <2>1. r.capture = "sent"
    BY <1>3 DEF VisitRow
  <2>2. visit' = [visit EXCEPT ![u] = r]
    BY <1>11 DEF Handle
  <2> HIDE DEF r
  <2> QED BY <1>2, <2>1, <2>2
<1>12. ASSUME NEW u \in Visits, Respond(u) \/ CaptureUnheard(u)
       PROVE  FALSE
  <2>1. PICK answer : visit' = [visit EXCEPT ![u] = Over(visit[u], answer)]
    BY <1>12 DEF Respond, CaptureUnheard
  <2> QED BY <1>2, <1>3, <1>4, <2>1
<1>13. ASSUME NEW u \in Visits, CaptureArrives(u)
       PROVE  u = v /\ ~Capturable(v)
  <2> DEFINE r == [visit[u] EXCEPT !.capture = IF Capturable(u) THEN "paid" ELSE "refused"]
  <2>1. r.capture = IF Capturable(u) THEN "paid" ELSE "refused"
    <3> DEFINE outcome == IF Capturable(u) THEN "paid" ELSE "refused"
    <3> HIDE DEF outcome
    <3>1. [visit[u] EXCEPT !.capture = outcome].capture = outcome
      BY <1>3 DEF VisitRow
    <3> QED BY <3>1 DEF outcome
  <2>2. visit' = [visit EXCEPT ![u] = r]
    BY <1>13 DEF CaptureArrives
  <2> HIDE DEF r
  <2>3. u = v
    BY <2>2 DEF RailInv
  <2>4. visit'[v] = r
    BY <2>2, <2>3 DEF RailInv
  <2> QED BY <2>1, <2>3, <2>4
<1>14. ASSUME NEW u \in Visits, CaptureFails(u)
       PROVE  FALSE
  <2> DEFINE r == [visit[u] EXCEPT !.capture = "failed"]
  <2>1. r.capture = "failed"
    BY <1>3 DEF VisitRow
  <2>2. visit' = [visit EXCEPT ![u] = r]
    BY <1>14 DEF CaptureFails
  <2> HIDE DEF r
  <2> QED BY <1>2, <2>1, <2>2
<1>15. CASE RailCrash
  <2>1. visit'[v] = IF v \in Running THEN Over(visit[v], "lost") ELSE visit[v]
    BY <1>15 DEF RailCrash
  <2> QED BY <1>1, <1>4, <2>1
<1>16. CASE SetSigner \/ RailTick \/ UNCHANGED railVars
  BY <1>16 DEF SetSigner, RailTick, railVars
<1> QED BY <1>5, <1>6, <1>7, <1>8, <1>9, <1>10, <1>11, <1>12, <1>13, <1>14, <1>15, <1>16 DEF RailNext

LEMMA RailInvariant == Spec => []RailInv
<1>1. Init => RailInv
  BY StartOfEach, Rail_Init
<1>2. RailInv /\ [Next]_vars => RailInv'
  BY StepOfEach, Rail_Step
<1> QED BY <1>1, <1>2, PTL DEF Spec

LEMMA RailExplains ==
  ASSUME RailInv
  PROVE  ChargeExplained
<1> SUFFICES ASSUME NEW t \in Tickets, ticket[t].state = "CAPTURED"
             PROVE  LET v == visit[ticket[t].proof]
                    IN  /\ v.work # "none" /\ v.completedAt <= ticket[t].expiresAt
                        /\ v.answer \in MayHear(v)
  BY DEF ChargeExplained, MayHear
<1> QED BY DEF RailInv, TicketSound, VisitSound

\* A capture is refused only once the ticket is used, its time is up, or the
\* signer is revoked.
THEOREM RefusalsHaveCause == Spec => RefusedForCause
<1> DEFINE Caused == \A v \in Visits :
              visit[v].capture = "sent" /\ visit'[v].capture = "refused" =>
                \/ ticket[v[1]].state = "CAPTURED"
                \/ ticket[v[1]].expiresAt <= clock
                \/ ~signer
<1>1. ASSUME RailInv, [Next]_vars PROVE [Caused]_railVars
  <2> SUFFICES ASSUME NEW v \in Visits, visit[v].capture = "sent", visit'[v].capture = "refused",
                      ticket[v[1]].state # "CAPTURED", signer
               PROVE  ticket[v[1]].expiresAt <= clock
    OBVIOUS
  <2>1. ~Capturable(v)
    BY <1>1, StepOfEach, Rail_Refused
  <2>2. visit[v] \in VisitRow /\ VisitSound(visit[v], clock) /\ clock \in Nat /\ v[1] \in Tickets
    BY <1>1 DEF RailInv, Visits
  <2>3. visit[v].at # "none" /\ visit[v].completedAt \in Nat /\ visit[v].completedAt <= clock
    BY <2>2 DEF VisitSound, VisitRow
  <2>4. ticket[v[1]] \in TicketRow /\ TicketSound(ticket[v[1]], visit, clock)
    BY <1>1, <2>2, <2>3 DEF RailInv
  <2>5. CASE ticket[v[1]].state = "HELD"
    <3>1. ~(ticket[v[1]].expiresAt > 2 * (visit[v].completedAt \div 2))
      BY <2>1, <2>5 DEF Capturable, CompletedInTime, Sec
    <3>2. ticket[v[1]].expiresAt \in Int
      BY <2>4 DEF TicketRow
    <3> QED BY <2>2, <2>3, <3>1, <3>2
  <2>6. CASE ticket[v[1]].state = "EXPIRED"
    BY <2>4, <2>6 DEF TicketSound
  <2> QED BY <2>4, <2>5, <2>6 DEF TicketRow
<1>2. RailInv /\ [Next]_vars => [Caused]_railVars
  BY <1>1
<1> QED BY <1>2, RailInvariant, PTL DEF Spec, RefusedForCause

-----------------------------------------------------------------------------
(* The x402 rail keeps its invariant. *)

LEMMA X402_Init == X402Init => X402Inv
BY DEF X402Init, X402Inv, NoEntry, Calls, Hands, AllRecorded

LEMMA RowsAfterRecord ==
  ASSUME NEW p, rows' = RowsAfter(p)
  PROVE  rows \subseteq rows' /\ rows' \subseteq rows \cup {p} /\ Recorded(p, setup.requestOf, rows')
BY DEF RowsAfter, Claimed, Recorded

LEMMA X402_Step ==
  ASSUME X402Inv, [X402Next]_x402Vars
  PROVE  X402Inv'
<1> USE DEF Reporter
<1>a. \A c \in Calls : c[1] \in Payments
  BY DEF Calls
<1>b. NoEntry \notin Hands /\ NoEntry.at = "idle"
  BY DEF NoEntry, Hands
<1>1. ASSUME NEW c \in Calls, Send(c)
      PROVE  X402Inv'
  BY <1>1 DEF Send, X402Inv, AllRecorded, Recorded
<1>2. ASSUME NEW c \in Calls, Settle(c)
      PROVE  X402Inv'
  <2>1. PICK paid \in {settled, settled \cup {c[1]}}, outcome \in {"handling", "failed"} :
          /\ outcome = "handling" => c[1] \in paid
          /\ settled' = paid
          /\ call' = [call EXCEPT ![c] = outcome]
    BY <1>2 DEF Settle
  <2>2. UNCHANGED <<setup, queue, keys, sending, stray, accepted, rows>>
    BY <1>2 DEF Settle
  <2>3. settled' \subseteq Payments /\ settled \subseteq settled'
    BY <1>a, <2>1 DEF X402Inv
  <2>4. \A d \in Calls : call'[d] \in {"handling", "reporting"} => d[1] \in settled'
    BY <2>1, <2>3 DEF X402Inv
  <2>5. AllRecorded'
    BY <2>2, <2>3 DEF X402Inv, AllRecorded, Recorded
  <2>6. call' \in [Calls -> {"none", "settling", "handling", "reporting", "answered", "failed"}]
    BY <2>1 DEF X402Inv
  <2>7. sending'.at = "ok" => Recorded(sending'.payment, setup'.requestOf, rows')
    BY <2>2 DEF X402Inv, AllRecorded, Recorded
  <2> QED BY <2>2, <2>3, <2>4, <2>5, <2>6, <2>7 DEF X402Inv
<1>3. ASSUME NEW c \in Calls, Handled(c)
      PROVE  X402Inv'
  BY <1>3 DEF Handled, X402Inv, AllRecorded, Recorded
<1>4. ASSUME NEW c \in Calls, Report(c)
      PROVE  X402Inv'
  <2>1. c[1] \in settled /\ c[1] \in Payments
    BY <1>4, <1>a DEF Report, X402Inv
  <2>2. [payment |-> c[1], attempt |-> 0, at |-> "queued"] \in Hands
    BY <2>1 DEF Hands
  <2>3. queue' \subseteq queue \cup {[payment |-> c[1], attempt |-> 0, at |-> "queued"]}
    BY <1>4 DEF Report
  <2>4. UNCHANGED <<setup, settled, sending, stray, accepted, rows>> /\ call' = [call EXCEPT ![c] = "answered"]
    BY <1>4 DEF Report
  <2>5. AllRecorded' /\ (sending'.at = "ok" => Recorded(sending'.payment, setup'.requestOf, rows'))
    BY <2>4 DEF X402Inv, AllRecorded, Recorded
  <2>6. \A e \in queue' : e \in Hands /\ e.payment \in settled
    BY <2>1, <2>2, <2>3 DEF X402Inv
  <2>7. /\ call' \in [Calls -> {"none", "settling", "handling", "reporting", "answered", "failed"}]
        /\ \A d \in Calls : call'[d] \in {"handling", "reporting"} => d[1] \in settled
    BY <2>4 DEF X402Inv
  <2> QED BY <2>4, <2>5, <2>6, <2>7 DEF X402Inv
<1>5. ASSUME NEW p \in Payments, StrayArrives(p)
      PROVE  X402Inv'
  <2>1. UNCHANGED <<setup, settled, call, queue, keys, sending, accepted>> /\ stray' \subseteq stray /\ p \in settled
    BY <1>5 DEF StrayArrives, X402Inv
  <2>2. rows \subseteq rows' /\ rows' \subseteq rows \cup {p}
    BY <1>5, <2>1, RowsAfterRecord DEF StrayArrives
  <2>3. AllRecorded' /\ (sending'.at = "ok" => Recorded(sending'.payment, setup'.requestOf, rows'))
    BY <2>1, <2>2 DEF X402Inv, AllRecorded, Recorded
  <2> QED BY <2>1, <2>2, <2>3 DEF X402Inv
<1>6. CASE TakeEntry
  <2>1. PICK e \in queue : queue' = queue \ {e} /\ sending' = [e EXCEPT !.at = "posted"]
    BY <1>6 DEF TakeEntry
  <2>2. UNCHANGED <<setup, settled, call, keys, stray, accepted, rows>>
    BY <1>6 DEF TakeEntry
  <2>3. e \in Hands /\ e.payment \in settled
    BY DEF X402Inv
  <2>4. sending' \in Hands /\ sending'.payment \in settled /\ sending'.at = "posted"
    BY <2>1, <2>3 DEF Hands
  <2>5. AllRecorded'
    BY <2>2 DEF X402Inv, AllRecorded, Recorded
  <2> QED BY <2>1, <2>2, <2>4, <2>5 DEF X402Inv
<1>7. CASE ReportArrives
  <2>1. UNCHANGED <<setup, settled, call, queue, keys, stray, accepted>> /\ sending.at = "posted"
    BY <1>7 DEF ReportArrives
  <2>2. sending \in Hands /\ sending.payment \in settled /\ sending.payment \in Payments
    BY <1>b, <2>1 DEF X402Inv, Hands
  <2>3. CASE rows' = RowsAfter(sending.payment) /\ sending' = [sending EXCEPT !.at = "ok"]
    <3>1. sending' \in Hands /\ sending'.payment = sending.payment
      BY <2>2, <2>3 DEF Hands
    <3>2. rows \subseteq rows' /\ rows' \subseteq rows \cup {sending.payment} /\ Recorded(sending.payment, setup.requestOf, rows')
      BY <2>1, <2>3, RowsAfterRecord
    <3>3. Recorded(sending'.payment, setup'.requestOf, rows')
      BY <2>1, <3>1, <3>2
    <3>4. AllRecorded'
      BY <2>1, <3>2 DEF X402Inv, AllRecorded, Recorded
    <3> QED BY <2>1, <2>2, <3>1, <3>2, <3>3, <3>4 DEF X402Inv
  <2>4. CASE sending' = [sending EXCEPT !.at = "refused"] /\ UNCHANGED rows
    <3>1. sending' \in Hands /\ sending'.payment = sending.payment /\ sending'.at = "refused"
      BY <2>2, <2>4 DEF Hands
    <3>2. AllRecorded'
      BY <2>1, <2>4 DEF X402Inv, AllRecorded, Recorded
    <3> QED BY <2>1, <2>2, <2>4, <3>1, <3>2 DEF X402Inv
  <2> QED BY <1>7, <2>3, <2>4 DEF ReportArrives
<1>8. CASE AnswerLost
  <2>1. /\ UNCHANGED <<setup, settled, call, queue, keys, accepted, rows>>
        /\ sending' = [sending EXCEPT !.at = "unanswered"]
        /\ stray' \subseteq stray \cup {sending.payment} /\ sending.at \in {"posted", "ok"}
    BY <1>8 DEF AnswerLost
  <2>2. sending \in Hands /\ sending.payment \in settled
    BY <1>b, <2>1 DEF X402Inv, Hands
  <2>3. sending' \in Hands /\ sending'.payment = sending.payment /\ sending'.at = "unanswered"
    BY <2>1, <2>2 DEF Hands
  <2>4. AllRecorded'
    BY <2>1 DEF X402Inv, AllRecorded, Recorded
  <2> QED BY <2>1, <2>2, <2>3, <2>4 DEF X402Inv
<1>9. CASE ReportAccepted
  <2>1. /\ UNCHANGED <<setup, settled, call, queue, stray, rows>>
        /\ accepted' = accepted \cup {sending.payment} /\ sending' = NoEntry /\ sending.at = "ok"
    BY <1>9 DEF ReportAccepted, Accepts
  <2>2. sending.payment \in settled /\ Recorded(sending.payment, setup.requestOf, rows)
    BY <1>b, <2>1 DEF X402Inv
  <2>3. AllRecorded'
    BY <2>1, <2>2 DEF X402Inv, AllRecorded, Recorded
  <2>4. settled' = settled /\ queue' = queue /\ call' = call /\ setup' = setup
    BY <2>1
  <2> QED BY <1>b, <2>1, <2>3, <2>4 DEF X402Inv
<1>10. CASE RetryOrDrop
  <2>1. /\ UNCHANGED <<setup, settled, call, stray, accepted, rows>> /\ sending' = NoEntry
        /\ queue' \subseteq queue \cup (IF HasDelay(sending) THEN {Again(sending)} ELSE {})
        /\ Answered
    BY <1>10 DEF RetryOrDrop
  <2>2. sending \in Hands /\ sending.payment \in settled
    BY <1>b, <2>1 DEF X402Inv, Hands, Answered
  <2>3. Again(sending) \in Hands /\ Again(sending).payment = sending.payment
    <3>1. \A n \in Nat : /\ [sending EXCEPT !.attempt = n, !.at = "queued"] \in Hands
                         /\ [sending EXCEPT !.attempt = n, !.at = "queued"].payment = sending.payment
      BY <2>2 DEF Hands
    <3>2. sending.attempt + 1 \in Nat
      BY <2>2 DEF Hands
    <3> QED BY <3>1, <3>2 DEF Again
  <2>4. \A e \in queue' : e \in Hands /\ e.payment \in settled
    BY <2>1, <2>2, <2>3 DEF X402Inv
  <2>5. AllRecorded'
    BY <2>1 DEF X402Inv, AllRecorded, Recorded
  <2> QED BY <1>b, <2>1, <2>4, <2>5 DEF X402Inv
<1>11. CASE X402Crash
  <2>1. PICK paid \in SUBSET {c[1] : c \in {d \in InHand : call[d] = "settling"}} : settled' = settled \cup paid
    BY <1>11 DEF X402Crash
  <2>2. /\ UNCHANGED <<setup, accepted, rows>> /\ queue' = {} /\ sending' = NoEntry
        /\ call' = [c \in Calls |-> IF c \in InHand THEN "failed" ELSE call[c]]
        /\ stray' = IF sending.at = "posted" THEN stray \cup {sending.payment} ELSE stray
    BY <1>11 DEF X402Crash
  <2>3. settled' \subseteq Payments /\ settled \subseteq settled'
    BY <1>a, <2>1 DEF X402Inv, InHand
  <2>4. /\ call' \in [Calls -> {"none", "settling", "handling", "reporting", "answered", "failed"}]
        /\ \A d \in Calls : call'[d] \notin {"handling", "reporting"}
    BY <2>2 DEF X402Inv, InHand
  <2>5. stray' \subseteq settled'
    BY <1>b, <2>2, <2>3 DEF X402Inv
  <2>6. AllRecorded'
    BY <2>2, <2>3 DEF X402Inv, AllRecorded, Recorded
  <2> QED BY <1>b, <2>2, <2>3, <2>4, <2>5, <2>6 DEF X402Inv
<1>12. CASE UNCHANGED x402Vars
  BY <1>12 DEF x402Vars, X402Inv, AllRecorded, Recorded
<1> QED BY <1>1, <1>2, <1>3, <1>4, <1>5, <1>6, <1>7, <1>8, <1>9, <1>10, <1>11, <1>12 DEF X402Next

\* What the reporter calls accepted was paid and has its row, or another
\* payment has one under the same request id, for any number of payments,
\* retries, lost answers and restarts.
THEOREM AcceptedReportsStand == Spec => []AcceptedIsRecorded
<1>1. Init => X402Inv
  BY StartOfEach, X402_Init
<1>2. X402Inv /\ [Next]_vars => X402Inv'
  BY StepOfEach, X402_Step
<1>3. X402Inv => AcceptedIsRecorded
  BY DEF X402Inv, AllRecorded, Recorded, AcceptedIsRecorded, Claimed
<1> QED BY <1>1, <1>2, <1>3, PTL DEF Spec

-----------------------------------------------------------------------------
(* The gateway controls keep their invariant. *)

LEMMA Desk_Init == DeskInit => DeskInv
<1> SUFFICES ASSUME DeskInit PROVE DeskInv
  OBVIOUS
<1>1. chosen \in Desks
  BY DeskAssumption DEF DeskInit
<1>2. \A a \in Desks : Address(a, 0) \in Addresses /\ Address(a, 0).of = a
  BY DeskAssumption DEF Address, Addresses
<1>3. stored \in [Desks -> Config] /\ \A a \in Desks : Meant(stored[a].url, a, mixed)
  BY <1>2 DEF DeskInit, Config, Meant
<1>4. field \in Addresses /\ Meant(field, chosen, mixed)
  BY <1>1, <1>2 DEF DeskInit, Meant
<1> QED BY <1>1, <1>3, <1>4 DEF DeskInit, DeskInv, RequestSound, Idle

\* What was meant stays so, as more agents get mixed up.
LEMMA SoundLater ==
  ASSUME NEW q, NEW a, NEW before, NEW after, before \subseteq after, RequestSound(q, a, before)
  PROVE  RequestSound(q, a, after)
BY DEF RequestSound, Meant

\* A step that changes one request.
LEMMA Desk_Request ==
  ASSUME DeskInv, NEW r \in Requests, NEW q \in Asked \cup Replied \cup {Idle},
         requests' = [requests EXCEPT ![r] = q],
         UNCHANGED chosen,
         mixed \subseteq mixed',
         RequestSound(q, chosen, mixed')
  PROVE  /\ requests' \in [Requests -> Asked \cup Replied \cup {Idle}]
         /\ \A s \in Requests : RequestSound(requests'[s], chosen', mixed')
<1>1. requests' \in [Requests -> Asked \cup Replied \cup {Idle}]
  BY DEF DeskInv
<1>2. ASSUME NEW s \in Requests PROVE RequestSound(requests'[s], chosen, mixed')
  <2>1. CASE s = r
    BY <2>1 DEF DeskInv
  <2>2. CASE s # r
    BY <2>2, SoundLater DEF DeskInv
  <2> QED BY <2>1, <2>2
<1> QED BY <1>1, <1>2

LEMMA Desk_Step ==
  ASSUME DeskInv, [DeskNext]_deskVars
  PROVE  DeskInv'
<1>a. \A kind \in {"load", "poll", "save", "verify"}, a \in Desks : Sent(kind, a) \in Asked
  BY DEF Sent, Asked, DeskInv
<1>b. RequestSound(Idle, chosen, mixed)
  BY DEF RequestSound, Idle
<1>c. ASSUME NEW r \in Requests, requests[r].at = "sent"
      PROVE  requests[r] \in Asked
  BY <1>c DEF DeskInv, Replied, Idle
<1>d. ASSUME NEW r \in Requests, requests[r].at = "answered"
      PROVE  requests[r] \in Replied
  BY <1>d DEF DeskInv, Asked, Idle
<1>1. ASSUME NEW r \in Requests, NEW a \in Desks, SelectDesk(r, a)
      PROVE  DeskInv'
  <2>1. /\ chosen' = a /\ unloaded' = TRUE /\ a # chosen
        /\ requests' = [s \in Requests |-> IF s = r THEN Sent("load", a) ELSE Dropped("load", requests[s])]
        /\ UNCHANGED <<stored, config, field, mixed>>
    BY <1>1 DEF SelectDesk
  <2>2. ASSUME NEW s \in Requests
        PROVE  /\ requests'[s] \in Asked \cup Replied \cup {Idle}
               /\ RequestSound(requests'[s], a, mixed)
    <3>1. CASE s = r
      BY <1>a, <2>1, <3>1 DEF RequestSound, Sent
    <3>2. CASE s # r /\ requests[s].kind \in {"load", "poll"}
      <4>1. requests'[s] = [requests[s] EXCEPT !.mine = FALSE]
        BY <2>1, <3>2 DEF Dropped
      <4>2. requests[s] \in Asked \cup Replied /\ RequestSound(requests[s], chosen, mixed)
        BY <3>2 DEF DeskInv, Idle
      <4>3. CASE requests[s] \in Asked
        <5>1. requests'[s] \in Asked /\ requests'[s].mine = FALSE /\ requests'[s].kind = requests[s].kind
          BY <4>1, <4>3 DEF Asked
        <5> QED BY <3>2, <5>1 DEF RequestSound, Asked
      <4>4. CASE requests[s] \in Replied
        <5>1. /\ requests'[s] \in Replied /\ requests'[s].mine = FALSE
              /\ requests'[s].is = requests[s].is /\ requests'[s].agent = requests[s].agent
          BY <4>1, <4>4 DEF Replied
        <5> QED BY <4>2, <4>4, <5>1 DEF RequestSound, Replied
      <4> QED BY <4>2, <4>3, <4>4
    <3>3. CASE s # r /\ requests[s].kind \notin {"load", "poll"}
      <4>1. requests'[s] = requests[s]
        BY <2>1, <3>3 DEF Dropped
      <4> QED BY <3>3, <4>1 DEF DeskInv, RequestSound
    <3> QED BY <3>1, <3>2, <3>3
  <2>3. requests' \in [Requests -> Asked \cup Replied \cup {Idle}]
    BY <2>1, <2>2
  <2> QED BY <2>1, <2>2, <2>3 DEF DeskInv
<1>2. ASSUME NEW r \in Requests, Poll(r)
      PROVE  DeskInv'
  <2>1. requests' = [requests EXCEPT ![r] = Sent("poll", chosen)]
        /\ UNCHANGED <<stored, chosen, config, field, unloaded, mixed>>
    BY <1>2 DEF Poll
  <2>2. Sent("poll", chosen) \in Asked /\ RequestSound(Sent("poll", chosen), chosen, mixed)
    BY <1>a DEF DeskInv, RequestSound, Sent
  <2> QED BY <2>1, <2>2, Desk_Request DEF DeskInv
<1>3. ASSUME NEW r \in Requests, SaveGateway(r)
      PROVE  DeskInv'
  <2>1. /\ requests' = [requests EXCEPT ![r] = Sent("save", chosen)]
        /\ mixed' = IF unloaded THEN mixed \cup {chosen} ELSE mixed
        /\ UNCHANGED <<stored, chosen, config, field, unloaded>>
    BY <1>3 DEF SaveGateway
  <2>2. Meant(field, chosen, mixed') /\ mixed \subseteq mixed' /\ mixed' \subseteq Desks
    BY <2>1 DEF DeskInv, Meant
  <2>3. Sent("save", chosen) \in Asked /\ RequestSound(Sent("save", chosen), chosen, mixed')
    BY <1>a, <2>2 DEF DeskInv, RequestSound, Sent
  <2>4. /\ requests' \in [Requests -> Asked \cup Replied \cup {Idle}]
        /\ \A s \in Requests : RequestSound(requests'[s], chosen', mixed')
    BY <2>1, <2>2, <2>3, Desk_Request
  <2>5. \A a \in Desks : Meant(stored[a].url, a, mixed')
    BY <2>2 DEF DeskInv, Meant
  <2> QED BY <2>1, <2>2, <2>4, <2>5 DEF DeskInv
<1>4. ASSUME NEW r \in Requests, VerifyGateway(r)
      PROVE  DeskInv'
  <2>1. requests' = [requests EXCEPT ![r] = Sent("verify", chosen)]
        /\ UNCHANGED <<stored, chosen, config, field, unloaded, mixed>>
    BY <1>4 DEF VerifyGateway
  <2>2. Sent("verify", chosen) \in Asked /\ RequestSound(Sent("verify", chosen), chosen, mixed)
    BY <1>a DEF DeskInv, RequestSound, Sent
  <2> QED BY <2>1, <2>2, Desk_Request DEF DeskInv
<1>5. ASSUME NEW r \in Requests, ServeRead(r)
      PROVE  DeskInv'
  <2> DEFINE q == [kind |-> requests[r].kind, agent |-> requests[r].agent, at |-> "answered",
                   mine |-> requests[r].mine, is |-> stored[requests[r].agent]]
  <2>1. /\ requests' = [requests EXCEPT ![r] = q] /\ requests[r].at = "sent"
        /\ requests[r].kind \in {"load", "poll", "reread"}
        /\ UNCHANGED <<stored, chosen, config, field, unloaded, mixed>>
    BY <1>5 DEF ServeRead
  <2>2. requests[r] \in Asked /\ RequestSound(requests[r], chosen, mixed)
    BY <1>c, <2>1 DEF DeskInv
  <2>3. requests[r].agent \in Desks /\ stored[requests[r].agent] \in Config /\ requests[r].mine \in BOOLEAN
        /\ Meant(stored[requests[r].agent].url, requests[r].agent, mixed)
    BY <2>2 DEF Asked, DeskInv
  <2>4. q \in Replied
    BY <2>1, <2>3 DEF Replied
  <2>5. RequestSound(q, chosen, mixed)
    BY <2>2, <2>3 DEF RequestSound
  <2> HIDE DEF q
  <2> QED BY <2>1, <2>4, <2>5, Desk_Request DEF DeskInv
<1>6. ASSUME NEW r \in Requests, ServeSave(r)
      PROVE  DeskInv'
  <2> DEFINE a == requests[r].agent
             new == IF requests[r].url = stored[a].url THEN stored[a]
                                                       ELSE [url |-> requests[r].url, live |-> FALSE]
             q == [kind |-> "save", agent |-> a, at |-> "answered", mine |-> TRUE, is |-> new]
  <2>1. /\ requests' = [requests EXCEPT ![r] = q] /\ stored' = [stored EXCEPT ![a] = new]
        /\ requests[r].at = "sent" /\ requests[r].kind = "save"
        /\ UNCHANGED <<chosen, config, field, unloaded, mixed>>
    BY <1>6 DEF ServeSave
  <2>2. requests[r] \in Asked /\ RequestSound(requests[r], chosen, mixed)
    BY <1>c, <2>1 DEF DeskInv
  <2>3. a \in Desks /\ requests[r].url \in Addresses /\ Meant(requests[r].url, a, mixed)
    BY <2>1, <2>2 DEF Asked, RequestSound
  <2>4. new \in Config /\ Meant(new.url, a, mixed)
    BY <2>3 DEF Config, DeskInv
  <2> HIDE DEF new, a
  <2>5. q \in Replied /\ RequestSound(q, chosen, mixed)
    BY <2>3, <2>4 DEF Replied, RequestSound
  <2> HIDE DEF q
  <2>6. stored' \in [Desks -> Config] /\ \A d \in Desks : Meant(stored'[d].url, d, mixed)
    BY <2>1, <2>3, <2>4 DEF DeskInv
  <2> QED BY <2>1, <2>5, <2>6, Desk_Request DEF DeskInv
<1>7. ASSUME NEW r \in Requests, ServeVerify(r)
      PROVE  DeskInv'
  <2> DEFINE a == requests[r].agent
             q == [requests[r] EXCEPT !.kind = "reread"]
  <2>1. PICK passes \in BOOLEAN : stored' = [stored EXCEPT ![a] = [stored[a] EXCEPT !.live = passes]]
    BY <1>7 DEF ServeVerify
  <2>2. /\ requests' = [requests EXCEPT ![r] = q] /\ requests[r].at = "sent"
        /\ UNCHANGED <<chosen, config, field, unloaded, mixed>>
    BY <1>7 DEF ServeVerify
  <2>3. requests[r] \in Asked /\ a \in Desks
    BY <1>c, <2>2 DEF Asked
  <2>4. q \in Asked /\ q.kind = "reread"
    BY <2>3 DEF Asked
  <2>5. RequestSound(q, chosen, mixed)
    BY <2>4 DEF RequestSound, Asked
  <2>6. [stored[a] EXCEPT !.live = passes] \in Config /\ [stored[a] EXCEPT !.live = passes].url = stored[a].url
    BY <2>3 DEF DeskInv, Config
  <2> HIDE DEF q, a
  <2>7. stored' \in [Desks -> Config] /\ \A d \in Desks : Meant(stored'[d].url, d, mixed)
    BY <2>1, <2>3, <2>6 DEF DeskInv
  <2> QED BY <2>2, <2>4, <2>5, <2>7, Desk_Request DEF DeskInv
<1>8. ASSUME NEW r \in Requests, Answer(r)
      PROVE  DeskInv'
  <2> DEFINE q == requests[r]
  <2>1. /\ requests' = [requests EXCEPT ![r] = Idle] /\ q.at = "answered"
        /\ UNCHANGED <<stored, chosen, mixed>>
    BY <1>8 DEF Answer
  <2>2. q \in Replied /\ RequestSound(q, chosen, mixed)
    BY <1>d, <2>1 DEF DeskInv
  <2>3. q.is.url \in Addresses /\ Meant(q.is.url, q.agent, mixed)
    BY <2>1, <2>2 DEF Replied, Config, RequestSound
  <2>4. CASE Heard(q) /\ q.kind # "poll"
    <3>1. field' = q.is.url /\ unloaded' = (q.kind # "load" /\ q.agent # chosen)
      BY <1>8, <2>4 DEF Answer
    <3>2. q.kind = "load" => q.agent = chosen
      BY <2>2, <2>4 DEF Heard, RequestSound
    <3>3. unloaded' \/ Meant(field', chosen, mixed)
      BY <2>3, <3>1, <3>2
    <3>4. unloaded' \in BOOLEAN
      BY <3>1
    <3> QED BY <1>b, <2>1, <2>3, <3>1, <3>3, <3>4, Desk_Request DEF DeskInv
  <2>5. CASE ~(Heard(q) /\ q.kind # "poll")
    <3>1. UNCHANGED <<field, unloaded>>
      BY <1>8, <2>5 DEF Answer
    <3> QED BY <1>b, <2>1, <3>1, Desk_Request DEF DeskInv
  <2> QED BY <2>4, <2>5
<1>9. ASSUME NEW r \in Requests, Fails(r)
      PROVE  DeskInv'
  BY <1>9, <1>b, Desk_Request DEF Fails, DeskInv
<1>10. ASSUME NEW n \in 0 .. Versions, Type(n)
       PROVE  DeskInv'
  <2>1. field' = Address(chosen, n) /\ unloaded' = FALSE /\ UNCHANGED <<stored, chosen, config, requests, mixed>>
    BY <1>10 DEF Type
  <2>2. Address(chosen, n) \in Addresses /\ Meant(Address(chosen, n), chosen, mixed)
    BY DEF Address, Addresses, Meant, DeskInv
  <2> QED BY <2>1, <2>2 DEF DeskInv
<1>11. CASE UNCHANGED deskVars
  BY <1>11 DEF deskVars, DeskInv
<1> QED BY <1>1, <1>2, <1>3, <1>4, <1>5, <1>6, <1>7, <1>8, <1>9, <1>10, <1>11 DEF DeskNext

\* The server keeps for an agent an address typed for that agent, whatever
\* polls, late answers and saves overlap, but for the two causes named.
THEOREM EndpointsStayApart == Spec => []SavesKeepEndpointsApart
<1>1. Init => DeskInv
  BY StartOfEach, Desk_Init
<1>2. DeskInv /\ [Next]_vars => DeskInv'
  BY StepOfEach, Desk_Step
<1>3. DeskInv => SavesKeepEndpointsApart
  BY DEF DeskInv, SavesKeepEndpointsApart, Meant
<1> QED BY <1>1, <1>2, <1>3, PTL DEF Spec

-----------------------------------------------------------------------------
(* The offerings panel keeps its invariant, and writes what is meant. *)

\* Some call, which ends with it, writes each change of an offering, for the
\* agent whose offering it is.
WritesAreMeant ==
  \A o \in Ids : offerings'[o] # offerings[o] =>
    \E c \in OwnerCalls : /\ calls'[c] # calls[c]
                          /\ calls[c].at \in {"ordered", "found", "compared"}
                          /\ calls[c].agent \in {offerings[o].agent, offerings'[o].agent} \ {"none"}

LEMMA Panel_Init == PanelInit => PanelInv
<1> SUFFICES ASSUME PanelInit PROVE PanelInv
  OBVIOUS
<1>1. selected \in Agents
  BY OfferingsAssumption DEF PanelInit
<1>2. /\ offerings = [o \in Ids |-> IF o > Existing THEN NoOffering
                                    ELSE [agent |-> selected, order |-> o - 1, active |-> TRUE]]
      /\ created = Existing /\ calls = [c \in OwnerCalls |-> Free]
  BY DEF PanelInit, OfferingsInit
<1>3. \A o \in Ids : OfferingRow(offerings[o]) /\ (o > created => offerings[o] = NoOffering)
  BY <1>1, <1>2 DEF OfferingRow, OfferingFields
<1>4. \A c \in OwnerCalls : CallRow(calls[c]) /\ CallSound(calls[c], offerings, created)
  BY <1>2 DEF CallRow, CallSound, Free
<1> QED BY <1>1, <1>2, <1>3, <1>4, OfferingsAssumption DEF PanelInv

\* A step of one call, which leaves every offering its agent's, or takes it away.
LEMMA Panel_Move ==
  ASSUME PanelInv, NEW c \in OwnerCalls, NEW h, Move(c, h), CallRow(h),
         CallSound(h, offerings', created'),
         selected' \in Agents, DOMAIN offerings' = Ids,
         created' \in Nat, created <= created',
         \A o \in Ids : /\ OfferingRow(offerings'[o])
                        /\ o > created' => offerings'[o] = NoOffering
                        /\ o <= created => Owns(offerings[o].agent, offerings'[o])
  PROVE  PanelInv'
<1>1. DOMAIN calls' = OwnerCalls /\ calls'[c] = h
  BY DEF Move, PanelInv
<1>2. ASSUME NEW d \in OwnerCalls PROVE CallRow(calls'[d]) /\ CallSound(calls'[d], offerings', created')
  <2>1. CASE d = c
    BY <1>1, <2>1
  <2>2. CASE d # c
    <3>1. calls'[d] = calls[d] /\ CallRow(calls[d]) /\ CallSound(calls[d], offerings, created)
      BY <2>2 DEF Move, PanelInv
    <3>2. \A a : \A o \in Ids : o <= created /\ Owns(a, offerings[o]) =>
            o <= created' /\ Owns(a, offerings'[o])
      BY DEF Owns, PanelInv, Ids
    <3>3. CallSound(calls[d], offerings', created')
      BY <3>1, <3>2 DEF CallSound
    <3> QED BY <3>1, <3>3
  <2> QED BY <2>1, <2>2
<1> QED BY <1>1, <1>2 DEF PanelInv

\* A step of one call that leaves the offerings alone.
LEMMA Panel_Read ==
  ASSUME PanelInv, NEW c \in OwnerCalls, NEW h, Move(c, h), CallRow(h),
         UNCHANGED <<offerings, created>>, selected' \in Agents,
         CallSound(h, offerings, created)
  PROVE  PanelInv' /\ WritesAreMeant
<1>1. \A o \in Ids : OfferingRow(offerings[o]) /\ Owns(offerings[o].agent, offerings[o])
  BY DEF PanelInv, Owns
<1>2. PanelInv'
  BY <1>1, Panel_Move DEF PanelInv
<1>3. WritesAreMeant
  BY DEF WritesAreMeant
<1> QED BY <1>2, <1>3

LEMMA FreeSound ==
  ASSUME NEW stock, NEW count
  PROVE  CallRow(Free) /\ CallSound(Free, stock, count)
BY DEF CallRow, CallSound, Free

\* A call that is neither done with looking up nor free.
LEMMA CallMoved ==
  ASSUME NEW h, h # Free, CallRow(h), NEW at
  PROVE  LET moved == [h EXCEPT !.at = at]
         IN CallRow(moved) /\ moved.at = at /\ moved.agent = h.agent /\ moved.ids = h.ids
            /\ moved.offering = h.offering
BY DEF CallRow, CallFields

LEMMA NewCallRow ==
  ASSUME NEW kind, NEW a \in Agents, NEW s
  PROVE  LET new == NewCall(kind, a, s)
         IN DOMAIN new = CallFields /\ new.agent = a /\ new.at = "arrives"
BY DEF NewCall, CallFields

LEMMA Accepted ==
  ASSUME PanelInv, NEW c \in OwnerCalls, calls[c] # Free, Accept(c)
  PROVE  \E h : Move(c, h) /\ CallRow(h) /\ h.at \in {"asked", "free"}
<1> DEFINE new == NewCall(calls[c].kind, calls[c].agent, calls[c].slug)
<1>1. calls[c].agent \in Agents
  BY DEF PanelInv, CallRow
<1>2. DOMAIN new = CallFields /\ new.agent \in Agents
  BY <1>1, NewCallRow
<1>3. CASE calls[c].here
  <2> DEFINE h == [new EXCEPT !.at = "asked", !.offering = calls[c].offering, !.open = calls[c].open]
  <2>1. Move(c, h)
    BY <1>3 DEF Accept
  <2> HIDE DEF new
  <2>2. DOMAIN h = CallFields /\ h.agent = new.agent /\ h.at = "asked"
    BY <1>2 DEF CallFields
  <2> HIDE DEF h
  <2> QED BY <1>2, <2>1, <2>2 DEF CallRow
<1>4. CASE ~calls[c].here
  <2>1. Move(c, Free)
    BY <1>4 DEF Accept
  <2> QED BY <2>1 DEF CallRow, Free
<1> QED BY <1>3, <1>4

\* A handler that writes: its call is over, but for the list.
LEMMA Panel_Write ==
  ASSUME PanelInv, NEW c \in OwnerCalls, calls[c] # Free, Accept(c),
         calls[c].at \in {"ordered", "found", "compared"},
         UNCHANGED selected, DOMAIN offerings' = Ids,
         created' \in Nat, created <= created',
         \A o \in Ids : /\ OfferingRow(offerings'[o])
                        /\ o > created' => offerings'[o] = NoOffering
                        /\ o <= created => Owns(offerings[o].agent, offerings'[o]),
         \A o \in Ids : offerings'[o] # offerings[o] =>
                          calls[c].agent \in {offerings[o].agent, offerings'[o].agent}
  PROVE  PanelInv' /\ WritesAreMeant
<1>1. PICK h : Move(c, h) /\ CallRow(h) /\ h.at \in {"asked", "free"}
  BY Accepted
<1>2. CallSound(h, offerings', created')
  BY <1>1 DEF CallSound
<1>3. PanelInv'
  BY <1>1, <1>2, Panel_Move DEF PanelInv
<1>4. calls'[c] # calls[c]
  BY <1>1 DEF Move, PanelInv
<1>5. calls[c].agent \in Agents
  BY DEF PanelInv, CallRow
<1>6. WritesAreMeant
  BY <1>4, <1>5, OfferingsAssumption DEF WritesAreMeant
<1> QED BY <1>3, <1>6

LEMMA Handler_Step ==
  ASSUME PanelInv, NEW c \in OwnerCalls, Handler(c), UNCHANGED selected
  PROVE  PanelInv' /\ WritesAreMeant
<1> DEFINE h == calls[c]
<1>a. CallRow(h) /\ CallSound(h, offerings, created) /\ selected \in Agents
  BY DEF PanelInv
<1>b. h.at # "free" => h # Free
  BY DEF Free
<1>c. ASSUME Refuse(c) PROVE PanelInv' /\ WritesAreMeant
  BY <1>c, FreeSound, Panel_Read DEF Refuse, PanelInv
<1>d. ASSUME NEW at, Proceed(c, at), h # Free, CallSound([h EXCEPT !.at = at], offerings, created)
      PROVE PanelInv' /\ WritesAreMeant
  <2> DEFINE g == [h EXCEPT !.at = at]
  <2>1. CallRow(g)
    BY <1>a, <1>d, CallMoved
  <2>2. Move(c, g) /\ UNCHANGED <<offerings, created>> /\ CallSound(g, offerings, created)
    BY <1>d DEF Proceed
  <2> HIDE DEF g
  <2> QED BY <1>a, <2>1, <2>2, Panel_Read
<1>1. CASE CheckCreate(c)
  <2>1. h # Free
    BY <1>1, <1>b DEF CheckCreate
  <2>2. CallSound([h EXCEPT !.at = "counted"], offerings, created)
    BY <1>a, <2>1, CallMoved DEF CallSound
  <2> QED BY <1>1, <1>c, <1>d, <2>1, <2>2 DEF CheckCreate
<1>2. CASE ReadOrder(c)
  <2> DEFINE g == [h EXCEPT !.at = "ordered", !.order = NextSortOrder(h.agent)]
  <2>1. h # Free
    BY <1>2, <1>b DEF ReadOrder
  <2>2. Move(c, g) /\ UNCHANGED <<offerings, created>>
    BY <1>2 DEF ReadOrder
  <2>3. \A n : LET i == [h EXCEPT !.at = "ordered", !.order = n]
               IN DOMAIN i = CallFields /\ i.agent \in Agents /\ i.at = "ordered"
    BY <1>a, <2>1 DEF CallRow, CallFields
  <2>4. DOMAIN g = CallFields /\ g.agent \in Agents /\ g.at = "ordered"
    BY <2>3
  <2> HIDE DEF g
  <2>5. CallRow(g) /\ CallSound(g, offerings, created)
    BY <2>4 DEF CallRow, CallSound
  <2> QED BY <1>a, <2>2, <2>5, Panel_Read
<1>3. CASE Insert(c)
  <2> DEFINE row == [agent |-> h.agent, order |-> h.order, active |-> h.active]
  <2>1. h.at = "ordered" /\ h # Free
    BY <1>3, <1>b DEF Insert
  <2>2. /\ created < MaxCreated /\ created' = created + 1
        /\ offerings' = [offerings EXCEPT ![created + 1] = row]
        /\ Accept(c)
    BY <1>3 DEF Insert
  <2>3. h.agent \in Agents
    BY <1>a, <2>1 DEF CallRow
  <2>4. OfferingRow(row) /\ row.agent = h.agent
    BY <2>3 DEF OfferingRow, OfferingFields
  <2> HIDE DEF row
  <2>5. created + 1 \in Ids /\ created' \in Nat /\ created <= created'
    BY <2>2, OfferingsAssumption DEF Ids, PanelInv
  <2>6. DOMAIN offerings' = Ids /\ offerings'[created + 1] = row
        /\ \A o \in Ids : o # created + 1 => offerings'[o] = offerings[o]
    BY <2>2, <2>5 DEF PanelInv
  <2>7. \A o \in Ids : /\ OfferingRow(offerings'[o])
                       /\ o > created' => offerings'[o] = NoOffering
                       /\ o <= created => Owns(offerings[o].agent, offerings'[o])
                       /\ offerings'[o] # offerings[o] => h.agent \in {offerings[o].agent, offerings'[o].agent}
    BY <2>2, <2>4, <2>5, <2>6, OfferingsAssumption DEF PanelInv, Owns, Ids
  <2> QED BY <2>1, <2>2, <2>5, <2>6, <2>7, Panel_Write
<1>4. CASE LookUp(c)
  <2> DEFINE row == offerings[h.offering]
  <2>1. h # Free
    BY <1>4, <1>b DEF LookUp
  <2>2. CASE Refuse(c)
    BY <1>c, <2>2
  <2>3. CASE ~Refuse(c)
    <3>1. Proceed(c, "found") /\ row # NoOffering /\ h.agent = row.agent
      BY <1>4, <2>3 DEF LookUp, Signed
    <3>2. h.offering \in Ids => h.offering <= created /\ Owns(h.agent, row)
      BY <3>1 DEF PanelInv, Owns, Ids
    <3>3. CallSound([h EXCEPT !.at = "found"], offerings, created)
      BY <1>a, <2>1, <3>2, CallMoved DEF CallSound
    <3> QED BY <1>d, <2>1, <3>1, <3>3
  <2> QED BY <2>2, <2>3
<1>5. CASE Update(c) \/ Delete(c)
  <2>1. h.at = "found" /\ h # Free
    BY <1>5, <1>b DEF Update, Delete
  <2>2. CASE Refuse(c)
    BY <1>c, <2>2
  <2>3. CASE ~Refuse(c)
    <3> DEFINE o == h.offering
               row == offerings[o]
    <3>1. row # NoOffering /\ Accept(c) /\ created' = created
      BY <1>5, <2>3 DEF Update, Delete
    <3>2. o \in Ids => o <= created /\ Owns(h.agent, row)
      BY <1>a, <2>1 DEF CallSound
    <3>3. o \in Ids => DOMAIN row = OfferingFields /\ row.agent \in Agents /\ row.agent = h.agent
      BY <3>1, <3>2, OfferingsAssumption DEF PanelInv, OfferingRow, Owns
    <3>4. \E new : offerings' = [offerings EXCEPT ![o] = new] /\ (o \in Ids => OfferingRow(new) /\ Owns(h.agent, new))
      <4>1. CASE Update(c)
        <5> DEFINE new == [row EXCEPT !.active = h.active]
        <5>1. offerings' = [offerings EXCEPT ![o] = new]
          BY <2>3, <4>1 DEF Update
        <5>2. o \in Ids => DOMAIN new = OfferingFields /\ new.agent = row.agent
          BY <3>3 DEF OfferingFields
        <5> HIDE DEF new
        <5> QED BY <3>3, <5>1, <5>2 DEF OfferingRow, Owns
      <4>2. CASE Delete(c)
        <5>1. offerings' = [offerings EXCEPT ![o] = NoOffering]
          BY <2>3, <4>2 DEF Delete
        <5>2. OfferingRow(NoOffering) /\ Owns(h.agent, NoOffering)
          BY DEF OfferingRow, Owns, NoOffering
        <5> QED BY <5>1, <5>2
      <4> QED BY <1>5, <4>1, <4>2
    <3>5. DOMAIN offerings' = Ids
      BY <3>4 DEF PanelInv
    <3>6. \A p \in Ids : /\ OfferingRow(offerings'[p])
                         /\ p > created => offerings'[p] = NoOffering
                         /\ p <= created => Owns(offerings[p].agent, offerings'[p])
                         /\ offerings'[p] # offerings[p] => h.agent \in {offerings[p].agent, offerings'[p].agent}
      <4> SUFFICES ASSUME NEW p \in Ids
                   PROVE  /\ OfferingRow(offerings'[p])
                          /\ p > created => offerings'[p] = NoOffering
                          /\ p <= created => Owns(offerings[p].agent, offerings'[p])
                          /\ offerings'[p] # offerings[p] => h.agent \in {offerings[p].agent, offerings'[p].agent}
        OBVIOUS
      <4>1. CASE p = o
        <5>1. OfferingRow(offerings'[p]) /\ Owns(h.agent, offerings'[p])
          BY <3>4, <4>1 DEF PanelInv
        <5>2. p <= created /\ created \in Nat /\ p \in Int
          BY <3>2, <4>1 DEF PanelInv, Ids
        <5> QED BY <3>3, <4>1, <5>1, <5>2 DEF Owns
      <4>2. CASE p # o
        BY <3>4, <4>2 DEF PanelInv, Owns
      <4> QED BY <4>1, <4>2
    <3>7. created' \in Nat /\ created <= created'
      BY <3>1 DEF PanelInv
    <3> QED BY <2>1, <3>1, <3>5, <3>6, <3>7, Panel_Write
  <2> QED BY <2>2, <2>3
<1>6. CASE CheckReorder(c)
  <2>1. h # Free
    BY <1>6, <1>b DEF CheckReorder
  <2>2. CASE Refuse(c)
    BY <1>c, <2>2
  <2>3. CASE ~Refuse(c)
    <3>1. Proceed(c, "compared") /\ ToSet(h.ids) = Own(h.agent)
      BY <1>6, <2>3 DEF CheckReorder, IsReorder
    <3>2. h.agent \in Agents
      BY <1>a, <2>1 DEF CallRow
    <3>3. \A o \in ToSet(h.ids) \cap Ids : o <= created /\ Owns(h.agent, offerings[o])
      BY <3>1, <3>2, OfferingsAssumption DEF Own, Owns, PanelInv, Ids, NoOffering
    <3> DEFINE g == [h EXCEPT !.at = "compared"]
    <3>4. g.at = "compared" /\ g.ids = h.ids /\ g.agent = h.agent
      BY <1>a, <2>1, CallMoved
    <3> HIDE DEF g
    <3>5. CallSound(g, offerings, created)
      BY <3>3, <3>4 DEF CallSound
    <3> QED BY <1>d, <2>1, <3>1, <3>5 DEF g
  <2> QED BY <2>2, <2>3
<1>7. CASE Renumber(c)
  <2>1. h.at = "compared" /\ h # Free
    BY <1>7, <1>b DEF Renumber
  <2>2. CASE Refuse(c)
    BY <1>c, <2>2
  <2>3. CASE ~Refuse(c)
    <3> DEFINE place == [o \in ToSet(h.ids) |-> CHOOSE i \in DOMAIN h.ids : h.ids[i] = o]
               S == ToSet(h.ids)
               new(o) == [offerings[o] EXCEPT !.order = place[o] - 1]
    <3>1. /\ \A o \in S : offerings[o] # NoOffering
          /\ offerings' = [o \in Ids |-> IF o \in S THEN new(o) ELSE offerings[o]]
          /\ Accept(c) /\ created' = created
      BY <1>7, <2>3 DEF Renumber
    <3>2. \A o \in S \cap Ids : o <= created /\ Owns(h.agent, offerings[o])
      BY <1>a, <2>1 DEF CallSound
    <3>3. \A o \in S \cap Ids : DOMAIN offerings[o] = OfferingFields /\ offerings[o].agent = h.agent /\ h.agent \in Agents
      BY <3>1, <3>2, OfferingsAssumption DEF PanelInv, OfferingRow, Owns
    <3>4. \A o \in S \cap Ids : OfferingRow(new(o)) /\ new(o).agent = h.agent
      <4> SUFFICES ASSUME NEW o \in S \cap Ids PROVE OfferingRow(new(o)) /\ new(o).agent = h.agent
        OBVIOUS
      <4>1. \A n : LET row == [offerings[o] EXCEPT !.order = n]
                   IN DOMAIN row = OfferingFields /\ row.agent = offerings[o].agent
        BY <3>3 DEF OfferingFields
      <4>2. DOMAIN new(o) = OfferingFields /\ new(o).agent = offerings[o].agent
        BY <4>1
      <4> HIDE DEF new
      <4> QED BY <3>3, <4>2 DEF OfferingRow
    <3> HIDE DEF new, place, S
    <3>5. DOMAIN offerings' = Ids /\ created' \in Nat /\ created <= created'
      BY <3>1 DEF PanelInv
    <3>6. \A p \in Ids : /\ OfferingRow(offerings'[p])
                         /\ p > created => offerings'[p] = NoOffering
                         /\ p <= created => Owns(offerings[p].agent, offerings'[p])
                         /\ offerings'[p] # offerings[p] => h.agent \in {offerings[p].agent, offerings'[p].agent}
      <4> SUFFICES ASSUME NEW p \in Ids
                   PROVE  /\ OfferingRow(offerings'[p])
                          /\ p > created => offerings'[p] = NoOffering
                          /\ p <= created => Owns(offerings[p].agent, offerings'[p])
                          /\ offerings'[p] # offerings[p] => h.agent \in {offerings[p].agent, offerings'[p].agent}
        OBVIOUS
      <4>1. CASE p \in S
        <5>1. OfferingRow(offerings'[p]) /\ offerings'[p].agent = h.agent /\ offerings[p].agent = h.agent
          BY <3>1, <3>3, <3>4, <4>1
        <5>2. p <= created /\ created \in Nat /\ p \in Int
          BY <3>2, <4>1 DEF PanelInv, Ids
        <5> QED BY <5>1, <5>2 DEF Owns
      <4>2. CASE p \notin S
        BY <3>1, <4>2 DEF PanelInv, Owns
      <4> QED BY <4>1, <4>2
    <3> QED BY <2>1, <3>1, <3>5, <3>6, Panel_Write
  <2> QED BY <2>2, <2>3
<1> QED BY <1>1, <1>2, <1>3, <1>4, <1>5, <1>6, <1>7 DEF Handler

\* A call the panel begins carries what its button says, for the selected agent.
LEMMA Panel_Press ==
  ASSUME PanelInv, NEW c \in OwnerCalls, NEW h, Press(c, h), DOMAIN h = CallFields,
         h.agent \in Agents, h.at = "arrives"
  PROVE  PanelInv' /\ WritesAreMeant
<1>1. CallRow(h) /\ CallSound(h, offerings, created)
  BY DEF CallRow, CallSound
<1> QED BY <1>1, Panel_Read DEF Press, PanelInv

LEMMA Panel_Reload ==
  ASSUME PanelInv, NEW c \in OwnerCalls, NEW a \in Agents, NEW s, ReloadFor(c, a, s)
  PROVE  PanelInv' /\ WritesAreMeant
<1> DEFINE new == NewCall("load", a, s)
           h == [new EXCEPT !.at = "asked"]
<1>1. DOMAIN new = CallFields /\ new.agent = a
  BY NewCallRow
<1>2. Move(c, h) /\ UNCHANGED <<offerings, created>> /\ selected' = a
  BY DEF ReloadFor
<1> HIDE DEF new
<1>3. DOMAIN h = CallFields /\ h.agent = a /\ h.at = "asked"
  BY <1>1 DEF CallFields
<1> HIDE DEF h
<1>4. CallRow(h) /\ CallSound(h, offerings, created)
  BY <1>3 DEF CallRow, CallSound
<1> QED BY <1>2, <1>4, Panel_Read

LEMMA Panel_Step ==
  ASSUME PanelInv, [PanelNext]_panelVars
  PROVE  PanelInv' /\ WritesAreMeant
<1>a. ASSUME UNCHANGED <<offeringVars, selected>> PROVE PanelInv' /\ WritesAreMeant
  BY <1>a DEF offeringVars, PanelInv, WritesAreMeant
<1>b. selected \in Agents
  BY DEF PanelInv
<1>c. ASSUME NEW kind, NEW a \in Agents, NEW s
      PROVE  DOMAIN NewCall(kind, a, s) = CallFields /\ NewCall(kind, a, s).agent = a
             /\ NewCall(kind, a, s).at = "arrives"
  BY NewCallRow
<1>1. ASSUME NEW c \in OwnerCalls, Handler(c), UNCHANGED selected
      PROVE  PanelInv' /\ WritesAreMeant
  BY <1>1, Handler_Step
<1>2. ASSUME NEW c \in OwnerCalls, ReadList(c)
      PROVE  PanelInv' /\ WritesAreMeant
  <2> DEFINE entries == IF Signed(calls[c], calls[c].agent) THEN Entries(calls[c].agent) ELSE <<>>
             h == [calls[c] EXCEPT !.at = "read", !.list = entries]
  <2>1. Move(c, h) /\ UNCHANGED <<offerings, created, selected>> /\ calls[c].at = "asked"
    BY <1>2 DEF ReadList
  <2>2. DOMAIN calls[c] = CallFields /\ calls[c].agent \in Agents
    BY <2>1 DEF PanelInv, CallRow, Free
  <2> HIDE DEF entries
  <2>3. DOMAIN h = CallFields /\ h.agent \in Agents /\ h.at = "read"
    BY <2>2 DEF CallFields
  <2> HIDE DEF h
  <2>4. CallRow(h) /\ CallSound(h, offerings, created)
    BY <2>3 DEF CallRow, CallSound
  <2> QED BY <1>b, <2>1, <2>4, Panel_Read
<1>3. ASSUME NEW c \in OwnerCalls, ShowList(c)
      PROVE  PanelInv' /\ WritesAreMeant
  BY <1>b, <1>3, FreeSound, Panel_Read DEF ShowList
<1>4. ASSUME NEW c \in OwnerCalls, HandleSubmit(c)
      PROVE  PanelInv' /\ WritesAreMeant
  <2> DEFINE new == NewCall(IF editing = 0 THEN "create" ELSE "edit", selected, service)
             h == [new EXCEPT !.offering = editing, !.target = form.target, !.active = form.active]
  <2>1. Press(c, h)
    BY <1>4 DEF HandleSubmit
  <2>2. DOMAIN new = CallFields /\ new.agent = selected /\ new.at = "arrives"
    BY <1>b, <1>c
  <2> HIDE DEF new
  <2>3. DOMAIN h = CallFields /\ h.agent = selected /\ h.at = "arrives"
    BY <2>2 DEF CallFields
  <2> HIDE DEF h
  <2> QED BY <1>b, <2>1, <2>3, Panel_Press
<1>5. ASSUME NEW c \in OwnerCalls, NEW entry, HandleToggle(c, entry)
      PROVE  PanelInv' /\ WritesAreMeant
  <2> DEFINE new == NewCall("toggle", selected, service)
             active == ~entry.active
             h == [new EXCEPT !.offering = entry.id, !.active = active]
  <2>1. Press(c, h)
    BY <1>5 DEF HandleToggle
  <2>2. DOMAIN new = CallFields /\ new.agent = selected /\ new.at = "arrives"
    BY <1>b, <1>c
  <2> HIDE DEF new, active
  <2>3. DOMAIN h = CallFields /\ h.agent = selected /\ h.at = "arrives"
    BY <2>2 DEF CallFields
  <2> HIDE DEF h
  <2> QED BY <1>b, <2>1, <2>3, Panel_Press
<1>6. ASSUME NEW c \in OwnerCalls, NEW entry, HandleDelete(c, entry)
      PROVE  PanelInv' /\ WritesAreMeant
  <2> DEFINE new == NewCall("delete", selected, service)
             open == (editing = entry.id)
             h == [new EXCEPT !.offering = entry.id, !.open = open]
  <2>1. Press(c, h)
    BY <1>6 DEF HandleDelete
  <2>2. DOMAIN new = CallFields /\ new.agent = selected /\ new.at = "arrives"
    BY <1>b, <1>c
  <2> HIDE DEF new, open
  <2>3. DOMAIN h = CallFields /\ h.agent = selected /\ h.at = "arrives"
    BY <2>2 DEF CallFields
  <2> HIDE DEF h
  <2> QED BY <1>b, <2>1, <2>3, Panel_Press
<1>7. ASSUME NEW c \in OwnerCalls, NEW i, HandleReorder(c, i)
      PROVE  PanelInv' /\ WritesAreMeant
  <2> DEFINE new == NewCall("reorder", selected, service)
  <2>1. PICK moved, ids : Press(c, [new EXCEPT !.offering = moved, !.ids = ids])
    BY <1>7 DEF HandleReorder
  <2> DEFINE h == [new EXCEPT !.offering = moved, !.ids = ids]
  <2>2. DOMAIN new = CallFields /\ new.agent = selected /\ new.at = "arrives"
    BY <1>b, <1>c
  <2> HIDE DEF new
  <2>3. DOMAIN h = CallFields /\ h.agent = selected /\ h.at = "arrives"
    BY <2>2 DEF CallFields
  <2> HIDE DEF h
  <2>4. Press(c, h)
    BY <2>1 DEF h
  <2> QED BY <1>b, <2>3, <2>4, Panel_Press
<1>8. ASSUME NEW c \in OwnerCalls, NEW a \in Agents, Select(c, a) \/ ShowConfig(c, a)
      PROVE  PanelInv' /\ WritesAreMeant
  BY <1>b, <1>8, Panel_Reload DEF Select, ShowConfig
<1>9. ASSUME NEW c \in OwnerCalls, NEW a \in Agents, CreateElsewhere(c, a)
      PROVE  PanelInv' /\ WritesAreMeant
  <2> DEFINE new == NewCall("create", a, a)
             h == [new EXCEPT !.here = FALSE]
  <2>1. Press(c, h)
    BY <1>9 DEF CreateElsewhere
  <2>2. DOMAIN new = CallFields /\ new.agent = a /\ new.at = "arrives"
    BY <1>c
  <2> HIDE DEF new
  <2>3. DOMAIN h = CallFields /\ h.agent = a /\ h.at = "arrives"
    BY <2>2 DEF CallFields
  <2> HIDE DEF h
  <2> QED BY <2>1, <2>3, Panel_Press
<1>10. ASSUME NEW entry, HandleEdit(entry)
       PROVE  PanelInv' /\ WritesAreMeant
  BY <1>a, <1>10 DEF HandleEdit
<1>11. CASE ChooseDraft
  BY <1>a, <1>11 DEF ChooseDraft
<1>12. CASE UNCHANGED panelVars
  BY <1>a, <1>12 DEF panelVars
<1> QED BY <1>1, <1>2, <1>3, <1>4, <1>5, <1>6, <1>7, <1>8, <1>9, <1>10, <1>11, <1>12 DEF PanelNext

LEMMA PanelInvariant == Spec => []PanelInv
<1>1. Init => PanelInv
  BY StartOfEach, Panel_Init
<1>2. PanelInv /\ [Next]_vars => PanelInv'
  BY StepOfEach, Panel_Step
<1> QED BY <1>1, <1>2, PTL DEF Spec

\* An offering changes only by a call that the owner made for its agent, for
\* any number of calls under way.
THEOREM WritesMeant == Spec => OfferingWriteIsMeant
<1> DEFINE Owned ==
      \A o \in Ids : offerings'[o] # offerings[o] =>
        \E c \in OwnerCalls : /\ calls'[c] # calls[c]
                              /\ calls[c].at \in {"ordered", "found", "compared"}
                              /\ calls[c].agent \in {offerings[o].agent, offerings'[o].agent} \ {"none"}
<1>1. PanelInv /\ [Next]_vars => [Owned]_offeringVars
  BY StepOfEach, Panel_Step DEF WritesAreMeant
<1> QED BY <1>1, PanelInvariant, PTL DEF Spec, OfferingWriteIsMeant

-----------------------------------------------------------------------------
(* The listing of an agent's offerings keeps the order that was asked for. *)

\* What a write in two statements carries over: a place in the listing, or the
\* ids of offerings, each of them once.
Carries(handler, count) ==
  /\ handler.at = "ordered" => handler.order \in Nat
  /\ handler.at = "compared" =>
       /\ handler.ids \in Seq(Ids) /\ IsInjective(handler.ids)
       /\ \A i \in DOMAIN handler.ids : handler.ids[i] <= count

\* The offerings that were asked for have the places that were asked for, as far
\* as they are still there, and the places of all others come after.
Follows(own, wish, stock) ==
  \A i \in DOMAIN wish : wish[i] \in own =>
    /\ stock[wish[i]].order = i - 1
    /\ \A o \in own \ ToSet(wish) : stock[wish[i]].order < stock[o].order

OrderInv ==
  /\ asked \in [Agents -> Seq(Ids)]
  /\ \A a \in Agents : \A i \in DOMAIN asked[a] : asked[a][i] <= created
  /\ \E n \in Nat : \A o \in Ids : offerings[o] # NoOffering => offerings[o].order \in 0 .. n
  /\ \A c \in OwnerCalls : Carries(calls[c], created)
  /\ \A a \in Agents \ raced : Follows(Own(a), asked[a], offerings)

LEMMA GreatestOf ==
  ASSUME NEW n \in Nat, NEW S \in SUBSET (0 .. n), S # {}
  PROVE  Max(S) \in S /\ \A x \in S : Max(S) >= x
<1> DEFINE T == {n - x : x \in S}
<1>1. T \in SUBSET Nat /\ T # {}
  <2>1. \A x \in S : n - x \in Nat
    OBVIOUS
  <2>2. \E x \in S : TRUE
    OBVIOUS
  <2> QED BY <2>1, <2>2
<1>2. PICK t \in T : \A u \in T : ~(<<u, t>> \in OpToRel(<, Nat))
  BY <1>1, NatLessThanWellFounded, WFMin
<1>3. PICK x \in S : t = n - x
  BY <1>2
<1>4. \A y \in S : x >= y
  <2> TAKE y \in S
  <2>1. n - y \in T /\ x \in Nat /\ y \in Nat
    OBVIOUS
  <2>2. ~(n - y < n - x)
    <3> HIDE DEF T
    <3> QED BY <1>1, <1>2, <1>3, <2>1 DEF OpToRel
  <2> HIDE DEF T
  <2> QED BY <2>1, <2>2
<1> QED BY <1>4 DEF Max

\* A new offering's place is after all places there are.
LEMMA NextIsLast ==
  ASSUME PanelInv, OrderInv, NEW a \in Agents
  PROVE  NextSortOrder(a) \in Nat /\ \A o \in Own(a) : offerings[o].order < NextSortOrder(a)
<1> DEFINE S == {offerings[o].order : o \in Own(a)}
<1>1. PICK n \in Nat : \A o \in Ids : offerings[o] # NoOffering => offerings[o].order \in 0 .. n
  BY DEF OrderInv
<1>2. \A o \in Own(a) : offerings[o] # NoOffering
  BY OfferingsAssumption DEF Own, NoOffering
<1>3. S \in SUBSET (0 .. n)
  BY <1>1, <1>2 DEF Own
<1>4. CASE Own(a) = {}
  BY <1>4 DEF NextSortOrder
<1>5. CASE Own(a) # {}
  <2>1. S # {}
    BY <1>5
  <2>2. NextSortOrder(a) = 1 + Max(S)
    BY <1>5 DEF NextSortOrder
  <2>3. \A o \in Own(a) : offerings[o].order \in S
    OBVIOUS
  <2> HIDE DEF S
  <2>4. Max(S) \in S /\ \A x \in S : Max(S) >= x
    BY <1>3, <2>1, GreatestOf
  <2>a. \A x \in S : x \in 0 .. n
    BY <1>3
  <2>b. \A x \in 0 .. n : x \in Nat
    OBVIOUS
  <2>5. Max(S) \in Nat /\ \A x \in S : x \in Nat
    BY <2>4, <2>a, <2>b
  <2>6. NextSortOrder(a) \in Nat
    BY <2>2, <2>5
  <2>7. ASSUME NEW o \in Own(a) PROVE offerings[o].order < NextSortOrder(a)
    <3>1. offerings[o].order \in Nat /\ Max(S) >= offerings[o].order
      BY <2>3, <2>4, <2>5
    <3> QED BY <2>2, <2>5, <3>1
  <2> QED BY <2>6, <2>7
<1> QED BY <1>4, <1>5

LEMMA Order_Init == PanelInit => OrderInv
<1> SUFFICES ASSUME PanelInit PROVE OrderInv
  OBVIOUS
<1>1. /\ offerings = [o \in Ids |-> IF o > Existing THEN NoOffering
                                    ELSE [agent |-> selected, order |-> o - 1, active |-> TRUE]]
      /\ calls = [c \in OwnerCalls |-> Free] /\ asked = [a \in Agents |-> <<>>]
  BY DEF PanelInit, OfferingsInit
<1>2. \A o \in Ids : offerings[o] # NoOffering => offerings[o].order \in 0 .. MaxCreated
  BY <1>1, OfferingsAssumption DEF Ids
<1>3. \A a \in Agents : asked[a] = <<>> /\ asked[a] \in Seq(Ids) /\ DOMAIN asked[a] = {}
  BY <1>1
<1>4. \A c \in OwnerCalls : Carries(calls[c], created)
  BY <1>1 DEF Carries, Free
<1>5. \A a \in Agents : Follows(Own(a), asked[a], offerings)
  BY <1>3 DEF Follows
<1> QED BY <1>1, <1>2, <1>3, <1>4, <1>5, OfferingsAssumption DEF OrderInv

\* A step of one call that leaves every agent's places as they are, or takes
\* some of them away.
LEMMA Order_Move ==
  ASSUME PanelInv, OrderInv, NEW c \in OwnerCalls, NEW handler, Move(c, handler),
         Carries(handler, created),
         UNCHANGED <<created, asked, raced>>, DOMAIN offerings' = Ids,
         \A o \in Ids : \/ offerings'[o] = NoOffering
                        \/ /\ offerings[o] # NoOffering
                           /\ offerings'[o].agent = offerings[o].agent
                           /\ offerings'[o].order = offerings[o].order
  PROVE  OrderInv'
<1>1. \A d \in OwnerCalls : Carries(calls'[d], created')
  BY DEF Move, PanelInv, OrderInv
<1>2. \E n \in Nat : \A o \in Ids : offerings'[o] # NoOffering => offerings'[o].order \in 0 .. n
  BY DEF OrderInv
<1>3. ASSUME NEW a \in Agents \ raced'
      PROVE  Follows(Own(a)', asked'[a], offerings')
  <2>1. Follows(Own(a), asked[a], offerings)
    BY <1>3 DEF OrderInv
  <2>2. \A o \in Own(a)' : o \in Own(a) /\ offerings'[o].order = offerings[o].order
    BY <1>3, OfferingsAssumption DEF Own, NoOffering
  <2> QED BY <2>1, <2>2 DEF Follows
<1> QED BY <1>1, <1>2, <1>3 DEF OrderInv

LEMMA Order_Read ==
  ASSUME PanelInv, OrderInv, NEW c \in OwnerCalls, NEW handler, Move(c, handler),
         UNCHANGED <<offerings, created, asked, raced>>, Carries(handler, created)
  PROVE  OrderInv'
<1>1. DOMAIN offerings' = Ids
  BY DEF PanelInv
<1> QED BY <1>1, Order_Move

LEMMA Order_Refuse ==
  ASSUME PanelInv, OrderInv, NEW c \in OwnerCalls, Refuse(c)
  PROVE  OrderInv'
<1>1. Carries(Free, created)
  BY DEF Carries, Free
<1> QED BY <1>1, Order_Read DEF Refuse

LEMMA Order_Insert ==
  ASSUME PanelInv, OrderInv, NEW c \in OwnerCalls, Insert(c)
  PROVE  OrderInv'
<1> DEFINE h == calls[c]
           row == [agent |-> h.agent, order |-> h.order, active |-> h.active]
<1>1. /\ h.at = "ordered" /\ created < MaxCreated /\ created' = created + 1
      /\ offerings' = [offerings EXCEPT ![created + 1] = row]
      /\ raced' = IF NextSortOrder(h.agent) > h.order THEN raced \cup {h.agent} ELSE raced
      /\ Accept(c) /\ asked' = asked
  BY DEF Insert
<1>2. h # Free /\ h.agent \in Agents /\ h.order \in Nat
  BY <1>1 DEF PanelInv, CallRow, Free, OrderInv, Carries
<1>3. row.agent = h.agent /\ row.order = h.order
  OBVIOUS
<1> HIDE DEF row
<1>4. created + 1 \in Ids /\ created \in Nat /\ offerings[created + 1] = NoOffering
  BY <1>1, OfferingsAssumption DEF Ids, PanelInv
<1>5. offerings'[created + 1] = row /\ \A o \in Ids : o # created + 1 => offerings'[o] = offerings[o]
  BY <1>1, <1>4 DEF PanelInv
<1>6. \A d \in OwnerCalls : Carries(calls'[d], created')
  <2>1. PICK new : Move(c, new) /\ CallRow(new) /\ new.at \in {"asked", "free"}
    BY <1>1, <1>2, Accepted
  <2>2. Carries(new, created')
    BY <2>1 DEF Carries
  <2>3. ASSUME NEW d \in OwnerCalls, d # c PROVE Carries(calls'[d], created')
    <3>1. calls'[d] = calls[d] /\ Carries(calls[d], created)
      BY <2>1, <2>3 DEF Move, PanelInv, OrderInv
    <3>2. \A o \in Ids : o <= created => o <= created'
      BY <1>1, <1>4 DEF Ids
    <3>3. calls[d].at = "compared" => \A i \in DOMAIN calls[d].ids : calls[d].ids[i] <= created'
      <4> SUFFICES ASSUME calls[d].at = "compared", NEW i \in DOMAIN calls[d].ids
                   PROVE  calls[d].ids[i] <= created'
        OBVIOUS
      <4>1. calls[d].ids \in Seq(Ids) /\ calls[d].ids[i] <= created
        BY <3>1 DEF Carries
      <4>2. calls[d].ids[i] \in Ids
        BY <4>1
      <4> QED BY <3>2, <4>1, <4>2
    <3> QED BY <3>1, <3>3 DEF Carries
  <2>4. calls'[c] = new
    BY <2>1 DEF Move, PanelInv
  <2> QED BY <2>2, <2>3, <2>4
<1>7. \E n \in Nat : \A o \in Ids : offerings'[o] # NoOffering => offerings'[o].order \in 0 .. n
  <2>1. PICK n \in Nat : \A o \in Ids : offerings[o] # NoOffering => offerings[o].order \in 0 .. n
    BY DEF OrderInv
  <2>2. \A o \in Ids : offerings'[o] # NoOffering => offerings'[o].order \in 0 .. (n + h.order)
    BY <1>2, <1>3, <1>5, <2>1
  <2> QED BY <1>2, <2>2
<1>8. \A a \in Agents : asked'[a] = asked[a] /\ \A i \in DOMAIN asked[a] :
        asked[a][i] \in Ids /\ asked[a][i] <= created /\ asked[a][i] <= created' /\ asked[a][i] # created + 1
  <2> TAKE a \in Agents
  <2>1. asked[a] \in Seq(Ids) /\ \A i \in DOMAIN asked[a] : asked[a][i] <= created
    BY DEF OrderInv
  <2>2. \A i \in DOMAIN asked[a] : asked[a][i] \in Ids
    BY <2>1
  <2> QED BY <1>1, <1>4, <2>1, <2>2 DEF Ids
<1>9. ASSUME NEW a \in Agents \ raced'
      PROVE  Follows(Own(a)', asked'[a], offerings')
  <2>1. a \notin raced
    BY <1>1, <1>9
  <2>2. Follows(Own(a), asked[a], offerings)
    BY <2>1 DEF OrderInv
  <2>3. \A o \in Ids : o # created + 1 => (o \in Own(a)' <=> o \in Own(a))
    BY <1>5 DEF Own
  <2>4. created + 1 \in Own(a)' => a = h.agent
    BY <1>3, <1>5 DEF Own
  <2>5. a = h.agent => \A o \in Own(a) : offerings[o].order < h.order
    <3> SUFFICES ASSUME a = h.agent, NEW o \in Own(a) PROVE offerings[o].order < h.order
      OBVIOUS
    <3>1. ~(NextSortOrder(a) > h.order)
      BY <1>1, <1>9
    <3>2. NextSortOrder(a) \in Nat /\ offerings[o].order < NextSortOrder(a)
      BY NextIsLast
    <3>3. offerings[o].order \in Nat
      BY OfferingsAssumption DEF Own, NoOffering, OrderInv
    <3> QED BY <1>2, <3>1, <3>2, <3>3
  <2>6. ASSUME NEW i \in DOMAIN asked[a], asked[a][i] \in Own(a)'
        PROVE  /\ offerings'[asked[a][i]].order = i - 1
               /\ \A o \in Own(a)' \ ToSet(asked[a]) : offerings'[asked[a][i]].order < offerings'[o].order
    <3> DEFINE w == asked[a][i]
    <3>1. w \in Own(a) /\ offerings'[w] = offerings[w]
      BY <1>5, <1>8, <2>3, <2>6
    <3>2. /\ offerings[w].order = i - 1
          /\ \A o \in Own(a) \ ToSet(asked[a]) : offerings[w].order < offerings[o].order
      BY <2>2, <2>6, <3>1 DEF Follows
    <3>3. ASSUME NEW o \in Own(a)' \ ToSet(asked[a])
          PROVE  offerings[w].order < offerings'[o].order
      <4>1. CASE o = created + 1
        BY <1>3, <1>5, <2>4, <2>5, <3>1, <4>1
      <4>2. CASE o # created + 1
        <5>1. o \in Ids
          BY DEF Own
        <5> QED BY <1>5, <2>3, <3>2, <4>2, <5>1
      <4> QED BY <4>1, <4>2
    <3> QED BY <3>1, <3>2, <3>3
  <2> QED BY <1>8, <2>6 DEF Follows
<1> QED BY <1>1, <1>6, <1>7, <1>8, <1>9 DEF OrderInv

LEMMA Order_Renumber ==
  ASSUME PanelInv, OrderInv, NEW c \in OwnerCalls, Renumber(c)
  PROVE  OrderInv'
<1> DEFINE h == calls[c]
           S == ToSet(h.ids)
           place == [o \in S |-> CHOOSE i \in DOMAIN h.ids : h.ids[i] = o]
<1>1. h.at = "compared" /\ h # Free
  BY DEF Renumber, Free
<1>2. CASE Refuse(c)
  BY <1>2, Order_Refuse
<1>3. CASE ~Refuse(c)
  <2>1. /\ \A o \in S : offerings[o] # NoOffering
        /\ offerings' = [o \in Ids |-> IF o \in S THEN [offerings[o] EXCEPT !.order = place[o] - 1] ELSE offerings[o]]
        /\ asked' = [asked EXCEPT ![h.agent] = h.ids]
        /\ raced' = IF S # Own(h.agent) THEN raced \cup {h.agent} ELSE raced
        /\ Accept(c) /\ created' = created
    BY <1>3 DEF Renumber
  <2>2. h.agent \in Agents /\ CallSound(h, offerings, created) /\ Carries(h, created)
    BY <1>1 DEF PanelInv, CallRow, OrderInv
  <2>3. h.ids \in Seq(Ids) /\ IsInjective(h.ids) /\ \A i \in DOMAIN h.ids : h.ids[i] <= created
    BY <1>1, <2>2 DEF Carries
  <2>4. DOMAIN h.ids = 1 .. Len(h.ids) /\ Len(h.ids) \in Nat /\ S \subseteq Ids
    BY <2>3 DEF ToSet
  <2>5. \A o \in S : place[o] \in DOMAIN h.ids /\ h.ids[place[o]] = o
    <3>1. \A o \in S : \E i \in DOMAIN h.ids : h.ids[i] = o
      BY DEF ToSet
    <3> QED BY <3>1
  <2>6. \A i \in DOMAIN h.ids : h.ids[i] \in S /\ place[h.ids[i]] = i
    <3> TAKE i \in DOMAIN h.ids
    <3>1. h.ids[i] \in S
      BY DEF ToSet
    <3> HIDE DEF place, S
    <3> QED BY <2>3, <2>5, <3>1 DEF IsInjective
  <2> HIDE DEF place
  <2>7. \A o \in S : o \in Ids /\ DOMAIN offerings[o] = OfferingFields /\ offerings[o].agent = h.agent
    BY <1>1, <2>1, <2>2, <2>4, OfferingsAssumption DEF CallSound, Owns, PanelInv, OfferingRow
  <2>8. \A o \in S : offerings'[o].agent = h.agent /\ offerings'[o].order = place[o] - 1
    BY <2>1, <2>7 DEF OfferingFields
  <2>9. \A o \in Ids \ S : offerings'[o] = offerings[o]
    BY <2>1
  <2>10. \A a : Own(a)' = Own(a)
    BY <2>7, <2>8, <2>9 DEF Own
  <2>11. \A d \in OwnerCalls : Carries(calls'[d], created')
    <3>1. PICK new : Move(c, new) /\ CallRow(new) /\ new.at \in {"asked", "free"}
      BY <1>1, <2>1, Accepted
    <3>2. Carries(new, created')
      BY <3>1 DEF Carries
    <3> QED BY <2>1, <3>1, <3>2 DEF Move, PanelInv, OrderInv
  <2>12. \E n \in Nat : \A o \in Ids : offerings'[o] # NoOffering => offerings'[o].order \in 0 .. n
    <3>1. PICK n \in Nat : \A o \in Ids : offerings[o] # NoOffering => offerings[o].order \in 0 .. n
      BY DEF OrderInv
    <3>2. \A o \in S : offerings'[o].order \in 0 .. Len(h.ids)
      BY <2>4, <2>5, <2>8
    <3>3. \A o \in Ids : offerings'[o] # NoOffering => offerings'[o].order \in 0 .. (n + Len(h.ids))
      <4> SUFFICES ASSUME NEW o \in Ids, offerings'[o] # NoOffering
                   PROVE  offerings'[o].order \in 0 .. (n + Len(h.ids))
        OBVIOUS
      <4>1. CASE o \in S
        BY <2>4, <3>2, <4>1
      <4>2. CASE o \notin S
        BY <2>4, <2>9, <3>1, <4>2
      <4> QED BY <4>1, <4>2
    <3>4. n + Len(h.ids) \in Nat
      BY <2>4
    <3> HIDE <3>1
    <3> QED BY <3>3, <3>4
  <2>13. /\ asked' \in [Agents -> Seq(Ids)]
         /\ \A a \in Agents : \A i \in DOMAIN asked'[a] : asked'[a][i] <= created'
    BY <2>1, <2>2, <2>3 DEF OrderInv
  <2>14. ASSUME NEW a \in Agents \ raced'
         PROVE  Follows(Own(a)', asked'[a], offerings')
    <3>1. CASE a = h.agent
      <4>1. S = Own(a) /\ asked'[a] = h.ids
        BY <2>1, <2>2, <2>14, <3>1 DEF OrderInv
      <4>2. \A i \in DOMAIN h.ids : offerings'[h.ids[i]].order = i - 1
        BY <2>6, <2>8
      <4> QED BY <2>10, <4>1, <4>2 DEF Follows
    <3>2. CASE a # h.agent
      <4>1. Follows(Own(a), asked[a], offerings) /\ asked'[a] = asked[a]
        BY <2>1, <2>14, <3>2 DEF OrderInv
      <4>2. \A o \in Own(a) : o \in Ids \ S
        BY <2>7, <3>2 DEF Own
      <4>3. \A o \in Own(a) : offerings'[o] = offerings[o]
        BY <2>9, <4>2
      <4> QED BY <2>10, <4>1, <4>3 DEF Follows
    <3> QED BY <3>1, <3>2
  <2> QED BY <2>11, <2>12, <2>13, <2>14 DEF OrderInv
<1> QED BY <1>2, <1>3

LEMMA Order_Handler ==
  ASSUME PanelInv, OrderInv, NEW c \in OwnerCalls, Handler(c)
  PROVE  OrderInv'
<1> DEFINE h == calls[c]
<1>a. CallRow(h) /\ CallSound(h, offerings, created)
  BY DEF PanelInv
<1>b. h.at # "free" => h # Free
  BY DEF Free
<1>c. ASSUME NEW at, at \notin {"ordered", "compared"}, h # Free, Proceed(c, at)
      PROVE  OrderInv'
  <2> DEFINE g == [h EXCEPT !.at = at]
  <2>1. g.at = at
    BY <1>a, <1>c, CallMoved
  <2>2. Move(c, g) /\ UNCHANGED <<offerings, created, asked, raced>>
    BY <1>c DEF Proceed
  <2> HIDE DEF g
  <2>3. Carries(g, created)
    BY <1>c, <2>1 DEF Carries
  <2> QED BY <2>2, <2>3, Order_Read
<1>1. CASE CheckCreate(c)
  BY <1>1, <1>b, <1>c, Order_Refuse DEF CheckCreate
<1>2. CASE ReadOrder(c)
  <2> DEFINE g == [h EXCEPT !.at = "ordered", !.order = NextSortOrder(h.agent)]
  <2>1. DOMAIN h = CallFields /\ h.agent \in Agents
    BY <1>2, <1>a, <1>b DEF ReadOrder, CallRow
  <2>2. \A n : LET i == [h EXCEPT !.at = "ordered", !.order = n] IN i.at = "ordered" /\ i.order = n
    BY <2>1 DEF CallFields
  <2>3. g.at = "ordered" /\ g.order = NextSortOrder(h.agent)
    BY <2>2
  <2>4. Move(c, g) /\ UNCHANGED <<offerings, created, asked, raced>>
    BY <1>2 DEF ReadOrder
  <2> HIDE DEF g
  <2>5. Carries(g, created)
    BY <2>1, <2>3, NextIsLast DEF Carries
  <2> QED BY <2>4, <2>5, Order_Read
<1>3. CASE Insert(c)
  BY <1>3, Order_Insert
<1>4. CASE LookUp(c)
  BY <1>4, <1>b, <1>c, Order_Refuse DEF LookUp
<1>5. CASE Update(c) \/ Delete(c)
  <2>1. h # Free
    BY <1>5, <1>b DEF Update, Delete
  <2>2. CASE Refuse(c)
    BY <2>2, Order_Refuse
  <2>3. CASE ~Refuse(c)
    <3> DEFINE o == h.offering
    <3>1. /\ offerings[o] # NoOffering /\ Accept(c) /\ UNCHANGED <<created, asked, raced>>
          /\ \/ offerings' = [offerings EXCEPT ![o].active = h.active]
             \/ offerings' = [offerings EXCEPT ![o] = NoOffering]
      BY <1>5, <2>3 DEF Update, Delete
    <3>2. DOMAIN offerings' = Ids
      BY <3>1 DEF PanelInv
    <3>3. o \in Ids => DOMAIN offerings[o] = OfferingFields
      BY <3>1 DEF PanelInv, OfferingRow
    <3>4. \A p \in Ids : \/ offerings'[p] = NoOffering
                         \/ /\ offerings[p] # NoOffering
                            /\ offerings'[p].agent = offerings[p].agent
                            /\ offerings'[p].order = offerings[p].order
                         \/ offerings'[p] = offerings[p]
      BY <3>1, <3>3 DEF PanelInv, OfferingFields
    <3>5. PICK new : Move(c, new) /\ CallRow(new) /\ new.at \in {"asked", "free"}
      BY <2>1, <3>1, Accepted
    <3>6. Carries(new, created)
      BY <3>5 DEF Carries
    <3> QED BY <3>1, <3>2, <3>4, <3>5, <3>6, Order_Move
  <2> QED BY <2>2, <2>3
<1>6. CASE CheckReorder(c)
  <2>1. h # Free
    BY <1>6, <1>b DEF CheckReorder
  <2>2. CASE Refuse(c)
    BY <2>2, Order_Refuse
  <2>3. CASE ~Refuse(c)
    <3>1. Proceed(c, "compared") /\ h.ids \in Seq(Ids) /\ IsInjective(h.ids) /\ ToSet(h.ids) = Own(h.agent)
      BY <1>6, <2>3 DEF CheckReorder, IsReorder
    <3>2. h.agent \in Agents
      BY <1>a, <2>1 DEF CallRow
    <3>3. \A i \in DOMAIN h.ids : h.ids[i] <= created
      <4> TAKE i \in DOMAIN h.ids
      <4>1. h.ids[i] \in Own(h.agent)
        BY <3>1 DEF ToSet
      <4>2. h.ids[i] \in Ids /\ offerings[h.ids[i]] # NoOffering
        BY <3>2, <4>1, OfferingsAssumption DEF Own, NoOffering
      <4> QED BY <4>2 DEF PanelInv, Ids
    <3> DEFINE g == [h EXCEPT !.at = "compared"]
    <3>4. g.at = "compared" /\ g.ids = h.ids
      BY <1>a, <2>1, CallMoved
    <3>5. Move(c, g) /\ UNCHANGED <<offerings, created, asked, raced>>
      BY <3>1 DEF Proceed
    <3> HIDE DEF g
    <3>6. Carries(g, created)
      BY <3>1, <3>3, <3>4 DEF Carries
    <3> QED BY <3>5, <3>6, Order_Read
  <2> QED BY <2>2, <2>3
<1>7. CASE Renumber(c)
  BY <1>7, Order_Renumber
<1> QED BY <1>1, <1>2, <1>3, <1>4, <1>5, <1>6, <1>7 DEF Handler

LEMMA Order_Press ==
  ASSUME PanelInv, OrderInv, NEW c \in OwnerCalls, NEW handler, Press(c, handler), handler.at = "arrives"
  PROVE  OrderInv'
<1>1. Carries(handler, created)
  BY DEF Carries
<1> QED BY <1>1, Order_Read DEF Press

\* Whatever else the panel and the other tab do, no place changes.
LEMMA Order_Step ==
  ASSUME PanelInv, OrderInv, [PanelNext]_panelVars
  PROVE  OrderInv'
<1>a. ASSUME UNCHANGED offeringVars PROVE OrderInv'
  <2>1. \A a : Own(a)' = Own(a)
    BY <1>a DEF offeringVars, Own
  <2> QED BY <1>a, <2>1 DEF offeringVars, OrderInv
<1>b. selected \in Agents
  BY DEF PanelInv
<1>1. ASSUME NEW c \in OwnerCalls, Handler(c)
      PROVE  OrderInv'
  BY <1>1, Order_Handler
<1>2. ASSUME NEW c \in OwnerCalls, ReadList(c)
      PROVE  OrderInv'
  <2> DEFINE entries == IF Signed(calls[c], calls[c].agent) THEN Entries(calls[c].agent) ELSE <<>>
             h == [calls[c] EXCEPT !.at = "read", !.list = entries]
  <2>1. Move(c, h) /\ UNCHANGED <<offerings, created, asked, raced>> /\ calls[c].at = "asked"
    BY <1>2 DEF ReadList
  <2>2. DOMAIN calls[c] = CallFields
    BY <2>1 DEF PanelInv, CallRow, Free
  <2> HIDE DEF entries
  <2>3. h.at = "read"
    BY <2>2 DEF CallFields
  <2> HIDE DEF h
  <2>4. Carries(h, created)
    BY <2>3 DEF Carries
  <2> QED BY <2>1, <2>4, Order_Read
<1>3. ASSUME NEW c \in OwnerCalls, ShowList(c)
      PROVE  OrderInv'
  <2>1. Carries(Free, created)
    BY DEF Carries, Free
  <2> QED BY <1>3, <2>1, Order_Read DEF ShowList
<1>4. ASSUME NEW c \in OwnerCalls, HandleSubmit(c)
      PROVE  OrderInv'
  <2> DEFINE new == NewCall(IF editing = 0 THEN "create" ELSE "edit", selected, service)
             h == [new EXCEPT !.offering = editing, !.target = form.target, !.active = form.active]
  <2>1. Press(c, h)
    BY <1>4 DEF HandleSubmit
  <2>2. DOMAIN new = CallFields /\ new.at = "arrives"
    BY <1>b, NewCallRow
  <2> HIDE DEF new
  <2>3. h.at = "arrives"
    BY <2>2 DEF CallFields
  <2> HIDE DEF h
  <2> QED BY <2>1, <2>3, Order_Press
<1>5. ASSUME NEW c \in OwnerCalls, NEW entry, HandleToggle(c, entry)
      PROVE  OrderInv'
  <2> DEFINE new == NewCall("toggle", selected, service)
             active == ~entry.active
             h == [new EXCEPT !.offering = entry.id, !.active = active]
  <2>1. Press(c, h)
    BY <1>5 DEF HandleToggle
  <2>2. DOMAIN new = CallFields /\ new.at = "arrives"
    BY <1>b, NewCallRow
  <2> HIDE DEF new, active
  <2>3. h.at = "arrives"
    BY <2>2 DEF CallFields
  <2> HIDE DEF h
  <2> QED BY <2>1, <2>3, Order_Press
<1>6. ASSUME NEW c \in OwnerCalls, NEW entry, HandleDelete(c, entry)
      PROVE  OrderInv'
  <2> DEFINE new == NewCall("delete", selected, service)
             open == (editing = entry.id)
             h == [new EXCEPT !.offering = entry.id, !.open = open]
  <2>1. Press(c, h)
    BY <1>6 DEF HandleDelete
  <2>2. DOMAIN new = CallFields /\ new.at = "arrives"
    BY <1>b, NewCallRow
  <2> HIDE DEF new, open
  <2>3. h.at = "arrives"
    BY <2>2 DEF CallFields
  <2> HIDE DEF h
  <2> QED BY <2>1, <2>3, Order_Press
<1>7. ASSUME NEW c \in OwnerCalls, NEW i, HandleReorder(c, i)
      PROVE  OrderInv'
  <2> DEFINE new == NewCall("reorder", selected, service)
  <2>1. PICK moved, ids : Press(c, [new EXCEPT !.offering = moved, !.ids = ids])
    BY <1>7 DEF HandleReorder
  <2> DEFINE h == [new EXCEPT !.offering = moved, !.ids = ids]
  <2>2. DOMAIN new = CallFields /\ new.at = "arrives"
    BY <1>b, NewCallRow
  <2> HIDE DEF new
  <2>3. h.at = "arrives"
    BY <2>2 DEF CallFields
  <2> HIDE DEF h
  <2>4. Press(c, h)
    BY <2>1 DEF h
  <2> QED BY <2>3, <2>4, Order_Press
<1>8. ASSUME NEW c \in OwnerCalls, NEW a \in Agents, Select(c, a) \/ ShowConfig(c, a)
      PROVE  OrderInv'
  <2>1. PICK b \in Agents, s \in {service, a} : ReloadFor(c, b, s)
    BY <1>8, <1>b DEF Select, ShowConfig
  <2> DEFINE new == NewCall("load", b, s)
             h == [new EXCEPT !.at = "asked"]
  <2>2. DOMAIN new = CallFields
    BY NewCallRow
  <2>3. Move(c, h) /\ UNCHANGED <<offerings, created, asked, raced>>
    BY <2>1 DEF ReloadFor
  <2> HIDE DEF new
  <2>4. h.at = "asked"
    BY <2>2 DEF CallFields
  <2> HIDE DEF h
  <2>5. Carries(h, created)
    BY <2>4 DEF Carries
  <2> QED BY <2>3, <2>5, Order_Read
<1>9. ASSUME NEW c \in OwnerCalls, NEW a \in Agents, CreateElsewhere(c, a)
      PROVE  OrderInv'
  <2> DEFINE new == NewCall("create", a, a)
             h == [new EXCEPT !.here = FALSE]
  <2>1. Press(c, h)
    BY <1>9 DEF CreateElsewhere
  <2>2. DOMAIN new = CallFields /\ new.at = "arrives"
    BY NewCallRow
  <2> HIDE DEF new
  <2>3. h.at = "arrives"
    BY <2>2 DEF CallFields
  <2> HIDE DEF h
  <2> QED BY <2>1, <2>3, Order_Press
<1>10. ASSUME NEW entry, HandleEdit(entry)
       PROVE  OrderInv'
  BY <1>a, <1>10 DEF HandleEdit
<1>11. CASE ChooseDraft
  BY <1>a, <1>11 DEF ChooseDraft
<1>12. CASE UNCHANGED panelVars
  BY <1>a, <1>12 DEF panelVars
<1> QED BY <1>1, <1>2, <1>3, <1>4, <1>5, <1>6, <1>7, <1>8, <1>9, <1>10, <1>11, <1>12 DEF PanelNext

\* Of two offerings whose order was asked for the first has the lower number,
\* and one that was not asked for has a higher one.
LEMMA FollowedOrder ==
  ASSUME PanelInv, OrderInv
  PROVE  AskedOrderFirst
<1> SUFFICES ASSUME NEW a \in Agents \ raced, NEW i \in DOMAIN asked[a], NEW o \in Own(a),
                    asked[a][i] \in Own(a)
             PROVE  Before(asked[a][i], o) \/ \E j \in 1 .. i : asked[a][j] = o
  BY DEF AskedOrderFirst
<1>1. Follows(Own(a), asked[a], offerings) /\ DOMAIN asked[a] = 1 .. Len(asked[a]) /\ Len(asked[a]) \in Nat
  BY DEF OrderInv
<1>2. CASE o \notin ToSet(asked[a])
  BY <1>1, <1>2 DEF Follows, Before
<1>3. CASE o \in ToSet(asked[a])
  <2>1. PICK j \in DOMAIN asked[a] : asked[a][j] = o
    BY <1>3 DEF ToSet
  <2>2. offerings[asked[a][i]].order = i - 1 /\ offerings[o].order = j - 1
    BY <1>1, <2>1 DEF Follows
  <2>3. i \in Nat /\ j \in Nat /\ j >= 1
    BY <1>1, <2>1
  <2>4. CASE j <= i
    BY <2>1, <2>3, <2>4
  <2>5. CASE ~(j <= i)
    BY <2>2, <2>3, <2>5 DEF Before
  <2> QED BY <2>4, <2>5
<1> QED BY <1>2, <1>3

\* An agent's page follows the order that was asked for, for any number of
\* offerings and of calls that overlap, but for the two races named.
THEOREM OrderIsKept == Spec => []AskedOrderFirst
<1>1. Init => OrderInv
  BY StartOfEach, Order_Init
<1>2. PanelInv /\ OrderInv /\ [Next]_vars => OrderInv'
  BY StepOfEach, Order_Step
<1>3. PanelInv /\ OrderInv => AskedOrderFirst
  BY FollowedOrder
<1> QED BY <1>1, <1>2, <1>3, PanelInvariant, PTL DEF Spec

-----------------------------------------------------------------------------
(* The deposit form keeps its invariant. *)

LEMMA Page_Numbers ==
  /\ LastBlock \in Nat /\ Window \in Nat /\ Window >= 1
  /\ Nothing = -1 /\ Depositor \in Accounts
BY DepositPageAssumption DEF Nothing

LEMMA RestingSound ==
  ASSUME NEW block, NEW stock, NEW times
  PROVE  SyncRow(Resting) /\ SyncSound(Resting, block, stock, times)
BY DEF Resting, SyncRow, SyncSound

LEMMA NewSyncSound ==
  ASSUME NEW kind \in {"poll", "loop"}, NEW w \in Accounts, NEW block, NEW b, NEW stock, NEW times,
         kind = "poll" => b = Nothing,
         kind = "loop" => b = block /\ block # Nothing
  PROVE  SyncRow(NewSync(kind, w, b)) /\ SyncSound(NewSync(kind, w, b), block, stock, times)
<1>1. DOMAIN NewSync(kind, w, b) = SyncFields
  BY DEF NewSync, SyncFields
<1> QED BY <1>1 DEF NewSync, SyncRow, SyncSound, FoundSound

\* What holds of a sync holds later: a deposit stays one, and credited.
LEMMA SyncLater ==
  ASSUME NEW sync, NEW block, NEW stock, NEW times, NEW later, NEW timesLater,
         SyncSound(sync, block, stock, times), stock \subseteq later,
         block # Nothing /\ times[block] >= 1 => timesLater[block] >= 1
  PROVE  SyncSound(sync, block, later, timesLater)
BY DEF SyncSound, FoundSound, AnswerSound

LEMMA Page_Init == PageInit => PageInv
<1> SUFFICES ASSUME PageInit PROVE PageInv
  OBVIOUS
<1>1. tip \in Blocks /\ credited \in [Blocks -> Nat]
  BY Page_Numbers DEF PageInit, Blocks
<1>2. cursors \in [Accounts -> 0 .. tip] /\ reached \in [Accounts -> 0 .. tip]
  BY DEF PageInit
<1> QED BY <1>1, <1>2, Page_Numbers, RestingSound DEF PageInit, PageInv

\* A step of one sync that leaves the chain and the ledger alone.
LEMMA Page_Sync ==
  ASSUME PageInv, NEW s \in Syncs, NEW sync, Put(s, sync), UNCHANGED <<chain, ledger, target>>,
         address' \in Accounts, SyncRow(sync), SyncSound(sync, target, deposits, credited),
         creditSyncState' = "synced" /\ ~excused' => target # Nothing /\ credited[target] >= 1
  PROVE  PageInv'
BY DEF PageInv, Put, chain, ledger

\* A step of the server: what it scans joins what is credited, and nothing is
\* passed over.
LEMMA Step_Sound ==
  ASSUME PageInv, NEW w \in Accounts, NEW named, NEW latest \in 0 .. tip,
         named = Nothing \/ named \in deposits
  PROVE  LET step == ServerStep(w, named, latest)
         IN  /\ step.cursor \in 0 .. tip /\ step.reached \in 0 .. tip
             /\ step.scanned \subseteq deposits
             /\ w # Depositor => step.scanned = {}
             /\ w = Depositor =>
                  \A b \in deposits : b <= step.cursor \/ b <= step.reached =>
                                        b \in step.scanned \/ credited[b] >= 1
             /\ named # Nothing => \A b \in step.scanned : b <= named
             /\ w = Depositor /\ named # Nothing /\ latest >= named
                  /\ (~step.partial \/ step.cursor >= named) =>
                    named \in step.scanned \/ credited[named] >= 1
<1> DEFINE effective == IF named = Nothing THEN latest ELSE Lower(named, latest)
           recovered == Higher(cursors[w], reached[w])
           ahead == recovered > effective
           anchor == IF named = Nothing THEN effective ELSE named
           from == IF ahead THEN Higher(1, anchor - (Window - 1)) ELSE recovered + 1
           to == Lower(from + Window - 1, effective)
           synced == IF from <= to THEN to ELSE IF ahead THEN 0 ELSE recovered
           scanned == IF w = Depositor THEN deposits \cap (from .. to) ELSE {}
           step == ServerStep(w, named, latest)
<1>1. /\ step.cursor = IF synced > cursors[w] \/ ahead THEN synced ELSE cursors[w]
      /\ step.reached = IF scanned = {} THEN reached[w] ELSE Higher(reached[w], Higher(synced, cursors[w]))
      /\ step.scanned = scanned
      /\ step.partial = (from <= to /\ to < latest)
  BY DEF ServerStep
<1>2. /\ tip \in Nat /\ deposits \subseteq 1 .. tip /\ latest \in Nat /\ latest <= tip
      /\ cursors[w] \in 0 .. tip /\ reached[w] \in 0 .. tip
  BY Page_Numbers DEF PageInv, Blocks
<1>3. w = Depositor => \A b \in deposits : b <= cursors[w] \/ b <= reached[w] => credited[b] >= 1
  BY <1>2 DEF PageInv, Ahead
<1>4. named = Nothing \/ named \in 1 .. tip
  BY <1>2
<1>5. /\ effective \in 0 .. tip /\ effective <= latest
      /\ named # Nothing => effective <= named
      /\ named # Nothing /\ latest >= named => effective = named
  BY <1>2, <1>4 DEF Lower
<1>6. recovered \in 0 .. tip /\ recovered >= cursors[w] /\ recovered >= reached[w]
      /\ recovered \in {cursors[w], reached[w]}
  BY <1>2 DEF Higher
<1> HIDE DEF effective, recovered
<1>7. anchor \in Int
  BY <1>4, <1>5
<1>8. from \in Int /\ from >= 1 /\ (~ahead => from = recovered + 1)
  BY <1>6, <1>7, Page_Numbers DEF Higher
<1> HIDE DEF anchor, from
<1>9. to \in Int /\ to <= effective /\ (to = effective \/ to >= from)
  BY <1>5, <1>8, Page_Numbers DEF Lower
<1> HIDE DEF to
<1>10. synced \in 0 .. tip /\ (synced > recovered => synced = to /\ from <= to /\ ~ahead)
  <2>1. CASE from <= to
    BY <1>2, <1>5, <1>6, <1>8, <1>9, <2>1
  <2>2. CASE ~(from <= to)
    BY <1>2, <1>6, <2>2
  <2> QED BY <2>1, <2>2
<1>11. w = Depositor => \A b \in deposits : b <= recovered => credited[b] >= 1
  BY <1>3, <1>6
<1>12. w = Depositor => \A b \in deposits : b <= synced => b \in scanned \/ credited[b] >= 1
  <2> SUFFICES ASSUME w = Depositor, NEW b \in deposits, b <= synced, ~(b <= recovered)
               PROVE  b \in scanned
    BY <1>11
  <2>1. b \in Int /\ synced > recovered
    BY <1>2, <1>6, <1>10
  <2>2. from <= b /\ b <= to
    BY <1>6, <1>8, <1>10, <2>1
  <2> QED BY <1>8, <1>9, <2>1, <2>2
<1> HIDE DEF synced
<1>13. step.cursor \in 0 .. tip /\ step.reached \in 0 .. tip
  BY <1>1, <1>2, <1>10 DEF Higher
<1>14. \A b \in deposits : b <= step.cursor \/ b <= step.reached => b <= synced \/ b <= recovered
  BY <1>1, <1>2, <1>6, <1>10 DEF Higher
<1>15. w = Depositor =>
         \A b \in deposits : b <= step.cursor \/ b <= step.reached => b \in step.scanned \/ credited[b] >= 1
  BY <1>1, <1>11, <1>12, <1>14
<1>16. named # Nothing => \A b \in step.scanned : b <= named
  BY <1>1, <1>2, <1>4, <1>5, <1>8, <1>9
<1>17. ASSUME w = Depositor, named # Nothing, latest >= named, ~step.partial \/ step.cursor >= named
       PROVE  named \in step.scanned \/ credited[named] >= 1
  <2>1. effective = named /\ named \in deposits /\ named \in Int
    BY <1>4, <1>5, <1>17
  <2>2. CASE step.cursor >= named
    BY <1>13, <1>15, <1>17, <2>1, <2>2
  <2>3. CASE ~step.partial
    <3>1. CASE from <= to
      <4>0. ~(to < latest)
        BY <1>1, <2>3, <3>1
      <4>1. to = named
        BY <1>2, <1>9, <1>17, <2>1, <4>0
      <4> QED BY <1>1, <1>8, <1>17, <2>1, <3>1, <4>1
    <3>2. CASE ~(from <= to)
      <4>1. named <= recovered
        BY <1>6, <1>8, <1>9, <2>1, <3>2
      <4> QED BY <1>11, <1>17, <2>1, <4>1
    <3> QED BY <3>1, <3>2
  <2> QED BY <1>17, <2>2, <2>3
<1>18. step.scanned \subseteq deposits /\ (w # Depositor => step.scanned = {})
  BY <1>1
<1> HIDE DEF step
<1> QED BY <1>13, <1>15, <1>16, <1>17, <1>18 DEF step

LEMMA Page_Serve ==
  ASSUME PageInv, NEW s \in Syncs, NEW lag \in 0 .. MaxLag, Serve(s, lag)
  PROVE  PageInv'
<1> DEFINE sync == syncs[s]
           latest == tip - lag
           step == ServerStep(sync.of, sync.target, latest)
           found == sync.found \/ step.scanned # {}
           sum == FoldFunctionOnSet(+, 0, credited', IF sync.of = Depositor THEN Blocks ELSE {})
           answer == [kind |-> sync.kind, at |-> "answered", of |-> sync.of, target |-> sync.target,
                      active |-> sync.active, attempt |-> sync.attempt, found |-> found,
                      cursor |-> step.cursor, partial |-> step.partial, latest |-> latest,
                      credits |-> sum]
           next == [sync EXCEPT !.steps = sync.steps + 1, !.previous = step.cursor, !.found = found]
<1>1. /\ sync.at = "sent" /\ latest >= 0
      /\ cursors' = [cursors EXCEPT ![sync.of] = step.cursor]
      /\ reached' = [reached EXCEPT ![sync.of] = step.reached]
      /\ credited' = [b \in Blocks |-> credited[b] + IF b \in step.scanned THEN 1 ELSE 0]
      /\ Put(s, IF LastStepOf(sync, step.cursor) THEN answer ELSE next)
      /\ UNCHANGED <<tip, deposits, target, address, creditSyncState, excused>>
  BY DEF Serve, chain, page
<1>2. /\ SyncRow(sync) /\ SyncSound(sync, target, deposits, credited)
      /\ sync.kind \in {"poll", "loop"} /\ sync.of \in Accounts /\ DOMAIN sync = SyncFields
  <2>1. SyncRow(sync) /\ SyncSound(sync, target, deposits, credited)
    BY DEF PageInv
  <2>2. sync.at = "sent"
    BY <1>1
  <2> HIDE DEF sync
  <2> QED BY <2>1, <2>2 DEF SyncRow, Resting
<1>3. sync.target = Nothing \/ sync.target \in deposits
  <2>1. target = Nothing \/ target \in deposits
    BY DEF PageInv
  <2>2. sync.at = "sent"
    BY <1>1
  <2> HIDE DEF sync
  <2> QED BY <1>2, <2>1, <2>2 DEF SyncSound
<1>4. latest \in 0 .. tip
  <2>1. tip \in Nat /\ lag \in Nat /\ latest = tip - lag
    BY Page_Numbers, DepositPageAssumption DEF PageInv, Blocks
  <2>2. latest >= 0
    BY <1>1
  <2> HIDE DEF latest
  <2> QED BY <2>1, <2>2
<1>5. /\ step.cursor \in 0 .. tip /\ step.reached \in 0 .. tip
      /\ step.scanned \subseteq deposits
      /\ sync.of # Depositor => step.scanned = {}
      /\ sync.of = Depositor =>
           \A b \in deposits : b <= step.cursor \/ b <= step.reached => b \in step.scanned \/ credited[b] >= 1
      /\ sync.target # Nothing => \A b \in step.scanned : b <= sync.target
      /\ sync.of = Depositor /\ sync.target # Nothing /\ latest >= sync.target
           /\ (~step.partial \/ step.cursor >= sync.target) =>
             sync.target \in step.scanned \/ credited[sync.target] >= 1
  BY <1>2, <1>3, <1>4, Step_Sound
<1> HIDE DEF step, sum
<1>6. deposits \subseteq Blocks /\ credited \in [Blocks -> Nat]
  BY Page_Numbers DEF PageInv, Blocks
<1>7. credited' \in [Blocks -> Nat]
      /\ \A b \in Blocks : credited'[b] >= credited[b] /\ (b \in step.scanned => credited'[b] >= 1)
  BY <1>1, <1>6
<1>8. cursors' \in [Accounts -> 0 .. tip] /\ reached' \in [Accounts -> 0 .. tip]
  BY <1>1, <1>2, <1>5 DEF PageInv
<1>9. \A b \in deposits : Ahead(b, cursors', reached') \/ credited'[b] >= 1
  <2> SUFFICES ASSUME NEW b \in deposits, ~Ahead(b, cursors', reached') PROVE credited'[b] >= 1
    OBVIOUS
  <2>1. b \in Blocks /\ b \in Int
    BY <1>6 DEF Blocks
  <2>2. b <= cursors'[Depositor] \/ b <= reached'[Depositor]
    BY <1>8, <2>1, Page_Numbers DEF Ahead, PageInv, Blocks
  <2>3. CASE sync.of = Depositor
    <3>1. cursors'[Depositor] = step.cursor /\ reached'[Depositor] = step.reached
      BY <1>1, <2>3, Page_Numbers DEF PageInv
    <3>2. b \in step.scanned \/ credited[b] >= 1
      BY <1>5, <2>2, <2>3, <3>1
    <3> QED BY <1>6, <1>7, <2>1, <3>2
  <2>4. CASE sync.of # Depositor
    <3>1. cursors'[Depositor] = cursors[Depositor] /\ reached'[Depositor] = reached[Depositor]
      BY <1>1, <2>4, Page_Numbers DEF PageInv
    <3>2. credited[b] >= 1
      BY <1>8, <2>1, <2>2, <3>1, Page_Numbers DEF PageInv, Ahead, Blocks
    <3> QED BY <1>6, <1>7, <2>1, <3>2
  <2> QED BY <2>3, <2>4
<1>10. target # Nothing => target \in Blocks /\ target \in deposits
  BY <1>6 DEF PageInv
<1>11. target # Nothing /\ credited[target] >= 1 => credited'[target] >= 1
  BY <1>6, <1>7, <1>10
<1>12. ASSUME sync.kind = "loop", sync.of = Depositor, found
       PROVE  credited'[sync.target] >= 1 \/ \E b \in deposits : b < sync.target
  <2>1. sync.target = target /\ target # Nothing
    BY <1>2, <1>12 DEF SyncSound
  <2>2. CASE sync.found
    BY <1>2, <1>11, <1>12, <2>1, <2>2 DEF SyncSound, FoundSound
  <2>3. CASE step.scanned # {}
    <3>1. PICK b \in step.scanned : TRUE
      BY <2>3
    <3>2. b \in deposits /\ b <= sync.target
      BY <1>5, <2>1, <3>1
    <3>5. b \in Int
      BY <1>6, <3>2 DEF Blocks
    <3>3. CASE b = sync.target
      BY <1>6, <1>7, <3>1, <3>2, <3>3
    <3>4. CASE b # sync.target
      <4>1. sync.target \in Int
        BY <1>10, <2>1 DEF Blocks
      <4> QED BY <3>2, <3>4, <3>5, <4>1
    <3> QED BY <3>3, <3>4
  <2> QED BY <1>12, <2>2, <2>3
<1>13. ASSUME sync.kind = "loop", sync.of = Depositor, latest >= sync.target,
              ~step.partial \/ step.cursor >= sync.target
       PROVE  credited'[sync.target] >= 1
  <2>1. sync.target = target /\ target # Nothing /\ target \in Blocks
    BY <1>2, <1>10, <1>13 DEF SyncSound
  <2>2. sync.target \in step.scanned \/ credited[sync.target] >= 1
    BY <1>5, <1>13, <2>1
  <2> QED BY <1>7, <1>11, <2>1, <2>2
<1> DEFINE after == IF LastStepOf(sync, step.cursor) THEN answer ELSE next
<1>14. SyncRow(after) /\ SyncSound(after, target, deposits, credited')
  <2>1. CASE LastStepOf(sync, step.cursor)
    <3>1. \A n : DOMAIN [kind |-> sync.kind, at |-> "answered", of |-> sync.of, target |-> sync.target,
                         active |-> sync.active, attempt |-> sync.attempt, found |-> found,
                         cursor |-> step.cursor, partial |-> step.partial, latest |-> latest,
                         credits |-> n] = AnswerFields
      BY DEF AnswerFields
    <3>2. /\ DOMAIN answer = AnswerFields /\ answer.kind = sync.kind /\ answer.at = "answered"
          /\ answer.of = sync.of /\ answer.target = sync.target /\ answer.found = found
          /\ answer.cursor = step.cursor /\ answer.partial = step.partial /\ answer.latest = latest
      BY <3>1
    <3>3. after = answer
      BY <2>1
    <3> HIDE DEF answer, after, found, latest
    <3>4. SyncRow(after)
      BY <1>2, <3>2, <3>3 DEF SyncRow
    <3>5. answer.of = Depositor /\ answer.kind = "loop" =>
            FoundSound(answer, deposits, credited') /\ AnswerSound(answer, credited')
      <4>1. latest \in Nat
        BY <1>4, Page_Numbers DEF PageInv, Blocks
      <4> QED BY <1>12, <1>13, <3>2, <4>1 DEF FoundSound, AnswerSound
    <3>6. SyncSound(after, target, deposits, credited')
      BY <1>2, <3>2, <3>3, <3>5 DEF SyncSound
    <3> QED BY <3>4, <3>6
  <2>2. CASE ~LastStepOf(sync, step.cursor)
    <3>1. \A x, y, z : LET i == [sync EXCEPT !.steps = x, !.previous = y, !.found = z]
                       IN /\ DOMAIN i = SyncFields /\ i.kind = sync.kind /\ i.at = sync.at
                          /\ i.of = sync.of /\ i.target = sync.target /\ i.found = z
      BY <1>2 DEF SyncFields
    <3>2. /\ DOMAIN next = SyncFields /\ next.kind = sync.kind /\ next.at = sync.at
          /\ next.of = sync.of /\ next.target = sync.target /\ next.found = found
      BY <3>1
    <3>3. after = next
      BY <2>2
    <3> HIDE DEF next, after, found
    <3>4. SyncRow(after)
      BY <1>1, <1>2, <3>2, <3>3 DEF SyncRow
    <3>5. next.of = Depositor /\ next.kind = "loop" => FoundSound(next, deposits, credited')
      BY <1>12, <3>2 DEF FoundSound
    <3>6. SyncSound(after, target, deposits, credited')
      BY <1>1, <1>2, <3>2, <3>3, <3>5 DEF SyncSound
    <3> QED BY <3>4, <3>6
  <2> QED BY <2>1, <2>2
<1>15. Put(s, after)
  BY <1>1
<1> HIDE DEF after, sync
<1>16. DOMAIN syncs' = Syncs /\ \A t \in Syncs : SyncRow(syncs'[t]) /\ SyncSound(syncs'[t], target, deposits, credited')
  <2>1. \A t \in Syncs : t # s => SyncRow(syncs[t]) /\ SyncSound(syncs[t], target, deposits, credited')
    BY <1>11, SyncLater DEF PageInv
  <2> QED BY <1>14, <1>15, <2>1 DEF Put, PageInv
<1> QED BY <1>1, <1>7, <1>8, <1>9, <1>11, <1>16 DEF PageInv

LEMMA Page_Step ==
  ASSUME PageInv, [PageNext]_pageVars
  PROVE  PageInv'
<1>1. CASE NextBlock
  <2>1. /\ tip < LastBlock /\ tip' = tip + 1 /\ UNCHANGED <<cursors, reached, credited, address, syncs, excused>>
        /\ deposits' \in {deposits, deposits \cup {tip + 1}}
        /\ \/ target' = target /\ creditSyncState' = creditSyncState
           \/ /\ target = Nothing /\ target' = tip + 1 /\ deposits' = deposits \cup {tip + 1}
              /\ creditSyncState' = "idle"
    BY <1>1 DEF NextBlock, ledger
  <2>2. /\ tip \in Nat /\ deposits \subseteq 1 .. tip /\ cursors \in [Accounts -> 0 .. tip]
        /\ reached \in [Accounts -> 0 .. tip]
    BY DEF PageInv, Blocks
  <2>3. /\ tip' \in Blocks /\ deposits' \subseteq 1 .. tip'
        /\ cursors' \in [Accounts -> 0 .. tip'] /\ reached' \in [Accounts -> 0 .. tip']
    BY <2>1, <2>2, Page_Numbers DEF Blocks
  <2>4. \A b \in deposits' : Ahead(b, cursors, reached) \/ credited[b] >= 1
    <3>1. Ahead(tip + 1, cursors, reached)
      BY <2>2, Page_Numbers DEF Ahead
    <3> QED BY <2>1, <3>1 DEF PageInv
  <2>5. target' = Nothing \/ target' \in deposits'
    BY <2>1 DEF PageInv
  <2>6. ASSUME NEW s \in Syncs PROVE SyncSound(syncs[s], target', deposits', credited)
    <3>1. SyncSound(syncs[s], target, deposits, credited) /\ deposits \subseteq deposits'
      BY <2>1 DEF PageInv
    <3>2. CASE target' = target
      BY <3>1, <3>2, SyncLater
    <3>3. CASE target = Nothing
      BY <3>1, <3>3 DEF SyncSound
    <3> QED BY <2>1, <3>2, <3>3
  <2>7. creditSyncState' = "synced" /\ ~excused' => target' # Nothing /\ credited[target'] >= 1
    BY <2>1 DEF PageInv
  <2> QED BY <2>1, <2>3, <2>4, <2>5, <2>6, <2>7 DEF PageInv
<1>2. ASSUME NEW w \in Accounts, SwitchWallet(w)
      PROVE  PageInv'
  <2>1. /\ address' = w
        /\ syncs' = [s \in Syncs |-> IF syncs[s].kind = "poll" THEN [syncs[s] EXCEPT !.active = FALSE]
                                                               ELSE syncs[s]]
        /\ UNCHANGED <<chain, ledger, target, creditSyncState, excused>>
    BY <1>2 DEF SwitchWallet
  <2>2. ASSUME NEW s \in Syncs
        PROVE  SyncRow(syncs'[s]) /\ SyncSound(syncs'[s], target, deposits, credited)
    <3>1. SyncRow(syncs[s]) /\ SyncSound(syncs[s], target, deposits, credited)
      BY DEF PageInv
    <3>2. CASE syncs[s].kind = "poll"
      <4> DEFINE q == [syncs[s] EXCEPT !.active = FALSE]
      <4>1. DOMAIN q = DOMAIN syncs[s] /\ q.kind = "poll" /\ q.at = syncs[s].at
            /\ q.of = syncs[s].of /\ q.target = syncs[s].target
        BY <3>1, <3>2 DEF SyncRow, SyncFields, AnswerFields, Resting
      <4>2. syncs'[s] = q
        BY <2>1, <3>2
      <4> HIDE DEF q
      <4> QED BY <3>1, <3>2, <4>1, <4>2 DEF SyncRow, SyncSound, Resting
    <3>3. CASE syncs[s].kind # "poll"
      BY <2>1, <3>1, <3>3
    <3> QED BY <3>2, <3>3
  <2> QED BY <2>1, <2>2 DEF PageInv, chain, ledger
<1>3. ASSUME NEW s \in Syncs, PollCredits(s)
      PROVE  PageInv'
  <2>1. SyncRow(NewSync("poll", address, Nothing)) /\ SyncSound(NewSync("poll", address, Nothing), target, deposits, credited)
    BY NewSyncSound DEF PageInv
  <2> QED BY <1>3, <2>1, Page_Sync DEF PollCredits, page, PageInv
<1>4. ASSUME NEW s \in Syncs, ConfirmedEffect(s)
      PROVE  PageInv'
  <2>1. CASE target # Nothing /\ ~syncedHashes
    <3>1. SyncRow(NewSync("loop", address, target)) /\ SyncSound(NewSync("loop", address, target), target, deposits, credited)
      BY <2>1, NewSyncSound DEF PageInv
    <3> QED BY <1>4, <2>1, <3>1, Page_Sync DEF ConfirmedEffect, PageInv
  <2>2. CASE ~(target # Nothing /\ ~syncedHashes)
    BY <1>4, <2>2 DEF ConfirmedEffect, PageInv, chain, ledger
  <2> QED BY <2>1, <2>2
<1>5. ASSUME NEW s \in Syncs, RetrySync(s)
      PROVE  PageInv'
  <2>1. SyncRow(NewSync("loop", address, target)) /\ SyncSound(NewSync("loop", address, target), target, deposits, credited)
    BY <1>5, NewSyncSound DEF PageInv, RetrySync
  <2> QED BY <1>5, <2>1, Page_Sync DEF RetrySync, PageInv
<1>6. ASSUME NEW s \in Syncs, NEW lag \in 0 .. MaxLag, Serve(s, lag)
      PROVE  PageInv'
  BY <1>6, Page_Serve
<1>7. ASSUME NEW s \in Syncs, PollAnswered(s)
      PROVE  PageInv'
  BY <1>7, RestingSound, Page_Sync DEF PollAnswered, PageInv
<1>8. ASSUME NEW s \in Syncs, LoopAnswered(s)
      PROVE  PageInv'
  <2> DEFINE sync == syncs[s]
             ends == TakesAsSynced(sync) \/ sync.attempt = MaxAttempts
  <2>1. /\ sync.kind = "loop" /\ sync.at = "answered"
        /\ UNCHANGED <<chain, ledger, target, address>>
    BY <1>8 DEF LoopAnswered
  <2>2. /\ SyncRow(sync) /\ SyncSound(sync, target, deposits, credited)
        /\ target # Nothing /\ sync.target = target /\ sync.of \in Accounts
    BY <2>1 DEF PageInv, SyncRow, SyncSound, Resting
  <2>3. CASE ends
    <3>1. /\ creditSyncState' = "synced" /\ Put(s, Resting)
          /\ excused' = \/ excused
                        \/ sync.of # Depositor
                        \/ sync.latest < sync.target
                        \/ sync.attempt = MaxAttempts
                        \/ sync.found /\ \E b \in deposits : b < sync.target
      BY <1>8, <2>3 DEF LoopAnswered
    <3>2. ASSUME ~excused' PROVE credited[target] >= 1
      <4>1. /\ sync.of = Depositor /\ ~(sync.latest < sync.target) /\ TakesAsSynced(sync)
            /\ ~(sync.found /\ \E b \in deposits : b < sync.target)
        BY <2>3, <3>1, <3>2
      <4>2. FoundSound(sync, deposits, credited) /\ AnswerSound(sync, credited)
        BY <2>1, <2>2, <4>1 DEF SyncSound
      <4>3. sync.latest >= sync.target
        <5>1. sync.latest \in Int /\ sync.target \in Int
          <6>1. sync.latest \in Nat
            BY <4>2 DEF AnswerSound
          <6>2. target \in 1 .. tip
            BY <2>2 DEF PageInv
          <6> QED BY <2>2, <6>1, <6>2
        <5> QED BY <4>1, <5>1
      <4> QED BY <2>2, <4>1, <4>2, <4>3 DEF FoundSound, AnswerSound, TakesAsSynced, ReachedDepositBlock
    <3> QED BY <2>1, <2>2, <3>1, <3>2, RestingSound, Page_Sync DEF PageInv
  <2>4. CASE ~ends
    <3> DEFINE new == NewSync("loop", sync.of, sync.target)
               next == [new EXCEPT !.attempt = sync.attempt + 1]
    <3>1. Put(s, next) /\ UNCHANGED <<creditSyncState, excused>>
      BY <1>8, <2>4 DEF LoopAnswered
    <3>2. DOMAIN new = SyncFields /\ SyncRow(new) /\ SyncSound(new, target, deposits, credited)
          /\ new.kind = "loop" /\ new.at = "sent"
      BY <2>2, NewSyncSound DEF NewSync, SyncFields
    <3> HIDE DEF new
    <3>3. \A n : LET i == [new EXCEPT !.attempt = n]
                 IN /\ DOMAIN i = SyncFields /\ i.kind = new.kind /\ i.at = new.at
                    /\ i.of = new.of /\ i.target = new.target /\ i.found = new.found
      BY <3>2 DEF SyncFields
    <3>4. /\ DOMAIN next = SyncFields /\ next.kind = new.kind /\ next.at = new.at
          /\ next.of = new.of /\ next.target = new.target /\ next.found = new.found
      BY <3>3
    <3> HIDE DEF next
    <3>5. SyncRow(next) /\ SyncSound(next, target, deposits, credited)
      BY <3>2, <3>4 DEF SyncRow, SyncSound, FoundSound, Resting
    <3> QED BY <2>1, <3>1, <3>5, Page_Sync DEF PageInv
  <2> QED BY <2>3, <2>4
<1>9. ASSUME NEW s \in Syncs, SyncFails(s)
      PROVE  PageInv'
  BY <1>9, RestingSound, Page_Sync DEF SyncFails, PageInv
<1>10. CASE UNCHANGED pageVars
  BY <1>10 DEF pageVars, PageInv
<1> QED BY <1>1, <1>2, <1>3, <1>4, <1>5, <1>6, <1>7, <1>8, <1>9, <1>10 DEF PageNext

\* When the page says a deposit is synced its credits are there, for every
\* window, lag, number of attempts and of wallets, but for the loops that gave
\* up in one of the ways named.
THEOREM SyncedIsCredited == Spec => []SyncedMeansCredited
<1>1. Init => PageInv
  BY StartOfEach, Page_Init
<1>2. PageInv /\ [Next]_vars => PageInv'
  BY StepOfEach, Page_Step
<1>3. PageInv => SyncedMeansCredited
  BY DEF PageInv, SyncedMeansCredited
<1> QED BY <1>1, <1>2, <1>3, PTL DEF Spec

-----------------------------------------------------------------------------
(* The gate: what was debited, what was answered, and what the agent heard. *)

GateAnswers == {"none", "200", "401", "402", "409", "423", "429", "500"}

CopyRow == [at : {"none", "arrived", "looked", "over"}, earns : BOOLEAN, answer : GateAnswers,
            heard : {"waiting", "heard", "lost"}]

DebitRow == [copy : Copies, cost : Nat, earns : BOOLEAN]

\* An answer ends the handler, and is heard after that.
CopySound(row) ==
  /\ row.at # "over" => row.answer = "none" /\ row.heard # "heard"
  /\ row.at = "none" => row.heard = "waiting"

\* Nothing will be heard of the copy any more, and no 200 was.
NoneOpen(c) ==
  \/ copy[c].at = "none" \/ copy[c].heard = "lost"
  \/ copy[c].heard = "heard" /\ copy[c].answer # "200"

GateTypes ==
  /\ gate \in Gates /\ second \in Nat
  /\ signedAt \in [Asks -> Int]
  /\ copy \in [Copies -> CopyRow]
  /\ gateDebits \subseteq DebitRow

CopiesSound ==
  \A c \in Copies :
    /\ CopySound(copy[c])
    /\ copy[c].at # "none" => signedAt[c[1]] # Unsigned
    /\ \A r \in Asks : c[1] < r /\ signedAt[r] # Unsigned => NoneOpen(c)

AnswersSound ==
  /\ gate.nonces => \A r \in Asks : r \in accessNonces <=> ChargedFor(r)
  /\ \A c \in Copies : /\ copy[c].answer = "200" => \E d \in gateDebits : d.copy = c
                       /\ copy[c].answer = "409" => ChargedFor(c[1])
  /\ \A d \in gateDebits : copy[d.copy].answer \in {"200", "500"}

DebitsApart ==
  \A d, e \in gateDebits :
    d # e /\ d.copy[1] = e.copy[1] => ~gate.nonces /\ ~gate.ledger /\ ~(d.earns /\ e.earns)

GateInv == GateTypes /\ CopiesSound /\ AnswersSound /\ DebitsApart

LEMMA CopyIsOfAsk == \A c \in Copies : c[1] \in Asks
BY DEF Copies

LEMMA Gate_Init == GateInit \/ GateClosed => GateInv
<1>1. ClosedGate \in Gates
  BY DEF ClosedGate, Gates
<1>2. ASSUME gate \in Gates, GateUnused PROVE GateInv
  <2>1. NoCopy \in CopyRow
    BY DEF NoCopy, CopyRow, GateAnswers
  <2>2. GateTypes
    BY <1>2, <2>1 DEF GateTypes, GateUnused, Unsigned
  <2>3. CopiesSound
    BY <1>2, CopyIsOfAsk DEF CopiesSound, GateUnused, CopySound, NoneOpen, NoCopy
  <2>4. AnswersSound /\ DebitsApart
    BY <1>2 DEF AnswersSound, DebitsApart, GateUnused, NoCopy, ChargedFor
  <2> QED BY <2>2, <2>3, <2>4 DEF GateInv
<1> QED BY <1>1, <1>2, GateAssumption DEF GateInit, GateClosed

\* A step that writes one copy and debits nothing.
LEMMA OneCopyMoves ==
  ASSUME GateInv, NEW c \in Copies, NEW row \in CopyRow,
         copy' = [copy EXCEPT ![c] = row],
         UNCHANGED <<gate, second, accessNonces, gateDebits, signedAt>>,
         CopySound(row), signedAt[c[1]] # Unsigned,
         row.heard = "lost" \/ \A r \in Asks : c[1] < r => signedAt[r] = Unsigned,
         copy[c].at = "over" => row.answer = copy[c].answer,
         row.answer = "200" => copy[c].answer = "200",
         row.answer = "409" => copy[c].answer = "409" \/ ChargedFor(c[1])
  PROVE  GateInv'
<1>1. /\ copy'[c] = row
      /\ \A b \in Copies : b # c => copy'[b] = copy[b]
      /\ copy' \in [Copies -> CopyRow]
  BY DEF GateInv, GateTypes
<1>2. GateTypes'
  BY <1>1 DEF GateInv, GateTypes
<1>3. CopiesSound'
  <2> SUFFICES ASSUME NEW b \in Copies
               PROVE  /\ CopySound(copy'[b])
                      /\ copy'[b].at # "none" => signedAt[b[1]] # Unsigned
                      /\ \A r \in Asks : b[1] < r /\ signedAt[r] # Unsigned => NoneOpen(b)'
    BY DEF CopiesSound, CopySound
  <2>1. CASE b = c
    <3>1. row.heard = "lost" => NoneOpen(c)'
      BY <1>1 DEF NoneOpen
    <3> QED BY <1>1, <2>1, <3>1
  <2>2. CASE b # c
    <3>1. copy'[b] = copy[b] /\ (NoneOpen(b) => NoneOpen(b)')
      BY <1>1, <2>2 DEF NoneOpen
    <3> QED BY <3>1 DEF GateInv, CopiesSound
  <2> QED BY <2>1, <2>2
<1>4. AnswersSound'
  <2>1. \A r : ChargedFor(r)' <=> ChargedFor(r)
    BY DEF ChargedFor
  <2>2. gate.nonces => \A r \in Asks : r \in accessNonces <=> ChargedFor(r)
    BY DEF GateInv, AnswersSound
  <2>3. ASSUME NEW b \in Copies
        PROVE  /\ copy'[b].answer = "200" => \E d \in gateDebits : d.copy = b
               /\ copy'[b].answer = "409" => ChargedFor(b[1])
    BY <1>1 DEF GateInv, AnswersSound
  <2>4. ASSUME NEW d \in gateDebits
        PROVE  copy'[d.copy].answer \in {"200", "500"}
    <3>1. d.copy \in Copies /\ copy[d.copy].answer \in {"200", "500"}
      BY DEF GateInv, GateTypes, DebitRow, AnswersSound
    <3>2. copy[d.copy].at = "over"
      BY <3>1 DEF GateInv, CopiesSound, CopySound
    <3> QED BY <1>1, <3>1, <3>2
  <2> QED BY <2>1, <2>2, <2>3, <2>4 DEF AnswersSound
<1>5. DebitsApart'
  BY DEF GateInv, DebitsApart
<1> QED BY <1>2, <1>3, <1>4, <1>5 DEF GateInv

\* What a handler that has not answered may rely on.
LEMMA InHandler ==
  ASSUME GateInv, NEW c \in Copies, copy[c].at \in {"arrived", "looked"}
  PROVE  /\ signedAt[c[1]] # Unsigned
         /\ copy[c].answer = "none"
         /\ copy[c].heard = "lost" \/ \A r \in Asks : c[1] < r => signedAt[r] = Unsigned
         /\ copy[c] \in CopyRow
         /\ copy[c].heard \in {"waiting", "lost"}
         /\ \A d \in gateDebits : d.copy # c
<1>1. copy[c] \in CopyRow
  BY DEF GateInv, GateTypes
<1>2. /\ signedAt[c[1]] # Unsigned /\ copy[c].answer = "none" /\ copy[c].heard # "heard"
      /\ \A r \in Asks : c[1] < r /\ signedAt[r] # Unsigned => NoneOpen(c)
  BY DEF GateInv, CopiesSound, CopySound
<1>3. copy[c].heard \in {"waiting", "lost"}
  BY <1>1, <1>2 DEF CopyRow
<1>4. copy[c].heard = "lost" \/ ~NoneOpen(c)
  BY <1>2 DEF NoneOpen
<1>5. \A d \in gateDebits : d.copy # c
  BY <1>2 DEF GateInv, AnswersSound
<1> QED BY <1>1, <1>2, <1>3, <1>4, <1>5

\* A handler answers without a debit.
LEMMA AnswerKeepsGate ==
  ASSUME GateInv, NEW c \in Copies, NEW status \in GateAnswers,
         copy[c].at \in {"arrived", "looked"}, AnswerCopy(c, status),
         status # "200", status = "409" => ChargedFor(c[1]),
         UNCHANGED <<gate, second, accessNonces, gateDebits, signedAt>>
  PROVE  GateInv'
<1> DEFINE row == [copy[c] EXCEPT !.at = "over", !.earns = FALSE, !.answer = status]
<1>1. /\ signedAt[c[1]] # Unsigned
      /\ copy[c].heard = "lost" \/ \A r \in Asks : c[1] < r => signedAt[r] = Unsigned
      /\ copy[c] \in CopyRow
  BY InHandler
<1>2. row \in CopyRow /\ row.at = "over" /\ row.answer = status /\ row.heard = copy[c].heard
  BY <1>1 DEF CopyRow
<1>3. copy' = [copy EXCEPT ![c] = row]
  BY DEF AnswerCopy
<1>4. CopySound(row)
  BY <1>2 DEF CopySound
<1> HIDE DEF row
<1> QED BY <1>1, <1>2, <1>3, <1>4, OneCopyMoves

\* A handler has looked up the gateway row.
LEMMA LookedKeepsGate ==
  ASSUME GateInv, NEW c \in Copies, NEW earns \in BOOLEAN, copy[c].at = "arrived",
         copy' = [copy EXCEPT ![c] = [copy[c] EXCEPT !.at = "looked", !.earns = earns]],
         UNCHANGED <<gate, second, accessNonces, gateDebits, signedAt>>
  PROVE  GateInv'
<1> DEFINE row == [copy[c] EXCEPT !.at = "looked", !.earns = earns]
<1>1. /\ signedAt[c[1]] # Unsigned /\ copy[c].answer = "none"
      /\ copy[c].heard = "lost" \/ \A r \in Asks : c[1] < r => signedAt[r] = Unsigned
      /\ copy[c] \in CopyRow /\ copy[c].heard \in {"waiting", "lost"}
  BY InHandler
<1>2. row \in CopyRow /\ row.at = "looked" /\ row.answer = "none" /\ row.heard = copy[c].heard
  BY <1>1 DEF CopyRow
<1>3. CopySound(row)
  BY <1>1, <1>2 DEF CopySound
<1>4. copy' = [copy EXCEPT ![c] = row]
  OBVIOUS
<1> HIDE DEF row
<1> QED BY <1>1, <1>2, <1>3, <1>4, OneCopyMoves

\* The agent sends a copy, or the answer to one reaches it or is lost.
LEMMA AgentKeepsGate ==
  ASSUME GateInv, NEW c \in Copies, NEW at \in {"arrived", copy[c].at},
         NEW heard \in {"waiting", "heard", "lost"},
         copy' = [copy EXCEPT ![c] = [copy[c] EXCEPT !.at = at, !.heard = heard]],
         UNCHANGED <<gate, second, accessNonces, gateDebits, signedAt>>,
         signedAt[c[1]] # Unsigned,
         heard = "lost" \/ \A r \in Asks : c[1] < r => signedAt[r] = Unsigned,
         copy[c].at = "none" => at = "arrived" /\ heard = "waiting",
         at = "arrived" => copy[c].at \in {"none", "arrived"},
         heard = "heard" => at = "over"
  PROVE  GateInv'
<1> DEFINE row == [copy[c] EXCEPT !.at = at, !.heard = heard]
<1>1. copy[c] \in CopyRow /\ CopySound(copy[c])
  BY DEF GateInv, GateTypes, CopiesSound
<1>2. row \in CopyRow /\ row.at = at /\ row.answer = copy[c].answer /\ row.heard = heard
  BY <1>1 DEF CopyRow
<1>3. CopySound(row)
  BY <1>1, <1>2 DEF CopySound
<1>4. copy' = [copy EXCEPT ![c] = row]
  OBVIOUS
<1> HIDE DEF row
<1> QED BY <1>2, <1>3, <1>4, OneCopyMoves

\* A debit: one more row, of a request that is not a replay.
LEMMA DebitKeepsGate ==
  ASSUME GateInv, NEW c \in Copies, NEW cost \in Nat, TakeCredits(c, cost)
  PROVE  GateInv'
<1> DEFINE e == [copy |-> c, cost |-> cost, earns |-> copy[c].earns]
<1>1. /\ copy[c].at = "looked" /\ ~Replayed(c)
      /\ accessNonces' = IF gate.nonces THEN accessNonces \cup {c[1]} ELSE accessNonces
      /\ gateDebits' = gateDebits \cup {e}
      /\ UNCHANGED <<gate, second, signedAt>>
  BY DEF TakeCredits
<1>2. PICK status \in {"200", "500"} : AnswerCopy(c, status)
  BY DEF TakeCredits
<1> DEFINE row == [copy[c] EXCEPT !.at = "over", !.earns = FALSE, !.answer = status]
<1>3. /\ signedAt[c[1]] # Unsigned
      /\ copy[c].heard = "lost" \/ \A r \in Asks : c[1] < r => signedAt[r] = Unsigned
      /\ copy[c] \in CopyRow
      /\ \A d \in gateDebits : d.copy # c
  BY <1>1, InHandler
<1>4. row \in CopyRow /\ row.at = "over" /\ row.answer = status /\ row.heard = copy[c].heard
  BY <1>3 DEF CopyRow, GateAnswers
<1>5. e \in DebitRow /\ e.copy = c /\ e.earns = copy[c].earns
  BY <1>3 DEF DebitRow, CopyRow
<1>6. copy' = [copy EXCEPT ![c] = row]
  BY <1>2 DEF AnswerCopy
<1> HIDE DEF row, e
<1>7. /\ copy'[c] = row
      /\ \A b \in Copies : b # c => copy'[b] = copy[b]
      /\ copy' \in [Copies -> CopyRow]
  BY <1>4, <1>6 DEF GateInv, GateTypes
<1>8. GateTypes'
  BY <1>1, <1>5, <1>7 DEF GateInv, GateTypes
<1>9. CopiesSound'
  <2> SUFFICES ASSUME NEW b \in Copies
               PROVE  /\ CopySound(copy'[b])
                      /\ copy'[b].at # "none" => signedAt[b[1]] # Unsigned
                      /\ \A r \in Asks : b[1] < r /\ signedAt[r] # Unsigned => NoneOpen(b)'
    BY <1>1 DEF CopiesSound, CopySound
  <2>1. CASE b = c
    <3>1. row.heard = "lost" => NoneOpen(c)'
      BY <1>7 DEF NoneOpen
    <3>2. CopySound(row)
      BY <1>4 DEF CopySound
    <3> QED BY <1>3, <1>4, <1>7, <2>1, <3>1, <3>2
  <2>2. CASE b # c
    <3>1. copy'[b] = copy[b] /\ (NoneOpen(b) => NoneOpen(b)')
      BY <1>7, <2>2 DEF NoneOpen
    <3> QED BY <3>1 DEF GateInv, CopiesSound
  <2> QED BY <2>1, <2>2
<1>10. \A r : ChargedFor(r)' <=> ChargedFor(r) \/ r = c[1]
  BY <1>1, <1>5 DEF ChargedFor
<1>11. AnswersSound'
  <2>1. gate.nonces => \A r \in Asks : r \in accessNonces' <=> ChargedFor(r)'
    BY <1>1, <1>10 DEF GateInv, AnswersSound
  <2>2. ASSUME NEW b \in Copies
        PROVE  /\ copy'[b].answer = "200" => \E d \in gateDebits' : d.copy = b
               /\ copy'[b].answer = "409" => ChargedFor(b[1])'
    <3>1. CASE b = c
      BY <1>1, <1>4, <1>5, <1>7, <3>1
    <3>2. CASE b # c
      BY <1>1, <1>7, <1>10, <3>2 DEF GateInv, AnswersSound
    <3> QED BY <3>1, <3>2
  <2>3. ASSUME NEW d \in gateDebits'
        PROVE  copy'[d.copy].answer \in {"200", "500"}
    <3>1. CASE d = e
      BY <1>4, <1>5, <1>7, <3>1
    <3>2. CASE d \in gateDebits
      BY <1>3, <1>7, <3>2 DEF GateInv, GateTypes, DebitRow, AnswersSound
    <3> QED BY <1>1, <3>1, <3>2
  <2> QED BY <1>1, <2>1, <2>2, <2>3 DEF AnswersSound
<1>12. DebitsApart'
  <2>1. ASSUME NEW d \in gateDebits, d.copy[1] = c[1]
        PROVE  ~gate.nonces /\ ~gate.ledger /\ ~(d.earns /\ e.earns)
    <3>1. ChargedFor(c[1]) /\ c[1] \in Asks
      BY <2>1, CopyIsOfAsk DEF ChargedFor
    <3>2. gate.nonces => c[1] \in accessNonces
      BY <3>1 DEF GateInv, AnswersSound
    <3> QED BY <1>1, <1>5, <2>1, <3>1, <3>2 DEF Replayed
  <2> SUFFICES ASSUME NEW d \in gateDebits', NEW b \in gateDebits', d # b, d.copy[1] = b.copy[1]
               PROVE  ~gate.nonces /\ ~gate.ledger /\ ~(d.earns /\ b.earns)
    BY <1>1 DEF DebitsApart
  <2>2. CASE d \in gateDebits /\ b \in gateDebits
    BY <2>2 DEF GateInv, DebitsApart
  <2>3. CASE d = e /\ b \in gateDebits
    BY <1>5, <2>1, <2>3
  <2>4. CASE d \in gateDebits /\ b = e
    BY <1>5, <2>1, <2>4
  <2> QED BY <1>1, <2>2, <2>3, <2>4
<1> QED BY <1>8, <1>9, <1>11, <1>12 DEF GateInv

\* Every step keeps the invariant.
LEMMA Gate_Next ==
  ASSUME GateInv, [GateNext]_gateVars
  PROVE  GateInv'
<1>1. ASSUME NEW r \in Asks, SignAccess(r) PROVE GateInv'
  <2>1. /\ signedAt[r] = Unsigned
        /\ signedAt' = [signedAt EXCEPT ![r] = second + gate.ahead]
        /\ UNCHANGED <<gate, second, accessNonces, gateDebits, copy>>
        /\ \A c \in Copies : c[1] < r => ~Waiting(c) /\ ~Told(c)
    BY <1>1 DEF SignAccess
  <2>2. /\ second + gate.ahead \in Int
        /\ signedAt \in [Asks -> Int]
        /\ \A c \in Copies : copy[c] \in CopyRow /\ c[1] \in Asks
    BY CopyIsOfAsk DEF GateInv, GateTypes, Gates
  <2>3. GateTypes'
    BY <2>1, <2>2 DEF GateInv, GateTypes
  <2>4. ASSUME NEW c \in Copies, c[1] < r PROVE NoneOpen(c)
    <3>1. copy[c].heard \in {"waiting", "heard", "lost"}
      BY <2>2 DEF CopyRow
    <3> QED BY <2>1, <2>4, <3>1 DEF NoneOpen, Waiting, Told
  <2>5. CopiesSound'
    <3> SUFFICES ASSUME NEW c \in Copies
                 PROVE  /\ CopySound(copy[c])
                        /\ copy[c].at # "none" => signedAt'[c[1]] # Unsigned
                        /\ \A q \in Asks : c[1] < q /\ signedAt'[q] # Unsigned => NoneOpen(c)
      BY <2>1 DEF CopiesSound, CopySound, NoneOpen
    <3>1. /\ CopySound(copy[c])
          /\ copy[c].at # "none" => signedAt[c[1]] # Unsigned
          /\ \A q \in Asks : c[1] < q /\ signedAt[q] # Unsigned => NoneOpen(c)
      BY DEF GateInv, CopiesSound
    <3>2. \A q \in Asks : q # r => signedAt'[q] = signedAt[q]
      BY <2>1, <2>2
    <3>3. copy[c].at # "none" => signedAt'[c[1]] # Unsigned
      BY <2>1, <2>2, <3>1, <3>2
    <3>4. ASSUME NEW q \in Asks, c[1] < q, signedAt'[q] # Unsigned PROVE NoneOpen(c)
      BY <2>4, <3>1, <3>2, <3>4
    <3> QED BY <3>1, <3>3, <3>4
  <2>6. AnswersSound' /\ DebitsApart'
    BY <2>1 DEF GateInv, AnswersSound, DebitsApart, ChargedFor
  <2> QED BY <2>3, <2>5, <2>6 DEF GateInv
<1>2. ASSUME NEW c \in Copies PROVE copy[c] \in CopyRow /\ c[1] \in Asks
  BY CopyIsOfAsk DEF GateInv, GateTypes
<1>3. ASSUME NEW c \in Copies, SendCopy(c) PROVE GateInv'
  <2>1. /\ copy[c].at = "none" /\ copy[c].heard = "waiting"
        /\ signedAt[c[1]] # Unsigned /\ \A r \in Asks : r > c[1] => signedAt[r] = Unsigned
        /\ copy' = [copy EXCEPT ![c].at = "arrived"]
        /\ UNCHANGED <<gate, second, accessNonces, gateDebits, signedAt>>
    BY <1>3 DEF SendCopy, GateInv, CopiesSound, CopySound
  <2>2. copy' = [copy EXCEPT ![c] = [copy[c] EXCEPT !.at = "arrived", !.heard = "waiting"]]
    BY <1>2, <2>1 DEF CopyRow
  <2>3. \A r \in Asks : c[1] < r => signedAt[r] = Unsigned
    BY <1>2, <2>1 DEF Asks
  <2> QED BY <2>1, <2>2, <2>3, AgentKeepsGate
<1>4. ASSUME NEW c \in Copies, Waiting(c)
      PROVE  /\ signedAt[c[1]] # Unsigned
             /\ \A r \in Asks : c[1] < r => signedAt[r] = Unsigned
  BY <1>4 DEF Waiting, GateInv, CopiesSound, NoneOpen
<1>5. ASSUME NEW c \in Copies, HearAnswer(c) PROVE GateInv'
  <2>1. /\ copy[c].at = "over" /\ Waiting(c)
        /\ copy' = [copy EXCEPT ![c] = [copy[c] EXCEPT !.at = "over", !.heard = "heard"]]
        /\ UNCHANGED <<gate, second, accessNonces, gateDebits, signedAt>>
    BY <1>2, <1>5 DEF HearAnswer, Waiting, CopyRow
  <2> QED BY <1>4, <2>1, AgentKeepsGate
<1>6. ASSUME NEW c \in Copies, LoseAnswer(c) PROVE GateInv'
  <2>1. /\ copy[c].at # "none" /\ Waiting(c)
        /\ copy' = [copy EXCEPT ![c] = [copy[c] EXCEPT !.at = copy[c].at, !.heard = "lost"]]
        /\ UNCHANGED <<gate, second, accessNonces, gateDebits, signedAt>>
    BY <1>2, <1>6 DEF LoseAnswer, Waiting, CopyRow
  <2> QED BY <1>4, <2>1, AgentKeepsGate
<1>7. ASSUME NEW c \in Copies, Throttle(c) PROVE GateInv'
  BY <1>7, AnswerKeepsGate DEF Throttle, GateAnswers
<1>8. ASSUME NEW c \in Copies, RefuseStale(c) PROVE GateInv'
  BY <1>8, AnswerKeepsGate DEF RefuseStale, GateAnswers
<1>9. ASSUME NEW c \in Copies, NEW row \in {"none", "notLive", "live"}, LookUpGateway(c, row) PROVE GateInv'
  <2>1. /\ copy[c].at = "arrived"
        /\ UNCHANGED <<gate, second, accessNonces, gateDebits, signedAt>>
        /\ \/ AnswerCopy(c, "423")
           \/ copy' = [copy EXCEPT ![c].at = "looked", ![c].earns = row # "none"]
    BY <1>9 DEF LookUpGateway
  <2>2. CASE AnswerCopy(c, "423")
    BY <2>1, <2>2, AnswerKeepsGate DEF GateAnswers
  <2>3. CASE copy' = [copy EXCEPT ![c].at = "looked", ![c].earns = row # "none"]
    <3>1. copy' = [copy EXCEPT ![c] = [copy[c] EXCEPT !.at = "looked", !.earns = (row # "none")]]
      BY <1>2, <2>3 DEF CopyRow
    <3>2. (row # "none") \in BOOLEAN
      OBVIOUS
    <3> QED BY <2>1, <3>1, <3>2, LookedKeepsGate
  <2> QED BY <2>1, <2>2, <2>3
<1>10. ASSUME NEW c \in Copies, LookUpFails(c) PROVE GateInv'
  <2>1. /\ copy[c].at = "arrived"
        /\ UNCHANGED <<gate, second, accessNonces, gateDebits, signedAt>>
        /\ AnswerCopy(c, "500") \/ copy' = [copy EXCEPT ![c].at = "looked"]
    BY <1>10 DEF LookUpFails
  <2>2. CASE AnswerCopy(c, "500")
    BY <2>1, <2>2, AnswerKeepsGate DEF GateAnswers
  <2>3. CASE copy' = [copy EXCEPT ![c].at = "looked"]
    <3>1. /\ copy[c].earns \in BOOLEAN
          /\ copy' = [copy EXCEPT ![c] = [copy[c] EXCEPT !.at = "looked", !.earns = copy[c].earns]]
      BY <1>2, <2>3 DEF CopyRow
    <3> QED BY <2>1, <3>1, LookedKeepsGate
  <2> QED BY <2>1, <2>2, <2>3
<1>11. ASSUME NEW c \in Copies, DebitFails(c) PROVE GateInv'
  BY <1>11, AnswerKeepsGate DEF DebitFails, GateAnswers
<1>12. ASSUME NEW c \in Copies, NEW cost, RefuseDebit(c, cost) PROVE GateInv'
  <2>1. /\ copy[c].at = "looked"
        /\ UNCHANGED <<gate, second, accessNonces, gateDebits, signedAt>>
        /\ AnswerCopy(c, "402") \/ (Replayed(c) /\ AnswerCopy(c, "409"))
    BY <1>12 DEF RefuseDebit
  <2>2. CASE AnswerCopy(c, "402")
    BY <2>1, <2>2, AnswerKeepsGate DEF GateAnswers
  <2>3. CASE Replayed(c) /\ AnswerCopy(c, "409")
    <3>1. ChargedFor(c[1])
      BY <1>2, <2>3 DEF Replayed, ChargedFor, GateInv, AnswersSound
    <3> QED BY <2>1, <2>3, <3>1, AnswerKeepsGate DEF GateAnswers
  <2> QED BY <2>1, <2>2, <2>3
<1>13. ASSUME NEW c \in Copies, NEW listed \in ListedCosts, TakeCredits(c, RequestCost(listed)) PROVE GateInv'
  <2>1. RequestCost(listed) \in Nat
    BY GateAssumption DEF RequestCost
  <2> QED BY <1>13, <2>1, DebitKeepsGate
<1>14. CASE UNCHANGED gateVars
  BY <1>14 DEF gateVars, GateInv, GateTypes, CopiesSound, AnswersSound, DebitsApart, ChargedFor, NoneOpen
<1>15. CASE FillPurse \/ GateTick
  <2>1. /\ UNCHANGED <<gate, accessNonces, gateDebits, signedAt, copy>>
        /\ second' = second \/ second' = second + 1
    BY <1>15 DEF FillPurse, GateTick
  <2>2. GateTypes'
    BY <2>1 DEF GateInv, GateTypes
  <2> QED BY <2>1, <2>2 DEF GateInv, CopiesSound, AnswersSound, DebitsApart, ChargedFor, NoneOpen
<1> QED BY <1>1, <1>3, <1>5, <1>6, <1>7, <1>8, <1>9, <1>10, <1>11, <1>12, <1>13, <1>14, <1>15 DEF GateNext

\* Of two requests debited, the later was signed when the first had not been heard to be let in.
LEMMA GateExplains ==
  ASSUME GateInv
  PROVE  GateChargeExplained
<1>1. ASSUME NEW d \in gateDebits PROVE d.copy \in Copies /\ d.copy[1] \in Asks /\ signedAt[d.copy[1]] # Unsigned
  <2>1. d.copy \in Copies /\ copy[d.copy].answer \in {"200", "500"}
    BY DEF GateInv, GateTypes, DebitRow, AnswersSound
  <2>2. copy[d.copy].at # "none"
    BY <2>1 DEF GateInv, CopiesSound, CopySound
  <2> QED BY <2>1, <2>2, CopyIsOfAsk DEF GateInv, CopiesSound
<1>2. ASSUME NEW d \in gateDebits, NEW e \in gateDebits, d.copy[1] < e.copy[1] PROVE ~Told(d.copy)
  <2>1. copy[d.copy].at # "none"
    BY <1>1 DEF GateInv, AnswersSound, CopiesSound, CopySound
  <2>2. NoneOpen(d.copy)
    BY <1>1, <1>2 DEF GateInv, CopiesSound
  <2> QED BY <2>1, <2>2 DEF NoneOpen, Told
<1>3. AnswersSound /\ DebitsApart
  BY DEF GateInv
<1> QED BY <1>2, <1>3 DEF GateChargeExplained, AnswersSound, DebitsApart

\* A captured ticket paid for work that ended, no later than the hold's
\* expiry, and its consumer heard of it, of a failure, or nothing: whatever
\* retries, crashes and late captures race, for any number of tickets.  And a
\* debit at the gate is told as it is, made once where anything can tell, and
\* made again only for an agent that was not told: for any number of accesses
\* and copies, any prices, any window, and clocks that disagree.
THEOREM ChargesAreExplained == Spec => []ChargesExplained
<1>1. Init => GateInv
  BY StartOfEach, Gate_Init
<1>2. GateInv /\ [Next]_vars => GateInv'
  BY StepOfEach, Gate_Next
<1>3. RailInv /\ GateInv => ChargesExplained
  BY RailExplains, GateExplains DEF ChargesExplained
<1> QED BY <1>1, <1>2, <1>3, RailInvariant, PTL DEF Spec

=============================================================================
