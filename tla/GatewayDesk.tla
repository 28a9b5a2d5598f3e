----------------------------- MODULE GatewayDesk -----------------------------
(***************************************************************************)
(* The gateway controls of the owner's dashboard page. The load of the     *)
(* configuration of a newly selected agent is dropped when another agent   *)
(* is selected; a background poll, a save and a verification are not: each *)
(* writes what it got into the page, whichever agent is selected by then.  *)
(* The form is one field, and it is not emptied on a selection.            *)
(***************************************************************************)
EXTENDS Naturals, FiniteSets

CONSTANTS
  Desks,      \* the owner's agents
  Requests,   \* numbers of the requests in flight (bound)
  Versions,   \* addresses the owner may type for an agent (bound: 0 .. Versions)
  MaxClicks   \* bound on what the owner does

ASSUME DeskAssumption == Desks # {} /\ Versions \in Nat

VARIABLES
  stored,    \* AgentGatewayConfig at the server: endpoint and readiness, per agent
  chosen,    \* selectedOwnedAgentId
  config,    \* merchantGatewayConfig: what the page shows, and of which agent
  field,     \* merchantGatewayEndpointUrl
  requests,
  clicks,
  unloaded,  \* history: the field was neither loaded nor typed for the selected agent
  mixed      \* history: agents saved while the field was another agent's for a known cause

deskVars == <<stored, chosen, config, field, requests, clicks, unloaded, mixed>>

\* An address is meant for the agent the owner typed it for.
Address(a, n) == [of |-> a, number |-> n]
Addresses == [of : Desks, number : 0 .. Versions]
Idle == [kind |-> "none", at |-> "none"]
NoConfigShown == [agent |-> "none"]

DeskInit ==
  /\ chosen = CHOOSE a \in Desks : TRUE
  /\ stored = [a \in Desks |-> [url |-> Address(a, 0), live |-> FALSE]]
  /\ config = [agent |-> chosen, is |-> stored[chosen]]
  /\ field = Address(chosen, 0)
  /\ requests = [r \in Requests |-> Idle]
  /\ clicks = 0
  /\ unloaded = FALSE
  /\ mixed = {}

Unused(r) == requests[r] = Idle /\ \A s \in Requests : s < r => requests[s] # Idle
Sent(kind, a) == [kind |-> kind, agent |-> a, url |-> field, at |-> "sent", mine |-> TRUE]
Underway(kinds) == \E r \in Requests : requests[r].kind \in kinds
Click == clicks < MaxClicks /\ clicks' = clicks + 1

-----------------------------------------------------------------------------
(* Effects of the page. *)

\* The cleanup of an effect clears its `active'.
Dropped(kind, request) ==
  IF request.kind \in {"load", "poll"} THEN [request EXCEPT !.mine = FALSE] ELSE request

\* The load of the new agent starts in the same commit.
SelectDesk(r, a) ==
  /\ Click
  /\ a # chosen /\ Unused(r)
  /\ chosen' = a
  /\ requests' = [s \in Requests |-> IF s = r THEN Sent("load", a)
                                     ELSE Dropped("load", requests[s])]
  /\ unloaded' = TRUE
  /\ UNCHANGED <<stored, config, field, mixed>>

\* setInterval, and the page becoming visible; inFlight is the effect's own.
Poll(r) ==
  /\ Unused(r)
  /\ ~\E s \in Requests : requests[s].kind = "poll" /\ requests[s].mine
  /\ requests' = [requests EXCEPT ![r] = Sent("poll", chosen)]
  /\ UNCHANGED <<stored, chosen, config, field, clicks, unloaded, mixed>>

-----------------------------------------------------------------------------
(* The owner. *)

Type(n) ==
  /\ Click
  /\ field' = Address(chosen, n)
  /\ unloaded' = FALSE
  /\ UNCHANGED <<stored, chosen, config, requests, mixed>>

\* A save sends the field for the selected agent.
SaveGateway(r) ==
  /\ Click
  /\ Unused(r) /\ ~Underway({"save", "verify", "reread"})
  /\ requests' = [requests EXCEPT ![r] = Sent("save", chosen)]
  /\ mixed' = IF unloaded THEN mixed \cup {chosen} ELSE mixed
  /\ UNCHANGED <<stored, chosen, config, field, unloaded>>

VerifyGateway(r) ==
  /\ Click
  /\ Unused(r) /\ ~Underway({"save", "verify", "reread"})
  /\ requests' = [requests EXCEPT ![r] = Sent("verify", chosen)]
  /\ UNCHANGED <<stored, chosen, config, field, unloaded, mixed>>

-----------------------------------------------------------------------------
(* The server. *)

ServeRead(r) ==
  LET q == requests[r]
  IN /\ q.at = "sent" /\ q.kind \in {"load", "poll", "reread"}
     /\ requests' = [requests EXCEPT ![r] =
          [kind |-> q.kind, agent |-> q.agent, at |-> "answered", mine |-> q.mine,
           is |-> stored[q.agent]]]
     /\ UNCHANGED <<stored, chosen, config, field, clicks, unloaded, mixed>>

\* A save of the same address keeps the readiness.
ServeSave(r) ==
  LET q == requests[r]
      new == IF q.url = stored[q.agent].url THEN stored[q.agent] ELSE [url |-> q.url, live |-> FALSE]
  IN /\ q.at = "sent" /\ q.kind = "save"
     /\ stored' = [stored EXCEPT ![q.agent] = new]
     /\ requests' = [requests EXCEPT ![r] =
          [kind |-> "save", agent |-> q.agent, at |-> "answered", mine |-> TRUE, is |-> new]]
     /\ UNCHANGED <<chosen, config, field, clicks, unloaded, mixed>>

\* The canary passes or fails; either way the page reads the configuration.
ServeVerify(r) ==
  LET q == requests[r]
  IN /\ q.at = "sent" /\ q.kind = "verify"
     /\ \E passes \in BOOLEAN : stored' = [stored EXCEPT ![q.agent].live = passes]
     /\ requests' = [requests EXCEPT ![r].kind = "reread"]
     /\ UNCHANGED <<chosen, config, field, clicks, unloaded, mixed>>

-----------------------------------------------------------------------------
(* Answers. *)

Show(q) == config' = [agent |-> q.agent, is |-> q.is]

\* Mutant: a load that was dropped shows its answer all the same.
AlwaysHeard(q) == TRUE

Heard(q) == q.kind = "load" => q.mine

\* A poll leaves the field alone.
Answer(r) ==
  LET q == requests[r]
  IN /\ q.at = "answered"
     /\ IF Heard(q)
        THEN /\ Show(q)
             /\ field' = IF q.kind = "poll" THEN field ELSE q.is.url
             /\ unloaded' = IF q.kind = "poll" THEN unloaded ELSE q.kind # "load" /\ q.agent # chosen
        ELSE UNCHANGED <<config, field, unloaded>>
     /\ requests' = [requests EXCEPT ![r] = Idle]
     /\ UNCHANGED <<stored, chosen, clicks, mixed>>

\* A load that failed shows no configuration; a poll that failed shows nothing.
Fails(r) ==
  LET q == requests[r]
  IN /\ q # Idle
     /\ config' = IF q.kind = "load" /\ q.mine THEN NoConfigShown ELSE config
     /\ requests' = [requests EXCEPT ![r] = Idle]
     /\ UNCHANGED <<stored, chosen, field, clicks, unloaded, mixed>>

DeskNext ==
  \/ \E r \in Requests :
       \/ \E a \in Desks : SelectDesk(r, a)
       \/ Poll(r) \/ SaveGateway(r) \/ VerifyGateway(r)
       \/ ServeRead(r) \/ ServeSave(r) \/ ServeVerify(r)
       \/ Answer(r) \/ Fails(r)
  \/ \E n \in 0 .. Versions : Type(n)

-----------------------------------------------------------------------------
\* The server keeps for an agent an address that the owner typed for that
\* agent, unless it was saved before the agent's configuration had been loaded
\* into the form, or after a late answer about another agent had overwritten it.
SavesKeepEndpointsApart == \A a \in Desks \ mixed : stored[a].url.of = a

=============================================================================
