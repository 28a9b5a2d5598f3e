--------------------------- MODULE AgentOfferings ---------------------------
(***************************************************************************)
(* The listings an agent publishes: lib/agent-offerings.ts and the routes  *)
(* under app/api/agent-offerings. A handler reads, and writes in a later   *)
(* statement, so other calls come in between. All agents belong to one     *)
(* owner, who signs each write anew, and all have a gateway configuration; *)
(* a service slug stands for the agent whose service it is.                *)
(***************************************************************************)
EXTENDS Naturals, FiniteSets, Sequences, FiniteSetsExt, SequencesExt

CONSTANTS
  Agents,
  OwnerCalls,    \* numbers of the calls in flight (bound)
  MaxOfferings,  \* MAX_AGENT_OFFERINGS
  Existing,      \* how many offerings there are at first
  MaxCreated     \* bound on the offerings ever created

ASSUME OfferingsAssumption ==
  /\ Agents # {} /\ "none" \notin Agents
  /\ MaxOfferings \in Nat /\ Existing \in 0 .. MaxOfferings /\ MaxCreated \in Nat

VARIABLES
  offerings,  \* the rows; ids are numbered in the order of createdAt
  created,    \* how many ids have been given out
  calls,      \* where each call is, and what it carries
  asked,      \* the order last asked for of each agent
  raced       \* agents whose order was written from rows that had changed since they were read

offeringVars == <<offerings, created, calls, asked, raced>>

Ids == 1 .. MaxCreated
NoOffering == [agent |-> "none"]
Free == [at |-> "free"]

\* The offerings that exist at first are one agent's.
OfferingsInit(agent) ==
  /\ offerings = [o \in Ids |-> IF o > Existing THEN NoOffering
                                 ELSE [agent |-> agent, order |-> o - 1, active |-> TRUE]]
  /\ created = Existing
  /\ calls = [c \in OwnerCalls |-> Free]
  /\ asked = [a \in Agents |-> <<>>]
  /\ raced = {}

Own(a) == {o \in Ids : offerings[o].agent = a}

\* orderBy sortOrder, then createdAt.
Before(o, p) ==
  \/ offerings[o].order < offerings[p].order
  \/ offerings[o].order = offerings[p].order /\ o < p
Listing(a) == SetToSortSeq(Own(a), Before)

\* Mutant: a new offering gets the order of the column's default.
DefaultOrder(a) == 0

NextSortOrder(a) ==
  IF Own(a) = {} THEN 0 ELSE 1 + Max({offerings[o].order : o \in Own(a)})

\* Mutant: the signed slug is compared, the signed agent is not.
SignedForSlug(call, a) == call.slug = a

\* verifyMerchantGatewaySignedWrite compares the signed payload with the
\* configuration of the agent that is written to.
Signed(call, a) == call.agent = a /\ call.slug = a

\* validateAgentOfferingTargetBinding: the form's service is the agent's own.
OwnService(call, a) == call.target = a

\* What a call carries: the agent and the service it is signed for, the
\* offering it is about or the ids in their order, and what it writes.
NewCall(kind, a, s) ==
  [at |-> "arrives", kind |-> kind, agent |-> a, slug |-> s, target |-> s, offering |-> 0,
   active |-> TRUE, ids |-> <<>>, order |-> 0, list |-> <<>>, here |-> TRUE, open |-> FALSE]

Move(c, call) == calls' = [calls EXCEPT ![c] = call]

\* Once its write is accepted, a handler of the panel asks for the list.
Accept(c) ==
  LET call == calls[c]
  IN Move(c, IF call.here
             THEN [NewCall(call.kind, call.agent, call.slug) EXCEPT
                     !.at = "asked", !.offering = call.offering, !.open = call.open]
             ELSE Free)

Refuse(c) == Move(c, Free) /\ UNCHANGED <<offerings, created, asked, raced>>
Proceed(c, at) == Move(c, [calls[c] EXCEPT !.at = at]) /\ UNCHANGED <<offerings, created, asked, raced>>

-----------------------------------------------------------------------------
(* POST: the count, the next order and the insert are three statements.     *)

CheckCreate(c) ==
  LET call == calls[c]
  IN /\ call.at = "arrives" /\ call.kind = "create"
     /\ IF /\ Signed(call, call.agent)
           /\ OwnService(call, call.agent)
           /\ Cardinality(Own(call.agent)) < MaxOfferings
        THEN Proceed(c, "counted")
        ELSE Refuse(c)

ReadOrder(c) ==
  /\ calls[c].at = "counted"
  /\ Move(c, [calls[c] EXCEPT !.at = "ordered", !.order = NextSortOrder(calls[c].agent)])
  /\ UNCHANGED <<offerings, created, asked, raced>>

Insert(c) ==
  LET call == calls[c]
  IN /\ call.at = "ordered"
     /\ created < MaxCreated
     /\ created' = created + 1
     /\ offerings' = [offerings EXCEPT ![created + 1] =
          [agent |-> call.agent, order |-> call.order, active |-> call.active]]
     /\ raced' = IF NextSortOrder(call.agent) > call.order THEN raced \cup {call.agent} ELSE raced
     /\ Accept(c)
     /\ UNCHANGED asked

-----------------------------------------------------------------------------
(* PATCH and DELETE: the row is looked up first. The agent of the row is    *)
(* the one the signature has to be for.                                     *)

LookUp(c) ==
  LET call == calls[c]
      row == offerings[call.offering]
  IN /\ call.at = "arrives" /\ call.kind \in {"edit", "toggle", "delete"}
     /\ IF /\ row # NoOffering
           /\ Signed(call, row.agent)
           /\ call.kind = "edit" => OwnService(call, row.agent)
        THEN Proceed(c, "found")
        ELSE Refuse(c)

\* The write by id throws if the row has gone.
Update(c) ==
  LET call == calls[c]
  IN /\ call.at = "found" /\ call.kind \in {"edit", "toggle"}
     /\ IF offerings[call.offering] = NoOffering THEN Refuse(c)
        ELSE /\ offerings' = [offerings EXCEPT ![call.offering].active = call.active]
             /\ Accept(c)
             /\ UNCHANGED <<created, asked, raced>>

Delete(c) ==
  LET call == calls[c]
  IN /\ call.at = "found" /\ call.kind = "delete"
     /\ IF offerings[call.offering] = NoOffering THEN Refuse(c)
        ELSE /\ offerings' = [offerings EXCEPT ![call.offering] = NoOffering]
             /\ Accept(c)
             /\ UNCHANGED <<created, asked, raced>>

-----------------------------------------------------------------------------
(* POST reorder: the ids are compared, then one transaction numbers them.   *)

IsReorder(a, ids) == ids \in Seq(Ids) /\ IsInjective(ids) /\ ToSet(ids) = Own(a)

CheckReorder(c) ==
  LET call == calls[c]
  IN /\ call.at = "arrives" /\ call.kind = "reorder"
     /\ IF Signed(call, call.agent) /\ IsReorder(call.agent, call.ids)
        THEN Proceed(c, "compared")
        ELSE Refuse(c)

Renumber(c) ==
  LET call == calls[c]
      place == [o \in ToSet(call.ids) |-> CHOOSE i \in DOMAIN call.ids : call.ids[i] = o]
  IN /\ call.at = "compared"
     /\ IF \E o \in ToSet(call.ids) : offerings[o] = NoOffering THEN Refuse(c)
        ELSE /\ offerings' = [o \in Ids |-> IF o \in ToSet(call.ids)
                               THEN [offerings[o] EXCEPT !.order = place[o] - 1] ELSE offerings[o]]
             /\ asked' = [asked EXCEPT ![call.agent] = call.ids]
             /\ raced' = IF ToSet(call.ids) # Own(call.agent) THEN raced \cup {call.agent} ELSE raced
             /\ Accept(c)
             /\ UNCHANGED created

Handler(c) ==
  \/ CheckCreate(c) \/ ReadOrder(c) \/ Insert(c)
  \/ LookUp(c) \/ Update(c) \/ Delete(c)
  \/ CheckReorder(c) \/ Renumber(c)

-----------------------------------------------------------------------------
\* An agent's page lists the offerings in the order the owner last asked for,
\* and what was created later after them, whatever deletions and edits overlap:
\* of those asked for, the one at i comes before all but its predecessors there.
\* The exceptions are an offering created between the two statements of a
\* reorder, and two of one order, from creates that overlapped.
AskedOrderFirst ==
  \A a \in Agents \ raced : \A i \in DOMAIN asked[a] : \A o \in Own(a) :
    asked[a][i] \in Own(a) => Before(asked[a][i], o) \/ \E j \in 1 .. i : asked[a][j] = o

\* An offering changes only by a call that the owner made for its agent,
\* although the buttons belong to whatever list is on the screen.
OfferingWriteIsMeant ==
  [][\A o \in Ids : offerings'[o] # offerings[o] =>
       \E c \in OwnerCalls :
         /\ calls'[c] # calls[c]
         /\ calls[c].at \in {"ordered", "found", "compared"}
         /\ calls[c].agent \in {offerings[o].agent, offerings'[o].agent} \ {"none"}]_offeringVars

=============================================================================
