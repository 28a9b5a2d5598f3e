--------------------------- MODULE OfferingsPanel ---------------------------
(***************************************************************************)
(* components/AgentOfferingsPanel.tsx in the owner's dashboard. The panel  *)
(* reloads its list when the selected agent or the service slug it is      *)
(* given changes; nothing cancels a load, and after a write the handler    *)
(* that made it loads the list of the agent it was made for.               *)
(***************************************************************************)
EXTENDS AgentOfferings

CONSTANT
  MaxActs  \* bound on what the owner does and on changes of the panel's properties

VARIABLES
  selected,  \* agentId: the selected agent
  service,   \* serviceSlug, of the gateway configuration the dashboard shows
  shown,     \* the offerings on the screen: id and isActive
  editing,   \* the offering in the form, 0 for a new one
  form,      \* target and isActive of the form
  pending,   \* pendingToggleId, pendingDeleteId and pendingReorderId, 0 for null
  loading,   \* isLoading: the list is hidden
  acts

panelVars == <<offeringVars, selected, service, shown, editing, form, pending, loading, acts>>

Act == acts < MaxActs /\ acts' = acts + 1

\* The list of an agent as GET answers it.
Entries(a) ==
  LET ids == Listing(a)
  IN [i \in DOMAIN ids |-> [id |-> ids[i], agent |-> a, active |-> offerings[ids[i]].active]]

EmptyForm(s) == [target |-> s, active |-> TRUE]

PanelInit ==
  /\ selected = CHOOSE a \in Agents : TRUE
  /\ service = selected
  /\ OfferingsInit(selected)
  /\ shown = Entries(selected)
  /\ editing = 0
  /\ form = EmptyForm(service)
  /\ pending = [kind \in {"toggle", "delete", "reorder"} |-> 0]
  /\ loading = FALSE
  /\ acts = 0

\* The end of a call, whatever came of it, clears what its kind of button waits for.
ClearPending(c) ==
  LET kind == calls[c].kind
  IN pending' = IF calls'[c] = Free /\ kind \in DOMAIN pending THEN [pending EXCEPT ![kind] = 0]
                ELSE pending

\* A handler whose write was accepted starts to load the list.
AfterAnswer(c) ==
  /\ ClearPending(c)
  /\ loading' = (loading \/ calls'[c].at = "asked")

\* Calls are interchangeable: a new one gets the first free number.
FreeCall(c) == calls[c] = Free /\ \A d \in OwnerCalls : d < c => calls[d] # Free

-----------------------------------------------------------------------------
(* Loads. *)

\* The effects that run when agentId or serviceSlug has changed: the form is
\* emptied and the list is asked for.
ReloadFor(c, a, s) ==
  /\ FreeCall(c)
  /\ Act
  /\ selected' = a
  /\ service' = s
  /\ editing' = 0
  /\ form' = EmptyForm(s)
  /\ loading' = TRUE
  /\ Move(c, [NewCall("load", a, s) EXCEPT !.at = "asked"])
  /\ UNCHANGED <<offerings, created, asked, raced, shown, pending>>

Select(c, a) == a # selected /\ ReloadFor(c, a, service)

\* The dashboard shows the configuration of an agent, which need not be the
\* one that is selected by now.
ShowConfig(c, a) == a # service /\ ReloadFor(c, selected, a)

\* GET includeInactive; a signature for another service is refused, and then
\* the list is empty.
ReadList(c) ==
  LET call == calls[c]
  IN /\ call.at = "asked"
     /\ Move(c, [call EXCEPT !.at = "read",
                             !.list = IF Signed(call, call.agent) THEN Entries(call.agent) ELSE <<>>])
     /\ UNCHANGED <<offerings, created, asked, raced, selected, service, shown, editing, form, pending, loading, acts>>

\* The list is shown, by now perhaps an old one or another agent's. The
\* handler of a saved offering, or of the deletion of the one that was in the
\* form, then empties the form for the service it was called with.
ShowList(c) ==
  LET call == calls[c]
      empties == call.kind \in {"create", "edit"} \/ (call.kind = "delete" /\ call.open)
  IN /\ call.at = "read"
     /\ shown' = call.list
     /\ loading' = FALSE
     /\ editing' = IF empties THEN 0 ELSE editing
     /\ form' = IF empties THEN EmptyForm(call.slug) ELSE form
     /\ Move(c, Free)
     /\ ClearPending(c)
     /\ UNCHANGED <<offerings, created, asked, raced, selected, service, acts>>

-----------------------------------------------------------------------------
(* The buttons. One is disabled while its own call is under way, unless the *)
(* same button of another offering was pressed or settled meanwhile.        *)

ListedNow == IF loading THEN {} ELSE DOMAIN shown

Pending(kind) == \E c \in OwnerCalls : calls[c] # Free /\ calls[c].kind = kind /\ calls[c].here

Press(c, call) ==
  /\ FreeCall(c)
  /\ Act
  /\ Move(c, call)
  /\ pending' = IF call.kind \in DOMAIN pending THEN [pending EXCEPT ![call.kind] = call.offering]
                ELSE pending
  /\ UNCHANGED <<offerings, created, asked, raced, selected, service, shown, editing, form, loading>>

HandleSubmit(c) ==
  LET kind == IF editing = 0 THEN "create" ELSE "edit"
  IN /\ ~Pending("create") /\ ~Pending("edit")
     /\ Press(c, [NewCall(kind, selected, service) EXCEPT
                    !.offering = editing, !.target = form.target, !.active = form.active])

HandleToggle(c, entry) ==
  /\ pending["toggle"] # entry.id
  /\ Press(c, [NewCall("toggle", selected, service) EXCEPT !.offering = entry.id, !.active = ~entry.active])

HandleDelete(c, entry) ==
  /\ pending["delete"] # entry.id
  /\ Press(c, [NewCall("delete", selected, service) EXCEPT
                 !.offering = entry.id, !.open = (editing = entry.id)])

\* An entry is swapped with its neighbour.
HandleReorder(c, i) ==
  LET ids == [k \in DOMAIN shown |-> shown[k].id]
  IN /\ i + 1 \in DOMAIN shown
     /\ \E moved \in {ids[i], ids[i + 1]} :
          /\ pending["reorder"] # moved
          /\ Press(c, [NewCall("reorder", selected, service) EXCEPT
                         !.offering = moved,
                         !.ids = [ids EXCEPT ![i] = ids[i + 1], ![i + 1] = ids[i]]])

\* The service of an offering in the list is that of its agent.
HandleEdit(entry) ==
  /\ Act
  /\ editing' = entry.id
  /\ form' = [target |-> entry.agent, active |-> entry.active]
  /\ UNCHANGED <<offeringVars, selected, service, shown, pending, loading>>

ChooseDraft ==
  /\ form' = [form EXCEPT !.active = ~@]
  /\ Act
  /\ UNCHANGED <<offeringVars, selected, service, shown, editing, pending, loading>>

\* The owner creates an offering in another tab.
CreateElsewhere(c, a) ==
  /\ ~\E d \in OwnerCalls : calls[d] # Free /\ ~calls[d].here
  /\ Press(c, [NewCall("create", a, a) EXCEPT !.here = FALSE])

PanelNext ==
  \/ \E c \in OwnerCalls :
       \/ Handler(c) /\ AfterAnswer(c) /\ UNCHANGED <<selected, service, shown, editing, form, acts>>
       \/ ReadList(c) \/ ShowList(c)
       \/ HandleSubmit(c)
       \/ \E i \in ListedNow :
            HandleToggle(c, shown[i]) \/ HandleDelete(c, shown[i]) \/ HandleReorder(c, i)
       \/ \E a \in Agents : Select(c, a) \/ ShowConfig(c, a) \/ CreateElsewhere(c, a)
  \/ \E i \in ListedNow : HandleEdit(shown[i])
  \/ ChooseDraft

=============================================================================
