---------------------------- MODULE EscrowMirror ----------------------------
(***************************************************************************)
(* What a mirror of an escrow promises: it reports only what the escrow    *)
(* has definitely gone through, and once it has named an outcome it never  *)
(* names another one. It may lag behind and may repeat itself.             *)
(***************************************************************************)

CONSTANT Escrows

VARIABLES
  reached,  \* the states each escrow has gone through for good
  mirror,   \* the state that is reported of it
  outcome   \* the outcome that is reported of it

vars == <<reached, mirror, outcome>>

Outcomes == {"COMPLETED", "REJECTED", "EXPIRED"}

\* The lives an escrow can have: closed unfunded, or funded and then paid out
\* or refunded.
Lives ==
  {{"OPEN"}, {"OPEN", "REJECTED"}, {"OPEN", "FUNDED"}, {"OPEN", "FUNDED", "EXPIRED"},
   {"OPEN", "FUNDED", "SUBMITTED"}}
  \cup {{"OPEN", "FUNDED", "SUBMITTED", s} : s \in Outcomes}

Init ==
  /\ reached = [e \in Escrows |-> {"OPEN"}]
  /\ mirror = [e \in Escrows |-> "OPEN"]
  /\ outcome = [e \in Escrows |-> "NONE"]

\* Any number of escrows move on, and the mirror does not notice.
Advance ==
  /\ \A e \in Escrows : reached'[e] \in Lives /\ reached[e] \subseteq reached'[e]
  /\ UNCHANGED <<mirror, outcome>>

Report(e) ==
  \E state \in reached[e] \ {"OPEN"} :
    /\ mirror' = [mirror EXCEPT ![e] = state]
    /\ outcome' = [outcome EXCEPT ![e] = IF state \in Outcomes THEN state ELSE @]
    /\ UNCHANGED reached

Next == Advance \/ \E e \in Escrows : Report(e)

Spec == Init /\ [][Next]_vars

=============================================================================
