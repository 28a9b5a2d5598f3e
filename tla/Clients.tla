------------------------------- MODULE Clients -------------------------------
(***************************************************************************)
(* The programs that call Ghost's server, each on its own machine: the     *)
(* route of a merchant's service, with the kit, a dashboard page, or an    *)
(* agent that asks the gate for access.                                    *)
(***************************************************************************)
EXTENDS MonetizationKit, Dashboard, GateRail

vars == <<kitVars, dashboardVars, gateVars>>

\* Where a page is open or an agent calls, no route is served.
NoService ==
  /\ rail = "refused"
  /\ RailInit
  /\ X402Init
  /\ setup = CHOOSE any \in Setups : TRUE

Init ==
  /\ DashboardInit
  /\ \/ view = "none" /\ KitInit /\ GateClosed
     \/ view \in Views /\ NoService /\ GateClosed
     \/ view = "none" /\ NoService /\ GateInit

AtService(Step) == Step /\ UNCHANGED <<dashboardVars, gateVars>>

AtPage(Step) == Step /\ UNCHANGED <<kitVars, gateVars>>

AtGate(Step) == Step /\ UNCHANGED <<kitVars, dashboardVars>>

Next == AtService(KitNext) \/ AtPage(DashboardNext) \/ AtGate(GateNext)

Spec == Init /\ [][Next]_vars

-----------------------------------------------------------------------------
\* The clock runs and the sweep is scheduled; the drain of the reporter goes
\* on while its queue is not empty, and a fetch ends in an answer or an error.
Fairness ==
  /\ WF_kitVars(OnExpress(RailTick))
  /\ \A t \in Tickets : WF_kitVars(OnExpress(Sweep(t)))
  /\ WF_kitVars(OnX402(TakeEntry))
  /\ WF_kitVars(OnX402(ReportArrives \/ AnswerLost))
  /\ WF_kitVars(OnX402(ReportAccepted \/ RetryOrDrop))

FairSpec == Spec /\ Fairness

-----------------------------------------------------------------------------
\* What a consumer or an agent is charged is explained by what was done for
\* it and by what it was told, on the express rail and at the gate.
ChargesExplained == ChargeExplained /\ GateChargeExplained

=============================================================================
