------------------------------ MODULE Dashboard ------------------------------
(***************************************************************************)
(* The dashboard page: its programs are three tabs that share no state     *)
(* here. An owner has the offerings panel or the gateway controls in front *)
(* of them, a consumer the deposit form.                                   *)
(***************************************************************************)
EXTENDS OfferingsPanel, GatewayDesk, DepositPage

VARIABLE
  view  \* what the visitor has open

dashboardVars == <<view, panelVars, deskVars, pageVars>>

Views == {"offerings", "gateway", "deposit"}

DashboardInit == PanelInit /\ DeskInit /\ PageInit

OnPanel(Step) == view = "offerings" /\ Step /\ UNCHANGED <<view, deskVars, pageVars>>

OnDesk(Step) == view = "gateway" /\ Step /\ UNCHANGED <<view, panelVars, pageVars>>

OnPage(Step) == view = "deposit" /\ Step /\ UNCHANGED <<view, panelVars, deskVars>>

DashboardNext == OnPanel(PanelNext) \/ OnDesk(DeskNext) \/ OnPage(PageNext)

=============================================================================
