------------------------------ MODULE MCClients ------------------------------
(***************************************************************************)
(* The instance of Clients for TLC.                                        *)
(***************************************************************************)
EXTENDS Clients

\* The default of the repository, one gate with a ledger that asks for LIVE
\* (and an agent whose clock is fast), and one that keeps neither nonces nor
\* a ledger.
MCDeployments ==
  {[ClosedGate EXCEPT !.open = TRUE, !.nonces = TRUE],
   [ClosedGate EXCEPT !.open = TRUE, !.ledger = TRUE, !.liveOnly = TRUE, !.ahead = 1],
   [ClosedGate EXCEPT !.open = TRUE]}

=============================================================================
