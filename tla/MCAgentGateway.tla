--------------------------- MODULE MCAgentGateway ---------------------------
(***************************************************************************)
(* An instance of AgentGateway for TLC: two agents with an endpoint each.  *)
(***************************************************************************)
EXTENDS AgentGateway, TLC

HomeOf == CHOOSE f \in [Agents -> Endpoints] : \A a, b \in Agents : f[a] = f[b] => a = b

=============================================================================
