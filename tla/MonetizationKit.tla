--------------------------- MODULE MonetizationKit ---------------------------
(***************************************************************************)
(* A route of ghost.config as a merchant serves it: the kit resolves it to *)
(* a rail when the handler is bound, and requests are served by that       *)
(* rail's adapter.  A hybrid route needs a rail with its selection; the    *)
(* MCP proxy resolves a tool's selection when it is made, but binds the    *)
(* handler of a call to the route's id alone.  What else is asked of the   *)
(* proxy it forwards to the merchant's MCP server, or refuses.             *)
(***************************************************************************)
EXTENDS ExpressRail, X402Rail

VARIABLES
  rail  \* what serves the request: express, x402, upstream without a rail, or nothing

kitVars == <<rail, railVars, x402Vars>>

\* resolveGhostHttpMonetizationRoute: what is selected counts for hybrid only.
Resolve(railOfRoute, selected) ==
  IF railOfRoute # "hybrid" THEN railOfRoute
  ELSE IF selected = "none" THEN "refused" ELSE selected

\* withNextNode and its siblings bind a handler to a route and its selection.
Bound(railOfRoute, selected) == Resolve(railOfRoute, selected)

\* createGhostMcpProxy resolves a tool's route with its selection, or throws,
\* and then binds the handler of a call to entry.route.id.
BoundByProxy(railOfRoute, selected) ==
  IF Resolve(railOfRoute, selected) = "refused" THEN "refused" ELSE Resolve(railOfRoute, "none")

\* forwardGhostMcpUpstreamRequest: the merchant's MCP server answers, or the
\* timeout ends the request; no rail sees it.
Forwarded == "upstream"

\* resolveGhostMcpProxyRequest: a request that is no POST, no JSON-RPC message
\* or another method, tools/list (whose answer gets the prices), a batch, a
\* call without a name or of a tool without a price, and a call of a priced tool.
McpRequests == {"other", "tools/list", "batch", "unnamed", "unpriced", "priced"}

Proxied(asked, railOfRoute, selected) ==
  IF asked = "priced" THEN BoundByProxy(railOfRoute, selected)
  ELSE IF asked \in {"batch", "unnamed", "unpriced"} THEN "refused" ELSE Forwarded

\* The x402 setup of a route that is not served by x402 plays no part.
KitInit ==
  /\ \E railOfRoute \in {"express", "x402", "hybrid"}, selected \in {"none", "express", "x402"} :
       \/ rail = Bound(railOfRoute, selected)
       \/ \E asked \in McpRequests : rail = Proxied(asked, railOfRoute, selected)
  /\ RailInit
  /\ X402Init
  /\ rail # "x402" => setup = CHOOSE any \in Setups : TRUE

OnExpress(Step) == rail = "express" /\ Step /\ UNCHANGED <<rail, x402Vars>>

OnX402(Step) == rail = "x402" /\ Step /\ UNCHANGED <<rail, railVars>>

KitNext == OnExpress(RailNext) \/ OnX402(X402Next)

=============================================================================
