---------------------------- MODULE AgentGateway ----------------------------
(***************************************************************************)
(* The agent gateway: a merchant saves where its agent is served, a canary *)
(* request proves it and makes the gateway LIVE, delegated signers are     *)
(* registered under a cap, and a scheduled recheck keeps readiness true    *)
(* (app/api/agent-gateway, lib/agent-gateway-canary.ts).  Every route asks *)
(* the rows of AgentIndexer who owns the agent.                            *)
(*                                                                         *)
(* Time is counted in recheck intervals: an age is the number of scheduled *)
(* rechecks since a canary request, Old when it no longer matters how many.*)
(* A signed request is one whose actor is the owner it names.              *)
(***************************************************************************)
EXTENDS AgentIndexer

CONSTANTS
  Endpoints,        \* endpointUrl, canaryPath and serviceSlug of a config
  Home,             \* the endpoint every agent starts with
  Signers,
  Callers,          \* clients of the routes
  MaxActive,        \* AGENT_GATEWAY_MAX_ACTIVE_DELEGATED_SIGNERS
  Limit,            \* of configs in one recheck
  ConfiguredStale,  \* getAgentGatewayLiveStaleAfterMs, in intervals
  BufferRuns        \* getAgentGatewayRecheckStaleBufferRuns

ASSUME GatewayAssumption ==
  /\ Home \in [Agents -> Endpoints]
  /\ IsFiniteSet(Agents) /\ IsFiniteSet(Callers) /\ Callers # {}
  /\ MaxActive \in Nat \ {0} /\ Limit \in Nat \ {0}
  /\ ConfiguredStale \in Nat \ {0} /\ BufferRuns \in Nat

VARIABLES
  gateway,   \* AgentGatewayConfig
  signers,   \* AgentGatewayDelegatedSigner: per agent, the rows in order
  calls,     \* requests in flight
  recheck,   \* the scheduled recheck
  answers,   \* which endpoints answer a canary request as they should
  proven,    \* history: agents whose endpoint answered since it was saved
  overtook,  \* history: agents saved while a canary request was in flight
  crowded    \* history: agents two registrations counted the signers of together

indexVars == <<log, row, cursor, job, unsure>>
history == <<proven, overtook, crowded>>
gatewayVars == <<gateway, signers, calls, recheck, answers, history>>
vars == <<indexerVars, gatewayVars>>

(* Mutant: the window does not grow with the gateways. *)
FixedWindow(live) == ConfiguredStale

(* A LIVE gateway is stale after this many intervals: the scheduler needs  *)
(* a run for every Limit of them.                                          *)
StaleAfter(live) ==
  LET runs == (live + Limit - 1) \div Limit IN
  IF live = 0 \/ runs + BufferRuns < ConfiguredStale THEN ConfiguredStale ELSE runs + BufferRuns

Old == StaleAfter(Cardinality(Agents)) + 1
Never == Old + 1
Ages == 0..Never
Older(age) == IF age < Old THEN age + 1 ELSE age

(* era tells the configs, and their rows, apart from those before a reset. *)
Statuses == {"CONFIGURED", "LIVE", "DEGRADED"}
Configs == [owner : Owners, endpoint : Endpoints, status : Statuses, passed : Ages,
            checked : Ages, era : Nat]
NoConfig == [status |-> "none"]
HasConfig(a) == gateway[a] # NoConfig

Configured(owner, endpoint, era) ==
  [owner |-> owner, endpoint |-> endpoint, status |-> "CONFIGURED", passed |-> Never,
   checked |-> Never, era |-> era]

(* What a canary keeps of the config it read, and the answer it got. *)
Seen(a) == [agent |-> a, endpoint |-> gateway[a].endpoint, status |-> gateway[a].status,
            era |-> gateway[a].era]
Seens == [agent : Agents, endpoint : Endpoints, status : Statuses, era : Nat]
Answer(seen) == [seen |-> seen, passed |-> answers[seen.endpoint], age |-> 0]
AnswersSeen == [seen : Seens, passed : BOOLEAN, age : Ages]

SignerRows == [signer : Signers, active : BOOLEAN]

(* A request of a client between two of its steps. *)
NoCall == [step |-> "none"]
Calls ==
  {NoCall}
    \cup [step : {"save"}, agent : Agents, owner : Owners, endpoint : Endpoints]
    \cup [step : {"fetch"}, agent : Agents, seen : Seens]
    \cup [step : {"persist"}, agent : Agents, got : AnswersSeen]
    \cup [step : {"create"}, agent : Agents, signer : Signers, era : Nat]
    \cup [step : {"revoke"}, agent : Agents, id : Nat, era : Nat]

Rechecks == [step : {"rest", "sweep", "live", "degraded"}, batch : SUBSET Seens, stale : Nat,
             got : SUBSET AnswersSeen]
NoRecheck == [step |-> "rest", batch |-> {}, stale |-> 0, got |-> {}]

(* The gateways in service, LIVE or not yet verified, with no signer yet.  *)
Init ==
  /\ IndexerInit
  /\ \E live \in SUBSET Agents :
       /\ gateway = [a \in Agents |->
            IF a \in live
            THEN [Configured(row[a].owner, Home[a], 0) EXCEPT !.status = "LIVE", !.passed = 0, !.checked = 0]
            ELSE Configured(row[a].owner, Home[a], 0)]
       /\ proven = live
  /\ signers = [a \in Agents |-> <<>>]
  /\ calls = [c \in Callers |-> NoCall]
  /\ recheck = NoRecheck
  /\ answers = [e \in Endpoints |-> TRUE]
  /\ overtook = {} /\ crowded = {}

-----------------------------------------------------------------------------
(* Canary requests *)

(* Canaries of a that have read its config and not written their outcome.  *)
UnderWay(a) ==
  \/ \E c \in Callers : calls[c].step \in {"fetch", "persist"} /\ calls[c].agent = a
  \/ \E seen \in recheck.batch : seen.agent = a
  \/ \E got \in recheck.got : got.seen.agent = a

(* Mutant: a gateway that was never verified is degraded, too. *)
FailedIsDegraded(status, passed) == IF passed THEN "LIVE" ELSE "DEGRADED"

resolveGatewayReadinessAfterCanary(status, passed) ==
  IF passed THEN "LIVE"
  ELSE IF status \in {"LIVE", "DEGRADED"} THEN "DEGRADED" ELSE "CONFIGURED"

(* The config whose id the canary read is still there. *)
Present(seen) == HasConfig(seen.agent) /\ gateway[seen.agent].era = seen.era

(* One transaction for the config and the history of its canaries.  The    *)
(* new status is computed from the one that was read before the request.   *)
Persisted(got) ==
  LET config == gateway[got.seen.agent] IN
  IF ~Present(got.seen) THEN gateway
  ELSE [gateway EXCEPT ![got.seen.agent] =
         [config EXCEPT
            !.status = resolveGatewayReadinessAfterCanary(got.seen.status, got.passed),
            !.checked = got.age,
            !.passed = IF got.passed THEN got.age ELSE config.passed]]

(* History only: the endpoint that is saved now has answered. *)
Proves(got) ==
  IF got.passed /\ Present(got.seen) /\ gateway[got.seen.agent].endpoint = got.seen.endpoint
  THEN proven \cup {got.seen.agent}
  ELSE proven

(* The service behind an endpoint comes and goes. *)
Turn ==
  /\ \E e \in Endpoints : answers' = [answers EXCEPT ![e] = ~@]
  /\ UNCHANGED <<indexerVars, gateway, signers, calls, recheck, history>>

-----------------------------------------------------------------------------
(* The merchant's routes *)

(* Clients differ in nothing: a request goes to any one that is idle. *)
Idle(c) == calls[c] = NoCall /\ c = CHOOSE d \in Callers : calls[d] = NoCall

Finish(c) == calls' = [calls EXCEPT ![c] = NoCall]

Ask(c, call) == Event /\ Idle(c) /\ calls' = [calls EXCEPT ![c] = call]

IsOwner(a, o) == row[a] # NoRow /\ row[a].owner = o

SaveRead(c, a, o, e) ==
  /\ IsOwner(a, o)
  /\ Ask(c, [step |-> "save", agent |-> a, owner |-> o, endpoint |-> e])
  /\ UNCHANGED <<indexVars, gateway, signers, recheck, answers, history>>

(* An upsert: the row keeps its id, and its signers, when there is one. *)
SaveWrite(c) ==
  /\ calls[c].step = "save"
  /\ LET a == calls[c].agent
         era == IF HasConfig(a) THEN gateway[a].era ELSE events
     IN IF row[a] = NoRow THEN UNCHANGED <<gateway, proven, overtook>>
        ELSE /\ gateway' = [gateway EXCEPT ![a] = Configured(calls[c].owner, calls[c].endpoint, era)]
             /\ proven' = proven \ {a}
             /\ overtook' = IF UnderWay(a) THEN overtook \cup {a} ELSE overtook
  /\ Finish(c)
  /\ UNCHANGED <<indexerVars, signers, recheck, answers, crowded>>

(* The owner of the config has to be the one the index has now. *)
ActsFor(a, o) == HasConfig(a) /\ IsOwner(a, o) /\ gateway[a].owner = o

VerifyRead(c, a, o) ==
  /\ ActsFor(a, o)
  /\ Ask(c, [step |-> "fetch", agent |-> a, seen |-> Seen(a)])
  /\ UNCHANGED <<indexVars, gateway, signers, recheck, answers, history>>

VerifyFetch(c) ==
  /\ calls[c].step = "fetch"
  /\ LET got == Answer(calls[c].seen) IN
       /\ calls' = [calls EXCEPT ![c] = [step |-> "persist", agent |-> @.agent, got |-> got]]
       /\ proven' = Proves(got)
  /\ UNCHANGED <<indexerVars, gateway, signers, recheck, answers, overtook, crowded>>

VerifyPersist(c) ==
  /\ calls[c].step = "persist"
  /\ gateway' = Persisted(calls[c].got)
  /\ Finish(c)
  /\ UNCHANGED <<indexerVars, signers, recheck, answers, history>>

Active(a) == {i \in DOMAIN signers[a] : signers[a][i].active}

(* Registrations that have counted and not created. *)
Creating(a) ==
  {c \in Callers : /\ calls[c].step = "create" /\ calls[c].agent = a
                   /\ HasConfig(a) /\ calls[c].era = gateway[a].era}

(* Mutant: one too many. *)
VacancyOrLast(a) == Cardinality(Active(a)) <= MaxActive

Vacancy(a) == Cardinality(Active(a)) < MaxActive

(* findFirst and count, and only then, on its own, create.  A signer that  *)
(* is active, or one too many, is answered at once.                        *)
RegisterCheck(c, a, o, s) ==
  /\ ActsFor(a, o)
  /\ ~\E i \in Active(a) : signers[a][i].signer = s
  /\ Vacancy(a)
  /\ Ask(c, [step |-> "create", agent |-> a, signer |-> s, era |-> gateway[a].era])
  /\ crowded' = IF Creating(a) = {} THEN crowded ELSE crowded \cup {a}
  /\ UNCHANGED <<indexVars, gateway, signers, recheck, answers, proven, overtook>>

RegisterCreate(c) ==
  /\ calls[c].step = "create"
  /\ LET a == calls[c].agent IN
       signers' = IF HasConfig(a) /\ gateway[a].era = calls[c].era
                  THEN [signers EXCEPT ![a] = Append(@, [signer |-> calls[c].signer, active |-> TRUE])]
                  ELSE signers
  /\ Finish(c)
  /\ UNCHANGED <<indexerVars, gateway, recheck, answers, history>>

(* The row is revoked by its id, whatever it has become since it was read. *)
RevokeRead(c, a, o) ==
  /\ ActsFor(a, o)
  /\ \E i \in Active(a) :
       Ask(c, [step |-> "revoke", agent |-> a, id |-> i, era |-> gateway[a].era])
  /\ UNCHANGED <<indexVars, gateway, signers, recheck, answers, history>>

RevokeWrite(c) ==
  /\ calls[c].step = "revoke"
  /\ LET a == calls[c].agent IN
       signers' = IF HasConfig(a) /\ gateway[a].era = calls[c].era
                  THEN [signers EXCEPT ![a][calls[c].id].active = FALSE]
                  ELSE signers
  /\ Finish(c)
  /\ UNCHANGED <<indexerVars, gateway, recheck, answers, history>>

CallStep(c) ==
  \/ \E a \in Busy, o \in Owners :
       \/ \E e \in Endpoints : SaveRead(c, a, o, e)
       \/ VerifyRead(c, a, o)
       \/ \E s \in Signers : RegisterCheck(c, a, o, s)
       \/ RevokeRead(c, a, o)
  \/ SaveWrite(c) \/ VerifyFetch(c) \/ VerifyPersist(c) \/ RegisterCreate(c) \/ RevokeWrite(c)

-----------------------------------------------------------------------------
(* The scheduled recheck (gateway-recheck.yml): a call for the LIVE configs*)
(* and then one for the DEGRADED ones.  Runs of the schedule do not overlap*)

(* The first Limit of the configs with this status, ordered by one column, *)
(* the oldest first.  Ties are broken either way.                          *)
FirstOf(status, column) ==
  LET all == {a \in Agents : gateway[a].status = status}
  IN {batch \in SUBSET all :
        /\ IF Cardinality(all) <= Limit THEN batch = all ELSE Cardinality(batch) = Limit
        /\ \A a \in batch, b \in all \ batch : gateway[a][column] >= gateway[b][column]}

(* An interval has passed since the last time.  A request of the routes    *)
(* waits for its canary some seconds, not half an hour: the one it ran into*)
(* is over before the next.                                                *)
ListLive ==
  /\ recheck.step = "rest"
  /\ \A c \in Callers : calls[c].step = "persist" => calls[c].got.age = 0
  /\ \E batch \in FirstOf("LIVE", "passed") :
       recheck' = [step  |-> "sweep",
                   batch |-> {Seen(a) : a \in batch},
                   stale |-> StaleAfter(Cardinality({a \in Agents : gateway[a].status = "LIVE"})),
                   got   |-> {}]
  /\ gateway' = [a \in Agents |->
       IF HasConfig(a)
       THEN [gateway[a] EXCEPT !.passed = Older(@), !.checked = Older(@)]
       ELSE NoConfig]
  /\ calls' = [c \in Callers |->
       IF calls[c].step = "persist" THEN [calls[c] EXCEPT !.got.age = Older(@)] ELSE calls[c]]
  /\ UNCHANGED <<indexerVars, signers, answers, history>>

(* degradeStaleAgentGatewayConfigs.  A canary of age n was sent between    *)
(* n - 1 and n + 1 intervals ago: at the margin it is stale or not.        *)
Sweep ==
  /\ recheck.step = "sweep"
  /\ LET unlisted == {a \in Agents : gateway[a].status = "LIVE" /\ ~\E seen \in recheck.batch : seen.agent = a}
         margin == {a \in unlisted : gateway[a].passed = recheck.stale}
         stale == {a \in unlisted : gateway[a].passed > recheck.stale}
     IN \E more \in SUBSET margin :
          gateway' = [a \in Agents |->
            IF a \in stale \cup more THEN [gateway[a] EXCEPT !.status = "DEGRADED"] ELSE gateway[a]]
  /\ recheck' = [recheck EXCEPT !.step = "live", !.stale = 0]
  /\ UNCHANGED <<indexerVars, signers, calls, answers, history>>

(* One config after the other: a canary request, and its outcome. *)
RecheckFetch ==
  /\ recheck.step \in {"live", "degraded"}
  /\ recheck.got = {}
  /\ \E seen \in recheck.batch :
       /\ recheck' = [recheck EXCEPT !.batch = @ \ {seen}, !.got = {Answer(seen)}]
       /\ proven' = Proves(Answer(seen))
  /\ UNCHANGED <<indexerVars, gateway, signers, calls, answers, overtook, crowded>>

(* A config that has gone makes the whole call fail. *)
RecheckPersist ==
  /\ \E got \in recheck.got :
       /\ gateway' = Persisted(got)
       /\ recheck' = IF Present(got.seen) THEN [recheck EXCEPT !.got = {}] ELSE NoRecheck
  /\ UNCHANGED <<indexerVars, signers, calls, answers, history>>

WorkedOff(step) == recheck.step = step /\ recheck.batch = {} /\ recheck.got = {}

ListDegraded ==
  /\ WorkedOff("live")
  /\ \E batch \in FirstOf("DEGRADED", "checked") :
       recheck' = [recheck EXCEPT !.step = "degraded", !.batch = {Seen(a) : a \in batch}]
  /\ UNCHANGED <<indexerVars, gateway, signers, calls, answers, history>>

EndRecheck ==
  /\ WorkedOff("degraded")
  /\ recheck' = NoRecheck
  /\ UNCHANGED <<indexerVars, gateway, signers, calls, answers, history>>

RecheckStep ==
  ListLive \/ Sweep \/ RecheckFetch \/ RecheckPersist \/ ListDegraded \/ EndRecheck

(* The function is stopped, at its time limit or with its instance. *)
RecheckStops ==
  /\ Event
  /\ recheck.step # "rest"
  /\ recheck' = NoRecheck
  /\ UNCHANGED <<indexVars, gateway, signers, calls, answers, history>>

-----------------------------------------------------------------------------
(* Deleting the agents deletes their configs, signers and history. *)
Reset ==
  /\ ResetRows
  /\ gateway' = [a \in Agents |-> NoConfig]
  /\ signers' = [a \in Agents |-> <<>>]
  /\ UNCHANGED <<calls, recheck, answers, history>>

Next ==
  \/ IndexerStep /\ UNCHANGED gatewayVars
  \/ \E c \in Callers : CallStep(c)
  \/ RecheckStep
  \/ RecheckStops
  \/ Reset
  \/ Turn

Spec == Init /\ [][Next]_vars

(* The schedule calls the recheck again and again, a call runs to its end  *)
(* and a canary times out.  Nothing is asked of merchants, endpoints or the*)
(* indexer.                                                                *)
FairSpec == Spec /\ WF_vars(RecheckStep) /\ \A c \in Callers : WF_vars(VerifyPersist(c))

-----------------------------------------------------------------------------
(* Properties *)

GatewayTypeOK ==
  /\ IndexerTypeOK
  /\ gateway \in [Agents -> Configs \cup {NoConfig}]
  /\ signers \in [Agents -> Seq(SignerRows)]
  /\ calls \in [Callers -> Calls]
  /\ recheck \in Rechecks
  /\ answers \in [Endpoints -> BOOLEAN]
  /\ proven \subseteq Agents /\ overtook \subseteq Agents /\ crowded \subseteq Agents

(* A gateway leaves CONFIGURED only after the endpoint it names has        *)
(* answered a canary request since it was saved, unless a request for what *)
(* the config was before was still under way then: the outcome of such a   *)
(* request, and the status that goes with it, is written over the new      *)
(* config (lib/agent-gateway-canary.ts:333-411, config/route.ts:439).      *)
ReadyMeansProven ==
  \A a \in Agents \ overtook : gateway[a].status \in {"LIVE", "DEGRADED"} => a \in proven

(* The cap on active signers holds, with the registrations that were       *)
(* allowed and have not written yet, unless two of them counted together:  *)
(* the count and the row it allows are not one transaction.  Even then it  *)
(* is exceeded by fewer than there are requests at a time                  *)
(* (delegated-signers/register/route.ts:194-213).                          *)
SignersBounded ==
  \A a \in Agents :
    LET taken == Cardinality(Active(a)) + Cardinality(Creating(a)) IN
    /\ a \notin crowded => taken <= MaxActive
    /\ taken <= MaxActive - 1 + Cardinality(Callers)

Silent(a) == HasConfig(a) /\ ~answers[gateway[a].endpoint]
Live(a) == gateway[a].status = "LIVE"
Served(a) == gateway[a].status \in {"LIVE", "DEGRADED"} /\ answers[gateway[a].endpoint]

(* Readiness follows the endpoint, although a recheck looks at Limit       *)
(* gateways only: one whose endpoint does not answer any more ends up not  *)
(* LIVE, and one whose endpoint answers again becomes LIVE and stays so,   *)
(* which needs the stale window to grow with the number of LIVE gateways   *)
(* (lib/agent-gateway-canary.ts:126-155, recheck/route.ts:129-308).        *)
ReadinessFollows ==
  \A a \in Agents :
    /\ <>[]Silent(a) => <>[]~Live(a)
    /\ <>[]Served(a) => <>[]Live(a)

=============================================================================
