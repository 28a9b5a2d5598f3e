---------------------------- MODULE ScorePipeline ----------------------------
(***************************************************************************)
(* The ranking pipeline: scripts/score-v2.ts reads what agents earned,     *)
(* keeps one score input for each, and publishes a leaderboard snapshot;   *)
(* lib/trust-artifact-store.ts issues a trust artifact for every row of    *)
(* it; scripts/prune-score-snapshots.ts deletes old snapshots; and         *)
(* GET /api/agents serves the active one.                                  *)
(*                                                                         *)
(* The workflow runs refresh, snapshot and retention in that order, one    *)
(* run at a time (its concurrency group); any run may stop anywhere. The   *)
(* backfill of trust artifacts is a script of its own, started by hand.    *)
(* Every database call is retried when its answer is lost, so a call that  *)
(* is not idempotent has an unheard form. Of a score only the part that    *)
(* decides what is served is kept: whether the agent has evidence from a   *)
(* rail, and whether it counts as claimed.                                 *)
(***************************************************************************)
EXTENDS Integers, FiniteSets, Sequences, SequencesExt

CONSTANTS
  Agents,      \* indexed agents
  Earners,     \* agents whose rails may gain or lose evidence
  MaxRows,     \* bound on the LeaderboardSnapshot rows kept at a time
  KeepReady,   \* keepReadySnapshots
  MaxDelete,   \* maxDeleteSnapshots
  Runner,      \* the workflow's own issuing of artifacts
  Backfill     \* scripts/backfill-portable-trust.ts

ASSUME PipelineAssumption ==
  /\ Earners \subseteq Agents
  /\ MaxRows \in Nat
  /\ KeepReady \in Nat \ {0}
  /\ MaxDelete \in Nat
  /\ Runner # Backfill

VARIABLES
  evidence,   \* agents with settlements or finished jobs inside the score window
  input,      \* AgentScoreInput rows
  snapshot,   \* LeaderboardSnapshot rows, oldest first, with their score rows and artifacts
  run,        \* where the workflow stands
  issuer,     \* where each issuing of artifacts stands
  ranked,     \* agents whose rows in the snapshot last activated say claimed
  reader      \* the snapshot a request of GET /api/agents has chosen

vars == <<evidence, input, snapshot, run, issuer, ranked, reader>>

Issuers == {Runner, Backfill}
NoInput == [rail |-> FALSE]
Input == [rail : BOOLEAN, claimed : BOOLEAN]

\* rows: agents with a score row; trusted: agents whose artifact for this
\* snapshot is active; recent: younger than keepNonReadyHours.
Building == [status |-> "BUILDING", active |-> FALSE, recent |-> TRUE, rows |-> {}, trusted |-> {}]
Snapshot == [status : {"BUILDING", "READY", "FAILED"}, active : BOOLEAN, recent : BOOLEAN,
             rows : SUBSET Agents, trusted : SUBSET Agents]

\* A snapshot is named by its place in the table; whoever still names one that
\* was deleted names Gone.
None == 0
Gone == -1
AfterDelete(i, name) == IF name = i THEN Gone ELSE IF name > i THEN name - 1 ELSE name

Resting == [step |-> "idle", seen |-> [a \in Agents |-> NoInput], todo |-> {}, claims |-> {},
            snap |-> None, doomed |-> {}]
NotIssuing == [at |-> "idle", snap |-> None, todo |-> {}]
\* missed: rankings published since; after KeepReady of them nothing is promised.
NoRequest == [snap |-> None, missed |-> 0]

Init ==
  /\ evidence = {}
  /\ input = [a \in Agents |-> NoInput]
  /\ snapshot = <<>>
  /\ run = Resting
  /\ issuer = [p \in Issuers |-> NotIssuing]
  /\ ranked = {}
  /\ reader = NoRequest

Existing == DOMAIN snapshot
IsReady(s) == snapshot[s].status = "READY"
Served == {s \in Existing : snapshot[s].active /\ IsReady(s)}
Unfinished == {s \in Existing : ~IsReady(s)}

\* The table is bounded here, so a run may fail only where the next one can
\* still create its snapshot, and leaves at most one unfinished.
Room(k) == Len(snapshot) + k <= MaxRows
MayFail == run.step \in {"ingest", "sync"} \/ (Room(1) /\ Unfinished \subseteq {run.snap})

(***************************************************************************)
(* Refresh: ingestScoreInputs. Agents and inputs are loaded once; changed  *)
(* inputs are upserted in chunks; then the rails' rollups are read and     *)
(* compared with the loaded copy, not with the rows just written. Both     *)
(* writes are absolute, so a retried one changes nothing.                  *)
(***************************************************************************)
\* An agent stands for the chunk it is written in; chunks come one by one.
NextChunk(todo) == CHOOSE a \in todo : TRUE

HasInput == {a \in Agents : input[a] # NoInput}
hasRail(row) == row # NoInput /\ row.rail

\* deriveScoreInputClaimState over the loaded copy.
hasSourceDelta(row) == row = NoInput \/ row.claimed # hasRail(row)

\* Mutant: the sync only ever takes evidence away.
railLost(row, has) == hasRail(row) /\ ~has
railMetricFieldsChanged(row, has) == hasRail(row) # has

LoadSources ==
  /\ run.step = "idle"
  /\ run' = [Resting EXCEPT !.step = "ingest", !.seen = input,
                            !.todo = {a \in Agents : hasSourceDelta(input[a])}]
  /\ UNCHANGED <<evidence, input, snapshot, issuer, reader, ranked>>

UpsertScoreInput(a) ==
  /\ run.step = "ingest"
  /\ run.todo # {} /\ a = NextChunk(run.todo)
  /\ input' = [input EXCEPT ![a] = [rail |-> hasRail(run.seen[a]), claimed |-> hasRail(run.seen[a])]]
  /\ run' = [run EXCEPT !.todo = @ \ {a}]
  /\ UNCHANGED <<evidence, snapshot, issuer, reader, ranked>>

FetchRollups ==
  /\ run.step = "ingest"
  /\ run.todo = {}
  /\ run' = [run EXCEPT !.step = "sync",
                        !.todo = {a \in Agents : railMetricFieldsChanged(run.seen[a], a \in evidence)}]
  /\ UNCHANGED <<evidence, input, snapshot, issuer, reader, ranked>>

SyncRailMetrics(a) ==
  /\ run.step = "sync"
  /\ run.todo # {} /\ a = NextChunk(run.todo)
  /\ a \in HasInput
  /\ input' = [input EXCEPT ![a].rail = ~hasRail(run.seen[a])]
  /\ run' = [run EXCEPT !.todo = @ \ {a}]
  /\ UNCHANGED <<evidence, snapshot, issuer, reader, ranked>>

(***************************************************************************)
(* Snapshot: runSnapshotRanking reads every input, scores it, and          *)
(* writeSnapshot creates the snapshot, inserts its rows in chunks and      *)
(* activates it in one transaction.                                        *)
(***************************************************************************)
hasMeasuredClaim(row) == row.claimed \/ row.rail
CountedAsClaimed == {a \in HasInput : hasMeasuredClaim(input[a])}

BuildSnapshotRows ==
  /\ run.step = "sync"
  /\ run.todo = {}
  /\ HasInput # {}
  /\ run' = [Resting EXCEPT !.step = "built", !.todo = HasInput,
                            !.claims = CountedAsClaimed]
  /\ UNCHANGED <<evidence, input, snapshot, issuer, reader, ranked>>

CreateSnapshot ==
  /\ run.step = "built"
  /\ Room(1)
  /\ snapshot' = Append(snapshot, Building)
  /\ UNCHANGED <<evidence, input, issuer, reader, ranked>>

CreateHeard ==
  /\ CreateSnapshot
  /\ run' = [run EXCEPT !.step = "insert", !.snap = Len(snapshot')]

\* The retry creates another: the first is never heard of again.
CreateUnheard ==
  /\ Room(2) /\ Unfinished = {}
  /\ CreateSnapshot
  /\ UNCHANGED run

InsertRows(a) ==
  /\ run.step = "insert"
  /\ run.todo # {} /\ a = NextChunk(run.todo)
  /\ a \notin snapshot[run.snap].rows
  /\ snapshot' = [snapshot EXCEPT ![run.snap].rows = @ \cup {a}]
  /\ UNCHANGED <<evidence, input, issuer, reader, ranked>>

InsertHeard(a) ==
  /\ InsertRows(a)
  /\ run' = [run EXCEPT !.todo = @ \ {a}, !.step = IF run.todo = {a} THEN "activate" ELSE "insert"]

InsertUnheard(a) ==
  /\ MayFail
  /\ InsertRows(a)
  /\ UNCHANGED run

\* The retry meets (snapshotId, agentAddress), which is unique: not recoverable.
DuplicateRow(a) ==
  /\ run.step = "insert"
  /\ run.todo # {} /\ a = NextChunk(run.todo)
  /\ a \in snapshot[run.snap].rows
  /\ run' = [run EXCEPT !.step = "failing"]
  /\ UNCHANGED <<evidence, input, snapshot, issuer, reader, ranked>>

\* Mutant: the others are left as they are.
AlsoActive(s) == [snapshot EXCEPT ![s].active = TRUE, ![s].status = "READY"]
Activated(s) ==
  [t \in Existing |-> IF t = s THEN [snapshot[t] EXCEPT !.active = TRUE, !.status = "READY"]
                               ELSE [snapshot[t] EXCEPT !.active = FALSE]]

ActivateSnapshot ==
  /\ run.step = "activate"
  /\ snapshot' = Activated(run.snap)
  /\ reader' = IF reader = NoRequest \/ snapshot[run.snap].active THEN reader
               ELSE IF reader.missed = KeepReady - 1 THEN NoRequest
               ELSE [reader EXCEPT !.missed = @ + 1]
  /\ ranked' = run.claims
  /\ UNCHANGED <<evidence, input>>

ActivateHeard ==
  /\ ActivateSnapshot
  /\ run' = [run EXCEPT !.step = "issue"]
  /\ issuer' = [issuer EXCEPT ![Runner] = [at |-> "begun", snap |-> run.snap, todo |-> snapshot[run.snap].rows]]

ActivateUnheard ==
  /\ MayFail
  /\ ActivateSnapshot
  /\ UNCHANGED <<run, issuer>>

\* Retries are used up, or the error is not one to retry.
GiveUp ==
  /\ run.step \in {"insert", "activate"}
  /\ MayFail
  /\ run' = [run EXCEPT !.step = "failing"]
  /\ UNCHANGED <<evidence, input, snapshot, issuer, reader, ranked>>

\* Mutant: whatever is active is switched off.
NothingActive(s) == [t \in Existing |-> [snapshot[t] EXCEPT !.active = FALSE]]
FailedMark(s) == [snapshot EXCEPT ![s].status = "FAILED", ![s].active = FALSE]

\* The error ends the workflow: nothing is issued or pruned.
MarkFailed ==
  /\ run.step = "failing"
  /\ snapshot' = FailedMark(run.snap)
  /\ run' = Resting
  /\ UNCHANGED <<evidence, input, issuer, reader, ranked>>

\* The process or the workflow stops; so does a run that cannot even mark its failure.
Die ==
  /\ run.step # "idle"
  /\ MayFail
  /\ run' = Resting
  /\ issuer' = [issuer EXCEPT ![Runner] = NotIssuing]
  /\ UNCHANGED <<evidence, input, snapshot, reader, ranked>>

(***************************************************************************)
(* materializePortableTrustArtifactsForSnapshot, best effort in a run and  *)
(* on its own in the backfill: deactivate what other snapshots say of      *)
(* these agents, then upsert one artifact for each row.                    *)
(***************************************************************************)
LookUpActive ==
  /\ issuer[Backfill] = NotIssuing
  /\ \E s \in Served :
       issuer' = [issuer EXCEPT ![Backfill] = [at |-> "begun", snap |-> s, todo |-> snapshot[s].rows]]
  /\ UNCHANGED <<evidence, input, snapshot, run, reader, ranked>>

\* Mutant: "snapshotId: not" is missing.
AnySnapshot(s) == Existing
OtherSnapshots(s) == Existing \ {s}

DeactivateOthers(p) ==
  /\ issuer[p].at = "begun"
  /\ snapshot' = [t \in Existing |->
       IF t \in OtherSnapshots(issuer[p].snap)
       THEN [snapshot[t] EXCEPT !.trusted = @ \ issuer[p].todo] ELSE snapshot[t]]
  /\ issuer' = [issuer EXCEPT ![p].at = "issuing"]
  /\ UNCHANGED <<evidence, input, run, reader, ranked>>

IssueArtifact(p, a) ==
  /\ issuer[p].at = "issuing"
  /\ issuer[p].todo # {} /\ a = NextChunk(issuer[p].todo)
  /\ issuer[p].snap \in Existing
  /\ snapshot' = [snapshot EXCEPT ![issuer[p].snap].trusted = @ \cup {a}]
  /\ issuer' = [issuer EXCEPT ![p] =
                  IF issuer[p].todo = {a} THEN NotIssuing ELSE [issuer[p] EXCEPT !.todo = @ \ {a}]]
  /\ UNCHANGED <<evidence, input, run, reader, ranked>>

\* An upsert failed, for one because the snapshot is gone, or the script was stopped.
IssuingFails(p) ==
  /\ issuer[p] # NotIssuing
  /\ issuer' = [issuer EXCEPT ![p] = NotIssuing]
  /\ UNCHANGED <<evidence, input, snapshot, run, reader, ranked>>

(***************************************************************************)
(* Retention: buildSnapshotRetentionPlan, then artifacts, rows and         *)
(* snapshot of each one to delete, in three statements.                    *)
(***************************************************************************)
\* Mutant: only the newest of them.
NewestOne(ready) == {s \in ready : \A t \in ready : t <= s}
NewestReady(ready) == {s \in ready : Cardinality({t \in ready : t > s}) < KeepReady}

Kept ==
  NewestReady(Existing \ Unfinished) \cup Served \cup {s \in Unfinished : snapshot[s].recent}

OldestFew(old) == {s \in old : Cardinality({t \in old : t < s}) < MaxDelete}

Deletable == OldestFew(Existing \ Kept)

PlanRetention ==
  /\ run.step = "issue"
  /\ issuer[Runner] = NotIssuing
  /\ Cardinality({s \in Existing : snapshot[s].active}) = 1 /\ Served # {}
  /\ run' = IF Deletable = {} THEN Resting
            ELSE [Resting EXCEPT !.step = "artifacts", !.doomed = Deletable]
  /\ UNCHANGED <<evidence, input, snapshot, issuer, reader, ranked>>

Oldest == CHOOSE s \in run.doomed : \A t \in run.doomed : s <= t

DeleteArtifacts ==
  /\ run.step = "artifacts"
  /\ snapshot' = [snapshot EXCEPT ![Oldest].trusted = {}]
  /\ run' = [run EXCEPT !.step = "rows"]
  /\ UNCHANGED <<evidence, input, issuer, reader, ranked>>

DeleteRows ==
  /\ run.step = "rows"
  /\ snapshot' = [snapshot EXCEPT ![Oldest].rows = {}]
  /\ run' = [run EXCEPT !.step = "snapshot"]
  /\ UNCHANGED <<evidence, input, issuer, reader, ranked>>

\* An artifact issued meanwhile goes with its snapshot (onDelete: Cascade).
DeleteSnapshot ==
  /\ run.step = "snapshot"
  /\ ~snapshot[Oldest].active
  /\ snapshot' = RemoveAt(snapshot, Oldest)
  /\ issuer' = [p \in Issuers |-> [issuer[p] EXCEPT !.snap = AfterDelete(Oldest, @)]]
  /\ reader' = [reader EXCEPT !.snap = AfterDelete(Oldest, @)]
  /\ run' = IF run.doomed = {Oldest} THEN Resting
            ELSE [run EXCEPT !.step = "artifacts",
                             !.doomed = {AfterDelete(Oldest, s) : s \in @ \ {Oldest}}]
  /\ UNCHANGED <<evidence, input, ranked>>

(***************************************************************************)
(* GET /api/agents: the active snapshot is looked up in one query and its  *)
(* rows are read in a later one.                                           *)
(***************************************************************************)
ChooseSnapshot ==
  /\ reader = NoRequest
  /\ \E s \in Served : reader' = [snap |-> s, missed |-> 0]
  /\ UNCHANGED <<evidence, input, snapshot, run, issuer, ranked>>

AnswerRows ==
  /\ reader # NoRequest
  /\ reader' = NoRequest
  /\ UNCHANGED <<evidence, input, snapshot, run, issuer, ranked>>

(***************************************************************************)
(* Settlements and jobs come into the score window and leave it. Only      *)
(* FetchRollups looks, so a change during a run is as well one before it.  *)
(* Runs and requests last far less than keepNonReadyHours.                 *)
(***************************************************************************)
EvidenceChanges(a) ==
  /\ run = Resting
  /\ evidence' = IF a \in evidence THEN evidence \ {a} ELSE evidence \cup {a}
  /\ UNCHANGED <<input, snapshot, run, issuer, reader, ranked>>

GrowsOld(s) ==
  /\ run = Resting
  /\ reader.snap # s
  /\ s \in Unfinished
  /\ snapshot[s].recent
  /\ snapshot' = [snapshot EXCEPT ![s].recent = FALSE]
  /\ UNCHANGED <<evidence, input, run, issuer, reader, ranked>>

Refresh ==
  \/ LoadSources
  \/ \E a \in Agents : UpsertScoreInput(a) \/ SyncRailMetrics(a)
  \/ FetchRollups

Publish ==
  \/ BuildSnapshotRows
  \/ CreateHeard
  \/ \E a \in Agents : InsertHeard(a) \/ DuplicateRow(a)
  \/ ActivateHeard
  \/ MarkFailed

Unlucky ==
  \/ CreateUnheard
  \/ \E a \in Agents : InsertUnheard(a)
  \/ ActivateUnheard
  \/ GiveUp
  \/ Die

Retain == PlanRetention \/ DeleteArtifacts \/ DeleteRows \/ DeleteSnapshot

Issue(p) ==
  \/ DeactivateOthers(p)
  \/ \E a \in Agents : IssueArtifact(p, a)
  \/ IssuingFails(p)

Next ==
  \/ Refresh
  \/ Publish
  \/ Unlucky
  \/ Retain
  \/ LookUpActive
  \/ \E p \in Issuers : Issue(p)
  \/ ChooseSnapshot
  \/ AnswerRows
  \/ \E a \in Earners : EvidenceChanges(a)
  \/ \E s \in Existing : GrowsOld(s)

Spec == Init /\ [][Next]_vars

\* The workflow is scheduled every hour and each of its steps ends.
Step == Refresh \/ Publish \/ Retain \/ Issue(Runner)
Fairness == WF_vars(Step)

FairSpec == Spec /\ Fairness

(***************************************************************************)
(* Types.                                                                  *)
(***************************************************************************)
\* Every variable has its type; a run only ever builds the newest snapshot, and
\* plans to delete no more than it may.
PipelineTypeOK ==
  /\ evidence \subseteq Earners
  /\ input \in [Agents -> Input \cup {NoInput}]
  /\ snapshot \in Seq(Snapshot) /\ Len(snapshot) <= MaxRows
  /\ run.snap \in {None, Len(snapshot)}
  /\ run.todo \subseteq Agents /\ run.claims \subseteq Agents
  /\ run.doomed \subseteq Existing /\ Cardinality(run.doomed) <= MaxDelete
  /\ \A p \in Issuers : issuer[p].snap \in Existing \cup {None, Gone} /\ issuer[p].todo \subseteq Agents
  /\ ranked \subseteq Agents /\ reader.snap \in Existing \cup {None, Gone} /\ reader.missed \in 0 .. KeepReady - 1

(***************************************************************************)
(* Safety.                                                                 *)
(***************************************************************************)
Whole(s) == s \in Existing /\ snapshot[s].rows = Agents

\* What GET /api/agents serves is one snapshot with a row for every agent,
\* wherever a run stopped, whichever answers it lost: a ranking that is still
\* being written, one that failed half way, or two at a time, are never shown.
ServedIsWhole ==
  /\ \A s \in Existing : snapshot[s].active => IsReady(s) /\ Whole(s)
  /\ Cardinality(Served) <= 1

\* A request that has looked up the active snapshot and not yet read its rows
\* finds them all, though a run may publish and prune in between: retention
\* keeps the previous snapshot, so it takes two overtaking runs to lose it.
ChosenStaysWhole == reader # NoRequest => Whole(reader.snap)

(***************************************************************************)
(* Action properties.                                                      *)
(***************************************************************************)
\* Once there is a ranking there stays one. The only step that leaves the site
\* without (503 until the next run) is a run marking its own snapshot FAILED
\* after an activation whose answer it never heard.
OnlyUnheardActivationDropsRanking ==
  [][Served # {} /\ Served' = {} => run.step = "failing" /\ run.snap \in Served]_vars

ServesTrust(a) == \E s \in Served : a \in snapshot[s].trusted

\* An agent's served artifact goes away only when another ranking takes over,
\* or when a backfill that looked up an older ranking deactivates the newer
\* one's: neither retention nor the issuing for the served ranking takes it.
OnlyOvertakenBackfillDropsTrust ==
  [][\A a \in Agents : ServesTrust(a) /\ ~ServesTrust(a)' =>
       \/ run.step \in {"activate", "failing"} /\ Served' # Served
       \/ issuer[Backfill].at = "begun" /\ issuer[Backfill].snap \notin Served]_vars

(***************************************************************************)
(* Liveness.                                                               *)
(***************************************************************************)
\* Evidence that stays in the score window is ranked, once runs stop failing:
\* again and again the ranking served says the agent is claimed, whatever the
\* failed runs, lost answers and backfills before that left in the tables.
EvidenceIsRanked ==
  \A a \in Earners :
    <>[](a \in evidence) /\ <>[][~Unlucky]_vars => []<>(Served # {} /\ a \in ranked)

=============================================================================
