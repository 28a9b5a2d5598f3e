------------------------ MODULE ScorePipelineProofs ------------------------
(***************************************************************************)
(* Theorems of the ranking pipeline, for every number of agents, of        *)
(* snapshots kept and deleted, and whatever calls fail or are not heard.   *)
(***************************************************************************)
EXTENDS ScorePipeline, FiniteSetTheorems, SequenceTheorems, WellFoundedInduction, TLAPS

-----------------------------------------------------------------------------
(* The inductive invariant. *)

Inputs == [Agents -> Input \cup {NoInput}]
Steps == {"idle", "ingest", "sync", "built", "insert", "activate", "failing", "issue",
          "artifacts", "rows", "snapshot"}
Runs == [step : Steps, seen : Inputs, todo : SUBSET Agents, claims : SUBSET Agents,
         snap : Nat, doomed : SUBSET Nat]
Issuings == [at : {"idle", "begun", "issuing"}, snap : Int, todo : SUBSET Agents]
Readers == [snap : Int, missed : 0 .. KeepReady - 1]

Shape ==
  /\ input \in Inputs
  /\ snapshot \in Seq(Snapshot)
  /\ run \in Runs
  /\ issuer \in [Issuers -> Issuings]
  /\ reader \in Readers

\* No agent is without an input once the changed ones are written, so that the
\* rows that are built are those of all agents.
InputsSound ==
  /\ run.step = "ingest" => \A a \in Agents : a \in run.todo \/ input[a] # NoInput
  /\ run.step = "sync" => \A a \in Agents : input[a] # NoInput
  /\ run.step = "built" => run.todo = Agents /\ Agents # {}

\* A run writes the newest snapshot, and activates it with a row for every agent.
BuildSound ==
  /\ run.step \in {"insert", "activate", "failing"} =>
       run.snap = Len(snapshot) /\ run.snap >= 1 /\ snapshot[run.snap].recent
  /\ run.step = "insert" =>
       run.todo # {} /\ \A a \in Agents : a \in run.todo \/ a \in snapshot[run.snap].rows
  /\ run.step = "activate" => snapshot[run.snap].rows = Agents

\* The active snapshot is whole, and the newest of those that are ready.
ActiveSound ==
  \A s \in DOMAIN snapshot : snapshot[s].active =>
    /\ snapshot[s].status = "READY" /\ snapshot[s].rows = Agents
    /\ \A t \in DOMAIN snapshot : snapshot[t].status = "READY" => t <= s

\* Retention never takes the active snapshot, nor one that a request has chosen.
Deleting == {"artifacts", "rows", "snapshot"}
RetentionSound ==
  /\ run.step \in Deleting => run.doomed # {}
  /\ run.step \notin Deleting => run.doomed = {}
  /\ run.doomed \subseteq DOMAIN snapshot
  /\ \A s \in run.doomed : ~snapshot[s].active /\ s # reader.snap

\* What a request has chosen is whole; and no more rankings than it has missed
\* came after it, or it was marked as failed and is too young to be deleted.
NewerReady(table, s) == {t \in DOMAIN table : table[t].status = "READY" /\ t > s}
ReaderSound ==
  reader # NoRequest =>
    /\ reader.snap \in DOMAIN snapshot /\ snapshot[reader.snap].rows = Agents
    /\ IF snapshot[reader.snap].status = "READY"
       THEN Cardinality(NewerReady(snapshot, reader.snap)) <= reader.missed
       ELSE snapshot[reader.snap].recent

\* The workflow issues artifacts for the ranking it has just activated.
IssuerSound ==
  issuer[Runner].at # "idle" =>
    /\ run.step = "issue"
    /\ issuer[Runner].snap \in DOMAIN snapshot /\ snapshot[issuer[Runner].snap].active

PipelineInv ==
  /\ Shape /\ InputsSound /\ BuildSound /\ ActiveSound
  /\ RetentionSound /\ ReaderSound /\ IssuerSound

-----------------------------------------------------------------------------
(* The snapshot table, and what a run writes in its own record. *)

LEMMA Table ==
  ASSUME NEW table \in Seq(Snapshot)
  PROVE  /\ Len(table) \in Nat /\ DOMAIN table = 1 .. Len(table)
         /\ \A s \in DOMAIN table : table[s] \in Snapshot
BY LenProperties

LEMMA Rewritten ==
  ASSUME NEW table \in Seq(Snapshot), NEW new \in [DOMAIN table -> Snapshot]
  PROVE  new \in Seq(Snapshot) /\ DOMAIN new = DOMAIN table /\ Len(new) = Len(table)
<1>1. Len(table) \in Nat /\ DOMAIN table = 1 .. Len(table)
  BY Table
<1>2. new \in Seq(Snapshot)
  BY <1>1, SeqDef
<1>3. Len(new) \in Nat /\ DOMAIN new = 1 .. Len(new)
  BY <1>2, Table
<1> QED BY <1>1, <1>2, <1>3

\* Removing a row moves those after it one place down.
LEMMA Removed ==
  ASSUME NEW table \in Seq(Snapshot), NEW o \in DOMAIN table
  PROVE  /\ RemoveAt(table, o) \in Seq(Snapshot)
         /\ Len(RemoveAt(table, o)) = Len(table) - 1
         /\ \A i \in 1 .. Len(table) - 1 :
              RemoveAt(table, o)[i] = IF i < o THEN table[i] ELSE table[i + 1]
<1> DEFINE before == SubSeq(table, 1, o - 1)
           after == SubSeq(table, o + 1, Len(table))
<1>1. /\ Len(table) \in Nat /\ o \in 1 .. Len(table) /\ \A i \in 1 .. Len(table) : table[i] \in Snapshot
  BY Table
<1>2. /\ before \in Seq(Snapshot) /\ Len(before) = o - 1
      /\ \A i \in 1 .. o - 1 : before[i] = table[i]
  BY <1>1, SubSeqProperties
<1>3. /\ after \in Seq(Snapshot) /\ Len(after) = Len(table) - o
      /\ \A i \in 1 .. Len(table) - o : after[i] = table[o + i]
  BY <1>1, SubSeqProperties
<1>4. RemoveAt(table, o) = before \o after
  BY DEF RemoveAt
<1> HIDE DEF before, after
<1>5. /\ before \o after \in Seq(Snapshot)
      /\ Len(before \o after) = Len(table) - 1
      /\ \A i \in 1 .. Len(table) - 1 :
           (before \o after)[i] = IF i <= o - 1 THEN before[i] ELSE after[i - (o - 1)]
  <2>1. /\ before \o after \in Seq(Snapshot)
        /\ Len(before \o after) = Len(before) + Len(after)
        /\ \A i \in 1 .. Len(before) + Len(after) :
             (before \o after)[i] = IF i <= Len(before) THEN before[i] ELSE after[i - Len(before)]
    BY <1>2, <1>3, ConcatProperties
  <2>2. Len(before) + Len(after) = Len(table) - 1
    BY <1>1, <1>2, <1>3
  <2> QED BY <1>2, <2>1, <2>2
<1>6. ASSUME NEW i \in 1 .. Len(table) - 1
      PROVE  (before \o after)[i] = IF i < o THEN table[i] ELSE table[i + 1]
  <2>1. CASE i < o
    BY <1>1, <1>2, <1>5, <2>1
  <2>2. CASE ~(i < o)
    <3>1. i - (o - 1) \in 1 .. Len(table) - o /\ ~(i <= o - 1)
      BY <1>1, <2>2
    <3>2. o + (i - (o - 1)) = i + 1
      BY <1>1
    <3> QED BY <1>3, <1>5, <2>2, <3>1, <3>2
  <2> QED BY <2>1, <2>2
<1> QED BY <1>4, <1>5, <1>6

LEMMA NewerFinite ==
  ASSUME NEW table \in Seq(Snapshot), NEW s
  PROVE  IsFiniteSet(NewerReady(table, s)) /\ Cardinality(NewerReady(table, s)) \in Nat
<1>0. Len(table) \in Nat /\ DOMAIN table = 1 .. Len(table)
  BY Table
<1>1. IsFiniteSet(1 .. Len(table)) /\ NewerReady(table, s) \subseteq 1 .. Len(table)
  BY <1>0, FS_Interval DEF NewerReady
<1> QED BY <1>1, FS_Subset, FS_CardinalityType

LEMMA FewerNewer ==
  ASSUME NEW table \in Seq(Snapshot), NEW s, NEW fewer \in SUBSET NewerReady(table, s)
  PROVE  IsFiniteSet(fewer) /\ Cardinality(fewer) <= Cardinality(NewerReady(table, s))
BY NewerFinite, FS_Subset

\* A row that is removed takes with it at most one newer ranking.
LEMMA NewerRemoved ==
  ASSUME NEW table \in Seq(Snapshot), NEW o \in DOMAIN table, NEW s \in DOMAIN table, s # o
  PROVE  Cardinality(NewerReady(RemoveAt(table, o), AfterDelete(o, s))) <= Cardinality(NewerReady(table, s))
<1> DEFINE S == NewerReady(RemoveAt(table, o), AfterDelete(o, s))
           T == NewerReady(table, s)
           back == [t \in S |-> IF t < o THEN t ELSE t + 1]
<1>1. /\ Len(table) \in Nat /\ o \in 1 .. Len(table) /\ s \in 1 .. Len(table)
      /\ DOMAIN table = 1 .. Len(table) /\ DOMAIN RemoveAt(table, o) = 1 .. Len(table) - 1
      /\ \A i \in 1 .. Len(table) - 1 :
           RemoveAt(table, o)[i] = IF i < o THEN table[i] ELSE table[i + 1]
  BY Table, Removed
<1>2. AfterDelete(o, s) = IF s > o THEN s - 1 ELSE s
  BY <1>1 DEF AfterDelete
<1>3. ASSUME NEW t \in S
      PROVE  t \in Int /\ back[t] \in T
  <2>1. /\ t \in 1 .. Len(table) - 1 /\ RemoveAt(table, o)[t].status = "READY" /\ t > AfterDelete(o, s)
    BY <1>1 DEF NewerReady
  <2>2. CASE t < o
    BY <1>1, <1>2, <2>1, <2>2 DEF NewerReady
  <2>3. CASE ~(t < o)
    BY <1>1, <1>2, <2>1, <2>3 DEF NewerReady
  <2> QED BY <2>1, <2>2, <2>3
<1>4. \A t, u \in S : back[t] = back[u] => t = u
  <2>1. SUFFICES ASSUME NEW t \in S, NEW u \in S, back[t] = back[u] PROVE t = u
    OBVIOUS
  <2>2. t \in Int /\ u \in Int
    BY <1>3
  <2> HIDE DEF S
  <2> QED BY <1>1, <2>1, <2>2
<1>5. back \in Injection(S, T)
  <2>1. back \in [S -> T]
    BY <1>3
  <2> HIDE DEF S, T, back
  <2>2. \A t, u \in S : t # u => back[t] # back[u]
    BY <1>4
  <2> QED BY <2>1, <2>2 DEF Injection, IsInjective
<1> HIDE DEF back
<1> QED BY <1>5, NewerFinite, FS_Injection

LEMMA LeastOf ==
  ASSUME NEW D \in SUBSET Nat, D # {}
  PROVE  \E s \in D : \A t \in D : s <= t
<1>1. PICK s \in D : \A t \in D : ~(<<t, s>> \in OpToRel(<, Nat))
  BY NatLessThanWellFounded, WFMin
<1>2. \A t \in D : ~(t < s)
  BY <1>1 DEF OpToRel
<1> QED BY <1>2

LEMMA RestingRun ==
  /\ Resting \in Runs
  /\ Resting.step = "idle" /\ Resting.todo = {} /\ Resting.snap = 0 /\ Resting.doomed = {}
BY DEF Resting, Runs, Steps, Inputs, None

LEMMA NotIssuingIdle == NotIssuing \in Issuings /\ NotIssuing.at = "idle"
BY DEF NotIssuing, Issuings, None

-----------------------------------------------------------------------------
(* Steps that leave the rankings as they are. *)

\* A table that keeps every row's status; rows of agents and unfinished
\* snapshots may have come to it.
Grown(table, new) ==
  /\ new \in Seq(Snapshot) /\ DOMAIN table \subseteq DOMAIN new
  /\ \A s \in DOMAIN table :
       /\ new[s].status = table[s].status /\ new[s].active = table[s].active
       /\ new[s].recent = table[s].recent
       /\ table[s].rows \subseteq new[s].rows /\ new[s].rows \subseteq Agents
  /\ \A s \in DOMAIN new \ DOMAIN table : new[s].status # "READY" /\ ~new[s].active

LEMMA RankingsKept ==
  ASSUME PipelineInv, Grown(snapshot, snapshot'), UNCHANGED reader
  PROVE  ActiveSound' /\ ReaderSound'
<1>1. ActiveSound'
  BY DEF PipelineInv, ActiveSound, Grown
<1>2. \A s : NewerReady(snapshot', s) = NewerReady(snapshot, s)
  BY DEF Grown, NewerReady
<1>3. ReaderSound'
  BY <1>2 DEF PipelineInv, ReaderSound, Grown
<1> QED BY <1>1, <1>3

LEMMA SameTable ==
  ASSUME PipelineInv, UNCHANGED snapshot
  PROVE  Grown(snapshot, snapshot')
<1>1. snapshot \in Seq(Snapshot)
  BY DEF PipelineInv, Shape
<1>2. \A s \in DOMAIN snapshot : snapshot[s].rows \in SUBSET Agents
  BY <1>1, Table DEF Snapshot
<1> QED BY <1>1, <1>2 DEF Grown

\* A step of a run that has no snapshot of its own yet, nor one to delete.
LEMMA RunStep ==
  ASSUME PipelineInv, UNCHANGED <<snapshot, issuer, reader>>, input' \in Inputs, run' \in Runs,
         InputsSound', run'.doomed = {}, issuer[Runner].at = "idle",
         run'.step \in {"ingest", "sync", "built", "idle"}
  PROVE  PipelineInv'
<1>1. ActiveSound' /\ ReaderSound'
  BY RankingsKept, SameTable
<1>2. Shape' /\ BuildSound' /\ RetentionSound' /\ IssuerSound'
  BY DEF PipelineInv, Shape, BuildSound, RetentionSound, IssuerSound, Deleting
<1> QED BY <1>1, <1>2 DEF PipelineInv

LEMMA LoadSourcesStep ==
  ASSUME PipelineInv, LoadSources
  PROVE  PipelineInv'
<1> DEFINE todo == {a \in Agents : hasSourceDelta(input[a])}
           next == [Resting EXCEPT !.step = "ingest", !.seen = input, !.todo = todo]
<1>1. run.step = "idle" /\ run' = next /\ UNCHANGED <<input, snapshot, issuer, reader>>
  BY DEF LoadSources
<1>2. todo \subseteq Agents /\ \A a \in Agents : a \in todo \/ input[a] # NoInput
  BY DEF hasSourceDelta
<1>3. input \in Inputs /\ issuer[Runner].at = "idle"
  BY <1>1 DEF PipelineInv, Shape, IssuerSound
<1> HIDE DEF todo
<1>4. next \in Runs /\ next.step = "ingest" /\ next.todo = todo /\ next.doomed = {}
  BY <1>2, <1>3, RestingRun DEF Runs, Steps
<1> HIDE DEF next
<1>5. InputsSound'
  BY <1>1, <1>2, <1>4 DEF InputsSound
<1> QED BY <1>1, <1>3, <1>4, <1>5, RunStep

LEMMA ChunkOf == ASSUME NEW a, NEW todo, todo # {}, a = NextChunk(todo) PROVE a \in todo
BY DEF NextChunk

LEMMA UpsertStep ==
  ASSUME PipelineInv, NEW a \in Agents, UpsertScoreInput(a)
  PROVE  PipelineInv'
<1> DEFINE row == [rail |-> hasRail(run.seen[a]), claimed |-> hasRail(run.seen[a])]
           next == [run EXCEPT !.todo = @ \ {a}]
<1>1. /\ run.step = "ingest" /\ run' = next /\ input' = [input EXCEPT ![a] = row]
      /\ UNCHANGED <<snapshot, issuer, reader>>
  BY DEF UpsertScoreInput
<1>2. input \in Inputs /\ run \in Runs /\ issuer[Runner].at = "idle" /\ run.doomed = {}
  BY <1>1 DEF PipelineInv, Shape, IssuerSound, RetentionSound, Deleting
<1>3. row \in Input /\ row # NoInput
  <2>1. hasRail(run.seen[a]) \in BOOLEAN
    <3>1. run.seen[a] \in Input \cup {NoInput}
      BY <1>2 DEF Runs, Inputs
    <3> QED BY <3>1 DEF hasRail, Input
  <2>2. \A v \in BOOLEAN : LET r == [rail |-> v, claimed |-> v] IN r \in Input /\ "claimed" \in DOMAIN r
    BY DEF Input
  <2>3. "claimed" \notin DOMAIN NoInput
    BY DEF NoInput
  <2> QED BY <2>1, <2>2, <2>3
<1> HIDE DEF row
<1>4. next \in Runs /\ next.step = "ingest" /\ next.todo = run.todo \ {a} /\ next.doomed = {}
  BY <1>1, <1>2 DEF Runs
<1> HIDE DEF next
<1>5. input' \in Inputs /\ \A b \in Agents : b # a => input'[b] = input[b]
  BY <1>1, <1>2, <1>3 DEF Inputs
<1>6. input'[a] = row
  BY <1>1, <1>2 DEF Inputs
<1>7. InputsSound'
  BY <1>1, <1>3, <1>4, <1>5, <1>6 DEF InputsSound, PipelineInv
<1> QED BY <1>1, <1>2, <1>4, <1>5, <1>7, RunStep

LEMMA FetchStep ==
  ASSUME PipelineInv, FetchRollups
  PROVE  PipelineInv'
<1> DEFINE todo == {a \in Agents : railMetricFieldsChanged(run.seen[a], a \in evidence)}
           next == [run EXCEPT !.step = "sync", !.todo = todo]
<1>1. run.step = "ingest" /\ run.todo = {} /\ run' = next /\ UNCHANGED <<input, snapshot, issuer, reader>>
  BY DEF FetchRollups
<1>2. input \in Inputs /\ run \in Runs /\ issuer[Runner].at = "idle" /\ run.doomed = {}
  BY <1>1 DEF PipelineInv, Shape, IssuerSound, RetentionSound, Deleting
<1>3. todo \subseteq Agents
  OBVIOUS
<1> HIDE DEF todo
<1>4. next \in Runs /\ next.step = "sync" /\ next.doomed = {}
  BY <1>2, <1>3 DEF Runs, Steps
<1> HIDE DEF next
<1>5. InputsSound'
  BY <1>1, <1>4 DEF InputsSound, PipelineInv
<1> QED BY <1>1, <1>2, <1>4, <1>5, RunStep

LEMMA SyncStep ==
  ASSUME PipelineInv, NEW a \in Agents, SyncRailMetrics(a)
  PROVE  PipelineInv'
<1> DEFINE next == [run EXCEPT !.todo = @ \ {a}]
           row == [input[a] EXCEPT !.rail = ~hasRail(run.seen[a])]
<1>1. /\ run.step = "sync" /\ run' = next /\ input[a] # NoInput
      /\ input' = [input EXCEPT ![a] = row]
      /\ UNCHANGED <<snapshot, issuer, reader>>
  BY DEF SyncRailMetrics, HasInput
<1>2. input \in Inputs /\ run \in Runs /\ issuer[Runner].at = "idle" /\ run.doomed = {}
  BY <1>1 DEF PipelineInv, Shape, IssuerSound, RetentionSound, Deleting
<1>3. row \in Input /\ row # NoInput
  <2>1. input[a] \in Input
    BY <1>1, <1>2 DEF Inputs
  <2>2. \A r \in Input : \A v \in BOOLEAN :
          LET q == [r EXCEPT !.rail = v] IN q \in Input /\ "claimed" \in DOMAIN q
    BY DEF Input
  <2>3. "claimed" \notin DOMAIN NoInput
    BY DEF NoInput
  <2>4. (~hasRail(run.seen[a])) \in BOOLEAN
    OBVIOUS
  <2> QED BY <2>1, <2>2, <2>3, <2>4
<1> HIDE DEF row
<1>4. next \in Runs /\ next.step = "sync" /\ next.doomed = {}
  BY <1>1, <1>2 DEF Runs
<1> HIDE DEF next
<1>5. input' \in Inputs /\ input'[a] = row /\ \A b \in Agents : b # a => input'[b] = input[b]
  BY <1>1, <1>2, <1>3 DEF Inputs
<1>6. InputsSound'
  BY <1>1, <1>3, <1>4, <1>5 DEF InputsSound, PipelineInv
<1> QED BY <1>1, <1>2, <1>4, <1>5, <1>6, RunStep

LEMMA BuildStep ==
  ASSUME PipelineInv, BuildSnapshotRows
  PROVE  PipelineInv'
<1> DEFINE next == [Resting EXCEPT !.step = "built", !.todo = HasInput, !.claims = CountedAsClaimed]
<1>1. /\ run.step = "sync" /\ run' = next /\ HasInput # {} /\ UNCHANGED <<input, snapshot, issuer, reader>>
  BY DEF BuildSnapshotRows
<1>2. input \in Inputs /\ issuer[Runner].at = "idle"
  BY <1>1 DEF PipelineInv, Shape, IssuerSound
<1>3. HasInput = Agents /\ CountedAsClaimed \subseteq Agents
  BY <1>1 DEF PipelineInv, InputsSound, HasInput, CountedAsClaimed
<1>4. next \in Runs /\ next.step = "built" /\ next.todo = Agents /\ next.doomed = {}
  BY <1>3, RestingRun DEF Runs, Steps
<1> HIDE DEF next
<1>5. InputsSound'
  BY <1>1, <1>3, <1>4 DEF InputsSound
<1> QED BY <1>1, <1>2, <1>4, <1>5, RunStep

-----------------------------------------------------------------------------
(* A run creates its snapshot, fills it, and activates it or gives it up. *)

LEMMA Created ==
  ASSUME PipelineInv, CreateSnapshot
  PROVE  /\ run.step = "built" /\ UNCHANGED <<input, issuer, reader>>
         /\ Grown(snapshot, snapshot') /\ Len(snapshot') = Len(snapshot) + 1
         /\ snapshot'[Len(snapshot')].recent
<1>1. snapshot \in Seq(Snapshot) /\ snapshot' = Append(snapshot, Building)
  BY DEF PipelineInv, Shape, CreateSnapshot
<1>2. Building \in Snapshot /\ Building.status = "BUILDING" /\ ~Building.active /\ Building.recent
  BY DEF Building, Snapshot
<1> HIDE DEF Building
<1>3. /\ snapshot' \in Seq(Snapshot) /\ Len(snapshot') = Len(snapshot) + 1
      /\ \A i \in 1 .. Len(snapshot) : snapshot'[i] = snapshot[i]
      /\ snapshot'[Len(snapshot) + 1] = Building
  BY <1>1, <1>2, AppendProperties
<1>4. /\ Len(snapshot) \in Nat /\ DOMAIN snapshot = 1 .. Len(snapshot)
      /\ DOMAIN snapshot' = 1 .. Len(snapshot) + 1
      /\ \A i \in DOMAIN snapshot : snapshot[i] \in Snapshot
  BY <1>1, <1>3, Table
<1>5. Grown(snapshot, snapshot')
  <2>1. \A s \in DOMAIN snapshot : snapshot'[s].rows \in SUBSET Agents
    BY <1>3, <1>4 DEF Snapshot
  <2>2. \A s \in DOMAIN snapshot' \ DOMAIN snapshot : s = Len(snapshot) + 1
    BY <1>4
  <2> QED BY <1>2, <1>3, <1>4, <2>1, <2>2 DEF Grown
<1> QED BY <1>1, <1>2, <1>3, <1>5 DEF CreateSnapshot

LEMMA CreateHeardStep ==
  ASSUME PipelineInv, CreateHeard
  PROVE  PipelineInv'
<1> DEFINE next == [run EXCEPT !.step = "insert", !.snap = Len(snapshot')]
<1>1. CreateSnapshot /\ run' = next
  BY DEF CreateHeard
<1>2. /\ run.step = "built" /\ UNCHANGED <<input, issuer, reader>>
      /\ Grown(snapshot, snapshot') /\ Len(snapshot') = Len(snapshot) + 1
      /\ snapshot'[Len(snapshot')].recent
  BY <1>1, Created
<1>3. /\ run \in Runs /\ run.doomed = {} /\ run.todo = Agents /\ Agents # {}
      /\ issuer[Runner].at = "idle" /\ Len(snapshot) \in Nat
  BY <1>2, Table DEF PipelineInv, Shape, IssuerSound, RetentionSound, Deleting, InputsSound
<1>4. /\ next \in Runs /\ next.step = "insert" /\ next.snap = Len(snapshot') /\ next.doomed = {}
      /\ next.todo = Agents
  <2>1. \A n \in Nat : LET i == [run EXCEPT !.step = "insert", !.snap = n]
                       IN  i \in Runs /\ i.step = "insert" /\ i.snap = n /\ i.doomed = {} /\ i.todo = Agents
    BY <1>3 DEF Runs, Steps
  <2>2. Len(snapshot') \in Nat
    BY <1>2, <1>3
  <2> QED BY <2>1, <2>2
<1> HIDE DEF next
<1>5. ActiveSound' /\ ReaderSound'
  BY <1>2, RankingsKept
<1>6. BuildSound'
  BY <1>1, <1>2, <1>3, <1>4 DEF BuildSound
<1>7. Shape' /\ InputsSound' /\ RetentionSound' /\ IssuerSound'
  BY <1>1, <1>2, <1>3, <1>4 DEF PipelineInv, Shape, InputsSound, RetentionSound, IssuerSound, Deleting, Grown
<1> QED BY <1>5, <1>6, <1>7 DEF PipelineInv

LEMMA CreateUnheardStep ==
  ASSUME PipelineInv, CreateUnheard
  PROVE  PipelineInv'
<1>1. /\ run.step = "built" /\ UNCHANGED <<input, issuer, reader, run>>
      /\ Grown(snapshot, snapshot')
  BY Created DEF CreateUnheard
<1>2. ActiveSound' /\ ReaderSound'
  BY <1>1, RankingsKept
<1>3. issuer[Runner].at = "idle" /\ run.doomed = {}
  BY <1>1 DEF PipelineInv, IssuerSound, RetentionSound, Deleting
<1> QED BY <1>1, <1>2, <1>3
        DEF PipelineInv, Shape, InputsSound, BuildSound, RetentionSound, IssuerSound, Deleting, Grown

LEMMA Inserted ==
  ASSUME PipelineInv, NEW a \in Agents, InsertRows(a)
  PROVE  /\ run.step = "insert" /\ a \in run.todo /\ UNCHANGED <<input, issuer, reader>>
         /\ Grown(snapshot, snapshot') /\ Len(snapshot') = Len(snapshot)
         /\ run.snap = Len(snapshot) /\ run.snap \in Nat /\ run.snap >= 1 /\ snapshot'[run.snap].recent
         /\ snapshot'[run.snap].rows = snapshot[run.snap].rows \cup {a}
<1> DEFINE n == run.snap
           row == [snapshot[n] EXCEPT !.rows = @ \cup {a}]
<1>1. /\ run.step = "insert" /\ run.todo # {} /\ a = NextChunk(run.todo)
      /\ snapshot' = [snapshot EXCEPT ![n] = row] /\ UNCHANGED <<input, issuer, reader>>
  BY DEF InsertRows
<1>2. /\ snapshot \in Seq(Snapshot) /\ n = Len(snapshot) /\ n >= 1 /\ snapshot[n].recent
  BY <1>1 DEF PipelineInv, Shape, BuildSound
<1>3. /\ Len(snapshot) \in Nat /\ DOMAIN snapshot = 1 .. Len(snapshot)
      /\ \A i \in DOMAIN snapshot : snapshot[i] \in Snapshot
  BY <1>2, Table
<1> HIDE DEF n
<1>4. n \in DOMAIN snapshot /\ snapshot[n] \in Snapshot
  BY <1>2, <1>3
<1>5. /\ row \in Snapshot /\ row.status = snapshot[n].status /\ row.active = snapshot[n].active
      /\ row.recent = snapshot[n].recent /\ row.rows = snapshot[n].rows \cup {a}
  BY <1>4 DEF Snapshot
<1> HIDE DEF row
<1>6. snapshot' \in [DOMAIN snapshot -> Snapshot]
      /\ \A s \in DOMAIN snapshot : snapshot'[s] = IF s = n THEN row ELSE snapshot[s]
  BY <1>1, <1>3, <1>5
<1>7. snapshot' \in Seq(Snapshot) /\ DOMAIN snapshot' = DOMAIN snapshot /\ Len(snapshot') = Len(snapshot)
  BY <1>2, <1>6, Rewritten
<1>8. \A s \in DOMAIN snapshot : snapshot'[s].rows \in SUBSET Agents
  BY <1>6 DEF Snapshot
<1>9. Grown(snapshot, snapshot')
  BY <1>5, <1>6, <1>7, <1>8 DEF Grown
<1> QED BY <1>1, <1>2, <1>3, <1>4, <1>5, <1>6, <1>7, <1>9, ChunkOf DEF n

LEMMA InsertHeardStep ==
  ASSUME PipelineInv, NEW a \in Agents, InsertHeard(a)
  PROVE  PipelineInv'
<1> DEFINE next == [run EXCEPT !.todo = @ \ {a}, !.step = IF run.todo = {a} THEN "activate" ELSE "insert"]
<1>1. InsertRows(a) /\ run' = next
  BY DEF InsertHeard
<1>2. /\ run.step = "insert" /\ a \in run.todo /\ UNCHANGED <<input, issuer, reader>>
      /\ Grown(snapshot, snapshot') /\ Len(snapshot') = Len(snapshot)
      /\ run.snap = Len(snapshot) /\ run.snap \in Nat /\ run.snap >= 1 /\ snapshot'[run.snap].recent
      /\ snapshot'[run.snap].rows = snapshot[run.snap].rows \cup {a}
  BY <1>1, Inserted
<1>3. run \in Runs /\ run.doomed = {} /\ issuer[Runner].at = "idle"
      /\ \A b \in Agents : b \in run.todo \/ b \in snapshot[run.snap].rows
  BY <1>2 DEF PipelineInv, Shape, IssuerSound, RetentionSound, Deleting, BuildSound
<1>4. /\ next \in Runs /\ next.step = (IF run.todo = {a} THEN "activate" ELSE "insert")
      /\ next.snap = run.snap /\ next.doomed = {} /\ next.todo = run.todo \ {a}
  BY <1>3 DEF Runs, Steps
<1> HIDE DEF next
<1>5. ActiveSound' /\ ReaderSound'
  BY <1>2, RankingsKept
<1>6. \A b \in Agents : b \in run'.todo \/ b \in snapshot'[run.snap].rows
  BY <1>1, <1>2, <1>3, <1>4
<1>7. run'.todo = {} \/ run'.step = "insert"
  BY <1>1, <1>4
<1>8. run'.step = "activate" => snapshot'[run.snap].rows = Agents
  <2>1. snapshot'[run.snap].rows \subseteq Agents
    BY <1>2 DEF Grown
  <2> QED BY <1>1, <1>4, <1>6, <2>1
<1>9. BuildSound'
  BY <1>1, <1>2, <1>4, <1>6, <1>8 DEF BuildSound
<1>10. Shape' /\ InputsSound' /\ RetentionSound' /\ IssuerSound'
  BY <1>1, <1>2, <1>3, <1>4 DEF PipelineInv, Shape, InputsSound, RetentionSound, IssuerSound, Deleting, Grown
<1> QED BY <1>5, <1>9, <1>10 DEF PipelineInv

LEMMA InsertUnheardStep ==
  ASSUME PipelineInv, NEW a \in Agents, InsertUnheard(a)
  PROVE  PipelineInv'
<1>1. /\ run.step = "insert" /\ UNCHANGED <<input, issuer, reader, run>>
      /\ Grown(snapshot, snapshot') /\ Len(snapshot') = Len(snapshot)
      /\ snapshot'[run.snap].recent
      /\ snapshot'[run.snap].rows = snapshot[run.snap].rows \cup {a}
  BY Inserted DEF InsertUnheard
<1>2. ActiveSound' /\ ReaderSound'
  BY <1>1, RankingsKept
<1>3. issuer[Runner].at = "idle" /\ run.doomed = {}
  BY <1>1 DEF PipelineInv, IssuerSound, RetentionSound, Deleting
<1>4. BuildSound'
  BY <1>1 DEF PipelineInv, BuildSound
<1> QED BY <1>1, <1>2, <1>3, <1>4
        DEF PipelineInv, Shape, InputsSound, RetentionSound, IssuerSound, Deleting, Grown

\* An error that is not one to retry, or retries that are used up.
LEMMA FailingStep ==
  ASSUME PipelineInv, run.step \in {"insert", "activate"}, run' = [run EXCEPT !.step = "failing"],
         UNCHANGED <<input, snapshot, issuer, reader>>
  PROVE  PipelineInv'
<1>1. run \in Runs /\ run.doomed = {} /\ issuer[Runner].at = "idle"
  BY DEF PipelineInv, Shape, IssuerSound, RetentionSound, Deleting
<1>2. run' \in Runs /\ run'.step = "failing" /\ run'.snap = run.snap /\ run'.doomed = {}
  BY <1>1 DEF Runs, Steps
<1>3. ActiveSound' /\ ReaderSound'
  BY RankingsKept, SameTable
<1>4. Shape' /\ InputsSound' /\ BuildSound' /\ RetentionSound' /\ IssuerSound'
  BY <1>1, <1>2 DEF PipelineInv, Shape, InputsSound, BuildSound, RetentionSound, IssuerSound, Deleting
<1> QED BY <1>3, <1>4 DEF PipelineInv

LEMMA DieStep ==
  ASSUME PipelineInv, Die
  PROVE  PipelineInv'
<1>1. /\ run' = Resting /\ issuer' = [issuer EXCEPT ![Runner] = NotIssuing]
      /\ UNCHANGED <<input, snapshot, reader>>
  BY DEF Die
<1>2. ActiveSound' /\ ReaderSound'
  BY <1>1, RankingsKept, SameTable
<1>3. issuer \in [Issuers -> Issuings] /\ Runner \in Issuers
  BY DEF PipelineInv, Shape, Issuers
<1>4. issuer' \in [Issuers -> Issuings] /\ issuer'[Runner].at = "idle"
  BY <1>1, <1>3, NotIssuingIdle
<1> QED BY <1>1, <1>2, <1>4, RestingRun
        DEF PipelineInv, Shape, InputsSound, BuildSound, RetentionSound, IssuerSound, Deleting

ActivatedIn(table, n) ==
  [t \in DOMAIN table |-> IF t = n THEN [table[t] EXCEPT !.active = TRUE, !.status = "READY"]
                                   ELSE [table[t] EXCEPT !.active = FALSE]]

LEMMA ActivatedTable ==
  ASSUME NEW table \in Seq(Snapshot), NEW n \in DOMAIN table, NEW new, new = ActivatedIn(table, n)
  PROVE  /\ new \in Seq(Snapshot) /\ DOMAIN new = DOMAIN table /\ Len(new) = Len(table)
         /\ \A t \in DOMAIN table :
              /\ new[t].active = (t = n) /\ new[t].rows = table[t].rows /\ new[t].recent = table[t].recent
              /\ new[t].status = IF t = n THEN "READY" ELSE table[t].status
              /\ new[t].trusted = table[t].trusted
<1>1. \A t \in DOMAIN table :
        /\ new[t] \in Snapshot
        /\ new[t].active = (t = n) /\ new[t].rows = table[t].rows /\ new[t].recent = table[t].recent
        /\ new[t].status = IF t = n THEN "READY" ELSE table[t].status
        /\ new[t].trusted = table[t].trusted
  <2> TAKE t \in DOMAIN table
  <2>1. table[t] \in Snapshot
    BY Table
  <2>2. CASE t = n
    <3>1. new[t] = [table[t] EXCEPT !.active = TRUE, !.status = "READY"]
      BY <2>2 DEF ActivatedIn
    <3> QED BY <2>1, <2>2, <3>1 DEF Snapshot
  <2>3. CASE t # n
    <3>1. new[t] = [table[t] EXCEPT !.active = FALSE]
      BY <2>3 DEF ActivatedIn
    <3> QED BY <2>1, <2>3, <3>1 DEF Snapshot
  <2> QED BY <2>2, <2>3
<1>2. new \in [DOMAIN table -> Snapshot]
  BY <1>1 DEF ActivatedIn
<1> QED BY <1>1, <1>2, Rewritten

LEMMA ActivatedStep ==
  ASSUME PipelineInv, ActivateSnapshot
  PROVE  /\ run.step = "activate" /\ UNCHANGED input
         /\ run.snap \in DOMAIN snapshot' /\ run.snap = Len(snapshot')
         /\ snapshot' \in Seq(Snapshot) /\ reader' \in Readers
         /\ snapshot'[run.snap].active /\ snapshot'[run.snap].recent /\ snapshot'[run.snap].rows = Agents
         /\ snapshot[run.snap].rows \in SUBSET Agents
         /\ ActiveSound' /\ ReaderSound'
<1> DEFINE n == run.snap
<1>1. /\ run.step = "activate" /\ UNCHANGED input /\ snapshot' = Activated(n)
      /\ reader' = IF reader = NoRequest \/ snapshot[n].active THEN reader
                   ELSE IF reader.missed = KeepReady - 1 THEN NoRequest
                   ELSE [reader EXCEPT !.missed = @ + 1]
  BY DEF ActivateSnapshot
<1>2. /\ snapshot \in Seq(Snapshot) /\ reader \in Readers
      /\ n = Len(snapshot) /\ n >= 1 /\ snapshot[n].recent /\ snapshot[n].rows = Agents
  BY <1>1 DEF PipelineInv, Shape, BuildSound
<1>3. /\ Len(snapshot) \in Nat /\ DOMAIN snapshot = 1 .. Len(snapshot)
      /\ \A i \in DOMAIN snapshot : snapshot[i] \in Snapshot
  BY <1>2, Table
<1> HIDE DEF n
<1>4. n \in DOMAIN snapshot /\ \A t \in DOMAIN snapshot : t <= n
  BY <1>2, <1>3
<1>5. /\ snapshot' \in Seq(Snapshot) /\ DOMAIN snapshot' = DOMAIN snapshot /\ Len(snapshot') = Len(snapshot)
      /\ \A t \in DOMAIN snapshot :
           /\ snapshot'[t].active = (t = n) /\ snapshot'[t].rows = snapshot[t].rows
           /\ snapshot'[t].recent = snapshot[t].recent
           /\ snapshot'[t].status = IF t = n THEN "READY" ELSE snapshot[t].status
  <2>1. snapshot' = ActivatedIn(snapshot, n)
    BY <1>1 DEF Activated, ActivatedIn, Existing
  <2>2. snapshot \in Seq(Snapshot) /\ n \in DOMAIN snapshot
    BY <1>2, <1>4
  <2> QED BY <2>1, <2>2, ActivatedTable
<1>6. ActiveSound'
  BY <1>2, <1>4, <1>5 DEF ActiveSound
<1>7. KeepReady \in Nat \ {0} /\ NoRequest \in Readers /\ NoRequest.missed = 0
  BY PipelineAssumption DEF NoRequest, Readers, None
<1>8. CASE reader = NoRequest \/ snapshot[n].active
  <2>1. reader' = reader
    BY <1>1, <1>8
  <2>2. ReaderSound'
    <3>1. CASE reader = NoRequest
      BY <2>1, <3>1 DEF ReaderSound
    <3>2. CASE snapshot[n].active
      <4>1. snapshot[n].status = "READY"
        BY <1>4, <3>2 DEF PipelineInv, ActiveSound
      <4>2. \A t \in DOMAIN snapshot : snapshot'[t].status = snapshot[t].status
        BY <1>5, <4>1
      <4>3. \A s : NewerReady(snapshot', s) = NewerReady(snapshot, s)
        BY <1>5, <4>2 DEF NewerReady
      <4> QED BY <1>5, <2>1, <4>2, <4>3 DEF PipelineInv, ReaderSound
    <3> QED BY <1>8, <3>1, <3>2
  <2> QED BY <1>1, <1>2, <1>4, <1>5, <1>6, <2>1, <2>2 DEF n, Snapshot
<1>9. CASE ~(reader = NoRequest \/ snapshot[n].active) /\ reader.missed = KeepReady - 1
  <2>1. reader' = NoRequest
    BY <1>1, <1>9
  <2>2. ReaderSound'
    BY <2>1 DEF ReaderSound
  <2> QED BY <1>1, <1>2, <1>4, <1>5, <1>6, <1>7, <2>1, <2>2 DEF n, Snapshot
<1>10. CASE ~(reader = NoRequest \/ snapshot[n].active) /\ reader.missed # KeepReady - 1
  <2> DEFINE s == reader.snap
  <2>1. reader' = [reader EXCEPT !.missed = @ + 1]
    BY <1>1, <1>10
  <2>2. reader' \in Readers /\ reader'.snap = s /\ reader'.missed = reader.missed + 1 /\ reader.missed \in Nat
    BY <1>2, <1>7, <1>10, <2>1 DEF Readers
  <2>3. /\ s \in DOMAIN snapshot /\ snapshot[s].rows = Agents
        /\ IF snapshot[s].status = "READY" THEN Cardinality(NewerReady(snapshot, s)) <= reader.missed
                                           ELSE snapshot[s].recent
    BY <1>10 DEF PipelineInv, ReaderSound
  <2> HIDE DEF s
  <2>4. NewerReady(snapshot', s) \subseteq NewerReady(snapshot, s) \cup {n}
    BY <1>5 DEF NewerReady
  <2>5. IsFiniteSet(NewerReady(snapshot, s)) /\ Cardinality(NewerReady(snapshot, s)) \in Nat
    BY <1>2, NewerFinite
  <2>6. IsFiniteSet(NewerReady(snapshot, s) \cup {n})
        /\ Cardinality(NewerReady(snapshot, s) \cup {n}) <= Cardinality(NewerReady(snapshot, s)) + 1
    BY <2>5, FS_AddElement
  <2>7. Cardinality(NewerReady(snapshot', s)) <= Cardinality(NewerReady(snapshot, s) \cup {n})
    BY <2>4, <2>6, FS_Subset
  <2>8. /\ Cardinality(NewerReady(snapshot', s)) \in Nat
        /\ Cardinality(NewerReady(snapshot, s) \cup {n}) \in Nat
    BY <1>5, <2>6, NewerFinite, FS_CardinalityType
  <2>9. snapshot'[s].status = "READY" => Cardinality(NewerReady(snapshot', s)) <= reader.missed + 1
    <3>1. CASE s = n
      <4>1. NewerReady(snapshot', s) = {}
        BY <1>3, <1>4, <1>5, <3>1 DEF NewerReady
      <4> QED BY <2>2, <4>1, FS_EmptySet
    <3>2. CASE s # n
      <4>1. snapshot'[s].status = snapshot[s].status
        BY <1>5, <2>3, <3>2
      <4> QED BY <2>2, <2>3, <2>5, <2>6, <2>7, <2>8, <4>1
    <3> QED BY <3>1, <3>2
  <2>10. snapshot'[s].status # "READY" => snapshot'[s].recent
    BY <1>5, <2>3
  <2>11. ReaderSound'
    BY <1>5, <2>2, <2>3, <2>9, <2>10 DEF ReaderSound
  <2> QED BY <1>1, <1>2, <1>4, <1>5, <1>6, <2>2, <2>11 DEF n, Snapshot
<1> QED BY <1>8, <1>9, <1>10

LEMMA ActivateHeardStep ==
  ASSUME PipelineInv, ActivateHeard
  PROVE  PipelineInv'
<1> DEFINE begun == [at |-> "begun", snap |-> run.snap, todo |-> snapshot[run.snap].rows]
<1>1. /\ ActivateSnapshot /\ run' = [run EXCEPT !.step = "issue"]
      /\ issuer' = [issuer EXCEPT ![Runner] = begun]
  BY DEF ActivateHeard
<1>2. /\ run.step = "activate" /\ UNCHANGED input
      /\ run.snap \in DOMAIN snapshot' /\ snapshot' \in Seq(Snapshot) /\ reader' \in Readers
      /\ snapshot'[run.snap].active /\ snapshot[run.snap].rows \in SUBSET Agents
      /\ ActiveSound' /\ ReaderSound'
  BY <1>1, ActivatedStep
<1>3. run \in Runs /\ run.doomed = {} /\ issuer \in [Issuers -> Issuings] /\ Runner \in Issuers
  BY <1>2 DEF PipelineInv, Shape, RetentionSound, Deleting, Issuers
<1>4. run' \in Runs /\ run'.step = "issue" /\ run'.doomed = {} /\ run.snap \in Nat
  BY <1>1, <1>3 DEF Runs, Steps
<1>5. begun \in Issuings /\ begun.snap = run.snap
  BY <1>2, <1>4 DEF Issuings
<1> HIDE DEF begun
<1>6. issuer' \in [Issuers -> Issuings] /\ issuer'[Runner] = begun
  BY <1>1, <1>3, <1>5
<1> QED BY <1>2, <1>4, <1>5, <1>6
        DEF PipelineInv, Shape, InputsSound, BuildSound, RetentionSound, IssuerSound, Deleting

LEMMA ActivateUnheardStep ==
  ASSUME PipelineInv, ActivateUnheard
  PROVE  PipelineInv'
<1>1. /\ run.step = "activate" /\ UNCHANGED <<input, run, issuer>>
      /\ run.snap = Len(snapshot') /\ snapshot' \in Seq(Snapshot) /\ reader' \in Readers
      /\ snapshot'[run.snap].recent /\ snapshot'[run.snap].rows = Agents
      /\ ActiveSound' /\ ReaderSound'
  BY ActivatedStep DEF ActivateUnheard
<1>2. run.doomed = {} /\ issuer[Runner].at = "idle"
  BY <1>1 DEF PipelineInv, RetentionSound, IssuerSound, Deleting
<1> QED BY <1>1, <1>2 DEF PipelineInv, Shape, InputsSound, BuildSound, RetentionSound, IssuerSound, Deleting

LEMMA MarkFailedStep ==
  ASSUME PipelineInv, MarkFailed
  PROVE  PipelineInv'
<1> DEFINE n == run.snap
           row == [snapshot[n] EXCEPT !.status = "FAILED", !.active = FALSE]
<1>1. /\ run.step = "failing" /\ run' = Resting /\ UNCHANGED <<input, issuer, reader>>
      /\ snapshot' = FailedMark(n)
  BY DEF MarkFailed
<1>2. /\ snapshot \in Seq(Snapshot) /\ n = Len(snapshot) /\ n >= 1 /\ snapshot[n].recent
      /\ issuer[Runner].at = "idle"
  BY <1>1 DEF PipelineInv, Shape, BuildSound, IssuerSound
<1>3. /\ Len(snapshot) \in Nat /\ DOMAIN snapshot = 1 .. Len(snapshot)
      /\ \A i \in DOMAIN snapshot : snapshot[i] \in Snapshot
  BY <1>2, Table
<1> HIDE DEF n
<1>4. n \in DOMAIN snapshot /\ snapshot[n] \in Snapshot
  BY <1>2, <1>3
<1>5. snapshot' = [snapshot EXCEPT ![n] = row]
  BY <1>1, <1>4 DEF FailedMark
<1>6. /\ row \in Snapshot /\ row.status = "FAILED" /\ ~row.active
      /\ row.recent = snapshot[n].recent /\ row.rows = snapshot[n].rows
  BY <1>4 DEF Snapshot
<1> HIDE DEF row
<1>7. snapshot' \in [DOMAIN snapshot -> Snapshot]
      /\ \A s \in DOMAIN snapshot : snapshot'[s] = IF s = n THEN row ELSE snapshot[s]
  BY <1>3, <1>5, <1>6
<1>8. snapshot' \in Seq(Snapshot) /\ DOMAIN snapshot' = DOMAIN snapshot
  BY <1>2, <1>7, Rewritten
<1>9. ActiveSound'
  BY <1>6, <1>7, <1>8 DEF PipelineInv, ActiveSound
<1>10. ReaderSound'
  <2>1. SUFFICES ASSUME reader # NoRequest PROVE ReaderSound'
    BY <1>1 DEF ReaderSound
  <2> DEFINE s == reader.snap
  <2>2. /\ s \in DOMAIN snapshot /\ snapshot[s].rows = Agents
        /\ IF snapshot[s].status = "READY" THEN Cardinality(NewerReady(snapshot, s)) <= reader.missed
                                           ELSE snapshot[s].recent
    BY <2>1 DEF PipelineInv, ReaderSound
  <2> HIDE DEF s
  <2>3. NewerReady(snapshot', s) \subseteq NewerReady(snapshot, s)
    BY <1>6, <1>7, <1>8 DEF NewerReady
  <2>4. /\ Cardinality(NewerReady(snapshot', s)) <= Cardinality(NewerReady(snapshot, s))
        /\ Cardinality(NewerReady(snapshot', s)) \in Nat /\ Cardinality(NewerReady(snapshot, s)) \in Nat
    BY <1>2, <1>8, <2>3, FewerNewer, NewerFinite
  <2>5. reader.missed \in Int
    BY PipelineAssumption DEF PipelineInv, Shape, Readers
  <2>6. /\ snapshot'[s].rows = Agents
        /\ IF snapshot'[s].status = "READY" THEN Cardinality(NewerReady(snapshot', s)) <= reader.missed
                                            ELSE snapshot'[s].recent
    <3>1. CASE s = n
      BY <1>2, <1>6, <1>7, <2>2, <3>1
    <3>2. CASE s # n
      BY <1>7, <2>2, <2>4, <2>5, <3>2
    <3> QED BY <3>1, <3>2
  <2> QED BY <1>1, <1>8, <2>2, <2>6 DEF ReaderSound, s
<1>11. Shape' /\ InputsSound' /\ BuildSound' /\ RetentionSound' /\ IssuerSound'
  BY <1>1, <1>2, <1>8, RestingRun
     DEF PipelineInv, Shape, InputsSound, BuildSound, RetentionSound, IssuerSound, Deleting
<1> QED BY <1>9, <1>10, <1>11 DEF PipelineInv

-----------------------------------------------------------------------------
(* Artifacts are issued by the workflow and by the backfill. *)

LEMMA OnlyTrust ==
  ASSUME NEW table \in Seq(Snapshot), NEW new, new = [t \in DOMAIN table |-> new[t]],
         \A t \in DOMAIN table :
           \/ new[t] = table[t]
           \/ \E trusted \in SUBSET Agents : new[t] = [table[t] EXCEPT !.trusted = trusted]
  PROVE  Grown(table, new) /\ DOMAIN new = DOMAIN table /\ Len(new) = Len(table)
<1>2. \A t \in DOMAIN table :
        /\ new[t] \in Snapshot /\ new[t].status = table[t].status /\ new[t].active = table[t].active
        /\ new[t].recent = table[t].recent /\ new[t].rows = table[t].rows
  <2> TAKE t \in DOMAIN table
  <2>1. table[t] \in Snapshot
    BY Table
  <2>2. CASE new[t] = table[t]
    BY <2>1, <2>2
  <2>3. CASE \E trusted \in SUBSET Agents : new[t] = [table[t] EXCEPT !.trusted = trusted]
    <3>1. PICK trusted \in SUBSET Agents : new[t] = [table[t] EXCEPT !.trusted = trusted]
      BY <2>3
    <3> QED BY <2>1, <3>1 DEF Snapshot
  <2> QED BY <2>1, <2>2, <2>3
<1>3. new \in [DOMAIN table -> Snapshot]
  BY <1>2
<1>4. new \in Seq(Snapshot) /\ DOMAIN new = DOMAIN table /\ Len(new) = Len(table)
  BY <1>3, Rewritten
<1>5. \A t \in DOMAIN table : new[t].rows \in SUBSET Agents
  BY <1>2 DEF Snapshot
<1> QED BY <1>2, <1>4, <1>5 DEF Grown

\* Whoever issues goes on for the snapshot it began with; the backfill may
\* begin at any time.
LEMMA IssuerStep ==
  ASSUME PipelineInv, NEW p \in Issuers, NEW i \in Issuings, issuer' = [issuer EXCEPT ![p] = i],
         Grown(snapshot, snapshot'), Len(snapshot') = Len(snapshot), UNCHANGED <<input, run, reader>>,
         p = Runner /\ i.at # "idle" => issuer[p].at # "idle" /\ i.snap = issuer[p].snap
  PROVE  PipelineInv'
<1>1. ActiveSound' /\ ReaderSound'
  BY RankingsKept
<1>2. issuer \in [Issuers -> Issuings] /\ snapshot \in Seq(Snapshot) /\ Runner \in Issuers
  BY DEF PipelineInv, Shape, Issuers
<1>3. issuer' \in [Issuers -> Issuings]
      /\ issuer'[Runner] = IF p = Runner THEN i ELSE issuer[Runner]
  BY <1>2
<1>4. Shape' /\ InputsSound'
  BY <1>3 DEF PipelineInv, Shape, InputsSound, Grown
<1>5. IssuerSound'
  BY <1>3 DEF PipelineInv, IssuerSound, Grown
<1>6. RetentionSound'
  BY DEF PipelineInv, RetentionSound, Grown
<1>7. BuildSound'
  <2>1. run.snap = Len(snapshot) /\ run.snap >= 1 => run.snap \in DOMAIN snapshot
    BY <1>2, Table
  <2>2. run' = run /\ Len(snapshot') = Len(snapshot) /\ BuildSound
    BY DEF PipelineInv
  <2>3. CASE run.step \in {"insert", "activate", "failing"}
    <3>1. run.snap = Len(snapshot) /\ run.snap >= 1 /\ snapshot[run.snap].recent
      BY <2>2, <2>3 DEF BuildSound
    <3>2. /\ snapshot'[run.snap].recent = snapshot[run.snap].recent
          /\ snapshot[run.snap].rows \subseteq snapshot'[run.snap].rows
          /\ snapshot'[run.snap].rows \subseteq Agents
      BY <2>1, <3>1 DEF Grown
    <3>3. run.step = "activate" => snapshot'[run.snap].rows = Agents
      BY <2>2, <3>2 DEF BuildSound
    <3>4. run.step = "insert" =>
            run.todo # {} /\ \A a \in Agents : a \in run.todo \/ a \in snapshot'[run.snap].rows
      BY <2>2, <3>2 DEF BuildSound
    <3> QED BY <2>2, <3>1, <3>2, <3>3, <3>4 DEF BuildSound
  <2>4. CASE run.step \notin {"insert", "activate", "failing"}
    BY <2>2, <2>4 DEF BuildSound
  <2> QED BY <2>3, <2>4
<1> QED BY <1>1, <1>4, <1>5, <1>6, <1>7 DEF PipelineInv

LEMMA SameLength == ASSUME UNCHANGED snapshot PROVE Len(snapshot') = Len(snapshot)
OBVIOUS

LEMMA LookUpStep ==
  ASSUME PipelineInv, LookUpActive
  PROVE  PipelineInv'
<1>1. PICK s \in Served :
        issuer' = [issuer EXCEPT ![Backfill] = [at |-> "begun", snap |-> s, todo |-> snapshot[s].rows]]
  BY DEF LookUpActive
<1>2. snapshot \in Seq(Snapshot) /\ s \in DOMAIN snapshot
  BY <1>1 DEF PipelineInv, Shape, Served, Existing
<1>3. snapshot[s].rows \in SUBSET Agents /\ s \in Int
  <2>1. Len(snapshot) \in Nat /\ DOMAIN snapshot = 1 .. Len(snapshot) /\ snapshot[s] \in Snapshot
    BY <1>2, Table
  <2> QED BY <1>2, <2>1 DEF Snapshot
<1>4. [at |-> "begun", snap |-> s, todo |-> snapshot[s].rows] \in Issuings
  BY <1>3 DEF Issuings
<1>5. Backfill \in Issuers /\ Backfill # Runner /\ UNCHANGED <<input, run, reader, snapshot>>
  BY PipelineAssumption DEF Issuers, LookUpActive
<1> QED BY <1>1, <1>4, <1>5, IssuerStep, SameTable, SameLength

LEMMA DeactivateStep ==
  ASSUME PipelineInv, NEW p \in Issuers, DeactivateOthers(p)
  PROVE  PipelineInv'
<1> DEFINE next == [issuer[p] EXCEPT !.at = "issuing"]
<1>1. /\ issuer[p].at = "begun" /\ issuer' = [issuer EXCEPT ![p] = next]
      /\ UNCHANGED <<input, run, reader>>
  BY DEF DeactivateOthers
<1>2. snapshot \in Seq(Snapshot) /\ issuer[p] \in Issuings
  BY DEF PipelineInv, Shape
<1>3. \A t \in DOMAIN snapshot : snapshot[t].trusted \ issuer[p].todo \in SUBSET Agents
  BY <1>2, Table DEF Snapshot
<1>4. /\ DOMAIN snapshot' = DOMAIN snapshot
      /\ snapshot' = [t \in DOMAIN snapshot |-> snapshot'[t]]
      /\ \A t \in DOMAIN snapshot :
           \/ snapshot'[t] = snapshot[t]
           \/ snapshot'[t] = [snapshot[t] EXCEPT !.trusted = @ \ issuer[p].todo]
  BY DEF DeactivateOthers, Existing
<1>5. Grown(snapshot, snapshot') /\ Len(snapshot') = Len(snapshot)
  <2>1. \A t \in DOMAIN snapshot :
          \/ snapshot'[t] = snapshot[t]
          \/ \E trusted \in SUBSET Agents : snapshot'[t] = [snapshot[t] EXCEPT !.trusted = trusted]
    BY <1>3, <1>4
  <2> QED BY <1>2, <1>4, <2>1, OnlyTrust
<1>6. next \in Issuings /\ next.snap = issuer[p].snap
  BY <1>2 DEF Issuings
<1> HIDE DEF next
<1> QED BY <1>1, <1>5, <1>6, IssuerStep

LEMMA IssueStep ==
  ASSUME PipelineInv, NEW p \in Issuers, NEW a \in Agents, IssueArtifact(p, a)
  PROVE  PipelineInv'
<1> DEFINE n == issuer[p].snap
           next == IF issuer[p].todo = {a} THEN NotIssuing ELSE [issuer[p] EXCEPT !.todo = @ \ {a}]
<1>1. /\ issuer[p].at = "issuing" /\ n \in DOMAIN snapshot /\ UNCHANGED <<input, run, reader>>
      /\ snapshot' = [snapshot EXCEPT ![n].trusted = @ \cup {a}]
      /\ issuer' = [issuer EXCEPT ![p] = next]
  <2>1. /\ issuer[p].at = "issuing" /\ n \in DOMAIN snapshot /\ UNCHANGED <<input, run, reader>>
        /\ snapshot' = [snapshot EXCEPT ![n].trusted = @ \cup {a}]
    BY DEF IssueArtifact, Existing
  <2>2. issuer' = [issuer EXCEPT ![p] = next]
    BY DEF IssueArtifact
  <2> QED BY <2>1, <2>2
<1>2. snapshot \in Seq(Snapshot) /\ issuer[p] \in Issuings
  BY DEF PipelineInv, Shape
<1>3. next \in Issuings /\ (next.at # "idle" => next.snap = issuer[p].snap)
  BY <1>2, NotIssuingIdle DEF Issuings
<1> HIDE DEF n, next
<1>4. snapshot[n].trusted \cup {a} \in SUBSET Agents
  BY <1>1, <1>2, Table DEF Snapshot
<1>5. Grown(snapshot, snapshot') /\ Len(snapshot') = Len(snapshot)
  <2>1. \A t \in DOMAIN snapshot :
          \/ snapshot'[t] = snapshot[t]
          \/ \E trusted \in SUBSET Agents : snapshot'[t] = [snapshot[t] EXCEPT !.trusted = trusted]
    BY <1>1, <1>4
  <2>2. snapshot' = [t \in DOMAIN snapshot |-> snapshot'[t]]
    BY <1>1
  <2> QED BY <1>2, <2>1, <2>2, OnlyTrust
<1> QED BY <1>1, <1>3, <1>5, IssuerStep

LEMMA IssuingFailsStep ==
  ASSUME PipelineInv, NEW p \in Issuers, IssuingFails(p)
  PROVE  PipelineInv'
BY NotIssuingIdle, IssuerStep, SameTable, SameLength DEF IssuingFails

-----------------------------------------------------------------------------
(* Retention. *)

LEMMA PlanStep ==
  ASSUME PipelineInv, PlanRetention
  PROVE  PipelineInv'
<1> DEFINE next == [Resting EXCEPT !.step = "artifacts", !.doomed = Deletable]
<1>1. /\ run.step = "issue" /\ issuer[Runner] = NotIssuing /\ UNCHANGED <<input, snapshot, issuer, reader>>
      /\ run' = IF Deletable = {} THEN Resting ELSE next
  BY DEF PlanRetention
<1>2. snapshot \in Seq(Snapshot) /\ DOMAIN snapshot \subseteq Nat
  <2>1. snapshot \in Seq(Snapshot)
    BY DEF PipelineInv, Shape
  <2>2. Len(snapshot) \in Nat /\ DOMAIN snapshot = 1 .. Len(snapshot)
    BY <2>1, Table
  <2> QED BY <2>1, <2>2
<1>3. Deletable \subseteq DOMAIN snapshot \ Kept
  BY DEF Deletable, OldestFew, Existing
<1>4. ASSUME NEW s \in Deletable PROVE ~snapshot[s].active
  <2>1. s \in DOMAIN snapshot /\ s \notin Served
    BY <1>3 DEF Kept
  <2> QED BY <2>1 DEF PipelineInv, ActiveSound, Served, IsReady, Existing
<1>5. ASSUME NEW s \in Deletable PROVE s # reader.snap
  <2> SUFFICES ASSUME s = reader.snap PROVE FALSE
    OBVIOUS
  <2>1. s \in DOMAIN snapshot /\ s \notin Kept /\ s \in Nat
    BY <1>2, <1>3
  <2>2. reader # NoRequest
    <3>1. s # 0
      <4>1. Len(snapshot) \in Nat /\ DOMAIN snapshot = 1 .. Len(snapshot)
        BY <1>2, Table
      <4> QED BY <2>1, <4>1
    <3> QED BY <3>1 DEF NoRequest, None
  <2>3. CASE snapshot[s].status = "READY"
    <3>1. Cardinality(NewerReady(snapshot, s)) <= reader.missed
      BY <2>2, <2>3 DEF PipelineInv, ReaderSound
    <3>2. reader.missed \in 0 .. KeepReady - 1 /\ KeepReady \in Nat
      BY PipelineAssumption DEF PipelineInv, Shape, Readers
    <3>3. Cardinality(NewerReady(snapshot, s)) < KeepReady
      BY <1>2, <3>1, <3>2, NewerFinite
    <3>4. NewerReady(snapshot, s) = {t \in Existing \ Unfinished : t > s} /\ s \in Existing \ Unfinished
      BY <2>1, <2>3 DEF NewerReady, Unfinished, IsReady, Existing
    <3> QED BY <2>1, <3>3, <3>4 DEF Kept, NewestReady
  <2>4. CASE snapshot[s].status # "READY"
    <3>1. snapshot[s].recent
      BY <2>2, <2>4 DEF PipelineInv, ReaderSound
    <3> QED BY <2>1, <2>4, <3>1 DEF Kept, Unfinished, IsReady, Existing
  <2> QED BY <2>3, <2>4
<1>6. Deletable \in SUBSET Nat
  BY <1>2, <1>3
<1>7. next \in Runs /\ next.step = "artifacts" /\ next.doomed = Deletable
  BY <1>6, RestingRun DEF Runs, Steps
<1> HIDE DEF next
<1>8. /\ run' \in Runs /\ run'.step \in {"idle", "artifacts"}
      /\ run'.step = "artifacts" => run'.doomed # {}
      /\ run'.step = "idle" => run'.doomed = {}
      /\ run'.doomed \subseteq Deletable
  BY <1>1, <1>7, RestingRun
<1>9. ActiveSound' /\ ReaderSound'
  BY <1>1, RankingsKept, SameTable
<1>10. RetentionSound'
  BY <1>1, <1>3, <1>4, <1>5, <1>8 DEF RetentionSound, Deleting
<1>11. Shape' /\ InputsSound' /\ BuildSound' /\ IssuerSound'
  BY <1>1, <1>8, NotIssuingIdle DEF PipelineInv, Shape, InputsSound, BuildSound, IssuerSound
<1> QED BY <1>9, <1>10, <1>11 DEF PipelineInv

LEMMA OldestDoomed ==
  ASSUME PipelineInv, run.step \in Deleting
  PROVE  /\ Oldest \in run.doomed /\ \A t \in run.doomed : Oldest <= t
         /\ Oldest \in DOMAIN snapshot /\ ~snapshot[Oldest].active /\ Oldest # reader.snap
         /\ issuer[Runner].at = "idle" /\ run \in Runs /\ snapshot \in Seq(Snapshot)
<1>1. /\ run.doomed # {} /\ run.doomed \subseteq DOMAIN snapshot
      /\ \A s \in run.doomed : ~snapshot[s].active /\ s # reader.snap
  BY DEF PipelineInv, RetentionSound
<1>2. run \in Runs /\ snapshot \in Seq(Snapshot)
  BY DEF PipelineInv, Shape
<1>3. \E s \in run.doomed : \A t \in run.doomed : s <= t
  BY <1>1, <1>2, LeastOf DEF Runs
<1>4. Oldest \in run.doomed /\ \A t \in run.doomed : Oldest <= t
  BY <1>3 DEF Oldest
<1>5. issuer[Runner].at = "idle"
  BY DEF PipelineInv, IssuerSound, Deleting
<1> QED BY <1>1, <1>2, <1>4, <1>5

LEMMA DeleteArtifactsStep ==
  ASSUME PipelineInv, DeleteArtifacts
  PROVE  PipelineInv'
<1>1. /\ run.step = "artifacts" /\ snapshot' = [snapshot EXCEPT ![Oldest].trusted = {}]
      /\ run' = [run EXCEPT !.step = "rows"] /\ UNCHANGED <<input, issuer, reader>>
  BY DEF DeleteArtifacts
<1>2. /\ Oldest \in DOMAIN snapshot /\ issuer[Runner].at = "idle" /\ run \in Runs /\ snapshot \in Seq(Snapshot)
  BY <1>1, OldestDoomed DEF Deleting
<1>3. run' \in Runs /\ run'.step = "rows" /\ run'.doomed = run.doomed
  BY <1>1, <1>2 DEF Runs, Steps
<1>4. Grown(snapshot, snapshot') /\ DOMAIN snapshot' = DOMAIN snapshot
  <2>1. \A t \in DOMAIN snapshot :
          \/ snapshot'[t] = snapshot[t]
          \/ \E trusted \in SUBSET Agents : snapshot'[t] = [snapshot[t] EXCEPT !.trusted = trusted]
    BY <1>1, <1>2
  <2>2. snapshot' = [t \in DOMAIN snapshot |-> snapshot'[t]]
    BY <1>1
  <2> QED BY <1>2, <2>1, <2>2, OnlyTrust
<1>5. ActiveSound' /\ ReaderSound'
  BY <1>1, <1>4, RankingsKept
<1>6. RetentionSound'
  BY <1>1, <1>3, <1>4 DEF PipelineInv, RetentionSound, Deleting, Grown
<1>7. Shape' /\ InputsSound' /\ BuildSound' /\ IssuerSound'
  BY <1>1, <1>2, <1>3, <1>4 DEF PipelineInv, Shape, InputsSound, BuildSound, IssuerSound, Grown
<1> QED BY <1>5, <1>6, <1>7 DEF PipelineInv

LEMMA DeleteRowsStep ==
  ASSUME PipelineInv, DeleteRows
  PROVE  PipelineInv'
<1> DEFINE row == [snapshot[Oldest] EXCEPT !.rows = {}]
<1>1. /\ run.step = "rows" /\ snapshot' = [snapshot EXCEPT ![Oldest] = row]
      /\ run' = [run EXCEPT !.step = "snapshot"] /\ UNCHANGED <<input, issuer, reader>>
  BY DEF DeleteRows
<1>2. /\ Oldest \in DOMAIN snapshot /\ ~snapshot[Oldest].active /\ Oldest # reader.snap
      /\ issuer[Runner].at = "idle" /\ run \in Runs /\ snapshot \in Seq(Snapshot)
  BY <1>1, OldestDoomed DEF Deleting
<1>3. run' \in Runs /\ run'.step = "snapshot" /\ run'.doomed = run.doomed
  BY <1>1, <1>2 DEF Runs, Steps
<1>4. \A t \in DOMAIN snapshot : snapshot[t] \in Snapshot
  BY <1>2, Table
<1>5. /\ row \in Snapshot /\ row.status = snapshot[Oldest].status /\ row.active = snapshot[Oldest].active
      /\ row.recent = snapshot[Oldest].recent
  BY <1>2, <1>4 DEF Snapshot
<1> HIDE DEF row
<1>6. snapshot' \in [DOMAIN snapshot -> Snapshot]
      /\ \A t \in DOMAIN snapshot : snapshot'[t] = IF t = Oldest THEN row ELSE snapshot[t]
  BY <1>1, <1>4, <1>5
<1>7. snapshot' \in Seq(Snapshot) /\ DOMAIN snapshot' = DOMAIN snapshot
  BY <1>2, <1>6, Rewritten
<1>8. \A t \in DOMAIN snapshot :
        /\ snapshot'[t].status = snapshot[t].status /\ snapshot'[t].active = snapshot[t].active
        /\ t # Oldest => snapshot'[t] = snapshot[t]
  BY <1>5, <1>6
<1>9. ActiveSound'
  BY <1>2, <1>7, <1>8 DEF PipelineInv, ActiveSound
<1>10. ReaderSound'
  <2>1. \A s : NewerReady(snapshot', s) = NewerReady(snapshot, s)
    BY <1>7, <1>8 DEF NewerReady
  <2> QED BY <1>1, <1>2, <1>7, <1>8, <2>1 DEF PipelineInv, ReaderSound
<1>11. RetentionSound'
  BY <1>1, <1>3, <1>7, <1>8 DEF PipelineInv, RetentionSound, Deleting
<1>12. Shape' /\ InputsSound' /\ BuildSound' /\ IssuerSound'
  BY <1>1, <1>2, <1>3, <1>7 DEF PipelineInv, Shape, InputsSound, BuildSound, IssuerSound
<1> QED BY <1>9, <1>10, <1>11, <1>12 DEF PipelineInv

LEMMA DeleteSnapshotStep ==
  ASSUME PipelineInv, DeleteSnapshot
  PROVE  PipelineInv'
<1> DEFINE o == Oldest
           n == Len(snapshot)
           left == {AfterDelete(o, s) : s \in run.doomed \ {o}}
           next == [run EXCEPT !.step = "artifacts", !.doomed = left]
<1>1. /\ run.step = "snapshot" /\ snapshot' = RemoveAt(snapshot, o) /\ UNCHANGED input
      /\ issuer' = [p \in Issuers |-> [issuer[p] EXCEPT !.snap = AfterDelete(o, @)]]
      /\ reader' = [reader EXCEPT !.snap = AfterDelete(o, @)]
      /\ run' = IF run.doomed = {o} THEN Resting ELSE next
  BY DEF DeleteSnapshot
<1>2. /\ o \in run.doomed /\ \A t \in run.doomed : o <= t
      /\ o \in DOMAIN snapshot /\ ~snapshot[o].active /\ o # reader.snap
      /\ issuer[Runner].at = "idle" /\ run \in Runs /\ snapshot \in Seq(Snapshot)
  BY <1>1, OldestDoomed DEF Deleting
<1>3. /\ issuer \in [Issuers -> Issuings] /\ reader \in Readers /\ Runner \in Issuers
      /\ run.doomed \subseteq DOMAIN snapshot
      /\ \A s \in run.doomed : ~snapshot[s].active /\ s # reader.snap
  BY DEF PipelineInv, Shape, Issuers, RetentionSound
<1> HIDE DEF o
<1>4. /\ n \in Nat /\ DOMAIN snapshot = 1 .. n /\ o \in 1 .. n
      /\ \A t \in 1 .. n : snapshot[t] \in Snapshot
  BY <1>2, Table
<1>5. /\ snapshot' \in Seq(Snapshot) /\ DOMAIN snapshot' = 1 .. n - 1
      /\ \A t \in 1 .. n - 1 : snapshot'[t] = IF t < o THEN snapshot[t] ELSE snapshot[t + 1]
  BY <1>1, <1>2, <1>4, Removed, Table
<1> HIDE DEF n
<1>6. \A s \in Int : /\ AfterDelete(o, s) \in Int
                     /\ s # o => AfterDelete(o, s) = IF s > o THEN s - 1 ELSE s
  BY <1>4 DEF AfterDelete, Gone
<1>7. \A s \in DOMAIN snapshot \ {o} :
        AfterDelete(o, s) \in DOMAIN snapshot' /\ snapshot'[AfterDelete(o, s)] = snapshot[s]
  <2> TAKE s \in DOMAIN snapshot \ {o}
  <2>1. s \in 1 .. n /\ s # o
    BY <1>4
  <2>2. CASE s > o
    <3>1. AfterDelete(o, s) = s - 1 /\ s - 1 \in 1 .. n - 1 /\ ~(s - 1 < o) /\ s - 1 + 1 = s
      BY <1>4, <1>6, <2>1, <2>2
    <3> QED BY <1>5, <3>1
  <2>3. CASE ~(s > o)
    <3>1. AfterDelete(o, s) = s /\ s \in 1 .. n - 1 /\ s < o
      BY <1>4, <1>6, <2>1, <2>3
    <3> QED BY <1>5, <3>1
  <2> QED BY <2>2, <2>3
<1>8. \A t \in DOMAIN snapshot' : \E s \in DOMAIN snapshot \ {o} :
        t = AfterDelete(o, s) /\ snapshot'[t] = snapshot[s]
  <2> TAKE t \in DOMAIN snapshot'
  <2>1. t \in 1 .. n - 1
    BY <1>5
  <2>2. CASE t < o
    <3>1. t \in DOMAIN snapshot \ {o} /\ t = AfterDelete(o, t) /\ snapshot'[t] = snapshot[t]
      <4>1. t \in 1 .. n /\ t # o /\ ~(t > o) /\ t \in Int
        BY <1>4, <2>1, <2>2
      <4> QED BY <1>4, <1>5, <1>6, <2>1, <2>2, <4>1
    <3> QED BY <3>1
  <2>3. CASE ~(t < o)
    <3>1. t + 1 \in DOMAIN snapshot \ {o} /\ t = AfterDelete(o, t + 1) /\ snapshot'[t] = snapshot[t + 1]
      <4>1. t + 1 \in 1 .. n /\ t + 1 # o /\ t + 1 > o /\ t + 1 \in Int /\ t + 1 - 1 = t
        BY <1>4, <2>1, <2>3
      <4>2. AfterDelete(o, t + 1) = t
        BY <1>4, <2>1, <4>1 DEF AfterDelete
      <4> QED BY <1>4, <1>5, <2>1, <2>3, <4>1, <4>2
    <3> QED BY <3>1
  <2> QED BY <2>2, <2>3
<1>9. ActiveSound'
  <2> SUFFICES ASSUME NEW s \in DOMAIN snapshot', snapshot'[s].active
               PROVE  /\ snapshot'[s].status = "READY" /\ snapshot'[s].rows = Agents
                      /\ \A t \in DOMAIN snapshot' : snapshot'[t].status = "READY" => t <= s
    BY DEF ActiveSound
  <2>1. PICK r \in DOMAIN snapshot \ {o} : s = AfterDelete(o, r) /\ snapshot'[s] = snapshot[r]
    BY <1>8
  <2>2. /\ snapshot[r].status = "READY" /\ snapshot[r].rows = Agents
        /\ \A t \in DOMAIN snapshot : snapshot[t].status = "READY" => t <= r
    BY <2>1 DEF PipelineInv, ActiveSound
  <2>3. ASSUME NEW t \in DOMAIN snapshot', snapshot'[t].status = "READY" PROVE t <= s
    <3>1. PICK q \in DOMAIN snapshot \ {o} : t = AfterDelete(o, q) /\ snapshot'[t] = snapshot[q]
      BY <1>8
    <3>2. q <= r /\ q \in Int /\ r \in Int /\ q # o /\ r # o
      BY <1>4, <2>1, <2>2, <2>3, <3>1
    <3>3. t = (IF q > o THEN q - 1 ELSE q) /\ s = (IF r > o THEN r - 1 ELSE r)
      BY <1>6, <2>1, <3>1, <3>2
    <3> QED BY <1>4, <3>2, <3>3
  <2> QED BY <2>1, <2>2, <2>3
<1>10. /\ reader' \in Readers /\ reader'.snap = AfterDelete(o, reader.snap) /\ reader'.missed = reader.missed
  BY <1>1, <1>3, <1>6 DEF Readers
<1>11. reader = NoRequest => reader' = NoRequest
  <2>1. AfterDelete(o, 0) = 0
    BY <1>4, <1>6
  <2> QED BY <1>1, <2>1 DEF NoRequest, None
<1>12. ReaderSound'
  <2>1. SUFFICES ASSUME reader # NoRequest PROVE ReaderSound'
    BY <1>11 DEF ReaderSound
  <2> DEFINE s == reader.snap
             t == AfterDelete(o, s)
  <2>2. /\ s \in DOMAIN snapshot /\ s # o /\ snapshot[s].rows = Agents
        /\ IF snapshot[s].status = "READY" THEN Cardinality(NewerReady(snapshot, s)) <= reader.missed
                                           ELSE snapshot[s].recent
    BY <1>2, <2>1 DEF PipelineInv, ReaderSound
  <2> HIDE DEF s
  <2>3. t \in DOMAIN snapshot' /\ snapshot'[t] = snapshot[s]
    BY <1>7, <2>2
  <2>4. Cardinality(NewerReady(snapshot', t)) <= Cardinality(NewerReady(snapshot, s))
    BY <1>1, <1>2, <2>2, NewerRemoved
  <2>5. Cardinality(NewerReady(snapshot', t)) \in Nat /\ Cardinality(NewerReady(snapshot, s)) \in Nat
    BY <1>2, <1>5, NewerFinite
  <2>6. reader.missed \in Int /\ reader'.snap = t /\ reader'.missed = reader.missed
    BY <1>3, <1>10, PipelineAssumption DEF Readers, s
  <2> HIDE DEF t
  <2> QED BY <2>2, <2>3, <2>4, <2>5, <2>6 DEF ReaderSound
<1>13. issuer' \in [Issuers -> Issuings] /\ issuer'[Runner].at = "idle"
  <2>1. \A i \in Issuings : LET q == [i EXCEPT !.snap = AfterDelete(o, i.snap)]
                            IN  q \in Issuings /\ q.at = i.at
    BY <1>6 DEF Issuings
  <2> QED BY <1>1, <1>2, <1>3, <2>1
<1>14. ASSUME NEW s \in left PROVE s \in DOMAIN snapshot' /\ ~snapshot'[s].active /\ s # reader'.snap
  <2>1. PICK r \in run.doomed \ {o} : s = AfterDelete(o, r)
    BY <1>14
  <2>2. r \in DOMAIN snapshot \ {o} /\ ~snapshot[r].active /\ r # reader.snap /\ r > o
    BY <1>2, <1>3, <1>4, <2>1
  <2>3. s = r - 1 /\ r \in Int
    BY <1>4, <1>6, <2>1, <2>2
  <2>4. reader.snap \in Int /\ reader.snap # o
    BY <1>2, <1>3 DEF Readers
  <2>5. s # reader'.snap
    <3>1. reader'.snap = IF reader.snap > o THEN reader.snap - 1 ELSE reader.snap
      BY <1>6, <1>10, <2>4
    <3> QED BY <1>4, <2>2, <2>3, <2>4, <3>1
  <2> QED BY <1>7, <2>1, <2>2, <2>5
<1>15. left \in SUBSET Nat
  <2>1. DOMAIN snapshot' \subseteq Nat
    BY <1>4, <1>5
  <2> QED BY <1>14, <2>1
<1>16. run.doomed # {o} => left # {}
  BY <1>2
<1> HIDE DEF left
<1>17. next \in Runs /\ next.step = "artifacts" /\ next.doomed = left
  BY <1>2, <1>15 DEF Runs, Steps
<1> HIDE DEF next
<1>18. RetentionSound' /\ run' \in Runs /\ run'.step \in {"idle", "artifacts"}
  <2>1. CASE run.doomed = {o}
    BY <1>1, <2>1, RestingRun DEF RetentionSound, Deleting
  <2>2. CASE run.doomed # {o}
    BY <1>1, <1>14, <1>16, <1>17, <2>2 DEF RetentionSound, Deleting
  <2> QED BY <2>1, <2>2
<1>19. Shape' /\ InputsSound' /\ BuildSound' /\ IssuerSound'
  BY <1>1, <1>5, <1>10, <1>13, <1>18 DEF PipelineInv, Shape, InputsSound, BuildSound, IssuerSound
<1> QED BY <1>9, <1>12, <1>18, <1>19 DEF PipelineInv

-----------------------------------------------------------------------------
(* Requests, evidence, and time. *)

LEMMA ChooseStep ==
  ASSUME PipelineInv, ChooseSnapshot
  PROVE  PipelineInv'
<1>1. /\ UNCHANGED <<input, snapshot, run, issuer>>
      /\ \E s \in Served : reader' = [snap |-> s, missed |-> 0]
  BY DEF ChooseSnapshot
<1>2. PICK s \in Served : reader' = [snap |-> s, missed |-> 0]
  BY <1>1
<1>3. snapshot \in Seq(Snapshot) /\ s \in DOMAIN snapshot /\ snapshot[s].active /\ snapshot[s].status = "READY"
  BY <1>2 DEF PipelineInv, Shape, Served, IsReady, Existing
<1>4. /\ snapshot[s].rows = Agents
      /\ \A t \in DOMAIN snapshot : snapshot[t].status = "READY" => t <= s
  BY <1>3 DEF PipelineInv, ActiveSound
<1>5. Len(snapshot) \in Nat /\ DOMAIN snapshot = 1 .. Len(snapshot)
  BY <1>3, Table
<1>6. NewerReady(snapshot, s) = {}
  BY <1>3, <1>4, <1>5 DEF NewerReady
<1>7. reader' \in Readers /\ reader'.snap = s /\ reader'.missed = 0
  BY <1>2, <1>3, <1>5, PipelineAssumption DEF Readers
<1>8. ReaderSound'
  <2>1. Cardinality(NewerReady(snapshot, s)) = 0
    BY <1>6, FS_EmptySet
  <2> QED BY <1>1, <1>3, <1>4, <1>7, <2>1 DEF ReaderSound
<1>9. RetentionSound'
  BY <1>1, <1>3, <1>7 DEF PipelineInv, RetentionSound
<1>10. Shape' /\ InputsSound' /\ BuildSound' /\ ActiveSound' /\ IssuerSound'
  BY <1>1, <1>7 DEF PipelineInv, Shape, InputsSound, BuildSound, ActiveSound, IssuerSound
<1> QED BY <1>8, <1>9, <1>10 DEF PipelineInv

LEMMA AnswerStep ==
  ASSUME PipelineInv, AnswerRows
  PROVE  PipelineInv'
<1>1. UNCHANGED <<input, snapshot, run, issuer>> /\ reader' = NoRequest
  BY DEF AnswerRows
<1>2. NoRequest \in Readers /\ NoRequest.snap = 0
  BY PipelineAssumption DEF NoRequest, Readers, None
<1>3. snapshot \in Seq(Snapshot) /\ 0 \notin DOMAIN snapshot
  <2>1. snapshot \in Seq(Snapshot)
    BY DEF PipelineInv, Shape
  <2>2. Len(snapshot) \in Nat /\ DOMAIN snapshot = 1 .. Len(snapshot)
    BY <2>1, Table
  <2> QED BY <2>1, <2>2
<1>4. RetentionSound'
  BY <1>1, <1>2, <1>3 DEF PipelineInv, RetentionSound
<1>5. Shape' /\ InputsSound' /\ BuildSound' /\ ActiveSound' /\ IssuerSound' /\ ReaderSound'
  BY <1>1, <1>2 DEF PipelineInv, Shape, InputsSound, BuildSound, ActiveSound, IssuerSound, ReaderSound
<1> QED BY <1>4, <1>5 DEF PipelineInv

LEMMA GrowsOldStep ==
  ASSUME PipelineInv, NEW s \in Existing, GrowsOld(s)
  PROVE  PipelineInv'
<1> DEFINE row == [snapshot[s] EXCEPT !.recent = FALSE]
<1>1. /\ run = Resting /\ reader.snap # s /\ snapshot' = [snapshot EXCEPT ![s] = row]
      /\ s \in DOMAIN snapshot /\ UNCHANGED <<input, run, issuer, reader>>
  BY DEF GrowsOld, Existing
<1>2. snapshot \in Seq(Snapshot)
  BY DEF PipelineInv, Shape
<1>3. \A t \in DOMAIN snapshot : snapshot[t] \in Snapshot
  BY <1>2, Table
<1>4. row \in Snapshot /\ row.status = snapshot[s].status /\ row.active = snapshot[s].active
      /\ row.rows = snapshot[s].rows
  BY <1>1, <1>3 DEF Snapshot
<1> HIDE DEF row
<1>5. snapshot' \in [DOMAIN snapshot -> Snapshot]
      /\ \A t \in DOMAIN snapshot : snapshot'[t] = IF t = s THEN row ELSE snapshot[t]
  BY <1>1, <1>3, <1>4
<1>6. snapshot' \in Seq(Snapshot) /\ DOMAIN snapshot' = DOMAIN snapshot
  BY <1>2, <1>5, Rewritten
<1>7. \A t \in DOMAIN snapshot :
        /\ snapshot'[t].status = snapshot[t].status /\ snapshot'[t].active = snapshot[t].active
        /\ snapshot'[t].rows = snapshot[t].rows
        /\ t # s => snapshot'[t] = snapshot[t]
  BY <1>4, <1>5
<1>8. ActiveSound'
  BY <1>6, <1>7 DEF PipelineInv, ActiveSound
<1>9. ReaderSound'
  <2>1. \A t : NewerReady(snapshot', t) = NewerReady(snapshot, t)
    BY <1>6, <1>7 DEF NewerReady
  <2> QED BY <1>1, <1>6, <1>7, <2>1 DEF PipelineInv, ReaderSound
<1>10. Shape' /\ InputsSound' /\ BuildSound' /\ RetentionSound' /\ IssuerSound'
  BY <1>1, <1>6, <1>7, RestingRun
     DEF PipelineInv, Shape, InputsSound, BuildSound, RetentionSound, IssuerSound
<1> QED BY <1>8, <1>9, <1>10 DEF PipelineInv

LEMMA PipelineInit == Init => PipelineInv
<1> SUFFICES ASSUME Init PROVE PipelineInv
  OBVIOUS
<1>1. input \in Inputs /\ snapshot = <<>> /\ run = Resting /\ reader = NoRequest
  BY DEF Init, Inputs
<1>2. snapshot \in Seq(Snapshot) /\ DOMAIN snapshot = {}
  BY <1>1, EmptySeq, Table
<1>3. issuer \in [Issuers -> Issuings] /\ issuer[Runner].at = "idle"
  BY NotIssuingIdle DEF Init, Issuers
<1>4. NoRequest \in Readers
  BY PipelineAssumption DEF NoRequest, Readers, None
<1> QED BY <1>1, <1>2, <1>3, <1>4, RestingRun
        DEF PipelineInv, Shape, InputsSound, BuildSound, ActiveSound, RetentionSound, ReaderSound,
            IssuerSound, Deleting

LEMMA PipelineStep ==
  ASSUME PipelineInv, [Next]_vars
  PROVE  PipelineInv'
<1>1. CASE Refresh
  BY <1>1, LoadSourcesStep, UpsertStep, SyncStep, FetchStep DEF Refresh
<1>2. CASE Publish
  <2>1. CASE BuildSnapshotRows
    BY <2>1, BuildStep
  <2>2. CASE CreateHeard
    BY <2>2, CreateHeardStep
  <2>3. CASE \E a \in Agents : InsertHeard(a) \/ DuplicateRow(a)
    BY <2>3, InsertHeardStep, FailingStep DEF DuplicateRow
  <2>4. CASE ActivateHeard
    BY <2>4, ActivateHeardStep
  <2>5. CASE MarkFailed
    BY <2>5, MarkFailedStep
  <2> QED BY <1>2, <2>1, <2>2, <2>3, <2>4, <2>5 DEF Publish
<1>3. CASE Unlucky
  <2>1. CASE GiveUp
    BY <2>1, FailingStep DEF GiveUp
  <2> QED BY <1>3, <2>1, CreateUnheardStep, InsertUnheardStep, ActivateUnheardStep, DieStep DEF Unlucky
<1>4. CASE Retain
  BY <1>4, PlanStep, DeleteArtifactsStep, DeleteRowsStep, DeleteSnapshotStep DEF Retain
<1>5. CASE LookUpActive
  BY <1>5, LookUpStep
<1>6. CASE \E p \in Issuers : Issue(p)
  BY <1>6, DeactivateStep, IssueStep, IssuingFailsStep DEF Issue
<1>7. CASE ChooseSnapshot
  BY <1>7, ChooseStep
<1>8. CASE AnswerRows
  BY <1>8, AnswerStep
<1>9. CASE \E a \in Earners : EvidenceChanges(a)
  <2>1. UNCHANGED <<input, snapshot, run, issuer, reader>>
    BY <1>9 DEF EvidenceChanges
  <2> QED BY <2>1 DEF PipelineInv, Shape, InputsSound, BuildSound, ActiveSound, RetentionSound,
                      ReaderSound, IssuerSound
<1>10. CASE \E s \in Existing : GrowsOld(s)
  BY <1>10, GrowsOldStep
<1>11. CASE UNCHANGED vars
  BY <1>11 DEF vars, PipelineInv, Shape, InputsSound, BuildSound, ActiveSound, RetentionSound,
               ReaderSound, IssuerSound
<1> QED BY <1>1, <1>2, <1>3, <1>4, <1>5, <1>6, <1>7, <1>8, <1>9, <1>10, <1>11 DEF Next

LEMMA PipelineInvariant == Spec => []PipelineInv
<1> QED BY PipelineInit, PipelineStep, PTL DEF Spec

-----------------------------------------------------------------------------
(* What is served, and what a request has chosen. *)

\* The ranking that GET /api/agents serves is one, and has a row for every
\* agent, wherever runs stopped and whichever answers they lost.
THEOREM WholeIsServed == Spec => []ServedIsWhole
<1>1. ASSUME PipelineInv PROVE ServedIsWhole
  <2>1. \A s \in Existing : snapshot[s].active => IsReady(s) /\ Whole(s)
    BY <1>1 DEF PipelineInv, ActiveSound, Existing, IsReady, Whole
  <2>2. \A s, t \in Served : s = t
    <3>1. snapshot \in Seq(Snapshot)
      BY <1>1 DEF PipelineInv, Shape
    <3>2. Len(snapshot) \in Nat /\ DOMAIN snapshot = 1 .. Len(snapshot)
      BY <3>1, Table
    <3>3. \A s, t \in Served : s <= t /\ s \in Int
      BY <1>1, <3>2 DEF PipelineInv, ActiveSound, Served, IsReady, Existing
    <3> QED BY <3>3
  <2>3. Cardinality(Served) <= 1
    <3>1. CASE Served = {}
      BY <3>1, FS_EmptySet
    <3>2. CASE Served # {}
      <4>1. PICK s : Served = {s}
        BY <2>2, <3>2
      <4> QED BY <4>1, FS_Singleton
    <3> QED BY <3>1, <3>2
  <2> QED BY <2>1, <2>3 DEF ServedIsWhole
<1> QED BY <1>1, PipelineInvariant, PTL

\* A request that has chosen a snapshot finds all its rows, for every number of
\* rankings that retention keeps.
THEOREM ChosenStays == Spec => []ChosenStaysWhole
<1>1. PipelineInv => ChosenStaysWhole
  BY DEF PipelineInv, ReaderSound, ChosenStaysWhole, Whole, Existing
<1> QED BY <1>1, PipelineInvariant, PTL

-----------------------------------------------------------------------------
(* What becomes of the served ranking and of its artifacts in a step. *)

StillServed(table, new, s) ==
  \E t \in DOMAIN new :
    new[t].active /\ new[t].status = "READY" /\ table[s].trusted \subseteq new[t].trusted

LEMMA SameServed ==
  ASSUME NEW table, NEW new, NEW s \in DOMAIN new,
         new[s].active, new[s].status = "READY", table[s].trusted \subseteq new[s].trusted
  PROVE  StillServed(table, new, s)
BY DEF StillServed

LEMMA ServedRow ==
  ASSUME PipelineInv, NEW s \in Served
  PROVE  /\ snapshot \in Seq(Snapshot) /\ s \in DOMAIN snapshot /\ snapshot[s] \in Snapshot
         /\ snapshot[s].active /\ snapshot[s].status = "READY"
         /\ \A t \in DOMAIN snapshot : snapshot[t].active => t = s
<1>1. /\ snapshot \in Seq(Snapshot) /\ s \in DOMAIN snapshot
      /\ snapshot[s].active /\ snapshot[s].status = "READY"
  BY DEF PipelineInv, Shape, Served, IsReady, Existing
<1>2. /\ Len(snapshot) \in Nat /\ DOMAIN snapshot = 1 .. Len(snapshot)
      /\ \A t \in DOMAIN snapshot : snapshot[t] \in Snapshot
  BY <1>1, Table
<1>3. ASSUME NEW t \in DOMAIN snapshot, snapshot[t].active PROVE t = s
  <2>1. t <= s /\ s <= t
    BY <1>1, <1>3 DEF PipelineInv, ActiveSound
  <2> QED BY <1>1, <1>2, <2>1
<1> QED BY <1>1, <1>2, <1>3

LEMMA MovedRow ==
  ASSUME NEW table \in Seq(Snapshot), NEW o \in DOMAIN table, NEW s \in DOMAIN table, s # o
  PROVE  /\ AfterDelete(o, s) \in DOMAIN RemoveAt(table, o)
         /\ RemoveAt(table, o)[AfterDelete(o, s)] = table[s]
<1> DEFINE n == Len(table)
<1>1. n \in Nat /\ o \in 1 .. n /\ s \in 1 .. n
  BY Table
<1>2. /\ DOMAIN RemoveAt(table, o) = 1 .. n - 1
      /\ \A i \in 1 .. n - 1 : RemoveAt(table, o)[i] = IF i < o THEN table[i] ELSE table[i + 1]
  BY Removed, Table
<1> HIDE DEF n
<1>3. CASE s > o
  <2>1. AfterDelete(o, s) = s - 1 /\ s - 1 \in 1 .. n - 1 /\ ~(s - 1 < o) /\ s - 1 + 1 = s
    BY <1>1, <1>3 DEF AfterDelete
  <2> QED BY <1>2, <2>1
<1>4. CASE ~(s > o)
  <2>1. AfterDelete(o, s) = s /\ s \in 1 .. n - 1 /\ s < o
    BY <1>1, <1>4 DEF AfterDelete
  <2> QED BY <1>2, <2>1
<1> QED BY <1>3, <1>4

LEMMA PublishFate ==
  ASSUME PipelineInv, NEW s \in Served, UNCHANGED snapshot \/ CreateSnapshot \/ \E a \in Agents : InsertRows(a)
  PROVE  StillServed(snapshot, snapshot', s)
<1>1. /\ snapshot \in Seq(Snapshot) /\ s \in DOMAIN snapshot /\ snapshot[s] \in Snapshot
      /\ snapshot[s].active /\ snapshot[s].status = "READY"
  BY ServedRow
<1>2. CASE UNCHANGED snapshot
  BY <1>1, <1>2, SameServed
<1>3. CASE CreateSnapshot
  <2>1. snapshot' = Append(snapshot, Building) /\ Building \in Snapshot
    BY <1>3 DEF CreateSnapshot, Building, Snapshot
  <2>2. Len(snapshot) \in Nat /\ DOMAIN snapshot = 1 .. Len(snapshot)
    BY <1>1, Table
  <2>3. /\ snapshot' \in Seq(Snapshot) /\ Len(snapshot') = Len(snapshot) + 1
        /\ \A i \in 1 .. Len(snapshot) : snapshot'[i] = snapshot[i]
    BY <1>1, <2>1, AppendProperties
  <2>4. s \in DOMAIN snapshot' /\ snapshot'[s] = snapshot[s]
    BY <1>1, <2>2, <2>3, Table
  <2> QED BY <1>1, <2>4, SameServed
<1>4. CASE \E a \in Agents : InsertRows(a)
  <2>1. PICK a \in Agents : InsertRows(a)
    BY <1>4
  <2>2. snapshot' = [snapshot EXCEPT ![run.snap].rows = @ \cup {a}]
    BY <2>1 DEF InsertRows
  <2>3. /\ s \in DOMAIN snapshot' /\ snapshot'[s].active /\ snapshot'[s].status = "READY"
        /\ snapshot'[s].trusted = snapshot[s].trusted
    BY <1>1, <2>2 DEF Snapshot
  <2> QED BY <2>3, SameServed
<1> QED BY <1>2, <1>3, <1>4

LEMMA ActivateFate ==
  ASSUME PipelineInv, NEW s \in Served, ActivateSnapshot
  PROVE  /\ run.step = "activate" /\ Served' # {}
         /\ StillServed(snapshot, snapshot', s) \/ Served' # Served
<1>1. snapshot \in Seq(Snapshot) /\ s \in DOMAIN snapshot /\ run.step = "activate"
  BY ServedRow DEF ActivateSnapshot
<1>2. run.snap \in DOMAIN snapshot
  <2>1. Len(snapshot) \in Nat /\ DOMAIN snapshot = 1 .. Len(snapshot)
    BY <1>1, Table
  <2>2. run.snap = Len(snapshot) /\ run.snap >= 1
    BY <1>1 DEF PipelineInv, BuildSound
  <2> QED BY <2>1, <2>2
<1>3. snapshot' = ActivatedIn(snapshot, run.snap)
  BY DEF ActivateSnapshot, Activated, ActivatedIn, Existing
<1>4. /\ DOMAIN snapshot' = DOMAIN snapshot
      /\ snapshot'[run.snap].active /\ snapshot'[run.snap].status = "READY"
      /\ snapshot'[s].trusted = snapshot[s].trusted
  <2> DEFINE n == run.snap
  <2>1. snapshot \in Seq(Snapshot) /\ n \in DOMAIN snapshot
    BY <1>1, <1>2
  <2>2. snapshot' = ActivatedIn(snapshot, n)
    BY <1>3
  <2> HIDE DEF n
  <2>3. /\ snapshot' \in Seq(Snapshot) /\ DOMAIN snapshot' = DOMAIN snapshot /\ Len(snapshot') = Len(snapshot)
        /\ \A t \in DOMAIN snapshot :
             /\ snapshot'[t].active = (t = n) /\ snapshot'[t].rows = snapshot[t].rows
             /\ snapshot'[t].recent = snapshot[t].recent
             /\ snapshot'[t].status = IF t = n THEN "READY" ELSE snapshot[t].status
             /\ snapshot'[t].trusted = snapshot[t].trusted
    BY <2>1, <2>2, ActivatedTable
  <2>4. snapshot'[n].active /\ snapshot'[n].status = "READY"
    BY <2>1, <2>3
  <2> QED BY <1>1, <2>3, <2>4 DEF n
<1>5. run.snap \in Served'
  BY <1>2, <1>4 DEF Served, IsReady, Existing
<1>6. ASSUME Served' = Served PROVE StillServed(snapshot, snapshot', s)
  <2>1. s \in DOMAIN snapshot' /\ snapshot'[s].active /\ snapshot'[s].status = "READY"
    BY <1>6 DEF Served, IsReady, Existing
  <2> QED BY <1>4, <2>1, SameServed
<1> QED BY <1>1, <1>5, <1>6

LEMMA FailedFate ==
  ASSUME PipelineInv, NEW s \in Served, MarkFailed
  PROVE  \/ StillServed(snapshot, snapshot', s)
         \/ run.step = "failing" /\ run.snap \in Served /\ Served' # Served
<1>1. /\ snapshot \in Seq(Snapshot) /\ s \in DOMAIN snapshot /\ snapshot[s] \in Snapshot
      /\ snapshot[s].active /\ snapshot[s].status = "READY"
  BY ServedRow
<1>2. /\ run.step = "failing"
      /\ snapshot' = [snapshot EXCEPT ![run.snap].status = "FAILED", ![run.snap].active = FALSE]
  BY DEF MarkFailed, FailedMark
<1>3. DOMAIN snapshot' = DOMAIN snapshot /\ (s # run.snap => snapshot'[s] = snapshot[s])
  BY <1>1, <1>2
<1>4. CASE s # run.snap
  BY <1>1, <1>3, <1>4, SameServed
<1>5. CASE s = run.snap
  <2>1. snapshot'[s].status = "FAILED"
    BY <1>1, <1>2, <1>5 DEF Snapshot
  <2>2. s \notin Served'
    BY <2>1 DEF Served, IsReady, Existing
  <2> QED BY <1>2, <1>5, <2>2
<1> QED BY <1>4, <1>5

LEMMA IssueFate ==
  ASSUME PipelineInv, NEW s \in Served, NEW p \in Issuers, Issue(p)
  PROVE  \/ StillServed(snapshot, snapshot', s)
         \/ issuer[Backfill].at = "begun" /\ issuer[Backfill].snap \notin Served /\ Served' # {}
<1>1. /\ snapshot \in Seq(Snapshot) /\ s \in DOMAIN snapshot /\ snapshot[s] \in Snapshot
      /\ snapshot[s].active /\ snapshot[s].status = "READY"
      /\ \A t \in DOMAIN snapshot : snapshot[t].active => t = s
  BY ServedRow
<1>2. CASE DeactivateOthers(p)
  <2>1. /\ issuer[p].at = "begun"
        /\ snapshot' = [t \in DOMAIN snapshot |->
             IF t \in OtherSnapshots(issuer[p].snap)
             THEN [snapshot[t] EXCEPT !.trusted = @ \ issuer[p].todo] ELSE snapshot[t]]
    BY <1>2 DEF DeactivateOthers, Existing
  <2>2. CASE issuer[p].snap = s
    <3>1. s \notin OtherSnapshots(issuer[p].snap)
      BY <2>2 DEF OtherSnapshots
    <3>2. s \in DOMAIN snapshot' /\ snapshot'[s] = snapshot[s]
      BY <1>1, <2>1, <3>1
    <3> QED BY <1>1, <3>2, SameServed
  <2>3. CASE issuer[p].snap # s
    <3>1. p = Backfill
      <4>1. SUFFICES ASSUME p = Runner PROVE FALSE
        BY DEF Issuers
      <4>2. issuer[Runner].snap \in DOMAIN snapshot /\ snapshot[issuer[Runner].snap].active
        BY <2>1, <4>1 DEF PipelineInv, IssuerSound
      <4> QED BY <1>1, <2>3, <4>1, <4>2
    <3>2. issuer[p].snap \notin Served
      BY <1>1, <2>3 DEF Served, Existing
    <3>3. /\ s \in DOMAIN snapshot' /\ snapshot'[s].active /\ snapshot'[s].status = "READY"
      <4>1. snapshot'[s] \in {snapshot[s], [snapshot[s] EXCEPT !.trusted = @ \ issuer[p].todo]}
            /\ s \in DOMAIN snapshot'
        BY <1>1, <2>1
      <4> QED BY <1>1, <4>1 DEF Snapshot
    <3>4. s \in Served'
      BY <3>3 DEF Served, IsReady, Existing
    <3> QED BY <2>1, <3>1, <3>2, <3>4
  <2> QED BY <2>2, <2>3
<1>3. CASE \E a \in Agents : IssueArtifact(p, a)
  <2>1. PICK a \in Agents : snapshot' = [snapshot EXCEPT ![issuer[p].snap].trusted = @ \cup {a}]
    BY <1>3 DEF IssueArtifact
  <2>2. /\ s \in DOMAIN snapshot' /\ snapshot'[s].active /\ snapshot'[s].status = "READY"
        /\ snapshot[s].trusted \subseteq snapshot'[s].trusted
    BY <1>1, <2>1 DEF Snapshot
  <2> QED BY <2>2, SameServed
<1>4. CASE IssuingFails(p)
  <2>1. UNCHANGED snapshot
    BY <1>4 DEF IssuingFails
  <2> QED BY <2>1, PublishFate
<1> QED BY <1>2, <1>3, <1>4 DEF Issue

LEMMA RetainFate ==
  ASSUME PipelineInv, NEW s \in Served, Retain
  PROVE  StillServed(snapshot, snapshot', s)
<1>1. /\ snapshot \in Seq(Snapshot) /\ s \in DOMAIN snapshot /\ snapshot[s] \in Snapshot
      /\ snapshot[s].active /\ snapshot[s].status = "READY"
  BY ServedRow
<1>2. CASE PlanRetention
  <2>1. UNCHANGED snapshot
    BY <1>2 DEF PlanRetention
  <2> QED BY <2>1, PublishFate
<1>3. CASE DeleteArtifacts \/ DeleteRows
  <2>1. run.step \in Deleting
    BY <1>3 DEF DeleteArtifacts, DeleteRows, Deleting
  <2>2. s # Oldest
    BY <1>1, <2>1, OldestDoomed
  <2>3. DOMAIN snapshot' = DOMAIN snapshot /\ snapshot'[s] = snapshot[s]
    BY <1>1, <1>3, <2>2 DEF DeleteArtifacts, DeleteRows
  <2> QED BY <1>1, <2>3, SameServed
<1>4. CASE DeleteSnapshot
  <2>1. run.step \in Deleting /\ snapshot' = RemoveAt(snapshot, Oldest)
    BY <1>4 DEF DeleteSnapshot, Deleting
  <2>2. s # Oldest /\ Oldest \in DOMAIN snapshot
    BY <1>1, <2>1, OldestDoomed
  <2>3. AfterDelete(Oldest, s) \in DOMAIN snapshot' /\ snapshot'[AfterDelete(Oldest, s)] = snapshot[s]
    BY <1>1, <2>1, <2>2, MovedRow
  <2> QED BY <1>1, <2>3 DEF StillServed
<1> QED BY <1>2, <1>3, <1>4 DEF Retain

LEMMA ServedFate ==
  ASSUME PipelineInv, [Next]_vars, NEW s \in Served
  PROVE  \/ StillServed(snapshot, snapshot', s)
         \/ run.step = "activate" /\ Served' # {} /\ Served' # Served
         \/ run.step = "failing" /\ run.snap \in Served /\ Served' # Served
         \/ issuer[Backfill].at = "begun" /\ issuer[Backfill].snap \notin Served /\ Served' # {}
<1>1. CASE Refresh
  <2>1. UNCHANGED snapshot
    BY <1>1 DEF Refresh, LoadSources, UpsertScoreInput, SyncRailMetrics, FetchRollups
  <2> QED BY <2>1, PublishFate
<1>2. CASE Publish
  <2>1. CASE BuildSnapshotRows \/ \E a \in Agents : DuplicateRow(a)
    <3>1. UNCHANGED snapshot
      BY <2>1 DEF BuildSnapshotRows, DuplicateRow
    <3> QED BY <3>1, PublishFate
  <2>2. CASE CreateHeard \/ \E a \in Agents : InsertHeard(a)
    BY <2>2, PublishFate DEF CreateHeard, InsertHeard
  <2>3. CASE ActivateHeard
    BY <2>3, ActivateFate DEF ActivateHeard
  <2>4. CASE MarkFailed
    BY <2>4, FailedFate
  <2> QED BY <1>2, <2>1, <2>2, <2>3, <2>4 DEF Publish
<1>3. CASE Unlucky
  <2>1. CASE GiveUp \/ Die
    <3>1. UNCHANGED snapshot
      BY <2>1 DEF GiveUp, Die
    <3> QED BY <3>1, PublishFate
  <2>2. CASE CreateUnheard \/ \E a \in Agents : InsertUnheard(a)
    BY <2>2, PublishFate DEF CreateUnheard, InsertUnheard
  <2>3. CASE ActivateUnheard
    BY <2>3, ActivateFate DEF ActivateUnheard
  <2> QED BY <1>3, <2>1, <2>2, <2>3 DEF Unlucky
<1>4. CASE Retain
  BY <1>4, RetainFate
<1>5. CASE \E p \in Issuers : Issue(p)
  BY <1>5, IssueFate
<1>6. CASE LookUpActive \/ ChooseSnapshot \/ AnswerRows \/ (\E a \in Earners : EvidenceChanges(a)) \/ UNCHANGED vars
  <2>1. UNCHANGED snapshot
    BY <1>6 DEF LookUpActive, ChooseSnapshot, AnswerRows, EvidenceChanges, vars
  <2> QED BY <2>1, PublishFate
<1>7. CASE \E t \in Existing : GrowsOld(t)
  <2>1. PICK t \in Existing : snapshot' = [snapshot EXCEPT ![t].recent = FALSE]
    BY <1>7 DEF GrowsOld
  <2>2. s \in DOMAIN snapshot /\ snapshot[s] \in Snapshot /\ snapshot[s].active /\ snapshot[s].status = "READY"
    BY ServedRow
  <2>3. /\ s \in DOMAIN snapshot' /\ snapshot'[s].active /\ snapshot'[s].status = "READY"
        /\ snapshot'[s].trusted = snapshot[s].trusted
    BY <2>1, <2>2 DEF Snapshot
  <2> QED BY <2>3, SameServed
<1> QED BY <1>1, <1>2, <1>3, <1>4, <1>5, <1>6, <1>7 DEF Next

\* Once there is a ranking there stays one, but for the run that marks its own
\* snapshot as failed after an activation it never heard of.
THEOREM RankingStays == Spec => OnlyUnheardActivationDropsRanking
<1> DEFINE Stays == Served # {} /\ Served' = {} => run.step = "failing" /\ run.snap \in Served
<1>1. PipelineInv /\ [Next]_vars => [Stays]_vars
  <2> SUFFICES ASSUME PipelineInv, [Next]_vars, Served # {}, Served' = {}
               PROVE  run.step = "failing" /\ run.snap \in Served
    OBVIOUS
  <2>1. PICK s \in Served : TRUE
    OBVIOUS
  <2>2. ~StillServed(snapshot, snapshot', s)
    BY DEF StillServed, Served, IsReady, Existing
  <2> QED BY <2>2, ServedFate
<1> QED BY <1>1, PipelineInvariant, PTL DEF Spec, OnlyUnheardActivationDropsRanking

\* A served artifact goes away only with its ranking, or when a backfill that
\* looked up an older ranking deactivates those of the newer one.
THEOREM TrustStays == Spec => OnlyOvertakenBackfillDropsTrust
<1> DEFINE Stays ==
      \A a \in Agents : ServesTrust(a) /\ ~ServesTrust(a)' =>
        \/ run.step \in {"activate", "failing"} /\ Served' # Served
        \/ issuer[Backfill].at = "begun" /\ issuer[Backfill].snap \notin Served
<1>1. PipelineInv /\ [Next]_vars => [Stays]_vars
  <2> SUFFICES ASSUME PipelineInv, [Next]_vars, NEW a \in Agents, ServesTrust(a), ~ServesTrust(a)'
               PROVE  \/ run.step \in {"activate", "failing"} /\ Served' # Served
                      \/ issuer[Backfill].at = "begun" /\ issuer[Backfill].snap \notin Served
    OBVIOUS
  <2>1. PICK s \in Served : a \in snapshot[s].trusted
    BY DEF ServesTrust
  <2>2. ~StillServed(snapshot, snapshot', s)
    BY <2>1 DEF StillServed, ServesTrust, Served, IsReady, Existing
  <2> QED BY <2>2, ServedFate
<1> QED BY <1>1, PipelineInvariant, PTL DEF Spec, OnlyOvertakenBackfillDropsTrust

-----------------------------------------------------------------------------
(* Types, and how much a run plans to delete. *)

\* What PipelineTypeOK says beyond the invariant: a run names the newest
\* snapshot or none, and one that deletes has none of its own.
TypeRest ==
  /\ evidence \subseteq Earners /\ ranked \subseteq Agents
  /\ Len(snapshot) <= MaxRows
  /\ run.snap \in {None, Len(snapshot)}
  /\ run.step \in {"built"} \cup Deleting => run.snap = None
  /\ Cardinality(run.doomed) <= MaxDelete
  /\ \A p \in Issuers : issuer[p].snap \in Existing \cup {None, Gone}

LEMMA GreatestPlace ==
  ASSUME NEW n \in Nat, NEW K \in SUBSET (1 .. n), K # {}
  PROVE  \E m \in K : \A s \in K : s <= m
<1> DEFINE D == {n - s : s \in K}
<1>1. D \in SUBSET Nat /\ D # {}
  <2>1. \A s \in K : s \in Nat /\ n - s \in Nat
    OBVIOUS
  <2> QED BY <2>1
<1>2. PICK d \in D : \A e \in D : d <= e
  BY <1>1, LeastOf
<1>3. PICK m \in K : d = n - m
  BY <1>2
<1>4. ASSUME NEW s \in K PROVE s <= m
  <2>1. s \in Int /\ m \in Int
    OBVIOUS
  <2>2. n - m <= n - s
    BY <1>2, <1>3
  <2> QED BY <2>1, <2>2
<1> QED BY <1>4

\* The oldest few are no more than MaxDelete.
LEMMA FewOld ==
  ASSUME NEW n \in Nat, NEW old \in SUBSET (1 .. n)
  PROVE  Cardinality(OldestFew(old)) <= MaxDelete
<1> DEFINE few == OldestFew(old)
           older(m) == {t \in old : t < m}
<1>1. IsFiniteSet(old) /\ MaxDelete \in Nat
  <2>1. IsFiniteSet(1 .. n)
    BY FS_Interval
  <2> QED BY <2>1, FS_Subset, PipelineAssumption
<1>2. few \in SUBSET old /\ \A m \in few : Cardinality(older(m)) < MaxDelete
  BY DEF OldestFew
<1> HIDE DEF few
<1>3. IsFiniteSet(few) /\ few \in SUBSET (1 .. n)
  BY <1>1, <1>2, FS_Subset
<1>4. CASE few = {}
  BY <1>1, <1>4, FS_EmptySet DEF few
<1>5. CASE few # {}
  <2>1. PICK m \in few : \A s \in few : s <= m
    BY <1>3, <1>5, GreatestPlace
  <2>2. few \ {m} \in SUBSET older(m)
    BY <1>2, <1>3, <2>1
  <2>3. IsFiniteSet(older(m)) /\ Cardinality(older(m)) \in Nat
    BY <1>1, FS_Subset, FS_CardinalityType
  <2>4. Cardinality(few \ {m}) <= Cardinality(older(m))
    BY <2>2, <2>3, FS_Subset
  <2>5. Cardinality(few \ {m}) = Cardinality(few) - 1 /\ Cardinality(few) \in Nat
    BY <1>3, <2>1, FS_RemoveElement, FS_CardinalityType
  <2>6. Cardinality(older(m)) < MaxDelete
    BY <1>2, <2>1
  <2>7. Cardinality(few) <= MaxDelete
    BY <1>1, <2>3, <2>4, <2>5, <2>6
  <2> QED BY <2>7 DEF few
<1> QED BY <1>4, <1>5

\* Renaming the snapshots still to delete makes them no more.
LEMMA FewerDoomed ==
  ASSUME NEW doomed, IsFiniteSet(doomed), NEW o \in doomed
  PROVE  LET left == {AfterDelete(o, s) : s \in doomed \ {o}}
         IN  IsFiniteSet(left) /\ Cardinality(left) <= Cardinality(doomed)
<1> DEFINE S == doomed \ {o}
           T == {AfterDelete(o, s) : s \in S}
           f == [s \in S |-> AfterDelete(o, s)]
<1>1. IsFiniteSet(S) /\ Cardinality(S) = Cardinality(doomed) - 1
  BY FS_RemoveElement
<1>2. f \in Surjection(S, T)
  BY DEF Surjection
<1> HIDE DEF f, S, T
<1>3. Cardinality(T) <= Cardinality(S) /\ IsFiniteSet(T)
  BY <1>1, <1>2, FS_Surjection
<1>4. Cardinality(T) \in Nat /\ Cardinality(S) \in Nat /\ Cardinality(doomed) \in Nat
  BY <1>1, <1>3, FS_CardinalityType
<1>5. Cardinality(T) <= Cardinality(doomed)
  BY <1>1, <1>3, <1>4
<1> QED BY <1>3, <1>5 DEF S, T

LEMMA DoomedFinite ==
  ASSUME PipelineInv
  PROVE  /\ IsFiniteSet(run.doomed) /\ Len(snapshot) \in Nat
         /\ Existing = 1 .. Len(snapshot) /\ run.doomed \in SUBSET Existing
<1>1. snapshot \in Seq(Snapshot) /\ run.doomed \subseteq DOMAIN snapshot
  BY DEF PipelineInv, Shape, RetentionSound
<1>2. Len(snapshot) \in Nat /\ DOMAIN snapshot = 1 .. Len(snapshot)
  BY <1>1, Table
<1>3. IsFiniteSet(1 .. Len(snapshot))
  BY <1>2, FS_Interval
<1>4. IsFiniteSet(run.doomed)
  BY <1>1, <1>2, <1>3, FS_Subset
<1> QED BY <1>1, <1>2, <1>4 DEF Existing

\* A step that leaves the number of snapshots as it is.
LEMMA SameSizeTypes ==
  ASSUME PipelineInv, PipelineInv', TypeRest, DOMAIN snapshot' = DOMAIN snapshot,
         evidence' \subseteq Earners, ranked' \subseteq Agents,
         run'.snap \in {None, run.snap}, run'.step \in {"built"} \cup Deleting => run'.snap = None,
         Cardinality(run'.doomed) <= MaxDelete,
         \A p \in Issuers : issuer'[p].snap \in {issuer[p].snap, None} \cup Existing
  PROVE  TypeRest'
<1>1. snapshot \in Seq(Snapshot) /\ snapshot' \in Seq(Snapshot)
  BY DEF PipelineInv, Shape
<1>2. /\ Len(snapshot) \in Nat /\ DOMAIN snapshot = 1 .. Len(snapshot)
      /\ Len(snapshot') \in Nat /\ DOMAIN snapshot' = 1 .. Len(snapshot')
  BY <1>1, Table
<1>3. Len(snapshot') = Len(snapshot)
  BY <1>2
<1> QED BY <1>3 DEF TypeRest, Existing, None, Gone

LEMMA DoomedNone ==
  ASSUME PipelineInv', run'.step \notin Deleting
  PROVE  Cardinality(run'.doomed) <= MaxDelete
BY FS_EmptySet, PipelineAssumption DEF PipelineInv, RetentionSound

-----------------------------------------------------------------------------

LEMMA TypesInit == Init => TypeRest
<1> SUFFICES ASSUME Init PROVE TypeRest
  OBVIOUS
<1>1. /\ evidence = {} /\ ranked = {} /\ snapshot = <<>> /\ run = Resting
      /\ issuer = [p \in Issuers |-> NotIssuing]
  BY DEF Init
<1>2. Len(snapshot) = 0 /\ Cardinality(run.doomed) = 0
  BY <1>1, EmptySeq, RestingRun, FS_EmptySet
<1> QED BY <1>1, <1>2, RestingRun, PipelineAssumption DEF TypeRest, NotIssuing, None, Deleting

LEMMA RefreshTypes ==
  ASSUME PipelineInv, PipelineInv', TypeRest, Refresh
  PROVE  TypeRest'
<1>1. UNCHANGED <<evidence, snapshot, issuer, ranked>>
  BY DEF Refresh, LoadSources, UpsertScoreInput, SyncRailMetrics, FetchRollups
<1>2. run \in Runs /\ run' \in Runs
  BY DEF PipelineInv, Shape
<1>3. run'.step \in {"ingest", "sync"}
  BY <1>2, RestingRun DEF Refresh, LoadSources, UpsertScoreInput, SyncRailMetrics, FetchRollups, Runs
<1>4. run'.snap \in {None, run.snap}
  BY <1>2, RestingRun DEF Refresh, LoadSources, UpsertScoreInput, SyncRailMetrics, FetchRollups, Runs, None
<1>5. Cardinality(run'.doomed) <= MaxDelete
  BY <1>3, DoomedNone DEF Deleting
<1> QED BY <1>1, <1>3, <1>4, <1>5, SameSizeTypes DEF Deleting, TypeRest

\* A run that creates a snapshot names it, unless it was not heard.
LEMMA CreateTypes ==
  ASSUME PipelineInv, PipelineInv', TypeRest, CreateHeard \/ CreateUnheard
  PROVE  TypeRest'
<1>1. CreateSnapshot
  BY DEF CreateHeard, CreateUnheard
<1>2. /\ run.step = "built" /\ UNCHANGED issuer /\ Len(snapshot') = Len(snapshot) + 1
      /\ DOMAIN snapshot \subseteq DOMAIN snapshot'
  BY <1>1, Created DEF Grown
<1>3. run \in Runs /\ Len(snapshot) \in Nat /\ Len(snapshot') <= MaxRows /\ UNCHANGED <<evidence, ranked>>
  BY <1>1, <1>2, DoomedFinite DEF PipelineInv, Shape, CreateSnapshot, Room
<1>4. /\ run'.doomed = run.doomed
      /\ \/ run' = run
         \/ run'.step = "insert" /\ run'.snap = Len(snapshot')
  BY <1>3 DEF CreateHeard, CreateUnheard, Runs
<1>5. run.snap = None
  BY <1>2 DEF TypeRest
<1> QED BY <1>2, <1>3, <1>4, <1>5 DEF TypeRest, Existing, Deleting

\* The other steps of a run that publishes, and those that go wrong.
LEMMA PublishTypes ==
  ASSUME PipelineInv, PipelineInv', TypeRest, Publish \/ Unlucky, ~CreateHeard, ~CreateUnheard
  PROVE  TypeRest'
<1>1. run \in Runs /\ issuer \in [Issuers -> Issuings]
  BY DEF PipelineInv, Shape
<1>2. UNCHANGED evidence /\ ranked' \in {ranked, run.claims} /\ DOMAIN snapshot' = DOMAIN snapshot
  BY DEF Publish, Unlucky, BuildSnapshotRows, InsertHeard, InsertUnheard, InsertRows, DuplicateRow,
         ActivateHeard, ActivateUnheard, ActivateSnapshot, Activated, MarkFailed, FailedMark, GiveUp, Die, Existing
<1>3. /\ run'.snap \in {None, run.snap}
      /\ run'.step \in {"built"} \cup Deleting => run'.snap = None
      /\ run'.step \in {"built", "insert", "activate", "failing", "issue", "idle"}
  BY <1>1, RestingRun
     DEF Publish, Unlucky, BuildSnapshotRows, InsertHeard, InsertUnheard, InsertRows, DuplicateRow,
         ActivateHeard, ActivateUnheard, ActivateSnapshot, MarkFailed, GiveUp, Die, Runs, None, Deleting
<1>4. Cardinality(run'.doomed) <= MaxDelete
  BY <1>3, DoomedNone DEF Deleting
<1>5. \A p \in Issuers : issuer'[p].snap \in {issuer[p].snap, None} \cup Existing
  <2>1. CASE UNCHANGED issuer
    BY <2>1
  <2>2. CASE ActivateHeard
    <3> DEFINE begun == [at |-> "begun", snap |-> run.snap, todo |-> snapshot[run.snap].rows]
    <3>1. issuer' = [issuer EXCEPT ![Runner] = begun] /\ begun.snap = run.snap /\ run.step = "activate"
      BY <2>2 DEF ActivateHeard, ActivateSnapshot
    <3>2. run.snap \in Existing
      BY <3>1, DoomedFinite DEF PipelineInv, BuildSound
    <3> HIDE DEF begun
    <3> QED BY <1>1, <3>1, <3>2
  <2>3. CASE Die
    <3>1. issuer' = [issuer EXCEPT ![Runner] = NotIssuing] /\ NotIssuing.snap = None
      BY <2>3 DEF Die, NotIssuing
    <3> QED BY <1>1, <3>1
  <2>4. UNCHANGED issuer \/ ActivateHeard \/ Die
    BY DEF Publish, Unlucky, BuildSnapshotRows, InsertHeard, InsertUnheard, InsertRows, DuplicateRow,
           ActivateUnheard, MarkFailed, GiveUp
  <2> QED BY <2>1, <2>2, <2>3, <2>4
<1>6. ranked' \subseteq Agents
  BY <1>1, <1>2 DEF TypeRest, Runs
<1> QED BY <1>2, <1>3, <1>4, <1>5, <1>6, SameSizeTypes DEF TypeRest

\* A deletion renames the snapshots behind it, and those still to delete.
LEMMA DeleteTypes ==
  ASSUME PipelineInv, PipelineInv', TypeRest, DeleteSnapshot
  PROVE  TypeRest'
<1> DEFINE o == Oldest
           left == {AfterDelete(o, s) : s \in run.doomed \ {o}}
           next == [run EXCEPT !.step = "artifacts", !.doomed = left]
<1>1. /\ run.step = "snapshot" /\ snapshot' = RemoveAt(snapshot, o) /\ UNCHANGED <<evidence, ranked>>
      /\ issuer' = [p \in Issuers |-> [issuer[p] EXCEPT !.snap = AfterDelete(o, @)]]
      /\ run' = IF run.doomed = {o} THEN Resting ELSE next
  BY DEF DeleteSnapshot
<1>2. /\ o \in run.doomed /\ o \in DOMAIN snapshot /\ run \in Runs /\ snapshot \in Seq(Snapshot)
  BY <1>1, OldestDoomed DEF Deleting
<1> HIDE DEF o
<1>3. /\ Len(snapshot) \in Nat /\ DOMAIN snapshot = 1 .. Len(snapshot) /\ IsFiniteSet(run.doomed)
      /\ Len(snapshot') = Len(snapshot) - 1
  BY <1>1, <1>2, Table, Removed, DoomedFinite
<1>4. Cardinality(left) <= MaxDelete
  <2>1. Cardinality(left) <= Cardinality(run.doomed) /\ IsFiniteSet(left)
    BY <1>2, <1>3, FewerDoomed
  <2>2. Cardinality(run.doomed) <= MaxDelete /\ Cardinality(run.doomed) \in Nat /\ Cardinality(left) \in Nat
    BY <1>3, <2>1, FS_CardinalityType DEF TypeRest
  <2>3. MaxDelete \in Nat
    BY PipelineAssumption
  <2> HIDE DEF left
  <2> QED BY <2>1, <2>2, <2>3
<1> HIDE DEF left
<1>5. next.snap = run.snap /\ next.doomed = left
  BY <1>2 DEF Runs
<1> HIDE DEF next
<1>6. run.snap = None
  BY <1>1 DEF TypeRest, Deleting
<1>7. run'.snap = None /\ Cardinality(run'.doomed) <= MaxDelete
  <2>1. Cardinality({}) <= MaxDelete
    BY FS_EmptySet, PipelineAssumption
  <2> QED BY <1>1, <1>4, <1>5, <1>6, <2>1, RestingRun DEF None
<1>8. ASSUME NEW p \in Issuers PROVE issuer'[p].snap \in DOMAIN snapshot' \cup {None, Gone}
  <2>1. issuer[p] \in Issuings /\ issuer[p].snap \in DOMAIN snapshot \cup {None, Gone}
    BY DEF PipelineInv, Shape, TypeRest, Existing
  <2>2. issuer'[p].snap = AfterDelete(o, issuer[p].snap)
    BY <1>1, <2>1 DEF Issuings
  <2>3. CASE issuer[p].snap \in DOMAIN snapshot \ {o}
    BY <1>1, <1>2, <2>2, <2>3, MovedRow
  <2>4. CASE issuer[p].snap = o
    BY <2>2, <2>4 DEF AfterDelete
  <2>5. CASE issuer[p].snap \in {None, Gone}
    BY <1>2, <1>3, <2>2, <2>5 DEF AfterDelete, None, Gone
  <2> QED BY <2>1, <2>3, <2>4, <2>5
<1>9. Len(snapshot') <= MaxRows
  BY <1>3, PipelineAssumption DEF TypeRest
<1> QED BY <1>1, <1>7, <1>8, <1>9 DEF TypeRest, Existing

LEMMA RetainTypes ==
  ASSUME PipelineInv, PipelineInv', TypeRest, PlanRetention \/ DeleteArtifacts \/ DeleteRows
  PROVE  TypeRest'
<1>1. run \in Runs /\ UNCHANGED <<evidence, ranked, issuer>> /\ DOMAIN snapshot' = DOMAIN snapshot
  BY DEF PipelineInv, Shape, PlanRetention, DeleteArtifacts, DeleteRows
<1>2. CASE PlanRetention
  <2> DEFINE next == [Resting EXCEPT !.step = "artifacts", !.doomed = Deletable]
  <2>1. run' = IF Deletable = {} THEN Resting ELSE next
    BY <1>2 DEF PlanRetention
  <2>2. next.snap = Resting.snap /\ next.doomed = Deletable
    BY DEF Resting
  <2> HIDE DEF next
  <2>3. run'.snap = None /\ run'.doomed \in {{}, Deletable}
    BY <2>1, <2>2, RestingRun DEF None
  <2>4. Existing \ Kept \in SUBSET (1 .. Len(snapshot)) /\ Len(snapshot) \in Nat
    BY DoomedFinite
  <2>5. Cardinality(Deletable) <= MaxDelete
    BY <2>4, FewOld DEF Deletable
  <2>6. Cardinality({}) <= MaxDelete
    BY FS_EmptySet, PipelineAssumption
  <2>7. Cardinality(run'.doomed) <= MaxDelete
    BY <2>3, <2>5, <2>6
  <2> QED BY <1>1, <2>3, <2>7, SameSizeTypes DEF TypeRest
<1>3. CASE DeleteArtifacts \/ DeleteRows
  <2>1. run.step \in Deleting /\ run'.snap = run.snap /\ run'.doomed = run.doomed
    BY <1>1, <1>3 DEF DeleteArtifacts, DeleteRows, Runs, Deleting
  <2> QED BY <1>1, <2>1, SameSizeTypes DEF TypeRest
<1> QED BY <1>2, <1>3

\* Issuing, requests, evidence, and time.
LEMMA OtherTypes ==
  ASSUME PipelineInv, PipelineInv', TypeRest,
         \/ LookUpActive \/ \E p \in Issuers : Issue(p)
         \/ ChooseSnapshot \/ AnswerRows
         \/ \E a \in Earners : EvidenceChanges(a)
         \/ \E s \in Existing : GrowsOld(s)
  PROVE  TypeRest'
<1>1. /\ UNCHANGED <<run, ranked>> /\ DOMAIN snapshot' = DOMAIN snapshot
      /\ issuer \in [Issuers -> Issuings] /\ run \in Runs
  BY DEF PipelineInv, Shape, LookUpActive, Issue, DeactivateOthers, IssueArtifact, IssuingFails, ChooseSnapshot,
         AnswerRows, EvidenceChanges, GrowsOld, Existing
<1>2. evidence' \subseteq Earners
  BY DEF TypeRest, LookUpActive, Issue, DeactivateOthers, IssueArtifact, IssuingFails, ChooseSnapshot,
         AnswerRows, EvidenceChanges, GrowsOld
<1>3. \A p \in Issuers : issuer'[p].snap \in {issuer[p].snap, None} \cup Existing
  <2>1. CASE UNCHANGED issuer
    BY <2>1
  <2>2. ASSUME NEW s \in Existing, NEW todo,
               issuer' = [issuer EXCEPT ![Backfill] = [at |-> "begun", snap |-> s, todo |-> todo]]
        PROVE  \A p \in Issuers : issuer'[p].snap \in {issuer[p].snap, None} \cup Existing
    BY <1>1, <2>2
  <2>3. ASSUME NEW p \in Issuers, Issue(p)
        PROVE  \A q \in Issuers : issuer'[q].snap \in {issuer[q].snap, None} \cup Existing
    <3> DEFINE going == [issuer[p] EXCEPT !.at = "issuing"]
               left(a) == [issuer[p] EXCEPT !.todo = @ \ {a}]
    <3>1. /\ issuer[p] \in Issuings /\ NotIssuing.snap = None
          /\ going.snap = issuer[p].snap /\ \A a : left(a).snap = issuer[p].snap
      BY <1>1 DEF Issuings, NotIssuing
    <3>2. \E next : issuer' = [issuer EXCEPT ![p] = next] /\ next.snap \in {issuer[p].snap, None}
      <4>1. CASE DeactivateOthers(p)
        <5>1. issuer' = [issuer EXCEPT ![p] = going]
          BY <4>1 DEF DeactivateOthers
        <5> QED BY <3>1, <5>1
      <4>2. ASSUME NEW a \in Agents, IssueArtifact(p, a)
            PROVE  \E next : issuer' = [issuer EXCEPT ![p] = next] /\ next.snap \in {issuer[p].snap, None}
        <5>1. issuer' = [issuer EXCEPT ![p] = IF issuer[p].todo = {a} THEN NotIssuing ELSE left(a)]
          BY <4>2 DEF IssueArtifact
        <5> HIDE DEF left
        <5> QED BY <3>1, <5>1
      <4>3. CASE IssuingFails(p)
        BY <3>1, <4>3 DEF IssuingFails
      <4> QED BY <2>3, <4>1, <4>2, <4>3 DEF Issue
    <3> QED BY <1>1, <3>2
  <2>4. \/ UNCHANGED issuer \/ \E p \in Issuers : Issue(p)
        \/ \E s \in Existing : \E todo :
             issuer' = [issuer EXCEPT ![Backfill] = [at |-> "begun", snap |-> s, todo |-> todo]]
    BY DEF LookUpActive, Served, ChooseSnapshot, AnswerRows, EvidenceChanges, GrowsOld
  <2> QED BY <2>1, <2>2, <2>3, <2>4
<1> QED BY <1>1, <1>2, <1>3, SameSizeTypes DEF TypeRest

LEMMA TypesStep ==
  ASSUME PipelineInv, PipelineInv', TypeRest, [Next]_vars
  PROVE  TypeRest'
<1>1. CASE UNCHANGED vars
  BY <1>1 DEF vars, TypeRest, Existing
<1>2. CASE Publish \/ Unlucky
  <2>1. CASE CreateHeard \/ CreateUnheard
    BY <2>1, CreateTypes
  <2>2. CASE ~CreateHeard /\ ~CreateUnheard
    BY <1>2, <2>2, PublishTypes
  <2> QED BY <2>1, <2>2
<1>3. CASE Retain
  BY <1>3, RetainTypes, DeleteTypes DEF Retain
<1>4. CASE Refresh
  BY <1>4, RefreshTypes
<1> QED BY <1>1, <1>2, <1>3, <1>4, OtherTypes DEF Next

\* Every variable of the pipeline keeps its type, whoever names a snapshot names
\* one that exists or knows it is gone, and a run never plans to delete more
\* than maxDeleteSnapshots.
THEOREM PipelineTypeCorrect == Spec => []PipelineTypeOK
<1>1. PipelineInv /\ TypeRest => PipelineTypeOK
  <2> SUFFICES ASSUME PipelineInv, TypeRest PROVE PipelineTypeOK
    OBVIOUS
  <2>1. Shape /\ run.doomed \subseteq Existing
    BY DoomedFinite DEF PipelineInv
  <2>2. \A p \in Issuers : issuer[p].todo \subseteq Agents
    BY <2>1 DEF Shape, Issuings
  <2>3. reader.snap \in Existing \cup {None, Gone}
    BY DEF PipelineInv, ReaderSound, NoRequest, Existing
  <2> QED BY <2>1, <2>2, <2>3 DEF PipelineTypeOK, TypeRest, Shape, Inputs, Runs, Readers
<1>2. Init => TypeRest
  BY TypesInit
<1>3. PipelineInv /\ PipelineInv' /\ TypeRest /\ [Next]_vars => TypeRest'
  BY TypesStep
<1> QED BY <1>1, <1>2, <1>3, PipelineInvariant, PTL DEF Spec

=============================================================================
