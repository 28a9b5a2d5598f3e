------------------------- MODULE AgentGatewayProofs -------------------------
(***************************************************************************)
(* Theorems of AgentIndexer and AgentGateway for every set of agents,      *)
(* endpoints, clients and signers, and for any chunk size, lag and limit.  *)
(***************************************************************************)
EXTENDS AgentGateway, FiniteSetTheorems, SequenceTheorems, TLAPS

USE IndexerAssumption

\* Who has an owner was transferred to somebody.
MintedMoved == \A a \in Agents : OwnerAt(a, Latest) # Nobody => Moved(a, 1, Latest)

\* The job works on the blocks after the cursor, and holds rows of its chunk
\* only.
JobInOrder ==
  /\ cursor <= Latest
  /\ job.step # "idle" => job.at = cursor + 1 /\ job.at <= job.to /\ job.to <= Latest
  /\ job.step # "rows" => job.todo = {} /\ job.found = NoRows

\* An owner is right, or a later chunk will see that it no longer is.
Timely(a, owner) == owner = OwnerAt(a, Latest) \/ Moved(a, ChunkEnd + 1, Latest)

Pending(a) == a \in job.todo \/ job.found[a] # NoRow

\* What is resolved and not written has a transfer in the chunk, and every
\* transfer of the chunk is to be resolved, to be written, or in its row.
ChunkSound ==
  job.step = "rows" =>
    \A a \in Agents :
      /\ Pending(a) => Moved(a, job.at, ChunkEnd)
      /\ a \notin unsure =>
           /\ job.found[a] # NoRow => Timely(a, job.found[a].owner)
           /\ Moved(a, job.at, ChunkEnd) => Pending(a) \/ Timely(a, row[a].owner)

IndexerInv == IndexerTypeOK /\ MintedMoved /\ JobInOrder /\ ChunkSound /\ OwnerIsIndexed

-----------------------------------------------------------------------------
(* The chain. *)

LEMMA ChainTypes ==
  ASSUME IndexerTypeOK
  PROVE  /\ Latest \in Nat \ {0}
         /\ \A n \in 1 .. Latest : log[n] \in [Agents -> Owners \cup {Nobody}]
         /\ \A a \in Agents, n \in 0 .. Latest : OwnerAt(a, n) \in Owners \cup {Nobody}
<1>1. Latest \in Nat \ {0}
  BY LenProperties DEF IndexerTypeOK, Latest
<1>2. \A n \in 1 .. Latest : log[n] \in [Agents -> Owners \cup {Nobody}]
  BY ElementOfSeq DEF IndexerTypeOK, Latest
<1>3. \A a \in Agents, n \in 0 .. Latest : OwnerAt(a, n) \in Owners \cup {Nobody}
  BY <1>1, <1>2 DEF OwnerAt
<1> QED BY <1>1, <1>2, <1>3

\* A range of blocks in two parts.
LEMMA MovedSplit ==
  ASSUME NEW a, NEW i \in Nat, NEW m \in Nat, NEW n \in Nat, i <= m + 1, m <= n
  PROVE  Moved(a, i, n) <=> Moved(a, i, m) \/ Moved(a, m + 1, n)
BY DEF Moved

\* The chunk ends in the blocks the job has seen.
LEMMA ChunkInside ==
  ASSUME IndexerTypeOK, JobInOrder, job.step # "idle"
  PROVE  /\ job \in Jobs /\ job.at \in Nat /\ job.to \in Nat /\ cursor \in Nat
         /\ ChunkEnd \in Nat /\ job.at = cursor + 1 /\ job.at <= ChunkEnd
         /\ ChunkEnd <= job.to /\ ChunkEnd <= Latest /\ Latest \in Nat
<1>1. Latest \in Nat
  BY ChainTypes
<1> QED BY <1>1 DEF IndexerTypeOK, JobInOrder, Jobs, ChunkEnd

\* A block extends the chain by a transfer, and changes nothing before it.
LEMMA MineExtends ==
  ASSUME IndexerTypeOK, Mine
  PROVE  /\ log' \in Seq([Agents -> Owners \cup {Nobody}])
         /\ Latest' = Latest + 1
         /\ \A a \in Agents : \A n \in 0 .. Latest : OwnerAt(a, n)' = OwnerAt(a, n)
         /\ \A a \in Agents : OwnerAt(a, Latest)' # OwnerAt(a, Latest) => OwnerAt(a, Latest)' # Nobody
<1>1. PICK a \in Busy, o \in Owners :
        log' = Append(log, [x \in Agents |-> IF x = a THEN o ELSE OwnerAt(x, Latest)])
  BY DEF Mine
<1> DEFINE block == [x \in Agents |-> IF x = a THEN o ELSE OwnerAt(x, Latest)]
<1>2. block \in [Agents -> Owners \cup {Nobody}]
  BY ChainTypes
<1>3. log \in Seq([Agents -> Owners \cup {Nobody}]) /\ log' = Append(log, block)
  BY <1>1 DEF IndexerTypeOK
<1> HIDE DEF block
<1>4. /\ log' \in Seq([Agents -> Owners \cup {Nobody}])
      /\ Len(log') = Len(log) + 1
      /\ \A n \in 1 .. Len(log) : log'[n] = log[n]
      /\ log'[Len(log) + 1] = block
  BY <1>2, <1>3, AppendProperties
<1>5. Latest \in Nat
  BY ChainTypes
<1>6. \A x \in Agents : \A n \in 0 .. Latest : OwnerAt(x, n)' = OwnerAt(x, n)
  BY <1>4, <1>5 DEF OwnerAt, Latest
<1>7. ASSUME NEW x \in Agents
      PROVE  OwnerAt(x, Latest)' # OwnerAt(x, Latest) => OwnerAt(x, Latest)' # Nobody
  <2>1. OwnerAt(x, Latest)' = block[x]
    BY <1>4, <1>5 DEF OwnerAt, Latest
  <2> QED BY <2>1 DEF block
<1> QED BY <1>4, <1>6, <1>7 DEF Latest

LEMMA MineMoves ==
  ASSUME IndexerTypeOK, Mine, NEW a \in Agents
  PROVE  /\ \A i \in Nat \ {0} : \A n \in 0 .. Latest : Moved(a, i, n)' <=> Moved(a, i, n)
         /\ \A i \in 1 .. Latest + 1 :
              Moved(a, i, Latest)' <=>
                Moved(a, i, Latest) \/ OwnerAt(a, Latest)' # OwnerAt(a, Latest)
<1>1. Latest \in Nat /\ Latest' = Latest + 1
  BY ChainTypes, MineExtends
<1>2. \A n \in 0 .. Latest : OwnerAt(a, n)' = OwnerAt(a, n)
  BY MineExtends
<1>3. \A i \in Nat \ {0} : \A n \in 0 .. Latest : Moved(a, i, n)' <=> Moved(a, i, n)
  BY <1>1, <1>2 DEF Moved
<1>4. ASSUME NEW i \in 1 .. Latest + 1
      PROVE  Moved(a, i, Latest)' <=>
               Moved(a, i, Latest) \/ OwnerAt(a, Latest)' # OwnerAt(a, Latest)
  <2>1. Moved(a, i, Latest)' <=>
          \E b \in i .. Latest + 1 : OwnerAt(a, b)' # OwnerAt(a, b - 1)'
    BY <1>1 DEF Moved
  <2>2. \A b \in i .. Latest : OwnerAt(a, b)' = OwnerAt(a, b) /\ OwnerAt(a, b - 1)' = OwnerAt(a, b - 1)
    BY <1>1, <1>2
  <2>3. \A b \in Nat : b = Latest + 1 =>
          OwnerAt(a, b)' = OwnerAt(a, Latest)' /\ OwnerAt(a, b - 1)' = OwnerAt(a, Latest)
    BY <1>1, <1>2 DEF OwnerAt
  <2>4. i \in Nat /\ i <= Latest + 1
    BY <1>1
  <2>5. Moved(a, i, Latest) <=> \E b \in i .. Latest : OwnerAt(a, b) # OwnerAt(a, b - 1)
    BY DEF Moved
  <2>6. (\E b \in i .. Latest + 1 : OwnerAt(a, b)' # OwnerAt(a, b - 1)')
          <=> (\E b \in i .. Latest : OwnerAt(a, b)' # OwnerAt(a, b - 1)')
              \/ (\E b \in Nat : b = Latest + 1 /\ OwnerAt(a, b)' # OwnerAt(a, b - 1)')
    BY <1>1, <2>4
  <2> QED BY <2>1, <2>2, <2>3, <2>5, <2>6, <1>1
<1> QED BY <1>3, <1>4

-----------------------------------------------------------------------------
(* Steps of the indexer. *)

LEMMA IndexerInitInv ==
  ASSUME IndexerInit
  PROVE  IndexerInv
<1>1. /\ Latest = 1 /\ log[1] = [a \in Agents |-> FirstOwner]
      /\ log \in Seq([Agents -> Owners \cup {Nobody}])
  BY DEF IndexerInit, Latest
<1>2. IdleJob \in Jobs /\ job.step = "idle" /\ job.todo = {} /\ job.found = NoRows
  BY DEF IndexerInit, IdleJob, Jobs, NoRows
<1>3. row \in [Agents -> Rows \cup {NoRow}]
  BY DEF IndexerInit, Rows
<1>4. IndexerTypeOK
  BY <1>1, <1>2, <1>3 DEF IndexerInit, IndexerTypeOK
<1>5. \A a \in Agents : OwnerAt(a, 1) = FirstOwner /\ OwnerAt(a, 0) = Nobody
  BY <1>1 DEF OwnerAt
<1>6. MintedMoved
  BY <1>1, <1>5 DEF MintedMoved, Moved
<1>7. JobInOrder /\ ChunkSound
  BY <1>1, <1>2 DEF IndexerInit, JobInOrder, ChunkSound
<1>8. OwnerIsIndexed
  BY <1>1, <1>5 DEF IndexerInit, OwnerIsIndexed
<1> QED BY <1>4, <1>6, <1>7, <1>8 DEF IndexerInv

LEMMA MineInv ==
  ASSUME IndexerInv, Mine
  PROVE  IndexerInv'
<1>1. IndexerTypeOK /\ Latest \in Nat /\ Latest' = Latest + 1
  BY ChainTypes, MineExtends DEF IndexerInv
<1>2. UNCHANGED <<row, cursor, job, unsure>> /\ events' \in 0 .. MaxEvents
  BY <1>1 DEF Mine, Event, IndexerTypeOK
<1>3. IndexerTypeOK'
  BY <1>1, <1>2, MineExtends DEF IndexerTypeOK
<1>4. MintedMoved'
  <2> SUFFICES ASSUME NEW a \in Agents, OwnerAt(a, Latest)' # Nobody
               PROVE  Moved(a, 1, Latest)'
    BY DEF MintedMoved
  <2>1. OwnerAt(a, Latest)' = OwnerAt(a, Latest) => Moved(a, 1, Latest)
    BY DEF IndexerInv, MintedMoved
  <2> QED BY <1>1, <2>1, MineMoves
<1>5. JobInOrder'
  BY <1>1, <1>2 DEF IndexerInv, JobInOrder, IndexerTypeOK, Jobs
<1>6. \A owner : \A a \in Agents : \A n \in 0 .. Latest :
        owner = OwnerAt(a, Latest) \/ Moved(a, n + 1, Latest)
          => owner = OwnerAt(a, Latest)' \/ Moved(a, n + 1, Latest)'
  BY <1>1, MineMoves
<1>7. ChunkSound'
  <2> SUFFICES ASSUME job.step = "rows", NEW a \in Agents
               PROVE  /\ Pending(a)' => Moved(a, job.at, ChunkEnd)'
                      /\ a \notin unsure =>
                           /\ job.found[a] # NoRow => Timely(a, job.found[a].owner)'
                           /\ Moved(a, job.at, ChunkEnd)' => Pending(a)' \/ Timely(a, row[a].owner)'
    BY <1>2 DEF ChunkSound
  <2>1. ChunkEnd \in 0 .. Latest /\ job.at \in Nat \ {0}
    BY <1>1, ChunkInside DEF IndexerInv
  <2>2. Moved(a, job.at, ChunkEnd)' <=> Moved(a, job.at, ChunkEnd)
    <3>1. \A i \in Nat \ {0} : \A n \in 0 .. Latest : Moved(a, i, n)' <=> Moved(a, i, n)
      BY <1>1, MineMoves
    <3> DEFINE i == job.at
               n == ChunkEnd
    <3>2. i' = i /\ n' = n
      BY <1>2 DEF ChunkEnd
    <3>3. Moved(a, i, n)' <=> \E b \in i .. n : OwnerAt(a, b)' # OwnerAt(a, b - 1)'
      BY <3>2 DEF Moved
    <3>4. \A j \in Nat \ {0} : \A k \in 0 .. Latest :
            Moved(a, j, k) <=> \E b \in j .. k : OwnerAt(a, b)' # OwnerAt(a, b - 1)'
      BY <3>1 DEF Moved
    <3> QED BY <2>1, <3>3, <3>4
  <2>3. Pending(a)' <=> Pending(a)
    BY <1>2 DEF Pending
  <2>4. ASSUME NEW owner, Timely(a, owner)
        PROVE  owner = OwnerAt(a, Latest)' \/ Moved(a, ChunkEnd + 1, Latest)'
    <3>1. ChunkEnd' = ChunkEnd
      BY <1>2 DEF ChunkEnd
    <3>2. \A n \in 0 .. Latest : n = ChunkEnd =>
            owner = OwnerAt(a, Latest)' \/ Moved(a, n + 1, Latest)'
      BY <1>6, <2>4 DEF Timely
    <3>3. \A n \in 0 .. Latest : n = ChunkEnd => (Moved(a, n + 1, Latest)' => Moved(a, ChunkEnd + 1, Latest)')
      BY <3>1 DEF Moved
    <3> QED BY <2>1, <3>2, <3>3
  <2>5. job.found[a] # NoRow /\ Timely(a, job.found[a].owner) => Timely(a, job.found[a].owner)'
    BY <1>2, <2>4 DEF Timely
  <2>6. Timely(a, row[a].owner) => Timely(a, row[a].owner)'
    BY <1>2, <2>4 DEF Timely
  <2> QED BY <2>2, <2>3, <2>5, <2>6 DEF IndexerInv, ChunkSound
<1>8. OwnerIsIndexed'
  <2> SUFFICES ASSUME NEW a \in Agents \ unsure, OwnerAt(a, Latest)' # Nobody,
                      ~Moved(a, cursor + 1, Latest)'
               PROVE  row[a].owner = OwnerAt(a, Latest)'
    BY <1>2 DEF OwnerIsIndexed
  <2>1. cursor \in 0 .. Latest
    BY <1>1 DEF IndexerInv, IndexerTypeOK, JobInOrder
  <2>2. ~Moved(a, cursor + 1, Latest) /\ OwnerAt(a, Latest)' = OwnerAt(a, Latest)
    <3>1. \A n \in 0 .. Latest : n = cursor => (Moved(a, n + 1, Latest)' => Moved(a, cursor + 1, Latest)')
      BY <1>2 DEF Moved
    <3>2. \A n \in 0 .. Latest : Moved(a, n + 1, Latest)' <=>
            Moved(a, n + 1, Latest) \/ OwnerAt(a, Latest)' # OwnerAt(a, Latest)
      BY <1>1, MineMoves
    <3> QED BY <2>1, <3>1, <3>2
  <2> QED BY <2>2 DEF IndexerInv, OwnerIsIndexed
<1> QED BY <1>3, <1>4, <1>5, <1>7, <1>8 DEF IndexerInv

LEMMA StartInv ==
  ASSUME IndexerInv, Start
  PROVE  IndexerInv'
<1>1. PICK seen \in 1 .. Latest :
        IF cursor + 1 > seen
        THEN cursor' = seen /\ UNCHANGED job
        ELSE job' = [IdleJob EXCEPT !.step = "logs", !.to = seen, !.at = cursor + 1] /\ UNCHANGED cursor
  BY DEF Start
<1>2. UNCHANGED <<log, row, unsure, events>> /\ job.step = "idle"
  BY DEF Start
<1>3. Latest \in Nat /\ cursor \in 0 .. Latest /\ IndexerTypeOK
  BY ChainTypes DEF IndexerInv, IndexerTypeOK, JobInOrder
<1>4. Latest' = Latest /\ \A a, n : OwnerAt(a, n)' = OwnerAt(a, n)
  BY <1>2 DEF Latest, OwnerAt
<1>5. /\ cursor' \in 0 .. Latest /\ cursor' <= cursor /\ job' \in Jobs
      /\ job'.step \in {"idle", "logs"} /\ job'.todo = {} /\ job'.found = NoRows
      /\ job'.step # "idle" => job'.at = cursor' + 1 /\ job'.at <= job'.to /\ job'.to <= Latest
  <2>1. CASE cursor + 1 > seen
    BY <1>1, <1>2, <1>3, <2>1 DEF IndexerInv, JobInOrder, IndexerTypeOK
  <2>2. CASE ~(cursor + 1 > seen)
    <3> DEFINE started == [IdleJob EXCEPT !.step = "logs", !.to = seen, !.at = cursor + 1]
    <3>1. cursor + 1 \in Nat /\ seen \in Nat
      BY <1>3
    <3>2. /\ started.step = "logs" /\ started.to = seen /\ started.at = cursor + 1
          /\ started.todo = {} /\ started.found = NoRows
      BY DEF IdleJob
    <3>3. IdleJob \in Jobs
      BY DEF IdleJob, Jobs, NoRows
    <3>4. started \in Jobs
      BY <3>1, <3>3 DEF Jobs
    <3>5. job' = started /\ cursor' = cursor
      BY <1>1, <2>2
    <3> HIDE DEF started
    <3> QED BY <1>3, <2>2, <3>2, <3>4, <3>5
  <2> QED BY <2>1, <2>2
<1>6. IndexerTypeOK'
  BY <1>2, <1>3, <1>4, <1>5 DEF IndexerTypeOK
<1>7. MintedMoved'
  BY <1>2, <1>4 DEF IndexerInv, MintedMoved, Moved
<1>8. JobInOrder'
  BY <1>3, <1>4, <1>5, <1>2 DEF JobInOrder, NoRows
<1>9. ChunkSound'
  BY <1>5 DEF ChunkSound
<1>10. OwnerIsIndexed'
  <2> SUFFICES ASSUME NEW a \in Agents \ unsure, OwnerAt(a, Latest) # Nobody,
                      ~Moved(a, cursor + 1, Latest)'
               PROVE  row[a].owner = OwnerAt(a, Latest)
    BY <1>2, <1>4 DEF OwnerIsIndexed
  <2>1. ~Moved(a, cursor + 1, Latest)
    <3>1. \A k \in 0 .. Latest : k = cursor' =>
            (Moved(a, cursor + 1, Latest)' <=> Moved(a, k + 1, Latest))
      BY <1>2 DEF Moved, OwnerAt, Latest
    <3>2. \A k \in 0 .. cursor : Moved(a, cursor + 1, Latest) => Moved(a, k + 1, Latest)
      BY <1>3 DEF Moved
    <3> QED BY <1>3, <1>5, <3>1, <3>2
  <2> QED BY <2>1 DEF IndexerInv, OwnerIsIndexed
<1> QED BY <1>6, <1>7, <1>8, <1>9, <1>10 DEF IndexerInv

LEMMA ChainStays ==
  ASSUME UNCHANGED log
  PROVE  /\ Latest' = Latest
         /\ \A a, n : OwnerAt(a, n)' = OwnerAt(a, n)
         /\ \A a, i, n : Moved(a, i, n)' <=> Moved(a, i, n)
         /\ MintedMoved => MintedMoved'
BY DEF Latest, OwnerAt, Moved, MintedMoved

\* What the job has to keep true of an agent while it works on a chunk.
AgentSound(a) ==
  /\ Pending(a)' => Moved(a, job.at, ChunkEnd)
  /\ a \notin unsure' =>
       /\ job'.found[a] # NoRow => Timely(a, job'.found[a].owner)
       /\ Moved(a, job.at, ChunkEnd) => Pending(a)' \/ Timely(a, row'[a].owner)
       /\ Moved(a, job.at, ChunkEnd) \/ (a \notin unsure /\ row'[a] = row[a])

\* A step within a chunk.
LEMMA WithinChunk ==
  ASSUME IndexerInv, UNCHANGED <<log, cursor>>, events' \in 0 .. MaxEvents,
         row' \in [Agents -> Rows \cup {NoRow}], unsure' \subseteq Agents,
         job' \in Jobs, job.step # "idle", job'.step = "rows",
         job'.at = job.at, job'.to = job.to,
         \A a \in Agents : AgentSound(a)
  PROVE  IndexerInv'
<1>1. /\ IndexerTypeOK /\ Latest' = Latest
      /\ \A a, n : OwnerAt(a, n)' = OwnerAt(a, n)
      /\ \A a, i, n : Moved(a, i, n)' <=> Moved(a, i, n)
      /\ MintedMoved'
  BY ChainStays DEF IndexerInv
<1>2. /\ ChunkEnd' = ChunkEnd /\ ChunkEnd \in Nat /\ cursor \in Nat /\ job.at = cursor + 1
      /\ job.at <= ChunkEnd /\ ChunkEnd <= Latest /\ Latest \in Nat
  BY ChunkInside DEF IndexerInv, ChunkEnd
<1>3. IndexerTypeOK'
  BY <1>1 DEF IndexerTypeOK
<1>4. JobInOrder'
  BY <1>1 DEF IndexerInv, JobInOrder
<1>5. \A a, owner : Timely(a, owner) => owner = OwnerAt(a, Latest)' \/ Moved(a, ChunkEnd + 1, Latest)'
  BY <1>2 DEF Timely, OwnerAt, Moved, Latest
<1>6. ChunkSound'
  <2> SUFFICES ASSUME NEW a \in Agents
               PROVE  /\ Pending(a)' => Moved(a, job.at, ChunkEnd)'
                      /\ a \notin unsure' =>
                           /\ job'.found[a] # NoRow => Timely(a, job.found[a].owner)'
                           /\ Moved(a, job.at, ChunkEnd)' => Pending(a)' \/ Timely(a, row[a].owner)'
    BY DEF ChunkSound, NoRow
  <2>1. Moved(a, job.at, ChunkEnd)' <=> Moved(a, job.at, ChunkEnd)
    BY <1>2 DEF Moved, OwnerAt
  <2>2. Timely(a, job'.found[a].owner) => Timely(a, job.found[a].owner)'
    BY <1>5 DEF Timely
  <2>3. Timely(a, row'[a].owner) => Timely(a, row[a].owner)'
    BY <1>5 DEF Timely
  <2> QED BY <2>1, <2>2, <2>3 DEF AgentSound
<1>7. OwnerIsIndexed'
  <2> SUFFICES ASSUME NEW a \in Agents, a \notin unsure', OwnerAt(a, Latest) # Nobody,
                      ~Moved(a, cursor + 1, Latest)
               PROVE  row'[a].owner = OwnerAt(a, Latest)
    BY DEF OwnerIsIndexed, OwnerAt, Moved, Latest
  <2>1. ~Moved(a, job.at, ChunkEnd)
    BY <1>2 DEF Moved
  <2> QED BY <2>1 DEF AgentSound, IndexerInv, OwnerIsIndexed
<1> QED BY <1>1, <1>3, <1>4, <1>6, <1>7 DEF IndexerInv

LEMMA TakeLogsInv ==
  ASSUME IndexerInv, NEW known \in 0 .. ChunkEnd, TakeLogs(known), events' \in 0 .. MaxEvents
  PROVE  IndexerInv'
<1>1. UNCHANGED <<log, row, cursor>> /\ job.step = "logs" /\ job \in Jobs
      /\ row \in [Agents -> Rows \cup {NoRow}] /\ unsure \subseteq Agents
  BY DEF TakeLogs, IndexerInv, IndexerTypeOK
<1> DEFINE moved == {a \in Agents : Moved(a, job.at, known)}
<1>2. job' = [job EXCEPT !.step = "rows", !.todo = moved]
      /\ unsure' = unsure \cup {a \in Agents : Moved(a, known + 1, ChunkEnd)}
  BY DEF TakeLogs
<1>3. moved \in SUBSET Agents
  OBVIOUS
<1> HIDE DEF moved
<1>4. /\ job' \in Jobs /\ job'.step = "rows" /\ job'.at = job.at /\ job'.to = job.to
      /\ job'.todo = moved /\ job'.found = job.found
  BY <1>1, <1>2, <1>3 DEF Jobs
<1>5. job.found = NoRows /\ job.todo = {}
  BY <1>1 DEF IndexerInv, JobInOrder
<1>6. ASSUME NEW a \in Agents
      PROVE  AgentSound(a)
  <2>1. Pending(a)' <=> a \in moved
    BY <1>4, <1>5 DEF Pending, NoRows, NoRow
  <2>2. /\ job.at \in Nat /\ ChunkEnd \in Nat /\ job.at <= ChunkEnd /\ known \in Nat /\ known <= ChunkEnd
    BY <1>1, ChunkInside DEF IndexerInv
  <2>3. Moved(a, job.at, known) => Moved(a, job.at, ChunkEnd)
    BY <2>2 DEF Moved
  <2>4. a \notin unsure' => (Moved(a, job.at, ChunkEnd) => Moved(a, job.at, known))
    BY <1>2, <2>2 DEF Moved
  <2>5. job'.found[a] = NoRow
    BY <1>4, <1>5 DEF NoRows
  <2> QED BY <1>1, <1>2, <2>1, <2>3, <2>4, <2>5 DEF AgentSound, moved
<1> QED BY <1>1, <1>2, <1>4, <1>6, WithinChunk

LEMMA HintTyped ==
  ASSUME IndexerTypeOK, JobInOrder, job.step # "idle", NEW a \in Agents
  PROVE  CreatorHint(a, job.at, ChunkEnd) \in Owners \cup {Nobody}
<1> DEFINE mints == {b \in job.at .. ChunkEnd : OwnerAt(a, b - 1) = Nobody /\ OwnerAt(a, b) # Nobody}
           mint == CHOOSE b \in mints : TRUE
<1>1. CASE mints = {}
  BY <1>1 DEF CreatorHint
<1>2. CASE mints # {}
  <2>1. mint \in mints /\ CreatorHint(a, job.at, ChunkEnd) = OwnerAt(a, mint)
    BY <1>2 DEF CreatorHint
  <2>2. mint \in 0 .. Latest
    BY <2>1, ChunkInside
  <2> HIDE DEF mint
  <2> QED BY <2>1, <2>2, ChainTypes
<1> QED BY <1>1, <1>2

\* An owner has been resolved, or guessed: then the agent is unsure.
LEMMA ResolvedInv ==
  ASSUME IndexerInv, NEW a \in Agents, Resolving(a), UNCHANGED <<log, row, cursor>>,
         events' \in 0 .. MaxEvents, unsure' \subseteq Agents, unsure \ {a} \subseteq unsure',
         NEW owner \in Owners \cup {Nobody},
         job' = [job EXCEPT !.todo = @ \ {a}, !.found[a] = Found(a, owner)],
         a \notin unsure' => owner = OwnerAt(a, Latest)
  PROVE  IndexerInv'
<1>1. /\ job \in Jobs /\ job.step = "rows" /\ a \in job.todo /\ row \in [Agents -> Rows \cup {NoRow}]
      /\ IndexerTypeOK /\ JobInOrder /\ ChunkSound
  BY DEF Resolving, IndexerInv, IndexerTypeOK
<1>2. /\ job.at \in Nat /\ ChunkEnd \in Nat /\ ChunkEnd <= Latest /\ Latest \in Nat /\ job.at > 0
  BY <1>1, ChunkInside DEF IndexerInv
<1>3. Found(a, owner) \in Rows /\ Found(a, owner).owner = owner /\ Found(a, owner) # NoRow
  <2>1. CreatorHint(a, job.at, ChunkEnd) \in Owners \cup {Nobody}
    BY <1>1, HintTyped
  <2> DEFINE creator == LET hint == CreatorHint(a, job.at, ChunkEnd) IN
                        IF hint = Nobody THEN owner ELSE hint
  <2>2. creator \in Owners \cup {Nobody} /\ Found(a, owner) = [owner |-> owner, creator |-> creator]
    BY <2>1 DEF Found
  <2> HIDE DEF creator
  <2>3. owner # "no row"
    BY NoRowAssumption, Zenon
  <2>4. Found(a, owner) \in Rows /\ Found(a, owner).owner = owner
    BY <2>2 DEF Rows
  <2>5. NoRow.owner = "no row"
    BY DEF NoRow
  <2> QED BY <2>3, <2>4, <2>5, Zenon
<1> DEFINE new == Found(a, owner)
<1> HIDE DEF new
<1>4. job' = [job EXCEPT !.todo = @ \ {a}, !.found[a] = new]
  BY DEF new
<1>5. /\ job'.step = "rows" /\ job'.at = job.at /\ job'.to = job.to
      /\ job'.todo = job.todo \ {a} /\ job'.found = [job.found EXCEPT ![a] = new]
  BY <1>1, <1>4 DEF Jobs
<1>6. job.found \in [Agents -> Rows \cup {NoRow}] /\ job.todo \subseteq Agents
  BY <1>1 DEF Jobs
<1>7. /\ job'.found[a] = new
      /\ \A x \in Agents \ {a} : job'.found[x] = job.found[x]
      /\ job'.found \in [Agents -> Rows \cup {NoRow}]
  BY <1>3, <1>5, <1>6 DEF new
<1>8. job' \in Jobs
  <2> DEFINE todo == job.todo \ {a}
             found == [job.found EXCEPT ![a] = new]
  <2>1. todo \in SUBSET Agents /\ found \in [Agents -> Rows \cup {NoRow}]
    BY <1>5, <1>6, <1>7
  <2>2. job' = [job EXCEPT !.todo = todo, !.found = found]
    BY <1>1, <1>4 DEF Jobs
  <2> HIDE DEF todo, found
  <2> QED BY <1>1, <2>1, <2>2 DEF Jobs
<1>9. ASSUME NEW x \in Agents
      PROVE  AgentSound(x)
  <2>1. CASE x = a
    BY <1>1, <1>3, <1>7, <2>1 DEF AgentSound, ChunkSound, Pending, Timely, new
  <2>2. CASE x # a
    <3>1. (Pending(x)' <=> Pending(x)) /\ job'.found[x] = job.found[x]
      BY <1>5, <1>7, <2>2 DEF Pending
    <3>2. row' = row /\ (x \notin unsure' => x \notin unsure)
      BY <2>2
    <3> QED BY <1>1, <3>1, <3>2 DEF AgentSound, ChunkSound
  <2> QED BY <2>1, <2>2
<1> QED BY <1>1, <1>5, <1>8, <1>9, WithinChunk

LEMMA ResolveInv ==
  ASSUME IndexerInv, NEW a \in Agents, Resolve(a)
  PROVE  IndexerInv'
<1>1. OwnerAt(a, Latest) \in Owners \cup {Nobody} /\ events \in 0 .. MaxEvents /\ unsure \subseteq Agents
  BY ChainTypes DEF IndexerInv, IndexerTypeOK
<1>2. events' = events /\ unsure' = unsure \ {a}
  BY DEF Resolve
<1> QED BY <1>1, <1>2, ResolvedInv DEF Resolve

LEMMA MisreadInv ==
  ASSUME IndexerInv, NEW a \in Agents, Misread(a)
  PROVE  IndexerInv'
<1>1. PICK guess \in Guesses(a) : job' = [job EXCEPT !.todo = @ \ {a}, !.found[a] = Found(a, guess)]
  BY DEF Misread
<1>2. /\ IndexerTypeOK /\ ChunkEnd \in Nat /\ job.at \in Nat /\ job.at > 0
      /\ ChunkEnd <= Latest /\ Latest \in Nat
  BY ChunkInside DEF IndexerInv, Misread, Resolving
<1>3. \A n \in 0 .. Latest : OwnerAt(a, n) \in Owners \cup {Nobody}
  BY <1>2, ChainTypes
<1>4. CreatorHint(a, job.at, ChunkEnd) \in Owners \cup {Nobody}
  BY <1>2, HintTyped DEF IndexerInv, Misread, Resolving
<1>5. guess \in Owners \cup {Nobody}
  BY <1>2, <1>3, <1>4 DEF Guesses
<1>6. events' \in 0 .. MaxEvents /\ unsure' = unsure \cup {a} /\ unsure \subseteq Agents
  BY <1>2 DEF Misread, Event, IndexerTypeOK
<1> QED BY <1>1, <1>5, <1>6, ResolvedInv DEF Misread

LEMMA UpsertInv ==
  ASSUME IndexerInv, NEW a \in Agents, Upsert(a)
  PROVE  IndexerInv'
<1>1. /\ job \in Jobs /\ job.step = "rows" /\ row \in [Agents -> Rows \cup {NoRow}]
      /\ unsure \subseteq Agents /\ events \in 0 .. MaxEvents /\ ChunkSound
      /\ job.found \in [Agents -> Rows \cup {NoRow}] /\ job.found[a] # NoRow
      /\ UNCHANGED <<log, cursor, unsure, events>>
  BY DEF Upsert, ChunkResolved, IndexerInv, IndexerTypeOK, Jobs
<1>2. /\ row' = [row EXCEPT ![a] = job.found[a]]
      /\ job' = [job EXCEPT !.found[a] = NoRow]
  BY DEF Upsert
<1>3. /\ row'[a] = job.found[a] /\ row' \in [Agents -> Rows \cup {NoRow}]
      /\ \A x \in Agents \ {a} : row'[x] = row[x]
  BY <1>1, <1>2
<1>4. /\ job'.step = "rows" /\ job'.at = job.at /\ job'.to = job.to /\ job'.todo = job.todo
      /\ job'.found = [job.found EXCEPT ![a] = NoRow]
  BY <1>1, <1>2 DEF Jobs
<1>5. /\ job'.found[a] = NoRow /\ \A x \in Agents \ {a} : job'.found[x] = job.found[x]
      /\ job'.found \in [Agents -> Rows \cup {NoRow}]
  BY <1>1, <1>4
<1>6. job' \in Jobs
  <2> DEFINE found == [job.found EXCEPT ![a] = NoRow]
  <2>1. found \in [Agents -> Rows \cup {NoRow}] /\ job' = [job EXCEPT !.found = found]
    BY <1>1, <1>2, <1>4, <1>5
  <2> HIDE DEF found
  <2> QED BY <1>1, <2>1 DEF Jobs
<1>7. ASSUME NEW x \in Agents
      PROVE  AgentSound(x)
  <2>1. CASE x = a
    BY <1>1, <1>3, <1>4, <1>5, <2>1 DEF AgentSound, ChunkSound, Pending
  <2>2. CASE x # a
    <3>1. (Pending(x)' <=> Pending(x)) /\ job'.found[x] = job.found[x] /\ row'[x] = row[x]
      BY <1>3, <1>4, <1>5, <2>2 DEF Pending
    <3> QED BY <1>1, <3>1 DEF AgentSound, ChunkSound
  <2> QED BY <2>1, <2>2
<1> QED BY <1>1, <1>3, <1>4, <1>6, <1>7, WithinChunk

\* The job, or its chunk, ends: the cursor is where every row says it is.
LEMMA ChunkOver ==
  ASSUME IndexerInv, UNCHANGED log, events' \in 0 .. MaxEvents, unsure' = unsure,
         row' \in [Agents -> Rows \cup {NoRow}], job' \in Jobs, cursor' \in 0 .. Latest,
         job'.step # "rows", job'.todo = {}, job'.found = NoRows,
         job'.step # "idle" => job'.at = cursor' + 1 /\ job'.at <= job'.to /\ job'.to <= Latest,
         \A a \in Agents \ unsure : OwnerAt(a, Latest) # Nobody /\ ~Moved(a, cursor' + 1, Latest)
           => row'[a].owner = OwnerAt(a, Latest)
  PROVE  IndexerInv'
<1>1. IndexerTypeOK /\ Latest' = Latest /\ Latest \in Nat /\ MintedMoved'
  BY ChainStays, ChainTypes DEF IndexerInv
<1>2. IndexerTypeOK'
  BY <1>1 DEF IndexerTypeOK
<1>3. JobInOrder' /\ ChunkSound'
  <2>1. cursor' <= Latest'
    BY <1>1
  <2>2. job'.step # "rows" => job'.todo = {} /\ job'.found = NoRows'
    BY DEF NoRows
  <2>3. job'.step # "idle" => job'.at = cursor' + 1 /\ job'.at <= job'.to /\ job'.to <= Latest'
    BY <1>1
  <2> QED BY <2>1, <2>2, <2>3 DEF JobInOrder, ChunkSound
<1>4. OwnerIsIndexed'
  BY DEF OwnerIsIndexed, OwnerAt, Moved, Latest
<1> QED BY <1>1, <1>2, <1>3, <1>4 DEF IndexerInv

LEMMA AdvanceInv ==
  ASSUME IndexerInv, Advance
  PROVE  IndexerInv'
<1>1. /\ job.step = "rows" /\ job.todo = {} /\ job.found = NoRows /\ UNCHANGED <<log, row, unsure, events>>
      /\ cursor' = ChunkEnd
      /\ job' = IF ChunkEnd < job.to THEN [job EXCEPT !.step = "logs", !.at = ChunkEnd + 1] ELSE IdleJob
  BY DEF Advance, ChunkWritten, ChunkResolved
<1>2. /\ job \in Jobs /\ job.at \in Nat /\ job.to \in Nat /\ cursor \in Nat
      /\ ChunkEnd \in Nat /\ job.at = cursor + 1 /\ job.at <= ChunkEnd
      /\ ChunkEnd <= job.to /\ ChunkEnd <= Latest /\ Latest \in Nat /\ job.to <= Latest
  BY <1>1, ChunkInside DEF IndexerInv, JobInOrder
<1>3. /\ job' \in Jobs /\ job'.step # "rows" /\ job'.todo = {} /\ job'.found = NoRows
      /\ job'.step # "idle" => job'.at = cursor' + 1 /\ job'.at <= job'.to /\ job'.to <= Latest
  <2>1. CASE ChunkEnd < job.to
    <3> DEFINE at == ChunkEnd + 1
    <3>1. job' = [job EXCEPT !.step = "logs", !.at = at] /\ at \in Nat /\ at <= job.to /\ at = cursor' + 1
      BY <1>1, <1>2, <2>1
    <3> HIDE DEF at
    <3>2. /\ job'.step = "logs" /\ job'.at = at /\ job'.to = job.to /\ job'.todo = {}
          /\ job'.found = NoRows /\ job' \in Jobs
      BY <1>1, <1>2, <3>1 DEF Jobs
    <3> QED BY <1>2, <3>1, <3>2
  <2>2. CASE ~(ChunkEnd < job.to)
    BY <1>1, <2>2 DEF IdleJob, Jobs, NoRows
  <2> QED BY <2>1, <2>2
<1>4. ASSUME NEW a \in Agents \ unsure, OwnerAt(a, Latest) # Nobody, ~Moved(a, ChunkEnd + 1, Latest)
      PROVE  row[a].owner = OwnerAt(a, Latest)
  <2>1. CASE Moved(a, job.at, ChunkEnd)
    BY <1>1, <1>4, <2>1 DEF IndexerInv, ChunkSound, Pending, Timely, NoRows
  <2>2. CASE ~Moved(a, job.at, ChunkEnd)
    BY <1>2, <1>4, <2>2, MovedSplit DEF IndexerInv, OwnerIsIndexed
  <2> QED BY <2>1, <2>2
<1>5. events' \in 0 .. MaxEvents /\ row' \in [Agents -> Rows \cup {NoRow}]
  BY <1>1 DEF IndexerInv, IndexerTypeOK
<1> QED BY <1>1, <1>2, <1>3, <1>4, <1>5, ChunkOver

LEMMA StopInv ==
  ASSUME IndexerInv, Stop
  PROVE  IndexerInv'
<1>1. /\ UNCHANGED <<log, row, cursor, unsure>> /\ events' \in 0 .. MaxEvents
      /\ row' \in [Agents -> Rows \cup {NoRow}] /\ cursor' \in 0 .. Latest
  BY ChainTypes DEF Stop, Event, IndexerInv, IndexerTypeOK, JobInOrder
<1>2. job' \in Jobs /\ job'.step = "idle" /\ job'.todo = {} /\ job'.found = NoRows
  BY DEF Stop, IdleJob, Jobs, NoRows
<1> QED BY <1>1, <1>2, ChunkOver DEF IndexerInv, OwnerIsIndexed

LEMMA ResetInv ==
  ASSUME IndexerInv, ResetRows
  PROVE  IndexerInv'
<1>1. /\ UNCHANGED <<log, job, unsure>> /\ events' \in 0 .. MaxEvents /\ job.step = "idle"
      /\ row' = NoRows /\ cursor' = 0 /\ Latest \in Nat
  BY ChainTypes DEF ResetRows, Event, IndexerInv, IndexerTypeOK
<1>2. job' \in Jobs /\ job'.step = "idle" /\ job'.todo = {} /\ job'.found = NoRows
  BY <1>1 DEF IndexerInv, IndexerTypeOK, JobInOrder
<1>3. row' \in [Agents -> Rows \cup {NoRow}]
  BY <1>1 DEF NoRows
<1>4. \A a \in Agents : OwnerAt(a, Latest) # Nobody => Moved(a, cursor' + 1, Latest)
  BY <1>1 DEF IndexerInv, MintedMoved
<1> QED BY <1>1, <1>2, <1>3, <1>4, ChunkOver

LEMMA IndexerStepInv ==
  ASSUME IndexerInv, IndexerStep
  PROVE  IndexerInv'
<1>1. CASE Mine
  BY <1>1, MineInv
<1>2. CASE Start
  BY <1>2, StartInv
<1>3. CASE FetchLogs
  <2>1. /\ ChunkEnd \in 0 .. ChunkEnd /\ TakeLogs(ChunkEnd) /\ events' \in 0 .. MaxEvents
    BY <1>3, ChunkInside DEF FetchLogs, TakeLogs, IndexerInv, IndexerTypeOK
  <2> QED BY <2>1, TakeLogsInv
<1>4. CASE FetchOldLogs
  <2>1. PICK known \in 0 .. ChunkEnd : TakeLogs(known)
    BY <1>4 DEF FetchOldLogs
  <2>2. events' \in 0 .. MaxEvents
    BY <1>4 DEF FetchOldLogs, Event, IndexerInv, IndexerTypeOK
  <2> QED BY <2>1, <2>2, TakeLogsInv
<1>5. CASE Advance
  BY <1>5, AdvanceInv
<1>6. CASE Stop
  BY <1>6, StopInv
<1>7. ASSUME NEW a \in Agents, Resolve(a) \/ Misread(a) \/ Upsert(a)
      PROVE  IndexerInv'
  BY <1>7, ResolveInv, MisreadInv, UpsertInv
<1> QED BY <1>1, <1>2, <1>3, <1>4, <1>5, <1>6, <1>7 DEF IndexerStep

\* A step of the gateway.
LEMMA IndexStaysInv ==
  ASSUME IndexerInv, UNCHANGED indexVars, events' \in 0 .. MaxEvents
  PROVE  IndexerInv'
<1>1. UNCHANGED <<log, row, cursor, job, unsure>>
  BY DEF indexVars
<1>2. IndexerTypeOK' /\ JobInOrder' /\ MintedMoved'
  BY <1>1, ChainStays DEF IndexerInv, IndexerTypeOK, JobInOrder, Latest
<1>3. ChunkSound' /\ OwnerIsIndexed'
  BY <1>1 DEF IndexerInv, ChunkSound, OwnerIsIndexed, Pending, Timely, Moved, OwnerAt, ChunkEnd, Latest
<1> QED BY <1>2, <1>3 DEF IndexerInv

-----------------------------------------------------------------------------
(* What the requests in flight know. *)

Ready == {"LIVE", "DEGRADED"}

\* A config of this era has been there, or is.
Dated(a, era) == era <= events /\ (~HasConfig(a) => era < events)

\* What was read of a config that is still there is true of it, but for a
\* status that was ready, is of use only while it says the endpoint is proven.
SeenSound(seen) ==
  /\ Dated(seen.agent, seen.era)
  /\ Present(seen) /\ seen.agent \notin overtook =>
       /\ seen.endpoint = gateway[seen.agent].endpoint
       /\ seen.status \in Ready => seen.agent \in proven

GotSound(got) ==
  /\ SeenSound(got.seen)
  /\ got.passed /\ Present(got.seen) /\ got.seen.agent \notin overtook => got.seen.agent \in proven

CallSound(call) ==
  /\ call.step = "fetch" => call.seen.agent = call.agent /\ SeenSound(call.seen)
  /\ call.step = "persist" => call.got.seen.agent = call.agent /\ GotSound(call.got)
  /\ call.step = "create" => Dated(call.agent, call.era)

CallsSound == \A c \in Callers : CallSound(calls[c])

RecheckSound ==
  /\ \A seen \in recheck.batch : SeenSound(seen)
  /\ \A got \in recheck.got : GotSound(got)

Eras == \A a \in Agents : HasConfig(a) => gateway[a].era <= events

GatewayInv ==
  /\ IndexerInv /\ GatewayTypeOK /\ Eras
  /\ CallsSound /\ RecheckSound /\ ReadyMeansProven /\ SignersBounded

-----------------------------------------------------------------------------
(* Types. *)

LEMMA StaleTyped ==
  ASSUME NEW live \in Nat
  PROVE  StaleAfter(live) \in Nat
<1>1. Limit \in Nat \ {0} /\ ConfiguredStale \in Nat /\ BufferRuns \in Nat
  BY GatewayAssumption
<1>2. (live + Limit - 1) \div Limit \in Nat
  <2>1. live + Limit - 1 \in Nat
    BY <1>1
  <2> QED BY <1>1, <2>1
<1> QED BY <1>1, <1>2 DEF StaleAfter

LEMMA AgesTyped ==
  /\ Old \in Nat /\ Never \in Ages /\ 0 \in Ages
  /\ \A age \in Ages : Older(age) \in Ages
<1>1. Cardinality(Agents) \in Nat
  BY GatewayAssumption, FS_CardinalityType
<1>2. Old \in Nat
  BY <1>1, StaleTyped DEF Old
<1> QED BY <1>2 DEF Ages, Never, Older

\* The fields of the configs and of the requests.
LEMMA ConfigTyped ==
  ASSUME NEW config \in Configs \cup {NoConfig}, config # NoConfig
  PROVE  /\ config \in Configs /\ config.owner \in Owners /\ config.endpoint \in Endpoints
         /\ config.status \in Statuses /\ config.passed \in Ages /\ config.checked \in Ages
         /\ config.era \in Nat
BY DEF Configs

LEMMA StatusTyped ==
  ASSUME NEW config \in Configs \cup {NoConfig}, config.status \in Statuses
  PROVE  config # NoConfig
BY DEF NoConfig, Statuses

LEMMA CallTyped ==
  ASSUME NEW call \in Calls
  PROVE  /\ call.step = "save" => /\ call.agent \in Agents /\ call.owner \in Owners
                                  /\ call.endpoint \in Endpoints
         /\ call.step = "fetch" => call.agent \in Agents /\ call.seen \in Seens
         /\ call.step = "persist" => call.agent \in Agents /\ call.got \in AnswersSeen
         /\ call.step = "create" => /\ call.agent \in Agents /\ call.signer \in Signers
                                    /\ call.era \in Nat
         /\ call.step = "revoke" => call.agent \in Agents /\ call.id \in Nat /\ call.era \in Nat
BY DEF Calls, NoCall

LEMMA CallsTyped ==
  /\ NoCall \in Calls
  /\ \A a \in Agents, o \in Owners, e \in Endpoints :
       [step |-> "save", agent |-> a, owner |-> o, endpoint |-> e] \in Calls
  /\ \A a \in Agents, seen \in Seens : [step |-> "fetch", agent |-> a, seen |-> seen] \in Calls
  /\ \A a \in Agents, got \in AnswersSeen : [step |-> "persist", agent |-> a, got |-> got] \in Calls
  /\ \A a \in Agents, s \in Signers, era \in Nat :
       [step |-> "create", agent |-> a, signer |-> s, era |-> era] \in Calls
  /\ \A a \in Agents, id \in Nat, era \in Nat :
       [step |-> "revoke", agent |-> a, id |-> id, era |-> era] \in Calls
BY DEF Calls

LEMMA SeenTyped ==
  ASSUME GatewayTypeOK, NEW a \in Agents, HasConfig(a)
  PROVE  Seen(a) \in Seens /\ Answer(Seen(a)) \in AnswersSeen
<1>1. gateway[a] \in Configs \cup {NoConfig} /\ gateway[a] # NoConfig
  BY DEF GatewayTypeOK, HasConfig
<1>2. Seen(a) \in Seens
  BY <1>1, ConfigTyped DEF Seen, Seens
<1> QED BY <1>2, AgesTyped DEF Answer, AnswersSeen, Seens, GatewayTypeOK

LEMMA AnswerTyped ==
  ASSUME GatewayTypeOK, NEW seen \in Seens
  PROVE  /\ Answer(seen) \in AnswersSeen /\ Answer(seen).seen = seen
         /\ seen.agent \in Agents /\ seen.endpoint \in Endpoints /\ seen.status \in Statuses
         /\ seen.era \in Nat
<1>1. seen.agent \in Agents /\ seen.endpoint \in Endpoints /\ seen.status \in Statuses /\ seen.era \in Nat
  BY DEF Seens
<1>2. answers[seen.endpoint] \in BOOLEAN /\ 0 \in Ages
  BY <1>1, AgesTyped DEF GatewayTypeOK
<1> QED BY <1>1, <1>2 DEF Answer, AnswersSeen

\* Writing the outcome of a canary changes the readiness of its agent only.
LEMMA PersistedTyped ==
  ASSUME GatewayTypeOK, NEW got \in AnswersSeen, NEW a \in Agents
  PROVE  /\ Persisted(got)[a] \in Configs \cup {NoConfig}
         /\ Persisted(got) \in [Agents -> Configs \cup {NoConfig}]
         /\ Persisted(got)[a] = NoConfig <=> gateway[a] = NoConfig
         /\ HasConfig(a) => /\ Persisted(got)[a].era = gateway[a].era
                            /\ Persisted(got)[a].endpoint = gateway[a].endpoint
         /\ ~(Present(got.seen) /\ a = got.seen.agent) => Persisted(got)[a] = gateway[a]
         /\ Present(got.seen) /\ a = got.seen.agent =>
              Persisted(got)[a].status = resolveGatewayReadinessAfterCanary(got.seen.status, got.passed)
<1> DEFINE b == got.seen.agent
           status == resolveGatewayReadinessAfterCanary(got.seen.status, got.passed)
           passed == IF got.passed THEN got.age ELSE gateway[b].passed
           new == [gateway[b] EXCEPT !.status = status, !.checked = got.age, !.passed = passed]
<1>1. b \in Agents /\ got.seen.status \in Statuses /\ got.age \in Ages
  BY DEF AnswersSeen, Seens
<1>2. status \in Statuses
  BY <1>1 DEF resolveGatewayReadinessAfterCanary, Statuses
<1>3. gateway \in [Agents -> Configs \cup {NoConfig}]
  BY DEF GatewayTypeOK
<1>4. CASE ~Present(got.seen)
  BY <1>3, <1>4 DEF Persisted
<1>5. CASE Present(got.seen)
  <2>1. gateway[b] \in Configs /\ passed \in Ages
    BY <1>1, <1>3, <1>5, ConfigTyped DEF Present, HasConfig
  <2>2. Persisted(got) = [gateway EXCEPT ![b] = new]
    BY <1>5, Zenon DEF Persisted
  <2> HIDE DEF status, passed
  <2>3. /\ new \in Configs /\ new.era = gateway[b].era /\ new.endpoint = gateway[b].endpoint
        /\ new.status = status
    BY <1>1, <1>2, <2>1 DEF Configs
  <2>4. new # NoConfig
    BY <1>2, <2>3, StatusTyped
  <2> HIDE DEF new, b
  <2>5. /\ Persisted(got)[b] = new /\ \A x \in Agents \ {b} : Persisted(got)[x] = gateway[x]
        /\ Persisted(got) \in [Agents -> Configs \cup {NoConfig}]
    BY <1>1, <1>3, <2>2, <2>3
  <2>6. gateway[b] # NoConfig
    BY <1>5 DEF Present, HasConfig, b
  <2>7. CASE a = b
    BY <1>5, <2>3, <2>4, <2>5, <2>6, <2>7 DEF b, status
  <2>8. CASE a # b
    BY <1>3, <2>5, <2>8 DEF b
  <2> QED BY <2>7, <2>8
<1> QED BY <1>4, <1>5

-----------------------------------------------------------------------------
(* Steps that save and delete no config. *)

Quiet ==
  /\ \A a \in Agents : /\ HasConfig(a)' <=> HasConfig(a)
                       /\ HasConfig(a) => /\ gateway'[a].era = gateway[a].era
                                          /\ gateway'[a].endpoint = gateway[a].endpoint
  /\ proven \subseteq proven' /\ overtook' = overtook
  /\ events \in Nat /\ events' \in Nat /\ events <= events'

\* What changes in the requests is sound.
RequestsMove ==
  /\ \A c \in Callers : \A call \in Calls : call = calls'[c] => call = calls[c] \/ CallSound(call)'
  /\ \A seen \in recheck'.batch : seen \in recheck.batch \/ SeenSound(seen)'
  /\ \A got \in recheck'.got : got \in recheck.got \/ GotSound(got)'

\* A gateway gets ready only if its endpoint is proven.
ReadinessMoves ==
  \A a \in Agents \ overtook : gateway'[a].status \in Ready => gateway[a].status \in Ready \/ a \in proven'

\* No signer is added and none is about to be.
SignersMove ==
  /\ \A a \in Agents : Active(a)' \subseteq Active(a) /\ Creating(a)' \subseteq Creating(a)
  /\ crowded \subseteq crowded'

LEMMA QuietSeen ==
  ASSUME Quiet, NEW seen \in Seens, SeenSound(seen)
  PROVE  SeenSound(seen)'
<1>1. seen.agent \in Agents /\ seen.era \in Nat
  BY DEF Seens
<1>2. Present(seen)' <=> Present(seen)
  BY <1>1 DEF Quiet, Present
<1>3. Dated(seen.agent, seen.era)'
  BY <1>1 DEF Quiet, SeenSound, Dated
<1> QED BY <1>1, <1>2, <1>3 DEF Quiet, SeenSound, Present

LEMMA QuietGot ==
  ASSUME Quiet, NEW got \in AnswersSeen, GotSound(got)
  PROVE  GotSound(got)'
<1>1. got.seen \in Seens /\ got.seen.agent \in Agents
  BY DEF AnswersSeen, Seens
<1>2. SeenSound(got.seen)'
  BY <1>1, QuietSeen DEF GotSound
<1>3. Present(got.seen)' <=> Present(got.seen)
  BY <1>1 DEF Quiet, Present
<1> QED BY <1>1, <1>2, <1>3 DEF Quiet, GotSound

LEMMA QuietCall ==
  ASSUME Quiet, NEW call \in Calls, CallSound(call)
  PROVE  CallSound(call)'
<1>1. call.step = "fetch" => SeenSound(call.seen)'
  BY QuietSeen, CallTyped DEF CallSound
<1>2. call.step = "persist" => GotSound(call.got)'
  BY QuietGot, CallTyped DEF CallSound
<1>3. call.step = "create" => Dated(call.agent, call.era)'
  BY CallTyped DEF CallSound, Quiet, Dated
<1> QED BY <1>1, <1>2, <1>3 DEF CallSound

LEMMA CallsSoundNow ==
  ASSUME calls' \in [Callers -> Calls],
         \A c \in Callers : \A call \in Calls : call = calls'[c] => CallSound(call)'
  PROVE  CallsSound'
<1> SUFFICES ASSUME NEW c \in Callers
             PROVE  CallSound(calls[c])'
  BY DEF CallsSound
<1>1. \A call \in Calls : call = calls'[c] => CallSound(call)'
  OBVIOUS
<1>2. calls'[c] \in Calls
  OBVIOUS
<1> QED BY <1>1, <1>2 DEF CallSound, GotSound, SeenSound, Dated, Present, HasConfig, NoConfig, Ready

LEMMA RequestsKept ==
  ASSUME GatewayInv, GatewayTypeOK', Quiet, RequestsMove
  PROVE  CallsSound' /\ RecheckSound' /\ Eras'
<1>1. /\ calls \in [Callers -> Calls] /\ calls' \in [Callers -> Calls]
      /\ recheck.batch \subseteq Seens /\ recheck.got \subseteq AnswersSeen
  BY DEF GatewayInv, GatewayTypeOK, Rechecks
<1>2. CallsSound'
  <2> SUFFICES ASSUME NEW c \in Callers, NEW call \in Calls, call = calls'[c]
               PROVE  CallSound(call)'
    BY <1>1, CallsSoundNow
  <2>1. CASE call = calls[c]
    <3>1. CallSound(call)
      BY <2>1 DEF GatewayInv, CallsSound
    <3> QED BY <3>1, QuietCall
  <2> QED BY <2>1 DEF RequestsMove
<1>3. RecheckSound'
  <2>1. ASSUME NEW seen \in recheck'.batch
        PROVE  SeenSound(seen)'
    <3>1. CASE seen \in recheck.batch
      BY <1>1, <3>1, QuietSeen DEF GatewayInv, RecheckSound
    <3> QED BY <3>1 DEF RequestsMove
  <2>2. ASSUME NEW got \in recheck'.got
        PROVE  GotSound(got)'
    <3>1. CASE got \in recheck.got
      BY <1>1, <3>1, QuietGot DEF GatewayInv, RecheckSound
    <3> QED BY <3>1 DEF RequestsMove
  <2> QED BY <2>1, <2>2 DEF RecheckSound
<1>4. Eras'
  <2> SUFFICES ASSUME NEW a \in Agents, HasConfig(a)'
               PROVE  gateway'[a].era <= events'
    BY DEF Eras
  <2>1. HasConfig(a) /\ gateway[a] \in Configs \cup {NoConfig}
    BY DEF Quiet, GatewayInv, GatewayTypeOK
  <2>2. gateway[a].era \in Nat
    BY <2>1, ConfigTyped DEF HasConfig
  <2> QED BY <2>1, <2>2 DEF Quiet, GatewayInv, Eras
<1> QED BY <1>2, <1>3, <1>4

\* The sets the cap is about are finite.
LEMMA TakenFinite ==
  ASSUME GatewayTypeOK, NEW a \in Agents
  PROVE  /\ IsFiniteSet(Active(a)) /\ Cardinality(Active(a)) \in Nat
         /\ IsFiniteSet(Creating(a)) /\ Cardinality(Creating(a)) \in Nat
         /\ IsFiniteSet(Callers) /\ Cardinality(Callers) \in Nat
         /\ Cardinality(Creating(a)) <= Cardinality(Callers)
<1>1. signers[a] \in Seq(SignerRows)
  BY DEF GatewayTypeOK
<1>2. Len(signers[a]) \in Nat /\ Active(a) \in SUBSET (1 .. Len(signers[a]))
  BY <1>1, LenProperties DEF Active
<1>3. IsFiniteSet(1 .. Len(signers[a]))
  BY <1>2, FS_Interval
<1>4. IsFiniteSet(Active(a))
  BY <1>2, <1>3, FS_Subset
<1>5. IsFiniteSet(Callers) /\ Creating(a) \in SUBSET Callers
  BY GatewayAssumption DEF Creating
<1>6. IsFiniteSet(Creating(a)) /\ Cardinality(Creating(a)) <= Cardinality(Callers)
  BY <1>5, FS_Subset
<1> QED BY <1>4, <1>5, <1>6, FS_CardinalityType

LEMMA SignersKept ==
  ASSUME GatewayTypeOK, SignersBounded, SignersMove
  PROVE  SignersBounded'
<1> SUFFICES ASSUME NEW a \in Agents
             PROVE  /\ a \notin crowded' => Cardinality(Active(a))' + Cardinality(Creating(a))' <= MaxActive
                    /\ Cardinality(Active(a))' + Cardinality(Creating(a))' <= MaxActive - 1 + Cardinality(Callers)
  BY DEF SignersBounded
<1>1. /\ Cardinality(Active(a)) \in Nat /\ Cardinality(Creating(a)) \in Nat /\ Cardinality(Callers) \in Nat
      /\ IsFiniteSet(Active(a)) /\ IsFiniteSet(Creating(a)) /\ MaxActive \in Nat
  BY TakenFinite, GatewayAssumption
<1>2. Active(a)' \in SUBSET Active(a) /\ Creating(a)' \in SUBSET Creating(a)
  BY DEF SignersMove
<1>3. /\ Cardinality(Active(a)') \in Nat /\ Cardinality(Active(a)') <= Cardinality(Active(a))
      /\ Cardinality(Creating(a)') \in Nat /\ Cardinality(Creating(a)') <= Cardinality(Creating(a))
  BY <1>1, <1>2, FS_Subset, FS_CardinalityType
<1>4. a \notin crowded' => a \notin crowded
  BY DEF SignersMove
<1> QED BY <1>1, <1>3, <1>4 DEF SignersBounded

LEMMA QuietInv ==
  ASSUME GatewayInv, IndexerInv', GatewayTypeOK', Quiet, RequestsMove, ReadinessMoves, SignersBounded'
  PROVE  GatewayInv'
<1>1. ReadyMeansProven'
  BY DEF GatewayInv, ReadyMeansProven, ReadinessMoves, Quiet, Ready
<1>2. CallsSound' /\ RecheckSound' /\ Eras'
  BY RequestsKept
<1> QED BY <1>1, <1>2 DEF GatewayInv

\* The rest of the state has its types, and the configs stay.
Untouched ==
  /\ UNCHANGED indexVars /\ events' \in 0 .. MaxEvents /\ events <= events'
  /\ gateway' = gateway /\ proven \subseteq proven' /\ proven' \subseteq Agents /\ overtook' = overtook

LEMMA UntouchedQuiet ==
  ASSUME GatewayInv, Untouched
  PROVE  Quiet /\ IndexerInv' /\ IndexerTypeOK' /\ ReadinessMoves
<1>1. events \in Nat /\ events' \in Nat
  BY DEF GatewayInv, GatewayTypeOK, IndexerTypeOK, Untouched
<1>2. IndexerInv' /\ IndexerTypeOK'
  BY IndexStaysInv DEF GatewayInv, Untouched, IndexerInv
<1>3. Quiet
  BY <1>1 DEF Untouched, Quiet, HasConfig, NoConfig
<1> QED BY <1>2, <1>3 DEF ReadinessMoves, Untouched

LEMMA CallsSet ==
  ASSUME GatewayInv, NEW c \in Callers, NEW call \in Calls, calls' = [calls EXCEPT ![c] = call]
  PROVE  /\ calls' \in [Callers -> Calls] /\ calls'[c] = call
         /\ \A d \in Callers \ {c} : calls'[d] = calls[d]
BY DEF GatewayInv, GatewayTypeOK

LEMMA EventTyped ==
  ASSUME GatewayInv, Event
  PROVE  events' \in 0 .. MaxEvents /\ events < events' /\ events \in Nat
BY DEF GatewayInv, GatewayTypeOK, IndexerTypeOK, Event

LEMMA CreatingKept ==
  ASSUME Quiet, \A c \in Callers : calls'[c] = calls[c] \/ calls'[c].step # "create"
  PROVE  \A a \in Agents : Creating(a)' \subseteq Creating(a)
BY DEF Quiet, Creating

\* A request is set to something sound.
LEMMA OneCallMoves ==
  ASSUME NEW c \in Callers, \A d \in Callers \ {c} : calls'[d] = calls[d],
         \A call \in Calls : call = calls'[c] => CallSound(call)',
         recheck'.batch \subseteq recheck.batch, recheck'.got \subseteq recheck.got
  PROVE  RequestsMove
<1>1. \A d \in Callers : \A call \in Calls : call = calls'[d] => call = calls[d] \/ CallSound(call)'
  <2> TAKE d \in Callers
  <2> TAKE call \in Calls
  <2> HAVE call = calls'[d]
  <2>1. CASE d = c
    <3>1. call = calls'[c]
      BY <2>1
    <3>2. CallSound(call)'
      BY <3>1
    <3> QED BY <3>2
  <2>2. CASE d # c
    BY <2>2
  <2> QED BY <2>1, <2>2
<1> QED BY <1>1 DEF RequestsMove

\* Requests that know nothing of a config, nor of its era.
LEMMA PlainSound ==
  ASSUME NEW call \in Calls, call.step \notin {"fetch", "persist", "create"}
  PROVE  CallSound(call)'
BY DEF CallSound

-----------------------------------------------------------------------------
(* Steps of the routes. *)

LEMMA TurnInv ==
  ASSUME GatewayInv, Turn
  PROVE  GatewayInv'
<1>1. UNCHANGED <<indexerVars, gateway, signers, calls, recheck, history>>
      /\ answers' \in [Endpoints -> BOOLEAN]
  BY DEF Turn, GatewayInv, GatewayTypeOK
<1>2. Untouched
  BY <1>1 DEF Untouched, indexerVars, indexVars, history, GatewayInv, GatewayTypeOK, IndexerTypeOK
<1>3. GatewayTypeOK'
  BY <1>1, <1>2, UntouchedQuiet DEF GatewayInv, GatewayTypeOK, history
<1>4. RequestsMove
  BY <1>1 DEF RequestsMove
<1>5. SignersBounded'
  <2>1. SignersMove
    BY <1>1, <1>2, UntouchedQuiet, CreatingKept DEF SignersMove, Active, history
  <2> QED BY <2>1, SignersKept DEF GatewayInv
<1> QED BY <1>2, <1>3, <1>4, <1>5, UntouchedQuiet, QuietInv

\* A request that reads, and writes later.
LEMMA ReadInv ==
  ASSUME GatewayInv, NEW c \in Callers, NEW call \in Calls, Ask(c, call),
         call.step \in {"save", "revoke", "fetch"},
         call.step = "fetch" => call.agent \in Agents /\ HasConfig(call.agent) /\ call.seen = Seen(call.agent),
         UNCHANGED <<indexVars, gateway, signers, recheck, answers, history>>
  PROVE  GatewayInv'
<1>1. Event /\ calls' = [calls EXCEPT ![c] = call]
  BY DEF Ask
<1>2. /\ calls' \in [Callers -> Calls] /\ calls'[c] = call
      /\ \A d \in Callers \ {c} : calls'[d] = calls[d]
  BY <1>1, CallsSet
<1>3. Untouched
  BY <1>1, EventTyped DEF Untouched, history, GatewayInv, GatewayTypeOK
<1>4. GatewayTypeOK'
  BY <1>2, <1>3, UntouchedQuiet DEF GatewayInv, GatewayTypeOK, history
<1>5. CallSound(call)'
  <2>1. CASE call.step = "fetch"
    <3> DEFINE a == call.agent
    <3>1. a \in Agents /\ HasConfig(a) /\ call.seen = Seen(a)
      BY <2>1
    <3>2. /\ call.seen.agent = a /\ call.seen.era = gateway[a].era
          /\ call.seen.endpoint = gateway[a].endpoint /\ call.seen.status = gateway[a].status
      BY <3>1 DEF Seen
    <3>3. gateway[a].era <= events
      BY <3>1 DEF GatewayInv, Eras
    <3>4. SeenSound(call.seen)
      BY <3>1, <3>2, <3>3 DEF SeenSound, Dated, GatewayInv, ReadyMeansProven, Ready
    <3>5. SeenSound(call.seen)'
      BY <1>3, <2>1, <3>4, CallTyped, UntouchedQuiet, QuietSeen
    <3> QED BY <2>1, <3>2, <3>5 DEF CallSound
  <2>2. CASE call.step # "fetch"
    BY <2>2, PlainSound
  <2> QED BY <2>1, <2>2
<1>6. RequestsMove
  <2>1. \A other \in Calls : other = calls'[c] => CallSound(other)'
    BY <1>2, <1>5
  <2> QED BY <1>2, <2>1, OneCallMoves
<1>7. SignersBounded'
  <2>1. \A d \in Callers : calls'[d] = calls[d] \/ calls'[d].step # "create"
    BY <1>2
  <2>2. SignersMove
    BY <1>3, <2>1, UntouchedQuiet, CreatingKept DEF SignersMove, Active, history
  <2> QED BY <2>2, SignersKept DEF GatewayInv
<1> QED BY <1>3, <1>4, <1>6, <1>7, UntouchedQuiet, QuietInv

LEMMA SaveReadInv ==
  ASSUME GatewayInv, NEW c \in Callers, NEW a \in Agents, NEW o \in Owners, NEW e \in Endpoints,
         SaveRead(c, a, o, e)
  PROVE  GatewayInv'
<1> DEFINE call == [step |-> "save", agent |-> a, owner |-> o, endpoint |-> e]
<1>1. call \in Calls /\ call.step = "save"
  BY CallsTyped
<1>2. Ask(c, call) /\ UNCHANGED <<indexVars, gateway, signers, recheck, answers, history>>
  BY DEF SaveRead
<1> HIDE DEF call
<1> QED BY <1>1, <1>2, ReadInv

LEMMA VerifyReadInv ==
  ASSUME GatewayInv, NEW c \in Callers, NEW a \in Agents, NEW o \in Owners, VerifyRead(c, a, o)
  PROVE  GatewayInv'
<1> DEFINE call == [step |-> "fetch", agent |-> a, seen |-> Seen(a)]
<1>1. HasConfig(a) /\ Seen(a) \in Seens
  BY SeenTyped DEF VerifyRead, ActsFor, GatewayInv
<1>2. call \in Calls /\ call.step = "fetch" /\ call.agent = a /\ call.seen = Seen(a)
  BY <1>1, CallsTyped
<1>3. Ask(c, call) /\ UNCHANGED <<indexVars, gateway, signers, recheck, answers, history>>
  BY DEF VerifyRead
<1> HIDE DEF call
<1> QED BY <1>1, <1>2, <1>3, ReadInv

LEMMA RevokeReadInv ==
  ASSUME GatewayInv, NEW c \in Callers, NEW a \in Agents, NEW o \in Owners, RevokeRead(c, a, o)
  PROVE  GatewayInv'
<1>1. PICK i \in Active(a) : Ask(c, [step |-> "revoke", agent |-> a, id |-> i, era |-> gateway[a].era])
  BY DEF RevokeRead
<1> DEFINE call == [step |-> "revoke", agent |-> a, id |-> i, era |-> gateway[a].era]
<1>2. gateway[a].era \in Nat
  BY ConfigTyped DEF RevokeRead, ActsFor, HasConfig, GatewayInv, GatewayTypeOK
<1>3. i \in Nat
  <2>1. signers[a] \in Seq(SignerRows) /\ i \in DOMAIN signers[a]
    BY <1>1 DEF GatewayInv, GatewayTypeOK, Active
  <2> QED BY <2>1, LenProperties
<1>4. call \in Calls /\ call.step = "revoke"
  BY <1>2, <1>3, CallsTyped
<1>5. Ask(c, call) /\ UNCHANGED <<indexVars, gateway, signers, recheck, answers, history>>
  BY <1>1 DEF RevokeRead
<1> HIDE DEF call
<1> QED BY <1>4, <1>5, ReadInv

\* An answer is as sound as what was read before it.
LEMMA AnswerSound ==
  ASSUME Quiet, GatewayTypeOK, NEW seen \in Seens, SeenSound(seen),
         proven' = Proves(Answer(seen))
  PROVE  \A got \in AnswersSeen : got = Answer(seen) => GotSound(got)'
<1> DEFINE got == Answer(seen)
<1>1. got \in AnswersSeen /\ got.seen = seen /\ seen.agent \in Agents
  BY AnswerTyped
<1>2. SeenSound(seen)' /\ (Present(seen)' <=> Present(seen)) /\ overtook' = overtook
  BY <1>1, QuietSeen DEF Quiet, Present
<1>3. got.passed /\ Present(seen) /\ seen.agent \notin overtook => seen.agent \in proven'
  BY <1>1 DEF Proves, SeenSound
<1>4. ASSUME NEW other \in AnswersSeen, other = got
      PROVE  GotSound(other)'
  <2>1. other.seen = seen /\ (other.passed <=> got.passed)
    BY <1>1, <1>4
  <2>2. \A x \in Seens : x = seen => SeenSound(x)' /\ (Present(x)' <=> Present(seen))
    BY <1>2
  <2>3. other.seen \in Seens
    BY <2>1
  <2>4. SeenSound(other.seen)' /\ (Present(other.seen)' <=> Present(seen))
    BY <2>1, <2>2, <2>3
  <2>5. other.passed /\ Present(other.seen)' /\ other.seen.agent \notin overtook' => other.seen.agent \in proven'
    BY <1>2, <1>3, <2>1, <2>4
  <2> QED BY <2>4, <2>5 DEF GotSound
<1> QED BY <1>4

LEMMA ProvesTyped ==
  ASSUME GatewayTypeOK, NEW got \in AnswersSeen
  PROVE  proven \subseteq Proves(got) /\ Proves(got) \subseteq Agents
BY DEF GatewayTypeOK, Proves, AnswersSeen, Seens

LEMMA VerifyFetchInv ==
  ASSUME GatewayInv, NEW c \in Callers, VerifyFetch(c)
  PROVE  GatewayInv'
<1> DEFINE seen == calls[c].seen
           got == Answer(seen)
           call == [step |-> "persist", agent |-> calls[c].agent, got |-> got]
<1>1. /\ calls \in [Callers -> Calls] /\ calls[c] \in Calls /\ calls[c].step = "fetch"
      /\ seen \in Seens /\ calls[c].agent \in Agents /\ GatewayTypeOK
  BY CallTyped DEF VerifyFetch, GatewayInv, GatewayTypeOK
<1>2. got \in AnswersSeen /\ got.seen = seen
  BY <1>1, AnswerTyped
<1>3. /\ proven' = Proves(got) /\ calls' = [calls EXCEPT ![c] = call]
      /\ UNCHANGED <<indexerVars, gateway, signers, recheck, answers, overtook, crowded>>
  BY <1>1 DEF VerifyFetch
<1>4. call \in Calls /\ call.step = "persist" /\ call.agent = calls[c].agent /\ call.got = got
  BY <1>1, <1>2, CallsTyped
<1>5. CallSound(calls[c])
  BY DEF GatewayInv, CallsSound
<1>6. seen.agent = calls[c].agent /\ SeenSound(seen)
  BY <1>1, <1>5 DEF CallSound
<1> HIDE DEF seen, got, call
<1>7. /\ calls' \in [Callers -> Calls] /\ calls'[c] = call
      /\ \A d \in Callers \ {c} : calls'[d] = calls[d]
  BY <1>3, <1>4, CallsSet
<1>8. Untouched
  <2>1. UNCHANGED indexVars /\ events' = events
    BY <1>3 DEF indexerVars, indexVars
  <2> QED BY <1>1, <1>2, <1>3, <2>1, ProvesTyped DEF Untouched, GatewayTypeOK, IndexerTypeOK
<1>9. Quiet /\ IndexerTypeOK'
  BY <1>8, UntouchedQuiet
<1>10. GatewayTypeOK'
  BY <1>1, <1>3, <1>7, <1>8, <1>9 DEF GatewayTypeOK, Untouched
<1>11. RequestsMove
  <2>1. \A other \in Calls : other = calls'[c] => CallSound(other)'
    <3> SUFFICES ASSUME NEW other \in Calls, other = call
                 PROVE  CallSound(other)'
      BY <1>7
    <3>1. other.step = "persist" /\ other.got = got /\ got.seen.agent = other.agent /\ got \in AnswersSeen
      BY <1>2, <1>4, <1>6
    <3>2. \A x \in AnswersSeen : x = got => GotSound(x)'
      BY <1>1, <1>2, <1>3, <1>6, <1>9, AnswerSound DEF got
    <3>3. GotSound(other.got)'
      BY <3>1, <3>2
    <3> QED BY <3>1, <3>3 DEF CallSound
  <2> QED BY <1>3, <1>7, <2>1, OneCallMoves
<1>12. SignersBounded'
  <2>1. \A d \in Callers : calls'[d] = calls[d] \/ calls'[d].step # "create"
    BY <1>4, <1>7
  <2>2. SignersMove
    BY <1>3, <1>9, <2>1, CreatingKept DEF SignersMove, Active
  <2> QED BY <1>1, <2>2, SignersKept DEF GatewayInv
<1> QED BY <1>8, <1>9, <1>10, <1>11, <1>12, UntouchedQuiet, QuietInv

\* The outcome of a sound answer is written.
LEMMA OutcomeMoves ==
  ASSUME GatewayInv, NEW got \in AnswersSeen, GotSound(got), gateway' = Persisted(got),
         UNCHANGED <<indexerVars, history>>
  PROVE  /\ Quiet /\ ReadinessMoves /\ IndexerInv' /\ IndexerTypeOK'
         /\ gateway' \in [Agents -> Configs \cup {NoConfig}]
<1>1. GatewayTypeOK /\ events \in 0 .. MaxEvents /\ IndexerInv
  BY DEF GatewayInv, GatewayTypeOK, IndexerTypeOK
<1>2. /\ UNCHANGED indexVars /\ events' = events /\ proven' = proven /\ overtook' = overtook
  BY DEF indexerVars, indexVars, history
<1>3. IndexerInv' /\ IndexerTypeOK'
  BY <1>1, <1>2, IndexStaysInv DEF IndexerInv
<1>4. Quiet
  BY <1>1, <1>2, PersistedTyped DEF Quiet, HasConfig, NoConfig
<1>5. gateway' \in [Agents -> Configs \cup {NoConfig}]
  <2>1. got.seen.agent \in Agents
    BY DEF AnswersSeen, Seens
  <2> QED BY <1>1, <2>1, PersistedTyped
<1>6. ReadinessMoves
  <2> SUFFICES ASSUME NEW a \in Agents \ overtook, gateway'[a].status \in Ready, a \notin proven
               PROVE  gateway[a].status \in Ready
    BY <1>2 DEF ReadinessMoves
  <2>1. CASE Present(got.seen) /\ a = got.seen.agent
    <3>1. ~got.passed /\ got.seen.status \notin Ready
      BY <2>1 DEF GotSound, SeenSound
    <3>2. gateway'[a].status = "CONFIGURED"
      BY <1>1, <2>1, <3>1, PersistedTyped DEF resolveGatewayReadinessAfterCanary, Ready
    <3> QED BY <3>2 DEF Ready
  <2>2. CASE ~(Present(got.seen) /\ a = got.seen.agent)
    BY <1>1, <2>2, PersistedTyped
  <2> QED BY <2>1, <2>2
<1> QED BY <1>3, <1>4, <1>5, <1>6

\* A request ends, and leaves the configs as they are or quiet.
LEMMA FinishMoves ==
  ASSUME GatewayInv, NEW c \in Callers, Finish(c), Quiet,
         recheck'.batch \subseteq recheck.batch, recheck'.got \subseteq recheck.got
  PROVE  /\ calls' \in [Callers -> Calls] /\ RequestsMove
         /\ \A a \in Agents : Creating(a)' \subseteq Creating(a)
<1>1. NoCall \in Calls /\ NoCall.step = "none"
  BY CallsTyped DEF NoCall
<1>2. /\ calls' \in [Callers -> Calls] /\ calls'[c] = NoCall
      /\ \A d \in Callers \ {c} : calls'[d] = calls[d]
  BY <1>1, CallsSet DEF Finish
<1>3. \A call \in Calls : call = calls'[c] => CallSound(call)'
  BY <1>1, <1>2, PlainSound
<1>4. \A d \in Callers : calls'[d] = calls[d] \/ calls'[d].step # "create"
  BY <1>1, <1>2
<1> QED BY <1>2, <1>3, <1>4, OneCallMoves, CreatingKept

LEMMA VerifyPersistInv ==
  ASSUME GatewayInv, NEW c \in Callers, VerifyPersist(c)
  PROVE  GatewayInv'
<1> DEFINE got == calls[c].got
<1>1. /\ calls[c] \in Calls /\ calls[c].step = "persist" /\ GatewayTypeOK
      /\ CallSound(calls[c])
  BY DEF VerifyPersist, GatewayInv, GatewayTypeOK, CallsSound
<1>2. got \in AnswersSeen /\ GotSound(got)
  BY <1>1, CallTyped DEF CallSound
<1>3. /\ gateway' = Persisted(got) /\ Finish(c)
      /\ UNCHANGED <<indexerVars, signers, recheck, answers, history>>
  BY DEF VerifyPersist
<1> HIDE DEF got
<1>4. /\ Quiet /\ ReadinessMoves /\ IndexerInv' /\ IndexerTypeOK'
      /\ gateway' \in [Agents -> Configs \cup {NoConfig}]
  BY <1>2, <1>3, OutcomeMoves
<1>5. /\ calls' \in [Callers -> Calls] /\ RequestsMove
      /\ \A a \in Agents : Creating(a)' \subseteq Creating(a)
  BY <1>3, <1>4, FinishMoves
<1>6. GatewayTypeOK'
  BY <1>1, <1>3, <1>4, <1>5 DEF GatewayTypeOK, history
<1>7. SignersBounded'
  <2>1. SignersMove
    BY <1>3, <1>5 DEF SignersMove, Active, history
  <2> QED BY <1>1, <2>1, SignersKept DEF GatewayInv
<1> QED BY <1>4, <1>5, <1>6, <1>7, QuietInv

\* The configs stay, and a request ends.
LEMMA FinishInv ==
  ASSUME GatewayInv, NEW c \in Callers, Finish(c),
         UNCHANGED <<indexerVars, gateway, recheck, answers, history>>,
         signers' \in [Agents -> Seq(SignerRows)],
         (\A a \in Agents : Creating(a)' \subseteq Creating(a)) => SignersBounded'
  PROVE  GatewayInv'
<1>1. Untouched /\ GatewayTypeOK /\ UNCHANGED <<gateway, recheck, answers, crowded>>
  BY DEF Untouched, indexerVars, indexVars, history, GatewayInv, GatewayTypeOK, IndexerTypeOK
<1>2. Quiet /\ IndexerInv' /\ IndexerTypeOK' /\ ReadinessMoves
  BY <1>1, UntouchedQuiet
<1>3. /\ calls' \in [Callers -> Calls] /\ RequestsMove
      /\ \A a \in Agents : Creating(a)' \subseteq Creating(a)
  BY <1>1, <1>2, FinishMoves
<1>4. GatewayTypeOK'
  BY <1>1, <1>2, <1>3 DEF GatewayTypeOK, Untouched
<1> QED BY <1>2, <1>3, <1>4, QuietInv

LEMMA RevokeWriteInv ==
  ASSUME GatewayInv, NEW c \in Callers, RevokeWrite(c)
  PROVE  GatewayInv'
<1> DEFINE a == calls[c].agent
           id == calls[c].id
           revoked == [signers[a][id] EXCEPT !.active = FALSE]
           rows == [signers[a] EXCEPT ![id] = revoked]
<1>1. /\ GatewayTypeOK /\ signers \in [Agents -> Seq(SignerRows)] /\ a \in Agents /\ id \in Nat
      /\ Finish(c) /\ UNCHANGED <<indexerVars, gateway, recheck, answers, history>>
  BY CallTyped DEF RevokeWrite, GatewayInv, GatewayTypeOK
<1>2. signers' = signers \/ signers' = [signers EXCEPT ![a] = rows]
  BY DEF RevokeWrite
<1>3. signers[a] \in Seq(SignerRows) /\ DOMAIN signers[a] = 1 .. Len(signers[a])
  BY <1>1, LenProperties
<1>4. rows \in Seq(SignerRows) /\ DOMAIN rows = DOMAIN signers[a]
      /\ \A i \in DOMAIN rows : rows[i].active => signers[a][i].active
  <2>1. CASE id \in DOMAIN signers[a]
    <3>1. revoked \in SignerRows /\ revoked.active = FALSE
      <4>1. signers[a][id] \in SignerRows
        BY <1>3, <2>1, ElementOfSeq
      <4> QED BY <4>1 DEF SignerRows
    <3> HIDE DEF revoked
    <3>2. rows \in Seq(SignerRows) /\ Len(rows) = Len(signers[a])
          /\ \A j \in 1 .. Len(signers[a]) : rows[j] = IF j = id THEN revoked ELSE signers[a][j]
      BY <1>3, <2>1, <3>1, ExceptSeq
    <3>3. DOMAIN rows = DOMAIN signers[a]
      OBVIOUS
    <3> HIDE DEF rows
    <3> QED BY <1>3, <3>1, <3>2, <3>3
  <2>2. CASE id \notin DOMAIN signers[a]
    <3>1. rows = signers[a]
      BY <1>3, <2>2
    <3> QED BY <1>3, <3>1
  <2> QED BY <2>1, <2>2
<1> HIDE DEF rows
<1>5. signers' \in [Agents -> Seq(SignerRows)]
  BY <1>1, <1>2, <1>4
<1>6. \A x \in Agents : Active(x)' \subseteq Active(x)
  <2> SUFFICES ASSUME NEW x \in Agents, NEW i \in DOMAIN signers'[x], signers'[x][i].active
               PROVE  i \in DOMAIN signers[x] /\ signers[x][i].active
    BY DEF Active
  <2>1. CASE signers'[x] = signers[x]
    BY <2>1
  <2>2. CASE x = a /\ signers'[x] = rows
    BY <1>4, <2>2
  <2> QED BY <1>1, <1>2, <2>1, <2>2
<1>7. (\A x \in Agents : Creating(x)' \subseteq Creating(x)) => SignersBounded'
  BY <1>1, <1>6, SignersKept DEF SignersMove, history, GatewayInv
<1> QED BY <1>1, <1>5, <1>7, FinishInv

LEMMA RegisterCreateInv ==
  ASSUME GatewayInv, NEW c \in Callers, RegisterCreate(c)
  PROVE  GatewayInv'
<1> DEFINE a == calls[c].agent
           new == [signer |-> calls[c].signer, active |-> TRUE]
           rows == Append(signers[a], new)
           counted == HasConfig(a) /\ gateway[a].era = calls[c].era
<1>1. /\ GatewayTypeOK /\ signers \in [Agents -> Seq(SignerRows)] /\ a \in Agents
      /\ calls[c] \in Calls /\ calls[c].step = "create"
      /\ Finish(c) /\ UNCHANGED <<indexerVars, gateway, recheck, answers, history>>
  BY CallTyped DEF RegisterCreate, GatewayInv, GatewayTypeOK
<1>2. IF counted THEN signers' = [signers EXCEPT ![a] = rows] ELSE signers' = signers
  BY DEF RegisterCreate
<1>3. new \in SignerRows /\ signers[a] \in Seq(SignerRows)
      /\ DOMAIN signers[a] = 1 .. Len(signers[a]) /\ Len(signers[a]) \in Nat
  BY <1>1, CallTyped, LenProperties DEF SignerRows
<1> HIDE DEF new
<1>4. /\ rows \in Seq(SignerRows) /\ Len(rows) = Len(signers[a]) + 1
      /\ \A i \in 1 .. Len(signers[a]) : rows[i] = signers[a][i]
  BY <1>3, AppendProperties
<1>5. DOMAIN rows = 1 .. Len(signers[a]) + 1
  BY <1>4, LenProperties
<1> HIDE DEF rows
<1>6. signers' \in [Agents -> Seq(SignerRows)]
  BY <1>1, <1>2, <1>4
<1>7. ASSUME \A x \in Agents : Creating(x)' \subseteq Creating(x)
      PROVE  SignersBounded'
  <2>1. CASE ~counted
    <3>1. SignersMove
      BY <1>1, <1>2, <1>7, <2>1 DEF SignersMove, Active, history
    <3> QED BY <1>1, <3>1, SignersKept DEF GatewayInv
  <2>2. CASE counted
    <3> SUFFICES ASSUME NEW x \in Agents
                 PROVE  /\ x \notin crowded' => Cardinality(Active(x))' + Cardinality(Creating(x))' <= MaxActive
                        /\ Cardinality(Active(x))' + Cardinality(Creating(x))' <= MaxActive - 1 + Cardinality(Callers)
      BY DEF SignersBounded
    <3>1. /\ Cardinality(Active(x)) \in Nat /\ Cardinality(Creating(x)) \in Nat /\ Cardinality(Callers) \in Nat
          /\ IsFiniteSet(Active(x)) /\ IsFiniteSet(Creating(x)) /\ MaxActive \in Nat
      BY <1>1, TakenFinite, GatewayAssumption
    <3>2. crowded' = crowded
      BY <1>1 DEF history
    <3>3. /\ x \notin crowded => Cardinality(Active(x)) + Cardinality(Creating(x)) <= MaxActive
          /\ Cardinality(Active(x)) + Cardinality(Creating(x)) <= MaxActive - 1 + Cardinality(Callers)
      BY DEF GatewayInv, SignersBounded
    <3>4. CASE x # a
      <4>1. Active(x)' = Active(x)
        BY <1>1, <1>2, <2>2, <3>4 DEF Active
      <4>2. Creating(x)' \in SUBSET Creating(x)
        BY <1>7
      <4>3. Cardinality(Creating(x)') \in Nat /\ Cardinality(Creating(x)') <= Cardinality(Creating(x))
        BY <3>1, <4>2, FS_Subset, FS_CardinalityType
      <4> QED BY <3>1, <3>2, <3>3, <4>1, <4>3
    <3>5. CASE x = a
      <4>1. c \in Creating(x) /\ c \notin Creating(x)'
        BY <1>1, <2>2, <3>5 DEF Creating, Finish, NoCall, GatewayTypeOK
      <4>2. /\ IsFiniteSet(Creating(x) \ {c})
            /\ Cardinality(Creating(x) \ {c}) = Cardinality(Creating(x)) - 1
        BY <3>1, <4>1, FS_RemoveElement
      <4>3. Creating(x)' \in SUBSET (Creating(x) \ {c})
        BY <1>7, <4>1
      <4>4. Cardinality(Creating(x)') \in Nat /\ Cardinality(Creating(x)') <= Cardinality(Creating(x)) - 1
        BY <4>2, <4>3, FS_Subset, FS_CardinalityType
      <4> DEFINE last == Len(signers[a]) + 1
      <4>5. Active(x)' \in SUBSET (Active(x) \cup {last})
        <5>1. signers'[a] = rows
          BY <1>1, <1>2, <2>2
        <5> QED BY <1>3, <1>4, <1>5, <3>5, <5>1 DEF Active
      <4> HIDE DEF last
      <4>6. /\ IsFiniteSet(Active(x) \cup {last})
            /\ Cardinality(Active(x) \cup {last}) <= Cardinality(Active(x)) + 1
            /\ Cardinality(Active(x) \cup {last}) \in Nat
        <5> DEFINE more == Active(x) \cup {last}
        <5>1. IsFiniteSet(more) /\ Cardinality(more) = IF last \in Active(x) THEN Cardinality(Active(x))
                                                       ELSE Cardinality(Active(x)) + 1
          BY <3>1, FS_AddElement
        <5> HIDE DEF more
        <5>2. IsFiniteSet(more) /\ Cardinality(more) \in Nat /\ Cardinality(more) <= Cardinality(Active(x)) + 1
          BY <3>1, <5>1
        <5> QED BY <5>2 DEF more
      <4>7. Cardinality(Active(x)') \in Nat /\ Cardinality(Active(x)') <= Cardinality(Active(x)) + 1
        <5>1. Cardinality(Active(x)') <= Cardinality(Active(x) \cup {last}) /\ Cardinality(Active(x)') \in Nat
          BY <4>5, <4>6, FS_Subset, FS_CardinalityType
        <5> QED BY <3>1, <4>6, <5>1
      <4> QED BY <3>1, <3>2, <3>3, <4>4, <4>7
    <3> QED BY <3>4, <3>5
  <2> QED BY <2>1, <2>2
<1> QED BY <1>1, <1>6, <1>7, FinishInv

LEMMA RegisterCheckInv ==
  ASSUME GatewayInv, NEW c \in Callers, NEW a \in Agents, NEW o \in Owners, NEW s \in Signers,
         RegisterCheck(c, a, o, s)
  PROVE  GatewayInv'
<1> DEFINE call == [step |-> "create", agent |-> a, signer |-> s, era |-> gateway[a].era]
<1>1. /\ GatewayTypeOK /\ HasConfig(a) /\ Vacancy(a) /\ Ask(c, call)
      /\ crowded' = IF Creating(a) = {} THEN crowded ELSE crowded \cup {a}
      /\ UNCHANGED <<indexVars, gateway, signers, recheck, answers, proven, overtook>>
  BY DEF RegisterCheck, ActsFor, GatewayInv
<1>2. gateway[a].era \in Nat /\ gateway[a].era <= events
  BY <1>1, ConfigTyped DEF HasConfig, GatewayTypeOK, GatewayInv, Eras
<1>3. call \in Calls /\ call.step = "create" /\ call.agent = a /\ call.era = gateway[a].era
  BY <1>2, CallsTyped
<1> HIDE DEF call
<1>4. Event /\ calls' = [calls EXCEPT ![c] = call] /\ calls[c] = NoCall
  BY <1>1 DEF Ask, Idle
<1>5. /\ calls' \in [Callers -> Calls] /\ calls'[c] = call
      /\ \A d \in Callers \ {c} : calls'[d] = calls[d]
  BY <1>3, <1>4, CallsSet
<1>6. Untouched
  BY <1>1, <1>4, EventTyped DEF Untouched, GatewayTypeOK
<1>7. Quiet /\ IndexerInv' /\ IndexerTypeOK' /\ ReadinessMoves
  BY <1>6, UntouchedQuiet
<1>8. GatewayTypeOK'
  BY <1>1, <1>5, <1>6, <1>7 DEF GatewayTypeOK, Untouched
<1>9. RequestsMove
  <2>1. ASSUME NEW other \in Calls, other = call
        PROVE  CallSound(other)'
    <3>1. other.step = "create" /\ Dated(other.agent, other.era)
      BY <1>1, <1>2, <1>3, <2>1 DEF Dated
    <3>2. CallSound(other)
      BY <3>1 DEF CallSound
    <3> QED BY <1>7, <3>2, QuietCall
  <2>2. \A other \in Calls : other = calls'[c] => CallSound(other)'
    BY <1>5, <2>1
  <2> QED BY <1>1, <1>5, <2>2, OneCallMoves
<1>10. SignersBounded'
  <2> SUFFICES ASSUME NEW x \in Agents
               PROVE  /\ x \notin crowded' => Cardinality(Active(x))' + Cardinality(Creating(x))' <= MaxActive
                      /\ Cardinality(Active(x))' + Cardinality(Creating(x))' <= MaxActive - 1 + Cardinality(Callers)
    BY DEF SignersBounded
  <2>1. /\ Cardinality(Active(x)) \in Nat /\ Cardinality(Creating(x)) \in Nat /\ Cardinality(Callers) \in Nat
        /\ IsFiniteSet(Active(x)) /\ IsFiniteSet(Creating(x)) /\ MaxActive \in Nat
    BY <1>1, TakenFinite, GatewayAssumption
  <2>2. Cardinality(Active(x)') = Cardinality(Active(x))
    BY <1>1 DEF Active
  <2>3. /\ x \notin crowded => Cardinality(Active(x)) + Cardinality(Creating(x)) <= MaxActive
        /\ Cardinality(Active(x)) + Cardinality(Creating(x)) <= MaxActive - 1 + Cardinality(Callers)
    BY DEF GatewayInv, SignersBounded
  <2>4. CASE x # a
    <3>1. Creating(x)' \in SUBSET Creating(x)
      BY <1>3, <1>5, <1>7, <2>4 DEF Creating, Quiet
    <3>2. Cardinality(Creating(x)') \in Nat /\ Cardinality(Creating(x)') <= Cardinality(Creating(x))
      BY <2>1, <3>1, FS_Subset, FS_CardinalityType
    <3>3. x \notin crowded' => x \notin crowded
      BY <1>1
    <3> QED BY <2>1, <2>2, <2>3, <3>2, <3>3
  <2>5. CASE x = a
    <3>1. Cardinality(Active(x)) < MaxActive
      BY <1>1, <2>5 DEF Vacancy
    <3>2. /\ Cardinality(Creating(x)') \in Nat /\ Cardinality(Creating(x)') <= Cardinality(Callers)
      <4>1. Creating(x)' \in SUBSET Callers
        BY DEF Creating
      <4> QED BY <4>1, FS_Subset, FS_CardinalityType, GatewayAssumption
    <3>3. x \notin crowded' => Cardinality(Creating(x)') <= 1
      <4> SUFFICES ASSUME x \notin crowded'
                   PROVE  Cardinality(Creating(x)') <= 1
        OBVIOUS
      <4>1. Creating(a) = {}
        BY <1>1, <2>5
      <4>2. Creating(x)' \in SUBSET {c}
        BY <1>5, <1>7, <2>5, <4>1 DEF Creating, Quiet
      <4>3. IsFiniteSet({c}) /\ Cardinality({c}) = 1
        BY FS_Singleton
      <4> QED BY <4>2, <4>3, FS_Subset
    <3> QED BY <2>1, <2>2, <3>1, <3>2, <3>3
  <2> QED BY <2>4, <2>5
<1> QED BY <1>7, <1>8, <1>9, <1>10, QuietInv

\* A config is saved: what was in flight for its agent is no longer trusted.
LEMMA SaveWriteInv ==
  ASSUME GatewayInv, NEW c \in Callers, SaveWrite(c)
  PROVE  GatewayInv'
<1> DEFINE a == calls[c].agent
           era == IF HasConfig(a) THEN gateway[a].era ELSE events
           config == Configured(calls[c].owner, calls[c].endpoint, era)
<1>1. /\ GatewayTypeOK /\ calls[c] \in Calls /\ calls[c].step = "save" /\ a \in Agents
      /\ calls[c].owner \in Owners /\ calls[c].endpoint \in Endpoints
      /\ Finish(c) /\ UNCHANGED <<indexerVars, signers, recheck, answers, crowded>>
  BY CallTyped DEF SaveWrite, GatewayInv, GatewayTypeOK
<1>2. CASE row[a] = NoRow
  <2>1. UNCHANGED <<indexerVars, gateway, recheck, answers, history>> /\ signers' = signers
    BY <1>1, <1>2 DEF SaveWrite, history
  <2>2. (\A x \in Agents : Creating(x)' \subseteq Creating(x)) => SignersBounded'
    BY <1>1, <2>1, SignersKept DEF GatewayInv, SignersMove, Active
  <2> QED BY <1>1, <2>1, <2>2, FinishInv DEF GatewayTypeOK
<1>3. CASE row[a] # NoRow
  <2>1. /\ gateway' = [gateway EXCEPT ![a] = config] /\ proven' = proven \ {a}
        /\ overtook' = IF UnderWay(a) THEN overtook \cup {a} ELSE overtook
    BY <1>3 DEF SaveWrite
  <2>2. /\ UNCHANGED indexVars /\ events' = events /\ events \in Nat /\ IndexerInv' /\ IndexerTypeOK'
    <3>1. UNCHANGED indexVars /\ events' = events /\ events \in 0 .. MaxEvents
      BY <1>1 DEF indexerVars, indexVars, GatewayTypeOK, IndexerTypeOK
    <3> QED BY <3>1, IndexStaysInv DEF GatewayInv, IndexerInv
  <2>3. era \in Nat /\ era <= events
    BY <1>1, <2>2, ConfigTyped DEF HasConfig, GatewayTypeOK, GatewayInv, Eras
  <2>4. /\ config \in Configs /\ config.era = era /\ config.status = "CONFIGURED" /\ config # NoConfig
    <3> HIDE DEF era
    <3>1. config \in Configs /\ config.era = era /\ config.status = "CONFIGURED"
      BY <1>1, <2>3, AgesTyped DEF Configured, Configs, Statuses
    <3> QED BY <3>1, StatusTyped DEF Statuses
  <2> HIDE DEF config, era
  <2>5. /\ gateway' \in [Agents -> Configs \cup {NoConfig}] /\ gateway'[a] = config
        /\ \A x \in Agents \ {a} : gateway'[x] = gateway[x]
    BY <1>1, <2>1, <2>4 DEF GatewayTypeOK
  <2>6. \A x \in Agents : HasConfig(x)' <=> HasConfig(x) \/ x = a
    BY <2>4, <2>5 DEF HasConfig, NoConfig
  <2>7. ASSUME NEW x \in Agents, NEW n \in Nat, Dated(x, n)
        PROVE  Dated(x, n)'
    BY <2>2, <2>6, <2>7 DEF Dated
  <2>8. ASSUME NEW seen \in Seens, SeenSound(seen), seen.agent = a => UnderWay(a)
        PROVE  SeenSound(seen)'
    <3>1. seen.agent \in Agents /\ seen.era \in Nat
      BY DEF Seens
    <3>2. Dated(seen.agent, seen.era)'
      BY <2>7, <2>8, <3>1 DEF SeenSound
    <3>3. CASE seen.agent = a
      BY <2>1, <2>8, <3>2, <3>3 DEF SeenSound
    <3>4. CASE seen.agent # a
      <4>1. gateway'[seen.agent] = gateway[seen.agent]
        BY <2>5, <3>1, <3>4
      <4>2. Present(seen)' <=> Present(seen)
        BY <4>1 DEF Present, HasConfig, NoConfig
      <4> QED BY <2>1, <2>8, <3>2, <3>4, <4>1, <4>2 DEF SeenSound
    <3> QED BY <3>3, <3>4
  <2>9. ASSUME NEW got \in AnswersSeen, GotSound(got), got.seen.agent = a => UnderWay(a)
        PROVE  GotSound(got)'
    <3>1. got.seen \in Seens /\ got.seen.agent \in Agents
      BY DEF AnswersSeen, Seens
    <3>2. SeenSound(got.seen)'
      BY <2>8, <2>9, <3>1 DEF GotSound
    <3>3. CASE got.seen.agent = a
      BY <2>1, <2>9, <3>2, <3>3 DEF GotSound
    <3>4. CASE got.seen.agent # a
      <4>1. Present(got.seen)' <=> Present(got.seen)
        BY <2>5, <3>1, <3>4 DEF Present, HasConfig, NoConfig
      <4> QED BY <2>1, <2>9, <3>2, <3>4, <4>1 DEF GotSound
    <3> QED BY <3>3, <3>4
  <2>10. NoCall \in Calls /\ NoCall.step = "none"
    BY CallsTyped DEF NoCall
  <2>11. /\ calls' \in [Callers -> Calls] /\ calls'[c] = NoCall
         /\ \A d \in Callers \ {c} : calls'[d] = calls[d]
    BY <1>1, <2>10, CallsSet DEF Finish
  <2>12. GatewayTypeOK'
    BY <1>1, <2>1, <2>2, <2>5, <2>11 DEF GatewayTypeOK
  <2>13. CallsSound'
    <3> SUFFICES ASSUME NEW d \in Callers, NEW call \in Calls, call = calls'[d]
                 PROVE  CallSound(call)'
      BY <2>11, CallsSoundNow
    <3>1. CASE d = c
      BY <2>10, <2>11, <3>1, PlainSound
    <3>2. CASE d # c
      <4>1. call = calls[d] /\ CallSound(call)
        BY <2>11, <3>2 DEF GatewayInv, CallsSound
      <4>2. call.step \in {"fetch", "persist"} /\ call.agent = a => UnderWay(a)
        BY <4>1 DEF UnderWay
      <4>3. call.step = "fetch" => SeenSound(call.seen)'
        BY <2>8, <4>1, <4>2, CallTyped DEF CallSound
      <4>4. call.step = "persist" => GotSound(call.got)'
        BY <2>9, <4>1, <4>2, CallTyped DEF CallSound
      <4>5. call.step = "create" => Dated(call.agent, call.era)'
        BY <2>7, <4>1, CallTyped DEF CallSound
      <4> QED BY <4>1, <4>3, <4>4, <4>5 DEF CallSound
    <3> QED BY <3>1, <3>2
  <2>14. RecheckSound'
    <3>1. recheck' = recheck /\ recheck.batch \subseteq Seens /\ recheck.got \subseteq AnswersSeen
      BY <1>1 DEF GatewayTypeOK, Rechecks
    <3>2. ASSUME NEW seen \in recheck.batch
          PROVE  SeenSound(seen)'
      BY <2>8, <3>1 DEF GatewayInv, RecheckSound, UnderWay
    <3>3. ASSUME NEW got \in recheck.got
          PROVE  GotSound(got)'
      BY <2>9, <3>1 DEF GatewayInv, RecheckSound, UnderWay
    <3> QED BY <3>1, <3>2, <3>3 DEF RecheckSound
  <2>15. Eras'
    <3> SUFFICES ASSUME NEW x \in Agents, HasConfig(x)'
                 PROVE  gateway'[x].era <= events'
      BY DEF Eras
    <3>1. CASE x = a
      BY <2>2, <2>3, <2>4, <2>5, <3>1
    <3>2. CASE x # a
      BY <2>2, <2>5, <2>6, <3>2 DEF GatewayInv, Eras
    <3> QED BY <3>1, <3>2
  <2>16. ReadyMeansProven'
    BY <2>1, <2>4, <2>5 DEF GatewayInv, ReadyMeansProven
  <2>17. SignersBounded'
    <3>1. ASSUME NEW x \in Agents
          PROVE  Creating(x)' \subseteq Creating(x)
      <4> SUFFICES ASSUME NEW d \in Callers, d \in Creating(x)'
                   PROVE  d \in Creating(x)
        BY DEF Creating
      <4>1. /\ d # c /\ calls[d].step = "create" /\ calls[d].agent = x
            /\ calls[d].era = gateway'[x].era
        BY <2>10, <2>11 DEF Creating
      <4>2. Dated(x, calls[d].era)
        BY <4>1 DEF GatewayInv, CallsSound, CallSound
      <4>3. CASE x = a
        <5>1. HasConfig(a)
          BY <2>2, <2>3, <2>4, <2>5, <4>1, <4>2, <4>3 DEF Dated, era
        <5>2. calls[d].era = gateway[x].era
          BY <2>4, <2>5, <4>1, <4>3, <5>1 DEF era
        <5> QED BY <4>1, <4>3, <5>1, <5>2 DEF Creating
      <4>4. CASE x # a
        <5>1. HasConfig(x) /\ gateway'[x] = gateway[x]
          BY <2>5, <2>6, <4>4 DEF Creating
        <5> QED BY <4>1, <5>1 DEF Creating
      <4> QED BY <4>3, <4>4
    <3>2. SignersMove
      BY <1>1, <3>1 DEF SignersMove, Active
    <3> QED BY <1>1, <3>2, SignersKept DEF GatewayInv
  <2> QED BY <2>2, <2>12, <2>13, <2>14, <2>15, <2>16, <2>17 DEF GatewayInv
<1> QED BY <1>2, <1>3

-----------------------------------------------------------------------------
(* Steps of the recheck. *)

\* A step of the recheck leaves the requests alone.
LEMMA RecheckInv ==
  ASSUME GatewayInv, IndexerInv', Quiet, ReadinessMoves, RequestsMove,
         gateway' \in [Agents -> Configs \cup {NoConfig}], recheck' \in Rechecks,
         proven' \subseteq Agents,
         UNCHANGED <<signers, calls, answers, crowded>>
  PROVE  GatewayInv'
<1>1. GatewayTypeOK /\ IndexerTypeOK'
  BY DEF GatewayInv, IndexerInv
<1>2. GatewayTypeOK'
  BY <1>1 DEF GatewayTypeOK, Quiet
<1>3. SignersBounded'
  <2>1. SignersMove
    BY CreatingKept DEF SignersMove, Active
  <2> QED BY <1>1, <2>1, SignersKept DEF GatewayInv
<1> QED BY <1>2, <1>3, QuietInv

LEMMA NoRecheckTyped ==
  /\ NoRecheck \in Rechecks /\ NoRecheck.batch = {} /\ NoRecheck.got = {}
BY DEF NoRecheck, Rechecks

\* The recheck ends, or is stopped.
LEMMA RecheckEnds ==
  ASSUME GatewayInv, UNCHANGED <<indexVars, gateway, signers, calls, answers, history>>,
         events' \in 0 .. MaxEvents, events <= events', recheck' = NoRecheck
  PROVE  GatewayInv'
<1>1. Untouched /\ GatewayTypeOK /\ UNCHANGED <<proven, crowded>>
  BY DEF Untouched, history, GatewayInv, GatewayTypeOK
<1>2. Quiet /\ IndexerInv' /\ ReadinessMoves
  BY <1>1, UntouchedQuiet
<1>3. RequestsMove
  BY NoRecheckTyped DEF RequestsMove
<1> QED BY <1>1, <1>2, <1>3, RecheckInv, NoRecheckTyped DEF GatewayTypeOK

LEMMA EndRecheckInv ==
  ASSUME GatewayInv, EndRecheck
  PROVE  GatewayInv'
<1>1. events \in 0 .. MaxEvents
  BY DEF GatewayInv, GatewayTypeOK, IndexerTypeOK
<1> QED BY <1>1, RecheckEnds DEF EndRecheck, indexerVars, indexVars

LEMMA RecheckStopsInv ==
  ASSUME GatewayInv, RecheckStops
  PROVE  GatewayInv'
<1>1. events' \in 0 .. MaxEvents /\ events <= events'
  BY EventTyped DEF RecheckStops
<1> QED BY <1>1, RecheckEnds DEF RecheckStops

\* What a list of the recheck has just read.
LEMMA SeenNow ==
  ASSUME GatewayInv, NEW a \in Agents, HasConfig(a)
  PROVE  Seen(a) \in Seens /\ SeenSound(Seen(a))
<1>1. /\ Seen(a).agent = a /\ Seen(a).era = gateway[a].era
      /\ Seen(a).endpoint = gateway[a].endpoint /\ Seen(a).status = gateway[a].status
  BY DEF Seen
<1>2. gateway[a].era <= events
  BY DEF GatewayInv, Eras
<1>3. SeenSound(Seen(a))
  BY <1>1, <1>2 DEF SeenSound, Dated, GatewayInv, ReadyMeansProven, Ready
<1> QED BY <1>3, SeenTyped DEF GatewayInv

LEMMA ListedTyped ==
  ASSUME GatewayInv, NEW status \in Statuses, NEW column, NEW batch \in FirstOf(status, column)
  PROVE  /\ batch \subseteq Agents
         /\ \A a \in batch : HasConfig(a) /\ Seen(a) \in Seens /\ SeenSound(Seen(a))
<1>1. batch \subseteq {a \in Agents : gateway[a].status = status}
  BY DEF FirstOf
<1>2. ASSUME NEW a \in batch
      PROVE  HasConfig(a)
  BY <1>1, StatusTyped DEF HasConfig, GatewayInv, GatewayTypeOK
<1> QED BY <1>1, <1>2, SeenNow

LEMMA ListDegradedInv ==
  ASSUME GatewayInv, ListDegraded
  PROVE  GatewayInv'
<1>1. PICK batch \in FirstOf("DEGRADED", "checked") :
        recheck' = [recheck EXCEPT !.step = "degraded", !.batch = {Seen(a) : a \in batch}]
  BY DEF ListDegraded
<1>2. UNCHANGED <<indexerVars, gateway, signers, calls, answers, history>>
  BY DEF ListDegraded
<1>3. \A a \in batch : Seen(a) \in Seens /\ SeenSound(Seen(a))
  BY ListedTyped DEF Statuses
<1> DEFINE seens == {Seen(a) : a \in batch}
<1>4. seens \in SUBSET Seens /\ \A seen \in seens : SeenSound(seen)
  BY <1>3
<1> HIDE DEF seens
<1>5. Untouched /\ GatewayTypeOK
  BY <1>2 DEF Untouched, indexerVars, indexVars, history, GatewayInv, GatewayTypeOK, IndexerTypeOK
<1>6. Quiet /\ IndexerInv' /\ ReadinessMoves
  BY <1>5, UntouchedQuiet
<1>7. recheck' \in Rechecks /\ recheck'.batch = seens /\ recheck'.got = recheck.got
  BY <1>1, <1>4, <1>5 DEF GatewayTypeOK, Rechecks, seens
<1>8. RequestsMove
  <2>1. \A seen \in seens : SeenSound(seen)'
    BY <1>4, <1>6, QuietSeen
  <2> QED BY <1>2, <1>7, <2>1 DEF RequestsMove
<1> QED BY <1>2, <1>5, <1>6, <1>7, <1>8, RecheckInv DEF GatewayTypeOK, history

LEMMA RecheckFetchInv ==
  ASSUME GatewayInv, RecheckFetch
  PROVE  GatewayInv'
<1>1. PICK seen \in recheck.batch :
        /\ recheck' = [recheck EXCEPT !.batch = @ \ {seen}, !.got = {Answer(seen)}]
        /\ proven' = Proves(Answer(seen))
  BY DEF RecheckFetch
<1>2. UNCHANGED <<indexerVars, gateway, signers, calls, answers, overtook, crowded>>
  BY DEF RecheckFetch
<1> DEFINE got == Answer(seen)
<1>3. /\ GatewayTypeOK /\ seen \in Seens /\ SeenSound(seen) /\ recheck \in Rechecks
      /\ recheck.batch \in SUBSET Seens
  BY DEF GatewayInv, GatewayTypeOK, RecheckSound, Rechecks
<1>4. got \in AnswersSeen /\ {got} \in SUBSET AnswersSeen
  BY <1>3, AnswerTyped
<1>5. /\ recheck' \in Rechecks /\ recheck'.batch = recheck.batch \ {seen} /\ recheck'.got = {got}
  <2> HIDE DEF got
  <2> DEFINE batch == recheck.batch \ {seen}
             gots == {got}
  <2>1. recheck' = [recheck EXCEPT !.batch = batch, !.got = gots]
    BY <1>1 DEF got
  <2>2. batch \in SUBSET Seens /\ gots \in SUBSET AnswersSeen
    BY <1>3, <1>4
  <2> HIDE DEF batch, gots
  <2>3. recheck' \in Rechecks /\ recheck'.batch = batch /\ recheck'.got = gots
    BY <1>3, <2>1, <2>2 DEF Rechecks
  <2> QED BY <2>3 DEF batch, gots
<1>6. Untouched
  <2>1. UNCHANGED indexVars /\ events' = events
    BY <1>2 DEF indexerVars, indexVars
  <2> QED BY <1>1, <1>2, <1>3, <1>4, <2>1, ProvesTyped DEF Untouched, GatewayTypeOK, IndexerTypeOK
<1>7. Quiet /\ IndexerInv' /\ ReadinessMoves
  BY <1>6, UntouchedQuiet
<1>8. RequestsMove
  <2>1. \A other \in AnswersSeen : other = got => GotSound(other)'
    BY <1>1, <1>3, <1>7, AnswerSound
  <2> HIDE DEF got
  <2>2. \A other \in recheck'.got : GotSound(other)'
    BY <1>4, <1>5, <2>1
  <2> QED BY <1>2, <1>5, <2>2 DEF RequestsMove
<1> QED BY <1>2, <1>3, <1>5, <1>6, <1>7, <1>8, RecheckInv DEF GatewayTypeOK, Untouched

LEMMA RecheckPersistInv ==
  ASSUME GatewayInv, RecheckPersist
  PROVE  GatewayInv'
<1>1. PICK got \in recheck.got :
        /\ gateway' = Persisted(got)
        /\ recheck' = IF Present(got.seen) THEN [recheck EXCEPT !.got = {}] ELSE NoRecheck
  BY DEF RecheckPersist
<1>2. UNCHANGED <<indexerVars, signers, calls, answers, history>>
  BY DEF RecheckPersist
<1>3. GatewayTypeOK /\ got \in AnswersSeen /\ GotSound(got) /\ recheck \in Rechecks
  BY DEF GatewayInv, GatewayTypeOK, RecheckSound, Rechecks
<1>4. /\ Quiet /\ ReadinessMoves /\ IndexerInv'
      /\ gateway' \in [Agents -> Configs \cup {NoConfig}]
  BY <1>1, <1>2, <1>3, OutcomeMoves
<1>5. recheck' \in Rechecks /\ recheck'.batch \subseteq recheck.batch /\ recheck'.got = {}
  <2>1. CASE Present(got.seen)
    BY <1>1, <1>3, <2>1 DEF Rechecks
  <2>2. CASE ~Present(got.seen)
    BY <1>1, <2>2, NoRecheckTyped
  <2> QED BY <2>1, <2>2
<1>6. RequestsMove
  BY <1>2, <1>5 DEF RequestsMove
<1> QED BY <1>2, <1>3, <1>4, <1>5, <1>6, RecheckInv DEF GatewayTypeOK, history

LEMMA SweepInv ==
  ASSUME GatewayInv, Sweep
  PROVE  GatewayInv'
<1>1. PICK swept \in SUBSET {a \in Agents : gateway[a].status = "LIVE"} :
        gateway' = [a \in Agents |->
          IF a \in swept THEN [gateway[a] EXCEPT !.status = "DEGRADED"] ELSE gateway[a]]
  BY DEF Sweep
<1>2. /\ recheck' = [recheck EXCEPT !.step = "live", !.stale = 0]
      /\ UNCHANGED <<indexerVars, signers, calls, answers, history>>
  BY DEF Sweep
<1>3. /\ GatewayTypeOK /\ gateway \in [Agents -> Configs \cup {NoConfig}]
      /\ events \in 0 .. MaxEvents /\ recheck \in Rechecks
  BY DEF GatewayInv, GatewayTypeOK, IndexerTypeOK
<1>4. recheck' \in Rechecks /\ recheck'.batch = recheck.batch /\ recheck'.got = recheck.got
  BY <1>2, <1>3 DEF Rechecks
<1>5. ASSUME NEW a \in Agents
      PROVE  /\ gateway'[a] \in Configs \cup {NoConfig}
             /\ gateway'[a] # NoConfig <=> gateway[a] # NoConfig
             /\ gateway[a] # NoConfig => /\ gateway'[a].era = gateway[a].era
                                         /\ gateway'[a].endpoint = gateway[a].endpoint
             /\ gateway'[a].status \in Ready => gateway[a].status \in Ready
  <2>1. CASE a \notin swept
    BY <1>1, <1>3, <2>1
  <2>2. CASE a \in swept
    <3> DEFINE config == [gateway[a] EXCEPT !.status = "DEGRADED"]
    <3>1. gateway[a].status = "LIVE" /\ gateway[a] # NoConfig
      BY <1>1, <1>3, <2>2, StatusTyped DEF Statuses
    <3>2. gateway[a] \in Configs
      BY <1>3, <3>1
    <3>3. /\ config \in Configs /\ config.era = gateway[a].era /\ config.status = "DEGRADED"
          /\ config.endpoint = gateway[a].endpoint
      BY <3>2 DEF Configs, Statuses
    <3>4. config # NoConfig
      BY <3>3, StatusTyped DEF Statuses
    <3>5. gateway'[a] = config
      BY <1>1, <2>2
    <3> HIDE DEF config
    <3> QED BY <3>1, <3>3, <3>4, <3>5 DEF Ready
  <2> QED BY <2>1, <2>2
<1>6. gateway' \in [Agents -> Configs \cup {NoConfig}]
  <2>1. gateway' = [a \in Agents |-> gateway'[a]]
    BY <1>1
  <2> QED BY <1>5, <2>1
<1>7. UNCHANGED indexVars /\ events' = events /\ proven' = proven /\ overtook' = overtook /\ crowded' = crowded
  BY <1>2 DEF indexerVars, indexVars, history
<1>8. Quiet
  BY <1>3, <1>5, <1>7 DEF Quiet, HasConfig, NoConfig
<1>9. ReadinessMoves /\ IndexerInv'
  BY <1>3, <1>5, <1>7, IndexStaysInv DEF ReadinessMoves, GatewayInv
<1>10. RequestsMove
  BY <1>2, <1>4 DEF RequestsMove
<1> QED BY <1>2, <1>3, <1>4, <1>6, <1>7, <1>8, <1>9, <1>10, RecheckInv DEF GatewayTypeOK

\* The first call reads the LIVE configs, and everything is an interval older.
LEMMA ListLiveInv ==
  ASSUME GatewayInv, ListLive
  PROVE  GatewayInv'
<1> DEFINE live == {a \in Agents : gateway[a].status = "LIVE"}
           stale == StaleAfter(Cardinality(live))
           aged(config) == [config EXCEPT !.passed = Older(@), !.checked = Older(@)]
<1>1. PICK batch \in FirstOf("LIVE", "passed") :
        recheck' = [step |-> "sweep", batch |-> {Seen(a) : a \in batch}, stale |-> stale, got |-> {}]
  BY DEF ListLive
<1>2. /\ gateway' = [a \in Agents |-> IF HasConfig(a) THEN aged(gateway[a]) ELSE NoConfig]
      /\ calls' = [c \in Callers |->
           IF calls[c].step = "persist" THEN [calls[c] EXCEPT !.got.age = Older(@)] ELSE calls[c]]
      /\ UNCHANGED <<indexerVars, signers, answers, history>>
  BY DEF ListLive
<1>3. /\ GatewayTypeOK /\ gateway \in [Agents -> Configs \cup {NoConfig}]
      /\ events \in 0 .. MaxEvents /\ calls \in [Callers -> Calls]
  BY DEF GatewayInv, GatewayTypeOK, IndexerTypeOK
<1>4. ASSUME NEW a \in Agents
      PROVE  /\ gateway'[a] \in Configs \cup {NoConfig}
             /\ gateway'[a] # NoConfig <=> gateway[a] # NoConfig
             /\ gateway[a] # NoConfig => /\ gateway'[a].era = gateway[a].era
                                         /\ gateway'[a].endpoint = gateway[a].endpoint
             /\ gateway'[a].status \in Ready => gateway[a].status \in Ready
  <2>1. CASE ~HasConfig(a)
    BY <1>2, <1>3, <2>1 DEF HasConfig
  <2>2. CASE HasConfig(a)
    <3> DEFINE config == aged(gateway[a])
    <3>1. gateway[a] \in Configs /\ gateway[a].passed \in Ages /\ gateway[a].checked \in Ages
      BY <1>3, <2>2, ConfigTyped DEF HasConfig
    <3>2. Older(gateway[a].passed) \in Ages /\ Older(gateway[a].checked) \in Ages
      BY <3>1, AgesTyped
    <3>3. /\ config \in Configs /\ config.era = gateway[a].era /\ config.status = gateway[a].status
          /\ config.endpoint = gateway[a].endpoint
      BY <3>1, <3>2 DEF Configs
    <3>4. config # NoConfig
      BY <3>1, <3>3, StatusTyped DEF Configs
    <3>5. gateway'[a] = config
      BY <1>2, <2>2
    <3> HIDE DEF config
    <3> QED BY <2>2, <3>3, <3>4, <3>5 DEF HasConfig
  <2> QED BY <2>1, <2>2
<1>5. gateway' \in [Agents -> Configs \cup {NoConfig}]
  <2>1. gateway' = [a \in Agents |-> gateway'[a]]
    BY <1>2
  <2> QED BY <1>4, <2>1
<1>6. UNCHANGED indexVars /\ events' = events /\ proven' = proven /\ overtook' = overtook /\ crowded' = crowded
  BY <1>2 DEF indexerVars, indexVars, history
<1>7. Quiet
  BY <1>3, <1>4, <1>6 DEF Quiet, HasConfig, NoConfig
<1>8. ReadinessMoves /\ IndexerInv' /\ IndexerTypeOK'
  BY <1>3, <1>4, <1>6, IndexStaysInv DEF ReadinessMoves, GatewayInv, IndexerInv
<1>9. ASSUME NEW c \in Callers
      PROVE  /\ calls'[c] \in Calls
             /\ calls'[c].step = "create" => calls'[c] = calls[c]
             /\ \A call \in Calls : call = calls'[c] => call = calls[c] \/ CallSound(call)'
  <2>1. CASE calls[c].step # "persist"
    BY <1>2, <1>3, <2>1
  <2>2. CASE calls[c].step = "persist"
    <3> DEFINE got == [calls[c].got EXCEPT !.age = Older(@)]
    <3>1. /\ calls[c] \in Calls /\ calls[c].agent \in Agents /\ calls[c].got \in AnswersSeen
          /\ calls[c].got.age \in Ages /\ CallSound(calls[c])
      BY <1>3, <2>2, CallTyped DEF GatewayInv, CallsSound, AnswersSeen
    <3>2. Older(calls[c].got.age) \in Ages
      BY <3>1, AgesTyped
    <3>3. got \in AnswersSeen /\ got.seen = calls[c].got.seen /\ (got.passed <=> calls[c].got.passed)
      BY <3>1, <3>2 DEF AnswersSeen
    <3>4. calls'[c] = [calls[c] EXCEPT !.got = got]
      BY <1>2, <2>2
    <3> HIDE DEF got
    <3>5. calls[c] \in [step : {"persist"}, agent : Agents, got : AnswersSeen]
      BY <2>2, <3>1 DEF Calls, NoCall
    <3>6. /\ calls'[c] \in [step : {"persist"}, agent : Agents, got : AnswersSeen]
          /\ calls'[c].step = "persist" /\ calls'[c].agent = calls[c].agent /\ calls'[c].got = got
      BY <3>3, <3>4, <3>5
    <3>7. calls'[c] \in Calls
      BY <3>6 DEF Calls
    <3>8. ASSUME NEW call \in Calls, call = calls'[c]
          PROVE  CallSound(call)'
      <4>1. call.step = "persist" /\ call.agent = calls[c].agent /\ call.got = got
        BY <3>6, <3>8
      <4>2. GotSound(calls[c].got) /\ calls[c].got.seen.agent = calls[c].agent
        BY <2>2, <3>1 DEF CallSound
      <4>3. CallSound(call)
        BY <3>3, <4>1, <4>2 DEF CallSound, GotSound
      <4> QED BY <1>7, <4>3, QuietCall
    <3> QED BY <3>6, <3>7, <3>8
  <2> QED BY <2>1, <2>2
<1>10. calls' \in [Callers -> Calls]
  <2>1. calls' = [c \in Callers |-> calls'[c]]
    BY <1>2
  <2> QED BY <1>9, <2>1
<1> DEFINE seens == {Seen(a) : a \in batch}
<1>11. seens \in SUBSET Seens /\ \A seen \in seens : SeenSound(seen)
  BY ListedTyped DEF Statuses
<1>12. stale \in Nat
  <2>1. live \in SUBSET Agents
    OBVIOUS
  <2> HIDE DEF live
  <2>2. Cardinality(live) \in Nat
    BY <2>1, GatewayAssumption, FS_Subset, FS_CardinalityType
  <2> QED BY <2>2, StaleTyped
<1> HIDE DEF seens, stale
<1>13. recheck' \in Rechecks /\ recheck'.batch = seens /\ recheck'.got = {}
  BY <1>1, <1>11, <1>12 DEF Rechecks, seens
<1>14. GatewayTypeOK'
  BY <1>2, <1>3, <1>5, <1>6, <1>8, <1>10, <1>13 DEF GatewayTypeOK
<1>15. RequestsMove
  <2>1. \A seen \in seens : SeenSound(seen)'
    BY <1>7, <1>11, QuietSeen
  <2> QED BY <1>9, <1>13, <2>1 DEF RequestsMove
<1>16. SignersBounded'
  <2>1. \A c \in Callers : calls'[c] = calls[c] \/ calls'[c].step # "create"
    BY <1>9
  <2>2. SignersMove
    BY <1>2, <1>6, <1>7, <2>1, CreatingKept DEF SignersMove, Active
  <2> QED BY <1>3, <2>2, SignersKept DEF GatewayInv
<1> QED BY <1>7, <1>8, <1>14, <1>15, <1>16, QuietInv

-----------------------------------------------------------------------------
(* The reset, and the theorems. *)

\* Whatever was read before the reset is older than any config after it.
LEMMA ResetGatewayInv ==
  ASSUME GatewayInv, Reset
  PROVE  GatewayInv'
<1>1. /\ ResetRows /\ gateway' = [a \in Agents |-> NoConfig] /\ signers' = [a \in Agents |-> <<>>]
      /\ UNCHANGED <<calls, recheck, answers, history>>
  BY DEF Reset
<1>2. /\ GatewayTypeOK /\ IndexerInv' /\ IndexerTypeOK'
      /\ events \in Nat /\ events' \in Nat /\ events < events'
  BY <1>1, ResetInv, EventTyped DEF ResetRows, GatewayInv, IndexerInv, IndexerTypeOK, GatewayTypeOK
<1>3. \A a \in Agents : ~HasConfig(a)' /\ gateway'[a].status = "none"
  BY <1>1 DEF HasConfig, NoConfig
<1>4. GatewayTypeOK'
  <2>1. signers' \in [Agents -> Seq(SignerRows)]
    BY <1>1
  <2> QED BY <1>1, <1>2, <2>1 DEF GatewayTypeOK, history
<1>5. ASSUME NEW a \in Agents, NEW n \in Nat, n <= events
      PROVE  Dated(a, n)'
  BY <1>2, <1>5 DEF Dated
<1>6. ASSUME NEW seen \in Seens, SeenSound(seen)
      PROVE  SeenSound(seen)'
  <2>1. seen.agent \in Agents /\ seen.era \in Nat
    BY DEF Seens
  <2>2. Dated(seen.agent, seen.era)' /\ ~Present(seen)'
    BY <1>3, <1>5, <1>6, <2>1 DEF SeenSound, Dated, Present
  <2> QED BY <2>2 DEF SeenSound
<1>7. ASSUME NEW got \in AnswersSeen, GotSound(got)
      PROVE  GotSound(got)'
  <2>1. got.seen \in Seens /\ got.seen.agent \in Agents
    BY DEF AnswersSeen, Seens
  <2>2. SeenSound(got.seen)' /\ ~Present(got.seen)'
    BY <1>3, <1>6, <1>7, <2>1 DEF GotSound, Present
  <2> QED BY <2>2 DEF GotSound
<1>8. CallsSound'
  <2> SUFFICES ASSUME NEW c \in Callers, NEW call \in Calls, call = calls'[c]
               PROVE  CallSound(call)'
    BY <1>1, <1>2, CallsSoundNow DEF GatewayTypeOK
  <2>1. CallSound(call)
    BY <1>1 DEF GatewayInv, CallsSound
  <2>2. call.step = "fetch" => SeenSound(call.seen)'
    BY <1>6, <2>1, CallTyped DEF CallSound
  <2>3. call.step = "persist" => GotSound(call.got)'
    BY <1>7, <2>1, CallTyped DEF CallSound
  <2>4. call.step = "create" => Dated(call.agent, call.era)'
    BY <1>5, <2>1, CallTyped DEF CallSound, Dated
  <2> QED BY <2>1, <2>2, <2>3, <2>4 DEF CallSound
<1>9. RecheckSound'
  <2>1. recheck' = recheck /\ recheck.batch \subseteq Seens /\ recheck.got \subseteq AnswersSeen
    BY <1>1, <1>2 DEF GatewayTypeOK, Rechecks
  <2> QED BY <1>6, <1>7, <2>1 DEF GatewayInv, RecheckSound
<1>10. Eras' /\ ReadyMeansProven'
  BY <1>3 DEF Eras, ReadyMeansProven
<1>11. SignersBounded'
  <2>1. \A a \in Agents : Active(a)' = {} /\ Creating(a)' = {}
    BY <1>1, <1>3 DEF Active, Creating
  <2>2. SignersMove
    BY <1>1, <2>1 DEF SignersMove, history
  <2> QED BY <1>2, <2>2, SignersKept DEF GatewayInv
<1> QED BY <1>2, <1>4, <1>8, <1>9, <1>10, <1>11 DEF GatewayInv

\* A step of the indexer, which knows nothing of the gateways.
LEMMA IndexerGatewayInv ==
  ASSUME GatewayInv, IndexerStep, UNCHANGED gatewayVars
  PROVE  GatewayInv'
<1>1. /\ UNCHANGED <<gateway, signers, calls, recheck, answers, proven, overtook, crowded>>
      /\ GatewayTypeOK /\ IndexerInv'
  BY IndexerStepInv DEF gatewayVars, history, GatewayInv
<1>2. events \in 0 .. MaxEvents /\ events <= events' /\ events' \in 0 .. MaxEvents /\ IndexerTypeOK'
  <2>1. events' = events \/ Event
    BY DEF IndexerStep, Mine, Start, FetchLogs, FetchOldLogs, Advance, Stop, Resolve, Misread, Upsert
  <2>2. events \in 0 .. MaxEvents /\ IndexerTypeOK'
    BY <1>1 DEF IndexerInv, GatewayTypeOK, IndexerTypeOK
  <2> QED BY <2>1, <2>2, EventTyped
<1>3. Quiet
  BY <1>1, <1>2 DEF Quiet, HasConfig, NoConfig
<1>4. ReadinessMoves
  BY <1>1 DEF ReadinessMoves
<1>5. RequestsMove
  BY <1>1 DEF RequestsMove
<1> QED BY <1>1, <1>3, <1>4, <1>5, RecheckInv DEF GatewayTypeOK

LEMMA InitInv ==
  ASSUME Init
  PROVE  GatewayInv
<1>1. IndexerInv /\ IndexerTypeOK
  BY IndexerInitInv DEF Init, IndexerInv
<1>2. PICK live \in SUBSET Agents :
        /\ gateway = [a \in Agents |->
             IF a \in live
             THEN [Configured(row[a].owner, Home[a], 0) EXCEPT !.status = "LIVE", !.passed = 0, !.checked = 0]
             ELSE Configured(row[a].owner, Home[a], 0)]
        /\ proven = live
  BY DEF Init
<1>3. /\ signers = [a \in Agents |-> <<>>] /\ calls = [c \in Callers |-> NoCall]
      /\ recheck = NoRecheck /\ answers = [e \in Endpoints |-> TRUE] /\ overtook = {} /\ crowded = {}
  BY DEF Init
<1>4. ASSUME NEW a \in Agents
      PROVE  /\ gateway[a] \in Configs /\ gateway[a].era = 0
             /\ gateway[a].status \in Ready => a \in proven
  <2> DEFINE config == Configured(row[a].owner, Home[a], 0)
  <2>1. row[a].owner \in Owners /\ Home[a] \in Endpoints
    BY GatewayAssumption DEF Init, IndexerInit
  <2>2. config \in Configs /\ config.era = 0 /\ config.status = "CONFIGURED"
    BY <2>1, AgesTyped DEF Configured, Configs, Statuses
  <2> HIDE DEF config
  <2> DEFINE served == [config EXCEPT !.status = "LIVE", !.passed = 0, !.checked = 0]
  <2>3. served \in Configs /\ served.era = 0
    BY <2>2, AgesTyped DEF Configs, Statuses
  <2>4. gateway[a] = IF a \in live THEN served ELSE config
    BY <1>2 DEF config
  <2> HIDE DEF served
  <2> QED BY <1>2, <2>2, <2>3, <2>4 DEF Ready
<1>5. gateway \in [Agents -> Configs \cup {NoConfig}]
  <2>1. gateway = [a \in Agents |-> gateway[a]]
    BY <1>2
  <2> QED BY <1>4, <2>1
<1>6. GatewayTypeOK
  <2>1. signers \in [Agents -> Seq(SignerRows)] /\ calls \in [Callers -> Calls]
    BY <1>3, CallsTyped
  <2> QED BY <1>1, <1>2, <1>3, <1>5, <2>1, NoRecheckTyped DEF GatewayTypeOK
<1>7. CallsSound /\ RecheckSound
  BY <1>3, NoRecheckTyped DEF CallsSound, CallSound, RecheckSound, NoCall
<1>8. Eras /\ ReadyMeansProven
  BY <1>1, <1>4 DEF Eras, ReadyMeansProven, Ready, IndexerTypeOK
<1>9. SignersBounded
  <2> SUFFICES ASSUME NEW a \in Agents
               PROVE  Active(a) = {} /\ Creating(a) = {}
    <3>1. Cardinality({}) = 0 /\ MaxActive \in Nat \ {0}
      BY FS_EmptySet, GatewayAssumption
    <3>2. Cardinality(Callers) \in Nat
      BY GatewayAssumption, FS_CardinalityType
    <3>3. \A a \in Agents : Cardinality(Active(a)) = 0 /\ Cardinality(Creating(a)) = 0
      BY <3>1
    <3> QED BY <3>1, <3>2, <3>3 DEF SignersBounded
  <2> QED BY <1>3 DEF Active, Creating, NoCall
<1> QED BY <1>1, <1>6, <1>7, <1>8, <1>9 DEF GatewayInv

LEMMA CallStepInv ==
  ASSUME GatewayInv, NEW c \in Callers, CallStep(c)
  PROVE  GatewayInv'
<1>1. ASSUME NEW a \in Busy, NEW o \in Owners,
             \/ \E e \in Endpoints : SaveRead(c, a, o, e)
             \/ VerifyRead(c, a, o)
             \/ \E s \in Signers : RegisterCheck(c, a, o, s)
             \/ RevokeRead(c, a, o)
      PROVE  GatewayInv'
  BY <1>1, SaveReadInv, VerifyReadInv, RegisterCheckInv, RevokeReadInv
<1>2. CASE \/ SaveWrite(c) \/ VerifyFetch(c) \/ VerifyPersist(c) \/ RegisterCreate(c) \/ RevokeWrite(c)
  BY <1>2, SaveWriteInv, VerifyFetchInv, VerifyPersistInv, RegisterCreateInv, RevokeWriteInv
<1> QED BY <1>1, <1>2 DEF CallStep

LEMMA NextInv ==
  ASSUME GatewayInv, [Next]_vars
  PROVE  GatewayInv'
<1>1. CASE IndexerStep /\ UNCHANGED gatewayVars
  BY <1>1, IndexerGatewayInv
<1>2. CASE \E c \in Callers : CallStep(c)
  BY <1>2, CallStepInv
<1>3. CASE RecheckStep
  BY <1>3, ListLiveInv, SweepInv, RecheckFetchInv, RecheckPersistInv, ListDegradedInv, EndRecheckInv
     DEF RecheckStep
<1>4. CASE RecheckStops
  BY <1>4, RecheckStopsInv
<1>5. CASE Reset
  BY <1>5, ResetGatewayInv
<1>6. CASE Turn
  BY <1>6, TurnInv
<1>7. CASE UNCHANGED vars
  <2>1. UNCHANGED <<indexVars, events>> /\ UNCHANGED <<gateway, signers, calls, recheck, answers, proven, overtook, crowded>>
    BY <1>7 DEF vars, indexerVars, indexVars, gatewayVars, history
  <2>2. Untouched
    BY <2>1 DEF Untouched, GatewayInv, GatewayTypeOK, IndexerTypeOK
  <2>3. Quiet /\ IndexerInv' /\ ReadinessMoves
    BY <2>2, UntouchedQuiet
  <2>4. RequestsMove
    BY <2>1 DEF RequestsMove
  <2> QED BY <2>1, <2>3, <2>4, RecheckInv DEF GatewayInv, GatewayTypeOK
<1> QED BY <1>1, <1>2, <1>3, <1>4, <1>5, <1>6, <1>7 DEF Next

\* The inductive invariant of the indexer and the gateway together.
THEOREM GatewayInvariant == Spec => []GatewayInv
<1>1. Init => GatewayInv
  BY InitInv
<1>2. GatewayInv /\ [Next]_vars => GatewayInv'
  BY NextInv
<1> QED BY <1>1, <1>2, PTL DEF Spec

\* Types: rows, configs, signers and requests stay what the schema says
\* (prisma/schema.prisma:365-490).
THEOREM GatewayTypeCorrect == Spec => []GatewayTypeOK
<1>1. GatewayInv => GatewayTypeOK
  BY DEF GatewayInv
<1> QED BY <1>1, GatewayInvariant, PTL

\* Every transfer up to the cursor has reached its agent's row, whatever the
\* chunk size, the lag of the nodes and the order of crashes, guesses and
\* resets (scripts/index-db.ts:1198-1296).
THEOREM IndexedOwners == Spec => []OwnerIsIndexed
<1>1. GatewayInv => OwnerIsIndexed
  BY DEF GatewayInv, IndexerInv
<1> QED BY <1>1, GatewayInvariant, PTL

\* A gateway is LIVE or DEGRADED only when the endpoint it names has answered
\* since it was saved, or a canary was under way when it was saved
\* (lib/agent-gateway-canary.ts:333-411).
THEOREM ReadyProven == Spec => []ReadyMeansProven
<1>1. GatewayInv => ReadyMeansProven
  BY DEF GatewayInv
<1> QED BY <1>1, GatewayInvariant, PTL

\* The cap on active signers holds unless two registrations counted together,
\* and is then exceeded by fewer than there are requests at a time
\* (delegated-signers/register/route.ts:194-213).
THEOREM SignerCap == Spec => []SignersBounded
<1>1. GatewayInv => SignersBounded
  BY DEF GatewayInv
<1> QED BY <1>1, GatewayInvariant, PTL

=============================================================================
