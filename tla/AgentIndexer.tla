---------------------------- MODULE AgentIndexer ----------------------------
(***************************************************************************)
(* The agent indexer in its production mode (scripts/index-db.ts, erc8004):*)
(* an hourly job that follows the Transfer events of the identity registry *)
(* and keeps one row per token, with the owner every merchant route asks   *)
(* for.                                                                    *)
(*                                                                         *)
(* The chain is external: log[b] is who owns each agent after block b, and *)
(* an agent whose owner is not what it was a block earlier was transferred *)
(* (or, from Nobody, minted) in that block.  Blocks are final; answers of  *)
(* the RPC nodes may be missing or old.  Names, metadata and public ids of *)
(* the rows are left out: no owner depends on them.                        *)
(*                                                                         *)
(* MaxEvents bounds, together, the blocks that are mined, the answers that *)
(* are wrong, the crashes and whatever the extending module counts.        *)
(***************************************************************************)
EXTENDS Naturals, Sequences, FiniteSets

CONSTANTS
  Agents,      \* tokens of the registry, each an agent once indexed
  Owners,      \* addresses that can own one
  FirstOwner,  \* the owner of all of them in the beginning
  Busy,        \* agents that change hands, and whose owners send requests
  Nobody,      \* ZERO_ADDRESS: the owner before the mint, and of a guess
  ChunkSize,   \* AGENT_INDEX_CHUNK_SIZE
  MaxLag,      \* blocks an RPC node may be behind
  MaxEvents

ASSUME IndexerAssumption ==
  /\ Nobody \notin Owners /\ FirstOwner \in Owners /\ Busy \subseteq Agents
  /\ ChunkSize \in Nat /\ MaxLag \in Nat /\ MaxEvents \in Nat

ASSUME NoRowAssumption == "no row" \notin Owners \cup {Nobody}

VARIABLES
  log,      \* the chain
  row,      \* Agent
  cursor,   \* SystemState.lastSyncedBlock, 0 when there is none
  job,      \* the run of the indexer
  unsure,   \* history: agents last written, or passed over, on a wrong answer
  events

indexerVars == <<log, row, cursor, job, unsure, events>>

Rows == [owner : Owners \cup {Nobody}, creator : Owners \cup {Nobody}]
NoRow == [owner |-> "no row", creator |-> "no row"]

Latest == Len(log)

OwnerAt(a, n) == IF n = 0 THEN Nobody ELSE log[n][a]

(* a has a Transfer event in the blocks from..to *)
Moved(a, from, to) == \E b \in from..to : OwnerAt(a, b) # OwnerAt(a, b - 1)

(* the recipient of the mint of a, when the blocks from..to hold it *)
CreatorHint(a, from, to) ==
  LET mints == {b \in from..to : OwnerAt(a, b - 1) = Nobody /\ OwnerAt(a, b) # Nobody}
  IN IF mints = {} THEN Nobody ELSE OwnerAt(a, CHOOSE b \in mints : TRUE)

Jobs == [step : {"idle", "logs", "rows"}, to : Nat, at : Nat, todo : SUBSET Agents,
         found : [Agents -> Rows \cup {NoRow}]]
NoRows == [a \in Agents |-> NoRow]
IdleJob == [step |-> "idle", to |-> 0, at |-> 0, todo |-> {}, found |-> NoRows]

(* A database in service: the first block minted every agent and has been  *)
(* indexed.                                                                *)
IndexerInit ==
  /\ log = <<[a \in Agents |-> FirstOwner]>>
  /\ row = [a \in Agents |-> [owner |-> FirstOwner, creator |-> FirstOwner]]
  /\ cursor = 1
  /\ job = IdleJob
  /\ unsure = {}
  /\ events = 0

Event == events < MaxEvents /\ events' = events + 1

-----------------------------------------------------------------------------
(* The chain. *)

Mine ==
  /\ Event
  /\ \E a \in Busy : \E o \in Owners \ {OwnerAt(a, Latest)} :
       log' = Append(log, [x \in Agents |-> IF x = a THEN o ELSE OwnerAt(x, Latest)])
  /\ UNCHANGED <<row, cursor, job, unsure>>

-----------------------------------------------------------------------------
(* The job: main(), then one chunk after the other. *)

ChunkEnd == IF job.at + ChunkSize <= job.to THEN job.at + ChunkSize ELSE job.to

(* getBlockNumber may come from a node that is behind.  When the cursor is *)
(* already there, it is set to the head that was seen, backwards if need be*)
Start ==
  /\ job.step = "idle"
  /\ \E seen \in {n \in 1..Latest : n + MaxLag >= Latest} :
       IF cursor + 1 > seen
       THEN cursor' = seen /\ UNCHANGED job
       ELSE job' = [IdleJob EXCEPT !.step = "logs", !.to = seen, !.at = cursor + 1]
            /\ UNCHANGED cursor
  /\ UNCHANGED <<log, row, unsure, events>>

(* The node that answers getLogs has the blocks up to known. *)
TakeLogs(known) ==
  /\ job.step = "logs"
  /\ job' = [job EXCEPT !.step = "rows", !.todo = {a \in Agents : Moved(a, job.at, known)}]
  /\ unsure' = unsure \cup {a \in Agents : Moved(a, known + 1, ChunkEnd)}
  /\ UNCHANGED <<log, row, cursor>>

FetchLogs == TakeLogs(ChunkEnd) /\ UNCHANGED events

FetchOldLogs ==
  /\ Event
  /\ \E known \in {n \in 0..ChunkEnd : n < ChunkEnd /\ n + MaxLag >= ChunkEnd} : TakeLogs(known)

Found(a, owner) ==
  [owner   |-> owner,
   creator |-> LET hint == CreatorHint(a, job.at, ChunkEnd) IN
               IF hint = Nobody THEN owner ELSE hint]

Resolving(a) == job.step = "rows" /\ a \in job.todo

(* ownerOf answers for the latest block, not for the one of the event. *)
Resolve(a) ==
  /\ Resolving(a)
  /\ job' = [job EXCEPT !.todo = @ \ {a}, !.found[a] = Found(a, OwnerAt(a, Latest))]
  /\ unsure' = unsure \ {a}
  /\ UNCHANGED <<log, row, cursor, events>>

(* ownerOf fails or is too slow: the creator hint, or else ZERO_ADDRESS, is*)
(* written in its place.  Or its node has not seen the chunk yet.          *)
Guesses(a) ==
  {CreatorHint(a, job.at, ChunkEnd)}
    \cup ({OwnerAt(a, n) : n \in {n \in 0..ChunkEnd : n < ChunkEnd /\ n + MaxLag >= ChunkEnd}}
            \ {Nobody})

Misread(a) ==
  /\ Event
  /\ Resolving(a)
  /\ \E guess \in Guesses(a) : job' = [job EXCEPT !.todo = @ \ {a}, !.found[a] = Found(a, guess)]
  /\ unsure' = unsure \cup {a}
  /\ UNCHANGED <<log, row, cursor>>

ChunkResolved == job.step = "rows" /\ job.todo = {}

(* upsertAgents: row by row, not in a transaction. *)
Upsert(a) ==
  /\ ChunkResolved
  /\ job.found[a] # NoRow
  /\ row' = [row EXCEPT ![a] = job.found[a]]
  /\ job' = [job EXCEPT !.found[a] = NoRow]
  /\ UNCHANGED <<log, cursor, unsure, events>>

(* Mutant: the cursor is persisted before the rows. *)
ChunkFetched == ChunkResolved

ChunkWritten == ChunkResolved /\ job.found = NoRows

(* persistCursor, and on to the next chunk. *)
Advance ==
  /\ ChunkWritten
  /\ cursor' = ChunkEnd
  /\ job' = IF ChunkEnd < job.to
            THEN [job EXCEPT !.step = "logs", !.at = ChunkEnd + 1]
            ELSE IdleJob
  /\ UNCHANGED <<log, row, unsure, events>>

(* The watchdog, the job's time limit, or a chunk that cannot be fetched.  *)
Stop ==
  /\ Event
  /\ job.step # "idle"
  /\ job' = IdleJob
  /\ UNCHANGED <<log, row, cursor, unsure>>

(* --reset-indexer: every row goes, and the cursor with them. *)
ResetRows ==
  /\ Event
  /\ job.step = "idle"
  /\ row' = NoRows
  /\ cursor' = 0
  /\ UNCHANGED <<log, job, unsure>>

IndexerStep ==
  \/ Mine \/ Start \/ FetchLogs \/ FetchOldLogs \/ Advance \/ Stop
  \/ \E a \in Agents : Resolve(a) \/ Misread(a) \/ Upsert(a)

-----------------------------------------------------------------------------
(* Properties *)

IndexerTypeOK ==
  /\ log \in Seq([Agents -> Owners \cup {Nobody}]) /\ Latest > 0
  /\ row \in [Agents -> Rows \cup {NoRow}]
  /\ cursor \in Nat
  /\ job \in Jobs
  /\ unsure \subseteq Agents
  /\ events \in 0..MaxEvents

(* Every transfer up to the cursor has reached its agent's row: an agent   *)
(* that was not transferred since is owned on the registry by whom its row *)
(* names, through chunks, crashes between rows and cursor, resets, nodes   *)
(* that are behind and owners read later than the event they belong to.    *)
(* Only a guess written for a failed ownerOf, or an answer that was older  *)
(* than its chunk, leaves a wrong owner behind the cursor                  *)
(* (scripts/index-db.ts:1198-1296).                                        *)
OwnerIsIndexed ==
  \A a \in Agents \ unsure :
    OwnerAt(a, Latest) # Nobody /\ ~Moved(a, cursor + 1, Latest)
      => row[a].owner = OwnerAt(a, Latest)

=============================================================================
