----------------------------- MODULE DepositPage -----------------------------
(***************************************************************************)
(* The consumer's side of the dashboard page: what it shows of a wallet's  *)
(* credits. A poll reads the ledger every ten seconds, which also syncs    *)
(* deposits; once a deposit is confirmed, a loop asks for a sync that      *)
(* names its block until it takes the credits as synced. The wallet may be *)
(* switched meanwhile: a poll is then dropped, a loop is not.              *)
(*                                                                         *)
(* A step of app/api/sync-credits is one action here; DepositSync takes it *)
(* apart.                                                                  *)
(***************************************************************************)
EXTENDS Integers, FiniteSets, FiniteSetsExt, Functions

CONSTANTS
  Accounts,     \* wallets of the page; the depositor is one of them
  Depositor,
  Syncs,        \* numbers of the syncs in flight (bound)
  Window,       \* MAX_BLOCKS_PER_SYNC_REQUEST
  MaxSteps,     \* MAX_TX_AWARE_CATCHUP_STEPS_PER_REQUEST
  MaxAttempts,  \* MAX_DEPOSIT_CREDIT_SYNC_CATCHUP_ATTEMPTS
  MaxLag,       \* how many blocks an RPC node may be behind
  LastBlock,    \* bound on the chain
  MaxCredited,  \* bound on how often a block is credited
  MaxSwitches   \* bound on what the user does

ASSUME DepositPageAssumption ==
  /\ Depositor \in Accounts
  /\ {Window, MaxSteps, MaxAttempts} \subseteq Nat \ {0}
  /\ {MaxLag, LastBlock, MaxCredited, MaxSwitches} \subseteq Nat

VARIABLES
  tip,         \* latest block of the chain
  deposits,    \* blocks with a deposit of the depositor
  target,      \* depositReceipt.blockNumber; none without a transaction, sent before its receipt
  cursors,     \* per wallet: CreditBalance.lastSyncedBlock
  reached,     \* per wallet: highest block its vault_sync ledger rows mention
  credited,    \* how often the deposits of a block were credited
  address,     \* the connected wallet
  syncedCredits,
  creditSyncState,
  syncedHashes,  \* syncedHashesRef has the transaction
  due,           \* the effect of the confirmed deposit is to run again
  syncs,
  switches,
  excused        \* history: a loop ended for a reason other than its block's

pageVars == <<tip, deposits, target, cursors, reached, credited, address, syncedCredits,
              creditSyncState, syncedHashes, due, syncs, switches, excused>>
chain == <<tip, deposits>>
ledger == <<cursors, reached, credited>>
page == <<target, address, syncedCredits, creditSyncState, syncedHashes, due, switches, excused>>

Blocks == 0 .. LastBlock
Resting == [kind |-> "none", at |-> "none"]
Nothing == -1
NoCredits == [of |-> "none", credits |-> Nothing]

PageInit ==
  /\ tip = 0 /\ deposits = {} /\ target = Nothing
  /\ cursors = [w \in Accounts |-> 0]
  /\ reached = [w \in Accounts |-> 0]
  /\ credited = [b \in Blocks |-> 0]
  /\ address = Depositor
  /\ syncedCredits = NoCredits
  /\ creditSyncState = "idle"
  /\ syncedHashes = FALSE /\ due = FALSE
  /\ syncs = [s \in Syncs |-> Resting]
  /\ switches = 0
  /\ excused = FALSE

Credits(w) == IF w = Depositor THEN FoldFunctionOnSet(+, 0, credited, Blocks) ELSE 0

Ready(s) == syncs[s] = Resting /\ \A t \in Syncs : t < s => syncs[t] # Resting
NewSync(kind, w, block) ==
  [kind |-> kind, at |-> "sent", of |-> w, target |-> block, active |-> TRUE, attempt |-> 1,
   steps |-> 1, previous |-> Nothing, found |-> FALSE]
Put(s, sync) == syncs' = [syncs EXCEPT ![s] = sync]

-----------------------------------------------------------------------------
(* Chain and user. *)

\* The wallet deposits elsewhere, or with the page, which then has the receipt.
NextBlock ==
  /\ tip < LastBlock
  /\ tip' = tip + 1
  /\ \/ UNCHANGED <<deposits, target, due, creditSyncState>>
     \/ /\ deposits' = deposits \cup {tip + 1}
        /\ UNCHANGED <<target, due, creditSyncState>>
     \/ /\ target = Nothing /\ address = Depositor
        /\ deposits' = deposits \cup {tip + 1}
        /\ target' = tip + 1
        /\ due' = TRUE
        /\ creditSyncState' = "idle"
  /\ UNCHANGED <<ledger, address, syncedCredits, syncedHashes, syncs, switches, excused>>

\* The poll of the old wallet is dropped; what is shown stays until one answers.
SwitchWallet(w) ==
  /\ switches < MaxSwitches /\ switches' = switches + 1
  /\ w # address
  /\ address' = w
  /\ due' = TRUE
  /\ syncs' = [s \in Syncs |-> IF syncs[s].kind = "poll" THEN [syncs[s] EXCEPT !.active = FALSE]
                               ELSE syncs[s]]
  /\ UNCHANGED <<chain, ledger, target, syncedCredits, creditSyncState, syncedHashes, excused>>

-----------------------------------------------------------------------------
(* Effects of the page. *)

PollCredits(s) ==
  /\ Ready(s)
  /\ ~\E t \in Syncs : syncs[t].kind = "poll" /\ syncs[t].active
  /\ Put(s, NewSync("poll", address, Nothing))
  /\ UNCHANGED <<chain, ledger, page>>

\* The effect of a confirmed deposit, once for its transaction.
ConfirmedEffect(s) ==
  /\ due /\ Ready(s)
  /\ due' = FALSE
  /\ IF target # Nothing /\ ~syncedHashes
     THEN /\ syncedHashes' = TRUE
          /\ creditSyncState' = "syncing"
          /\ Put(s, NewSync("loop", address, target))
     ELSE UNCHANGED <<syncedHashes, creditSyncState, syncs>>
  /\ UNCHANGED <<chain, ledger, target, address, syncedCredits, switches, excused>>

RetrySync(s) ==
  /\ switches < MaxSwitches /\ switches' = switches + 1
  /\ Ready(s)
  /\ target # Nothing /\ creditSyncState = "error"
  /\ creditSyncState' = "syncing"
  /\ Put(s, NewSync("loop", address, target))
  /\ UNCHANGED <<chain, ledger, target, address, syncedCredits, syncedHashes, due, excused>>

-----------------------------------------------------------------------------
(* The server. *)

Lower(a, b) == IF a < b THEN a ELSE b
Higher(a, b) == IF a > b THEN a ELSE b

\* syncCreditsSingleStepForUser against a node whose latest block is given: a
\* cursor ahead of that block, or of the named one, is rolled back.
ServerStep(w, named, latest) ==
  LET effective == IF named = Nothing THEN latest ELSE Lower(named, latest)
      recovered == Higher(cursors[w], reached[w])
      ahead == recovered > effective
      anchor == IF named = Nothing THEN effective ELSE named
      from == IF ahead THEN Higher(1, anchor - (Window - 1)) ELSE recovered + 1
      to == Lower(from + Window - 1, effective)
      synced == IF from <= to THEN to ELSE IF ahead THEN 0 ELSE recovered
      scanned == IF w = Depositor THEN deposits \cap (from .. to) ELSE {}
  IN [cursor |-> IF synced > cursors[w] \/ ahead THEN synced ELSE cursors[w],
      reached |-> IF scanned = {} THEN reached[w] ELSE Higher(reached[w], Higher(synced, cursors[w])),
      scanned |-> scanned,
      partial |-> from <= to /\ to < latest]

\* A request without a block ends after a step; one with a block goes on
\* until the cursor is there, stands still, or the steps are used up.
LastStepOf(sync, cursor) ==
  \/ sync.target = Nothing
  \/ cursor >= sync.target
  \/ sync.previous # Nothing /\ cursor <= sync.previous
  \/ sync.steps = MaxSteps

Serve(s, lag) ==
  LET sync == syncs[s]
      latest == tip - lag
      step == ServerStep(sync.of, sync.target, latest)
      found == sync.found \/ step.scanned # {}
  IN /\ sync.at = "sent" /\ latest >= 0
     /\ \A b \in step.scanned : credited[b] < MaxCredited
     /\ cursors' = [cursors EXCEPT ![sync.of] = step.cursor]
     /\ reached' = [reached EXCEPT ![sync.of] = step.reached]
     /\ credited' = [b \in Blocks |-> credited[b] + IF b \in step.scanned THEN 1 ELSE 0]
     /\ Put(s, IF LastStepOf(sync, step.cursor)
               THEN [kind |-> sync.kind, at |-> "answered", of |-> sync.of, target |-> sync.target,
                     active |-> sync.active, attempt |-> sync.attempt, found |-> found,
                     cursor |-> step.cursor, partial |-> step.partial, latest |-> latest,
                     credits |-> FoldFunctionOnSet(+, 0, credited', IF sync.of = Depositor THEN Blocks ELSE {})]
               ELSE [sync EXCEPT !.steps = @ + 1, !.previous = step.cursor, !.found = found])
     /\ UNCHANGED <<chain, page>>

-----------------------------------------------------------------------------
(* Answers. *)

\* A value that is shown anew gives the effect's callback a new identity.
ShowCredits(w, n) ==
  /\ syncedCredits' = [of |-> w, credits |-> n]
  /\ due' = (due \/ syncedCredits.credits # n)

PollAnswered(s) ==
  LET sync == syncs[s]
  IN /\ sync.kind = "poll" /\ sync.at = "answered"
     /\ IF sync.active THEN ShowCredits(sync.of, sync.credits) ELSE UNCHANGED <<syncedCredits, due>>
     /\ Put(s, Resting)
     /\ UNCHANGED <<chain, ledger, target, address, creditSyncState, syncedHashes, switches, excused>>

\* Mutant: the chain's head is compared with the block of the deposit.
ReachedHead(sync) == sync.latest >= sync.target

ReachedDepositBlock(sync) == sync.cursor >= sync.target

TakesAsSynced(sync) == ~sync.partial \/ ReachedDepositBlock(sync) \/ sync.found

\* The loop waits and asks again, up to its attempts, and ends as synced.
LoopAnswered(s) ==
  LET sync == syncs[s]
      ends == TakesAsSynced(sync) \/ sync.attempt = MaxAttempts
  IN /\ sync.kind = "loop" /\ sync.at = "answered"
     /\ ShowCredits(sync.of, sync.credits)
     /\ IF ends
        THEN /\ creditSyncState' = "synced"
             /\ excused' = \/ excused
                           \/ sync.of # Depositor
                           \/ sync.latest < sync.target
                           \/ sync.attempt = MaxAttempts
                           \/ sync.found /\ \E b \in deposits : b < sync.target
             /\ Put(s, Resting)
        ELSE /\ Put(s, [NewSync("loop", sync.of, sync.target) EXCEPT !.attempt = sync.attempt + 1])
             /\ UNCHANGED <<creditSyncState, excused>>
     /\ UNCHANGED <<chain, ledger, target, address, syncedHashes, switches>>

\* A failed loop forgets its transaction, for the effect to start another.
SyncFails(s) ==
  LET sync == syncs[s]
  IN /\ sync # Resting
     /\ IF sync.kind = "loop"
        THEN creditSyncState' = "error" /\ syncedHashes' = FALSE
        ELSE UNCHANGED <<creditSyncState, syncedHashes>>
     /\ Put(s, Resting)
     /\ UNCHANGED <<chain, ledger, target, address, syncedCredits, due, switches, excused>>

PageNext ==
  \/ NextBlock
  \/ \E w \in Accounts : SwitchWallet(w)
  \/ \E s \in Syncs :
       \/ PollCredits(s) \/ ConfirmedEffect(s) \/ RetrySync(s)
       \/ \E lag \in 0 .. MaxLag : Serve(s, lag)
       \/ PollAnswered(s) \/ LoopAnswered(s) \/ SyncFails(s)

-----------------------------------------------------------------------------
\* The page says a deposit is synced once it is credited, whatever polls,
\* loops, failures and switches of the wallet came between. The exceptions are
\* the ways a loop gives up: a node behind the block of the deposit, attempts
\* used up, another deposit found, or a loop for a wallet that did not deposit.
SyncedMeansCredited ==
  creditSyncState = "synced" /\ ~excused => credited[target] >= 1

=============================================================================
