------------------------------ MODULE GhostWire ------------------------------
(***************************************************************************)
(* GhostWire: the database's mirror of the escrow contract. A quote is     *)
(* turned into one job row (lib/ghostwire-store.ts); the client reports    *)
(* its transactions (app/api/wire/jobs/[jobId]/artifacts); overlapping     *)
(* operator ticks (lib/ghostwire-operator.ts) look for transactions that   *)
(* were not reported, follow the contract's status and send the webhooks.  *)
(* Every call of a database transaction is one action, so whatever a call  *)
(* read before may be stale when it writes.                                *)
(***************************************************************************)
EXTENDS AgenticCommerce, Sequences, SequencesExt

CONSTANTS
  Quotes,       \* quotes handed out
  Requests,     \* POST /api/wire/jobs calls
  Posts,        \* POST /api/wire/jobs/[jobId]/artifacts calls
  Ticks,        \* operator ticks that may overlap
  Cron,         \* the ticks that run to their end
  Deal,         \* what every quote is about: client, provider, evaluator, price, terms
  Follow,       \* states whose webhook is modelled
  MaxAttempts,  \* GHOSTWIRE_WEBHOOK_MAX_ATTEMPTS
  MaxMishaps    \* bound on mishaps

ASSUME WireAssumption ==
  /\ Cron \subseteq Ticks
  /\ Deal.client \in Clients /\ Deal.provider \in Providers /\ Deal.evaluator \in Evaluators
  /\ Deal.price \in Budgets /\ Deal.terms \in Terms
  /\ MaxAttempts \in Nat \ {0}
  /\ MaxMishaps \in Nat

VARIABLES
  safe,      \* the contract at the confirmation depth
  log,       \* JobCreated and JobFunded events in the order of their blocks
  quotes,
  prepares,  \* progress of each create request
  rows,      \* the WireJob and its workflow that each create request inserted
  posts,     \* progress of each artifact call
  ticks,     \* what each operator tick is doing
  outbox,    \* webhooks
  mishaps

chain == <<commerce, safe, log>>
wire == <<chain, quotes, prepares, rows, posts, ticks, outbox, mishaps>>

Outcomes == {"COMPLETED", "REJECTED", "EXPIRED"}
Mirrored == {"OPEN", "FUNDED", "SUBMITTED"} \cup Outcomes

\* mapGhostWireContractStatus; an id that was never used reads as status 0.
Mapped == [None |-> "OPEN", Open |-> "OPEN", Funded |-> "FUNDED", Submitted |-> "SUBMITTED",
           Completed |-> "COMPLETED", Rejected |-> "REJECTED", Expired |-> "EXPIRED"]

\* The event that announces a state.
Announces == [FUNDED |-> "JobFunded", SUBMITTED |-> "JobSubmitted", COMPLETED |-> "JobCompleted",
              REJECTED |-> "JobRejected", EXPIRED |-> "JobExpired"]

\* artifact and stages are the workflow's statuses: artifactStatus, and
\* confirmationStatus together with reconcileStatus, are SUCCEEDED. job and
\* fund say which hashes are recorded; checked is artifactLastCheckedBlock,
\* counted in events of log.
Row == [quote : Quotes, expiresAt : Deadlines, state : Mirrored, disposition : Outcomes \cup {"NONE"},
        job : {0} \cup Ids, fund : BOOLEAN, artifact : BOOLEAN, stages : BOOLEAN,
        review : BOOLEAN, checked : Nat]

NoRow == [state |-> "ABSENT"]
Present(r) == rows[r] # NoRow

Idle == [at |-> "idle"]
Unused == [status |-> "NONE", attempts |-> 0, refused |-> FALSE]

Contract == [jobs |-> jobs, fees |-> jobFeeBpsAtFunding, counter |-> jobCounter, tokens |-> tokens,
             escrow |-> escrow, released |-> released, logs |-> logs, named |-> named, log |-> log]

WireInit ==
  /\ CommerceInit
  /\ log = <<>>
  /\ safe = Contract
  /\ quotes = [q \in Quotes |-> "NONE"]
  /\ prepares = [p \in Requests |-> Idle]
  /\ rows = [p \in Requests |-> NoRow]
  /\ posts = [c \in Posts |-> Idle]
  /\ ticks = [t \in Ticks |-> Idle]
  /\ outbox = [e \in Requests \X Follow |-> Unused]
  /\ mishaps = 0

-----------------------------------------------------------------------------
(* The chain. *)

\* What a behaviour sees at most MaxMishaps of, all together: reorganisations,
\* failed calls, crashes, a quote prepared twice, an item that an overlapping
\* tick works on, changes of the contract's settings.
Mishap == mishaps < MaxMishaps /\ mishaps' = mishaps + 1
MishapIf(condition) == IF condition THEN Mishap ELSE UNCHANGED mishaps

Mined == {e \in Ids \X {"JobCreated", "JobFunded"} : e[2] \in logs'[e[1]] \ logs[e[1]]}

Transact ==
  /\ CommerceNext
  /\ log' = log \o SetToSeq(Mined)
  /\ MishapIf(settings' # settings /\ (paused => paused'))
  /\ UNCHANGED <<safe, quotes, prepares, rows, posts, ticks, outbox>>

\* Everything mined so far gets its confirmations.
Confirm ==
  /\ safe # Contract
  /\ safe' = Contract
  /\ UNCHANGED <<commerce, log, quotes, prepares, rows, posts, ticks, outbox, mishaps>>

\* The blocks without confirmations are replaced. What is mined again may lie
\* in blocks that recovery has looked at or in later ones. The admin's
\* settings are taken to be confirmed.
Reorganise ==
  /\ Mishap
  /\ safe # Contract
  /\ jobs' = safe.jobs /\ jobFeeBpsAtFunding' = safe.fees /\ jobCounter' = safe.counter
  /\ tokens' = safe.tokens /\ escrow' = safe.escrow /\ released' = safe.released
  /\ logs' = safe.logs /\ named' = safe.named /\ log' = safe.log
  /\ rows' \in {rows, [p \in Requests |->
       IF Present(p) /\ rows[p].checked > Len(safe.log)
       THEN [rows[p] EXCEPT !.checked = Len(safe.log)] ELSE rows[p]]}
  /\ UNCHANGED <<settings, now, safe, quotes, prepares, posts, ticks, outbox>>

Emitted(j, event) == j \in Ids /\ event \in logs[j]
Confirmed(j, event) == j \in Ids /\ event \in safe.logs[j]

\* The block of an event, as the number of events up to it.
BlockOf(j, event) == SelectInSeq(log, LAMBDA e : e = <<j, event>>)

-----------------------------------------------------------------------------
(* Quotes and job rows. *)

CreateQuote(q) ==
  /\ quotes[q] = "NONE"
  /\ quotes' = [quotes EXCEPT ![q] = "OPEN"]
  /\ UNCHANGED <<chain, prepares, rows, posts, ticks, outbox, mishaps>>

\* Nothing is written: the time of the quote passes.
ExpireQuote(q) ==
  /\ quotes[q] = "OPEN"
  /\ quotes' = [quotes EXCEPT ![q] = "EXPIRED"]
  /\ UNCHANGED <<chain, prepares, rows, posts, ticks, outbox, mishaps>>

\* getGhostWireDirectPreflight: a client whose tokens do not cover the price
\* is refused; what it finds of allowances only shapes the answer.
CanPay == tokens[Deal.client] >= Deal.price

\* The lookup of the quote, before the call to the chain for the client's
\* balance and again in the transaction. Requests are interchangeable, so the
\* next one to start is any that has not.
PrepareRead(p, q) ==
  /\ prepares[p] = Idle
  /\ p = CHOOSE r \in Requests : prepares[r] = Idle
  /\ MishapIf(\E r \in Requests : prepares[r] = [at |-> "commit", quote |-> q])
  /\ quotes[q] = "OPEN"
  /\ CanPay
  /\ prepares' = [prepares EXCEPT ![p] = [at |-> "commit", quote |-> q]]
  /\ UNCHANGED <<chain, quotes, rows, posts, ticks, outbox>>

Written(box, r, state) ==
  IF state \in Follow /\ box[<<r, state>>] = Unused
  THEN [box EXCEPT ![<<r, state>>].status = "PENDING"]
  ELSE box

\* Mutant: WireJob.quoteId is not unique.
AnyNumber(q) == TRUE

NoJobYet(q) == \A r \in Requests : ~(Present(r) /\ rows[r].quote = q)

\* The writes. Two transactions may both have read the quote unconsumed: the
\* unique WireJob.quoteId lets only one of them insert its row.
PrepareCommit(p) ==
  LET q == prepares[p].quote
  IN /\ prepares[p].at = "commit"
     /\ prepares' = [prepares EXCEPT ![p] = [at |-> "done"]]
     /\ \/ /\ NoJobYet(q)
           /\ \E deadline \in Deadlines :
                rows' = [rows EXCEPT ![p] =
                  [quote |-> q, expiresAt |-> deadline, state |-> "OPEN", disposition |-> "NONE",
                   job |-> 0, fund |-> FALSE, artifact |-> FALSE, stages |-> FALSE,
                   review |-> FALSE, checked |-> 0]]
           /\ quotes' = [quotes EXCEPT ![q] = "CONSUMED"]
           /\ outbox' = Written(outbox, p, "OPEN")
        \/ /\ ~NoJobYet(q)
           /\ UNCHANGED <<quotes, rows, outbox>>
     /\ UNCHANGED <<chain, posts, ticks, mishaps>>

\* POST /api/wire/jobs.
PostJob(p) == PrepareCommit(p) \/ \E q \in Quotes : PrepareRead(p, q)

-----------------------------------------------------------------------------
(* The store's transactions on one row. *)

ConflictsWith(row, j) == row.job \notin {0, j}

RecordArtifacts(row, j, fund, stages, checked) ==
  [row EXCEPT !.job = j, !.fund = @ \/ fund, !.artifact = TRUE, !.stages = stages,
              !.review = FALSE, !.checked = checked]

FailArtifactValidation(row, checked) ==
  [row EXCEPT !.artifact = FALSE, !.review = TRUE, !.checked = checked]

Checkpoint(row, artifact, checked) ==
  [row EXCEPT !.artifact = artifact, !.checked = checked]

\* The reconcile stage fails and somebody has to look.
MarkForManualReview(row) == [row EXCEPT !.stages = FALSE, !.review = TRUE]

\* The confirmation stage is in progress; the flag for a review is cleared.
UpdateWorkflowStage(row) == [row EXCEPT !.stages = FALSE, !.review = FALSE]

\* The three reconciles ask nothing of the row they overwrite.
Reconcile(row, state) ==
  [row EXCEPT !.state = state, !.artifact = TRUE, !.stages = TRUE, !.review = FALSE,
              !.disposition = IF state \in Outcomes THEN state ELSE @]

Update(r, row) == rows' = [rows EXCEPT ![r] = row]

ReconcileTo(r, state) ==
  /\ Update(r, Reconcile(rows[r], state))
  /\ outbox' = Written(outbox, r, state)

ReconcileFunded(r) == ReconcileTo(r, "FUNDED")

-----------------------------------------------------------------------------
(* What a create and a fund transaction have to look like. *)

\* Client, provider, evaluator and expiry in the event, and the contract's job
\* as it is read back.
ValidCreate(r, j) ==
  /\ Emitted(j, "JobCreated")
  /\ named[j] = Deal.provider
  /\ jobs[j].client = Deal.client /\ jobs[j].provider = Deal.provider
  /\ jobs[j].evaluator = Deal.evaluator
  /\ jobs[j].expiredAt = rows[r].expiresAt
  /\ jobs[j].terms = Deal.terms

ValidFund(j) ==
  /\ Emitted(j, "JobFunded")
  /\ jobs[j].client = Deal.client /\ jobs[j].provider = Deal.provider
  /\ jobs[j].evaluator = Deal.evaluator
  /\ jobs[j].budget = Deal.price

-----------------------------------------------------------------------------
(* The client reports its transactions. *)

\* create and fund are the contract jobs of the two hashes sent, 0 for none.
StartPost(c, r, create, fund) ==
  /\ posts[c] = Idle
  /\ Present(r)
  /\ create # 0 \/ fund # 0
  /\ create # 0 => Emitted(create, "JobCreated")
  /\ fund # 0 => Emitted(fund, "JobFunded")
  /\ posts' = [posts EXCEPT ![c] =
       IF create = 0
       THEN [at |-> "fund", row |-> r, fund |-> fund, job |-> rows[r].job, checked |-> rows[r].checked]
       ELSE [at |-> "create", row |-> r, create |-> create, fund |-> fund, checked |-> rows[r].checked]]
  /\ UNCHANGED <<chain, quotes, prepares, rows, ticks, outbox, mishaps>>

EndPost(c) == posts' = [posts EXCEPT ![c] = [at |-> "done"]]

\* Whatever goes wrong between the lookups and the record ends in a review.
FailPost(c) ==
  /\ Update(posts[c].row, FailArtifactValidation(rows[posts[c].row], posts[c].checked))
  /\ EndPost(c)

PostCreate(c) ==
  LET post == posts[c]
      j == post.create
      row == rows[post.row]
      ok == ValidCreate(post.row, j) /\ ~ConflictsWith(row, j)
  IN /\ post.at = "create"
     /\ \/ /\ ok
           /\ Update(post.row, RecordArtifacts(row, j, FALSE, FALSE, BlockOf(j, "JobCreated")))
           /\ IF post.fund = 0 THEN EndPost(c)
              ELSE posts' = [posts EXCEPT ![c] = [at |-> "fund", row |-> post.row, fund |-> post.fund,
                                                  job |-> j, checked |-> BlockOf(j, "JobCreated")]]
           /\ UNCHANGED mishaps
        \/ ~ok /\ FailPost(c) /\ UNCHANGED mishaps
        \/ Mishap /\ FailPost(c)
     /\ UNCHANGED <<chain, quotes, prepares, ticks, outbox>>

PostFund(c) ==
  LET post == posts[c]
      j == post.job
      row == rows[post.row]
      ok == post.fund = j /\ ValidFund(j) /\ ~ConflictsWith(row, j)
      final == Confirmed(j, "JobFunded")
  IN /\ post.at = "fund"
     /\ \/ j = 0 /\ EndPost(c) /\ UNCHANGED <<rows, mishaps>>
        \/ /\ ok
           /\ Update(post.row, RecordArtifacts(row, j, TRUE, final, BlockOf(j, "JobFunded")))
           /\ IF final THEN posts' = [posts EXCEPT ![c] = [at |-> "reconcile", row |-> post.row]]
              ELSE EndPost(c)
           /\ UNCHANGED mishaps
        \/ j # 0 /\ ~ok /\ FailPost(c) /\ UNCHANGED mishaps
        \/ j # 0 /\ Mishap /\ FailPost(c)
     /\ UNCHANGED <<chain, quotes, prepares, ticks, outbox>>

\* The reconcile is a second transaction after the record.
PostReconcile(c) ==
  /\ posts[c].at = "reconcile"
  /\ ReconcileFunded(posts[c].row)
  /\ EndPost(c)
  /\ UNCHANGED <<chain, quotes, prepares, ticks, mishaps>>

-----------------------------------------------------------------------------
(* Operator ticks. A tick works on what it has read of a row when it listed *)
(* it; the lists exclude rows that wait for a review.                       *)

Begin(t, work) ==
  /\ ticks[t] = Idle
  /\ ticks' = [ticks EXCEPT ![t] = work]
  /\ MishapIf(t \notin Cron)
End(t) == ticks' = [ticks EXCEPT ![t] = Idle]

ListForRecovery(t, r) ==
  LET row == rows[r]
  IN /\ Present(r)
     /\ row.state = "OPEN" /\ ~row.review
     /\ row.job = 0 \/ ~row.fund
     /\ Begin(t, [at |-> IF row.job = 0 THEN "findcreate" ELSE "findfund", row |-> r,
                  job |-> row.job, checked |-> row.checked, artifact |-> row.artifact])
     /\ UNCHANGED <<chain, quotes, prepares, rows, posts, outbox>>

\* The events of a kind that are newer than what the row had been checked for.
Unchecked(t, event) ==
  {i \in ticks[t].checked + 1 .. Len(log) : log[i][2] = event}

\* Nothing found: the blocks count as checked all the same.
NothingFound(t) ==
  /\ Update(ticks[t].row, Checkpoint(rows[ticks[t].row], ticks[t].artifact, Len(log)))
  /\ End(t)

FindCreate(t) ==
  LET r == ticks[t].row
      found == {log[i][1] : i \in {i \in Unchecked(t, "JobCreated") :
                  ValidCreate(r, log[i][1]) /\ ~ConflictsWith(rows[r], log[i][1])}}
  IN /\ ticks[t].at = "findcreate"
     /\ \/ /\ found # {}
           /\ Update(r, RecordArtifacts(rows[r], Max(found), FALSE, FALSE, Len(log)))
           /\ ticks' = [ticks EXCEPT ![t].at = "findfund", ![t].job = Max(found)]
           /\ UNCHANGED mishaps
        \/ found = {} /\ NothingFound(t) /\ UNCHANGED mishaps
        \/ found # {} /\ Mishap /\ NothingFound(t)
     /\ UNCHANGED <<chain, quotes, prepares, posts, outbox>>

FindFund(t) ==
  LET r == ticks[t].row
      j == ticks[t].job
      found == /\ \E i \in Unchecked(t, "JobFunded") : log[i][1] = j
               /\ ValidFund(j)
               /\ ~ConflictsWith(rows[r], j)
      final == Confirmed(j, "JobFunded")
  IN /\ ticks[t].at = "findfund"
     /\ \/ /\ found
           /\ Update(r, RecordArtifacts(rows[r], j, TRUE, final, Len(log)))
           /\ IF final THEN ticks' = [ticks EXCEPT ![t] = [at |-> "reconcile", row |-> r]] ELSE End(t)
           /\ UNCHANGED mishaps
        \/ ~found /\ NothingFound(t) /\ UNCHANGED mishaps
        \/ found /\ Mishap /\ NothingFound(t)
     /\ UNCHANGED <<chain, quotes, prepares, posts, outbox>>

RecoveryReconcile(t) ==
  /\ ticks[t].at = "reconcile"
  /\ ReconcileFunded(ticks[t].row)
  /\ End(t)
  /\ UNCHANGED <<chain, quotes, prepares, posts, mishaps>>

\* Mutant: a row with every stage done is not looked at again.
Unfinished(r) ==
  /\ Present(r)
  /\ ~rows[r].review
  /\ ~rows[r].artifact \/ ~rows[r].stages
  /\ rows[r].job # 0 /\ rows[r].fund

\* buildWireOperatorWorkWhere; a row without both hashes is left as it is.
NeedsWork(r) ==
  LET row == rows[r]
  IN /\ Present(r)
     /\ ~row.review
     /\ ~row.artifact \/ ~row.stages \/ row.state \in {"FUNDED", "SUBMITTED"}
     /\ row.job # 0 /\ row.fund

ListWork(t, r) ==
  /\ NeedsWork(r)
  /\ Begin(t, [at |-> IF rows[r].state = "OPEN" THEN "receipt" ELSE "status",
               row |-> r, job |-> rows[r].job])
  /\ UNCHANGED <<chain, quotes, prepares, rows, posts, outbox>>

\* Mutant: the receipt is trusted without its confirmations.
FirstSeen(j) ==
  Emitted(j, "JobFunded") /\ jobs[j].client = Deal.client /\ jobs[j].budget = Deal.price

\* The receipt of the fund transaction that is on record: the same sender, job
\* and expected budget. After a reorganisation it is gone, or says that the
\* transaction reverted.
FundReceipt(j) ==
  Confirmed(j, "JobFunded") /\ safe.jobs[j].client = Deal.client /\ safe.jobs[j].budget = Deal.price

ReadReceipt(t) ==
  LET r == ticks[t].row
      j == ticks[t].job
  IN /\ ticks[t].at = "receipt"
     /\ \/ /\ FundReceipt(j)
           /\ ReconcileFunded(r)
           /\ UNCHANGED mishaps
        \/ /\ ~FundReceipt(j)
           /\ Update(r, UpdateWorkflowStage(rows[r]))
           /\ UNCHANGED <<outbox, mishaps>>
        \/ /\ FundReceipt(j) /\ Mishap
           /\ Update(r, UpdateWorkflowStage(rows[r]))
           /\ UNCHANGED outbox
        \/ /\ ~Emitted(j, "JobFunded")
           /\ Update(r, FailArtifactValidation(rows[r], Len(log)))
           /\ UNCHANGED <<outbox, mishaps>>
     /\ End(t)
     /\ UNCHANGED <<chain, quotes, prepares, posts>>

\* getJob, before the events are asked for.
ReadStatus(t) ==
  LET status == Mapped[jobs[ticks[t].job].status]
  IN /\ ticks[t].at = "status"
     /\ \/ /\ status = "OPEN"
           /\ Update(ticks[t].row, MarkForManualReview(rows[ticks[t].row]))
           /\ End(t)
        \/ /\ status = "FUNDED"
           /\ End(t)
           /\ UNCHANGED rows
        \/ /\ status \notin {"OPEN", "FUNDED"}
           /\ ticks' = [ticks EXCEPT ![t] = [at |-> "events", row |-> @.row, job |-> @.job, state |-> status]]
           /\ UNCHANGED rows
     /\ UNCHANGED <<chain, quotes, prepares, posts, outbox, mishaps>>

\* getLatestGhostWireLifecycleEvent: at most one outcome, and after it nothing.
LatestEvent(j) ==
  LET seen == {s \in {"SUBMITTED"} \cup Outcomes : Emitted(j, Announces[s])}
  IN IF seen \cap Outcomes # {} THEN seen \cap Outcomes ELSE seen

\* Mutant: the latest event counts whatever its confirmations.
LatestIsFinal(j, status) == TRUE

EventIsFinal(j, status) == Confirmed(j, Announces[status])

\* The events, which may be newer than the status they are compared with.
ReadEvents(t) ==
  LET r == ticks[t].row
      j == ticks[t].job
      status == ticks[t].state
  IN /\ ticks[t].at = "events"
     /\ \/ /\ status \notin LatestEvent(j)
           /\ Update(r, MarkForManualReview(rows[r]))
           /\ End(t)
        \/ /\ status \in LatestEvent(j) /\ ~EventIsFinal(j, status)
           /\ Update(r, UpdateWorkflowStage(rows[r]))
           /\ End(t)
        \/ /\ status \in LatestEvent(j) /\ EventIsFinal(j, status)
           /\ ticks' = [ticks EXCEPT ![t] = [at |-> "write", row |-> r, state |-> status]]
           /\ UNCHANGED rows
     /\ UNCHANGED <<chain, quotes, prepares, posts, outbox, mishaps>>

WriteState(t) ==
  /\ ticks[t].at = "write"
  /\ ReconcileTo(ticks[t].row, ticks[t].state)
  /\ End(t)
  /\ UNCHANGED <<chain, quotes, prepares, posts, mishaps>>

-----------------------------------------------------------------------------
(* Webhooks. The answer is ok, refused (a status that is not retried) or    *)
(* failed: a status that is, or no answer.                                  *)

SendWebhook(t, e) ==
  /\ outbox[e].status \in {"PENDING", "FAILED"}
  /\ \E answer \in {"ok", "refused", "failed"} :
       Begin(t, [at |-> "answer", event |-> e, attempts |-> outbox[e].attempts, answer |-> answer])
  /\ UNCHANGED <<chain, quotes, prepares, rows, posts, outbox>>

\* Mutant: the attempt before the last is taken for the last one.
NextIsLast(t) == ticks[t].attempts + 2 >= MaxAttempts

Exhausted(t) == ticks[t].attempts + 1 >= MaxAttempts

\* Whether the attempts are used up is told from the row that was listed; the
\* count itself is incremented by the database.
RecordDelivery(t) ==
  LET e == ticks[t].event
      status == CASE ticks[t].answer = "ok" -> "DELIVERED"
                  [] ticks[t].answer = "refused" -> "DEAD_LETTER"
                  [] ticks[t].answer = "failed" -> IF Exhausted(t) THEN "DEAD_LETTER" ELSE "FAILED"
  IN /\ ticks[t].at = "answer"
     /\ outbox' = [outbox EXCEPT ![e] =
          [status |-> status, attempts |-> @.attempts + 1,
           refused |-> @.refused \/ ticks[t].answer = "refused"]]
     /\ End(t)
     /\ UNCHANGED <<chain, quotes, prepares, rows, posts, mishaps>>

-----------------------------------------------------------------------------
\* The process of a call or a tick dies between two of its transactions.
CrashPost(c) ==
  /\ posts[c].at \notin {"idle", "done"}
  /\ Mishap
  /\ EndPost(c)
  /\ UNCHANGED <<chain, quotes, prepares, rows, ticks, outbox>>

CrashTick(t) ==
  /\ ticks[t] # Idle
  /\ Mishap
  /\ End(t)
  /\ UNCHANGED <<chain, quotes, prepares, rows, posts, outbox>>

Post(c) == PostCreate(c) \/ PostFund(c) \/ PostReconcile(c)

Proceed(t) ==
  \/ FindCreate(t) \/ FindFund(t) \/ RecoveryReconcile(t)
  \/ ReadReceipt(t) \/ ReadStatus(t) \/ ReadEvents(t) \/ WriteState(t)
  \/ RecordDelivery(t)

WireNext ==
  \/ Transact \/ Confirm \/ Reorganise
  \/ \E q \in Quotes : CreateQuote(q) \/ ExpireQuote(q)
  \/ \E p \in Requests : PostJob(p)
  \/ \E c \in Posts : \/ \E r \in Requests, create, fund \in {0} \cup Ids : StartPost(c, r, create, fund)
                      \/ Post(c)
                      \/ CrashPost(c)
  \/ \E t \in Ticks : \/ \E r \in Requests : ListForRecovery(t, r) \/ ListWork(t, r)
                      \/ \E e \in DOMAIN outbox : SendWebhook(t, e)
                      \/ Proceed(t)
                      \/ CrashTick(t)

\* The scheduled workflow starts a tick every five minutes, and a tick goes
\* through all it has listed; blocks get their confirmations.
WireFairness ==
  /\ WF_wire(Confirm)
  /\ \A t \in Cron : WF_wire(Proceed(t)) /\ \A r \in Requests : SF_wire(ListWork(t, r))

WireSpec == WireInit /\ [][WireNext]_wire /\ WireFairness

-----------------------------------------------------------------------------
WireTypeOK ==
  /\ CommerceTypeOK
  /\ log \in Seq(Ids \X {"JobCreated", "JobFunded"})
  /\ quotes \in [Quotes -> {"NONE", "OPEN", "EXPIRED", "CONSUMED"}]
  /\ rows \in [Requests -> Row \cup {NoRow}]
  /\ outbox \in [Requests \X Follow ->
       [status : {"NONE", "PENDING", "FAILED", "DELIVERED", "DEAD_LETTER"}, attempts : Nat, refused : BOOLEAN]]
  /\ mishaps \in 0 .. MaxMishaps

\* A quote becomes at most one job, however its create requests overlap: the
\* client is never asked to fund the same quote twice.
OneJobPerQuote ==
  \A p, s \in Requests : Present(p) /\ Present(s) /\ rows[p].quote = rows[s].quote => p = s

\* What GhostWire reports as funded, or as anything after that, is a confirmed
\* escrow of the quoted price by the quoted client, also if the blocks in which
\* the client's transactions were first seen were replaced and the contract
\* gave the job's id to another job.
MirrorIsPaid ==
  \A r \in Requests :
    Present(r) /\ rows[r].state # "OPEN" =>
      /\ Confirmed(rows[r].job, "JobFunded")
      /\ safe.jobs[rows[r].job].client = Deal.client
      /\ safe.jobs[rows[r].job].budget = Deal.price

\* The states a row's escrow has gone through for good.
Reached(r) ==
  {"OPEN"} \cup IF Present(r) THEN {s \in DOMAIN Announces : Confirmed(rows[r].job, Announces[s])} ELSE {}

Mirror ==
  INSTANCE EscrowMirror WITH
    Escrows <- Requests,
    reached <- [r \in Requests |-> Reached(r)],
    mirror <- [r \in Requests |-> IF Present(r) THEN rows[r].state ELSE "OPEN"],
    outcome <- [r \in Requests |-> IF Present(r) THEN rows[r].disposition ELSE "NONE"]

\* What GhostWire says of a row's escrow is what a final escrow went through,
\* with at most one outcome, whatever is replaced, lost or stale on the way.
ImplementsEscrowMirror == Mirror!Spec

\* A row is stranded if a crash came between the transaction that records a
\* confirmed fund transaction, which marks every stage as done, and the one
\* that makes the row FUNDED: no list of the operator has it any more.
Stranded(row) == row.state = "OPEN" /\ row.fund /\ row.artifact /\ row.stages

\* Once an escrow whose funding is on record has an outcome, GhostWire comes to say so,
\* whatever stale write of an overlapping tick or call comes in between, unless
\* somebody has been asked to look or the row is stranded.
Settled(r) ==
  \A s \in Outcomes :
    Present(r) /\ rows[r].fund /\ FundReceipt(rows[r].job) /\ Emitted(rows[r].job, Announces[s]) =>
      rows[r].state = s \/ rows[r].review \/ Stranded(rows[r])

MirrorSettles == <>[](\A r \in Requests : Settled(r))

\* A webhook is given up only if the receiver refused it or after all the
\* attempts it has, although overlapping ticks send it with the same count.
GivenUpInTheEnd ==
  \A e \in DOMAIN outbox :
    outbox[e].status = "DEAD_LETTER" => outbox[e].refused \/ outbox[e].attempts >= MaxAttempts

=============================================================================
