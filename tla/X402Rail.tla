------------------------------- MODULE X402Rail -------------------------------
(***************************************************************************)
(* The x402 rail: the SDK's adapter verifies and settles a payment with    *)
(* the facilitator, runs the handler, answers, and then hands a report of  *)
(* the settlement to the reporter, whose queue sends it to Ghost's         *)
(* settlements route, where it becomes a row.                              *)
(***************************************************************************)
EXTENDS Integers, FiniteSets

CONSTANTS
  Payments,    \* signed payments, each with its own transaction
  RequestIds,  \* what getRequestId may name them
  MaxSends,    \* how often a client sends one payment (bound)
  MaxQueue,    \* maxQueueSize
  Delays       \* the number of retryDelaysMs

VARIABLES
  setup,     \* the runtime's support, the transport, each payment's request id
  settled,   \* payments that are on the chain
  call,      \* each request with a payment, in the adapter
  queue,     \* the reporter's queue
  keys,      \* its dedupeKeys; agent and payment reference, here the payment
  sending,   \* the entry it took from the queue
  stray,     \* reports that may still arrive, though nobody waits for the answer
  accepted,  \* payments with a report_accepted event
  rows       \* Ghost: the payments that have an X402SettlementEvent

x402Vars == <<setup, settled, call, queue, keys, sending, stray, accepted, rows>>

Calls == Payments \X (1 .. MaxSends)

NoEntry == [payment |-> "none", attempt |-> 0, at |-> "idle"]

\* GhostMerchant sends its authorisation as authPayload and authSignature; the
\* route wants auth.payload and auth.signature, which a transport of the
\* merchant's own can send.
Setups ==
  [support : {"first_class", "best_effort", "manual_only"}, transport : {"GhostMerchant", "own"},
   requestOf : [Payments -> RequestIds]]

X402Init ==
  /\ setup \in Setups
  /\ settled = {} /\ queue = {} /\ keys = {} /\ stray = {} /\ accepted = {} /\ rows = {}
  /\ call = [c \in Calls |-> "none"]
  /\ sending = NoEntry

Reporter == <<queue, keys, sending, stray, accepted, rows>>

-----------------------------------------------------------------------------
(* The adapter. *)

\* A client that got no answer, or an error, sends its payment again.
Send(c) ==
  /\ call[c] = "none"
  /\ c[2] > 1 => call[<<c[1], c[2] - 1>>] \in {"failed", "answered"}
  /\ call' = [call EXCEPT ![c] = "settling"]
  /\ UNCHANGED <<setup, settled, Reporter>>

\* The facilitator's own doing: it may settle, refuse, and be heard or not.
Settle(c) ==
  /\ call[c] = "settling"
  /\ \E paid \in {settled, settled \cup {c[1]}}, outcome \in {"handling", "failed"} :
       /\ outcome = "handling" => c[1] \in paid
       /\ settled' = paid
       /\ call' = [call EXCEPT ![c] = outcome]
  /\ UNCHANGED <<setup, Reporter>>

\* The handler ends, well or not, and the response is there; the report
\* follows when getMetadata is done.
Handled(c) ==
  /\ call[c] = "handling"
  /\ call' = [call EXCEPT ![c] = "reporting"]
  /\ UNCHANGED <<setup, settled, Reporter>>

\* enqueue, or its refusal: by hand only, a duplicate, a full queue.
Enqueues(p) == setup.support # "manual_only" /\ p \notin keys /\ Cardinality(queue) < MaxQueue

Report(c) ==
  /\ call[c] = "reporting"
  /\ call' = [call EXCEPT ![c] = "answered"]
  /\ IF Enqueues(c[1])
       THEN /\ queue' = queue \cup {[payment |-> c[1], attempt |-> 0, at |-> "queued"]}
            /\ keys' = keys \cup {c[1]}
       ELSE UNCHANGED <<queue, keys>>
  /\ UNCHANGED <<setup, settled, sending, stray, accepted, rows>>

-----------------------------------------------------------------------------
(* The reporter's drain, one entry at a time. *)

\* An entry whose nextAttemptAt has come.
TakeEntry ==
  /\ sending = NoEntry
  /\ \E e \in queue :
       /\ queue' = queue \ {e}
       /\ sending' = [e EXCEPT !.at = "posted"]
  /\ UNCHANGED <<setup, settled, call, keys, stray, accepted, rows>>

\* X402SettlementEvent: (service, paymentReference) and (service, requestId,
\* reporter) are unique.
Claimed(p) == \E q \in rows : q = p \/ setup.requestOf[q] = setup.requestOf[p]

\* A report whose payment or request id has a row is accepted as a duplicate.
RowsAfter(p) == IF Claimed(p) THEN rows ELSE rows \cup {p}

\* normalizeX402SettlementReport wants auth.payload and auth.signature.
Readable == setup.transport = "own"

\* The route: a body it cannot read is a 400, and signature, owner, rate limit
\* and database may refuse any other.
ReportArrives ==
  /\ sending.at = "posted"
  /\ \/ /\ Readable
        /\ rows' = RowsAfter(sending.payment)
        /\ sending' = [sending EXCEPT !.at = "ok"]
     \/ /\ sending' = [sending EXCEPT !.at = "refused"]
        /\ UNCHANGED rows
  /\ UNCHANGED <<setup, settled, call, queue, keys, stray, accepted>>

\* The connection breaks before the report arrives, or before its answer does.
AnswerLost ==
  /\ sending.at \in {"posted", "ok"}
  /\ sending' = [sending EXCEPT !.at = "unanswered"]
  /\ stray' = IF sending.at = "posted" THEN stray \cup {sending.payment} ELSE stray
  /\ UNCHANGED <<setup, settled, call, queue, keys, accepted, rows>>

StrayArrives(p) ==
  /\ p \in stray
  /\ stray' = stray \ {p}
  /\ rows' \in {rows} \cup IF Readable THEN {RowsAfter(p)} ELSE {}
  /\ UNCHANGED <<setup, settled, call, queue, keys, sending, accepted>>

Answered == sending.at \in {"ok", "refused", "unanswered"}

\* Mutant: result.ok is not looked at.
AnyAnswer(e) == TRUE

Accepts(e) == e.at = "ok"

ReportAccepted ==
  /\ Answered /\ Accepts(sending)
  /\ accepted' = accepted \cup {sending.payment}
  /\ keys' = keys \ {sending.payment}
  /\ sending' = NoEntry
  /\ UNCHANGED <<setup, settled, call, queue, stray, rows>>

\* Only first_class runtimes have delays; an entry out of them is dropped.
HasDelay(e) == setup.support = "first_class" /\ e.attempt < Delays

\* Mutant: the attempt is not counted.
Uncounted(e) == [e EXCEPT !.at = "queued"]

Again(e) == [e EXCEPT !.attempt = @ + 1, !.at = "queued"]

RetryOrDrop ==
  /\ Answered /\ ~Accepts(sending)
  /\ IF HasDelay(sending)
       THEN queue' = queue \cup {Again(sending)} /\ UNCHANGED keys
       ELSE keys' = keys \ {sending.payment} /\ UNCHANGED queue
  /\ sending' = NoEntry
  /\ UNCHANGED <<setup, settled, call, stray, accepted, rows>>

\* The merchant's server restarts: queue and keys were in its memory.
InHand == {c \in Calls : call[c] \in {"settling", "handling", "reporting"}}

X402Crash ==
  /\ keys # {} \/ InHand # {}
  /\ call' = [c \in Calls |-> IF c \in InHand THEN "failed" ELSE call[c]]
  /\ queue' = {} /\ keys' = {} /\ sending' = NoEntry
  /\ stray' = IF sending.at = "posted" THEN stray \cup {sending.payment} ELSE stray
  /\ \E paid \in SUBSET {c[1] : c \in {d \in InHand : call[d] = "settling"}} :
       settled' = settled \cup paid
  /\ UNCHANGED <<setup, accepted, rows>>

X402Next ==
  \/ \E c \in Calls : Send(c) \/ Settle(c) \/ Handled(c) \/ Report(c)
  \/ \E p \in Payments : StrayArrives(p)
  \/ TakeEntry \/ ReportArrives \/ AnswerLost \/ ReportAccepted \/ RetryOrDrop \/ X402Crash

-----------------------------------------------------------------------------
(* Properties. *)

\* What the reporter calls accepted was paid, and Ghost has a row for it, or
\* for another payment under the same request id: through retries, answers
\* that are lost, reports that arrive after a restart, and duplicates.
AcceptedIsRecorded ==
  \A p \in accepted : p \in settled /\ Claimed(p)

\* The reporter is over with every report it takes, and its dedupe key is free
\* again: no refusal, lost answer or full queue keeps it, so a later report of
\* the payment is not turned away as a duplicate of one that is gone.
ReportsEnd ==
  \A p \in Payments : p \in keys ~> p \notin keys

=============================================================================
