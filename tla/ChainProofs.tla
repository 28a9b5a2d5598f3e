----------------------------- MODULE ChainProofs -----------------------------
(***************************************************************************)
(* Theorems of what Ghost holds on chain, and of its mirror. First         *)
(* AgenticCommerce, for every set of accounts, every number of jobs, and   *)
(* all budgets, fees, deadlines and block times; then GhostWire, for every *)
(* number of quotes, requests, calls and ticks, of webhooks and attempts,  *)
(* and for any number of mishaps; last GhostVault, for every set of        *)
(* merchants and settlement ids, batches of every length and every price   *)
(* and cap.                                                                *)
(***************************************************************************)
EXTENDS GhostWire, GhostVault, TotalsProofs, SequenceTheorems, WellFoundedInduction, TLAPS

USE CommerceAssumption

\* What a job's events and payout say of its status, OneOutcome for this job
\* included: a funded job has the event, and only a funded job is completed
\* or expires.
JobSound(job, events, out) ==
  LET settled == job.status \in Terminal /\ "JobFunded" \in events
  IN /\ job.status \in {"None", "Open"} => "JobFunded" \notin events
     /\ job.status \in Holding \cup {"Completed", "Expired"} => "JobFunded" \in events
     /\ ~settled => out = NoPayout
     /\ settled /\ job.status = "Completed" =>
          out.client = 0 /\ out.provider + out.treasury = job.budget
     /\ settled /\ job.status # "Completed" =>
          out = [client |-> job.budget, provider |-> 0, treasury |-> 0]

JobsSound == \A j \in Ids : JobSound(jobs[j], logs[j], released[j])

\* Ids are given out in order.
UnusedJobIds == \A j \in Ids : j > jobCounter => jobs[j].status = "None"

CommerceInv == CommerceTypeOK /\ EscrowCovered /\ JobsSound /\ UnusedJobIds

\* A step that touches one job.
OnlyJob(id) ==
  \A j \in Ids \ {id} : /\ jobs'[j] = jobs[j]
                        /\ logs'[j] = logs[j]
                        /\ released'[j] = released[j]

\* What a job holds in escrow.
Held(job) == IF job.status \in Holding THEN job.budget ELSE 0

-----------------------------------------------------------------------------
(* Arithmetic and totals. *)

\* The fee does not exceed the budget.
LEMMA FeeBounded ==
  ASSUME NEW budget \in Nat, NEW bps \in 0 .. MaxPlatformFeeBP
  PROVE  (budget * bps) \div 10000 \in 0 .. budget
<1>1. budget * bps \in Nat /\ budget * bps <= budget * 10000
  BY DEF MaxPlatformFeeBP
<1> DEFINE product == budget * bps
<1>2. ASSUME NEW p \in Nat, p <= budget * 10000
      PROVE  p \div 10000 \in 0 .. budget
  BY <1>2
<1> QED BY <1>1, <1>2

LEMMA IdsFinite == IsFiniteSet(Ids)
BY FS_Interval DEF Ids

\* The escrow follows the one job a step touches.
LEMMA EscrowFollows ==
  ASSUME jobs \in [Ids -> Jobs], jobs' \in [Ids -> Jobs], EscrowCovered,
         NEW id \in Ids, OnlyJob(id),
         escrow' = escrow - Held(jobs[id]) + Held(jobs'[id])
  PROVE  EscrowCovered'
<1>1. \A j \in Ids : Owed[j] \in Nat
  BY DEF Owed, Jobs
<1>2. \A j \in Ids : Owed'[j] \in Nat
  BY DEF Owed, Jobs
<1>3. \A j \in Ids \ {id} : Owed[j] = Owed'[j]
  BY DEF Owed, OnlyJob
<1>4. Owed[id] = Held(jobs[id]) /\ Owed'[id] = Held(jobs'[id])
  BY DEF Owed, Held
<1>5. Total(Owed', Ids) = Total(Owed, Ids) - Owed[id] + Owed'[id]
  <2> DEFINE f == Owed
             g == Owed'
  <2>1. \A j \in Ids : f[j] \in Nat
    BY <1>1
  <2>2. \A j \in Ids : g[j] \in Nat
    BY <1>2
  <2>3. \A j \in Ids \ {id} : f[j] = g[j]
    BY <1>3
  <2> HIDE DEF f, g
  <2>4. Total(g, Ids) = Total(f, Ids) - f[id] + g[id]
    BY <2>1, <2>2, <2>3, IdsFinite, TotalChange
  <2> QED BY <2>4 DEF f, g
<1> QED BY <1>4, <1>5 DEF EscrowCovered

\* What a job holds is in the escrow.
LEMMA HeldFits ==
  ASSUME jobs \in [Ids -> Jobs], EscrowCovered, NEW id \in Ids
  PROVE  Held(jobs[id]) \in Nat /\ Held(jobs[id]) <= escrow
<1>1. \A j \in Ids : Owed[j] \in Nat
  BY DEF Owed, Jobs
<1>2. Owed[id] = Held(jobs[id])
  BY DEF Owed, Held
<1>3. Owed[id] <= Total(Owed, Ids)
  <2> DEFINE f == Owed
  <2>1. \A j \in Ids : f[j] \in Nat
    BY <1>1
  <2> HIDE DEF f
  <2>2. f[id] <= Total(f, Ids)
    BY <2>1, IdsFinite, TotalChange
  <2> QED BY <2>2 DEF f
<1> QED BY <1>1, <1>2, <1>3 DEF EscrowCovered

-----------------------------------------------------------------------------
(* Steps. *)

\* A step that touches one job keeps the invariant if it keeps the types, the
\* soundness of that job and the balance of the escrow.
LEMMA OneJobSuffices ==
  ASSUME CommerceInv, CommerceTypeOK', NEW id \in Ids, OnlyJob(id),
         jobCounter <= jobCounter', id <= jobCounter',
         escrow' = escrow - Held(jobs[id]) + Held(jobs'[id]),
         JobSound(jobs'[id], logs'[id], released'[id])
  PROVE  CommerceInv'
<1>1. EscrowCovered'
  BY EscrowFollows DEF CommerceInv, CommerceTypeOK
<1>2. JobsSound'
  BY DEF CommerceInv, JobsSound, OnlyJob
<1>3. ASSUME NEW j \in Ids, j > jobCounter' PROVE jobs'[j].status = "None"
  <2>1. jobCounter \in Int /\ jobCounter' \in Int
    BY DEF CommerceInv, CommerceTypeOK
  <2>2. j # id /\ j > jobCounter
    BY <1>3, <2>1 DEF Ids
  <2> QED BY <2>2 DEF CommerceInv, UnusedJobIds, OnlyJob
<1> QED BY <1>1, <1>2, <1>3 DEF CommerceInv, UnusedJobIds

\* A step that touches no job.
LEMMA NoJobSuffices ==
  ASSUME CommerceInv, CommerceTypeOK', UNCHANGED <<jobs, logs, released, escrow, jobCounter>>
  PROVE  CommerceInv'
<1>1. EscrowCovered'
  BY DEF CommerceInv, EscrowCovered, Owed
<1>2. JobsSound'
  BY DEF CommerceInv, JobsSound
<1>3. UnusedJobIds'
  BY DEF CommerceInv, UnusedJobIds
<1> QED BY <1>1, <1>2, <1>3 DEF CommerceInv

\* A job with a status has been created.
LEMMA Created ==
  ASSUME CommerceInv, NEW id \in Ids, jobs[id].status # "None"
  PROVE  id <= jobCounter
BY DEF CommerceInv, CommerceTypeOK, UnusedJobIds, Ids

LEMMA SettingsKeep ==
  ASSUME CommerceInv,
         \/ \E sender \in Admins : Administer(sender)
         \/ Elapse
  PROVE  CommerceInv'
<1>1. CommerceTypeOK'
  <2>1. ASSUME NEW fee \in FeeBps, NEW treasury \in Treasuries, NEW sender, SetPlatformFee(sender, fee, treasury)
        PROVE  CommerceTypeOK'
    BY <2>1 DEF CommerceInv, CommerceTypeOK, SetPlatformFee, purse, MaxPlatformFeeBP
  <2>2. ASSUME NEW sender, Pause(sender) \/ Unpause(sender)
        PROVE  CommerceTypeOK'
    BY <2>2 DEF CommerceInv, CommerceTypeOK, Pause, Unpause, purse
  <2>3. CASE Elapse
    BY <2>3 DEF CommerceInv, CommerceTypeOK, Elapse, settings, purse
  <2> QED BY <2>1, <2>2, <2>3 DEF Administer
<1>2. UNCHANGED <<jobs, logs, released, escrow, jobCounter>>
  BY DEF Administer, SetPlatformFee, Pause, Unpause, Elapse, purse
<1> QED BY <1>1, <1>2, NoJobSuffices

LEMMA CreateJobKeeps ==
  ASSUME CommerceInv, NEW sender \in Clients, NEW provider \in Providers \cup {Zero},
         NEW evaluator \in Evaluators, NEW expiredAt \in Deadlines, NEW terms \in Terms,
         CreateJob(sender, provider, evaluator, expiredAt, terms)
  PROVE  CommerceInv'
<1> DEFINE id == jobCounter + 1
<1>1. id \in Ids
  BY DEF CommerceInv, CommerceTypeOK, CreateJob, Ids
<1>2. jobs[id].status = "None"
  BY <1>1 DEF CommerceInv, CommerceTypeOK, UnusedJobIds, Ids
<1>3. CommerceTypeOK'
  <2>1. jobs' \in [Ids -> Jobs]
    <3>1. [client |-> sender, provider |-> provider, evaluator |-> evaluator, terms |-> terms,
           budget |-> 0, expiredAt |-> expiredAt, status |-> "Open"] \in Jobs
      BY DEF Jobs, Status
    <3> QED BY <1>1, <3>1 DEF CommerceInv, CommerceTypeOK, CreateJob
  <2>2. logs' \in [Ids -> SUBSET Events] /\ named' \in [Ids -> Addresses \cup {Zero}]
    BY <1>1 DEF CommerceInv, CommerceTypeOK, CreateJob, Events
  <2> QED BY <2>1, <2>2 DEF CommerceInv, CommerceTypeOK, CreateJob, settings, purse
<1>4. OnlyJob(id)
  BY <1>1 DEF CommerceInv, CommerceTypeOK, CreateJob, purse, OnlyJob
<1>5. /\ jobs'[id].status = "Open"
      /\ logs'[id] = {"JobCreated"}
      /\ released'[id] = released[id]
      /\ escrow' = escrow
  BY <1>1 DEF CommerceInv, CommerceTypeOK, CreateJob, purse
<1>6. JobSound(jobs'[id], logs'[id], released'[id])
  BY <1>1, <1>2, <1>5 DEF CommerceInv, JobsSound, JobSound, Terminal, Holding
<1>7. escrow' = escrow - Held(jobs[id]) + Held(jobs'[id])
  BY <1>2, <1>5 DEF Held, Holding, CommerceInv, CommerceTypeOK
<1>8. jobCounter <= jobCounter' /\ id <= jobCounter'
  BY DEF CreateJob, CommerceInv, CommerceTypeOK
<1> QED BY <1>1, <1>3, <1>4, <1>6, <1>7, <1>8, OneJobSuffices

\* A job with another provider, budget or status is a job.
LEMMA JobTypes ==
  ASSUME jobs \in [Ids -> Jobs], NEW id \in Ids
  PROVE  /\ \A provider \in Addresses : [jobs EXCEPT ![id].provider = provider] \in [Ids -> Jobs]
         /\ \A amount \in Nat : [jobs EXCEPT ![id].budget = amount] \in [Ids -> Jobs]
         /\ \A status \in Status : [jobs EXCEPT ![id].status = status] \in [Ids -> Jobs]
<1>1. jobs[id] \in Jobs
  OBVIOUS
<1>2. \A provider \in Addresses : [jobs[id] EXCEPT !.provider = provider] \in Jobs
  BY <1>1 DEF Jobs
<1>3. \A amount \in Nat : [jobs[id] EXCEPT !.budget = amount] \in Jobs
  BY <1>1 DEF Jobs
<1>4. \A status \in Status : [jobs[id] EXCEPT !.status = status] \in Jobs
  BY <1>1 DEF Jobs
<1> QED BY <1>2, <1>3, <1>4

\* While a job is open its provider and budget may be set.
LEMMA OpenJobKeeps ==
  ASSUME CommerceInv, NEW sender, NEW id \in Ids,
         \/ \E provider \in Providers : SetProvider(sender, id, provider)
         \/ \E amount \in Budgets : SetBudget(sender, id, amount)
  PROVE  CommerceInv'
<1>1. CommerceTypeOK'
  <2>1. jobs' \in [Ids -> Jobs]
    BY JobTypes DEF CommerceInv, CommerceTypeOK, SetProvider, SetBudget
  <2> QED BY <2>1 DEF CommerceInv, CommerceTypeOK, SetProvider, SetBudget, settings, purse
<1>2. OnlyJob(id)
  BY DEF CommerceInv, CommerceTypeOK, SetProvider, SetBudget, purse, OnlyJob
<1>3. /\ jobs[id].status = "Open" /\ jobs'[id].status = "Open"
      /\ logs'[id] = logs[id] /\ released'[id] = released[id]
      /\ escrow' = escrow /\ jobCounter' = jobCounter
  BY DEF CommerceInv, CommerceTypeOK, Jobs, SetProvider, SetBudget, purse
<1>4. JobSound(jobs'[id], logs'[id], released'[id])
  BY <1>3 DEF CommerceInv, JobsSound, JobSound, Terminal, Holding
<1>5. escrow' = escrow - Held(jobs[id]) + Held(jobs'[id])
  BY <1>3 DEF Held, Holding, CommerceInv, CommerceTypeOK
<1>6. jobCounter <= jobCounter' /\ id <= jobCounter'
  BY <1>3, Created DEF CommerceInv, CommerceTypeOK
<1> QED BY <1>1, <1>2, <1>4, <1>5, <1>6, OneJobSuffices

\* Money comes in.
LEMMA FundKeeps ==
  ASSUME CommerceInv, NEW sender \in Clients, NEW id \in Ids, NEW amount \in Budgets,
         Fund(sender, id, amount)
  PROVE  CommerceInv'
<1> DEFINE budget == jobs[id].budget
<1>1. budget \in Nat /\ budget <= tokens[sender] /\ jobs[id].status = "Open"
  BY DEF CommerceInv, CommerceTypeOK, Jobs, Fund
<1>2. CommerceTypeOK'
  <2>1. jobs' \in [Ids -> Jobs]
    <3>1. "Funded" \in Status
      BY DEF Status
    <3> QED BY <3>1, JobTypes DEF CommerceInv, CommerceTypeOK, Fund
  <2>2. tokens' \in [Addresses -> Nat] /\ escrow' \in Nat
    <3>1. tokens[sender] - budget \in Nat
      BY <1>1 DEF CommerceInv, CommerceTypeOK
    <3> QED BY <1>1, <3>1 DEF CommerceInv, CommerceTypeOK, Fund
  <2>3. logs' \in [Ids -> SUBSET Events]
    BY DEF CommerceInv, CommerceTypeOK, Fund, Events
  <2> QED BY <2>1, <2>2, <2>3 DEF CommerceInv, CommerceTypeOK, Fund, settings
<1>3. OnlyJob(id)
  BY DEF CommerceInv, CommerceTypeOK, Fund, OnlyJob
<1>4. /\ jobs'[id].status = "Funded" /\ jobs'[id].budget = budget
      /\ logs'[id] = logs[id] \cup {"JobFunded"} /\ released'[id] = released[id]
      /\ escrow' = escrow + budget /\ jobCounter' = jobCounter
  BY DEF CommerceInv, CommerceTypeOK, Jobs, Fund
<1>5. JobSound(jobs'[id], logs'[id], released'[id])
  BY <1>1, <1>4 DEF CommerceInv, JobsSound, JobSound, Terminal, Holding
<1>6. escrow' = escrow - Held(jobs[id]) + Held(jobs'[id])
  BY <1>1, <1>4 DEF Held, Holding, CommerceInv, CommerceTypeOK
<1>7. jobCounter <= jobCounter' /\ id <= jobCounter'
  BY <1>1, <1>4, Created DEF CommerceInv, CommerceTypeOK
<1> QED BY <1>2, <1>3, <1>5, <1>6, <1>7, OneJobSuffices

LEMMA SubmitKeeps ==
  ASSUME CommerceInv, NEW sender, NEW id \in Ids, Submit(sender, id)
  PROVE  CommerceInv'
<1>1. CommerceTypeOK'
  <2>1. jobs' \in [Ids -> Jobs]
    <3>1. "Submitted" \in Status
      BY DEF Status
    <3> QED BY <3>1, JobTypes DEF CommerceInv, CommerceTypeOK, Submit
  <2>2. logs' \in [Ids -> SUBSET Events]
    BY DEF CommerceInv, CommerceTypeOK, Submit, Events
  <2> QED BY <2>1, <2>2 DEF CommerceInv, CommerceTypeOK, Submit, settings, purse
<1>2. OnlyJob(id)
  BY DEF CommerceInv, CommerceTypeOK, Submit, purse, OnlyJob
<1>3. /\ jobs[id].status = "Funded"
      /\ jobs'[id].status = "Submitted" /\ jobs'[id].budget = jobs[id].budget
      /\ logs'[id] = logs[id] \cup {"JobSubmitted"} /\ released'[id] = released[id]
      /\ escrow' = escrow /\ jobCounter' = jobCounter
  BY DEF CommerceInv, CommerceTypeOK, Jobs, Submit, purse
<1>4. JobSound(jobs'[id], logs'[id], released'[id])
  BY <1>3 DEF CommerceInv, JobsSound, JobSound, Terminal, Holding
<1>5. escrow' = escrow - Held(jobs[id]) + Held(jobs'[id])
  <2>1. Held(jobs[id]) \in Nat /\ Held(jobs'[id]) = Held(jobs[id])
    BY <1>3, HeldFits DEF Held, Holding, CommerceInv, CommerceTypeOK
  <2> QED BY <1>3, <2>1 DEF CommerceInv, CommerceTypeOK
<1>6. jobCounter <= jobCounter' /\ id <= jobCounter'
  BY <1>3, Created DEF CommerceInv, CommerceTypeOK
<1> QED BY <1>1, <1>2, <1>4, <1>5, <1>6, OneJobSuffices

\* The whole budget of a submitted job goes to provider and treasury.
LEMMA CompleteKeeps ==
  ASSUME CommerceInv, NEW sender, NEW id \in Ids, Complete(sender, id)
  PROVE  CommerceInv'
<1> DEFINE budget == jobs[id].budget
           fee == PlatformFee(id)
           net == NetPayout(id)
<1>1. /\ jobs[id].status = "Submitted"
      /\ budget \in Nat /\ budget <= escrow /\ Held(jobs[id]) = budget
  BY HeldFits DEF CommerceInv, CommerceTypeOK, Complete, Held, Holding, Jobs
<1>2. fee \in Nat /\ net \in Nat /\ net + fee = budget
  <2>1. fee \in 0 .. budget
    <3>1. jobFeeBpsAtFunding[id] \in 0 .. MaxPlatformFeeBP
      BY DEF CommerceInv, CommerceTypeOK
    <3> QED BY <1>1, <3>1, FeeBounded DEF PlatformFee
  <2>2. net = budget - fee
    BY DEF NetPayout
  <2> HIDE DEF fee, net, budget
  <2> QED BY <1>1, <2>1, <2>2
<1>3. released[id] = NoPayout
  BY <1>1 DEF CommerceInv, JobsSound, JobSound, Terminal
<1> HIDE DEF fee, net
<1>4. CommerceTypeOK'
  <2>1. jobs' \in [Ids -> Jobs]
    <3>1. "Completed" \in Status
      BY DEF Status
    <3> QED BY <3>1, JobTypes DEF CommerceInv, CommerceTypeOK, Complete
  <2>2. tokens' \in [Addresses -> Nat]
    <3> DEFINE paid == [tokens EXCEPT ![platformTreasury] = @ + fee]
    <3>1. paid \in [Addresses -> Nat]
      BY <1>2 DEF CommerceInv, CommerceTypeOK
    <3>2. tokens' = [paid EXCEPT ![jobs[id].provider] = @ + net]
      BY DEF Complete, fee, net
    <3> HIDE DEF paid
    <3>3. \A provider \in Addresses \cup {Zero} : [paid EXCEPT ![provider] = @ + net] \in [Addresses -> Nat]
      <4>1. \A a \in Addresses : paid[a] + net \in Nat
        BY <1>2, <3>1
      <4> QED BY <3>1, <4>1
    <3>4. jobs[id].provider \in Addresses \cup {Zero}
      BY DEF CommerceInv, CommerceTypeOK, Jobs
    <3> QED BY <3>2, <3>3, <3>4
  <2>3. escrow' \in Nat
    BY <1>1 DEF CommerceInv, CommerceTypeOK, Complete
  <2>4. released' \in [Ids -> Payouts]
    <3>1. [client |-> 0, provider |-> net, treasury |-> fee] \in Payouts
      BY <1>2 DEF Payouts
    <3>2. released' = [released EXCEPT ![id] = [client |-> 0, provider |-> net, treasury |-> fee]]
      <4>1. released' = [released EXCEPT ![id] =
              [client |-> NoPayout.client, provider |-> NoPayout.provider + net, treasury |-> NoPayout.treasury + fee]]
        BY <1>3 DEF CommerceInv, CommerceTypeOK, Complete, fee, net
      <4>2. NoPayout.client = 0 /\ NoPayout.provider + net = net /\ NoPayout.treasury + fee = fee
        BY <1>2 DEF NoPayout
      <4> QED BY <4>1, <4>2
    <3> QED BY <3>1, <3>2 DEF CommerceInv, CommerceTypeOK
  <2>5. logs' \in [Ids -> SUBSET Events]
    BY DEF CommerceInv, CommerceTypeOK, Complete, Events
  <2> QED BY <2>1, <2>2, <2>3, <2>4, <2>5 DEF CommerceInv, CommerceTypeOK, Complete, settings
<1>5. OnlyJob(id)
  BY DEF CommerceInv, CommerceTypeOK, Complete, OnlyJob
<1>6. /\ jobs'[id].status = "Completed" /\ jobs'[id].budget = budget
      /\ logs'[id] = logs[id] \cup {"JobCompleted"}
      /\ escrow' = escrow - budget /\ jobCounter' = jobCounter
  BY DEF CommerceInv, CommerceTypeOK, Jobs, Complete
<1>7. released'[id].client = 0 /\ released'[id].provider + released'[id].treasury = budget
  BY <1>2, <1>3 DEF CommerceInv, CommerceTypeOK, Complete, NoPayout, fee, net
<1>8. JobSound(jobs'[id], logs'[id], released'[id])
  BY <1>1, <1>6, <1>7 DEF CommerceInv, JobsSound, JobSound, Terminal, Holding
<1>9. escrow' = escrow - Held(jobs[id]) + Held(jobs'[id])
  BY <1>1, <1>6 DEF Held, Holding, CommerceInv, CommerceTypeOK
<1>10. jobCounter <= jobCounter' /\ id <= jobCounter'
  BY <1>1, <1>6, Created DEF CommerceInv, CommerceTypeOK
<1> QED BY <1>4, <1>5, <1>8, <1>9, <1>10, OneJobSuffices

\* The transfer of a whole budget back to the client.
LEMMA RefundMoves ==
  ASSUME CommerceInv, NEW id \in Ids, jobs[id].status \in Holding, Refund(id)
  PROVE  /\ tokens' \in [Addresses -> Nat]
         /\ escrow' \in Nat
         /\ escrow' = escrow - jobs[id].budget
         /\ released' = [released EXCEPT ![id] = [client |-> jobs[id].budget, provider |-> 0, treasury |-> 0]]
         /\ released' \in [Ids -> Payouts]
<1> DEFINE budget == jobs[id].budget
<1>1. budget \in Nat /\ budget <= escrow /\ Held(jobs[id]) = budget
  BY HeldFits DEF CommerceInv, CommerceTypeOK, Held, Holding, Jobs
<1>2. tokens' \in [Addresses -> Nat]
  <2>1. \A a \in Addresses : tokens[a] + budget \in Nat
    BY <1>1 DEF CommerceInv, CommerceTypeOK
  <2> QED BY <2>1 DEF CommerceInv, CommerceTypeOK, Refund
<1>3. released' = [released EXCEPT ![id] = [client |-> budget, provider |-> 0, treasury |-> 0]]
  <2>1. released[id] = NoPayout
    BY DEF CommerceInv, JobsSound, JobSound, Holding, Terminal
  <2>2. [NoPayout EXCEPT !.client = @ + budget] = [client |-> budget, provider |-> 0, treasury |-> 0]
    BY <1>1 DEF NoPayout
  <2>3. released' = [released EXCEPT ![id] = [released[id] EXCEPT !.client = @ + budget]]
    BY DEF CommerceInv, CommerceTypeOK, Refund
  <2> QED BY <2>1, <2>2, <2>3
<1>4. released' \in [Ids -> Payouts]
  <2>1. [client |-> budget, provider |-> 0, treasury |-> 0] \in Payouts
    BY <1>1 DEF Payouts
  <2> QED BY <1>3, <2>1 DEF CommerceInv, CommerceTypeOK
<1>5. escrow' = escrow - budget /\ escrow' \in Nat
  BY <1>1 DEF Refund, CommerceInv, CommerceTypeOK
<1> QED BY <1>2, <1>3, <1>4, <1>5

LEMMA RejectKeeps ==
  ASSUME CommerceInv, NEW sender, NEW id \in Ids, Reject(sender, id)
  PROVE  CommerceInv'
<1> DEFINE budget == jobs[id].budget
<1>1. /\ jobs[id].status \in {"Open", "Submitted"} /\ budget \in Nat
      /\ released[id] = NoPayout
      /\ "JobFunded" \in logs[id] <=> jobs[id].status = "Submitted"
  BY DEF CommerceInv, CommerceTypeOK, Jobs, Reject, JobsSound, JobSound, Terminal, Holding
<1>2. /\ jobs' = [jobs EXCEPT ![id].status = "Rejected"]
      /\ logs' = [logs EXCEPT ![id] = @ \cup {"JobRejected"}]
      /\ UNCHANGED <<jobFeeBpsAtFunding, jobCounter, settings, now, named>>
      /\ IF RefundsOnReject(id) THEN Refund(id) ELSE UNCHANGED purse
  BY DEF Reject
<1>3. /\ tokens' \in [Addresses -> Nat] /\ escrow' \in Nat /\ released' \in [Ids -> Payouts]
      /\ \A j \in Ids \ {id} : released'[j] = released[j]
      /\ escrow' = escrow - Held(jobs[id])
      /\ released'[id] = IF jobs[id].status = "Submitted"
                         THEN [client |-> budget, provider |-> 0, treasury |-> 0] ELSE NoPayout
  <2>1. CASE RefundsOnReject(id)
    <3>1. jobs[id].status = "Submitted" /\ jobs[id].status \in Holding /\ Refund(id)
      BY <1>2, <2>1 DEF RefundsOnReject, Holding
    <3>2. Held(jobs[id]) = budget
      BY <3>1 DEF Held
    <3> QED BY <3>1, <3>2, RefundMoves DEF CommerceInv, CommerceTypeOK
  <2>2. CASE ~RefundsOnReject(id)
    <3>1. UNCHANGED purse
      BY <1>2, <2>2
    <3>2. jobs[id].status = "Open" \/ (jobs[id].status = "Submitted" /\ budget = 0)
      <4>1. ~(jobs[id].status = "Submitted" /\ budget > 0)
        BY <2>2 DEF RefundsOnReject
      <4>2. jobs[id].status \in {"Open", "Submitted"} /\ budget \in Nat
        BY <1>1
      <4> HIDE DEF budget
      <4> QED BY <4>1, <4>2
    <3>3. Held(jobs[id]) = 0
      BY <3>2 DEF Held, Holding
    <3> QED BY <1>1, <3>1, <3>2, <3>3 DEF purse, CommerceInv, CommerceTypeOK, NoPayout
  <2> QED BY <2>1, <2>2
<1>4. CommerceTypeOK'
  <2>1. jobs' \in [Ids -> Jobs]
    <3>1. "Rejected" \in Status
      BY DEF Status
    <3> QED BY <1>2, <3>1, JobTypes DEF CommerceInv, CommerceTypeOK
  <2>2. logs' \in [Ids -> SUBSET Events]
    BY <1>2 DEF CommerceInv, CommerceTypeOK, Events
  <2> QED BY <1>2, <1>3, <2>1, <2>2 DEF CommerceInv, CommerceTypeOK, settings
<1>5. OnlyJob(id)
  BY <1>2, <1>3 DEF CommerceInv, CommerceTypeOK, OnlyJob
<1>6. /\ jobs'[id].status = "Rejected" /\ jobs'[id].budget = budget
      /\ logs'[id] = logs[id] \cup {"JobRejected"}
      /\ jobCounter' = jobCounter
  BY <1>2 DEF CommerceInv, CommerceTypeOK, Jobs
<1>7. JobSound(jobs'[id], logs'[id], released'[id])
  BY <1>1, <1>3, <1>6 DEF JobSound, Terminal, Holding
<1>8. escrow' = escrow - Held(jobs[id]) + Held(jobs'[id])
  BY <1>3, <1>6, HeldFits DEF Held, Holding, CommerceInv, CommerceTypeOK
<1>9. jobCounter <= jobCounter' /\ id <= jobCounter'
  BY <1>1, <1>6, Created DEF CommerceInv, CommerceTypeOK
<1> QED BY <1>4, <1>5, <1>7, <1>8, <1>9, OneJobSuffices

LEMMA ClaimRefundKeeps ==
  ASSUME CommerceInv, NEW sender, NEW id \in Ids, ClaimRefund(sender, id)
  PROVE  CommerceInv'
<1> DEFINE budget == jobs[id].budget
<1>1. /\ jobs[id].status \in Holding /\ jobs[id].status # "None"
      /\ "JobFunded" \in logs[id] /\ Held(jobs[id]) = budget
  BY DEF CommerceInv, ClaimRefund, JobsSound, JobSound, Holding, Held
<1>2. /\ jobs' = [jobs EXCEPT ![id].status = "Expired"]
      /\ logs' = [logs EXCEPT ![id] = @ \cup {"JobExpired"}]
      /\ Refund(id)
      /\ UNCHANGED <<jobFeeBpsAtFunding, jobCounter, settings, now, named>>
  BY DEF ClaimRefund
<1>3. /\ tokens' \in [Addresses -> Nat] /\ escrow' \in Nat /\ released' \in [Ids -> Payouts]
      /\ escrow' = escrow - budget
      /\ released' = [released EXCEPT ![id] = [client |-> budget, provider |-> 0, treasury |-> 0]]
  BY <1>1, <1>2, RefundMoves
<1>4. CommerceTypeOK'
  <2>1. jobs' \in [Ids -> Jobs]
    <3>1. "Expired" \in Status
      BY DEF Status
    <3> QED BY <1>2, <3>1, JobTypes DEF CommerceInv, CommerceTypeOK
  <2>2. logs' \in [Ids -> SUBSET Events]
    BY <1>2 DEF CommerceInv, CommerceTypeOK, Events
  <2> QED BY <1>2, <1>3, <2>1, <2>2 DEF CommerceInv, CommerceTypeOK, settings
<1>5. OnlyJob(id)
  BY <1>2, <1>3 DEF CommerceInv, CommerceTypeOK, OnlyJob
<1>6. /\ jobs'[id].status = "Expired" /\ jobs'[id].budget = budget
      /\ logs'[id] = logs[id] \cup {"JobExpired"}
      /\ released'[id] = [client |-> budget, provider |-> 0, treasury |-> 0]
      /\ jobCounter' = jobCounter
  BY <1>2, <1>3 DEF CommerceInv, CommerceTypeOK, Jobs
<1>7. JobSound(jobs'[id], logs'[id], released'[id])
  BY <1>1, <1>6 DEF JobSound, Terminal, Holding
<1>8. escrow' = escrow - Held(jobs[id]) + Held(jobs'[id])
  BY <1>1, <1>3, <1>6, HeldFits DEF Held, Holding, CommerceInv, CommerceTypeOK
<1>9. jobCounter <= jobCounter' /\ id <= jobCounter'
  BY <1>1, <1>6, Created DEF CommerceInv, CommerceTypeOK
<1> QED BY <1>4, <1>5, <1>7, <1>8, <1>9, OneJobSuffices

-----------------------------------------------------------------------------
LEMMA CommerceInit_Inv ==
  ASSUME CommerceInit
  PROVE  CommerceInv
<1>1. NoJob \in Jobs /\ NoPayout \in Payouts
  BY DEF NoJob, Jobs, Status, NoPayout, Payouts
<1>2. CommerceTypeOK
  <2>1. /\ jobs \in [Ids -> Jobs] /\ released \in [Ids -> Payouts]
        /\ logs \in [Ids -> SUBSET Events] /\ named \in [Ids -> Addresses \cup {Zero}]
    BY <1>1 DEF CommerceInit
  <2>2. jobFeeBpsAtFunding \in [Ids -> 0 .. MaxPlatformFeeBP] /\ platformFeeBP \in 0 .. MaxPlatformFeeBP
    BY DEF CommerceInit, MaxPlatformFeeBP
  <2>3. paused \in BOOLEAN
    BY DEF CommerceInit
  <2> QED BY <2>1, <2>2, <2>3 DEF CommerceInit, CommerceTypeOK
<1>3. EscrowCovered
  <2>1. \A j \in Ids : Owed[j] = 0
    BY DEF CommerceInit, Owed, NoJob, Holding
  <2> QED BY <2>1, TotalZero DEF EscrowCovered, CommerceInit
<1>4. JobsSound
  BY DEF CommerceInit, JobsSound, JobSound, NoJob, Terminal, Holding
<1>5. UnusedJobIds
  BY DEF CommerceInit, UnusedJobIds, NoJob
<1> QED BY <1>2, <1>3, <1>4, <1>5 DEF CommerceInv

LEMMA CommerceNext_Inv ==
  ASSUME CommerceInv, [CommerceNext]_commerce
  PROVE  CommerceInv'
<1>1. CASE \E sender \in Admins : Administer(sender)
  BY <1>1, SettingsKeep
<1>2. CASE Elapse
  BY <1>2, SettingsKeep
<1>3. ASSUME NEW sender \in Clients, Prepare(sender)
      PROVE  CommerceInv'
  <2>1. ASSUME NEW provider \in Providers \cup {Zero}, NEW evaluator \in Evaluators,
               NEW expiredAt \in Deadlines, NEW terms \in Terms,
               CreateJob(sender, provider, evaluator, expiredAt, terms)
        PROVE  CommerceInv'
    BY <2>1, CreateJobKeeps
  <2>2. ASSUME NEW id \in Ids, NEW provider \in Providers, SetProvider(sender, id, provider)
        PROVE  CommerceInv'
    BY <2>2, OpenJobKeeps
  <2>3. ASSUME NEW id \in Ids, NEW amount \in Budgets, SetBudget(sender, id, amount)
        PROVE  CommerceInv'
    BY <2>3, OpenJobKeeps
  <2>4. ASSUME NEW id \in Ids, NEW amount \in Budgets, Fund(sender, id, amount)
        PROVE  CommerceInv'
    BY <2>4, FundKeeps
  <2> QED BY <1>3, <2>1, <2>2, <2>3, <2>4 DEF Prepare
<1>4. ASSUME NEW sender, Perform(sender)
      PROVE  CommerceInv'
  BY <1>4, SubmitKeeps, CompleteKeeps, RejectKeeps, ClaimRefundKeeps DEF Perform
<1>5. CASE UNCHANGED commerce
  <2>1. CommerceTypeOK'
    BY <1>5 DEF CommerceInv, CommerceTypeOK, commerce, settings, purse
  <2> QED BY <1>5, <2>1, NoJobSuffices DEF commerce, purse
<1> QED BY <1>1, <1>2, <1>3, <1>4, <1>5 DEF CommerceNext

LEMMA CommerceInvariant == CommerceSpec => []CommerceInv
<1>1. CommerceInit => CommerceInv
  BY CommerceInit_Inv
<1>2. CommerceInv /\ [CommerceNext]_commerce => CommerceInv'
  BY CommerceNext_Inv
<1> QED BY <1>1, <1>2, PTL DEF CommerceSpec

\* The contract's numbers stay naturals: no transfer is larger than the escrow
\* or than the sender's balance, and the fee never exceeds the budget.
THEOREM CommerceTypeCorrect == CommerceSpec => []CommerceTypeOK
<1>1. CommerceInv => CommerceTypeOK
  BY DEF CommerceInv
<1> QED BY <1>1, CommerceInvariant, PTL

\* The contract holds exactly what it owes.
THEOREM EscrowIsCovered == CommerceSpec => []EscrowCovered
<1>1. CommerceInv => EscrowCovered
  BY DEF CommerceInv
<1> QED BY <1>1, CommerceInvariant, PTL

\* A funded job pays its whole budget out once, to the side its outcome names.
THEOREM PaysOutOnce == CommerceSpec => []OneOutcome
<1>1. CommerceInv => OneOutcome
  BY DEF CommerceInv, JobsSound, JobSound, OneOutcome
<1> QED BY <1>1, CommerceInvariant, PTL

-----------------------------------------------------------------------------
(* Numbers and sequences. *)

LEMMA LeastNumber ==
  ASSUME NEW S \in SUBSET Nat, S # {}
  PROVE  \E x \in S : \A y \in S : x <= y
<1>1. PICK x \in S : \A y \in S : ~(<<y, x>> \in OpToRel(<, Nat))
  BY NatLessThanWellFounded, WFMin
<1>2. \A y \in S : ~(y < x)
  BY <1>1 DEF OpToRel
<1> QED BY <1>2

LEMMA GreatestNumber ==
  ASSUME NEW n \in Nat, NEW S \in SUBSET (0 .. n), S # {}
  PROVE  Max(S) \in S
<1> DEFINE T == {n - x : x \in S}
<1>1. T \in SUBSET Nat /\ T # {}
  <2>1. \A x \in S : n - x \in Nat
    OBVIOUS
  <2>2. \E x \in S : TRUE
    OBVIOUS
  <2> QED BY <2>1, <2>2
<1>2. PICK t \in T : \A u \in T : t <= u
  BY <1>1, LeastNumber
<1>3. PICK x \in S : t = n - x
  BY <1>2
<1>4. \A y \in S : x >= y
  <2> TAKE y \in S
  <2>1. n - y \in T
    OBVIOUS
  <2>2. n - x <= n - y
    <3> HIDE DEF T
    <3> QED BY <1>2, <1>3, <2>1
  <2>3. x \in Nat /\ y \in Nat
    OBVIOUS
  <2> HIDE DEF T
  <2> QED BY <2>2, <2>3
<1> QED BY <1>4 DEF Max

LEMMA Enumerated ==
  ASSUME NEW S, IsFiniteSet(S)
  PROVE  SetToSeq(S) \in Seq(S)
<1>1. Cardinality(S) \in Nat /\ \E f : ExistsBijection(1 .. Cardinality(S), S)
  BY FS_CardinalityType
<1>2. PICK f \in Bijection(1 .. Cardinality(S), S) : TRUE
  BY <1>1 DEF ExistsBijection
<1>3. f \in [1 .. Cardinality(S) -> S] /\ IsInjective(f)
  BY <1>2 DEF Bijection, Injection, IsInjective
<1>4. SetToSeq(S) \in [1 .. Cardinality(S) -> S]
  BY <1>3 DEF SetToSeq
<1> QED BY <1>1, <1>4

-----------------------------------------------------------------------------
(* The life of a job. *)

\* The events of a job in each of the states it can be in.
LifeSound(status, events) ==
  \/ status = "None" /\ events = {}
  \/ status = "Open" /\ events = {"JobCreated"}
  \/ status = "Funded" /\ events = {"JobCreated", "JobFunded"}
  \/ status = "Submitted" /\ events = {"JobCreated", "JobFunded", "JobSubmitted"}
  \/ status = "Completed" /\ events = {"JobCreated", "JobFunded", "JobSubmitted", "JobCompleted"}
  \/ status = "Rejected" /\ events \in {{"JobCreated", "JobRejected"},
                                        {"JobCreated", "JobFunded", "JobSubmitted", "JobRejected"}}
  \/ status = "Expired" /\ events \in {{"JobCreated", "JobFunded", "JobExpired"},
                                       {"JobCreated", "JobFunded", "JobSubmitted", "JobExpired"}}

LivesSound == \A j \in Ids : LifeSound(jobs[j].status, logs[j])

\* A job that has moved on: no event is lost, and once it is funded its client
\* and its budget stay.
Later(job, events, job2, events2) ==
  /\ events \subseteq events2
  /\ "JobFunded" \in events => job2.client = job.client /\ job2.budget = job.budget

-----------------------------------------------------------------------------
LEMMA CreatedLater ==
  ASSUME CommerceInv, LivesSound, NEW sender \in Clients, NEW provider \in Providers \cup {Zero},
         NEW evaluator \in Evaluators, NEW expiredAt \in Deadlines, NEW terms \in Terms,
         CreateJob(sender, provider, evaluator, expiredAt, terms)
  PROVE  LivesSound' /\ \A j \in Ids : Later(jobs[j], logs[j], jobs'[j], logs'[j])
<1> DEFINE id == jobCounter + 1
<1>1. id \in Ids
  BY DEF CommerceInv, CommerceTypeOK, CreateJob, Ids
<1>2. jobs[id].status = "None"
  BY <1>1 DEF CommerceInv, CommerceTypeOK, UnusedJobIds, Ids
<1>3. logs[id] = {}
  BY <1>1, <1>2 DEF LivesSound, LifeSound
<1>4. /\ jobs'[id].status = "Open" /\ logs'[id] = {"JobCreated"}
      /\ \A j \in Ids \ {id} : jobs'[j] = jobs[j] /\ logs'[j] = logs[j]
  <2>1. jobs \in [Ids -> Jobs] /\ logs \in [Ids -> SUBSET Events]
    BY DEF CommerceInv, CommerceTypeOK
  <2>2. /\ \E job : job.status = "Open" /\ jobs' = [jobs EXCEPT ![id] = job]
        /\ logs' = [logs EXCEPT ![id] = {"JobCreated"}]
    BY DEF CreateJob
  <2> HIDE DEF id
  <2> QED BY <1>1, <2>1, <2>2
<1>5. LivesSound'
  BY <1>1, <1>4 DEF LivesSound, LifeSound
<1>6. ASSUME NEW j \in Ids
      PROVE  Later(jobs[j], logs[j], jobs'[j], logs'[j])
  <2>1. CASE j = id
    BY <1>3, <2>1 DEF Later
  <2>2. CASE j # id
    BY <1>4, <2>2 DEF Later
  <2> HIDE DEF id
  <2> QED BY <2>1, <2>2
<1> QED BY <1>5, <1>6

\* The other transactions on a job.
LEMMA OneJobLater ==
  ASSUME CommerceInv, LivesSound, NEW id \in Ids,
         \A j \in Ids \ {id} : jobs'[j] = jobs[j] /\ logs'[j] = logs[j],
         LifeSound(jobs'[id].status, logs'[id]),
         Later(jobs[id], logs[id], jobs'[id], logs'[id])
  PROVE  LivesSound' /\ \A j \in Ids : Later(jobs[j], logs[j], jobs'[j], logs'[j])
<1>1. LivesSound'
  BY DEF LivesSound
<1> QED BY <1>1 DEF Later

LEMMA OpenJobLater ==
  ASSUME CommerceInv, LivesSound, NEW sender, NEW id \in Ids,
         \/ \E provider \in Providers : SetProvider(sender, id, provider)
         \/ \E amount \in Budgets : SetBudget(sender, id, amount)
         \/ \E amount \in Budgets : Fund(sender, id, amount)
  PROVE  LivesSound' /\ \A j \in Ids : Later(jobs[j], logs[j], jobs'[j], logs'[j])
<1>1. /\ jobs \in [Ids -> Jobs] /\ logs \in [Ids -> SUBSET Events]
      /\ jobs[id].status = "Open" /\ jobs[id] \in Jobs
      /\ \A j \in Ids \ {id} : jobs'[j] = jobs[j] /\ logs'[j] = logs[j]
  BY DEF CommerceInv, CommerceTypeOK, SetProvider, SetBudget, Fund
<1>2. logs[id] = {"JobCreated"}
  BY <1>1 DEF LivesSound, LifeSound
<1>3. \/ jobs'[id].status = "Open" /\ logs'[id] = logs[id]
      \/ jobs'[id].status = "Funded" /\ logs'[id] = logs[id] \cup {"JobFunded"}
  BY <1>1 DEF SetProvider, SetBudget, Fund, Jobs
<1>4. LifeSound(jobs'[id].status, logs'[id]) /\ Later(jobs[id], logs[id], jobs'[id], logs'[id])
  BY <1>2, <1>3 DEF LifeSound, Later
<1> QED BY <1>1, <1>4, OneJobLater

LEMMA PerformedLater ==
  ASSUME CommerceInv, LivesSound, NEW sender, Perform(sender)
  PROVE  LivesSound' /\ \A j \in Ids : Later(jobs[j], logs[j], jobs'[j], logs'[j])
<1>1. PICK id \in Ids : Submit(sender, id) \/ Complete(sender, id) \/ Reject(sender, id) \/ ClaimRefund(sender, id)
  BY DEF Perform
<1>2. /\ jobs \in [Ids -> Jobs] /\ logs \in [Ids -> SUBSET Events] /\ jobs[id] \in Jobs
      /\ LifeSound(jobs[id].status, logs[id])
  BY DEF CommerceInv, CommerceTypeOK, LivesSound
<1>3. \A j \in Ids \ {id} : jobs'[j] = jobs[j] /\ logs'[j] = logs[j]
  BY <1>1, <1>2 DEF Submit, Complete, Reject, ClaimRefund
<1>4. \E status \in Status : jobs' = [jobs EXCEPT ![id].status = status]
  BY <1>1 DEF Submit, Complete, Reject, ClaimRefund, Status
<1>5. jobs'[id].client = jobs[id].client /\ jobs'[id].budget = jobs[id].budget
  BY <1>2, <1>4 DEF Jobs
<1>6. \/ /\ jobs[id].status = "Funded" /\ jobs'[id].status = "Submitted"
         /\ logs'[id] = logs[id] \cup {"JobSubmitted"}
      \/ /\ jobs[id].status = "Submitted" /\ jobs'[id].status = "Completed"
         /\ logs'[id] = logs[id] \cup {"JobCompleted"}
      \/ /\ jobs[id].status \in {"Open", "Submitted"} /\ jobs'[id].status = "Rejected"
         /\ logs'[id] = logs[id] \cup {"JobRejected"}
      \/ /\ jobs[id].status \in {"Funded", "Submitted"} /\ jobs'[id].status = "Expired"
         /\ logs'[id] = logs[id] \cup {"JobExpired"}
  BY <1>1, <1>2 DEF Submit, Complete, Reject, ClaimRefund, Jobs
<1>7. LifeSound(jobs'[id].status, logs'[id])
  BY <1>2, <1>6 DEF LifeSound
<1>8. Later(jobs[id], logs[id], jobs'[id], logs'[id])
  BY <1>5, <1>6 DEF Later
<1> QED BY <1>3, <1>7, <1>8, OneJobLater

LEMMA CommerceLater ==
  ASSUME CommerceInv, LivesSound, [CommerceNext]_commerce
  PROVE  LivesSound' /\ \A j \in Ids : Later(jobs[j], logs[j], jobs'[j], logs'[j])
<1>1. CASE \/ \E sender \in Admins : Administer(sender)
           \/ Elapse
           \/ UNCHANGED commerce
  <2>1. UNCHANGED <<jobs, logs>>
    BY <1>1 DEF Administer, SetPlatformFee, Pause, Unpause, Elapse, commerce
  <2> QED BY <2>1 DEF LivesSound, Later
<1>2. ASSUME NEW sender \in Clients, Prepare(sender)
      PROVE  LivesSound' /\ \A j \in Ids : Later(jobs[j], logs[j], jobs'[j], logs'[j])
  BY <1>2, CreatedLater, OpenJobLater DEF Prepare
<1>3. ASSUME NEW sender, Perform(sender)
      PROVE  LivesSound' /\ \A j \in Ids : Later(jobs[j], logs[j], jobs'[j], logs'[j])
  BY <1>3, PerformedLater
<1> QED BY <1>1, <1>2, <1>3 DEF CommerceNext

-----------------------------------------------------------------------------
(* The contract and its confirmed copy. *)

ContractSound(c) ==
  /\ c.jobs \in [Ids -> Jobs]
  /\ c.fees \in [Ids -> 0 .. MaxPlatformFeeBP]
  /\ c.counter \in 0 .. MaxJobs
  /\ c.tokens \in [Addresses -> Nat]
  /\ c.escrow \in Nat
  /\ c.released \in [Ids -> Payouts]
  /\ c.logs \in [Ids -> SUBSET Events]
  /\ c.named \in [Ids -> Addresses \cup {Zero}]
  /\ c.log \in Seq(Ids \X {"JobCreated", "JobFunded"})
  /\ c.escrow = Total([j \in Ids |-> Held(c.jobs[j])], Ids)
  /\ \A j \in Ids : /\ JobSound(c.jobs[j], c.logs[j], c.released[j])
                    /\ LifeSound(c.jobs[j].status, c.logs[j])
                    /\ j > c.counter => c.jobs[j].status = "None"

\* d comes after c.
Onward(c, d) == \A j \in Ids : Later(c.jobs[j], c.logs[j], d.jobs[j], d.logs[j])

ChainInv ==
  /\ CommerceTypeOK
  /\ ContractSound(Contract)
  /\ ContractSound(safe)
  /\ Onward(safe, Contract)

LEMMA ContractIsCommerce ==
  ASSUME CommerceTypeOK
  PROVE  ContractSound(Contract) <=>
           CommerceInv /\ LivesSound /\ log \in Seq(Ids \X {"JobCreated", "JobFunded"})
<1>1. Owed = [j \in Ids |-> Held(jobs[j])]
  BY DEF Owed, Held
<1>2. EscrowCovered <=> escrow = Total([j \in Ids |-> Held(jobs[j])], Ids)
  BY <1>1 DEF EscrowCovered
<1>3. JobsSound /\ LivesSound /\ UnusedJobIds <=>
        \A j \in Ids : /\ JobSound(jobs[j], logs[j], released[j])
                       /\ LifeSound(jobs[j].status, logs[j])
                       /\ j > jobCounter => jobs[j].status = "None"
  BY DEF JobsSound, LivesSound, UnusedJobIds
<1>4. /\ Contract.jobs = jobs /\ Contract.fees = jobFeeBpsAtFunding /\ Contract.counter = jobCounter
      /\ Contract.tokens = tokens /\ Contract.escrow = escrow /\ Contract.released = released
      /\ Contract.logs = logs /\ Contract.named = named /\ Contract.log = log
  BY DEF Contract
<1>5. /\ jobs \in [Ids -> Jobs] /\ jobFeeBpsAtFunding \in [Ids -> 0 .. MaxPlatformFeeBP]
      /\ jobCounter \in 0 .. MaxJobs /\ tokens \in [Addresses -> Nat] /\ escrow \in Nat
      /\ released \in [Ids -> Payouts] /\ logs \in [Ids -> SUBSET Events]
      /\ named \in [Ids -> Addresses \cup {Zero}]
  BY DEF CommerceTypeOK
<1>6. ContractSound(Contract) <=>
        /\ log \in Seq(Ids \X {"JobCreated", "JobFunded"})
        /\ EscrowCovered
        /\ JobsSound /\ LivesSound /\ UnusedJobIds
  BY <1>2, <1>3, <1>4, <1>5 DEF ContractSound
<1> QED BY <1>6 DEF CommerceInv

LEMMA OnwardFromItself == \A c : Onward(c, c)
BY DEF Onward, Later

LEMMA OnwardOnward ==
  ASSUME NEW c, NEW d, NEW e, Onward(c, d), Onward(d, e)
  PROVE  Onward(c, e)
BY DEF Onward, Later

LEMMA MinedIsFinite == IsFiniteSet(Mined)
<1>1. IsFiniteSet({"JobCreated", "JobFunded"})
  <2>1. IsFiniteSet({"JobCreated"})
    BY FS_Singleton
  <2>2. IsFiniteSet({"JobCreated"} \cup {"JobFunded"})
    BY <2>1, FS_AddElement
  <2>3. {"JobCreated", "JobFunded"} = {"JobCreated"} \cup {"JobFunded"}
    OBVIOUS
  <2> QED BY <2>2, <2>3
<1>2. IsFiniteSet(Ids \X {"JobCreated", "JobFunded"})
  BY <1>1, IdsFinite, FS_Product
<1> QED BY <1>2, FS_Subset DEF Mined

LEMMA TransactLater ==
  ASSUME ChainInv, Transact
  PROVE  ChainInv' /\ Onward(safe, safe')
<1>1. CommerceInv /\ LivesSound /\ log \in Seq(Ids \X {"JobCreated", "JobFunded"})
  BY ContractIsCommerce DEF ChainInv
<1>2. CommerceNext /\ log' = log \o SetToSeq(Mined) /\ safe' = safe
  BY DEF Transact
<1>3. CommerceInv'
  BY <1>1, <1>2, CommerceNext_Inv
<1>4. LivesSound' /\ \A j \in Ids : Later(jobs[j], logs[j], jobs'[j], logs'[j])
  BY <1>1, <1>2, CommerceLater
<1>5. log' \in Seq(Ids \X {"JobCreated", "JobFunded"})
  <2>1. SetToSeq(Mined) \in Seq(Mined)
    BY MinedIsFinite, Enumerated
  <2>2. SetToSeq(Mined) \in Seq(Ids \X {"JobCreated", "JobFunded"})
    <3>1. Mined \subseteq Ids \X {"JobCreated", "JobFunded"}
      BY DEF Mined
    <3> HIDE DEF Mined
    <3> QED BY <2>1, <3>1
  <2> HIDE DEF Mined
  <2> QED BY <1>1, <1>2, <2>2
<1>6. CommerceTypeOK'
  BY <1>3 DEF CommerceInv
<1>7. ContractSound(Contract)'
  <2>1. escrow' = Total([j \in Ids |-> Held(jobs'[j])], Ids)
    BY <1>3 DEF CommerceInv, EscrowCovered, Owed, Held
  <2> QED BY <1>3, <1>4, <1>5, <1>6, <2>1
          DEF ContractSound, Contract, CommerceInv, LivesSound, CommerceTypeOK, JobsSound, UnusedJobIds
<1>8. Onward(Contract, Contract')
  BY <1>4 DEF Onward, Contract
<1>9. Onward(safe, Contract')
  BY <1>8, OnwardOnward DEF ChainInv
<1> QED BY <1>2, <1>6, <1>7, <1>9, OnwardFromItself DEF ChainInv

LEMMA ConfirmLater ==
  ASSUME ChainInv, Confirm
  PROVE  ChainInv' /\ Onward(safe, safe')
<1>1. UNCHANGED <<commerce, log>> /\ safe' = Contract
  BY DEF Confirm
<1>2. Contract' = Contract /\ CommerceTypeOK'
  BY <1>1 DEF Contract, commerce, settings, purse, CommerceTypeOK, ChainInv
<1> QED BY <1>1, <1>2, OnwardFromItself DEF ChainInv

LEMMA ReorganiseLater ==
  ASSUME ChainInv, Reorganise
  PROVE  ChainInv' /\ Onward(safe, safe')
<1>1. /\ jobs' = safe.jobs /\ jobFeeBpsAtFunding' = safe.fees /\ jobCounter' = safe.counter
      /\ tokens' = safe.tokens /\ escrow' = safe.escrow /\ released' = safe.released
      /\ logs' = safe.logs /\ named' = safe.named /\ log' = safe.log
      /\ UNCHANGED <<settings, now, safe>>
  BY DEF Reorganise
<1>2. CommerceTypeOK'
  BY <1>1 DEF ChainInv, ContractSound, CommerceTypeOK, settings
<1>3. ContractSound(Contract')
  BY <1>1 DEF ChainInv, ContractSound, Contract
<1>4. Onward(safe, Contract')
  BY <1>1 DEF Onward, Later, Contract
<1> QED BY <1>1, <1>2, <1>3, <1>4, OnwardFromItself DEF ChainInv

LEMMA ChainLater ==
  ASSUME ChainInv, Transact \/ Confirm \/ Reorganise \/ UNCHANGED chain
  PROVE  ChainInv' /\ Onward(safe, safe')
<1>1. CASE UNCHANGED chain
  <2>1. UNCHANGED <<Contract, safe>> /\ CommerceTypeOK'
    BY <1>1 DEF chain, Contract, commerce, settings, purse, CommerceTypeOK, ChainInv
  <2> QED BY <2>1, OnwardFromItself DEF ChainInv
<1> QED BY <1>1, TransactLater, ConfirmLater, ReorganiseLater

-----------------------------------------------------------------------------
USE WireAssumption

(* The invariant of the mirror. The operators on rows, the confirmed        *)
(* contract and the outbox take them as parameters, so that a lemma may     *)
(* speak of two of them.                                                    *)

Final(j, event, sf) == j \in Ids /\ event \in sf.logs[j]

\* FundReceipt, of a confirmed contract sf.
Paid(j, sf) ==
  Final(j, "JobFunded", sf) /\ sf.jobs[j].client = Deal.client /\ sf.jobs[j].budget = Deal.price

RowsType == [Requests -> Row \cup {NoRow}]

OneEach(rs) ==
  \A p, s \in Requests : rs[p] # NoRow /\ rs[s] # NoRow /\ rs[p].quote = rs[s].quote => p = s

AllPaid(rs, sf) ==
  \A r \in Requests : rs[r] # NoRow /\ rs[r].state # "OPEN" => Paid(rs[r].job, sf)

Preparation == {Idle, [at |-> "done"]} \cup [at : {"commit"}, quote : Quotes]

PostSteps ==
  {Idle, [at |-> "done"]}
  \cup [at : {"create"}, row : Requests, create : Ids, fund : {0} \cup Ids, checked : Nat]
  \cup [at : {"fund"}, row : Requests, fund : {0} \cup Ids, job : {0} \cup Ids, checked : Nat]
  \cup [at : {"reconcile"}, row : Requests]

\* What an artifact call knows between two of its transactions.
PostSound(post, rs, sf) ==
  /\ post.at \in {"create", "fund", "reconcile"} => rs[post.row] # NoRow
  /\ post.at = "reconcile" => Paid(rs[post.row].job, sf)

Latest == {"SUBMITTED"} \cup Outcomes

Seekers ==
  [at : {"findcreate", "findfund"}, row : Requests, job : {0} \cup Ids, checked : Nat, artifact : BOOLEAN]

TickSteps ==
  {Idle}
  \cup Seekers
  \cup [at : {"reconcile"}, row : Requests]
  \cup [at : {"receipt", "status"}, row : Requests, job : Ids]
  \cup [at : {"events"}, row : Requests, job : Ids, state : Latest]
  \cup [at : {"write"}, row : Requests, state : Latest]
  \cup [at : {"answer"}, event : Requests \X Follow, attempts : Nat, answer : {"ok", "refused", "failed"}]

\* What a tick knows between two of its transactions: a job it works on is
\* the row's for good, a row whose status it follows is paid, the event it
\* writes is confirmed, and the attempts it counts are not more than were made.
TickSound(k, rs, sf, box) ==
  /\ k.at \notin {"idle", "answer"} => rs[k.row] # NoRow
  /\ k.at = "findfund" => k.job # 0 /\ rs[k.row].job = k.job
  /\ k.at \in {"receipt", "status", "events"} => rs[k.row].job = k.job
  /\ k.at \in {"reconcile", "status", "events", "write"} => Paid(rs[k.row].job, sf)
  /\ k.at = "write" => Final(rs[k.row].job, Announces[k.state], sf)
  /\ k.at = "answer" => k.attempts <= box[k.event].attempts

Webhook == [status : {"NONE", "PENDING", "FAILED", "DELIVERED", "DEAD_LETTER"}, attempts : Nat, refused : BOOLEAN]

OutboxSound(box) ==
  /\ box \in [Requests \X Follow -> Webhook]
  /\ \A e \in Requests \X Follow :
       box[e].status = "DEAD_LETTER" => box[e].refused \/ box[e].attempts >= MaxAttempts

WireInv ==
  /\ ChainInv
  /\ quotes \in [Quotes -> {"NONE", "OPEN", "EXPIRED", "CONSUMED"}]
  /\ prepares \in [Requests -> Preparation]
  /\ rows \in RowsType /\ OneEach(rows) /\ AllPaid(rows, safe)
  /\ \A p \in Requests : Present(p) => prepares[p] = [at |-> "done"]
  /\ posts \in [Posts -> PostSteps] /\ \A c \in Posts : PostSound(posts[c], rows, safe)
  /\ ticks \in [Ticks -> TickSteps] /\ \A t \in Ticks : TickSound(ticks[t], rows, safe, outbox)
  /\ OutboxSound(outbox)
  /\ mishaps \in 0 .. MaxMishaps

-----------------------------------------------------------------------------
(* What the steps have in common. *)

\* No row is removed, and its quote and its job are kept.
RowsKept(rs, rs2) ==
  \A r \in Requests :
    rs[r] # NoRow => /\ rs2[r] # NoRow
                     /\ rs2[r].quote = rs[r].quote
                     /\ rs[r].job # 0 => rs2[r].job = rs[r].job

AttemptsKept(box, box2) == \A e \in Requests \X Follow : box[e].attempts <= box2[e].attempts

\* A write to a row that leaves what is reported of its escrow alone.
Touches(row, row2) ==
  /\ row \in Row /\ row2 \in Row
  /\ row2.quote = row.quote /\ row2.state = row.state /\ row2.disposition = row.disposition
  /\ row.job # 0 => row2.job = row.job

Quiet == \A r \in Requests : rows'[r] = rows[r] \/ Touches(rows[r], rows'[r])

\* A new row.
Inserts(p) ==
  /\ UNCHANGED safe
  /\ ~Present(p)
  /\ \E row \in Row : /\ rows' = [rows EXCEPT ![p] = row]
                      /\ NoJobYet(row.quote)
                      /\ row.state = "OPEN" /\ row.disposition = "NONE" /\ row.job = 0

\* A reconcile.
Reports(r, state) ==
  /\ UNCHANGED safe
  /\ Present(r)
  /\ Paid(rows[r].job, safe)
  /\ state \in DOMAIN Announces
  /\ Final(rows[r].job, Announces[state], safe)
  /\ rows' = [rows EXCEPT ![r] = Reconcile(rows[r], state)]

RowStep ==
  \/ rows' \in RowsType /\ Quiet
  \/ \E p \in Requests : Inserts(p)
  \/ \E r \in Requests, state \in DOMAIN Announces : Reports(r, state)

-----------------------------------------------------------------------------
\* What every step does to the state, but to the webhooks that are given up.
WireStep ==
  /\ Transact \/ Confirm \/ Reorganise \/ UNCHANGED chain
  /\ RowStep
  /\ quotes' \in [Quotes -> {"NONE", "OPEN", "EXPIRED", "CONSUMED"}]
  /\ prepares' \in [Requests -> Preparation]
  /\ \A p \in Requests : rows'[p] # NoRow => prepares'[p] = [at |-> "done"]
  /\ posts' \in [Posts -> PostSteps]
  /\ \A c \in Posts : posts'[c] = posts[c] \/ PostSound(posts'[c], rows', safe')
  /\ ticks' \in [Ticks -> TickSteps]
  /\ \A t \in Ticks : ticks'[t] = ticks[t] \/ TickSound(ticks'[t], rows', safe', outbox')
  /\ OutboxSound(outbox') /\ AttemptsKept(outbox, outbox')
  /\ mishaps' \in 0 .. MaxMishaps

LEMMA PaidLasts ==
  ASSUME NEW sf, NEW sf2, Onward(sf, sf2), NEW j, NEW event
  PROVE  (Final(j, event, sf) => Final(j, event, sf2)) /\ (Paid(j, sf) => Paid(j, sf2))
BY DEF Final, Paid, Onward, Later

LEMMA NoRowIsNoRow == NoRow \notin Row
BY DEF NoRow, Row

LEMMA ReconciledIsRow ==
  ASSUME NEW row \in Row, NEW state \in DOMAIN Announces
  PROVE  /\ Reconcile(row, state) \in Row
         /\ Reconcile(row, state).quote = row.quote
         /\ Reconcile(row, state).job = row.job
         /\ Reconcile(row, state).state = state
         /\ Reconcile(row, state).disposition = IF state \in Outcomes THEN state ELSE row.disposition
<1>1. state \in Mirrored
  BY DEF Announces, Mirrored, Outcomes
<1> QED BY <1>1 DEF Row, Reconcile, Outcomes

LEMMA RowsFollow ==
  ASSUME WireInv, RowStep, Onward(safe, safe')
  PROVE  /\ rows' \in RowsType /\ OneEach(rows') /\ AllPaid(rows', safe')
         /\ RowsKept(rows, rows')
<1> USE DEF Present
<1>1. CASE rows' \in RowsType /\ Quiet
  <2>1. \A r \in Requests : Touches(rows[r], rows'[r]) => rows[r] # NoRow /\ rows'[r] # NoRow
    BY NoRowIsNoRow DEF Touches
  <2>2. rows' \in RowsType
    BY <1>1
  <2>3. RowsKept(rows, rows')
    BY <1>1, <2>1 DEF Quiet, Touches, RowsKept
  <2>4. OneEach(rows')
    BY <1>1, <2>1 DEF Quiet, Touches, OneEach, WireInv
  <2>5. ASSUME NEW r \in Requests, rows'[r] # NoRow, rows'[r].state # "OPEN"
        PROVE  Paid(rows'[r].job, safe')
    <3>1. rows[r] # NoRow /\ rows[r].state # "OPEN" /\ (rows[r].job # 0 => rows'[r].job = rows[r].job)
      BY <1>1, <2>1, <2>5 DEF Quiet, Touches
    <3>2. Paid(rows[r].job, safe)
      BY <3>1 DEF WireInv, AllPaid
    <3>3. rows[r].job # 0
      BY <3>2 DEF Paid, Final, Ids
    <3> QED BY <3>1, <3>2, <3>3, PaidLasts
  <2> QED BY <2>2, <2>3, <2>4, <2>5 DEF AllPaid
<1>2. ASSUME NEW p \in Requests, Inserts(p)
      PROVE  /\ rows' \in RowsType /\ OneEach(rows') /\ AllPaid(rows', safe')
             /\ RowsKept(rows, rows')
  <2>1. PICK row \in Row : /\ rows' = [rows EXCEPT ![p] = row]
                           /\ NoJobYet(row.quote) /\ row.state = "OPEN"
    BY <1>2 DEF Inserts
  <2>2. rows \in RowsType /\ rows[p] = NoRow /\ safe' = safe
    BY <1>2 DEF Inserts, WireInv
  <2>3. rows'[p] = row /\ \A r \in Requests \ {p} : rows'[r] = rows[r]
    BY <2>1, <2>2 DEF RowsType
  <2>4. rows' \in RowsType
    BY <2>1, <2>2 DEF RowsType
  <2>5. RowsKept(rows, rows')
    BY <2>2, <2>3 DEF RowsKept
  <2>6. OneEach(rows')
    BY <2>1, <2>2, <2>3 DEF OneEach, NoJobYet, WireInv
  <2>7. AllPaid(rows', safe')
    BY <2>1, <2>2, <2>3 DEF AllPaid, WireInv
  <2> QED BY <2>4, <2>5, <2>6, <2>7
<1>3. ASSUME NEW r \in Requests, NEW state \in DOMAIN Announces, Reports(r, state)
      PROVE  /\ rows' \in RowsType /\ OneEach(rows') /\ AllPaid(rows', safe')
             /\ RowsKept(rows, rows')
  <2> DEFINE row == Reconcile(rows[r], state)
  <2>1. /\ rows' = [rows EXCEPT ![r] = row] /\ safe' = safe
        /\ rows \in RowsType /\ rows[r] \in Row /\ Paid(rows[r].job, safe)
    BY <1>3 DEF Reports, WireInv, RowsType
  <2>2. row \in Row /\ row.quote = rows[r].quote /\ row.job = rows[r].job
    BY <2>1, ReconciledIsRow
  <2> HIDE DEF row
  <2>3. rows'[r] = row /\ \A s \in Requests \ {r} : rows'[s] = rows[s]
    BY <2>1 DEF RowsType
  <2>4. row # NoRow /\ rows[r] # NoRow
    BY <2>1, <2>2, NoRowIsNoRow
  <2>5. rows' \in RowsType
    BY <2>1, <2>2 DEF RowsType
  <2>6. RowsKept(rows, rows')
    BY <2>2, <2>3, <2>4 DEF RowsKept
  <2>7. OneEach(rows')
    BY <2>2, <2>3, <2>4 DEF OneEach, WireInv
  <2>8. AllPaid(rows', safe')
    BY <2>1, <2>2, <2>3 DEF AllPaid, WireInv
  <2> QED BY <2>5, <2>6, <2>7, <2>8
<1> QED BY <1>1, <1>2, <1>3 DEF RowStep

LEMMA PostLasts ==
  ASSUME NEW post \in PostSteps, NEW rs, NEW sf, NEW rs2, NEW sf2,
         PostSound(post, rs, sf), RowsKept(rs, rs2), Onward(sf, sf2)
  PROVE  PostSound(post, rs2, sf2)
<1>1. post.at \in {"create", "fund", "reconcile"} => post.row \in Requests
  BY DEF PostSteps, Idle
<1>2. post.at \in {"create", "fund", "reconcile"} => rs2[post.row] # NoRow
  BY <1>1 DEF PostSound, RowsKept
<1>3. ASSUME post.at = "reconcile" PROVE Paid(rs2[post.row].job, sf2)
  <2>1. Paid(rs[post.row].job, sf) /\ rs[post.row] # NoRow
    BY <1>3 DEF PostSound
  <2>2. rs2[post.row].job = rs[post.row].job
    BY <1>1, <1>3, <2>1 DEF RowsKept, Paid, Final, Ids
  <2> QED BY <2>1, <2>2, PaidLasts
<1> QED BY <1>2, <1>3 DEF PostSound

LEMMA TickLasts ==
  ASSUME NEW k \in TickSteps, NEW rs, NEW sf, NEW box, NEW rs2, NEW sf2, NEW box2,
         TickSound(k, rs, sf, box), RowsKept(rs, rs2), Onward(sf, sf2), AttemptsKept(box, box2),
         box \in [Requests \X Follow -> Webhook], box2 \in [Requests \X Follow -> Webhook]
  PROVE  TickSound(k, rs2, sf2, box2)
<1>1. k.at \notin {"idle", "answer"} => k.row \in Requests
  BY DEF TickSteps, Seekers, Idle
<1>2. k.at \notin {"idle", "answer"} => rs2[k.row] # NoRow
  BY <1>1 DEF TickSound, RowsKept
<1>3. k.at = "findfund" => k.job # 0 /\ rs2[k.row].job = k.job
  BY <1>1 DEF TickSound, RowsKept
<1>4. k.at \in {"receipt", "status", "events"} => rs2[k.row].job = k.job
  <2>1. k.at \in {"receipt", "status", "events"} => k.job \in Ids
    BY DEF TickSteps, Seekers, Idle
  <2> QED BY <1>1, <2>1 DEF TickSound, RowsKept, Ids
<1>5. ASSUME k.at \in {"reconcile", "status", "events", "write"}
      PROVE  Paid(rs2[k.row].job, sf2) /\ (k.at = "write" => Final(rs2[k.row].job, Announces[k.state], sf2))
  <2>1. Paid(rs[k.row].job, sf) /\ rs[k.row] # NoRow
    BY <1>5 DEF TickSound
  <2>2. rs2[k.row].job = rs[k.row].job
    BY <1>1, <1>5, <2>1 DEF RowsKept, Paid, Final, Ids
  <2> QED BY <2>1, <2>2, PaidLasts DEF TickSound
<1>6. k.at = "answer" => k.attempts <= box2[k.event].attempts
  <2> SUFFICES ASSUME k.at = "answer" PROVE k.attempts <= box2[k.event].attempts
    OBVIOUS
  <2>1. k.event \in Requests \X Follow /\ k.attempts \in Nat
    BY DEF TickSteps, Seekers, Idle
  <2>2. box[k.event].attempts \in Nat /\ box2[k.event].attempts \in Nat
    BY <2>1 DEF Webhook
  <2> QED BY <2>1, <2>2 DEF TickSound, AttemptsKept
<1> QED BY <1>2, <1>3, <1>4, <1>5, <1>6 DEF TickSound

LEMMA StepKeeps ==
  ASSUME WireInv, WireStep
  PROVE  WireInv'
<1>1. ChainInv' /\ Onward(safe, safe')
  BY ChainLater DEF WireInv, WireStep
<1>2. /\ rows' \in RowsType /\ OneEach(rows') /\ AllPaid(rows', safe')
      /\ RowsKept(rows, rows')
  BY <1>1, RowsFollow DEF WireStep
<1>3. ASSUME NEW c \in Posts
      PROVE  PostSound(posts'[c], rows', safe')
  <2>1. CASE posts'[c] = posts[c]
    <3>1. posts[c] \in PostSteps /\ PostSound(posts[c], rows, safe)
      BY DEF WireInv
    <3> QED BY <1>1, <1>2, <2>1, <3>1, PostLasts
  <2> QED BY <2>1 DEF WireStep
<1>4. ASSUME NEW t \in Ticks
      PROVE  TickSound(ticks'[t], rows', safe', outbox')
  <2>1. CASE ticks'[t] = ticks[t]
    <3>1. ticks[t] \in TickSteps /\ TickSound(ticks[t], rows, safe, outbox)
      BY DEF WireInv
    <3>2. outbox \in [Requests \X Follow -> Webhook] /\ outbox' \in [Requests \X Follow -> Webhook]
      BY DEF WireInv, WireStep, OutboxSound
    <3>3. AttemptsKept(outbox, outbox')
      BY DEF WireStep
    <3> QED BY <1>1, <1>2, <2>1, <3>1, <3>2, <3>3, TickLasts
  <2> QED BY <2>1 DEF WireStep
<1> QED BY <1>1, <1>2, <1>3, <1>4 DEF WireInv, WireStep, Present

-----------------------------------------------------------------------------
(* The mirror. *)

\* The states a job has gone through for good.
Past(j, sf) == {"OPEN"} \cup {s \in DOMAIN Announces : Final(j, Announces[s], sf)}

LEMMA PastIsLife ==
  ASSUME NEW sf, ContractSound(sf), NEW j
  PROVE  Past(j, sf) \in Mirror!Lives
<1>1. DOMAIN Announces = {"FUNDED", "SUBMITTED", "COMPLETED", "REJECTED", "EXPIRED"}
  BY DEF Announces
<1>2. CASE j \notin Ids
  <2>1. Past(j, sf) = {"OPEN"}
    BY <1>2 DEF Past, Final
  <2> QED BY <2>1 DEF Mirror!Lives
<1>3. CASE j \in Ids
  <2> DEFINE events == sf.logs[j]
             Has(s) == s \in DOMAIN Announces /\ Announces[s] \in events
  <2>1. LifeSound(sf.jobs[j].status, events)
    BY <1>3 DEF ContractSound
  <2>2. Past(j, sf) = {"OPEN"} \cup {s \in DOMAIN Announces : Announces[s] \in events}
    BY <1>3 DEF Past, Final
  <2>3. /\ Announces["FUNDED"] = "JobFunded" /\ Announces["SUBMITTED"] = "JobSubmitted"
        /\ Announces["COMPLETED"] = "JobCompleted" /\ Announces["REJECTED"] = "JobRejected"
        /\ Announces["EXPIRED"] = "JobExpired"
    BY DEF Announces
  <2> HIDE DEF events
  <2>4. CASE events = {} \/ events = {"JobCreated"}
    <3>1. Past(j, sf) = {"OPEN"}
      BY <1>1, <2>2, <2>3, <2>4
    <3> QED BY <3>1 DEF Mirror!Lives
  <2>5. CASE events = {"JobCreated", "JobFunded"}
    <3>1. Past(j, sf) = {"OPEN", "FUNDED"}
      BY <1>1, <2>2, <2>3, <2>5
    <3> QED BY <3>1 DEF Mirror!Lives
  <2>6. CASE events = {"JobCreated", "JobFunded", "JobSubmitted"}
    <3>1. Past(j, sf) = {"OPEN", "FUNDED", "SUBMITTED"}
      BY <1>1, <2>2, <2>3, <2>6
    <3> QED BY <3>1 DEF Mirror!Lives
  <2>7. CASE events = {"JobCreated", "JobFunded", "JobSubmitted", "JobCompleted"}
    <3>1. Past(j, sf) = {"OPEN", "FUNDED", "SUBMITTED", "COMPLETED"}
      BY <1>1, <2>2, <2>3, <2>7
    <3> QED BY <3>1 DEF Mirror!Lives, Mirror!Outcomes
  <2>8. CASE events = {"JobCreated", "JobRejected"}
    <3>1. Past(j, sf) = {"OPEN", "REJECTED"}
      BY <1>1, <2>2, <2>3, <2>8
    <3> QED BY <3>1 DEF Mirror!Lives
  <2>9. CASE events = {"JobCreated", "JobFunded", "JobSubmitted", "JobRejected"}
    <3>1. Past(j, sf) = {"OPEN", "FUNDED", "SUBMITTED", "REJECTED"}
      BY <1>1, <2>2, <2>3, <2>9
    <3> QED BY <3>1 DEF Mirror!Lives, Mirror!Outcomes
  <2>10. CASE events = {"JobCreated", "JobFunded", "JobExpired"}
    <3>1. Past(j, sf) = {"OPEN", "FUNDED", "EXPIRED"}
      BY <1>1, <2>2, <2>3, <2>10
    <3> QED BY <3>1 DEF Mirror!Lives
  <2>11. CASE events = {"JobCreated", "JobFunded", "JobSubmitted", "JobExpired"}
    <3>1. Past(j, sf) = {"OPEN", "FUNDED", "SUBMITTED", "EXPIRED"}
      BY <1>1, <2>2, <2>3, <2>11
    <3> QED BY <3>1 DEF Mirror!Lives, Mirror!Outcomes
  <2> QED BY <2>1, <2>4, <2>5, <2>6, <2>7, <2>8, <2>9, <2>10, <2>11 DEF LifeSound
<1> QED BY <1>2, <1>3

\* What the mirror shows of a row, in terms of the row.
ReachedOf(row, sf) == IF row # NoRow THEN Past(row.job, sf) ELSE {"OPEN"}
StateOf(row) == IF row # NoRow THEN row.state ELSE "OPEN"
OutcomeOf(row) == IF row # NoRow THEN row.disposition ELSE "NONE"

ReachedNow == [r \in Requests |-> Reached(r)]
MirrorNow == [r \in Requests |-> IF Present(r) THEN rows[r].state ELSE "OPEN"]
OutcomeNow == [r \in Requests |-> IF Present(r) THEN rows[r].disposition ELSE "NONE"]

LEMMA Mapping ==
  /\ ReachedNow = [r \in Requests |-> ReachedOf(rows[r], safe)]
  /\ MirrorNow = [r \in Requests |-> StateOf(rows[r])]
  /\ OutcomeNow = [r \in Requests |-> OutcomeOf(rows[r])]
<1>1. ASSUME NEW r \in Requests
      PROVE  Reached(r) = ReachedOf(rows[r], safe)
  BY DEF Reached, ReachedOf, Past, Present, Confirmed, Final
<1> QED BY <1>1 DEF ReachedNow, MirrorNow, OutcomeNow, StateOf, OutcomeOf, Present

LEMMA MappingNext ==
  /\ ReachedNow' = [r \in Requests |-> ReachedOf(rows'[r], safe')]
  /\ MirrorNow' = [r \in Requests |-> StateOf(rows'[r])]
  /\ OutcomeNow' = [r \in Requests |-> OutcomeOf(rows'[r])]
<1>1. ASSUME NEW r \in Requests
      PROVE  Reached(r)' = ReachedOf(rows'[r], safe')
  BY DEF Reached, ReachedOf, Past, Present, Confirmed, Final
<1> QED BY <1>1 DEF ReachedNow, MirrorNow, OutcomeNow, StateOf, OutcomeOf, Present

LEMMA StepMirrors ==
  ASSUME WireInv, WireStep
  PROVE  Mirror!Next
<1>1. ChainInv' /\ Onward(safe, safe')
  BY ChainLater DEF WireInv, WireStep
<1>2. RowsKept(rows, rows')
  BY <1>1, RowsFollow DEF WireStep
<1>3. ASSUME NEW r \in Requests
      PROVE  /\ ReachedOf(rows'[r], safe') \in Mirror!Lives
             /\ ReachedOf(rows[r], safe) \subseteq ReachedOf(rows'[r], safe')
  <2>1. ContractSound(safe')
    BY <1>1 DEF ChainInv
  <2>2. ReachedOf(rows'[r], safe') \in Mirror!Lives
    BY <2>1, PastIsLife DEF ReachedOf, Mirror!Lives
  <2>3. ASSUME rows[r] # NoRow
        PROVE  Past(rows[r].job, safe) \subseteq Past(rows'[r].job, safe')
    <3>1. \A s : Final(rows[r].job, s, safe) => Final(rows[r].job, s, safe') /\ rows[r].job # 0
      BY <1>1, PaidLasts DEF Final, Ids
    <3>2. rows[r].job # 0 => rows'[r].job = rows[r].job
      BY <1>2, <2>3 DEF RowsKept
    <3> QED BY <3>1, <3>2 DEF Past
  <2>4. rows[r] # NoRow => rows'[r] # NoRow
    BY <1>2 DEF RowsKept
  <2> QED BY <2>2, <2>3, <2>4 DEF ReachedOf, Past
<1>4. ASSUME MirrorNow' = MirrorNow, OutcomeNow' = OutcomeNow
      PROVE  Mirror!Advance
  BY <1>3, <1>4, Mapping, MappingNext DEF Mirror!Advance, ReachedNow, MirrorNow, OutcomeNow
<1>5. CASE Quiet
  <2>1. ASSUME NEW r \in Requests
        PROVE  StateOf(rows'[r]) = StateOf(rows[r]) /\ OutcomeOf(rows'[r]) = OutcomeOf(rows[r])
    BY <1>5, NoRowIsNoRow DEF Quiet, Touches, StateOf, OutcomeOf
  <2>2. MirrorNow' = MirrorNow /\ OutcomeNow' = OutcomeNow
    BY <2>1, Mapping, MappingNext
  <2> QED BY <1>4, <2>2 DEF Mirror!Next
<1>6. ASSUME NEW p \in Requests, Inserts(p)
      PROVE  Mirror!Next
  <2>1. ASSUME NEW r \in Requests
        PROVE  StateOf(rows'[r]) = StateOf(rows[r]) /\ OutcomeOf(rows'[r]) = OutcomeOf(rows[r])
    BY <1>6, NoRowIsNoRow DEF Inserts, StateOf, OutcomeOf, WireInv, RowsType, Present
  <2>2. MirrorNow' = MirrorNow /\ OutcomeNow' = OutcomeNow
    BY <2>1, Mapping, MappingNext
  <2> QED BY <1>4, <2>2 DEF Mirror!Next
<1>7. ASSUME NEW r \in Requests, NEW state \in DOMAIN Announces, Reports(r, state)
      PROVE  Mirror!Next
  <2> DEFINE row == Reconcile(rows[r], state)
  <2>1. /\ rows' = [rows EXCEPT ![r] = row] /\ safe' = safe
        /\ rows \in RowsType /\ rows[r] \in Row /\ rows[r] # NoRow
        /\ Final(rows[r].job, Announces[state], safe)
    BY <1>7 DEF Reports, WireInv, RowsType, Present
  <2>2. /\ row \in Row /\ row.job = rows[r].job /\ row.state = state
        /\ row.disposition = IF state \in Outcomes THEN state ELSE rows[r].disposition
    BY <2>1, ReconciledIsRow
  <2> HIDE DEF row
  <2>3. rows'[r] = row /\ \A s \in Requests \ {r} : rows'[s] = rows[s]
    BY <2>1 DEF RowsType
  <2>4. row # NoRow
    BY <2>2, NoRowIsNoRow
  <2>5. state \in ReachedOf(rows[r], safe) \ {"OPEN"}
    BY <2>1 DEF ReachedOf, Past, Announces
  <2>6. ReachedNow' = ReachedNow
    BY <2>1, <2>2, <2>3, <2>4, Mapping, MappingNext DEF ReachedOf
  <2>7. MirrorNow' = [MirrorNow EXCEPT ![r] = state]
    BY <2>2, <2>3, <2>4, Mapping, MappingNext DEF StateOf
  <2>8. OutcomeNow' = [OutcomeNow EXCEPT ![r] = IF state \in Outcomes THEN state ELSE @]
    BY <2>1, <2>2, <2>3, <2>4, Mapping, MappingNext DEF OutcomeOf
  <2>9. state \in ReachedNow[r] \ {"OPEN"}
    BY <2>5, Mapping
  <2>10. Mirror!Report(r)
    BY <2>6, <2>7, <2>8, <2>9 DEF Mirror!Report, Mirror!Outcomes, Outcomes, ReachedNow, MirrorNow, OutcomeNow
  <2> QED BY <2>10 DEF Mirror!Next
<1> QED BY <1>5, <1>6, <1>7 DEF WireStep, RowStep

-----------------------------------------------------------------------------
(* The writes of the store. *)

\* A write to the rows that inserts none.
RowWrite == RowStep /\ \A p \in Requests : rows'[p] # NoRow => rows[p] # NoRow

BoxWrite == OutboxSound(outbox') /\ AttemptsKept(outbox, outbox')

LEMMA StoreTouches ==
  ASSUME NEW row \in Row
  PROVE  /\ \A j \in Ids, fund, stages \in BOOLEAN, checked \in Nat :
              ~ConflictsWith(row, j) => Touches(row, RecordArtifacts(row, j, fund, stages, checked))
         /\ \A checked \in Nat : Touches(row, FailArtifactValidation(row, checked))
         /\ \A artifact \in BOOLEAN, checked \in Nat : Touches(row, Checkpoint(row, artifact, checked))
         /\ Touches(row, MarkForManualReview(row))
         /\ Touches(row, UpdateWorkflowStage(row))
<1>1. ASSUME NEW j \in Ids, NEW fund \in BOOLEAN, NEW stages \in BOOLEAN, NEW checked \in Nat, ~ConflictsWith(row, j)
      PROVE  Touches(row, RecordArtifacts(row, j, fund, stages, checked))
  BY <1>1 DEF Touches, Row, RecordArtifacts, ConflictsWith
<1>2. ASSUME NEW checked \in Nat
      PROVE  Touches(row, FailArtifactValidation(row, checked))
  BY <1>2 DEF Touches, Row, FailArtifactValidation
<1>3. ASSUME NEW artifact \in BOOLEAN, NEW checked \in Nat
      PROVE  Touches(row, Checkpoint(row, artifact, checked))
  BY <1>3 DEF Touches, Row, Checkpoint
<1>4. Touches(row, MarkForManualReview(row))
  BY DEF Touches, Row, MarkForManualReview
<1>5. Touches(row, UpdateWorkflowStage(row))
  BY DEF Touches, Row, UpdateWorkflowStage
<1> QED BY <1>1, <1>2, <1>3, <1>4, <1>5

LEMMA TouchStep ==
  ASSUME WireInv, NEW r \in Requests, NEW row, Touches(rows[r], row), Update(r, row)
  PROVE  RowWrite /\ rows'[r] = row /\ row # NoRow
<1>1. rows' = [rows EXCEPT ![r] = row] /\ rows \in RowsType /\ row \in Row /\ rows[r] \in Row
  BY DEF Update, WireInv, Touches
<1>2. rows'[r] = row /\ \A s \in Requests \ {r} : rows'[s] = rows[s]
  BY <1>1 DEF RowsType
<1>3. rows' \in RowsType
  BY <1>1 DEF RowsType
<1>4. Quiet
  BY <1>2 DEF Quiet
<1> QED BY <1>1, <1>2, <1>3, <1>4, NoRowIsNoRow DEF RowWrite, RowStep

LEMMA SameRows ==
  ASSUME WireInv, rows' = rows
  PROVE  RowWrite
BY DEF WireInv, RowWrite, RowStep, Quiet

LEMMA SameBox ==
  ASSUME WireInv, outbox' = outbox
  PROVE  BoxWrite
<1>1. \A e \in Requests \X Follow : outbox[e].attempts \in Nat
  BY DEF WireInv, OutboxSound, Webhook
<1> QED BY <1>1 DEF WireInv, BoxWrite, AttemptsKept

LEMMA WrittenBox ==
  ASSUME WireInv, NEW r \in Requests, NEW state, outbox' = Written(outbox, r, state)
  PROVE  BoxWrite
<1>1. CASE outbox' = outbox
  BY <1>1, SameBox
<1>2. CASE state \in Follow /\ outbox[<<r, state>>] = Unused
           /\ outbox' = [outbox EXCEPT ![<<r, state>>].status = "PENDING"]
  <2> DEFINE e == <<r, state>>
             row == [Unused EXCEPT !.status = "PENDING"]
  <2>1. e \in Requests \X Follow /\ outbox \in [Requests \X Follow -> Webhook] /\ outbox[e] = Unused
    BY <1>2 DEF WireInv, OutboxSound
  <2>2. outbox' = [outbox EXCEPT ![e] = row]
    BY <1>2, <2>1
  <2>3. row \in Webhook /\ row.status = "PENDING" /\ row.attempts = 0 /\ Unused.attempts = 0
    BY DEF Unused, Webhook
  <2> HIDE DEF e, row
  <2>4. outbox'[e] = row /\ \A d \in (Requests \X Follow) \ {e} : outbox'[d] = outbox[d]
    BY <2>1, <2>2
  <2>5. outbox' \in [Requests \X Follow -> Webhook]
    BY <2>1, <2>2, <2>3
  <2>6. \A d \in Requests \X Follow : outbox[d].attempts \in Nat
    BY <2>1 DEF Webhook
  <2> QED BY <2>1, <2>3, <2>4, <2>5, <2>6 DEF BoxWrite, OutboxSound, AttemptsKept, WireInv
<1> QED BY <1>1, <1>2 DEF Written

LEMMA ReportStep ==
  ASSUME WireInv, NEW r \in Requests, NEW state \in DOMAIN Announces, Present(r), UNCHANGED safe,
         Paid(rows[r].job, safe), Final(rows[r].job, Announces[state], safe), ReconcileTo(r, state)
  PROVE  RowWrite /\ BoxWrite
<1>1. BoxWrite
  BY WrittenBox DEF ReconcileTo
<1>2. Reports(r, state)
  BY DEF Reports, ReconcileTo, Update
<1>3. rows' = [rows EXCEPT ![r] = Reconcile(rows[r], state)] /\ rows \in RowsType
  BY DEF ReconcileTo, Update, WireInv
<1>4. \A p \in Requests : rows'[p] # NoRow => rows[p] # NoRow
  BY <1>3 DEF RowsType, Present
<1> QED BY <1>1, <1>2, <1>4 DEF RowWrite, RowStep

LEMMA PaidReport ==
  ASSUME WireInv, NEW r \in Requests, Present(r), UNCHANGED safe,
         Paid(rows[r].job, safe), ReconcileTo(r, "FUNDED")
  PROVE  RowWrite /\ BoxWrite
<1>1. "FUNDED" \in DOMAIN Announces /\ Announces["FUNDED"] = "JobFunded"
  BY DEF Announces
<1> QED BY <1>1, ReportStep DEF Paid

LEMMA FundIsPaid ==
  ASSUME ChainInv, NEW j, ValidFund(j), Confirmed(j, "JobFunded")
  PROVE  Paid(j, safe)
BY DEF ValidFund, Confirmed, ChainInv, Onward, Later, Contract, Paid, Final

LEMMA Mishaps ==
  ASSUME mishaps \in 0 .. MaxMishaps, Mishap \/ UNCHANGED mishaps
  PROVE  mishaps' \in 0 .. MaxMishaps
BY DEF Mishap

LEMMA BlockIsNumber ==
  ASSUME ChainInv, NEW j, NEW event
  PROVE  BlockOf(j, event) \in Nat /\ Len(log) \in Nat
<1>1. Len(log) \in Nat
  BY DEF ChainInv, ContractSound, Contract
<1> DEFINE I == {i \in 1 .. Len(log) : log[i] = <<j, event>>}
<1>2. BlockOf(j, event) = IF I # {} THEN Min(I) ELSE 0
  BY DEF BlockOf, SelectInSeq
<1>3. ASSUME I # {} PROVE Min(I) \in I
  <2>1. I \in SUBSET Nat
    BY <1>1
  <2>2. \E x \in I : \A y \in I : x <= y
    <3> HIDE DEF I
    <3> QED BY <1>3, <2>1, LeastNumber
  <2> QED BY <2>2 DEF Min
<1> QED BY <1>1, <1>2, <1>3

-----------------------------------------------------------------------------
LEMMA OnePostSuffices ==
  ASSUME WireInv, UNCHANGED <<chain, quotes, prepares, ticks>>,
         NEW c \in Posts, NEW post \in PostSteps, posts' = [posts EXCEPT ![c] = post],
         PostSound(post, rows', safe'),
         RowWrite, BoxWrite, Mishap \/ UNCHANGED mishaps
  PROVE  WireStep
<1>1. mishaps' \in 0 .. MaxMishaps
  BY Mishaps DEF WireInv
<1> QED BY <1>1 DEF WireInv, WireStep, RowWrite, BoxWrite, Present

LEMMA OneTickSuffices ==
  ASSUME WireInv, UNCHANGED <<chain, quotes, prepares, posts>>,
         NEW t \in Ticks, NEW k \in TickSteps, ticks' = [ticks EXCEPT ![t] = k],
         TickSound(k, rows', safe', outbox'),
         RowWrite, BoxWrite, Mishap \/ UNCHANGED mishaps
  PROVE  WireStep
<1>1. mishaps' \in 0 .. MaxMishaps
  BY Mishaps DEF WireInv
<1> QED BY <1>1 DEF WireInv, WireStep, RowWrite, BoxWrite, Present

LEMMA EndSound ==
  /\ Idle \in TickSteps /\ \A rs, sf, box : TickSound(Idle, rs, sf, box)
  /\ [at |-> "done"] \in PostSteps /\ \A rs, sf : PostSound([at |-> "done"], rs, sf)
BY DEF Idle, TickSteps, TickSound, PostSteps, PostSound

\* A tick that ends.
LEMMA EndSuffices ==
  ASSUME WireInv, UNCHANGED <<chain, quotes, prepares, posts>>,
         NEW t \in Ticks, End(t), RowWrite, BoxWrite, Mishap \/ UNCHANGED mishaps
  PROVE  WireStep
BY EndSound, OneTickSuffices DEF End

LEMMA EndPostSuffices ==
  ASSUME WireInv, UNCHANGED <<chain, quotes, prepares, ticks>>,
         NEW c \in Posts, EndPost(c), RowWrite, BoxWrite, Mishap \/ UNCHANGED mishaps
  PROVE  WireStep
BY EndSound, OnePostSuffices DEF EndPost

-----------------------------------------------------------------------------
LEMMA ChainSteps ==
  ASSUME WireInv, Transact \/ Confirm \/ Reorganise
  PROVE  WireStep
<1>1. BoxWrite /\ UNCHANGED <<quotes, prepares, posts, ticks>>
  BY SameBox DEF Transact, Confirm, Reorganise
<1>2. mishaps' \in 0 .. MaxMishaps
  BY Mishaps DEF Transact, Confirm, Reorganise, MishapIf, WireInv
<1>3. RowWrite
  <2>1. CASE rows' = rows
    BY <2>1, SameRows
  <2>2. CASE Reorganise /\ rows' # rows
    <3>1. rows' = [p \in Requests |->
             IF Present(p) /\ rows[p].checked > Len(safe.log)
             THEN [rows[p] EXCEPT !.checked = Len(safe.log)] ELSE rows[p]]
      BY <2>2 DEF Reorganise
    <3>2. Len(safe.log) \in Nat /\ rows \in RowsType
      BY DEF WireInv, ChainInv, ContractSound
    <3>3. \A row \in Row : Touches(row, [row EXCEPT !.checked = Len(safe.log)])
      BY <3>2 DEF Touches, Row
    <3>4. \A p \in Requests : rows'[p] = rows[p] \/ Touches(rows[p], rows'[p])
      BY <3>1, <3>2, <3>3 DEF RowsType, Present
    <3>5. rows' \in RowsType
      BY <3>1, <3>2, <3>3 DEF RowsType, Touches, Present
    <3>6. \A p \in Requests : rows'[p] # NoRow => rows[p] # NoRow
      BY <3>1 DEF Present
    <3> QED BY <3>4, <3>5, <3>6 DEF RowWrite, RowStep, Quiet
  <2> QED BY <2>1, <2>2 DEF Transact, Confirm
<1> QED BY <1>1, <1>2, <1>3 DEF WireStep, WireInv, RowWrite, BoxWrite, Present

LEMMA QuoteSteps ==
  ASSUME WireInv, NEW q \in Quotes, CreateQuote(q) \/ ExpireQuote(q)
  PROVE  WireStep
<1>1. quotes' \in [Quotes -> {"NONE", "OPEN", "EXPIRED", "CONSUMED"}]
  BY DEF CreateQuote, ExpireQuote, WireInv
<1>2. UNCHANGED <<chain, prepares, rows, posts, ticks, outbox, mishaps>>
  BY DEF CreateQuote, ExpireQuote
<1>3. RowWrite /\ BoxWrite
  BY <1>2, SameRows, SameBox
<1> QED BY <1>1, <1>2, <1>3 DEF WireStep, WireInv, RowWrite, BoxWrite, Present

LEMMA PrepareReadStep ==
  ASSUME WireInv, NEW p \in Requests, NEW q \in Quotes, PrepareRead(p, q)
  PROVE  WireStep
<1>1. UNCHANGED <<chain, quotes, rows, posts, ticks, outbox>>
  BY DEF PrepareRead
<1>2. RowWrite /\ BoxWrite
  BY <1>1, SameRows, SameBox
<1>3. mishaps' \in 0 .. MaxMishaps
  BY Mishaps DEF PrepareRead, MishapIf, WireInv
<1>4. rows[p] = NoRow
  <2>1. prepares[p] # [at |-> "done"]
    BY DEF PrepareRead, Idle
  <2> QED BY <2>1 DEF WireInv, Present
<1>5. /\ prepares' = [prepares EXCEPT ![p] = [at |-> "commit", quote |-> q]]
      /\ [at |-> "commit", quote |-> q] \in Preparation
  BY DEF PrepareRead, Preparation
<1>6. prepares' \in [Requests -> Preparation]
  BY <1>5 DEF WireInv
<1>7. \A r \in Requests : rows'[r] # NoRow => prepares'[r] = [at |-> "done"]
  BY <1>1, <1>4, <1>5 DEF WireInv, Present
<1> QED BY <1>1, <1>2, <1>3, <1>6, <1>7 DEF WireStep, WireInv, RowWrite, BoxWrite

LEMMA PrepareCommitStep ==
  ASSUME WireInv, NEW p \in Requests, PrepareCommit(p)
  PROVE  WireStep
<1> DEFINE q == prepares[p].quote
<1>1. prepares[p].at = "commit" /\ prepares[p] \in Preparation
  BY DEF PrepareCommit, WireInv
<1>2. q \in Quotes /\ prepares[p] # [at |-> "done"]
  BY <1>1 DEF Preparation, Idle
<1>3. rows[p] = NoRow
  BY <1>2 DEF WireInv, Present
<1>4. UNCHANGED <<chain, posts, ticks, mishaps>> /\ prepares' = [prepares EXCEPT ![p] = [at |-> "done"]]
  BY DEF PrepareCommit
<1>5. prepares' \in [Requests -> Preparation]
  BY <1>4 DEF WireInv, Preparation
<1>6. CASE UNCHANGED <<quotes, rows, outbox>>
  <2>1. RowWrite /\ BoxWrite
    BY <1>6, SameRows, SameBox
  <2> QED BY <1>3, <1>4, <1>5, <1>6, <2>1 DEF WireStep, WireInv, RowWrite, BoxWrite, Present
<1>7. CASE ~UNCHANGED <<quotes, rows, outbox>>
  <2>1. PICK deadline \in Deadlines :
          /\ NoJobYet(q)
          /\ rows' = [rows EXCEPT ![p] =
                  [quote |-> q, expiresAt |-> deadline, state |-> "OPEN", disposition |-> "NONE",
                   job |-> 0, fund |-> FALSE, artifact |-> FALSE, stages |-> FALSE,
                   review |-> FALSE, checked |-> 0]]
          /\ quotes' = [quotes EXCEPT ![q] = "CONSUMED"]
          /\ outbox' = Written(outbox, p, "OPEN")
    BY <1>7 DEF PrepareCommit
  <2> DEFINE row == [quote |-> q, expiresAt |-> deadline, state |-> "OPEN", disposition |-> "NONE",
                     job |-> 0, fund |-> FALSE, artifact |-> FALSE, stages |-> FALSE,
                     review |-> FALSE, checked |-> 0]
  <2>2. row \in Row /\ row.quote = q /\ row.state = "OPEN" /\ row.disposition = "NONE" /\ row.job = 0
    BY <1>2 DEF Row, Mirrored
  <2>3. rows' = [rows EXCEPT ![p] = row]
    BY <2>1
  <2> HIDE DEF row
  <2>4. Inserts(p)
    BY <1>3, <1>4, <2>1, <2>2, <2>3 DEF Inserts, Present, chain
  <2>5. BoxWrite
    BY <2>1, WrittenBox
  <2>6. quotes' \in [Quotes -> {"NONE", "OPEN", "EXPIRED", "CONSUMED"}]
    BY <2>1 DEF WireInv
  <2>7. \A r \in Requests : rows'[r] # NoRow => prepares'[r] = [at |-> "done"]
    BY <1>4, <2>3 DEF WireInv, Present, RowsType
  <2> HIDE DEF q
  <2> QED BY <1>4, <1>5, <2>4, <2>5, <2>6, <2>7 DEF WireStep, WireInv, RowStep, BoxWrite
<1> QED BY <1>6, <1>7

-----------------------------------------------------------------------------
(* Artifact calls. *)

LEMMA PostFacts ==
  ASSUME WireInv, NEW c \in Posts
  PROVE  LET post == posts[c] IN
         /\ post \in PostSteps /\ PostSound(post, rows, safe)
         /\ post.at = "create" =>
              /\ post.row \in Requests /\ rows[post.row] \in Row /\ Present(post.row)
              /\ post.create \in Ids /\ post.fund \in {0} \cup Ids /\ post.checked \in Nat
         /\ post.at = "fund" =>
              /\ post.row \in Requests /\ rows[post.row] \in Row /\ Present(post.row)
              /\ post.job \in {0} \cup Ids /\ post.fund \in {0} \cup Ids /\ post.checked \in Nat
         /\ post.at = "reconcile" =>
              /\ post.row \in Requests /\ Present(post.row) /\ Paid(rows[post.row].job, safe)
<1>1. posts[c] \in PostSteps /\ PostSound(posts[c], rows, safe) /\ rows \in RowsType
  BY DEF WireInv
<1> QED BY <1>1 DEF PostSteps, PostSound, RowsType, Idle, Present

LEMMA StartPostStep ==
  ASSUME WireInv, NEW c \in Posts, NEW r \in Requests, NEW create \in {0} \cup Ids, NEW fund \in {0} \cup Ids,
         StartPost(c, r, create, fund)
  PROVE  WireStep
<1>1. UNCHANGED <<chain, quotes, prepares, rows, ticks, outbox, mishaps>> /\ Present(r)
  BY DEF StartPost
<1>2. RowWrite /\ BoxWrite
  BY <1>1, SameRows, SameBox
<1>3. rows[r] \in Row
  BY <1>1 DEF WireInv, RowsType, Present
<1>4. rows[r].job \in {0} \cup Ids /\ rows[r].checked \in Nat
  BY <1>3 DEF Row
<1> DEFINE post == IF create = 0
       THEN [at |-> "fund", row |-> r, fund |-> fund, job |-> rows[r].job, checked |-> rows[r].checked]
       ELSE [at |-> "create", row |-> r, create |-> create, fund |-> fund, checked |-> rows[r].checked]
<1>5. posts' = [posts EXCEPT ![c] = post]
  BY DEF StartPost
<1>6. post \in PostSteps
  BY <1>4 DEF PostSteps
<1>7. post.row = r /\ post.at \in {"create", "fund"}
  OBVIOUS
<1> HIDE DEF post
<1>8. PostSound(post, rows', safe')
  BY <1>1, <1>7 DEF PostSound, Present
<1> QED BY <1>1, <1>2, <1>5, <1>6, <1>8, OnePostSuffices

LEMMA FailPostStep ==
  ASSUME WireInv, NEW c \in Posts, posts[c].at \in {"create", "fund"}, FailPost(c),
         UNCHANGED <<chain, quotes, prepares, ticks, outbox>>, Mishap \/ UNCHANGED mishaps
  PROVE  WireStep
<1> DEFINE post == posts[c]
<1>1. post.row \in Requests /\ rows[post.row] \in Row /\ post.checked \in Nat
  BY PostFacts
<1>2. Update(post.row, FailArtifactValidation(rows[post.row], post.checked)) /\ EndPost(c)
  BY DEF FailPost
<1>3. RowWrite
  BY <1>1, <1>2, StoreTouches, TouchStep
<1> QED BY <1>2, <1>3, SameBox, EndPostSuffices

LEMMA PostCreateStep ==
  ASSUME WireInv, NEW c \in Posts, PostCreate(c)
  PROVE  WireStep
<1> DEFINE post == posts[c]
           j == post.create
           r == post.row
           block == BlockOf(j, "JobCreated")
           row == RecordArtifacts(rows[r], j, FALSE, FALSE, block)
<1>1. post.at = "create" /\ UNCHANGED <<chain, quotes, prepares, ticks, outbox>>
  BY DEF PostCreate
<1>2. CASE FailPost(c) /\ (Mishap \/ UNCHANGED mishaps)
  BY <1>1, <1>2, FailPostStep
<1>3. CASE ~FailPost(c)
  <2>1. /\ ~ConflictsWith(rows[r], j)
        /\ Update(r, row)
        /\ IF post.fund = 0 THEN EndPost(c)
           ELSE posts' = [posts EXCEPT ![c] = [at |-> "fund", row |-> r, fund |-> post.fund,
                                               job |-> j, checked |-> block]]
        /\ UNCHANGED mishaps
    BY <1>1, <1>3 DEF PostCreate
  <2>2. r \in Requests /\ rows[r] \in Row /\ j \in Ids /\ post.fund \in {0} \cup Ids /\ block \in Nat
    BY <1>1, PostFacts, BlockIsNumber DEF WireInv
  <2>3. Touches(rows[r], row)
    BY <2>1, <2>2, StoreTouches
  <2> HIDE DEF row, block
  <2>4. RowWrite /\ rows'[r] # NoRow
    BY <2>1, <2>2, <2>3, TouchStep
  <2>5. BoxWrite
    BY <1>1, SameBox
  <2>6. CASE post.fund = 0
    BY <1>1, <2>1, <2>4, <2>5, <2>6, EndPostSuffices
  <2>7. CASE post.fund # 0
    <3> DEFINE next == [at |-> "fund", row |-> r, fund |-> post.fund, job |-> j, checked |-> block]
    <3>1. posts' = [posts EXCEPT ![c] = next]
      BY <2>1, <2>7
    <3>2. next \in PostSteps /\ next.at = "fund" /\ next.row = r
      BY <2>2 DEF PostSteps
    <3> HIDE DEF next
    <3>3. PostSound(next, rows', safe')
      BY <2>4, <3>2 DEF PostSound
    <3> QED BY <1>1, <2>1, <2>4, <2>5, <3>1, <3>2, <3>3, OnePostSuffices
  <2> QED BY <2>6, <2>7
<1> QED BY <1>1, <1>2, <1>3 DEF PostCreate

LEMMA PostFundStep ==
  ASSUME WireInv, NEW c \in Posts, PostFund(c)
  PROVE  WireStep
<1> DEFINE post == posts[c]
           j == post.job
           r == post.row
           block == BlockOf(j, "JobFunded")
           final == Confirmed(j, "JobFunded")
           row == RecordArtifacts(rows[r], j, TRUE, final, block)
<1>1. post.at = "fund" /\ UNCHANGED <<chain, quotes, prepares, ticks, outbox>>
  BY DEF PostFund
<1>2. CASE FailPost(c) /\ (Mishap \/ UNCHANGED mishaps)
  BY <1>1, <1>2, FailPostStep
<1>3. CASE EndPost(c) /\ UNCHANGED <<rows, mishaps>>
  BY <1>1, <1>3, SameRows, SameBox, EndPostSuffices
<1>4. CASE /\ ValidFund(j) /\ ~ConflictsWith(rows[r], j)
           /\ Update(r, row)
           /\ IF final THEN posts' = [posts EXCEPT ![c] = [at |-> "reconcile", row |-> r]] ELSE EndPost(c)
           /\ UNCHANGED mishaps
  <2>1. j \in Ids
    BY <1>4 DEF ValidFund, Emitted
  <2>2. r \in Requests /\ rows[r] \in Row /\ block \in Nat /\ final \in BOOLEAN
    BY <1>1, PostFacts, BlockIsNumber DEF WireInv, Confirmed
  <2>3. Touches(rows[r], row) /\ row.job = j
    <3>1. ~ConflictsWith(rows[r], j)
      BY <1>4
    <3> HIDE DEF r, j, final, block
    <3>2. Touches(rows[r], row)
      BY <2>1, <2>2, <3>1, StoreTouches
    <3>3. row.job = j
      BY <2>2 DEF Row, RecordArtifacts
    <3> QED BY <3>2, <3>3
  <2> HIDE DEF row, block
  <2>4. RowWrite /\ rows'[r] # NoRow /\ rows'[r].job = j
    BY <1>4, <2>2, <2>3, TouchStep
  <2>5. BoxWrite
    BY <1>1, SameBox
  <2>6. CASE ~final
    BY <1>1, <1>4, <2>4, <2>5, <2>6, EndPostSuffices
  <2>7. CASE final
    <3> DEFINE next == [at |-> "reconcile", row |-> r]
    <3>1. posts' = [posts EXCEPT ![c] = next]
      BY <1>4, <2>7
    <3>2. next \in PostSteps /\ next.at = "reconcile" /\ next.row = r
      BY <2>2 DEF PostSteps
    <3> HIDE DEF next
    <3>3. safe' = safe /\ Paid(j, safe)
      BY <1>1, <1>4, <2>7, FundIsPaid DEF chain, WireInv
    <3>4. PostSound(next, rows', safe')
      BY <2>4, <3>2, <3>3 DEF PostSound
    <3> QED BY <1>1, <1>4, <2>4, <2>5, <3>1, <3>2, <3>4, OnePostSuffices
  <2> QED BY <2>6, <2>7
<1> QED BY <1>1, <1>2, <1>3, <1>4 DEF PostFund

LEMMA PostReconcileStep ==
  ASSUME WireInv, NEW c \in Posts, PostReconcile(c)
  PROVE  WireStep
<1> DEFINE r == posts[c].row
<1>1. /\ posts[c].at = "reconcile" /\ ReconcileTo(r, "FUNDED") /\ EndPost(c)
      /\ UNCHANGED <<chain, quotes, prepares, ticks, mishaps>>
  BY DEF PostReconcile, ReconcileFunded
<1>2. r \in Requests /\ Present(r) /\ Paid(rows[r].job, safe)
  BY <1>1, PostFacts
<1>3. RowWrite /\ BoxWrite
  BY <1>1, <1>2, PaidReport DEF chain
<1> QED BY <1>1, <1>3, EndPostSuffices

LEMMA CrashPostStep ==
  ASSUME WireInv, NEW c \in Posts, CrashPost(c)
  PROVE  WireStep
<1>1. EndPost(c) /\ Mishap /\ UNCHANGED <<chain, quotes, prepares, rows, ticks, outbox>>
  BY DEF CrashPost
<1> QED BY <1>1, SameRows, SameBox, EndPostSuffices

-----------------------------------------------------------------------------
(* Operator ticks. *)

LEMMA TickFacts ==
  ASSUME WireInv, NEW t \in Ticks
  PROVE  LET k == ticks[t] IN
         /\ k \in TickSteps /\ TickSound(k, rows, safe, outbox)
         /\ k.at \notin {"idle", "answer"} =>
              k.row \in Requests /\ rows[k.row] \in Row /\ Present(k.row)
         /\ k.at \in {"findcreate", "findfund"} =>
              /\ k.job \in {0} \cup Ids /\ k.checked \in Nat /\ k.artifact \in BOOLEAN
              /\ k \in Seekers
         /\ k.at \in {"receipt", "status", "events"} => k.job \in Ids
         /\ k.at \in {"events", "write"} => k.state \in Latest
         /\ k.at = "answer" =>
              /\ k.event \in Requests \X Follow /\ k.attempts \in Nat
              /\ k.answer \in {"ok", "refused", "failed"}
<1>1. ticks[t] \in TickSteps /\ TickSound(ticks[t], rows, safe, outbox) /\ rows \in RowsType
  BY DEF WireInv
<1>2. ticks[t].at \notin {"idle", "answer"} => ticks[t].row \in Requests
  BY <1>1 DEF TickSteps, Seekers, Idle
<1>3. ticks[t].at \in {"findcreate", "findfund"} =>
        /\ ticks[t] \in Seekers
        /\ ticks[t].job \in {0} \cup Ids /\ ticks[t].checked \in Nat /\ ticks[t].artifact \in BOOLEAN
  BY <1>1 DEF TickSteps, Seekers, Idle
<1>4. ticks[t].at \notin {"idle", "answer"} => rows[ticks[t].row] \in Row /\ Present(ticks[t].row)
  BY <1>1, <1>2 DEF TickSound, RowsType, Present
<1>5. /\ ticks[t].at \in {"receipt", "status", "events"} => ticks[t].job \in Ids
      /\ ticks[t].at \in {"events", "write"} => ticks[t].state \in Latest
      /\ ticks[t].at = "answer" =>
              /\ ticks[t].event \in Requests \X Follow /\ ticks[t].attempts \in Nat
              /\ ticks[t].answer \in {"ok", "refused", "failed"}
  BY <1>1 DEF TickSteps, Seekers, Idle
<1> QED BY <1>1, <1>2, <1>3, <1>4, <1>5

\* The start of a piece of work.
LEMMA BeginSuffices ==
  ASSUME WireInv, NEW t \in Ticks, NEW k \in TickSteps, TickSound(k, rows, safe, outbox), Begin(t, k),
         UNCHANGED <<chain, quotes, prepares, rows, posts, outbox>>
  PROVE  WireStep
<1>1. ticks' = [ticks EXCEPT ![t] = k] /\ (Mishap \/ UNCHANGED mishaps)
  BY DEF Begin, MishapIf
<1>2. TickSound(k, rows', safe', outbox')
  BY DEF chain
<1> QED BY <1>1, <1>2, SameRows, SameBox, OneTickSuffices

LEMMA ListForRecoveryStep ==
  ASSUME WireInv, NEW t \in Ticks, NEW r \in Requests, ListForRecovery(t, r)
  PROVE  WireStep
<1> DEFINE k == [at |-> IF rows[r].job = 0 THEN "findcreate" ELSE "findfund", row |-> r,
                 job |-> rows[r].job, checked |-> rows[r].checked, artifact |-> rows[r].artifact]
<1>1. /\ Present(r) /\ Begin(t, k)
      /\ UNCHANGED <<chain, quotes, prepares, rows, posts, outbox>>
  BY DEF ListForRecovery
<1>2. rows[r] \in Row
  BY <1>1 DEF WireInv, RowsType, Present
<1>3. rows[r].job \in {0} \cup Ids /\ rows[r].checked \in Nat /\ rows[r].artifact \in BOOLEAN
  BY <1>2 DEF Row
<1>4. k \in TickSteps
  BY <1>3 DEF TickSteps, Seekers
<1>5. TickSound(k, rows, safe, outbox)
  BY <1>1 DEF TickSound, Present
<1> HIDE DEF k
<1> QED BY <1>1, <1>4, <1>5, BeginSuffices

LEMMA NothingFoundStep ==
  ASSUME WireInv, NEW t \in Ticks, ticks[t].at \in {"findcreate", "findfund"}, NothingFound(t),
         UNCHANGED <<chain, quotes, prepares, posts, outbox>>, Mishap \/ UNCHANGED mishaps
  PROVE  WireStep
<1> DEFINE k == ticks[t]
<1>1. /\ k.row \in Requests /\ rows[k.row] \in Row /\ k.artifact \in BOOLEAN
  BY TickFacts
<1>2. Len(log) \in Nat
  BY BlockIsNumber DEF WireInv
<1>3. Update(k.row, Checkpoint(rows[k.row], k.artifact, Len(log))) /\ End(t)
  BY DEF NothingFound
<1>4. RowWrite
  BY <1>1, <1>2, <1>3, StoreTouches, TouchStep
<1> QED BY <1>3, <1>4, SameBox, EndSuffices

LEMMA FindCreateStep ==
  ASSUME WireInv, NEW t \in Ticks, FindCreate(t)
  PROVE  WireStep
<1> DEFINE k == ticks[t]
           r == k.row
           found == {log[i][1] : i \in {i \in Unchecked(t, "JobCreated") :
                      ValidCreate(r, log[i][1]) /\ ~ConflictsWith(rows[r], log[i][1])}}
           j == Max(found)
           last == Len(log)
           row == RecordArtifacts(rows[r], j, FALSE, FALSE, last)
           next == [k EXCEPT !.at = "findfund", !.job = j]
<1>1. k.at = "findcreate" /\ UNCHANGED <<chain, quotes, prepares, posts, outbox>>
  BY DEF FindCreate
<1>2. CASE NothingFound(t) /\ (Mishap \/ UNCHANGED mishaps)
  BY <1>1, <1>2, NothingFoundStep
<1>3. CASE /\ found # {}
           /\ Update(r, row)
           /\ ticks' = [ticks EXCEPT ![t].at = "findfund", ![t].job = j]
           /\ UNCHANGED mishaps
  <2>1. r \in Requests /\ rows[r] \in Row /\ k \in Seekers
    BY <1>1, TickFacts
  <2>2. found \subseteq Ids /\ \A i \in found : ~ConflictsWith(rows[r], i)
    BY DEF ValidCreate, Emitted
  <2>3. j \in found
    <3>1. found \in SUBSET (0 .. MaxJobs) /\ MaxJobs \in Nat
      BY <2>2 DEF Ids
    <3> HIDE DEF found
    <3> QED BY <1>3, <3>1, GreatestNumber
  <2> HIDE DEF found, j
  <2>4. j \in Ids /\ ~ConflictsWith(rows[r], j) /\ last \in Nat
    BY <2>2, <2>3, BlockIsNumber DEF WireInv
  <2>5. Touches(rows[r], row) /\ row.job = j
    <3>1. FALSE \in BOOLEAN
      OBVIOUS
    <3> HIDE DEF r, last
    <3>2. Touches(rows[r], row)
      BY <2>1, <2>4, <3>1, StoreTouches
    <3>3. row.job = j
      BY <2>1 DEF Row, RecordArtifacts
    <3> QED BY <3>2, <3>3
  <2> HIDE DEF row
  <2>6. RowWrite /\ rows'[r] # NoRow /\ rows'[r].job = j
    BY <1>3, <2>1, <2>5, TouchStep
  <2>7. next \in Seekers /\ next.at = "findfund" /\ next.row = r /\ next.job = j
    BY <2>1, <2>4 DEF Seekers
  <2>8. ticks' = [ticks EXCEPT ![t] = next]
    <3>1. ticks \in [Ticks -> TickSteps]
      BY DEF WireInv
    <3> QED BY <1>3, <3>1
  <2> HIDE DEF next
  <2>9. next \in TickSteps
    BY <2>7 DEF TickSteps
  <2>10. TickSound(next, rows', safe', outbox')
    BY <2>4, <2>6, <2>7 DEF TickSound, Ids
  <2> QED BY <1>1, <1>3, <2>6, <2>8, <2>9, <2>10, SameBox, OneTickSuffices
<1> QED BY <1>1, <1>2, <1>3 DEF FindCreate

LEMMA FindFundStep ==
  ASSUME WireInv, NEW t \in Ticks, FindFund(t)
  PROVE  WireStep
<1> DEFINE k == ticks[t]
           r == k.row
           j == k.job
           last == Len(log)
           final == Confirmed(j, "JobFunded")
           row == RecordArtifacts(rows[r], j, TRUE, final, last)
<1>1. k.at = "findfund" /\ UNCHANGED <<chain, quotes, prepares, posts, outbox>>
  BY DEF FindFund
<1>2. CASE NothingFound(t) /\ (Mishap \/ UNCHANGED mishaps)
  BY <1>1, <1>2, NothingFoundStep
<1>3. CASE /\ ValidFund(j) /\ ~ConflictsWith(rows[r], j)
           /\ Update(r, row)
           /\ IF final THEN ticks' = [ticks EXCEPT ![t] = [at |-> "reconcile", row |-> r]] ELSE End(t)
           /\ UNCHANGED mishaps
  <2>1. j \in Ids
    BY <1>3 DEF ValidFund, Emitted
  <2>2. r \in Requests /\ rows[r] \in Row /\ last \in Nat /\ final \in BOOLEAN
    BY <1>1, TickFacts, BlockIsNumber DEF WireInv, Confirmed
  <2>3. Touches(rows[r], row) /\ row.job = j
    <3>1. ~ConflictsWith(rows[r], j)
      BY <1>3
    <3> HIDE DEF r, j, final, last
    <3>2. Touches(rows[r], row)
      BY <2>1, <2>2, <3>1, StoreTouches
    <3>3. row.job = j
      BY <2>2 DEF Row, RecordArtifacts
    <3> QED BY <3>2, <3>3
  <2> HIDE DEF row
  <2>4. RowWrite /\ rows'[r] # NoRow /\ rows'[r].job = j
    BY <1>3, <2>2, <2>3, TouchStep
  <2>5. BoxWrite
    BY <1>1, SameBox
  <2>6. CASE ~final
    BY <1>1, <1>3, <2>4, <2>5, <2>6, EndSuffices
  <2>7. CASE final
    <3> DEFINE next == [at |-> "reconcile", row |-> r]
    <3>1. ticks' = [ticks EXCEPT ![t] = next]
      BY <1>3, <2>7
    <3>2. next \in TickSteps /\ next.at = "reconcile" /\ next.row = r
      BY <2>2 DEF TickSteps
    <3> HIDE DEF next
    <3>3. safe' = safe /\ Paid(j, safe)
      BY <1>1, <1>3, <2>7, FundIsPaid DEF chain, WireInv
    <3>4. TickSound(next, rows', safe', outbox')
      BY <2>4, <3>2, <3>3 DEF TickSound
    <3> QED BY <1>1, <1>3, <2>4, <2>5, <3>1, <3>2, <3>4, OneTickSuffices
  <2> QED BY <2>6, <2>7
<1> QED BY <1>1, <1>2, <1>3 DEF FindFund

LEMMA RecoveryReconcileStep ==
  ASSUME WireInv, NEW t \in Ticks, RecoveryReconcile(t)
  PROVE  WireStep
<1> DEFINE r == ticks[t].row
<1>1. /\ ticks[t].at = "reconcile" /\ ReconcileTo(r, "FUNDED") /\ End(t)
      /\ UNCHANGED <<chain, quotes, prepares, posts, mishaps>>
  BY DEF RecoveryReconcile, ReconcileFunded
<1>2. r \in Requests /\ Present(r) /\ Paid(rows[r].job, safe)
  BY <1>1, TickFacts DEF TickSound
<1>3. RowWrite /\ BoxWrite
  BY <1>1, <1>2, PaidReport DEF chain
<1> QED BY <1>1, <1>3, EndSuffices

LEMMA ListWorkStep ==
  ASSUME WireInv, NEW t \in Ticks, NEW r \in Requests, ListWork(t, r)
  PROVE  WireStep
<1> DEFINE k == [at |-> IF rows[r].state = "OPEN" THEN "receipt" ELSE "status", row |-> r, job |-> rows[r].job]
<1>1. /\ Present(r) /\ rows[r].job # 0 /\ Begin(t, k)
      /\ UNCHANGED <<chain, quotes, prepares, rows, posts, outbox>>
  BY DEF ListWork, NeedsWork
<1>2. rows[r] \in Row
  BY <1>1 DEF WireInv, RowsType, Present
<1>3. rows[r].job \in Ids
  BY <1>1, <1>2 DEF Row
<1>4. k \in TickSteps
  BY <1>3 DEF TickSteps, Seekers
<1>5. rows[r].state # "OPEN" => Paid(rows[r].job, safe)
  BY <1>1 DEF WireInv, AllPaid, Present
<1>6. TickSound(k, rows, safe, outbox)
  BY <1>1, <1>5 DEF TickSound, Present
<1> HIDE DEF k
<1> QED BY <1>1, <1>4, <1>6, BeginSuffices

\* A tick that flags the row and ends.
LEMMA TouchAndEnd ==
  ASSUME WireInv, NEW t \in Ticks, ticks[t].at \notin {"idle", "answer"},
         NEW row, Touches(rows[ticks[t].row], row), Update(ticks[t].row, row), End(t),
         UNCHANGED <<chain, quotes, prepares, posts, outbox>>, Mishap \/ UNCHANGED mishaps
  PROVE  WireStep
<1>1. ticks[t].row \in Requests
  BY TickFacts
<1>2. RowWrite
  BY <1>1, TouchStep
<1> QED BY <1>2, SameBox, EndSuffices

LEMMA ReadReceiptStep ==
  ASSUME WireInv, NEW t \in Ticks, ReadReceipt(t)
  PROVE  WireStep
<1> DEFINE r == ticks[t].row
           j == ticks[t].job
<1>1. ticks[t].at = "receipt" /\ End(t) /\ UNCHANGED <<chain, quotes, prepares, posts>>
  BY DEF ReadReceipt
<1>2. r \in Requests /\ rows[r] \in Row /\ Present(r) /\ rows[r].job = j /\ Len(log) \in Nat
  BY <1>1, TickFacts, BlockIsNumber DEF TickSound, WireInv
<1>3. CASE FundReceipt(j) /\ ReconcileFunded(r) /\ UNCHANGED mishaps
  <2>1. Paid(rows[r].job, safe)
    BY <1>2, <1>3 DEF FundReceipt, Confirmed, Paid, Final
  <2>2. RowWrite /\ BoxWrite
    BY <1>1, <1>2, <1>3, <2>1, PaidReport DEF chain, ReconcileFunded
  <2> QED BY <1>1, <1>3, <2>2, EndSuffices
<1>4. CASE Update(r, UpdateWorkflowStage(rows[r])) /\ UNCHANGED outbox /\ (Mishap \/ UNCHANGED mishaps)
  BY <1>1, <1>2, <1>4, StoreTouches, TouchAndEnd
<1>5. CASE Update(r, FailArtifactValidation(rows[r], Len(log))) /\ UNCHANGED <<outbox, mishaps>>
  BY <1>1, <1>2, <1>5, StoreTouches, TouchAndEnd
<1> QED BY <1>3, <1>4, <1>5 DEF ReadReceipt

LEMMA ReadStatusStep ==
  ASSUME WireInv, NEW t \in Ticks, ReadStatus(t)
  PROVE  WireStep
<1> DEFINE k == ticks[t]
           r == k.row
           status == Mapped[jobs[k.job].status]
<1>1. k.at = "status" /\ UNCHANGED <<chain, quotes, prepares, posts, outbox, mishaps>>
  BY DEF ReadStatus
<1>2. /\ r \in Requests /\ rows[r] \in Row /\ Present(r) /\ k.job \in Ids
      /\ rows[r].job = k.job /\ Paid(rows[r].job, safe)
  BY <1>1, TickFacts DEF TickSound
<1>3. CASE Update(r, MarkForManualReview(rows[r])) /\ End(t)
  BY <1>1, <1>2, <1>3, StoreTouches, TouchAndEnd
<1>4. CASE End(t) /\ UNCHANGED rows
  BY <1>1, <1>4, SameRows, SameBox, EndSuffices
<1>5. CASE /\ status \notin {"OPEN", "FUNDED"}
           /\ ticks' = [ticks EXCEPT ![t] = [at |-> "events", row |-> @.row, job |-> @.job, state |-> status]]
           /\ UNCHANGED rows
  <2> DEFINE next == [at |-> "events", row |-> r, job |-> k.job, state |-> status]
  <2>1. status \in Latest
    <3>1. jobs[k.job].status \in Status
      <4>1. jobs[k.job] \in Jobs
        BY <1>2 DEF WireInv, ChainInv, CommerceTypeOK
      <4> QED BY <4>1 DEF Jobs
    <3> QED BY <1>5, <3>1 DEF Status, Mapped, Latest, Outcomes
  <2>2. ticks' = [ticks EXCEPT ![t] = next]
    <3>1. ticks \in [Ticks -> TickSteps]
      BY DEF WireInv
    <3> QED BY <1>5, <3>1
  <2> HIDE DEF status
  <2>3. next \in TickSteps
    BY <1>2, <2>1 DEF TickSteps
  <2>4. next.at = "events" /\ next.row = r /\ next.job = k.job
    OBVIOUS
  <2> HIDE DEF next
  <2>5. TickSound(next, rows', safe', outbox')
    BY <1>1, <1>2, <1>5, <2>4 DEF TickSound, Present, chain
  <2> QED BY <1>1, <1>5, <2>2, <2>3, <2>5, SameRows, SameBox, OneTickSuffices
<1> QED BY <1>3, <1>4, <1>5 DEF ReadStatus

LEMMA ReadEventsStep ==
  ASSUME WireInv, NEW t \in Ticks, ReadEvents(t)
  PROVE  WireStep
<1> DEFINE k == ticks[t]
           r == k.row
           next == [at |-> "write", row |-> r, state |-> k.state]
<1>1. k.at = "events" /\ UNCHANGED <<chain, quotes, prepares, posts, outbox, mishaps>>
  BY DEF ReadEvents
<1>2. /\ r \in Requests /\ rows[r] \in Row /\ Present(r) /\ k.job \in Ids /\ k.state \in Latest
      /\ rows[r].job = k.job /\ Paid(rows[r].job, safe)
  BY <1>1, TickFacts DEF TickSound
<1>3. CASE Update(r, MarkForManualReview(rows[r])) /\ End(t)
  BY <1>1, <1>2, <1>3, StoreTouches, TouchAndEnd
<1>4. CASE Update(r, UpdateWorkflowStage(rows[r])) /\ End(t)
  BY <1>1, <1>2, <1>4, StoreTouches, TouchAndEnd
<1>5. CASE EventIsFinal(k.job, k.state) /\ ticks' = [ticks EXCEPT ![t] = next] /\ UNCHANGED rows
  <2>1. next \in TickSteps /\ next.at = "write" /\ next.row = r /\ next.state = k.state
    BY <1>2 DEF TickSteps
  <2> HIDE DEF next
  <2>2. Final(rows[r].job, Announces[k.state], safe)
    BY <1>2, <1>5 DEF EventIsFinal, Confirmed, Final
  <2>3. TickSound(next, rows', safe', outbox')
    BY <1>1, <1>2, <1>5, <2>1, <2>2 DEF TickSound, Present, chain
  <2> QED BY <1>1, <1>5, <2>1, <2>3, SameRows, SameBox, OneTickSuffices
<1> QED BY <1>3, <1>4, <1>5 DEF ReadEvents

LEMMA WriteStateStep ==
  ASSUME WireInv, NEW t \in Ticks, WriteState(t)
  PROVE  WireStep
<1> DEFINE k == ticks[t]
           r == k.row
<1>1. /\ k.at = "write" /\ ReconcileTo(r, k.state) /\ End(t)
      /\ UNCHANGED <<chain, quotes, prepares, posts, mishaps>>
  BY DEF WriteState
<1>2. /\ r \in Requests /\ Present(r) /\ k.state \in Latest
      /\ Paid(rows[r].job, safe) /\ Final(rows[r].job, Announces[k.state], safe)
  BY <1>1, TickFacts DEF TickSound
<1>3. k.state \in DOMAIN Announces
  BY <1>2 DEF Latest, Outcomes, Announces
<1>4. RowWrite /\ BoxWrite
  BY <1>1, <1>2, <1>3, ReportStep DEF chain
<1> QED BY <1>1, <1>4, EndSuffices

LEMMA SendWebhookStep ==
  ASSUME WireInv, NEW t \in Ticks, NEW e \in DOMAIN outbox, SendWebhook(t, e)
  PROVE  WireStep
<1>1. PICK answer \in {"ok", "refused", "failed"} :
        Begin(t, [at |-> "answer", event |-> e, attempts |-> outbox[e].attempts, answer |-> answer])
  BY DEF SendWebhook
<1> DEFINE k == [at |-> "answer", event |-> e, attempts |-> outbox[e].attempts, answer |-> answer]
<1>2. e \in Requests \X Follow /\ outbox[e].attempts \in Nat
  BY DEF WireInv, OutboxSound, Webhook
<1>3. k \in TickSteps
  BY <1>2 DEF TickSteps
<1>4. TickSound(k, rows, safe, outbox)
  BY <1>2 DEF TickSound
<1>5. Begin(t, k)
  BY <1>1
<1> HIDE DEF k
<1> QED BY <1>3, <1>4, <1>5, BeginSuffices DEF SendWebhook

LEMMA RecordDeliveryStep ==
  ASSUME WireInv, NEW t \in Ticks, RecordDelivery(t)
  PROVE  WireStep
<1> DEFINE k == ticks[t]
           e == k.event
           status == CASE k.answer = "ok" -> "DELIVERED"
                       [] k.answer = "refused" -> "DEAD_LETTER"
                       [] k.answer = "failed" -> IF Exhausted(t) THEN "DEAD_LETTER" ELSE "FAILED"
           webhook == [status |-> status, attempts |-> outbox[e].attempts + 1,
                       refused |-> outbox[e].refused \/ k.answer = "refused"]
<1>1. /\ k.at = "answer" /\ End(t) /\ UNCHANGED <<chain, quotes, prepares, rows, posts, mishaps>>
      /\ outbox' = [outbox EXCEPT ![e] =
          [status |-> status, attempts |-> @.attempts + 1, refused |-> @.refused \/ k.answer = "refused"]]
  BY DEF RecordDelivery
<1>2. /\ e \in Requests \X Follow /\ k.attempts \in Nat /\ k.answer \in {"ok", "refused", "failed"}
      /\ k.attempts <= outbox[e].attempts
  BY <1>1, TickFacts DEF TickSound
<1>3. outbox \in [Requests \X Follow -> Webhook] /\ outbox[e] \in Webhook
  BY <1>2 DEF WireInv, OutboxSound
<1>4. outbox' = [outbox EXCEPT ![e] = webhook]
  BY <1>1, <1>3
<1>5. outbox[e].attempts \in Nat /\ outbox[e].refused \in BOOLEAN
  BY <1>3 DEF Webhook
<1>6. /\ status \in {"DELIVERED", "DEAD_LETTER", "FAILED"}
      /\ status = "DEAD_LETTER" => k.answer = "refused" \/ k.attempts + 1 >= MaxAttempts
  BY <1>2 DEF Exhausted
<1> HIDE DEF status
<1>7. webhook \in Webhook
  BY <1>5, <1>6 DEF Webhook
<1>8. /\ outbox[e].attempts <= webhook.attempts
      /\ webhook.status = "DEAD_LETTER" => webhook.refused \/ webhook.attempts >= MaxAttempts
  <2>1. webhook.attempts = outbox[e].attempts + 1 /\ webhook.status = status
    OBVIOUS
  <2>2. webhook.refused = (outbox[e].refused \/ k.answer = "refused")
    OBVIOUS
  <2>3. k.answer = "refused" => webhook.refused
    BY <2>2
  <2> HIDE DEF webhook, e, k
  <2> QED BY <1>2, <1>5, <1>6, <2>1, <2>3
<1> HIDE DEF webhook
<1>9. outbox'[e] = webhook /\ \A d \in (Requests \X Follow) \ {e} : outbox'[d] = outbox[d]
  BY <1>2, <1>3, <1>4
<1>10. BoxWrite
  <2>1. outbox' \in [Requests \X Follow -> Webhook]
    BY <1>3, <1>4, <1>7
  <2>2. \A d \in Requests \X Follow : outbox[d].attempts \in Nat
    BY <1>3 DEF Webhook
  <2> QED BY <1>8, <1>9, <2>1, <2>2 DEF BoxWrite, OutboxSound, AttemptsKept, WireInv
<1> QED BY <1>1, <1>10, SameRows, EndSuffices

LEMMA CrashTickStep ==
  ASSUME WireInv, NEW t \in Ticks, CrashTick(t)
  PROVE  WireStep
<1>1. End(t) /\ Mishap /\ UNCHANGED <<chain, quotes, prepares, rows, posts, outbox>>
  BY DEF CrashTick
<1> QED BY <1>1, SameRows, SameBox, EndSuffices

-----------------------------------------------------------------------------
LEMMA WireInit_Inv == WireInit => WireInv
<1> SUFFICES ASSUME WireInit PROVE WireInv
  OBVIOUS
<1>1. CommerceInit /\ log = <<>> /\ safe = Contract
  BY DEF WireInit
<1>2. CommerceInv
  BY <1>1, CommerceInit_Inv
<1>3. LivesSound
  BY <1>1 DEF CommerceInit, LivesSound, LifeSound, NoJob
<1>4. CommerceTypeOK
  BY <1>2 DEF CommerceInv
<1>5. ContractSound(Contract)
  BY <1>1, <1>2, <1>3, <1>4, ContractIsCommerce
<1>6. ChainInv
  BY <1>1, <1>4, <1>5, OnwardFromItself DEF ChainInv
<1>7. /\ quotes \in [Quotes -> {"NONE", "OPEN", "EXPIRED", "CONSUMED"}]
      /\ prepares \in [Requests -> Preparation]
  BY DEF WireInit, Preparation
<1>8. rows \in RowsType /\ \A r \in Requests : rows[r] = NoRow
  BY DEF WireInit, RowsType
<1>9. /\ posts \in [Posts -> PostSteps] /\ \A c \in Posts : posts[c] = Idle
      /\ ticks \in [Ticks -> TickSteps] /\ \A t \in Ticks : ticks[t] = Idle
  BY DEF WireInit, PostSteps, TickSteps
<1>10. /\ \A c \in Posts : PostSound(posts[c], rows, safe)
       /\ \A t \in Ticks : TickSound(ticks[t], rows, safe, outbox)
  BY <1>9 DEF PostSound, TickSound, Idle
<1>11. OutboxSound(outbox)
  BY DEF WireInit, OutboxSound, Unused, Webhook
<1>12. mishaps \in 0 .. MaxMishaps
  BY DEF WireInit
<1> QED BY <1>6, <1>7, <1>8, <1>9, <1>10, <1>11, <1>12 DEF WireInv, OneEach, AllPaid, Present

LEMMA WireNext_Step ==
  ASSUME WireInv, [WireNext]_wire
  PROVE  WireStep
<1>1. CASE UNCHANGED wire
  <2>1. UNCHANGED <<chain, quotes, prepares, rows, posts, ticks, outbox, mishaps>>
    BY <1>1 DEF wire
  <2> QED BY <2>1, SameRows, SameBox DEF WireStep, WireInv, RowWrite, BoxWrite, Present
<1>2. CASE Transact \/ Confirm \/ Reorganise
  BY <1>2, ChainSteps
<1>3. CASE \E q \in Quotes : CreateQuote(q) \/ ExpireQuote(q)
  BY <1>3, QuoteSteps
<1>4. CASE \E p \in Requests : PostJob(p)
  BY <1>4, PrepareReadStep, PrepareCommitStep DEF PostJob
<1>5. CASE \E c \in Posts : \/ \E r \in Requests, create, fund \in {0} \cup Ids : StartPost(c, r, create, fund)
                            \/ Post(c)
                            \/ CrashPost(c)
  BY <1>5, StartPostStep, PostCreateStep, PostFundStep, PostReconcileStep, CrashPostStep DEF Post
<1>6. CASE \E t \in Ticks : \/ \E r \in Requests : ListForRecovery(t, r) \/ ListWork(t, r)
                            \/ \E e \in DOMAIN outbox : SendWebhook(t, e)
                            \/ Proceed(t)
                            \/ CrashTick(t)
  <2> PICK t \in Ticks : \/ \E r \in Requests : ListForRecovery(t, r) \/ ListWork(t, r)
                         \/ \E e \in DOMAIN outbox : SendWebhook(t, e)
                         \/ Proceed(t)
                         \/ CrashTick(t)
    BY <1>6
  <2>1. CASE \E r \in Requests : ListForRecovery(t, r) \/ ListWork(t, r)
    BY <2>1, ListForRecoveryStep, ListWorkStep
  <2>2. CASE \E e \in DOMAIN outbox : SendWebhook(t, e)
    BY <2>2, SendWebhookStep
  <2>3. CASE Proceed(t)
    BY <2>3, FindCreateStep, FindFundStep, RecoveryReconcileStep, ReadReceiptStep, ReadStatusStep,
       ReadEventsStep, WriteStateStep, RecordDeliveryStep DEF Proceed
  <2> QED BY <2>1, <2>2, <2>3, CrashTickStep
<1> QED BY <1>1, <1>2, <1>3, <1>4, <1>5, <1>6 DEF WireNext

LEMMA WireInvariant == WireSpec => []WireInv
<1>1. WireInit => WireInv
  BY WireInit_Inv
<1>2. WireInv /\ [WireNext]_wire => WireInv'
  BY WireNext_Step, StepKeeps
<1> QED BY <1>1, <1>2, PTL DEF WireSpec

\* Rows, quotes, jobs, posts and ticks of lib/ghostwire-store.ts keep their
\* types, whatever calls, ticks and crashes run at once.
THEOREM WireTypeCorrect == WireSpec => []WireTypeOK
<1>1. WireInv => WireTypeOK
  BY DEF WireInv, ChainInv, ContractSound, Contract, WireTypeOK, RowsType, OutboxSound, Webhook
<1> QED BY <1>1, WireInvariant, PTL

\* The escrow contract holds what it owes also while Ghost's operator drives
\* it: nothing Ghost sends, resends or sends twice uncovers a funded job.
THEOREM EscrowStaysCovered == WireSpec => []EscrowCovered
<1>1. WireInv => EscrowCovered
  BY ContractIsCommerce DEF WireInv, ChainInv, CommerceInv
<1> QED BY <1>1, WireInvariant, PTL

\* A quote becomes at most one job, for any number of create requests that
\* overlap, each having seen the quote unused.
THEOREM OneJobEach == WireSpec => []OneJobPerQuote
<1>1. WireInv => OneJobPerQuote
  BY DEF WireInv, OneEach, OneJobPerQuote, Present
<1> QED BY <1>1, WireInvariant, PTL

\* What GhostWire reports as funded, or anything after that, is a confirmed
\* escrow of the quoted price by the quoted client: a tick writes no more than
\* it has read from blocks that are not replaced any more.
THEOREM MirrorPaid == WireSpec => []MirrorIsPaid
<1>1. WireInv => MirrorIsPaid
  BY DEF WireInv, AllPaid, Paid, Final, MirrorIsPaid, Present, Confirmed
<1> QED BY <1>1, WireInvariant, PTL

\* A webhook is given up only if the receiver refused it or after all of its
\* attempts, for any number of overlapping ticks.
THEOREM GivenUpLate == WireSpec => []GivenUpInTheEnd
<1>1. WireInv => GivenUpInTheEnd
  BY DEF WireInv, OutboxSound, GivenUpInTheEnd
<1> QED BY <1>1, WireInvariant, PTL

\* Ghost's rows implement EscrowMirror: each step of a call, a tick, the
\* chain or a crash moves the mirror forward as it says, or not at all.
THEOREM WireImplementsMirror == WireSpec => ImplementsEscrowMirror
<1>1. WireInit => Mirror!Init
  BY DEF WireInit, Mirror!Init, Reached, Present
<1>2. WireInv /\ [WireNext]_wire => [Mirror!Next]_(Mirror!vars)
  BY WireNext_Step, StepMirrors
<1> QED BY <1>1, <1>2, WireInvariant, PTL DEF WireSpec, ImplementsEscrowMirror, Mirror!Spec

-----------------------------------------------------------------------------
(***************************************************************************)
(* GhostVault.                                                             *)
(***************************************************************************)
HIDE CommerceAssumption
HIDE WireAssumption
USE VaultAssumption

\* What a revert would restore is as good as what it replaces: the state
\* before the payout was solvent, and owed the merchants what its books say.
SavedBooks ==
  payout.open =>
    /\ payout.backing <= payout.eth
    /\ payout.liability + payout.fees <= payout.backing
    /\ payout.backing <= payout.maxTVL
    /\ payout.liability = Total(payout.balances, Merchants)
    /\ payout.backing - payout.liability - payout.fees = Unallocated

Books == TypeOK /\ Solvent /\ LiabilityIsOwed /\ SavedBooks

-----------------------------------------------------------------------------
(***************************************************************************)
(* Batches.                                                                *)
(***************************************************************************)
Batches == UNION {[1 .. n -> Entries] : n \in 1 .. MaxBatch}

ValidBatch(batch) == batch \in Batches /\ \A i \in DOMAIN batch : batch[i].fee <= batch[i].gross

\* The totals of a batch are natural numbers, and the merchants' shares add
\* up to its net total.
LEMMA BatchTotals ==
  ASSUME NEW batch, ValidBatch(batch), NEW old \in [Merchants -> Nat]
  PROVE  /\ Total(Net(batch), DOMAIN batch) \in Nat
         /\ Total(Fee(batch), DOMAIN batch) \in Nat
         /\ \A m \in Merchants : Credited(batch, m) \in Nat
         /\ Total([m \in Merchants |-> old[m] + Credited(batch, m)], Merchants)
              = Total(old, Merchants) + Total(Net(batch), DOMAIN batch)
<1> DEFINE I == DOMAIN batch
           net == Net(batch)
           fee == Fee(batch)
           key == [i \in I |-> batch[i].merchant]
           share == [m \in Merchants |-> Credited(batch, m)]
           new == [m \in Merchants |-> old[m] + Credited(batch, m)]
<1>1. PICK n \in 1 .. MaxBatch : batch \in [1 .. n -> Entries]
  BY DEF ValidBatch, Batches
<1>2. IsFiniteSet(I)
  <2>1. I = 1 .. n
    BY <1>1
  <2> QED BY <2>1, FS_Interval
<1>3. \A i \in I : /\ batch[i].merchant \in Merchants
                   /\ batch[i].gross \in Nat /\ batch[i].fee \in Nat
                   /\ batch[i].fee <= batch[i].gross
  BY <1>1 DEF ValidBatch, Entries
<1>4. /\ \A i \in I : net[i] \in Nat
      /\ \A i \in I : fee[i] \in Nat
      /\ \A i \in I : key[i] \in Merchants
  BY <1>3 DEF Net, Fee
<1>5. \A m \in Merchants : share[m] = Total(net, GroupOf(I, key, m))
  <2>1. \A m \in Merchants : EntriesOf(batch, m) = GroupOf(I, key, m)
    BY DEF EntriesOf, GroupOf
  <2> QED BY <2>1 DEF Credited
<1> HIDE DEF I, net, fee, key
<1>6. \A m \in Merchants : share[m] \in Nat
  <2> TAKE m \in Merchants
  <2>1. IsFiniteSet(GroupOf(I, key, m))
    BY <1>2, FS_Subset DEF GroupOf
  <2>2. \A i \in GroupOf(I, key, m) : net[i] \in Nat
    BY <1>4 DEF GroupOf
  <2> HIDE DEF share
  <2> QED BY <1>5, <2>1, <2>2, TotalType
<1>7. Total(net, I) \in Nat /\ Total(fee, I) \in Nat
  BY <1>2, <1>4, TotalType
<1>8. \A m \in Merchants : new[m] = old[m] + share[m]
  OBVIOUS
<1>9. \A m \in Merchants : old[m] \in Nat
  OBVIOUS
<1>10. Total(share, Merchants) = Total(net, I)
  <2>1. IsFiniteSet(Merchants)
    OBVIOUS
  <2>2. \A i \in I : net[i] \in Nat
    BY <1>4
  <2>3. \A i \in I : key[i] \in Merchants
    BY <1>4
  <2> HIDE DEF share
  <2> QED BY <1>2, <1>5, <2>1, <2>2, <2>3, TotalByGroup
<1>11. Total(new, Merchants) = Total(old, Merchants) + Total(share, Merchants)
  <2> HIDE DEF share, new
  <2> QED BY <1>6, <1>8, <1>9, TotalSum
<1>12. \A m \in Merchants : Credited(batch, m) \in Nat
  BY <1>6
<1> QED BY <1>7, <1>10, <1>11, <1>12 DEF I, net, fee

-----------------------------------------------------------------------------
(***************************************************************************)
(* The books.                                                              *)
(***************************************************************************)

\* A batch moves backing from the pool to the merchants and the fees.
LEMMA AllocateKeepsBooks ==
  ASSUME Books, NEW sender, Allocate(sender)
  PROVE  Books'
<1>1. PICK n \in 1 .. MaxBatch : \E batch \in [1 .. n -> Entries] : AllocateMerchantEarningsBatch(batch)
  BY DEF Allocate
<1>2. PICK batch \in [1 .. n -> Entries] : AllocateMerchantEarningsBatch(batch)
  BY <1>1
<1>3. ValidBatch(batch)
  BY <1>2 DEF ValidBatch, Batches, AllocateMerchantEarningsBatch
<1> DEFINE N == Total(Net(batch), DOMAIN batch)
           F == Total(Fee(batch), DOMAIN batch)
<1>4. /\ N \in Nat
      /\ F \in Nat
      /\ \A m \in Merchants : Credited(batch, m) \in Nat
      /\ Total([m \in Merchants |-> balances[m] + Credited(batch, m)], Merchants)
           = Total(balances, Merchants) + N
  BY <1>3, BatchTotals DEF Books, TypeOK
<1>5. /\ NotEntered
      /\ totalMerchantLiability + N + accruedFees + F <= totalCreditBacking
      /\ totalMerchantLiability' = totalMerchantLiability + N
      /\ accruedFees' = accruedFees + F
      /\ balances' = [m \in Merchants |-> balances[m] + Credited(batch, m)]
      /\ UNCHANGED <<eth, totalCreditBacking, limits, payout>>
  BY <1>2 DEF AllocateMerchantEarningsBatch, WithinBacking
<1>6. /\ processedSettlementIds' \subseteq SettlementIds
      /\ allocations' \in [SettlementIds -> Nat]
  <2>1. \A i \in DOMAIN batch : batch[i].id \in SettlementIds
    BY DEF Entries
  <2>2. \A id \in SettlementIds : Cardinality({i \in DOMAIN batch : batch[i].id = id}) \in Nat
    <3> TAKE id \in SettlementIds
    <3>1. IsFiniteSet(DOMAIN batch)
      BY FS_Interval
    <3>2. IsFiniteSet({i \in DOMAIN batch : batch[i].id = id})
      BY <3>1, FS_Subset
    <3> QED BY <3>2, FS_CardinalityType
  <2>3. processedSettlementIds' \subseteq SettlementIds
    BY <1>2, <2>1 DEF AllocateMerchantEarningsBatch, Books, TypeOK
  <2>4. allocations' = [id \in SettlementIds |->
          allocations[id] + Cardinality({i \in DOMAIN batch : batch[i].id = id})]
    BY <1>2 DEF AllocateMerchantEarningsBatch
  <2>5. \A id \in SettlementIds : allocations[id] \in Nat
    BY DEF Books, TypeOK
  <2>6. \A id \in SettlementIds :
          allocations[id] + Cardinality({i \in DOMAIN batch : batch[i].id = id}) \in Nat
    BY <2>2, <2>5
  <2> QED BY <2>3, <2>4, <2>6
<1> HIDE DEF N, F
<1>7. TypeOK'
  BY <1>4, <1>5, <1>6 DEF Books, TypeOK, limits
<1>8. Solvent'
  BY <1>4, <1>5 DEF Books, TypeOK, Solvent, limits
<1>9. LiabilityIsOwed'
  BY <1>4, <1>5 DEF Books, LiabilityIsOwed
<1>10. SavedBooks'
  BY <1>5 DEF SavedBooks, NotEntered, NotPaying
<1> QED BY <1>7, <1>8, <1>9, <1>10 DEF Books

\* A withdrawal takes one balance out of the liability and the backing.
LEMMA WithdrawKeepsBooks ==
  ASSUME Books, NEW m \in Merchants, Withdraw(m)
  PROVE  Books'
<1>1. /\ \A r \in Merchants : balances[r] \in Nat
      /\ \A r \in Merchants : balances'[r] \in Nat
      /\ balances' \in [Merchants -> Nat]
      /\ \A r \in Merchants \ {m} : balances[r] = balances'[r]
      /\ balances'[m] = 0
  BY DEF Withdraw, Books, TypeOK
<1>2. /\ Total(balances', Merchants) = Total(balances, Merchants) - balances[m] + 0
      /\ balances[m] <= Total(balances, Merchants)
      /\ Total(balances, Merchants) \in Nat
  BY <1>1, TotalChange
<1>3. /\ NotEntered
      /\ totalMerchantLiability' = totalMerchantLiability - balances[m]
      /\ totalCreditBacking' = totalCreditBacking - balances[m]
      /\ eth' = eth - balances[m]
      /\ UNCHANGED <<accruedFees, limits, settlements>>
      /\ payout' = [open |-> TRUE, eth |-> eth, backing |-> totalCreditBacking,
                    liability |-> totalMerchantLiability, fees |-> accruedFees, balances |-> balances,
                    maxTVL |-> maxTVL, depositsPaused |-> depositsPaused,
                    allocationsPaused |-> allocationsPaused, operators |-> settlementOperators]
  BY DEF Withdraw, Send
<1>4. /\ balances[m] <= totalMerchantLiability
      /\ totalMerchantLiability + accruedFees <= totalCreditBacking
      /\ totalCreditBacking <= eth
  BY <1>2 DEF Books, Solvent, LiabilityIsOwed
<1>5. payout' \in OpenPayout
  BY <1>3 DEF OpenPayout, Books, TypeOK
<1>6. TypeOK'
  BY <1>1, <1>3, <1>4, <1>5 DEF Books, TypeOK, limits, settlements
<1>7. Solvent'
  BY <1>1, <1>3, <1>4 DEF Books, TypeOK, Solvent, limits
<1>8. LiabilityIsOwed'
  BY <1>1, <1>2, <1>3 DEF Books, LiabilityIsOwed
<1>9. SavedBooks'
  BY <1>1, <1>3 DEF Books, TypeOK, Solvent, LiabilityIsOwed, SavedBooks, Unallocated
<1> QED BY <1>6, <1>7, <1>8, <1>9 DEF Books

\* Claiming the fees and sweeping the excess.
LEMMA OwnerPayoutKeepsBooks ==
  ASSUME Books, ClaimFees \/ SweepExcess
  PROVE  Books'
<1>1. /\ NotEntered
      /\ UNCHANGED <<totalMerchantLiability, balances, limits, settlements>>
      /\ payout' = [open |-> TRUE, eth |-> eth, backing |-> totalCreditBacking,
                    liability |-> totalMerchantLiability, fees |-> accruedFees, balances |-> balances,
                    maxTVL |-> maxTVL, depositsPaused |-> depositsPaused,
                    allocationsPaused |-> allocationsPaused, operators |-> settlementOperators]
  BY DEF ClaimFees, SweepExcess, Send, books
<1>2. \/ /\ accruedFees' = 0
         /\ totalCreditBacking' = totalCreditBacking - accruedFees
         /\ eth' = eth - accruedFees
      \/ /\ UNCHANGED <<totalCreditBacking, accruedFees>>
         /\ eth' = totalCreditBacking
  BY DEF ClaimFees, ClearFees, SweepExcess, Excess, Send, books, Books, TypeOK
<1>3. payout' \in OpenPayout
  BY <1>1 DEF OpenPayout, Books, TypeOK
<1>4. TypeOK'
  BY <1>1, <1>2, <1>3 DEF Books, TypeOK, Solvent, limits, settlements
<1>5. Solvent'
  BY <1>1, <1>2 DEF Books, TypeOK, Solvent, limits
<1>6. LiabilityIsOwed'
  BY <1>1 DEF Books, LiabilityIsOwed
<1>7. SavedBooks'
  BY <1>1, <1>2 DEF Books, TypeOK, Solvent, LiabilityIsOwed, SavedBooks, Unallocated
<1> QED BY <1>4, <1>5, <1>6, <1>7 DEF Books

\* The end of a payout, either way.
LEMMA EndPayoutKeepsBooks ==
  ASSUME Books, AcceptPayout \/ RefusePayout
  PROVE  Books'
<1>1. CASE AcceptPayout
  <2>1. payout' = NotPaying /\ UNCHANGED <<eth, books, limits, settlements>>
    BY <1>1 DEF AcceptPayout
  <2>2. SavedBooks'
    BY <2>1 DEF SavedBooks, NotPaying
  <2>3. LiabilityIsOwed'
    BY <2>1 DEF Books, LiabilityIsOwed, books
  <2> QED BY <2>1, <2>2, <2>3 DEF Books, TypeOK, Solvent, books, limits, settlements
<1>2. CASE RefusePayout
  <2>1. payout.open /\ payout \in OpenPayout
    BY <1>2 DEF RefusePayout, Books, TypeOK, NotPaying
  <2>2. /\ eth' = payout.eth
        /\ totalCreditBacking' = payout.backing
        /\ totalMerchantLiability' = payout.liability
        /\ accruedFees' = payout.fees
        /\ balances' = payout.balances
        /\ maxTVL' = payout.maxTVL
        /\ depositsPaused' = payout.depositsPaused
        /\ allocationsPaused' = payout.allocationsPaused
        /\ settlementOperators' = payout.operators
        /\ payout' = NotPaying
        /\ UNCHANGED settlements
    BY <1>2 DEF RefusePayout
  <2>3. TypeOK'
    BY <2>1, <2>2 DEF Books, TypeOK, OpenPayout, settlements
  <2>4. Solvent' /\ LiabilityIsOwed'
    BY <2>1, <2>2 DEF Books, SavedBooks, Solvent, LiabilityIsOwed
  <2>5. SavedBooks'
    BY <2>2 DEF SavedBooks, NotPaying
  <2> QED BY <2>3, <2>4, <2>5 DEF Books
<1> QED BY <1>1, <1>2

\* Deposits, forced ETH and the owner's setters.
LEMMA SettingsKeepBooks ==
  ASSUME Books,
         \/ \E value \in Amounts : DepositCredit(value) \/ ForceEth(value)
         \/ \E cap \in Caps : SetMaxTVL(cap)
         \/ \E flag \in BOOLEAN : PauseDeposits(flag) \/ PauseAllocations(flag)
         \/ \E operator \in OperatorAddresses, allowed \in BOOLEAN : SetSettlementOperator(operator, allowed)
         \/ UNCHANGED vars
  PROVE  Books'
<1>1. ASSUME NEW value \in Amounts, DepositCredit(value)
      PROVE  Books'
  <2>1. value \in Nat
    OBVIOUS
  <2>2. SavedBooks'
    BY <1>1 DEF DepositCredit, SavedBooks, NotEntered, NotPaying
  <2>3. LiabilityIsOwed'
    BY <1>1 DEF DepositCredit, Books, LiabilityIsOwed
  <2> QED BY <1>1, <2>1, <2>2, <2>3
       DEF DepositCredit, Books, TypeOK, Solvent, limits, settlements
<1>2. ASSUME NEW value \in Amounts, ForceEth(value)
      PROVE  Books'
  <2>1. value \in Nat
    OBVIOUS
  <2>2. SavedBooks' /\ LiabilityIsOwed'
    BY <1>2 DEF ForceEth, Books, SavedBooks, LiabilityIsOwed, Unallocated, books
  <2> QED BY <1>2, <2>1, <2>2 DEF ForceEth, Books, TypeOK, Solvent, books, limits, settlements
<1>3. ASSUME NEW cap \in Caps, SetMaxTVL(cap)
      PROVE  Books'
  <2>1. SavedBooks' /\ LiabilityIsOwed'
    BY <1>3 DEF SetMaxTVL, Books, SavedBooks, LiabilityIsOwed, Unallocated, books
  <2> QED BY <1>3, <2>1 DEF SetMaxTVL, Books, TypeOK, Solvent, books, settlements
<1>4. ASSUME \/ \E flag \in BOOLEAN : PauseDeposits(flag) \/ PauseAllocations(flag)
             \/ \E operator \in OperatorAddresses, allowed \in BOOLEAN : SetSettlementOperator(operator, allowed)
             \/ UNCHANGED vars
      PROVE  Books'
  <2>1. /\ UNCHANGED <<eth, books, maxTVL, settlements, payout>>
        /\ depositsPaused' \in BOOLEAN
        /\ allocationsPaused' \in BOOLEAN
        /\ settlementOperators' \subseteq OperatorAddresses
    BY <1>4 DEF PauseDeposits, PauseAllocations, SetSettlementOperator, vars, limits, Books, TypeOK
  <2>2. SavedBooks' /\ LiabilityIsOwed'
    BY <2>1 DEF Books, SavedBooks, LiabilityIsOwed, Unallocated, books
  <2> QED BY <2>1, <2>2 DEF Books, TypeOK, Solvent, books, settlements
<1> QED BY <1>1, <1>2, <1>3, <1>4

\* Every step keeps the books.
LEMMA BooksInductive == Books /\ [Next]_vars => Books'
BY AllocateKeepsBooks, WithdrawKeepsBooks, OwnerPayoutKeepsBooks, EndPayoutKeepsBooks,
   SettingsKeepBooks DEF Next

\* The books of the contract just deployed are in order.
LEMMA BooksInitial == Init => Books
<1> SUFFICES ASSUME Init PROVE Books
  OBVIOUS
<1>1. \A m \in Merchants : balances[m] = 0
  BY DEF Init
<1>2. Total(balances, Merchants) = 0
  BY <1>1, TotalZero
<1>3. maxTVL \in Nat /\ maxTVL >= 0
  BY DEF Init
<1>4. TypeOK
  BY DEF Init, TypeOK
<1>5. Solvent
  BY <1>3 DEF Init, Solvent
<1>6. LiabilityIsOwed /\ SavedBooks
  BY <1>2 DEF Init, LiabilityIsOwed, SavedBooks, NotPaying
<1> QED BY <1>4, <1>5, <1>6 DEF Books

-----------------------------------------------------------------------------
(***************************************************************************)
(* Theorems.                                                               *)
(***************************************************************************)

\* The vault can always pay whom it owes, whatever sequence of deposits,
\* batches, payouts, refusals and cap changes it went through.
THEOREM AlwaysSolvent == Spec => []Solvent
<1>1. Books => Solvent
  BY DEF Books
<1> QED BY BooksInitial, BooksInductive, <1>1, PTL DEF Spec

\* The liability is the sum of the balances, for batches of every length.
THEOREM LiabilityMatches == Spec => []LiabilityIsOwed
<1>1. Books => LiabilityIsOwed
  BY DEF Books
<1> QED BY BooksInitial, BooksInductive, <1>1, PTL DEF Spec

\* The types of the contract's state, of which every number is a natural:
\* no subtraction of the contract underflows.
THEOREM VaultTypeCorrect == Spec => []TypeOK
<1>1. Books => TypeOK
  BY DEF Books
<1> QED BY BooksInitial, BooksInductive, <1>1, PTL DEF Spec

-----------------------------------------------------------------------------
(***************************************************************************)
(* Settlement ids.                                                         *)
(***************************************************************************)

\* A batch allocates each of its ids once, and no id allocated before.
LEMMA AllocateOnce ==
  ASSUME Books, SettlementAllocatedOnce, NEW sender, Allocate(sender)
  PROVE  /\ SettlementAllocatedOnce'
         /\ processedSettlementIds' # processedSettlementIds
<1>1. PICK n \in 1 .. MaxBatch : \E batch \in [1 .. n -> Entries] : AllocateMerchantEarningsBatch(batch)
  BY DEF Allocate
<1>2. PICK batch \in [1 .. n -> Entries] : AllocateMerchantEarningsBatch(batch)
  BY <1>1
<1> DEFINE With(id) == {i \in DOMAIN batch : batch[i].id = id}
<1>3. /\ \A i \in DOMAIN batch : batch[i].id \notin processedSettlementIds
      /\ \A i, j \in DOMAIN batch : i # j => batch[i].id # batch[j].id
      /\ processedSettlementIds' = processedSettlementIds \cup {batch[i].id : i \in DOMAIN batch}
      /\ allocations' = [id \in SettlementIds |-> allocations[id] + Cardinality(With(id))]
  BY <1>2 DEF AllocateMerchantEarningsBatch, FreshIds
<1>4. ASSUME NEW id \in SettlementIds
      PROVE  allocations'[id] = IF id \in processedSettlementIds' THEN 1 ELSE 0
  <2>1. allocations[id] = IF id \in processedSettlementIds THEN 1 ELSE 0
    BY DEF SettlementAllocatedOnce
  <2>2. CASE With(id) = {}
    <3>1. Cardinality(With(id)) = 0
      BY <2>2, FS_EmptySet
    <3>2. id \in processedSettlementIds' <=> id \in processedSettlementIds
      BY <1>3, <2>2
    <3>3. allocations'[id] = allocations[id] + Cardinality(With(id))
      BY <1>3
    <3> QED BY <2>1, <3>1, <3>2, <3>3
  <2>3. CASE With(id) # {}
    <3>1. PICK i \in DOMAIN batch : With(id) = {i} /\ batch[i].id = id
      BY <1>3, <2>3
    <3>2. Cardinality(With(id)) = 1
      BY <3>1, FS_Singleton
    <3>3. id \in processedSettlementIds' /\ id \notin processedSettlementIds
      BY <1>3, <3>1
    <3>4. allocations'[id] = allocations[id] + Cardinality(With(id))
      BY <1>3
    <3> QED BY <2>1, <3>2, <3>3, <3>4
  <2> QED BY <2>2, <2>3
<1>5. processedSettlementIds' # processedSettlementIds
  <2>1. 1 \in DOMAIN batch
    OBVIOUS
  <2> QED BY <1>3, <2>1
<1> QED BY <1>4, <1>5 DEF SettlementAllocatedOnce

\* No other step touches the settlement ids.
LEMMA OtherStepsSettleNothing ==
  ASSUME [Next]_vars, \A sender \in OperatorAddresses \cup {"owner"} : ~Allocate(sender)
  PROVE  UNCHANGED settlements
BY DEF Next, vars, settlements, DepositCredit, ForceEth, Withdraw, ClaimFees, SweepExcess, AcceptPayout,
       RefusePayout, SetMaxTVL, PauseDeposits, PauseAllocations, SetSettlementOperator

\* A settlement id is allocated at most once, within a batch and across
\* batches, for every number of ids and every batch length.
THEOREM AllocatedOnce == Spec => []SettlementAllocatedOnce
<1>1. Init => SettlementAllocatedOnce
  BY DEF Init, SettlementAllocatedOnce
<1>2. Books /\ SettlementAllocatedOnce /\ [Next]_vars => Books' /\ SettlementAllocatedOnce'
  <2> SUFFICES ASSUME Books, SettlementAllocatedOnce, [Next]_vars
               PROVE  SettlementAllocatedOnce'
    BY BooksInductive
  <2>1. CASE UNCHANGED settlements
    BY <2>1 DEF settlements, SettlementAllocatedOnce
  <2> QED BY <2>1, AllocateOnce, OtherStepsSettleNothing
<1> QED BY BooksInitial, <1>1, <1>2, PTL DEF Spec

-----------------------------------------------------------------------------
(***************************************************************************)
(* The pool of backing that is owed to nobody.                             *)
(***************************************************************************)

\* Only an allocation shrinks the pool.
LEMMA PoolStep ==
  ASSUME Books, SettlementAllocatedOnce, [Next]_vars
  PROVE  Unallocated' < Unallocated => processedSettlementIds' # processedSettlementIds
<1>1. ASSUME NEW sender, Allocate(sender)
      PROVE  processedSettlementIds' # processedSettlementIds
  BY <1>1, AllocateOnce
<1> USE DEF Unallocated
<1>2. /\ totalCreditBacking \in Nat /\ totalMerchantLiability \in Nat
      /\ accruedFees \in Nat /\ \A m \in Merchants : balances[m] \in Nat
  BY DEF Books, TypeOK
<1>3. ASSUME NEW value \in Amounts, DepositCredit(value) \/ ForceEth(value)
      PROVE  ~(Unallocated' < Unallocated)
  BY <1>2, <1>3 DEF DepositCredit, ForceEth, books
<1>4. ASSUME NEW m \in Merchants, Withdraw(m)
      PROVE  ~(Unallocated' < Unallocated)
  BY <1>2, <1>4 DEF Withdraw
<1>5. CASE ClaimFees
  BY <1>2, <1>5 DEF ClaimFees, ClearFees
<1>6. CASE RefusePayout
  <2>1. payout.backing - payout.liability - payout.fees = Unallocated
    BY <1>6 DEF RefusePayout, Books, SavedBooks
  <2>2. /\ totalCreditBacking' = payout.backing
        /\ totalMerchantLiability' = payout.liability
        /\ accruedFees' = payout.fees
    BY <1>6 DEF RefusePayout
  <2>3. Unallocated' = Unallocated
    BY <2>1, <2>2
  <2> QED BY <1>2, <2>3
<1>7. UNCHANGED books => ~(Unallocated' < Unallocated)
  BY <1>2 DEF books
<1>8. \/ SweepExcess \/ AcceptPayout \/ UNCHANGED vars
      \/ \E cap \in Caps : SetMaxTVL(cap)
      \/ \E flag \in BOOLEAN : PauseDeposits(flag) \/ PauseAllocations(flag)
      \/ \E operator \in OperatorAddresses, allowed \in BOOLEAN : SetSettlementOperator(operator, allowed)
      => UNCHANGED books
  BY DEF SweepExcess, AcceptPayout, vars, SetMaxTVL, PauseDeposits, PauseAllocations, SetSettlementOperator
<1> HIDE DEF Unallocated
<1> QED BY <1>1, <1>3, <1>4, <1>5, <1>6, <1>7, <1>8 DEF Next

\* Deposits that are owed to nobody yet stay in the pool until a settlement
\* allocates them: no payout, fee claim, sweep or revert consumes them.
THEOREM PoolKept == Spec => PoolOnlyAllocated
<1>1. Books /\ SettlementAllocatedOnce /\ [Next]_vars
        => [Unallocated' < Unallocated => processedSettlementIds' # processedSettlementIds]_vars
  BY PoolStep
<1>2. Spec => [](Books /\ SettlementAllocatedOnce)
  <2>1. Spec => []Books
    BY BooksInitial, BooksInductive, PTL DEF Spec
  <2> QED BY <2>1, AllocatedOnce, PTL
<1> QED BY <1>1, <1>2, PTL DEF Spec, PoolOnlyAllocated

=============================================================================
