--------------------------- MODULE AgenticCommerce ---------------------------
(***************************************************************************)
(* contracts/AgenticCommerce.sol: the ERC-8183 escrow GhostWire pins. A    *)
(* client opens a job, funds it, the provider submits, the evaluator       *)
(* completes or rejects, and after the deadline the money can be claimed   *)
(* back. A transaction is atomic; the reentrancy guard and a plain ERC-20  *)
(* leave no call in between. Time is in minutes.                           *)
(***************************************************************************)
EXTENDS Integers, FiniteSets, Totals

CONSTANTS
  Addresses,   \* accounts that send transactions and hold tokens
  Zero,        \* address(0)
  Admins,      \* holders of ADMIN_ROLE
  Operators,   \* holders of OPERATOR_ROLE
  Terms,       \* job descriptions
  Budgets,     \* amounts a client sets as the budget
  FeeBps,      \* platform fees the admin may set, in basis points
  Treasuries,  \* treasuries the admin may set
  Purse,       \* tokens every account starts with
  Clients,     \* accounts that open jobs
  Providers,   \* accounts a client may name as the provider
  Evaluators,  \* accounts a client may name as the evaluator
  Deadlines,   \* values a client may give expiredAt
  Times,       \* block times
  MaxJobs      \* bound on the number of jobs

MaxPlatformFeeBP == 1000
MaxExpiryWindow == 90 * 24 * 60
SubmittedEvaluationGrace == 15
MinExpiryWindow == 5

ASSUME CommerceAssumption ==
  /\ IsFiniteSet(Addresses)
  /\ Zero \notin Addresses
  /\ Admins \subseteq Addresses
  /\ Operators \subseteq Addresses
  /\ Budgets \subseteq Nat
  /\ FeeBps \subseteq Nat
  /\ Treasuries \subseteq Addresses
  /\ Purse \in Nat
  /\ Clients \cup Providers \cup Evaluators \subseteq Addresses
  /\ Deadlines \subseteq Nat
  /\ Times \subseteq Nat
  /\ MaxJobs \in Nat

VARIABLES
  jobs,
  jobFeeBpsAtFunding,
  jobCounter,
  platformFeeBP,
  platformTreasury,
  paused,
  now,       \* block.timestamp
  tokens,    \* paymentToken.balanceOf of each account
  escrow,    \* paymentToken.balanceOf(address(this))
  logs,      \* the life-cycle events each job has emitted
  named,     \* the provider in the job's JobCreated event
  released   \* what left the escrow for each job, and to whom

settings == <<platformFeeBP, platformTreasury, paused>>
purse == <<tokens, escrow, released>>
commerce == <<jobs, jobFeeBpsAtFunding, jobCounter, settings, now, purse, logs, named>>

Ids == 1 .. MaxJobs

Status == {"None", "Open", "Funded", "Submitted", "Completed", "Rejected", "Expired"}

Jobs == [client : Addresses \cup {Zero}, provider : Addresses \cup {Zero},
         evaluator : Addresses \cup {Zero}, terms : Terms \cup {Zero},
         budget : Nat, expiredAt : Nat, status : Status]

NoJob == [client |-> Zero, provider |-> Zero, evaluator |-> Zero, terms |-> Zero,
          budget |-> 0, expiredAt |-> 0, status |-> "None"]

Events == {"JobCreated", "JobFunded", "JobSubmitted", "JobCompleted", "JobRejected", "JobExpired"}

Payouts == [client : Nat, provider : Nat, treasury : Nat]
NoPayout == [client |-> 0, provider |-> 0, treasury |-> 0]

Terminal == {"Completed", "Rejected", "Expired"}

\* Jobs whose budget the contract holds.
Holding == {"Funded", "Submitted"}

CommerceInit ==
  /\ jobs = [j \in Ids |-> NoJob]
  /\ jobFeeBpsAtFunding = [j \in Ids |-> 0]
  /\ jobCounter = 0
  /\ platformFeeBP = 0
  /\ platformTreasury \in Treasuries
  /\ paused = FALSE
  /\ now = 0
  /\ tokens = [a \in Addresses |-> Purse]
  /\ escrow = 0
  /\ logs = [j \in Ids |-> {}]
  /\ named = [j \in Ids |-> Zero]
  /\ released = [j \in Ids |-> NoPayout]

-----------------------------------------------------------------------------
SetPlatformFee(sender, fee, treasury) ==
  /\ sender \in Admins
  /\ fee <= MaxPlatformFeeBP
  /\ platformFeeBP' = fee
  /\ platformTreasury' = treasury
  /\ UNCHANGED <<jobs, jobFeeBpsAtFunding, jobCounter, paused, now, purse, logs, named>>

Pause(sender) ==
  /\ sender \in Admins
  /\ ~paused
  /\ paused' = TRUE
  /\ UNCHANGED <<jobs, jobFeeBpsAtFunding, jobCounter, platformFeeBP, platformTreasury, now,
                 purse, logs, named>>

Unpause(sender) ==
  /\ sender \in Admins
  /\ paused
  /\ paused' = FALSE
  /\ UNCHANGED <<jobs, jobFeeBpsAtFunding, jobCounter, platformFeeBP, platformTreasury, now,
                 purse, logs, named>>

CreateJob(sender, provider, evaluator, expiredAt, terms) ==
  LET id == jobCounter + 1
  IN /\ ~paused
     /\ evaluator # Zero
     /\ expiredAt > now + MinExpiryWindow
     /\ expiredAt <= now + MaxExpiryWindow
     /\ jobCounter < MaxJobs
     /\ jobCounter' = id
     /\ jobs' = [jobs EXCEPT ![id] =
          [client |-> sender, provider |-> provider, evaluator |-> evaluator, terms |-> terms,
           budget |-> 0, expiredAt |-> expiredAt, status |-> "Open"]]
     /\ logs' = [logs EXCEPT ![id] = {"JobCreated"}]
     /\ named' = [named EXCEPT ![id] = provider]
     /\ UNCHANGED <<jobFeeBpsAtFunding, settings, now, purse>>

SetProvider(sender, id, provider) ==
  /\ ~paused
  /\ jobs[id].status = "Open"
  /\ sender = jobs[id].client
  /\ jobs[id].provider = Zero
  /\ provider # Zero
  /\ jobs' = [jobs EXCEPT ![id].provider = provider]
  /\ UNCHANGED <<jobFeeBpsAtFunding, jobCounter, settings, now, purse, logs, named>>

SetBudget(sender, id, amount) ==
  /\ ~paused
  /\ jobs[id].status = "Open"
  /\ sender = jobs[id].client
  /\ amount # 0
  /\ jobs' = [jobs EXCEPT ![id].budget = amount]
  /\ UNCHANGED <<jobFeeBpsAtFunding, jobCounter, settings, now, purse, logs, named>>

\* The client's transaction names the budget it expects, so that a change of
\* the budget in between makes it revert.
Fund(sender, id, expectedBudget) ==
  LET job == jobs[id]
  IN /\ ~paused
     /\ job.status = "Open"
     /\ sender = job.client
     /\ job.provider # Zero
     /\ job.budget # 0
     /\ now < job.expiredAt
     /\ job.budget = expectedBudget
     /\ job.budget <= tokens[sender]
     /\ jobs' = [jobs EXCEPT ![id].status = "Funded"]
     /\ jobFeeBpsAtFunding' = [jobFeeBpsAtFunding EXCEPT ![id] = platformFeeBP]
     /\ tokens' = [tokens EXCEPT ![sender] = @ - job.budget]
     /\ escrow' = escrow + job.budget
     /\ logs' = [logs EXCEPT ![id] = @ \cup {"JobFunded"}]
     /\ UNCHANGED <<jobCounter, settings, now, named, released>>

Submit(sender, id) ==
  /\ ~paused
  /\ jobs[id].status = "Funded"
  /\ sender = jobs[id].provider
  /\ now < jobs[id].expiredAt
  /\ jobs' = [jobs EXCEPT ![id].status = "Submitted"]
  /\ logs' = [logs EXCEPT ![id] = @ \cup {"JobSubmitted"}]
  /\ UNCHANGED <<jobFeeBpsAtFunding, jobCounter, settings, now, purse, named>>

PlatformFee(id) == (jobs[id].budget * jobFeeBpsAtFunding[id]) \div 10000

NetPayout(id) == jobs[id].budget - PlatformFee(id)

Complete(sender, id) ==
  LET job == jobs[id]
      fee == PlatformFee(id)
      net == NetPayout(id)
      paid == [tokens EXCEPT ![platformTreasury] = @ + fee]
  IN /\ ~paused
     /\ job.status = "Submitted"
     /\ sender = job.evaluator
     /\ now < job.expiredAt + SubmittedEvaluationGrace
     /\ jobs' = [jobs EXCEPT ![id].status = "Completed"]
     /\ tokens' = [paid EXCEPT ![job.provider] = @ + net]
     /\ escrow' = escrow - job.budget
     /\ released' = [released EXCEPT ![id] =
          [client |-> @.client, provider |-> @.provider + net, treasury |-> @.treasury + fee]]
     /\ logs' = [logs EXCEPT ![id] = @ \cup {"JobCompleted"}]
     /\ UNCHANGED <<jobFeeBpsAtFunding, jobCounter, settings, now, named>>

\* The transfer back to the client of a job that leaves the escrow.
Refund(id) ==
  /\ tokens' = [tokens EXCEPT ![jobs[id].client] = @ + jobs[id].budget]
  /\ escrow' = escrow - jobs[id].budget
  /\ released' = [released EXCEPT ![id].client = @ + jobs[id].budget]

\* Mutant: every job that is rejected is refunded.
RefundsWhatever(id) == jobs[id].budget > 0

RefundsOnReject(id) == jobs[id].status = "Submitted" /\ jobs[id].budget > 0

Reject(sender, id) ==
  /\ ~paused
  /\ \/ jobs[id].status = "Open" /\ sender = jobs[id].client
     \/ jobs[id].status = "Submitted" /\ sender = jobs[id].evaluator
  /\ IF RefundsOnReject(id) THEN Refund(id) ELSE UNCHANGED purse
  /\ jobs' = [jobs EXCEPT ![id].status = "Rejected"]
  /\ logs' = [logs EXCEPT ![id] = @ \cup {"JobRejected"}]
  /\ UNCHANGED <<jobFeeBpsAtFunding, jobCounter, settings, now, named>>

CanClaimRefund(sender, id) ==
  sender \in {jobs[id].client, jobs[id].evaluator} \cup Admins \cup Operators

\* The one way out that a pause leaves open.
ClaimRefund(sender, id) ==
  /\ CanClaimRefund(sender, id)
  /\ \/ /\ jobs[id].status = "Funded"
        /\ jobs[id].expiredAt <= now
     \/ /\ jobs[id].status = "Submitted"
        /\ jobs[id].expiredAt + SubmittedEvaluationGrace <= now
  /\ jobs' = [jobs EXCEPT ![id].status = "Expired"]
  /\ Refund(id)
  /\ logs' = [logs EXCEPT ![id] = @ \cup {"JobExpired"}]
  /\ UNCHANGED <<jobFeeBpsAtFunding, jobCounter, settings, now, named>>

Elapse ==
  /\ \E t \in Times : now < t /\ now' = t
  /\ UNCHANGED <<jobs, jobFeeBpsAtFunding, jobCounter, settings, purse, logs, named>>

-----------------------------------------------------------------------------
Administer(sender) ==
  \/ \E fee \in FeeBps, treasury \in Treasuries : SetPlatformFee(sender, fee, treasury)
  \/ Pause(sender)
  \/ Unpause(sender)

Prepare(sender) ==
  \/ \E provider \in Providers \cup {Zero}, evaluator \in Evaluators, expiredAt \in Deadlines, terms \in Terms :
       CreateJob(sender, provider, evaluator, expiredAt, terms)
  \/ \E id \in Ids, provider \in Providers : SetProvider(sender, id, provider)
  \/ \E id \in Ids, amount \in Budgets : SetBudget(sender, id, amount) \/ Fund(sender, id, amount)

Perform(sender) ==
  \E id \in Ids : \/ Submit(sender, id)
                  \/ Complete(sender, id)
                  \/ Reject(sender, id)
                  \/ ClaimRefund(sender, id)

CommerceNext ==
  \/ \E sender \in Admins : Administer(sender)
  \/ \E sender \in Clients : Prepare(sender)
  \/ \E sender \in Addresses : Perform(sender)
  \/ Elapse

CommerceSpec == CommerceInit /\ [][CommerceNext]_commerce

-----------------------------------------------------------------------------
CommerceTypeOK ==
  /\ jobs \in [Ids -> Jobs]
  /\ jobFeeBpsAtFunding \in [Ids -> 0 .. MaxPlatformFeeBP]
  /\ jobCounter \in 0 .. MaxJobs
  /\ platformFeeBP \in 0 .. MaxPlatformFeeBP
  /\ platformTreasury \in Addresses
  /\ paused \in BOOLEAN
  /\ now \in Nat
  /\ tokens \in [Addresses -> Nat]
  /\ escrow \in Nat
  /\ logs \in [Ids -> SUBSET Events]
  /\ named \in [Ids -> Addresses \cup {Zero}]
  /\ released \in [Ids -> Payouts]

\* The budgets of the jobs whose money the contract owes to somebody.
Owed == [j \in Ids |-> IF jobs[j].status \in Holding THEN jobs[j].budget ELSE 0]

\* The contract holds exactly the budgets of the jobs that are funded and not
\* settled, whatever became of the others and of the fee meanwhile.
EscrowCovered == escrow = Total(Owed, Ids)

\* A job that was funded pays its whole budget out once: to provider and
\* treasury if it was completed, to the client if it was rejected or expired;
\* a job that was not funded, or is not settled, has paid nothing.
OneOutcome ==
  \A j \in Ids :
    LET job == jobs[j]
        out == released[j]
        settled == job.status \in Terminal /\ "JobFunded" \in logs[j]
    IN /\ ~settled => out = NoPayout
       /\ settled /\ job.status = "Completed" =>
            out.client = 0 /\ out.provider + out.treasury = job.budget
       /\ settled /\ job.status # "Completed" =>
            out = [client |-> job.budget, provider |-> 0, treasury |-> 0]

=============================================================================
