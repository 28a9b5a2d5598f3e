------------------------------ MODULE GhostVault ------------------------------
(***************************************************************************)
(* contracts/GhostVault.sol: pooled deposits that back prepaid credits,    *)
(* merchant balances allocated from them by settlement operators, fees,    *)
(* and the three ways ETH leaves the contract.                             *)
(*                                                                         *)
(* A transaction is atomic, with one exception: a payout calls its         *)
(* recipient after the books are written, and the recipient may run code   *)
(* before it accepts or refuses. The reentrancy guard stops every function *)
(* that moves value, but not the owner's setters. A refused payout reverts *)
(* the transaction, and whatever the recipient did in it.                  *)
(***************************************************************************)
EXTENDS Integers, FiniteSets, Sequences, Totals

CONSTANTS
  Merchants,      \* addresses that may earn, never the zero address
  OperatorAddresses,  \* addresses that may be settlement operators
  SettlementIds,  \* nonzero settlement ids
  Price,          \* creditPriceWei
  Caps,           \* values the owner may give maxTVL
  Amounts,        \* deposit values and gross amounts
  Fees,           \* fee amounts
  MaxBatch,       \* bound on the length of a batch
  MaxEth          \* bound on the ETH in the contract

ASSUME VaultAssumption ==
  /\ IsFiniteSet(Merchants)
  /\ Price \in Nat \ {0}
  /\ Caps \subseteq Nat \ {0}
  /\ Amounts \subseteq Nat \ {0}
  /\ Fees \subseteq Nat
  /\ MaxBatch \in Nat
  /\ MaxEth \in Nat

VARIABLES
  eth,                     \* address(this).balance
  maxTVL,
  totalCreditBacking,
  totalMerchantLiability,
  accruedFees,
  depositsPaused,
  allocationsPaused,
  balances,
  processedSettlementIds,
  settlementOperators,
  allocations,             \* MerchantEarningsAllocated events so far, per settlement id
  payout                   \* the external call in progress, with the state a revert restores

books == <<totalCreditBacking, totalMerchantLiability, accruedFees, balances>>
limits == <<maxTVL, depositsPaused, allocationsPaused, settlementOperators>>
settlements == <<processedSettlementIds, allocations>>
vars == <<eth, books, limits, settlements, payout>>

NotPaying == [open |-> FALSE]

Entries == [merchant : Merchants, gross : Amounts, fee : Fees, id : SettlementIds]

Init ==
  /\ eth = 0
  /\ maxTVL \in Caps
  /\ totalCreditBacking = 0
  /\ totalMerchantLiability = 0
  /\ accruedFees = 0
  /\ depositsPaused = FALSE
  /\ allocationsPaused = FALSE
  /\ balances = [m \in Merchants |-> 0]
  /\ processedSettlementIds = {}
  /\ settlementOperators = {}
  /\ allocations = [id \in SettlementIds |-> 0]
  /\ payout = NotPaying

\* nonReentrant: nothing that moves value runs inside a payout.
NotEntered == payout = NotPaying

DepositCredit(value) ==
  /\ NotEntered
  /\ ~depositsPaused
  /\ value % Price = 0
  /\ totalCreditBacking + value <= maxTVL
  /\ eth + value <= MaxEth
  /\ totalCreditBacking' = totalCreditBacking + value
  /\ eth' = eth + value
  /\ UNCHANGED <<totalMerchantLiability, accruedFees, balances, limits, settlements, payout>>

\* ETH may be forced into a contract that has no receive function.
ForceEth(value) ==
  /\ eth + value <= MaxEth
  /\ eth' = eth + value
  /\ UNCHANGED <<books, limits, settlements, payout>>

(***************************************************************************)
(* allocateMerchantEarnings(Batch). The batch is checked as a whole before *)
(* anything is written; the loop adds the entries up by merchant.          *)
(***************************************************************************)
Net(batch) == [i \in DOMAIN batch |-> batch[i].gross - batch[i].fee]
Fee(batch) == [i \in DOMAIN batch |-> batch[i].fee]
EntriesOf(batch, m) == {i \in DOMAIN batch : batch[i].merchant = m}

FreshIds(batch) ==
  /\ \A i \in DOMAIN batch : batch[i].id \notin processedSettlementIds
  /\ \A i, j \in DOMAIN batch : i # j => batch[i].id # batch[j].id

WithinBacking(batch) ==
  totalMerchantLiability + Total(Net(batch), DOMAIN batch)
    + accruedFees + Total(Fee(batch), DOMAIN batch) <= totalCreditBacking

\* Mutant: the last entry of a merchant overwrites the earlier ones.
LastEntryOnly(batch, m) ==
  LET own == EntriesOf(batch, m)
  IN IF own = {} THEN 0 ELSE Net(batch)[CHOOSE i \in own : \A j \in own : j <= i]
Credited(batch, m) == Total(Net(batch), EntriesOf(batch, m))

AllocateMerchantEarningsBatch(batch) ==
  /\ NotEntered
  /\ ~allocationsPaused
  /\ batch # <<>>
  /\ \A i \in DOMAIN batch : batch[i].fee <= batch[i].gross
  /\ FreshIds(batch)
  /\ WithinBacking(batch)
  /\ totalMerchantLiability' = totalMerchantLiability + Total(Net(batch), DOMAIN batch)
  /\ accruedFees' = accruedFees + Total(Fee(batch), DOMAIN batch)
  /\ balances' = [m \in Merchants |-> balances[m] + Credited(batch, m)]
  /\ processedSettlementIds' = processedSettlementIds \cup {batch[i].id : i \in DOMAIN batch}
  /\ allocations' = [id \in SettlementIds |->
       allocations[id] + Cardinality({i \in DOMAIN batch : batch[i].id = id})]
  /\ UNCHANGED <<eth, totalCreditBacking, limits, payout>>

\* onlySettlementOperator: the owner, or an address the owner has allowed.
Allocate(sender) ==
  /\ sender = "owner" \/ sender \in settlementOperators
  /\ \E n \in 1 .. MaxBatch : \E batch \in [1 .. n -> Entries] : AllocateMerchantEarningsBatch(batch)

(***************************************************************************)
(* Payouts. The books are written and the ETH moves before the recipient   *)
(* runs; AcceptPayout and RefusePayout end the call.                       *)
(***************************************************************************)
Send(amount) ==
  /\ amount <= eth
  /\ eth' = eth - amount
  /\ payout' = [open |-> TRUE, eth |-> eth, backing |-> totalCreditBacking,
                 liability |-> totalMerchantLiability, fees |-> accruedFees, balances |-> balances,
                 maxTVL |-> maxTVL, depositsPaused |-> depositsPaused,
                 allocationsPaused |-> allocationsPaused, operators |-> settlementOperators]

Withdraw(m) ==
  /\ NotEntered
  /\ balances[m] > 0
  /\ balances' = [balances EXCEPT ![m] = 0]
  /\ totalMerchantLiability' = totalMerchantLiability - balances[m]
  /\ totalCreditBacking' = totalCreditBacking - balances[m]
  /\ Send(balances[m])
  /\ UNCHANGED <<accruedFees, limits, settlements>>

ClearFees == accruedFees' = 0

ClaimFees ==
  /\ NotEntered
  /\ accruedFees > 0
  /\ ClearFees
  /\ totalCreditBacking' = totalCreditBacking - accruedFees
  /\ Send(accruedFees)
  /\ UNCHANGED <<totalMerchantLiability, balances, limits, settlements>>

\* Mutant: what merchants and the treasury are owed is kept, unspent credit is not.
OverLiability == eth - totalMerchantLiability - accruedFees
Excess == eth - totalCreditBacking

SweepExcess ==
  /\ NotEntered
  /\ Excess > 0
  /\ Send(Excess)
  /\ UNCHANGED <<books, limits, settlements>>

AcceptPayout ==
  /\ payout.open
  /\ payout' = NotPaying
  /\ UNCHANGED <<eth, books, limits, settlements>>

RefusePayout ==
  /\ payout.open
  /\ eth' = payout.eth
  /\ totalCreditBacking' = payout.backing
  /\ totalMerchantLiability' = payout.liability
  /\ accruedFees' = payout.fees
  /\ balances' = payout.balances
  /\ maxTVL' = payout.maxTVL
  /\ depositsPaused' = payout.depositsPaused
  /\ allocationsPaused' = payout.allocationsPaused
  /\ settlementOperators' = payout.operators
  /\ payout' = NotPaying
  /\ UNCHANGED settlements

(***************************************************************************)
(* The owner's setters, which the guard does not stop.                     *)
(***************************************************************************)
SetMaxTVL(cap) ==
  /\ cap >= totalCreditBacking
  /\ maxTVL' = cap
  /\ UNCHANGED <<eth, books, depositsPaused, allocationsPaused, settlementOperators, settlements, payout>>

PauseDeposits(paused) ==
  /\ depositsPaused' = paused
  /\ UNCHANGED <<eth, books, maxTVL, allocationsPaused, settlementOperators, settlements, payout>>

PauseAllocations(paused) ==
  /\ allocationsPaused' = paused
  /\ UNCHANGED <<eth, books, maxTVL, depositsPaused, settlementOperators, settlements, payout>>

SetSettlementOperator(operator, allowed) ==
  /\ settlementOperators' = IF allowed THEN settlementOperators \cup {operator}
                                       ELSE settlementOperators \ {operator}
  /\ UNCHANGED <<eth, books, maxTVL, depositsPaused, allocationsPaused, settlements, payout>>

Next ==
  \/ \E value \in Amounts : DepositCredit(value) \/ ForceEth(value)
  \/ \E sender \in OperatorAddresses \cup {"owner"} : Allocate(sender)
  \/ \E m \in Merchants : Withdraw(m)
  \/ ClaimFees
  \/ SweepExcess
  \/ AcceptPayout
  \/ RefusePayout
  \/ \E cap \in Caps : SetMaxTVL(cap)
  \/ \E paused \in BOOLEAN : PauseDeposits(paused) \/ PauseAllocations(paused)
  \/ \E operator \in OperatorAddresses, allowed \in BOOLEAN : SetSettlementOperator(operator, allowed)

Spec == Init /\ [][Next]_vars

(***************************************************************************)
(* Types.                                                                  *)
(***************************************************************************)
OpenPayout ==
  [open : {TRUE}, eth : Nat, backing : Nat, liability : Nat, fees : Nat,
   balances : [Merchants -> Nat], maxTVL : Caps, depositsPaused : BOOLEAN,
   allocationsPaused : BOOLEAN, operators : SUBSET OperatorAddresses]

\* Every variable has its type; the totals are natural numbers, so no subtraction of the contract
\* underflows, also in what a reverted payout restores.
TypeOK ==
  /\ eth \in Nat
  /\ maxTVL \in Caps
  /\ totalCreditBacking \in Nat
  /\ totalMerchantLiability \in Nat
  /\ accruedFees \in Nat
  /\ depositsPaused \in BOOLEAN
  /\ allocationsPaused \in BOOLEAN
  /\ balances \in [Merchants -> Nat]
  /\ processedSettlementIds \subseteq SettlementIds
  /\ settlementOperators \subseteq OperatorAddresses
  /\ allocations \in [SettlementIds -> Nat]
  /\ payout \in OpenPayout \cup {NotPaying}

(***************************************************************************)
(* Safety.                                                                 *)
(***************************************************************************)

\* The contract can always pay: its ETH covers the backing, the backing
\* covers what merchants and the treasury are owed, and stays under the
\* cap; also while a recipient runs, and after its refusal is reverted.
Solvent ==
  /\ totalCreditBacking <= eth
  /\ totalMerchantLiability + accruedFees <= totalCreditBacking
  /\ totalCreditBacking <= maxTVL

\* totalMerchantLiability is the sum of the merchants' balances, so a
\* withdrawal never underflows it, whatever batches built the balance.
LiabilityIsOwed == totalMerchantLiability = Total(balances, Merchants)

\* A settlement id is allocated once, within a batch and across batches.
SettlementAllocatedOnce ==
  \A id \in SettlementIds :
    allocations[id] = IF id \in processedSettlementIds THEN 1 ELSE 0

(***************************************************************************)
(* Action property.                                                        *)
(***************************************************************************)
Unallocated == totalCreditBacking - totalMerchantLiability - accruedFees

\* Backing that is not yet owed to anyone leaves the pool by a settlement
\* alone: no withdrawal, fee claim, sweep or reverted payout consumes it.
PoolOnlyAllocated ==
  [][Unallocated' < Unallocated => processedSettlementIds' # processedSettlementIds]_vars

=============================================================================
