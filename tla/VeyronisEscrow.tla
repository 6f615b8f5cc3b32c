--------------------------- MODULE VeyronisEscrow ---------------------------
(***************************************************************************)
(* The escrow contract (contracts/src/VeyronisEscrow.sol): one escrow per  *)
(* agreement, all of them living on the same chain.                        *)
(*                                                                         *)
(* A call that would revert is an action that is not enabled.  The only    *)
(* call out of the contract is the payment in withdraw(): the recipient    *)
(* may run code of its own, which calls escrows again (this one or         *)
(* others) before the payment returns, and may then fail, which undoes     *)
(* everything since withdraw() began.  `frames' is the stack of payments   *)
(* in progress, each with the chain state to restore.                      *)
(***************************************************************************)
EXTENDS Integers, Sequences

CONSTANTS
  Escrows,      \* escrow addresses
  Accounts,     \* nonzero addresses that send transactions or hold roles
  Contracts,    \* the accounts that have code
  Zero,         \* address(0) and bytes32(0)
  Evidence,     \* values passed as an evidence commitment, Zero included
  ClaimIds,     \* values the registry passes as a claim id, Zero included
  Values        \* values sent with deposit()

\* The immutables of an escrow: the constructor arguments of each address.
CONSTANTS
  buyer, seller, arbitrator, agreementCommitment, evidencePolicyCommitment,
  requiredAmount, evidenceRegistry, directConditionSettlement

ASSUME AddressAssumption ==
  /\ Zero \notin Accounts
  /\ Contracts \subseteq Accounts
  /\ buyer \in [Escrows -> Accounts \cup {Zero}]
  /\ seller \in [Escrows -> Accounts \cup {Zero}]
  /\ arbitrator \in [Escrows -> Accounts \cup {Zero}]
  /\ directConditionSettlement \in [Escrows -> BOOLEAN]

ASSUME AmountAssumption ==
  /\ requiredAmount \in [Escrows -> Nat]
  /\ Values \subseteq Nat

VARIABLES
  esc,          \* the storage and the balance of every escrow
  frames        \* payments of withdraw() in progress, outermost first

vars == <<esc, frames>>

States == {"AwaitingPayment", "AwaitingDelivery", "RefundRequested",
           "Disputed", "Complete", "Refunded", "Cancelled"}

\* An address where no escrow has been created yet (code.length == 0).
NoCode == "NoCode"

EscrowRecord ==
  [state : States \cup {NoCode},
   depositedAmount : Nat,
   activeEvidenceCommitment : Evidence \cup {Zero},
   verifiedClaimId : ClaimIds \cup {Zero},
   withdrawals : [Accounts -> Nat],
   locked : {1, 2},
   balance : Nat]

\* Storage before the constructor has run.
Blank ==
  [state |-> NoCode, depositedAmount |-> 0, activeEvidenceCommitment |-> Zero,
   verifiedClaimId |-> Zero, withdrawals |-> [a \in Accounts |-> 0],
   locked |-> 1, balance |-> 0]

Init ==
  /\ esc = [e \in Escrows |-> Blank]
  /\ frames = <<>>

(***************************************************************************)
(* Inside a payment only code can act: the sender of a nested call is a    *)
(* contract.  Between transactions every account can send one.             *)
(***************************************************************************)
MayCall(sender) == frames = <<>> \/ sender \in Contracts

ConstructorAccepts(e) ==
  /\ Zero \notin {buyer[e], seller[e], arbitrator[e]}
  /\ buyer[e] # seller[e]
  /\ buyer[e] # arbitrator[e]
  /\ seller[e] # arbitrator[e]
  /\ agreementCommitment[e] # Zero
  /\ evidencePolicyCommitment[e] # Zero
  /\ requiredAmount[e] # 0
  /\ evidenceRegistry[e] # Zero

Constructor(e) ==
  /\ frames = <<>>
  /\ esc[e].state = NoCode
  /\ ConstructorAccepts(e)
  /\ esc' = [esc EXCEPT ![e].state = "AwaitingPayment"]
  /\ UNCHANGED frames

\* Mutant: the deposit is credited and stays a deposit.
CreditKeepsDeposit(r, recipient) ==
  [r EXCEPT !.withdrawals[recipient] = @ + r.depositedAmount]

\* _credit: the whole deposit becomes the recipient's withdrawal balance.
Credit(r, recipient) ==
  [r EXCEPT !.withdrawals[recipient] = @ + r.depositedAmount,
            !.depositedAmount = 0]

\* Ends the agreement in favour of one party.
Settle(e, final, recipient) ==
  /\ esc' = [esc EXCEPT ![e] = Credit([@ EXCEPT !.state = final], recipient)]
  /\ UNCHANGED frames

Deposit(e, sender, value) ==
  /\ MayCall(sender)
  /\ sender = buyer[e]
  /\ esc[e].state = "AwaitingPayment"
  /\ value = requiredAmount[e]
  /\ esc' = [esc EXCEPT ![e].depositedAmount = value,
                        ![e].balance = @ + value,
                        ![e].state = "AwaitingDelivery"]
  /\ UNCHANGED frames

\* Mutant: no inState check.
CancelInAnyState(e, sender) ==
  /\ MayCall(sender)
  /\ sender = buyer[e]
  /\ esc[e].state # NoCode
  /\ esc' = [esc EXCEPT ![e].state = "Cancelled"]
  /\ UNCHANGED frames

Cancel(e, sender) ==
  /\ MayCall(sender)
  /\ sender = buyer[e]
  /\ esc[e].state = "AwaitingPayment"
  /\ esc' = [esc EXCEPT ![e].state = "Cancelled"]
  /\ UNCHANGED frames

ConfirmDelivery(e, sender) ==
  /\ MayCall(sender)
  /\ sender = buyer[e]
  /\ esc[e].state = "AwaitingDelivery"
  /\ ~directConditionSettlement[e]
  /\ Settle(e, "Complete", seller[e])

RequestRefund(e, sender, evidence) ==
  /\ MayCall(sender)
  /\ sender = buyer[e]
  /\ esc[e].state = "AwaitingDelivery"
  /\ evidence # Zero
  /\ esc' = [esc EXCEPT ![e].state = "RefundRequested",
                        ![e].activeEvidenceCommitment = evidence]
  /\ UNCHANGED frames

ApproveRefund(e, sender) ==
  /\ MayCall(sender)
  /\ sender = seller[e]
  /\ esc[e].state = "RefundRequested"
  /\ Settle(e, "Refunded", buyer[e])

OpenDispute(e, sender, evidence) ==
  /\ MayCall(sender)
  /\ sender \in {buyer[e], seller[e]}
  /\ esc[e].state \in {"AwaitingDelivery", "RefundRequested"}
  /\ evidence # Zero
  /\ esc' = [esc EXCEPT ![e].state = "Disputed",
                        ![e].activeEvidenceCommitment = evidence]
  /\ UNCHANGED frames

\* Mutant: the recipients of the two resolutions are exchanged.
ResolveDisputeExchanged(e, sender, resolution) ==
  /\ MayCall(sender)
  /\ sender = arbitrator[e]
  /\ esc[e].state = "Disputed"
  /\ \/ resolution = "RefundBuyer" /\ Settle(e, "Refunded", seller[e])
     \/ resolution = "ReleaseToSeller" /\ Settle(e, "Complete", buyer[e])

\* Mutant: a dispute cannot be resolved before evidence is verified.
ResolveDisputeOnEvidence(e, sender, resolution) ==
  /\ MayCall(sender)
  /\ sender = arbitrator[e]
  /\ esc[e].state = "Disputed"
  /\ esc[e].verifiedClaimId # Zero
  /\ \/ resolution = "RefundBuyer" /\ Settle(e, "Refunded", buyer[e])
     \/ resolution = "ReleaseToSeller" /\ Settle(e, "Complete", seller[e])

ResolveDispute(e, sender, resolution) ==
  /\ MayCall(sender)
  /\ sender = arbitrator[e]
  /\ esc[e].state = "Disputed"
  /\ \/ resolution = "RefundBuyer" /\ Settle(e, "Refunded", buyer[e])
     \/ resolution = "ReleaseToSeller" /\ Settle(e, "Complete", seller[e])

(***************************************************************************)
(* Calls made by the evidence registry.                                    *)
(***************************************************************************)
RecordVerifiedEvidence(e, sender, claimId, evidence) ==
  /\ esc[e].state = "Disputed"
  /\ sender = evidenceRegistry[e]
  /\ claimId # Zero /\ evidence # Zero
  /\ evidence = esc[e].activeEvidenceCommitment
  /\ esc[e].verifiedClaimId = Zero
  /\ esc' = [esc EXCEPT ![e].verifiedClaimId = claimId]
  /\ UNCHANGED frames

\* Mutant: the evidence of the settlement is not stored.
SettleVerifiedConditionWithoutEvidence(e, sender, claimId, evidence) ==
  /\ esc[e].state = "AwaitingDelivery"
  /\ sender = evidenceRegistry[e]
  /\ directConditionSettlement[e]
  /\ claimId # Zero /\ evidence # Zero
  /\ esc[e].activeEvidenceCommitment = Zero
  /\ esc[e].verifiedClaimId = Zero
  /\ esc' = [esc EXCEPT ![e] =
               Credit([@ EXCEPT !.verifiedClaimId = claimId,
                                !.state = "Complete"],
                      seller[e])]
  /\ UNCHANGED frames

SettleVerifiedCondition(e, sender, claimId, evidence) ==
  /\ esc[e].state = "AwaitingDelivery"
  /\ sender = evidenceRegistry[e]
  /\ directConditionSettlement[e]
  /\ claimId # Zero /\ evidence # Zero
  /\ esc[e].activeEvidenceCommitment = Zero
  /\ esc[e].verifiedClaimId = Zero
  /\ esc' = [esc EXCEPT ![e] =
               Credit([@ EXCEPT !.activeEvidenceCommitment = evidence,
                                !.verifiedClaimId = claimId,
                                !.state = "Complete"],
                      seller[e])]
  /\ UNCHANGED frames

RecordVerifiedCondition(e, sender, claimId, evidence) ==
  /\ esc[e].state = "AwaitingDelivery"
  /\ sender = evidenceRegistry[e]
  /\ ~directConditionSettlement[e]
  /\ claimId # Zero /\ evidence # Zero
  /\ esc[e].activeEvidenceCommitment = Zero
  /\ esc[e].verifiedClaimId = Zero
  /\ esc' = [esc EXCEPT ![e].verifiedClaimId = claimId]
  /\ UNCHANGED frames

(***************************************************************************)
(* withdraw().  An account without code is paid within the call.  A        *)
(* contract gets control with the payment: WithdrawCall is the part before *)
(* payable(msg.sender).call, WithdrawReturn the part after it succeeded,   *)
(* WithdrawRevert the revert TransferFailed() when it did not.             *)
(***************************************************************************)
PaidOut(r, recipient) ==
  [r EXCEPT !.withdrawals[recipient] = 0,
            !.balance = @ - r.withdrawals[recipient]]

CanWithdraw(e, sender) ==
  /\ MayCall(sender)
  /\ esc[e].locked = 1
  /\ esc[e].withdrawals[sender] # 0

WithdrawToWallet(e, sender) ==
  /\ sender \notin Contracts
  /\ CanWithdraw(e, sender)
  /\ esc' = [esc EXCEPT ![e] = PaidOut(@, sender)]
  /\ UNCHANGED frames

\* Mutant: pays before it zeroes the credit, without the lock.
WithdrawCallUnguarded(e, sender) ==
  /\ sender \in Contracts
  /\ MayCall(sender)
  /\ esc[e].withdrawals[sender] # 0
  /\ esc' = [esc EXCEPT ![e].balance = @ - esc[e].withdrawals[sender]]
  /\ frames' = Append(frames, [escrow |-> e, saved |-> esc])

WithdrawCall(e, sender) ==
  /\ sender \in Contracts
  /\ CanWithdraw(e, sender)
  /\ esc' = [esc EXCEPT ![e] = [PaidOut(@, sender) EXCEPT !.locked = 2]]
  /\ frames' = Append(frames, [escrow |-> e, saved |-> esc])

Top == frames[Len(frames)]

Pop(s) == SubSeq(s, 1, Len(s) - 1)

WithdrawReturn ==
  /\ frames # <<>>
  /\ esc' = [esc EXCEPT ![Top.escrow].locked = 1]
  /\ frames' = Pop(frames)

WithdrawRevert ==
  /\ frames # <<>>
  /\ esc' = Top.saved
  /\ frames' = Pop(frames)

(***************************************************************************)
(* The calls a participant makes, and the calls of a registry that may     *)
(* make any of its three calls at any time between two transactions (the   *)
(* module EvidenceClaimRegistry has the registry that really makes them).  *)
(***************************************************************************)
PartyCall(e) ==
  \/ Constructor(e)
  \/ \E sender \in Accounts :
       \/ \E value \in Values : Deposit(e, sender, value)
       \/ Cancel(e, sender)
       \/ ConfirmDelivery(e, sender)
       \/ \E evidence \in Evidence : RequestRefund(e, sender, evidence)
       \/ ApproveRefund(e, sender)
       \/ \E evidence \in Evidence : OpenDispute(e, sender, evidence)
       \/ \E resolution \in {"RefundBuyer", "ReleaseToSeller"} :
            ResolveDispute(e, sender, resolution)
       \/ WithdrawToWallet(e, sender)
       \/ WithdrawCall(e, sender)

RegistryCall(e) ==
  /\ frames = <<>>
  /\ \E claimId \in ClaimIds, evidence \in Evidence :
       \/ RecordVerifiedEvidence(e, evidenceRegistry[e], claimId, evidence)
       \/ SettleVerifiedCondition(e, evidenceRegistry[e], claimId, evidence)
       \/ RecordVerifiedCondition(e, evidenceRegistry[e], claimId, evidence)

PaymentEnds == WithdrawReturn \/ WithdrawRevert

Next ==
  \/ \E e \in Escrows : PartyCall(e) \/ RegistryCall(e)
  \/ PaymentEnds

Spec == Init /\ [][Next]_vars

(***************************************************************************)
(* Properties.                                                             *)
(***************************************************************************)
SavedState ==
  [escrow : Escrows, saved : [Escrows -> EscrowRecord]]

(* The storage of every escrow, current or saved for a revert, is made of  *)
(* values of the types the contract declares.                              *)
TypeOK ==
  /\ esc \in [Escrows -> EscrowRecord]
  /\ frames \in Seq(SavedState)

\* The chain as of the last finished transaction.
committed == IF frames = <<>> THEN esc ELSE frames[1].saved

Holding == {"AwaitingDelivery", "RefundRequested", "Disputed"}

\* totalAccountedFunds()
TotalAccountedFunds(e, r) ==
  r.depositedAmount + r.withdrawals[buyer[e]] + r.withdrawals[seller[e]]

SolventRecord(e, r) ==
  IF r.state = NoCode THEN r.balance = 0
                      ELSE r.balance = TotalAccountedFunds(e, r)

(* The ether an escrow holds is exactly what it owes: the open deposit and *)
(* the two parties' withdrawal credits.  Also between the zeroing of a     *)
(* credit in withdraw() and the end of the payment, when the recipient's   *)
(* code runs and may call any escrow.                                      *)
Solvent == \A e \in Escrows : SolventRecord(e, esc[e])

CreditRecord(e, r) ==
  \A a \in Accounts : r.withdrawals[a] # 0 =>
    /\ r.withdrawals[a] = requiredAmount[e]
    /\ \/ a = seller[e] /\ r.state = "Complete"
       \/ a = buyer[e] /\ r.state = "Refunded"

(* A withdrawal credit is the agreement's whole amount and belongs to the  *)
(* party the final state names: the seller of a Complete escrow or the     *)
(* buyer of a Refunded one, never both and never anyone else.              *)
CreditMatchesOutcome == \A e \in Escrows : CreditRecord(e, esc[e])

DepositRecord(e, r) ==
  r.depositedAmount = IF r.state \in Holding THEN requiredAmount[e] ELSE 0

(* The escrow holds the required amount as a deposit exactly while the     *)
(* agreement is funded and undecided.                                      *)
DepositHeldWhileOpen == \A e \in Escrows : DepositRecord(e, esc[e])

(* A decided or cancelled escrow stays in that state for good, with the    *)
(* evidence and the claim it was decided with: no later call of a party,   *)
(* of the arbitrator or of the registry changes them.                      *)
OutcomeIsFinal ==
  [][\A e \in Escrows :
       committed[e].state \in {"Complete", "Refunded", "Cancelled"} =>
         /\ committed'[e].state = committed[e].state
         /\ committed'[e].verifiedClaimId = committed[e].verifiedClaimId
         /\ committed'[e].activeEvidenceCommitment
              = committed[e].activeEvidenceCommitment]_vars

(* An escrow records at most one verified claim in its life: a hybrid      *)
(* escrow that recorded its prerequisite records nothing when it is later  *)
(* disputed.                                                               *)
VerifiedClaimWrittenOnce ==
  [][\A e \in Escrows :
       committed[e].verifiedClaimId # Zero =>
         committed'[e].verifiedClaimId = committed[e].verifiedClaimId]_vars

(* While a payment of an escrow is running no second one can start: all    *)
(* the payments in progress are of different escrows.                      *)
OnePaymentPerEscrow ==
  \A i, j \in 1..Len(frames) :
    i # j => frames[i].escrow # frames[j].escrow

(***************************************************************************)
(* The custody promise: EscrowCustody, of the finished transactions.       *)
(***************************************************************************)
PhaseOf(e, r) ==
  CASE r.state \in {NoCode, "AwaitingPayment"} -> "Unfunded"
    [] r.state \in Holding -> "Funded"
    [] r.state = "Cancelled" -> "Cancelled"
    [] r.state = "Complete" ->
         IF r.withdrawals[seller[e]] = 0 THEN "PaidSeller" ELSE "OwedSeller"
    [] r.state = "Refunded" ->
         IF r.withdrawals[buyer[e]] = 0 THEN "PaidBuyer" ELSE "OwedBuyer"

phase == [e \in Escrows |-> PhaseOf(e, committed[e])]

Custody == INSTANCE EscrowCustody WITH phase <- phase

(* The contract implements EscrowCustody: money goes in once, to one       *)
(* party, and out once, whatever is undone by a failing recipient.         *)
CustodySpec == Custody!Spec

(***************************************************************************)
(* Liveness, for participants who act: the arbitrator rules, in a          *)
(* transaction of its own, on a dispute it keeps being able to rule on,    *)
(* and a party without code collects its credit.  Transactions of others   *)
(* may come in between, hence strong fairness.  A transaction does not     *)
(* call for ever (it runs out of gas): its outermost payment ends.         *)
(***************************************************************************)
Rules(e) ==
  /\ frames = <<>>
  /\ \E resolution \in {"RefundBuyer", "ReleaseToSeller"} :
       ResolveDispute(e, arbitrator[e], resolution)

Collects(e) == \E a \in Accounts : WithdrawToWallet(e, a)

TransactionEnds == PaymentEnds /\ frames' = <<>>

Fairness ==
  /\ WF_vars(PaymentEnds)
  /\ SF_vars(TransactionEnds)
  /\ \A e \in Escrows : SF_vars(Rules(e)) /\ SF_vars(Collects(e))

FairSpec == Spec /\ Fairness

(* A dispute is always decided and the money of a party that is not a      *)
(* contract is paid: nothing the other party, a recipient's failing code   *)
(* or the registry does can lock it in the escrow.                         *)
DisputePaysOut ==
  \A e \in Escrows :
    committed[e].state = "Disputed" ~>
      /\ committed[e].state \in {"Complete", "Refunded"}
      /\ \A a \in Accounts \ Contracts : committed[e].withdrawals[a] = 0
=============================================================================
