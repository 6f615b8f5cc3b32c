------------------------ MODULE VeyronisEscrowProofs ------------------------
(***************************************************************************)
(* Proofs about the escrow contract, for any set of escrows, accounts,     *)
(* contracts and amounts.                                                  *)
(***************************************************************************)
EXTENDS VeyronisEscrow, TLAPS, SequenceTheorems

\* The invariant of one escrow's record, current or saved.
RecordOK(e, r) ==
  /\ r \in EscrowRecord
  /\ r.state # NoCode => ConstructorAccepts(e)
  /\ SolventRecord(e, r)
  /\ CreditRecord(e, r)
  /\ DepositRecord(e, r)

Final == {"Complete", "Refunded", "Cancelled"}

\* What no sequence of calls undoes: r is a record of an escrow, q a later one.
Evolves(e, r, q) ==
  /\ PhaseOf(e, q) \in Custody!From(PhaseOf(e, r))
  /\ r.state \in Final =>
       /\ q.state = r.state
       /\ q.verifiedClaimId = r.verifiedClaimId
       /\ q.activeEvidenceCommitment = r.activeEvidenceCommitment
  /\ r.verifiedClaimId # Zero => q.verifiedClaimId = r.verifiedClaimId

(* The roles of a constructed escrow are distinct accounts.                *)
LEMMA RolesAreAccounts ==
  ASSUME NEW e \in Escrows, ConstructorAccepts(e)
  PROVE  /\ buyer[e] \in Accounts
         /\ seller[e] \in Accounts
         /\ buyer[e] # seller[e]
         /\ requiredAmount[e] \in Nat \ {0}
BY AddressAssumption, AmountAssumption DEF ConstructorAccepts

(* Every phase is one of the custody phases and comes after itself, and    *)
(* what comes after a later phase comes after the earlier one.             *)
LEMMA PhaseOrder ==
  ASSUME NEW p \in Custody!Phases, NEW q \in Custody!From(p),
         NEW s \in Custody!From(q)
  PROVE  /\ p \in Custody!From(p)
         /\ q \in Custody!Phases
         /\ s \in Custody!From(p)
<1> USE DEF Custody!Phases, Custody!From
<1>1. CASE p = "Unfunded" BY <1>1
<1>2. CASE p = "Funded" BY <1>2
<1>3. CASE p = "OwedSeller" BY <1>3
<1>4. CASE p = "OwedBuyer" BY <1>4
<1>5. CASE p \in {"Cancelled", "PaidSeller", "PaidBuyer"} BY <1>5
<1> QED BY <1>1, <1>2, <1>3, <1>4, <1>5

(* The phase of a record by its state.                                     *)
LEMMA PhaseCases ==
  ASSUME NEW e \in Escrows, NEW r \in EscrowRecord
  PROVE  /\ PhaseOf(e, r) \in Custody!Phases
         /\ r.state \in {NoCode, "AwaitingPayment"} => PhaseOf(e, r) = "Unfunded"
         /\ r.state \in Holding => PhaseOf(e, r) = "Funded"
         /\ r.state = "Cancelled" => PhaseOf(e, r) = "Cancelled"
         /\ r.state = "Complete" =>
              PhaseOf(e, r) = IF r.withdrawals[seller[e]] = 0
                              THEN "PaidSeller" ELSE "OwedSeller"
         /\ r.state = "Refunded" =>
              PhaseOf(e, r) = IF r.withdrawals[buyer[e]] = 0
                              THEN "PaidBuyer" ELSE "OwedBuyer"
<1> r.state \in States \cup {NoCode}
  BY DEF EscrowRecord
<1> QED
  BY DEF PhaseOf, Holding, NoCode, States, Custody!Phases

(* A record comes after itself.                                           *)
LEMMA EvolvesReflexive ==
  ASSUME NEW e \in Escrows, NEW r \in EscrowRecord
  PROVE  Evolves(e, r, r)
BY PhaseCases DEF Evolves, Custody!From, Custody!Phases

(* What comes after a later record comes after the earlier one.           *)
LEMMA EvolvesTransitive ==
  ASSUME NEW e \in Escrows, NEW r \in EscrowRecord, NEW q \in EscrowRecord,
         NEW s \in EscrowRecord, Evolves(e, r, q), Evolves(e, q, s)
  PROVE  Evolves(e, r, s)
<1>1. PhaseOf(e, s) \in Custody!From(PhaseOf(e, r))
  BY PhaseCases, PhaseOrder DEF Evolves
<1> QED BY <1>1 DEF Evolves

(***************************************************************************)
(* One call changes one escrow, keeps its record good and undoes nothing.  *)
(***************************************************************************)
RecordsOK(f) == \A e \in Escrows : RecordOK(e, f[e])

GoodStep(e) ==
  /\ esc' \in [Escrows -> EscrowRecord]
  /\ \A d \in Escrows \ {e} : esc'[d] = esc[d]
  /\ RecordOK(e, esc'[e])
  /\ Evolves(e, esc[e], esc'[e])

(* A call that replaces the record of one escrow by a good later one.      *)
LEMMA ReplaceRecord ==
  ASSUME esc \in [Escrows -> EscrowRecord], NEW e \in Escrows,
         NEW q \in EscrowRecord, RecordOK(e, q), Evolves(e, esc[e], q),
         esc' = [esc EXCEPT ![e] = q]
  PROVE  GoodStep(e)
BY DEF GoodStep

(* Crediting the whole deposit to the party the final state names.         *)
LEMMA CreditOK ==
  ASSUME NEW e \in Escrows, NEW r \in EscrowRecord, RecordOK(e, r),
         r.state \in Holding, r.state # NoCode,
         NEW final \in {"Complete", "Refunded"},
         NEW recipient, recipient = IF final = "Complete" THEN seller[e]
                                                          ELSE buyer[e],
         NEW evidence \in Evidence \cup {Zero},
         NEW claimId \in ClaimIds \cup {Zero},
         r.verifiedClaimId = Zero \/ claimId = r.verifiedClaimId,
         NEW q, q = Credit([r EXCEPT !.activeEvidenceCommitment = evidence,
                                     !.verifiedClaimId = claimId,
                                     !.state = final],
                           recipient)
  PROVE  /\ q \in EscrowRecord
         /\ RecordOK(e, q)
         /\ Evolves(e, r, q)
<1>1. /\ buyer[e] \in Accounts
      /\ seller[e] \in Accounts
      /\ buyer[e] # seller[e]
      /\ requiredAmount[e] \in Nat \ {0}
      /\ recipient \in Accounts
  BY RolesAreAccounts DEF RecordOK
<1>2. /\ r.depositedAmount = requiredAmount[e]
      /\ \A a \in Accounts : r.withdrawals[a] = 0
      /\ r.balance = requiredAmount[e]
  BY <1>1 DEF RecordOK, DepositRecord, CreditRecord, SolventRecord,
              TotalAccountedFunds, EscrowRecord, Holding
<1>3. /\ q.state = final
      /\ q.depositedAmount = 0
      /\ q.activeEvidenceCommitment = evidence
      /\ q.verifiedClaimId = claimId
      /\ q.withdrawals = [r.withdrawals EXCEPT ![recipient] = @ + r.depositedAmount]
      /\ q.locked = r.locked
      /\ q.balance = r.balance
  BY DEF Credit, EscrowRecord
<1>4. q.withdrawals \in [Accounts -> Nat]
  BY <1>1, <1>2, <1>3 DEF EscrowRecord
<1>5. q \in EscrowRecord
  <2> DEFINE settled == [r EXCEPT !.activeEvidenceCommitment = evidence,
                                  !.verifiedClaimId = claimId,
                                  !.state = final]
  <2>1. settled \in EscrowRecord
    BY DEF EscrowRecord, States
  <2> HIDE DEF settled
  <2>2. q = [settled EXCEPT !.withdrawals = q.withdrawals, !.depositedAmount = 0]
    BY <2>1 DEF settled, Credit, EscrowRecord
  <2>3. \A w \in [Accounts -> Nat] :
          [settled EXCEPT !.withdrawals = w, !.depositedAmount = 0] \in EscrowRecord
    BY ONLY <2>1 DEF EscrowRecord
  <2> QED
    BY <1>4, <2>2, <2>3
<1>6. \A a \in Accounts :
        q.withdrawals[a] = IF a = recipient THEN requiredAmount[e] ELSE 0
  BY <1>1, <1>2, <1>3 DEF EscrowRecord
<1>7. RecordOK(e, q)
  <2>1. SolventRecord(e, q)
    BY <1>1, <1>2, <1>3, <1>6 DEF SolventRecord, TotalAccountedFunds, NoCode
  <2>2. CreditRecord(e, q)
    BY <1>1, <1>3, <1>6 DEF CreditRecord
  <2>3. DepositRecord(e, q)
    BY <1>3 DEF DepositRecord, Holding
  <2> QED
    BY <1>5, <2>1, <2>2, <2>3 DEF RecordOK
<1>8. Evolves(e, r, q)
  <2>1. PhaseOf(e, r) = "Funded"
    BY PhaseCases
  <2>2. PhaseOf(e, q) \in {"OwedSeller", "OwedBuyer"}
    BY PhaseCases, <1>1, <1>3, <1>5, <1>6
  <2>3. PhaseOf(e, q) \in Custody!From(PhaseOf(e, r))
    BY <2>1, <2>2 DEF Custody!From, Custody!Phases
  <2>4. r.state \notin Final
    BY DEF Final, Holding
  <2> QED
    BY <1>3, <2>3, <2>4 DEF Evolves
<1> QED
  BY <1>5, <1>7, <1>8

(* Settle, in a state that holds the deposit, is a good step.             *)
LEMMA SettleGood ==
  ASSUME esc \in [Escrows -> EscrowRecord], NEW e \in Escrows,
         RecordOK(e, esc[e]), esc[e].state \in Holding,
         NEW final \in {"Complete", "Refunded"},
         NEW recipient, recipient = IF final = "Complete" THEN seller[e]
                                                          ELSE buyer[e],
         Settle(e, final, recipient)
  PROVE  GoodStep(e)
<1> DEFINE r == esc[e]
           q == Credit([r EXCEPT !.state = final], recipient)
<1>1. /\ r \in EscrowRecord
      /\ r.activeEvidenceCommitment \in Evidence \cup {Zero}
      /\ r.verifiedClaimId \in ClaimIds \cup {Zero}
  BY DEF EscrowRecord
<1>2. [r EXCEPT !.state = final]
        = [r EXCEPT !.activeEvidenceCommitment = r.activeEvidenceCommitment,
                    !.verifiedClaimId = r.verifiedClaimId,
                    !.state = final]
  BY <1>1 DEF EscrowRecord
<1>3. r.state # NoCode
  BY DEF Holding, NoCode
<1>4. /\ q \in EscrowRecord
      /\ RecordOK(e, q)
      /\ Evolves(e, r, q)
  <2> HIDE DEF r
  <2> r \in EscrowRecord /\ RecordOK(e, r) /\ r.state \in Holding
    BY <1>1 DEF r
  <2> QED
    BY <1>1, <1>2, <1>3, CreditOK
<1>5. esc' = [esc EXCEPT ![e] = q]
  BY DEF Settle
<1> QED
  BY <1>4, <1>5, ReplaceRecord

(* The calls that only change the state, the deposit or the evidence of    *)
(* an escrow that has no credit yet.                                       *)
LEMMA OpenRecordOK ==
  ASSUME NEW e \in Escrows, NEW r \in EscrowRecord, RecordOK(e, r),
         NEW q \in EscrowRecord, r.state \notin Final,
         q.withdrawals = r.withdrawals,
         q.state # NoCode, ConstructorAccepts(e),
         \A a \in Accounts : r.withdrawals[a] = 0,
         q.balance = q.depositedAmount,
         DepositRecord(e, q),
         r.state \in Holding => q.state \in Holding,
         q.state \notin {"Complete", "Refunded"},
         r.verifiedClaimId # Zero => q.verifiedClaimId = r.verifiedClaimId
  PROVE  RecordOK(e, q) /\ Evolves(e, r, q)
<1>1. /\ buyer[e] \in Accounts
      /\ seller[e] \in Accounts
  BY RolesAreAccounts
<1>2. RecordOK(e, q)
  <2>1. SolventRecord(e, q)
    BY <1>1 DEF SolventRecord, TotalAccountedFunds, EscrowRecord
  <2>2. CreditRecord(e, q)
    BY DEF CreditRecord
  <2> QED
    BY <2>1, <2>2 DEF RecordOK
<1>3. Evolves(e, r, q)
  <2>1. r.state \in {NoCode, "AwaitingPayment"} \cup Holding
    BY DEF EscrowRecord, States, Final, Holding
  <2>2. q.state \in {"AwaitingPayment", "Cancelled"} \cup Holding
    BY DEF EscrowRecord, States, Holding
  <2>3. CASE r.state \in Holding
    <3>1. PhaseOf(e, r) = "Funded" /\ PhaseOf(e, q) = "Funded"
      BY <2>3, PhaseCases
    <3> QED
      BY <3>1 DEF Evolves, Custody!From, Custody!Phases, Final
  <2>4. CASE r.state \in {NoCode, "AwaitingPayment"}
    <3>1. PhaseOf(e, r) = "Unfunded" /\ PhaseOf(e, q) \in Custody!Phases
      BY <2>4, PhaseCases
    <3> QED
      BY <3>1 DEF Evolves, Custody!From, Custody!Phases, Final
  <2> QED
    BY <2>1, <2>3, <2>4
<1> QED
  BY <1>2, <1>3

\* The situation in which a call is made.
CallAssumption(e) ==
  /\ esc \in [Escrows -> EscrowRecord]
  /\ RecordOK(e, esc[e])

(* An escrow with no decision has no credits, and holds its deposit.       *)
LEMMA OpenRecord ==
  ASSUME NEW e \in Escrows, NEW r \in EscrowRecord, RecordOK(e, r),
         r.state \notin {"Complete", "Refunded"}
  PROVE  /\ \A a \in Accounts : r.withdrawals[a] = 0
         /\ r.state # NoCode =>
              /\ ConstructorAccepts(e)
              /\ r.balance = r.depositedAmount
<1>1. \A a \in Accounts : r.withdrawals[a] = 0
  BY DEF RecordOK, CreditRecord
<1>2. ASSUME r.state # NoCode
      PROVE  ConstructorAccepts(e) /\ r.balance = r.depositedAmount
  <2>1. ConstructorAccepts(e)
    BY <1>2 DEF RecordOK
  <2>2. buyer[e] \in Accounts /\ seller[e] \in Accounts
    BY <2>1, RolesAreAccounts
  <2>3. r.balance = r.depositedAmount
    BY <1>1, <1>2, <2>2 DEF RecordOK, SolventRecord, TotalAccountedFunds, EscrowRecord
  <2> QED
    BY <2>1, <2>3
<1> QED
  BY <1>1, <1>2

(* Creating an escrow is a good step.                                     *)
LEMMA ConstructorGood ==
  ASSUME NEW e \in Escrows, CallAssumption(e), Constructor(e)
  PROVE  GoodStep(e)
<1> DEFINE r == esc[e]
           q == [r EXCEPT !.state = "AwaitingPayment"]
<1>1. r \in EscrowRecord /\ q \in EscrowRecord /\ r.state = NoCode
  <2>1. r \in EscrowRecord /\ r.state = NoCode
    BY DEF CallAssumption, Constructor
  <2>2. q \in EscrowRecord
    BY <2>1 DEF EscrowRecord, States
  <2> QED
    BY <2>1, <2>2
<1>2. \A a \in Accounts : r.withdrawals[a] = 0
  BY <1>1, OpenRecord DEF CallAssumption, NoCode
<1>3. r.balance = 0 /\ r.depositedAmount = 0
  BY <1>1 DEF CallAssumption, RecordOK, SolventRecord, DepositRecord, Holding, NoCode
<1>4. /\ q.withdrawals = r.withdrawals
      /\ q.state = "AwaitingPayment"
      /\ q.verifiedClaimId = r.verifiedClaimId
      /\ q.balance = r.balance
      /\ q.depositedAmount = r.depositedAmount
  BY <1>1 DEF EscrowRecord
<1>5. RecordOK(e, q) /\ Evolves(e, r, q)
  <2>1. DepositRecord(e, q)
    BY <1>3, <1>4 DEF DepositRecord, Holding
  <2>2. r.state \notin Final /\ r.state \notin Holding /\ q.state # NoCode
    BY <1>1, <1>4 DEF Final, Holding, NoCode
  <2>3. ConstructorAccepts(e) /\ RecordOK(e, r)
    BY DEF Constructor, CallAssumption
  <2> HIDE DEF r, q
  <2> QED
    BY <1>1, <1>2, <1>3, <1>4, <2>1, <2>2, <2>3, OpenRecordOK
<1>6. esc' = [esc EXCEPT ![e] = q]
  BY DEF Constructor, CallAssumption
<1> QED
  BY <1>1, <1>5, <1>6, ReplaceRecord DEF CallAssumption

(* A call on an undecided escrow that replaces its record by q, which is   *)
(* undecided or cancelled.                                                 *)
LEMMA OpenCallGood ==
  ASSUME NEW e \in Escrows, CallAssumption(e),
         esc[e].state \in {"AwaitingPayment"} \cup Holding,
         NEW q \in EscrowRecord,
         q.withdrawals = esc[e].withdrawals,
         q.balance - esc[e].balance = q.depositedAmount - esc[e].depositedAmount,
         DepositRecord(e, q),
         q.state \in {"AwaitingPayment", "Cancelled"} \cup Holding,
         esc[e].state \in Holding => q.state \in Holding,
         esc[e].verifiedClaimId # Zero =>
           q.verifiedClaimId = esc[e].verifiedClaimId,
         esc' = [esc EXCEPT ![e] = q]
  PROVE  GoodStep(e)
<1> DEFINE r == esc[e]
<1>1. /\ r \in EscrowRecord
      /\ RecordOK(e, r)
      /\ r.state \notin Final
      /\ r.state # NoCode
      /\ q.state \notin {"Complete", "Refunded"}
      /\ q.state # NoCode
  BY DEF CallAssumption, Final, Holding, NoCode
<1>2. /\ \A a \in Accounts : r.withdrawals[a] = 0
      /\ ConstructorAccepts(e)
      /\ r.balance = r.depositedAmount
  BY <1>1, OpenRecord DEF Final
<1>3. q.balance = q.depositedAmount
  <2>1. {q.balance, q.depositedAmount, r.balance, r.depositedAmount} \subseteq Nat
    BY <1>1 DEF EscrowRecord
  <2> QED
    BY <1>2, <2>1
<1>4. RecordOK(e, q) /\ Evolves(e, r, q)
  <2> r.verifiedClaimId # Zero => q.verifiedClaimId = r.verifiedClaimId
    OBVIOUS
  <2> r.state \in Holding => q.state \in Holding
    OBVIOUS
  <2> q.withdrawals = r.withdrawals
    OBVIOUS
  <2> HIDE DEF r
  <2> QED
    BY <1>1, <1>2, <1>3, OpenRecordOK
<1> QED
  BY <1>4, ReplaceRecord DEF CallAssumption

(* The buyer's deposit is a good step.                                    *)
LEMMA DepositGood ==
  ASSUME NEW e \in Escrows, CallAssumption(e),
         NEW sender \in Accounts, NEW value \in Values, Deposit(e, sender, value)
  PROVE  GoodStep(e)
<1> DEFINE r == esc[e]
           q == [r EXCEPT !.depositedAmount = value, !.balance = @ + value,
                          !.state = "AwaitingDelivery"]
<1>1. /\ r \in EscrowRecord
      /\ r.state = "AwaitingPayment"
      /\ value = requiredAmount[e]
      /\ value \in Nat
      /\ r.depositedAmount = 0
      /\ esc' = [esc EXCEPT ![e] = q]
  BY AmountAssumption DEF CallAssumption, Deposit, RecordOK, DepositRecord, Holding
<1>2. /\ q \in EscrowRecord
      /\ q.withdrawals = r.withdrawals
      /\ q.verifiedClaimId = r.verifiedClaimId
      /\ q.balance - r.balance = q.depositedAmount - r.depositedAmount
      /\ q.depositedAmount = value
      /\ q.state = "AwaitingDelivery"
  <2>1. /\ r.balance \in Nat
        /\ r.balance + value \in Nat
    BY <1>1 DEF EscrowRecord
  <2>2. /\ q.withdrawals = r.withdrawals
        /\ q.verifiedClaimId = r.verifiedClaimId
        /\ q.balance = r.balance + value
        /\ q.depositedAmount = value
        /\ q.state = "AwaitingDelivery"
    BY <1>1 DEF EscrowRecord
  <2>3. q \in EscrowRecord
    BY <1>1, <2>1 DEF EscrowRecord, States
  <2> HIDE DEF q, r
  <2> QED
    BY <1>1, <2>1, <2>2, <2>3
<1>3. DepositRecord(e, q)
  BY <1>1, <1>2 DEF DepositRecord, Holding
<1> QED
  BY <1>1, <1>2, <1>3, OpenCallGood DEF Holding

(* Cancelling is a good step.                                             *)
LEMMA CancelGood ==
  ASSUME NEW e \in Escrows, CallAssumption(e),
         NEW sender \in Accounts, Cancel(e, sender)
  PROVE  GoodStep(e)
<1> DEFINE r == esc[e]
           q == [r EXCEPT !.state = "Cancelled"]
<1>1. /\ r \in EscrowRecord
      /\ r.state = "AwaitingPayment"
      /\ r.depositedAmount = 0
      /\ esc' = [esc EXCEPT ![e] = q]
  BY DEF CallAssumption, Cancel, RecordOK, DepositRecord, Holding
<1>2. /\ q \in EscrowRecord
      /\ q.withdrawals = r.withdrawals
      /\ q.verifiedClaimId = r.verifiedClaimId
      /\ q.balance = r.balance
      /\ q.depositedAmount = r.depositedAmount
      /\ q.state = "Cancelled"
  BY <1>1 DEF EscrowRecord, States
<1>3. DepositRecord(e, q)
  BY <1>1, <1>2 DEF DepositRecord, Holding
<1>4. q.balance - r.balance = q.depositedAmount - r.depositedAmount
  BY <1>1, <1>2 DEF EscrowRecord
<1> QED
  BY <1>1, <1>2, <1>3, <1>4, OpenCallGood DEF Holding

(* A call on a funded escrow that only moves it to another undecided       *)
(* state, replaces the active evidence and may record a first claim.       *)
LEMMA FundedCallGood ==
  ASSUME NEW e \in Escrows, CallAssumption(e), esc[e].state \in Holding,
         NEW state \in Holding,
         NEW evidence \in Evidence \cup {Zero},
         NEW claimId \in ClaimIds \cup {Zero},
         esc[e].verifiedClaimId = Zero \/ claimId = esc[e].verifiedClaimId,
         esc' = [esc EXCEPT ![e] = [esc[e] EXCEPT
                   !.state = state,
                   !.activeEvidenceCommitment = evidence,
                   !.verifiedClaimId = claimId]]
  PROVE  GoodStep(e)
<1> DEFINE r == esc[e]
           q == [r EXCEPT !.state = state,
                          !.activeEvidenceCommitment = evidence,
                          !.verifiedClaimId = claimId]
<1>1. /\ r \in EscrowRecord
      /\ r.depositedAmount = requiredAmount[e]
  BY DEF CallAssumption, RecordOK, DepositRecord
<1>2. /\ q \in EscrowRecord
      /\ q.withdrawals = r.withdrawals
      /\ q.verifiedClaimId = claimId
      /\ q.balance = r.balance
      /\ q.depositedAmount = r.depositedAmount
      /\ q.state = state
  BY <1>1 DEF EscrowRecord, States, Holding
<1>3. DepositRecord(e, q)
  BY <1>1, <1>2 DEF DepositRecord
<1>4. q.balance - r.balance = q.depositedAmount - r.depositedAmount
  BY <1>1, <1>2 DEF EscrowRecord
<1> QED
  BY <1>1, <1>2, <1>3, <1>4, OpenCallGood

(* Refund requests and disputes store evidence and undo nothing.          *)
LEMMA EvidencePartyGood ==
  ASSUME NEW e \in Escrows, CallAssumption(e), NEW sender,
         NEW evidence \in Evidence,
         RequestRefund(e, sender, evidence) \/ OpenDispute(e, sender, evidence)
  PROVE  GoodStep(e)
<1> DEFINE r == esc[e]
<1>1. /\ r \in EscrowRecord
      /\ r.verifiedClaimId \in ClaimIds \cup {Zero}
  BY DEF CallAssumption, EscrowRecord
<1>2. r.state \in Holding
  BY DEF RequestRefund, OpenDispute, Holding
<1>3. PICK state \in Holding :
        esc' = [esc EXCEPT ![e].state = state,
                           ![e].activeEvidenceCommitment = evidence]
  BY DEF RequestRefund, OpenDispute, Holding
<1>4. [r EXCEPT !.state = state, !.activeEvidenceCommitment = evidence]
        = [r EXCEPT !.state = state, !.activeEvidenceCommitment = evidence,
                    !.verifiedClaimId = r.verifiedClaimId]
  BY <1>1 DEF EscrowRecord
<1>5. esc' = [esc EXCEPT ![e] =
               [r EXCEPT !.state = state, !.activeEvidenceCommitment = evidence,
                         !.verifiedClaimId = r.verifiedClaimId]]
  BY <1>3, <1>4
<1> QED
  BY <1>1, <1>2, <1>5, FundedCallGood

(* The registry's two recording calls are good steps.                     *)
LEMMA EvidenceCallsGood ==
  ASSUME NEW e \in Escrows, CallAssumption(e), NEW sender,
         NEW evidence \in Evidence, NEW claimId \in ClaimIds,
         \/ RecordVerifiedEvidence(e, sender, claimId, evidence)
         \/ RecordVerifiedCondition(e, sender, claimId, evidence)
  PROVE  GoodStep(e)
<1> DEFINE r == esc[e]
<1>1. /\ r \in EscrowRecord
      /\ r.activeEvidenceCommitment \in Evidence \cup {Zero}
  BY DEF CallAssumption, EscrowRecord
<1>2. /\ r.state \in Holding
      /\ r.verifiedClaimId = Zero
      /\ esc' = [esc EXCEPT ![e].verifiedClaimId = claimId]
  BY DEF RecordVerifiedEvidence, RecordVerifiedCondition, Holding
<1>3. [r EXCEPT !.verifiedClaimId = claimId]
        = [r EXCEPT !.state = r.state,
                    !.activeEvidenceCommitment = r.activeEvidenceCommitment,
                    !.verifiedClaimId = claimId]
  BY <1>1 DEF EscrowRecord
<1>4. PICK state \in Holding, active \in Evidence \cup {Zero} :
        esc' = [esc EXCEPT ![e] =
                 [r EXCEPT !.state = state,
                           !.activeEvidenceCommitment = active,
                           !.verifiedClaimId = claimId]]
  <2>1. esc' = [esc EXCEPT ![e] =
                 [r EXCEPT !.state = r.state,
                           !.activeEvidenceCommitment = r.activeEvidenceCommitment,
                           !.verifiedClaimId = claimId]]
    BY <1>2, <1>3
  <2> QED
    BY <1>1, <1>2, <2>1
<1>5. /\ esc[e].state \in Holding
      /\ esc[e].verifiedClaimId = Zero
      /\ claimId \in ClaimIds \cup {Zero}
  BY <1>2
<1> QED
  BY <1>4, <1>5, FundedCallGood

(* The registry's settlement is a good step.                              *)
LEMMA SettleVerifiedConditionGood ==
  ASSUME NEW e \in Escrows, CallAssumption(e), NEW sender,
         NEW evidence \in Evidence, NEW claimId \in ClaimIds,
         SettleVerifiedCondition(e, sender, claimId, evidence)
  PROVE  GoodStep(e)
<1> DEFINE r == esc[e]
           q == Credit([r EXCEPT !.activeEvidenceCommitment = evidence,
                                 !.verifiedClaimId = claimId,
                                 !.state = "Complete"],
                       seller[e])
<1>1. /\ r \in EscrowRecord
      /\ RecordOK(e, r)
      /\ r.state \in Holding
      /\ r.state # NoCode
      /\ r.verifiedClaimId = Zero
      /\ esc' = [esc EXCEPT ![e] = q]
  BY DEF CallAssumption, SettleVerifiedCondition, Holding, NoCode
<1>2. /\ q \in EscrowRecord
      /\ RecordOK(e, q)
      /\ Evolves(e, r, q)
  <2> HIDE DEF r
  <2> QED
    BY <1>1, CreditOK
<1> QED
  BY <1>1, <1>2, ReplaceRecord DEF CallAssumption

(* Confirmation, refund approval and rulings are good steps.              *)
LEMMA DecisionGood ==
  ASSUME NEW e \in Escrows, CallAssumption(e), NEW sender, NEW resolution,
         \/ ConfirmDelivery(e, sender)
         \/ ApproveRefund(e, sender)
         \/ ResolveDispute(e, sender, resolution)
  PROVE  GoodStep(e)
<1>1. esc[e].state \in Holding
  BY DEF ConfirmDelivery, ApproveRefund, ResolveDispute, Holding
<1>2. PICK final \in {"Complete", "Refunded"} :
        Settle(e, final, IF final = "Complete" THEN seller[e] ELSE buyer[e])
  BY DEF ConfirmDelivery, ApproveRefund, ResolveDispute
<1> QED
  BY <1>1, <1>2, SettleGood DEF CallAssumption

(* A payment leaves a record that owes nothing more.                       *)
LEMMA PaidOutOK ==
  ASSUME NEW e \in Escrows, NEW r \in EscrowRecord, RecordOK(e, r),
         NEW sender \in Accounts, r.withdrawals[sender] # 0,
         NEW lock \in {1, 2},
         NEW q, q = [PaidOut(r, sender) EXCEPT !.locked = lock]
  PROVE  /\ q \in EscrowRecord
         /\ RecordOK(e, q)
         /\ Evolves(e, r, q)
<1>1. \/ sender = seller[e] /\ r.state = "Complete"
      \/ sender = buyer[e] /\ r.state = "Refunded"
  BY DEF RecordOK, CreditRecord
<1>2. /\ buyer[e] \in Accounts
      /\ seller[e] \in Accounts
      /\ buyer[e] # seller[e]
      /\ r.state # NoCode
      /\ ConstructorAccepts(e)
  BY <1>1, RolesAreAccounts DEF RecordOK, NoCode
<1>3. \A a \in Accounts \ {sender} : r.withdrawals[a] = 0
  BY <1>1, <1>2 DEF RecordOK, CreditRecord
<1>4. r.depositedAmount = 0
  BY <1>1 DEF RecordOK, DepositRecord, Holding
<1>5. /\ r.balance = r.withdrawals[sender]
      /\ r.withdrawals[sender] \in Nat
  BY <1>1, <1>2, <1>3, <1>4
    DEF RecordOK, SolventRecord, TotalAccountedFunds, EscrowRecord
<1>6. /\ q.state = r.state
      /\ q.depositedAmount = r.depositedAmount
      /\ q.activeEvidenceCommitment = r.activeEvidenceCommitment
      /\ q.verifiedClaimId = r.verifiedClaimId
      /\ q.withdrawals = [r.withdrawals EXCEPT ![sender] = 0]
      /\ q.locked = lock
      /\ q.balance = r.balance - r.withdrawals[sender]
  BY DEF PaidOut, EscrowRecord
<1>7. \A a \in Accounts : q.withdrawals[a] = 0
  BY <1>3, <1>6 DEF EscrowRecord
<1>8. q.balance = 0
  BY <1>5, <1>6
<1>9. q \in EscrowRecord
  <2>1. r.balance - r.withdrawals[sender] = 0
    BY <1>5
  <2>2. [r.withdrawals EXCEPT ![sender] = 0] \in [Accounts -> Nat]
    BY DEF EscrowRecord
  <2> QED
    BY <2>1, <2>2 DEF PaidOut, EscrowRecord
<1>10. RecordOK(e, q)
  <2>1. SolventRecord(e, q)
    BY <1>2, <1>4, <1>6, <1>7, <1>8 DEF SolventRecord, TotalAccountedFunds
  <2>2. CreditRecord(e, q)
    BY <1>7 DEF CreditRecord
  <2>3. DepositRecord(e, q)
    BY <1>6 DEF RecordOK, DepositRecord
  <2> QED
    BY <1>2, <1>9, <2>1, <2>2, <2>3 DEF RecordOK
<1>11. PhaseOf(e, q) \in Custody!From(PhaseOf(e, r))
  <2>1. CASE sender = seller[e] /\ r.state = "Complete"
    <3>1. PhaseOf(e, r) = "OwedSeller" /\ PhaseOf(e, q) = "PaidSeller"
      BY <2>1, <1>2, <1>6, <1>7, <1>9, PhaseCases
    <3> QED
      BY <3>1 DEF Custody!From
  <2>2. CASE sender = buyer[e] /\ r.state = "Refunded"
    <3>1. PhaseOf(e, r) = "OwedBuyer" /\ PhaseOf(e, q) = "PaidBuyer"
      BY <2>2, <1>2, <1>6, <1>7, <1>9, PhaseCases
    <3> QED
      BY <3>1 DEF Custody!From
  <2> QED
    BY <1>1, <2>1, <2>2
<1> QED
  BY <1>6, <1>9, <1>10, <1>11 DEF Evolves

(* Both forms of withdraw() pay a credit the escrow can pay.              *)
LEMMA WithdrawGood ==
  ASSUME NEW e \in Escrows, CallAssumption(e), NEW sender \in Accounts,
         WithdrawToWallet(e, sender) \/ WithdrawCall(e, sender)
  PROVE  GoodStep(e)
<1> DEFINE r == esc[e]
<1>1. /\ r \in EscrowRecord
      /\ RecordOK(e, r)
      /\ r.withdrawals[sender] # 0
  BY DEF CallAssumption, WithdrawToWallet, WithdrawCall, CanWithdraw
<1>2. PICK lock \in {1, 2} :
        esc' = [esc EXCEPT ![e] = [PaidOut(r, sender) EXCEPT !.locked = lock]]
  <2>1. CASE WithdrawCall(e, sender)
    BY <2>1 DEF WithdrawCall, CallAssumption
  <2>2. CASE WithdrawToWallet(e, sender)
    <3>1. r.locked = 1
      BY <2>2 DEF WithdrawToWallet, CanWithdraw
    <3>2. PaidOut(r, sender) = [PaidOut(r, sender) EXCEPT !.locked = 1]
      BY <1>1, <3>1 DEF PaidOut, EscrowRecord
    <3>3. esc' = [esc EXCEPT ![e] = PaidOut(r, sender)]
      BY <2>2 DEF WithdrawToWallet, CallAssumption
    <3> QED
      BY <3>2, <3>3
  <2> QED
    BY <2>1, <2>2
<1> DEFINE q == [PaidOut(r, sender) EXCEPT !.locked = lock]
<1>3. /\ q \in EscrowRecord
      /\ RecordOK(e, q)
      /\ Evolves(e, r, q)
  <2> HIDE DEF r
  <2> QED
    BY <1>1, PaidOutOK
<1> QED
  BY <1>2, <1>3, ReplaceRecord DEF CallAssumption

(* Every call changes one escrow well, and either leaves the stack of      *)
(* payments alone or puts the current state on it.                         *)
LEMMA CallGood ==
  ASSUME NEW e \in Escrows, CallAssumption(e), PartyCall(e) \/ RegistryCall(e)
  PROVE  /\ GoodStep(e)
         /\ \/ frames' = frames
            \/ frames' = Append(frames, [escrow |-> e, saved |-> esc])
<1>1. ASSUME RegistryCall(e)
      PROVE  GoodStep(e) /\ frames' = frames
  <2>1. PICK claimId \in ClaimIds, evidence \in Evidence :
          \/ RecordVerifiedEvidence(e, evidenceRegistry[e], claimId, evidence)
          \/ SettleVerifiedCondition(e, evidenceRegistry[e], claimId, evidence)
          \/ RecordVerifiedCondition(e, evidenceRegistry[e], claimId, evidence)
    BY <1>1 DEF RegistryCall
  <2>2. GoodStep(e)
    BY <2>1, EvidenceCallsGood, SettleVerifiedConditionGood
  <2>3. frames' = frames
    BY <2>1 DEF RecordVerifiedEvidence, SettleVerifiedCondition,
                RecordVerifiedCondition
  <2> QED
    BY <2>2, <2>3
<1>2. CASE Constructor(e)
  BY <1>2, ConstructorGood DEF Constructor
<1>3. ASSUME NEW sender \in Accounts, NEW value \in Values,
             Deposit(e, sender, value)
      PROVE  GoodStep(e) /\ frames' = frames
  BY <1>3, DepositGood DEF Deposit
<1>4. ASSUME NEW sender \in Accounts, Cancel(e, sender)
      PROVE  GoodStep(e) /\ frames' = frames
  BY <1>4, CancelGood DEF Cancel
<1>5. ASSUME NEW sender \in Accounts, NEW resolution,
             \/ ConfirmDelivery(e, sender)
             \/ ApproveRefund(e, sender)
             \/ ResolveDispute(e, sender, resolution)
      PROVE  GoodStep(e) /\ frames' = frames
  BY <1>5, DecisionGood
    DEF ConfirmDelivery, ApproveRefund, ResolveDispute, Settle
<1>6. ASSUME NEW sender \in Accounts, NEW evidence \in Evidence,
             RequestRefund(e, sender, evidence) \/ OpenDispute(e, sender, evidence)
      PROVE  GoodStep(e) /\ frames' = frames
  <2>1. frames' = frames
    BY <1>6 DEF RequestRefund, OpenDispute
  <2>2. GoodStep(e)
    BY <1>6, EvidencePartyGood
  <2> QED
    BY <2>1, <2>2
<1>7. ASSUME NEW sender \in Accounts, WithdrawToWallet(e, sender)
      PROVE  GoodStep(e) /\ frames' = frames
  BY <1>7, WithdrawGood DEF WithdrawToWallet
<1>8. ASSUME NEW sender \in Accounts, WithdrawCall(e, sender)
      PROVE  /\ GoodStep(e)
             /\ frames' = Append(frames, [escrow |-> e, saved |-> esc])
  BY <1>8, WithdrawGood DEF WithdrawCall
<1> QED
  BY <1>1, <1>2, <1>3, <1>4, <1>5, <1>6, <1>7, <1>8 DEF PartyCall

(***************************************************************************)
(* The inductive invariant.  A failing payment brings a saved state back,  *)
(* so what holds of the current records must hold of all saved ones; and   *)
(* what was true when a payment began must still be true of every state    *)
(* it may end in, so later records evolve from earlier saved ones.         *)
(***************************************************************************)
StackOK ==
  \A i \in 1..Len(frames) :
    /\ RecordsOK(frames[i].saved)
    /\ \A e \in Escrows : Evolves(e, frames[i].saved[e], esc[e])
    /\ \A j \in i..Len(frames), e \in Escrows :
         Evolves(e, frames[i].saved[e], frames[j].saved[e])

IInv == TypeOK /\ RecordsOK(esc) /\ StackOK

(* The invariant holds before any escrow is created.                      *)
LEMMA InitIInv == Init => IInv
<1> SUFFICES ASSUME Init PROVE IInv
  OBVIOUS
<1>1. frames = <<>> /\ esc = [e \in Escrows |-> Blank]
  BY DEF Init
<1>2. Blank \in EscrowRecord
  BY DEF Blank, EscrowRecord
<1>3. TypeOK
  BY <1>1, <1>2 DEF TypeOK
<1>4. ASSUME NEW e \in Escrows
      PROVE  RecordOK(e, Blank)
  <2>1. /\ Blank.state = NoCode
        /\ Blank.balance = 0
        /\ Blank.depositedAmount = 0
        /\ \A a \in Accounts : Blank.withdrawals[a] = 0
    BY DEF Blank
  <2> QED
    BY <1>2, <2>1
      DEF RecordOK, SolventRecord, CreditRecord, DepositRecord, Holding, NoCode
<1>5. RecordsOK(esc)
  BY <1>1, <1>4 DEF RecordsOK
<1>6. StackOK
  BY <1>1 DEF StackOK
<1> QED
  BY <1>3, <1>5, <1>6 DEF IInv

(* A step of all records, each evolving from the one before.               *)
StepEvolves ==
  /\ esc' \in [Escrows -> EscrowRecord]
  /\ RecordsOK(esc')
  /\ \A e \in Escrows : Evolves(e, esc[e], esc'[e])

(* A saved chain state has the type of a chain state.                     *)
LEMMA SavedRecords ==
  ASSUME TypeOK, NEW i \in 1..Len(frames)
  PROVE  /\ frames[i] \in SavedState
         /\ frames[i].saved \in [Escrows -> EscrowRecord]
<1>1. frames[i] \in SavedState
  BY ElementOfSeq DEF TypeOK
<1> QED
  BY <1>1 DEF SavedState

(* A good step outside withdraw() keeps the stack right.                  *)
LEMMA EvolveSameStack ==
  ASSUME IInv, StepEvolves, frames' = frames
  PROVE  IInv'
<1>1. TypeOK' /\ RecordsOK(esc)'
  BY DEF IInv, TypeOK, StepEvolves, RecordsOK
<1>2. ASSUME NEW i \in 1..Len(frames), NEW e \in Escrows
      PROVE  Evolves(e, frames[i].saved[e], esc'[e])
  <2>1. /\ frames[i].saved[e] \in EscrowRecord
        /\ esc[e] \in EscrowRecord
        /\ esc'[e] \in EscrowRecord
    BY SavedRecords DEF IInv, TypeOK, StepEvolves
  <2>2. Evolves(e, frames[i].saved[e], esc[e]) /\ Evolves(e, esc[e], esc'[e])
    BY DEF IInv, StackOK, StepEvolves
  <2> QED
    BY <2>1, <2>2, EvolvesTransitive
<1>3. StackOK'
  BY <1>2 DEF IInv, StackOK, RecordsOK
<1> QED
  BY <1>1, <1>3 DEF IInv

(* A payment that begins saves the state it may be undone to.             *)
LEMMA EvolvePush ==
  ASSUME IInv, StepEvolves, NEW e0 \in Escrows,
         frames' = Append(frames, [escrow |-> e0, saved |-> esc])
  PROVE  IInv'
<1> DEFINE n == Len(frames)
<1>1. /\ frames \in Seq(SavedState)
      /\ [escrow |-> e0, saved |-> esc] \in SavedState
      /\ esc \in [Escrows -> EscrowRecord]
  BY DEF IInv, TypeOK, SavedState
<1>2. /\ frames' \in Seq(SavedState)
      /\ Len(frames') = n + 1
      /\ n \in Nat
      /\ \A i \in 1..n : frames'[i] = frames[i]
      /\ frames'[n+1].saved = esc
  BY <1>1
<1>3. TypeOK' /\ RecordsOK(esc)'
  BY <1>2 DEF TypeOK, StepEvolves, RecordsOK
<1>4. /\ \A i \in 1..n : frames'[i].saved = frames[i].saved
      /\ frames'[n+1].saved = esc
  BY <1>2
<1>5. ASSUME NEW i \in 1..n, NEW e \in Escrows
      PROVE  Evolves(e, frames[i].saved[e], esc'[e])
  <2>1. /\ frames[i].saved[e] \in EscrowRecord
        /\ esc[e] \in EscrowRecord
        /\ esc'[e] \in EscrowRecord
    BY SavedRecords DEF IInv, TypeOK, StepEvolves
  <2>2. Evolves(e, frames[i].saved[e], esc[e]) /\ Evolves(e, esc[e], esc'[e])
    BY DEF IInv, StackOK, StepEvolves
  <2> QED
    BY <2>1, <2>2, EvolvesTransitive
<1>6. ASSUME NEW i \in 1..n+1
      PROVE  /\ RecordsOK(frames'[i].saved)
             /\ \A e \in Escrows : Evolves(e, frames'[i].saved[e], esc'[e])
             /\ \A j \in i..n+1, e \in Escrows :
                  Evolves(e, frames'[i].saved[e], frames'[j].saved[e])
  <2>1. CASE i = n+1
    <3>1. frames'[i].saved = esc
      BY <2>1, <1>4
    <3>2. \A j \in i..n+1 : frames'[j].saved = esc
      BY <2>1, <1>2, <1>4
    <3>3. \A e \in Escrows : Evolves(e, esc[e], esc[e])
      BY <1>1, EvolvesReflexive
    <3> QED
      BY <3>1, <3>2, <3>3 DEF IInv, StepEvolves
  <2>2. CASE i \in 1..n
    <3>1. frames'[i].saved = frames[i].saved
      BY <2>2, <1>4
    <3>2. RecordsOK(frames[i].saved) /\ \A e \in Escrows : Evolves(e, frames[i].saved[e], esc[e])
      BY <2>2 DEF IInv, StackOK
    <3>3. ASSUME NEW j \in i..n+1, NEW e \in Escrows
          PROVE  Evolves(e, frames[i].saved[e], frames'[j].saved[e])
      <4>1. CASE j = n+1
        BY <4>1, <1>4, <3>2
      <4>2. CASE j \in i..n
        BY <4>2, <2>2, <1>4 DEF IInv, StackOK
      <4>3. j = n+1 \/ j \in i..n
        <5> HIDE DEF n
        <5> QED
          BY <1>2, <2>2
      <4> QED
        BY <4>1, <4>2, <4>3
    <3> QED
      BY <2>2, <1>5, <3>1, <3>2, <3>3
  <2> QED
    BY <1>2, <2>1, <2>2
<1>7. StackOK'
  BY <1>2, <1>6 DEF StackOK, RecordsOK
<1> QED
  BY <1>3, <1>7 DEF IInv

(* The stack without its innermost payment.                               *)
LEMMA PopFacts ==
  ASSUME frames \in Seq(SavedState), frames # <<>>
  PROVE  /\ Pop(frames) \in Seq(SavedState)
         /\ Len(Pop(frames)) = Len(frames) - 1
         /\ Len(frames) \in Nat \ {0}
         /\ \A i \in 1..Len(frames)-1 : Pop(frames)[i] = frames[i]
<1>1. /\ Len(frames) \in Nat \ {0}
      /\ \A i \in 1..Len(frames)-1 : frames[i] \in SavedState
  BY EmptySeq, ElementOfSeq
<1> DEFINE n == Len(frames) - 1
<1>2. n \in Nat
  BY <1>1
<1>3. /\ SubSeq(frames, 1, n) \in Seq(SavedState)
      /\ Len(SubSeq(frames, 1, n)) = IF 1 <= n THEN n - 1 + 1 ELSE 0
      /\ \A i \in 1..n-1+1 : SubSeq(frames, 1, n)[i] = frames[1+i-1]
  <2>1. 1 \in Int /\ n \in Int
    BY <1>2
  <2>2. \A i \in 1..n : frames[i] \in SavedState
    BY <1>1
  <2> HIDE DEF n
  <2> QED
    BY <2>1, <2>2, SubSeqProperties
<1>4. Pop(frames) = SubSeq(frames, 1, n)
  BY DEF Pop
<1>5. Len(Pop(frames)) = n
  <2> HIDE DEF n
  <2>1. Len(Pop(frames)) = IF 1 <= n THEN n - 1 + 1 ELSE 0
    BY <1>3, <1>4, Zenon
  <2> QED
    BY <1>2, <2>1
<1>6. \A i \in 1..n : 1 + i - 1 = i /\ i \in 1..n-1+1
  BY <1>2
<1>7. \A i \in 1..n : Pop(frames)[i] = frames[i]
  BY <1>3, <1>4, <1>6
<1> QED
  BY <1>1, <1>3, <1>4, <1>5, <1>7

(* A payment that succeeds keeps the invariant.                           *)
LEMMA ReturnIInv ==
  ASSUME IInv, WithdrawReturn
  PROVE  IInv' /\ StepEvolves
<1>1. /\ frames \in Seq(SavedState)
      /\ frames # <<>>
      /\ esc \in [Escrows -> EscrowRecord]
      /\ frames' = Pop(frames)
  BY DEF IInv, TypeOK, WithdrawReturn
<1>2. /\ frames' \in Seq(SavedState)
      /\ Len(frames') = Len(frames) - 1
      /\ Len(frames) \in Nat \ {0}
      /\ \A i \in 1..Len(frames') : frames'[i] = frames[i]
  BY <1>1, PopFacts
<1>3. Top.escrow \in Escrows
  <2>1. Top \in SavedState
    BY <1>1, <1>2, ElementOfSeq DEF Top
  <2> QED
    BY <2>1 DEF SavedState
<1>4. ASSUME NEW e \in Escrows
      PROVE  /\ esc'[e] \in EscrowRecord
             /\ RecordOK(e, esc'[e])
             /\ Evolves(e, esc[e], esc'[e])
  <2>1. esc[e] \in EscrowRecord /\ RecordOK(e, esc[e])
    BY <1>1 DEF IInv, RecordsOK
  <2>2. CASE e # Top.escrow
    <3>1. esc'[e] = esc[e]
      BY <1>1, <1>3, <2>2 DEF WithdrawReturn
    <3> QED
      BY <2>1, <3>1, EvolvesReflexive
  <2>3. CASE e = Top.escrow
    <3> DEFINE r == esc[e]
               q == [r EXCEPT !.locked = 1]
    <3>1. esc'[e] = q
      BY <1>1, <2>3 DEF WithdrawReturn
    <3>2. /\ q \in EscrowRecord
          /\ q.state = r.state
          /\ q.depositedAmount = r.depositedAmount
          /\ q.activeEvidenceCommitment = r.activeEvidenceCommitment
          /\ q.verifiedClaimId = r.verifiedClaimId
          /\ q.withdrawals = r.withdrawals
          /\ q.balance = r.balance
      BY <2>1 DEF EscrowRecord
    <3>3. RecordOK(e, q)
      BY <2>1, <3>2 DEF RecordOK, SolventRecord, TotalAccountedFunds,
                        CreditRecord, DepositRecord
    <3>4. PhaseOf(e, q) = PhaseOf(e, r)
      BY <3>2 DEF PhaseOf
    <3>5. Evolves(e, r, q)
      BY <2>1, <3>2, <3>4, EvolvesReflexive DEF Evolves
    <3> QED
      BY <3>1, <3>2, <3>3, <3>5
  <2> QED
    BY <2>2, <2>3
<1>5. esc' \in [Escrows -> EscrowRecord]
  BY <1>1, <1>4 DEF WithdrawReturn
<1>6. StepEvolves
  BY <1>4, <1>5 DEF StepEvolves, RecordsOK
<1>7. TypeOK' /\ RecordsOK(esc)'
  BY <1>2, <1>6 DEF TypeOK, StepEvolves, RecordsOK
<1>8. ASSUME NEW i \in 1..Len(frames), NEW e \in Escrows
      PROVE  Evolves(e, frames[i].saved[e], esc'[e])
  <2>1. /\ frames[i].saved[e] \in EscrowRecord
        /\ esc[e] \in EscrowRecord
        /\ esc'[e] \in EscrowRecord
    BY SavedRecords, <1>4 DEF IInv, TypeOK
  <2>2. Evolves(e, frames[i].saved[e], esc[e]) /\ Evolves(e, esc[e], esc'[e])
    BY <1>4 DEF IInv, StackOK
  <2> QED
    BY <2>1, <2>2, EvolvesTransitive
<1>9. StackOK'
  <2>1. \A i \in 1..Len(frames') : i \in 1..Len(frames) /\ frames'[i].saved = frames[i].saved
    BY <1>2
  <2>2. \A i \in 1..Len(frames') : i..Len(frames') \subseteq i..Len(frames)
                                   /\ i..Len(frames') \subseteq 1..Len(frames')
    BY <1>2
  <2> QED
    BY <1>8, <2>1, <2>2 DEF IInv, StackOK, RecordsOK
<1> QED
  BY <1>6, <1>7, <1>9 DEF IInv

(* A payment that fails restores a good state.                            *)
LEMMA RevertIInv ==
  ASSUME IInv, WithdrawRevert
  PROVE  IInv'
<1> DEFINE n == Len(frames)
<1>1. /\ frames \in Seq(SavedState)
      /\ frames # <<>>
      /\ frames' = Pop(frames)
  BY DEF IInv, TypeOK, WithdrawRevert
<1>2. /\ frames' \in Seq(SavedState)
      /\ Len(frames') = n - 1
      /\ n \in Nat \ {0}
      /\ n \in 1..n
      /\ \A i \in 1..n-1 : frames'[i] = frames[i]
  BY <1>1, PopFacts
<1>3. esc' = frames[n].saved
  BY DEF WithdrawRevert, Top
<1>4. esc' \in [Escrows -> EscrowRecord] /\ RecordsOK(esc')
  BY <1>2, <1>3, SavedRecords DEF IInv, StackOK
<1>5. TypeOK' /\ RecordsOK(esc)'
  BY <1>2, <1>4 DEF TypeOK, RecordsOK
<1>6. ASSUME NEW i \in 1..n-1
      PROVE  /\ frames'[i].saved = frames[i].saved
             /\ RecordsOK(frames[i].saved)
             /\ \A e \in Escrows : Evolves(e, frames[i].saved[e], esc'[e])
             /\ \A j \in i..n-1, e \in Escrows :
                  Evolves(e, frames[i].saved[e], frames'[j].saved[e])
  <2>1. i \in 1..n /\ n \in i..n
    BY <1>2
  <2>2. frames'[i].saved = frames[i].saved
    BY <1>2
  <2>3. RecordsOK(frames[i].saved) /\ \A e \in Escrows : Evolves(e, frames[i].saved[e], esc'[e])
    BY <1>3, <2>1 DEF IInv, StackOK
  <2>4. ASSUME NEW j \in i..n-1, NEW e \in Escrows
        PROVE  Evolves(e, frames[i].saved[e], frames'[j].saved[e])
    <3>1. j \in i..n /\ j \in 1..n-1
      BY <1>2
    <3>2. frames'[j].saved = frames[j].saved
      BY <1>2, <3>1
    <3> QED
      BY <2>1, <3>1, <3>2 DEF IInv, StackOK
  <2> QED
    BY <2>2, <2>3, <2>4
<1>7. StackOK'
  BY <1>2, <1>6 DEF StackOK, RecordsOK
<1> QED
  BY <1>5, <1>7 DEF IInv

(* Every call changes every escrow's record to a later one.               *)
LEMMA CallEvolves ==
  ASSUME IInv, NEW e \in Escrows, PartyCall(e) \/ RegistryCall(e)
  PROVE  /\ StepEvolves
         /\ \/ frames' = frames
            \/ frames' = Append(frames, [escrow |-> e, saved |-> esc])
<1>1. CallAssumption(e)
  BY DEF CallAssumption, IInv, TypeOK, RecordsOK
<1>2. /\ GoodStep(e)
      /\ \/ frames' = frames
         \/ frames' = Append(frames, [escrow |-> e, saved |-> esc])
  BY <1>1, CallGood
<1>3. ASSUME NEW d \in Escrows
      PROVE  RecordOK(d, esc'[d]) /\ Evolves(d, esc[d], esc'[d])
  <2>1. esc[d] \in EscrowRecord /\ RecordOK(d, esc[d])
    BY DEF IInv, TypeOK, RecordsOK
  <2>2. CASE d = e
    BY <1>2, <2>2 DEF GoodStep
  <2>3. CASE d # e
    BY <1>2, <2>1, <2>3, EvolvesReflexive DEF GoodStep
  <2> QED
    BY <2>2, <2>3
<1> QED
  BY <1>2, <1>3 DEF StepEvolves, GoodStep, RecordsOK

(* The calls of participants and registry, and the two ends of a payment,  *)
(* preserve the invariant.                                                 *)
LEMMA NextIInv == IInv /\ [Next]_vars => IInv'
<1> SUFFICES ASSUME IInv, [Next]_vars PROVE IInv'
  OBVIOUS
<1>1. CASE UNCHANGED vars
  BY <1>1 DEF vars, IInv, TypeOK, RecordsOK, StackOK
<1>2. ASSUME NEW e \in Escrows, PartyCall(e) \/ RegistryCall(e)
      PROVE  IInv'
  BY <1>2, CallEvolves, EvolveSameStack, EvolvePush
<1>3. CASE WithdrawReturn
  BY <1>3, ReturnIInv
<1>4. CASE WithdrawRevert
  BY <1>4, RevertIInv
<1> QED
  BY <1>1, <1>2, <1>3, <1>4 DEF Next, PaymentEnds

(* The invariant holds in every reachable state.                          *)
LEMMA Invariance == Spec => []IInv
BY InitIInv, NextIInv, PTL DEF Spec

(* Every reachable storage of an escrow has the declared types; no amount  *)
(* goes below zero.                                                        *)
THEOREM TypeCorrect == Spec => []TypeOK
<1>1. IInv => TypeOK
  BY DEF IInv
<1> QED
  BY <1>1, Invariance, PTL

(* An escrow's balance is its deposit and its credits, at every moment of  *)
(* every transaction.                                                      *)
THEOREM EscrowsAreSolvent == Spec => []Solvent
<1>1. IInv => Solvent
  BY DEF IInv, RecordsOK, RecordOK, Solvent
<1> QED
  BY <1>1, Invariance, PTL

(* A credit is the whole amount and belongs to the party of the outcome.   *)
THEOREM CreditsMatchOutcomes == Spec => []CreditMatchesOutcome
<1>1. IInv => CreditMatchesOutcome
  BY DEF IInv, RecordsOK, RecordOK, CreditMatchesOutcome
<1> QED
  BY <1>1, Invariance, PTL

(* The required amount is on deposit exactly while undecided.              *)
THEOREM DepositsHeld == Spec => []DepositHeldWhileOpen
<1>1. IInv => DepositHeldWhileOpen
  BY DEF IInv, RecordsOK, RecordOK, DepositHeldWhileOpen
<1> QED
  BY <1>1, Invariance, PTL

(***************************************************************************)
(* What finished transactions do to an escrow.                             *)
(***************************************************************************)
LEMMA CommittedEvolves ==
  ASSUME IInv, [Next]_vars
  PROVE  \A e \in Escrows :
           /\ committed[e] \in EscrowRecord
           /\ committed'[e] \in EscrowRecord
           /\ Evolves(e, committed[e], committed'[e])
<1>1. /\ frames \in Seq(SavedState)
      /\ esc \in [Escrows -> EscrowRecord]
  BY DEF IInv, TypeOK
<1>2. \A e \in Escrows : committed[e] \in EscrowRecord
  <2>1. CASE frames = <<>>
    BY <1>1, <2>1 DEF committed
  <2>2. CASE frames # <<>>
    <3>1. 1 \in 1..Len(frames)
      BY <1>1, <2>2, EmptySeq
    <3>2. frames[1].saved \in [Escrows -> EscrowRecord]
      BY <3>1, SavedRecords DEF IInv
    <3> QED
      BY <2>2, <3>2 DEF committed
  <2> QED
    BY <2>1, <2>2
<1>3. ASSUME committed' = committed
      PROVE  \A e \in Escrows : Evolves(e, committed[e], committed'[e])
  BY <1>2, <1>3, EvolvesReflexive
<1>4. CASE UNCHANGED vars
  BY <1>2, <1>3, <1>4 DEF vars, committed
<1>5. ASSUME NEW d \in Escrows, PartyCall(d) \/ RegistryCall(d)
      PROVE  \A e \in Escrows :
               /\ committed'[e] \in EscrowRecord
               /\ Evolves(e, committed[e], committed'[e])
  <2>1. /\ StepEvolves
        /\ \/ frames' = frames
           \/ frames' = Append(frames, [escrow |-> d, saved |-> esc])
    BY <1>5, CallEvolves
  <2>2. CASE frames' = frames /\ frames = <<>>
    BY <2>1, <2>2 DEF committed, StepEvolves
  <2>3. CASE frames' = frames /\ frames # <<>>
    BY <1>2, <1>3, <2>3 DEF committed
  <2>4. CASE frames' = Append(frames, [escrow |-> d, saved |-> esc])
    <3>1. /\ frames' # <<>>
          /\ frames'[1] = IF frames = <<>> THEN [escrow |-> d, saved |-> esc]
                                           ELSE frames[1]
      BY <1>1, <2>4
    <3>2. committed' = committed
      BY <3>1 DEF committed
    <3> QED
      BY <1>2, <1>3, <3>2
  <2> QED
    BY <2>1, <2>2, <2>3, <2>4
<1>6. CASE PaymentEnds
  <2>1. /\ frames # <<>>
        /\ frames' = Pop(frames)
    BY <1>6 DEF PaymentEnds, WithdrawReturn, WithdrawRevert
  <2>2. /\ frames' \in Seq(SavedState)
        /\ Len(frames') = Len(frames) - 1
        /\ Len(frames) \in Nat \ {0}
        /\ \A i \in 1..Len(frames)-1 : frames'[i] = frames[i]
    BY <1>1, <2>1, PopFacts
  <2>3. CASE frames' # <<>>
    <3>1. Len(frames') \in Nat \ {0}
      BY <2>2, <2>3, EmptySeq
    <3>2. frames'[1] = frames[1]
      BY <2>2, <3>1
    <3> QED
      BY <1>2, <1>3, <2>1, <2>3, <3>2 DEF committed
  <2>4. CASE frames' = <<>>
    <3>1. Len(frames) = 1
      BY <2>2, <2>4
    <3>2. committed = frames[1].saved /\ committed' = esc'
      BY <2>1, <2>4 DEF committed
    <3>3. CASE WithdrawRevert
      <4>1. committed' = committed
        BY <3>1, <3>2, <3>3 DEF WithdrawRevert, Top
      <4> QED
        BY <1>2, <1>3, <4>1
    <3>4. CASE WithdrawReturn
      <4>1. StepEvolves
        BY <3>4, ReturnIInv
      <4>2. ASSUME NEW e \in Escrows
            PROVE  /\ esc'[e] \in EscrowRecord
                   /\ Evolves(e, frames[1].saved[e], esc'[e])
        <5>1. /\ frames[1].saved[e] \in EscrowRecord
              /\ esc[e] \in EscrowRecord
              /\ esc'[e] \in EscrowRecord
          BY <1>1, <1>2, <3>2, <4>1 DEF StepEvolves
        <5>2. Evolves(e, frames[1].saved[e], esc[e]) /\ Evolves(e, esc[e], esc'[e])
          BY <3>1, <4>1 DEF StepEvolves, IInv, StackOK
        <5> QED
          BY <5>1, <5>2, EvolvesTransitive
      <4> QED
        BY <1>2, <3>2, <4>2
    <3> QED
      BY <1>6, <3>3, <3>4 DEF PaymentEnds
  <2> QED
    BY <2>3, <2>4
<1> QED
  BY <1>2, <1>4, <1>5, <1>6 DEF Next, vars, committed

(* A decided or cancelled escrow never changes its outcome, its evidence   *)
(* or its claim.                                                           *)
THEOREM OutcomesAreFinal == Spec => OutcomeIsFinal
<1>1. ASSUME IInv, [Next]_vars
      PROVE  [\A e \in Escrows :
                committed[e].state \in {"Complete", "Refunded", "Cancelled"} =>
                  /\ committed'[e].state = committed[e].state
                  /\ committed'[e].verifiedClaimId = committed[e].verifiedClaimId
                  /\ committed'[e].activeEvidenceCommitment
                       = committed[e].activeEvidenceCommitment]_vars
  BY <1>1, CommittedEvolves DEF Evolves, Final
<1> QED
  BY <1>1, Invariance, PTL DEF Spec, OutcomeIsFinal

(* The first verified claim of an escrow is its only one.                  *)
THEOREM ClaimsAreWrittenOnce == Spec => VerifiedClaimWrittenOnce
<1>1. ASSUME IInv, [Next]_vars
      PROVE  [\A e \in Escrows :
                committed[e].verifiedClaimId # Zero =>
                  committed'[e].verifiedClaimId = committed[e].verifiedClaimId]_vars
  BY <1>1, CommittedEvolves DEF Evolves
<1> QED
  BY <1>1, Invariance, PTL DEF Spec, VerifiedClaimWrittenOnce

(* The escrow contract implements EscrowCustody: the buyer's money comes   *)
(* in once, is owed to one party and is paid to that party once.           *)
THEOREM EscrowImplementsCustody == Spec => CustodySpec
<1>1. ASSUME Init PROVE Custody!Init
  <2>1. committed = [e \in Escrows |-> Blank]
    BY <1>1 DEF Init, committed
  <2>2. Blank \in EscrowRecord /\ Blank.state = NoCode
    BY DEF Blank, EscrowRecord
  <2>3. \A e \in Escrows : PhaseOf(e, committed[e]) = "Unfunded"
    BY <2>1, <2>2, PhaseCases
  <2> QED
    BY <2>3 DEF Custody!Init, phase
<1>2. ASSUME IInv, [Next]_vars
      PROVE  [Custody!Transaction]_phase
  <2>1. phase' = [e \in Escrows |-> PhaseOf(e, committed'[e])]
    BY DEF phase, PhaseOf
  <2>2. phase' \in [Escrows -> Custody!Phases]
    BY <1>2, <2>1, CommittedEvolves, PhaseCases
  <2>3. \A e \in Escrows : phase'[e] \in Custody!From(phase[e])
    BY <1>2, <2>1, CommittedEvolves DEF phase, Evolves
  <2> QED
    BY <2>2, <2>3 DEF Custody!Transaction
<1> QED
  BY <1>1, <1>2, Invariance, PTL DEF Spec, CustodySpec, Custody!Spec

(***************************************************************************)
(* The lock of withdraw().  The state saved by a payment has the locks of  *)
(* the payments outside it and not its own, so that the end of a payment,  *)
(* either way, opens its own escrow and no other.                          *)
(***************************************************************************)
\* In chain state f exactly the escrows of the first n payments are locked.
LockedBy(f, n) ==
  \A e \in Escrows : f[e].locked = 2 <=> \E i \in 1..n : frames[i].escrow = e

LocksOK ==
  /\ LockedBy(esc, Len(frames))
  /\ \A j \in 1..Len(frames) :
       /\ LockedBy(frames[j].saved, j - 1)
       /\ frames[j].saved[frames[j].escrow].locked = 1

(* A record has the same lock whatever else of it is replaced.             *)
LEMMA CreditKeepsLock ==
  ASSUME NEW r \in EscrowRecord, NEW recipient
  PROVE  /\ Credit(r, recipient).locked = r.locked
         /\ PaidOut(r, recipient).locked = r.locked
BY DEF Credit, PaidOut, EscrowRecord

\* No lock is taken or released.
LocksKept == \A d \in Escrows : esc'[d].locked = esc[d].locked

(* Every call but withdraw() leaves the locks alone, and so does a payment *)
(* to an account without code.                                             *)
LEMMA SettleKeepsLocks ==
  ASSUME TypeOK, NEW e \in Escrows, NEW final, NEW recipient,
         Settle(e, final, recipient)
  PROVE  LocksKept
<1> DEFINE r == [esc[e] EXCEPT !.state = final]
           q == Credit(r, recipient)
<1>1. esc \in [Escrows -> EscrowRecord] /\ esc[e] \in EscrowRecord
  BY DEF TypeOK
<1>2. q.locked = esc[e].locked
  BY <1>1 DEF Credit, EscrowRecord
<1>3. esc' = [esc EXCEPT ![e] = q]
  BY DEF Settle
<1> QED
  BY <1>1, <1>2, <1>3 DEF LocksKept

LEMMA RegistryKeepsLocks ==
  ASSUME TypeOK, NEW e \in Escrows, RegistryCall(e)
  PROVE  LocksKept /\ frames' = frames
<1>1. PICK claimId \in ClaimIds, evidence \in Evidence :
        \/ RecordVerifiedEvidence(e, evidenceRegistry[e], claimId, evidence)
        \/ SettleVerifiedCondition(e, evidenceRegistry[e], claimId, evidence)
        \/ RecordVerifiedCondition(e, evidenceRegistry[e], claimId, evidence)
  BY DEF RegistryCall
<1>2. esc \in [Escrows -> EscrowRecord] /\ esc[e] \in EscrowRecord
  BY DEF TypeOK
<1>3. CASE RecordVerifiedEvidence(e, evidenceRegistry[e], claimId, evidence)
  BY <1>2, <1>3 DEF RecordVerifiedEvidence, LocksKept, EscrowRecord
<1>4. CASE RecordVerifiedCondition(e, evidenceRegistry[e], claimId, evidence)
  BY <1>2, <1>4 DEF RecordVerifiedCondition, LocksKept, EscrowRecord
<1>5. CASE SettleVerifiedCondition(e, evidenceRegistry[e], claimId, evidence)
  <2> DEFINE r == [esc[e] EXCEPT !.activeEvidenceCommitment = evidence,
                                 !.verifiedClaimId = claimId,
                                 !.state = "Complete"]
             q == Credit(r, seller[e])
  <2>1. q.locked = esc[e].locked
    BY <1>2 DEF Credit, EscrowRecord
  <2>2. esc' = [esc EXCEPT ![e] = q] /\ frames' = frames
    BY <1>5 DEF SettleVerifiedCondition
  <2> QED
    BY <1>2, <2>1, <2>2 DEF LocksKept
<1> QED
  BY <1>1, <1>3, <1>4, <1>5

LEMMA PartyLocks ==
  ASSUME TypeOK, NEW e \in Escrows, PartyCall(e)
  PROVE  \/ LocksKept /\ frames' = frames
         \/ \E sender \in Accounts : WithdrawCall(e, sender)
<1>1. esc \in [Escrows -> EscrowRecord] /\ esc[e] \in EscrowRecord
  BY DEF TypeOK
<1>2. CASE Constructor(e)
  BY <1>1, <1>2 DEF Constructor, LocksKept, EscrowRecord
<1>3. ASSUME NEW sender \in Accounts, NEW value \in Values, Deposit(e, sender, value)
      PROVE  LocksKept /\ frames' = frames
  BY <1>1, <1>3 DEF Deposit, LocksKept, EscrowRecord
<1>4. ASSUME NEW sender \in Accounts, Cancel(e, sender)
      PROVE  LocksKept /\ frames' = frames
  BY <1>1, <1>4 DEF Cancel, LocksKept, EscrowRecord
<1>5. ASSUME NEW sender \in Accounts, NEW resolution,
             \/ ConfirmDelivery(e, sender)
             \/ ApproveRefund(e, sender)
             \/ ResolveDispute(e, sender, resolution)
      PROVE  LocksKept /\ frames' = frames
  <2>1. PICK final, recipient : Settle(e, final, recipient)
    BY <1>5 DEF ConfirmDelivery, ApproveRefund, ResolveDispute
  <2> QED
    BY <2>1, SettleKeepsLocks DEF Settle
<1>6. ASSUME NEW sender \in Accounts, NEW evidence \in Evidence,
             RequestRefund(e, sender, evidence) \/ OpenDispute(e, sender, evidence)
      PROVE  LocksKept /\ frames' = frames
  BY <1>1, <1>6 DEF RequestRefund, OpenDispute, LocksKept, EscrowRecord
<1>7. ASSUME NEW sender \in Accounts, WithdrawToWallet(e, sender)
      PROVE  LocksKept /\ frames' = frames
  <2>1. esc' = [esc EXCEPT ![e] = PaidOut(esc[e], sender)] /\ frames' = frames
    BY <1>7 DEF WithdrawToWallet
  <2> QED
    BY <1>1, <2>1, CreditKeepsLock DEF LocksKept
<1> QED
  BY <1>2, <1>3, <1>4, <1>5, <1>6, <1>7 DEF PartyCall

(* A call that keeps the locks and the payments.                           *)
LEMMA LocksSame ==
  ASSUME LocksOK, LocksKept, frames' = frames
  PROVE  LocksOK'
BY DEF LocksOK, LockedBy, LocksKept

(* A payment takes the lock of its escrow, which was free.                 *)
LEMMA LocksTaken ==
  ASSUME TypeOK, LocksOK, NEW e \in Escrows, NEW sender \in Accounts,
         WithdrawCall(e, sender)
  PROVE  LocksOK'
<1> DEFINE n == Len(frames)
<1>1. /\ frames \in Seq(SavedState)
      /\ esc \in [Escrows -> EscrowRecord]
      /\ [escrow |-> e, saved |-> esc] \in SavedState
  BY DEF TypeOK, SavedState
<1>2. /\ n \in Nat
      /\ Len(frames') = n + 1
      /\ \A i \in 1..n : frames'[i] = frames[i]
      /\ frames'[n+1] = [escrow |-> e, saved |-> esc]
  BY <1>1 DEF WithdrawCall
<1>3. /\ esc[e].locked = 1
      /\ esc'[e].locked = 2
      /\ \A d \in Escrows \ {e} : esc'[d] = esc[d]
  <2>1. esc[e].locked = 1 /\ esc' = [esc EXCEPT ![e] = [PaidOut(@, sender) EXCEPT !.locked = 2]]
    BY DEF WithdrawCall, CanWithdraw
  <2>2. [PaidOut(esc[e], sender) EXCEPT !.locked = 2].locked = 2
    BY <1>1 DEF PaidOut, EscrowRecord
  <2> QED
    BY <1>1, <2>1, <2>2
<1>4. LockedBy(esc, Len(frames))'
  <2> SUFFICES ASSUME NEW d \in Escrows
               PROVE  esc'[d].locked = 2 <=> \E i \in 1..n+1 : frames'[i].escrow = d
    BY <1>2 DEF LockedBy
  <2>1. esc[d].locked = 2 <=> \E i \in 1..n : frames[i].escrow = d
    BY DEF LocksOK, LockedBy
  <2>2. CASE d = e
    BY <1>2, <1>3, <2>2
  <2>3. CASE d # e
    <3>1. (\E i \in 1..n+1 : frames'[i].escrow = d) <=> \E i \in 1..n : frames[i].escrow = d
      BY <1>2, <2>3
    <3> QED
      BY <1>3, <2>1, <2>3, <3>1
  <2> QED
    BY <2>2, <2>3
<1>5. ASSUME NEW j \in 1..n+1
      PROVE  /\ LockedBy(frames[j].saved, j - 1)'
             /\ frames'[j].saved[frames'[j].escrow].locked = 1
  <2>1. \A i \in 1..j-1 : frames'[i] = frames[i]
    BY <1>2
  <2>2. CASE j = n + 1
    <3>1. frames'[j].saved = esc /\ frames'[j].escrow = e /\ j - 1 = n
      BY <1>2, <2>2
    <3> QED
      BY <1>3, <2>1, <3>1 DEF LocksOK, LockedBy
  <2>3. CASE j \in 1..n
    BY <1>2, <2>1, <2>3 DEF LocksOK, LockedBy
  <2> QED
    BY <1>2, <2>2, <2>3
<1> QED
  BY <1>2, <1>4, <1>5 DEF LocksOK

(* The end of a payment releases the lock of its escrow only: no payment   *)
(* outside it is of the same escrow.                                       *)
LEMMA LocksReleased ==
  ASSUME TypeOK, LocksOK, PaymentEnds
  PROVE  LocksOK'
<1> DEFINE n == Len(frames)
<1>1. /\ frames \in Seq(SavedState)
      /\ esc \in [Escrows -> EscrowRecord]
      /\ frames # <<>>
      /\ frames' = Pop(frames)
  BY DEF TypeOK, PaymentEnds, WithdrawReturn, WithdrawRevert
<1>2. /\ n \in Nat \ {0}
      /\ n \in 1..n
      /\ Len(frames') = n - 1
      /\ \A i \in 1..n-1 : i \in 1..n /\ frames'[i] = frames[i]
  BY <1>1, PopFacts
<1>3. frames[n] \in SavedState
  BY <1>2, SavedRecords
<1>4. \A i \in 1..n-1 : frames[i].escrow # frames[n].escrow
  BY <1>2, <1>3 DEF LocksOK, LockedBy, SavedState
<1>5. LockedBy(esc, Len(frames))'
  <2>1. CASE WithdrawReturn
    <3> SUFFICES ASSUME NEW d \in Escrows
                 PROVE  esc'[d].locked = 2 <=> \E i \in 1..n-1 : frames[i].escrow = d
      BY <1>2 DEF LockedBy
    <3>1. esc[d].locked = 2 <=> \E i \in 1..n : frames[i].escrow = d
      BY DEF LocksOK, LockedBy
    <3>2. esc' = [esc EXCEPT ![frames[n].escrow].locked = 1]
      BY <2>1 DEF WithdrawReturn, Top
    <3>3. CASE d = frames[n].escrow
      <4>1. esc'[d].locked = 1
        BY <1>1, <3>2, <3>3 DEF EscrowRecord
      <4> QED
        BY <1>4, <3>3, <4>1
    <3>4. CASE d # frames[n].escrow
      <4>1. esc'[d] = esc[d]
        BY <1>1, <3>2, <3>4
      <4>2. \A i \in 1..n : i = n \/ i \in 1..n-1
        BY <1>2
      <4> QED
        BY <1>2, <3>1, <3>4, <4>1, <4>2
    <3> QED
      BY <3>3, <3>4
  <2>2. CASE WithdrawRevert
    <3>1. esc' = frames[n].saved
      BY <2>2 DEF WithdrawRevert, Top
    <3> QED
      BY <1>2, <3>1 DEF LocksOK, LockedBy
  <2> QED
    BY <2>1, <2>2 DEF PaymentEnds
<1>6. ASSUME NEW j \in 1..n-1
      PROVE  /\ LockedBy(frames[j].saved, j - 1)'
             /\ frames'[j].saved[frames'[j].escrow].locked = 1
  <2>1. \A i \in 1..j-1 : frames'[i] = frames[i]
    BY <1>2
  <2>2. /\ frames'[j] = frames[j]
        /\ frames[j].saved[frames[j].escrow].locked = 1
        /\ LockedBy(frames[j].saved, j - 1)
    BY <1>2 DEF LocksOK
  <2>3. LockedBy(frames[j].saved, j - 1)'
    BY <2>1, <2>2 DEF LockedBy
  <2> QED
    BY <2>2, <2>3
<1> QED
  BY <1>2, <1>5, <1>6 DEF LocksOK

(* No step breaks the locks.                                               *)
LEMMA NextLocks ==
  ASSUME IInv, LocksOK, [Next]_vars
  PROVE  LocksOK'
<1>1. TypeOK
  BY DEF IInv
<1>2. CASE UNCHANGED vars
  BY <1>2 DEF vars, LocksOK, LockedBy
<1>3. ASSUME NEW e \in Escrows, PartyCall(e)
      PROVE  LocksOK'
  BY <1>1, <1>3, PartyLocks, LocksSame, LocksTaken
<1>4. ASSUME NEW e \in Escrows, RegistryCall(e)
      PROVE  LocksOK'
  BY <1>1, <1>4, RegistryKeepsLocks, LocksSame
<1>5. CASE PaymentEnds
  BY <1>1, <1>5, LocksReleased
<1> QED
  BY <1>2, <1>3, <1>4, <1>5 DEF Next

(* The locks are right in every reachable state.                           *)
LEMMA LocksInvariance == Spec => []LocksOK
<1>1. Init => LocksOK
  BY DEF Init, Blank, LocksOK, LockedBy
<1> QED
  BY <1>1, NextLocks, Invariance, PTL DEF Spec

(* Between transactions no escrow is locked.                               *)
LEMMA UnlockedBetween ==
  ASSUME IInv, LocksOK, frames = <<>>, NEW e \in Escrows
  PROVE  esc[e].locked = 1
<1>1. esc[e].locked \in {1, 2}
  BY DEF IInv, TypeOK, EscrowRecord
<1>2. esc[e].locked # 2
  BY DEF LocksOK, LockedBy
<1> QED
  BY <1>1, <1>2

(* While a payment runs the recipient's code may call any escrow, but no   *)
(* second payment of the same escrow can start.                            *)
THEOREM PaymentsAreOfDifferentEscrows == Spec => []OnePaymentPerEscrow
<1>1. ASSUME IInv, LocksOK
      PROVE  OnePaymentPerEscrow
  <2> SUFFICES ASSUME NEW i \in 1..Len(frames), NEW j \in 1..Len(frames), i < j
               PROVE  frames[i].escrow # frames[j].escrow
    <3>1. Len(frames) \in Nat
      BY <1>1 DEF IInv, TypeOK
    <3> QED
      BY <3>1 DEF OnePaymentPerEscrow
  <2>1. i \in 1..j-1
    OBVIOUS
  <2>2. frames[i].escrow \in Escrows
    BY <1>1, SavedRecords DEF IInv, SavedState
  <2>3. /\ frames[j].saved[frames[i].escrow].locked = 2
        /\ frames[j].saved[frames[j].escrow].locked = 1
    BY <1>1, <2>1, <2>2 DEF LocksOK, LockedBy
  <2> QED
    BY <2>3
<1> QED
  BY <1>1, Invariance, LocksInvariance, PTL

(* No payment leaves a lock behind, whether its recipient succeeded or     *)
(* failed and whatever it called: between transactions every escrow can be *)
(* withdrawn from.                                                         *)
THEOREM NoLockLeftBehind ==
  Spec => [](frames = <<>> => \A e \in Escrows : esc[e].locked = 1)
<1>1. IInv /\ LocksOK => (frames = <<>> => \A e \in Escrows : esc[e].locked = 1)
  BY UnlockedBetween
<1> QED
  BY <1>1, Invariance, LocksInvariance, PTL
=============================================================================
