--------------------- MODULE EvidenceClaimRegistryProofs ---------------------
(***************************************************************************)
(* Proofs about the registry and the escrows together, for any escrows,    *)
(* claims and accounts: what VeyronisEscrowProofs shows of the escrows     *)
(* carries over, and the two contracts agree.                              *)
(***************************************************************************)
EXTENDS EvidenceClaimRegistry, VeyronisEscrowProofs

(***************************************************************************)
(* The registry makes only calls that the escrow module allows.            *)
(***************************************************************************)
LEMMA SubmitIsRegistryCall ==
  ASSUME TypeOK, NEW claim \in Claims, NEW sender,
         \/ SubmitVerifiedClaim(sender, claim)
         \/ SubmitVerifiedConditionClaim(sender, claim)
         \/ SubmitVerifiedPrerequisiteClaim(sender, claim)
  PROVE  LET e == claim.escrow IN
         /\ e \in Escrows
         /\ frames = <<>>
         /\ frames' = frames
         /\ RegistryCall(e)
         /\ \A d \in Escrows \ {e} : esc'[d] = esc[d]
         /\ esc[e].verifiedClaimId = Zero
         /\ esc'[e].verifiedClaimId = ComputeClaimId(claim)
         /\ ComputeClaimId(claim) # Zero
         /\ directConditionSettlement[e] =>
              /\ esc'[e].activeEvidenceCommitment = claim.evidenceCommitment
              /\ esc'[e].state \in {"Disputed", "Complete", "Refunded"}
<1> DEFINE e == claim.escrow
           id == ComputeClaimId(claim)
           evidence == claim.evidenceCommitment
<1>1. /\ e \in Escrows
      /\ id \in ClaimIds /\ id # Zero
      /\ evidence \in Evidence
  BY ClaimAssumption
<1>2. frames = <<>>
  BY VerifierAssumption DEF SubmitVerifiedClaim, SubmitVerifiedConditionClaim,
       SubmitVerifiedPrerequisiteClaim, MayCall
<1>3. PICK submission \in {"DirectSettlement", "PrerequisiteRecord", "DisputeEvidence"},
           state \in {"AwaitingDelivery", "Disputed"} :
        AcceptVerifiedClaim(claim, state, submission)
  BY DEF SubmitVerifiedClaim, SubmitVerifiedConditionClaim,
         SubmitVerifiedPrerequisiteClaim
<1>4. /\ MatchesEscrow(claim, state, submission)
      /\ CallEscrow(claim, submission)
  BY <1>3 DEF AcceptVerifiedClaim
<1>5. /\ esc \in [Escrows -> EscrowRecord]
      /\ esc[e] \in EscrowRecord
  BY <1>1 DEF TypeOK
<1> HIDE DEF id, evidence, e
<1>6. CASE SettleVerifiedCondition(e, thisRegistry, id, evidence)
  <2>1. thisRegistry = evidenceRegistry[e]
    BY <1>6 DEF SettleVerifiedCondition
  <2>2. RegistryCall(e)
    BY <1>1, <1>2, <1>6, <2>1 DEF RegistryCall
  <2>3. /\ esc[e].verifiedClaimId = Zero
        /\ frames' = frames
        /\ esc' = [esc EXCEPT ![e] =
               Credit([@ EXCEPT !.activeEvidenceCommitment = evidence,
                                !.verifiedClaimId = id,
                                !.state = "Complete"],
                      seller[e])]
    BY <1>6 DEF SettleVerifiedCondition
  <2>4. /\ esc'[e].verifiedClaimId = id
        /\ esc'[e].activeEvidenceCommitment = evidence
        /\ esc'[e].state = "Complete"
        /\ \A d \in Escrows \ {e} : esc'[d] = esc[d]
    BY <1>1, <1>5, <2>3 DEF Credit, EscrowRecord
  <2> QED
    BY <1>1, <1>2, <2>2, <2>3, <2>4 DEF e, id, evidence
<1>7. CASE RecordVerifiedCondition(e, thisRegistry, id, evidence)
  <2>1. thisRegistry = evidenceRegistry[e] /\ ~directConditionSettlement[e]
    BY <1>7 DEF RecordVerifiedCondition
  <2>2. RegistryCall(e)
    BY <1>1, <1>2, <1>7, <2>1 DEF RegistryCall
  <2>3. /\ esc[e].verifiedClaimId = Zero
        /\ frames' = frames
        /\ esc' = [esc EXCEPT ![e].verifiedClaimId = id]
    BY <1>7 DEF RecordVerifiedCondition
  <2>4. /\ esc'[e].verifiedClaimId = id
        /\ \A d \in Escrows \ {e} : esc'[d] = esc[d]
    BY <1>1, <1>5, <2>3 DEF EscrowRecord
  <2> QED
    BY <1>1, <1>2, <2>1, <2>2, <2>3, <2>4 DEF e, id, evidence
<1>8. CASE RecordVerifiedEvidence(e, thisRegistry, id, evidence)
  <2>1. thisRegistry = evidenceRegistry[e]
    BY <1>8 DEF RecordVerifiedEvidence
  <2>2. RegistryCall(e)
    BY <1>1, <1>2, <1>8, <2>1 DEF RegistryCall
  <2>3. /\ esc[e].verifiedClaimId = Zero
        /\ esc[e].state = "Disputed"
        /\ esc[e].activeEvidenceCommitment = evidence
        /\ frames' = frames
        /\ esc' = [esc EXCEPT ![e].verifiedClaimId = id]
    BY <1>8 DEF RecordVerifiedEvidence
  <2>4. /\ esc'[e].verifiedClaimId = id
        /\ esc'[e].state = "Disputed"
        /\ esc'[e].activeEvidenceCommitment = evidence
        /\ \A d \in Escrows \ {e} : esc'[d] = esc[d]
    BY <1>1, <1>5, <2>3 DEF EscrowRecord
  <2> QED
    BY <1>1, <1>2, <2>2, <2>3, <2>4 DEF e, id, evidence
<1> QED
  BY <1>4, <1>6, <1>7, <1>8 DEF CallEscrow, e, id, evidence

(* A step of the composition is one the escrow module allows.             *)
LEMMA SystemStepIsEscrowStep ==
  ASSUME TypeOK, [SystemNext]_systemVars
  PROVE  [Next]_vars
<1>1. CASE UNCHANGED systemVars
  BY <1>1 DEF systemVars, vars
<1>2. CASE EscrowStep
  BY <1>2 DEF EscrowStep, Next
<1>3. CASE Submit
  BY <1>3, SubmitIsRegistryCall DEF Submit, Next
<1> QED
  BY <1>1, <1>2, <1>3 DEF SystemNext

(* The registry's behaviours are among those the escrow module considers:  *)
(* every property proved there holds under this registry.                  *)
THEOREM RegistryImplementsEscrowSpec == SystemSpec => EscrowSpec
<1>1. SystemInit => IInv
  BY InitIInv DEF SystemInit
<1>2. IInv /\ [SystemNext]_systemVars => IInv' /\ [Next]_vars
  BY SystemStepIsEscrowStep, NextIInv DEF IInv
<1>3. SystemInit => Init
  BY DEF SystemInit
<1> QED
  BY <1>1, <1>2, <1>3, PTL DEF SystemSpec, EscrowSpec, Spec

(***************************************************************************)
(* Participants never touch the recorded claim, and not the evidence of an *)
(* escrow that is disputed or decided.                                     *)
(***************************************************************************)
Shown == {"Disputed", "Complete", "Refunded"}

Quiet(r, q) ==
  /\ q.verifiedClaimId = r.verifiedClaimId
  /\ r.state \in Shown =>
       /\ q.state \in Shown
       /\ q.activeEvidenceCommitment = r.activeEvidenceCommitment

(* A participant's call is quiet for every escrow.                        *)
LEMMA PartyCallQuiet ==
  ASSUME TypeOK, NEW e \in Escrows, PartyCall(e), NEW d \in Escrows
  PROVE  Quiet(esc[d], esc'[d])
<1> DEFINE r == esc[e]
<1>1. /\ esc \in [Escrows -> EscrowRecord]
      /\ r \in EscrowRecord
  BY DEF TypeOK
<1> SUFFICES ASSUME d = e
             PROVE  Quiet(esc[e], esc'[e])
  <2>1. CASE d # e
    <3>1. esc'[d] = esc[d]
      BY <1>1, <2>1 DEF PartyCall, Constructor, Deposit, Cancel, ConfirmDelivery,
           RequestRefund, ApproveRefund, OpenDispute, ResolveDispute, Settle,
           WithdrawToWallet, WithdrawCall
    <3> QED
      BY <3>1 DEF Quiet
  <2> QED
    BY <2>1
<1>2. CASE Constructor(e)
  BY <1>1, <1>2 DEF Constructor, Quiet, Shown, EscrowRecord, NoCode
<1>3. ASSUME NEW sender \in Accounts, NEW value \in Values,
             Deposit(e, sender, value)
      PROVE  Quiet(esc[e], esc'[e])
  BY <1>1, <1>3 DEF Deposit, Quiet, Shown, EscrowRecord
<1>4. ASSUME NEW sender \in Accounts, Cancel(e, sender)
      PROVE  Quiet(esc[e], esc'[e])
  BY <1>1, <1>4 DEF Cancel, Quiet, Shown, EscrowRecord
<1>5. ASSUME NEW final \in {"Complete", "Refunded"}, NEW recipient,
             Settle(e, final, recipient)
      PROVE  Quiet(esc[e], esc'[e])
  <2>1. esc'[e] = Credit([r EXCEPT !.state = final], recipient)
    BY <1>1, <1>5 DEF Settle
  <2> QED
    BY <1>1, <2>1 DEF Credit, Quiet, Shown, EscrowRecord
<1>6. ASSUME NEW sender \in Accounts, NEW evidence \in Evidence,
             RequestRefund(e, sender, evidence) \/ OpenDispute(e, sender, evidence)
      PROVE  Quiet(esc[e], esc'[e])
  BY <1>1, <1>6 DEF RequestRefund, OpenDispute, Quiet, Shown, EscrowRecord
<1>7. ASSUME NEW sender \in Accounts, WithdrawToWallet(e, sender)
      PROVE  Quiet(esc[e], esc'[e])
  BY <1>1, <1>7 DEF WithdrawToWallet, PaidOut, Quiet, Shown, EscrowRecord
<1>8. ASSUME NEW sender \in Accounts, WithdrawCall(e, sender)
      PROVE  Quiet(esc[e], esc'[e])
  BY <1>1, <1>8 DEF WithdrawCall, PaidOut, Quiet, Shown, EscrowRecord
<1>9. ASSUME NEW sender \in Accounts, NEW resolution,
             \/ ConfirmDelivery(e, sender)
             \/ ApproveRefund(e, sender)
             \/ ResolveDispute(e, sender, resolution)
      PROVE  Quiet(esc[e], esc'[e])
  BY <1>5, <1>9 DEF ConfirmDelivery, ApproveRefund, ResolveDispute
<1> QED
  BY <1>2, <1>3, <1>4, <1>6, <1>7, <1>8, <1>9 DEF PartyCall

(***************************************************************************)
(* The inductive invariant of the composition.  The registry acts only     *)
(* between transactions, so a saved state shows the same recorded claims   *)
(* as the current one; that is what lets a reverted payment keep the       *)
(* registry's maps right.                                                  *)
(***************************************************************************)
ClaimShown(e, r) ==
  directConditionSettlement[e] /\ r.verifiedClaimId # Zero =>
    /\ r.state \in Shown
    /\ \A claim \in Claims :
         claim.escrow = e /\ ComputeClaimId(claim) = r.verifiedClaimId =>
           r.activeEvidenceCommitment = claim.evidenceCommitment

SavedAgree ==
  \A i \in 1..Len(frames), e \in Escrows :
    /\ frames[i].saved[e].verifiedClaimId = esc[e].verifiedClaimId
    /\ ClaimShown(e, frames[i].saved[e])

BoundToEscrow ==
  \A claim \in Claims :
    Consumed(claim) =>
      sourceEvidenceEscrow[ComputeSourceEvidenceKey(claim)] = claim.escrow

RInv ==
  /\ IInv
  /\ RegistryTypeOK
  /\ BoundToEscrow
  /\ RegistryAgreesWithEscrows
  /\ \A e \in Escrows : ClaimShown(e, esc[e])
  /\ SavedAgree

(* The composition's invariant holds initially.                           *)
LEMMA InitRInv == SystemInit => RInv
<1> SUFFICES ASSUME SystemInit PROVE RInv
  OBVIOUS
<1>1. IInv
  BY InitIInv DEF SystemInit
<1>2. /\ \A e \in Escrows : esc[e].verifiedClaimId = Zero
      /\ frames = <<>>
      /\ consumedClaims = {}
  BY DEF SystemInit, Init, Blank
<1>3. RegistryTypeOK
  BY <1>1 DEF RegistryTypeOK, IInv, SystemInit
<1>4. BoundToEscrow
  BY <1>2 DEF BoundToEscrow, Consumed
<1>5. RegistryAgreesWithEscrows
  BY <1>2, ClaimAssumption DEF RegistryAgreesWithEscrows, Consumed
<1>6. \A e \in Escrows : ClaimShown(e, esc[e])
  BY <1>2 DEF ClaimShown
<1>7. SavedAgree
  <2>1. 1..Len(frames) = {}
    BY <1>2
  <2> QED
    BY <2>1 DEF SavedAgree
<1> QED
  BY <1>1, <1>3, <1>4, <1>5, <1>6, <1>7 DEF RInv

(* An accepted claim is new, and its source evidence was bound to nothing. *)
LEMMA SubmitRInv ==
  ASSUME RInv, NEW claim \in Claims, NEW sender,
         \/ SubmitVerifiedClaim(sender, claim)
         \/ SubmitVerifiedConditionClaim(sender, claim)
         \/ SubmitVerifiedPrerequisiteClaim(sender, claim)
  PROVE  RInv'
<1> DEFINE e == claim.escrow
           id == ComputeClaimId(claim)
           key == ComputeSourceEvidenceKey(claim)
<1>1. TypeOK /\ IInv
  BY DEF RInv, IInv
<1>2. /\ e \in Escrows
      /\ frames = <<>>
      /\ frames' = frames
      /\ RegistryCall(e)
      /\ \A d \in Escrows \ {e} : esc'[d] = esc[d]
      /\ esc[e].verifiedClaimId = Zero
      /\ esc'[e].verifiedClaimId = id
      /\ id # Zero
      /\ directConditionSettlement[e] =>
           /\ esc'[e].activeEvidenceCommitment = claim.evidenceCommitment
           /\ esc'[e].state \in Shown
  BY <1>1, SubmitIsRegistryCall DEF Shown
<1>3. PICK submission, state : AcceptVerifiedClaim(claim, state, submission)
  BY DEF SubmitVerifiedClaim, SubmitVerifiedConditionClaim,
         SubmitVerifiedPrerequisiteClaim
<1>4. /\ sourceEvidenceEscrow[key] = Zero
      /\ consumedClaims' = consumedClaims \cup {id}
      /\ sourceEvidenceEscrow' = [sourceEvidenceEscrow EXCEPT ![key] = e]
  BY <1>3 DEF AcceptVerifiedClaim, Unused
<1>5. IInv'
  BY <1>1, <1>2, NextIInv DEF Next
<1>6. RegistryTypeOK'
  <2>1. key \in SourceKeys
    BY DEF SourceKeys
  <2> QED
    BY <1>2, <1>4, <1>5, <2>1 DEF RInv, RegistryTypeOK, IInv
<1>7. BoundToEscrow'
  <2> SUFFICES ASSUME NEW other \in Claims, Consumed(other)'
               PROVE  sourceEvidenceEscrow'[ComputeSourceEvidenceKey(other)]
                        = other.escrow
    BY DEF BoundToEscrow
  <2>1. ComputeSourceEvidenceKey(other) \in SourceKeys
    BY DEF SourceKeys
  <2>2. CASE ComputeClaimId(other) = id
    <3>1. other.escrow = e /\ ComputeSourceEvidenceKey(other) = key
      BY <2>2 DEF ComputeClaimId, ComputeSourceEvidenceKey
    <3> QED
      BY <1>4, <2>1, <3>1 DEF RInv, RegistryTypeOK
  <2>3. CASE ComputeClaimId(other) # id
    <3>1. Consumed(other)
      BY <1>4, <2>3 DEF Consumed
    <3>2. sourceEvidenceEscrow[ComputeSourceEvidenceKey(other)] = other.escrow
      BY <3>1 DEF RInv, BoundToEscrow
    <3>3. ComputeSourceEvidenceKey(other) # key
      BY <1>4, <3>2, ClaimAssumption, EscrowAddressAssumption
    <3> QED
      BY <1>4, <2>1, <3>2, <3>3 DEF RInv, RegistryTypeOK
  <2> QED
    BY <2>2, <2>3
<1>8. RegistryAgreesWithEscrows'
  <2> SUFFICES ASSUME NEW other \in Claims
               PROVE  Consumed(other)' <=>
                        esc'[other.escrow].verifiedClaimId = ComputeClaimId(other)
    BY DEF RegistryAgreesWithEscrows
  <2>1. Consumed(other) <=>
          esc[other.escrow].verifiedClaimId = ComputeClaimId(other)
    BY DEF RInv, RegistryAgreesWithEscrows
  <2>2. Consumed(other)' <=> Consumed(other) \/ ComputeClaimId(other) = id
    BY <1>4 DEF Consumed
  <2>3. other.escrow \in Escrows /\ ComputeClaimId(other) # Zero
    BY ClaimAssumption
  <2>4. CASE other.escrow # e
    <3>1. ComputeClaimId(other) # id
      BY <2>4 DEF ComputeClaimId
    <3> QED
      BY <1>2, <2>1, <2>2, <2>3, <2>4, <3>1
  <2>5. CASE other.escrow = e
    BY <1>2, <2>1, <2>2, <2>3, <2>5
  <2> QED
    BY <2>4, <2>5
<1>9. \A d \in Escrows : ClaimShown(d, esc'[d])
  <2>1. ASSUME NEW d \in Escrows, d # e
        PROVE  ClaimShown(d, esc'[d])
    BY <1>2, <2>1 DEF RInv
  <2>2. ClaimShown(e, esc'[e])
    <3>1. ASSUME NEW other \in Claims, ComputeClaimId(other) = id
          PROVE  other.evidenceCommitment = claim.evidenceCommitment
      BY <3>1 DEF ComputeClaimId
    <3> QED
      BY <1>2, <3>1 DEF ClaimShown
  <2> QED
    BY <2>1, <2>2
<1>10. SavedAgree'
  <2>1. 1..Len(frames') = {}
    BY <1>2
  <2> QED
    BY <2>1 DEF SavedAgree
<1>11. (\A d \in Escrows : ClaimShown(d, esc[d]))'
  BY <1>9 DEF ClaimShown
<1> QED
  BY <1>5, <1>6, <1>7, <1>8, <1>10, <1>11 DEF RInv

(* Steps that leave the registry alone preserve the invariant when they    *)
(* keep every recorded claim and the evidence it is shown with.            *)
LEMMA KeptRInv ==
  ASSUME RInv, IInv', UNCHANGED registryVars,
         \A e \in Escrows : /\ esc'[e].verifiedClaimId = esc[e].verifiedClaimId
                            /\ ClaimShown(e, esc'[e]),
         SavedAgree'
  PROVE  RInv'
<1>1. RegistryTypeOK' /\ BoundToEscrow'
  BY DEF RInv, IInv, RegistryTypeOK, BoundToEscrow, Consumed, registryVars
<1>2. RegistryAgreesWithEscrows'
  <2> SUFFICES ASSUME NEW claim \in Claims
               PROVE  Consumed(claim)' <=>
                        esc'[claim.escrow].verifiedClaimId = ComputeClaimId(claim)
    BY DEF RegistryAgreesWithEscrows
  <2>1. Consumed(claim)' <=> Consumed(claim)
    BY DEF Consumed, registryVars
  <2>2. esc'[claim.escrow].verifiedClaimId = esc[claim.escrow].verifiedClaimId
    BY ClaimAssumption
  <2> QED
    BY <2>1, <2>2 DEF RInv, RegistryAgreesWithEscrows
<1>3. (\A e \in Escrows : ClaimShown(e, esc[e]))'
  BY DEF ClaimShown
<1> QED
  BY <1>1, <1>2, <1>3 DEF RInv

(* A quiet change of an escrow keeps what its recorded claim is shown with.*)
LEMMA QuietKeeps ==
  ASSUME NEW e \in Escrows, NEW r, NEW q, ClaimShown(e, r), Quiet(r, q)
  PROVE  /\ q.verifiedClaimId = r.verifiedClaimId
         /\ ClaimShown(e, q)
BY DEF ClaimShown, Quiet

(* A participant's call, which may begin a payment.                        *)
LEMMA PartyCallRInv ==
  ASSUME RInv, NEW d \in Escrows, PartyCall(d), UNCHANGED registryVars
  PROVE  RInv'
<1> DEFINE n == Len(frames)
<1>1. IInv /\ TypeOK /\ frames \in Seq(SavedState)
  BY DEF RInv, IInv, TypeOK
<1>2. IInv'
  BY <1>1, NextIInv DEF Next
<1>3. \A e \in Escrows : /\ esc'[e].verifiedClaimId = esc[e].verifiedClaimId
                         /\ ClaimShown(e, esc'[e])
  BY <1>1, PartyCallQuiet, QuietKeeps DEF RInv
<1>4. \/ frames' = frames
      \/ frames' = Append(frames, [escrow |-> d, saved |-> esc])
  BY <1>1, CallEvolves
<1>5. ASSUME NEW i \in 1..n, NEW e \in Escrows
      PROVE  /\ frames[i].saved[e].verifiedClaimId = esc'[e].verifiedClaimId
             /\ ClaimShown(e, frames[i].saved[e])
  BY <1>3 DEF RInv, SavedAgree
<1>6. ASSUME NEW i \in 1..Len(frames'), NEW e \in Escrows
      PROVE  /\ frames'[i].saved[e].verifiedClaimId = esc'[e].verifiedClaimId
             /\ ClaimShown(e, frames'[i].saved[e])
  <2>1. CASE frames' = frames
    BY <1>5, <1>6, <2>1
  <2>2. CASE frames' = Append(frames, [escrow |-> d, saved |-> esc])
    <3>1. n \in Nat /\ Len(frames') = n + 1
      BY <1>1, <2>2
    <3>2. CASE i \in 1..n
      <4>1. frames'[i] = frames[i]
        BY <1>1, <2>2, <3>2
      <4> QED
        BY <1>5, <3>2, <4>1
    <3>3. CASE i = n + 1
      <4>1. frames'[i].saved = esc
        BY <1>1, <2>2, <3>3
      <4> QED
        BY <1>3, <4>1 DEF RInv
    <3> QED
      BY <1>6, <3>1, <3>2, <3>3
  <2> QED
    BY <1>4, <2>1, <2>2
<1>7. SavedAgree'
  BY <1>6 DEF SavedAgree, ClaimShown
<1> QED
  BY <1>2, <1>3, <1>7, KeptRInv

(* The end of a payment: a success unlocks one escrow, a failure restores  *)
(* a saved state, which shows the claims that are recorded now.            *)
LEMMA PaymentEndsRInv ==
  ASSUME RInv, PaymentEnds, UNCHANGED registryVars
  PROVE  RInv'
<1> DEFINE n == Len(frames)
<1>1. /\ IInv
      /\ esc \in [Escrows -> EscrowRecord]
      /\ frames \in Seq(SavedState)
      /\ frames # <<>>
      /\ frames' = Pop(frames)
  BY DEF RInv, IInv, TypeOK, PaymentEnds, WithdrawReturn, WithdrawRevert
<1>2. IInv'
  BY <1>1, NextIInv DEF Next
<1>3. /\ n \in Nat \ {0}
      /\ n \in 1..n
      /\ Len(frames') = n - 1
      /\ \A i \in 1..n-1 : frames'[i] = frames[i]
  BY <1>1, PopFacts
<1>4. \A e \in Escrows : /\ esc'[e].verifiedClaimId = esc[e].verifiedClaimId
                         /\ ClaimShown(e, esc'[e])
  <2>1. CASE WithdrawReturn
    <3>1. esc' = [esc EXCEPT ![Top.escrow].locked = 1]
      BY <2>1 DEF WithdrawReturn
    <3>2. \A e \in Escrows : Quiet(esc[e], esc'[e])
      BY <1>1, <3>1 DEF Quiet, EscrowRecord
    <3> QED
      BY <3>2, QuietKeeps DEF RInv
  <2>2. CASE WithdrawRevert
    <3>1. esc' = frames[n].saved
      BY <2>2 DEF WithdrawRevert, Top
    <3> QED
      BY <1>3, <3>1 DEF RInv, SavedAgree
  <2> QED
    BY <2>1, <2>2 DEF PaymentEnds
<1>5. ASSUME NEW i \in 1..n-1, NEW e \in Escrows
      PROVE  /\ frames'[i].saved[e].verifiedClaimId = esc'[e].verifiedClaimId
             /\ ClaimShown(e, frames'[i].saved[e])
  <2>1. i \in 1..n /\ frames'[i] = frames[i]
    BY <1>3
  <2>2. /\ frames[i].saved[e].verifiedClaimId = esc[e].verifiedClaimId
        /\ ClaimShown(e, frames[i].saved[e])
    BY <2>1 DEF RInv, SavedAgree
  <2> QED
    BY <1>4, <2>1, <2>2
<1>6. SavedAgree'
  BY <1>3, <1>5 DEF SavedAgree, ClaimShown
<1> QED
  BY <1>2, <1>4, <1>6, KeptRInv

(* Every step of the composition preserves the invariant.                  *)
LEMMA NextRInv == RInv /\ [SystemNext]_systemVars => RInv'
<1> SUFFICES ASSUME RInv, [SystemNext]_systemVars PROVE RInv'
  OBVIOUS
<1>1. CASE UNCHANGED systemVars
  <2>1. UNCHANGED vars
    BY <1>1 DEF systemVars, vars
  <2>2. IInv'
    BY <2>1, NextIInv DEF RInv
  <2>3. SavedAgree'
    BY <2>1 DEF vars, RInv, SavedAgree, ClaimShown
  <2>4. \A e \in Escrows : /\ esc'[e].verifiedClaimId = esc[e].verifiedClaimId
                           /\ ClaimShown(e, esc'[e])
    BY <2>1 DEF vars, RInv
  <2>5. UNCHANGED registryVars
    BY <1>1 DEF systemVars, registryVars
  <2> QED
    BY <2>2, <2>3, <2>4, <2>5, KeptRInv
<1>2. CASE Submit
  BY <1>2, SubmitRInv DEF Submit
<1>3. CASE EscrowStep
  BY <1>3, PartyCallRInv, PaymentEndsRInv DEF EscrowStep
<1> QED
  BY <1>1, <1>2, <1>3 DEF SystemNext

(* The invariant holds in every reachable state.                           *)
LEMMA RegistryInvariance == SystemSpec => []RInv
BY InitRInv, NextRInv, PTL DEF SystemSpec

(* The two maps of the registry have their types.                          *)
THEOREM RegistryTypeCorrect == SystemSpec => []RegistryTypeOK
<1>1. RInv => RegistryTypeOK
  BY DEF RInv
<1> QED
  BY <1>1, RegistryInvariance, PTL

(* A claim is consumed exactly when its escrow has recorded it.            *)
THEOREM RegistryAndEscrowsAgree == SystemSpec => []RegistryAgreesWithEscrows
<1>1. RInv => RegistryAgreesWithEscrows
  BY DEF RInv
<1> QED
  BY <1>1, RegistryInvariance, PTL

(* No two accepted claims rest on the same source evidence.  Two claims on *)
(* one key would be bound to the same escrow, which records only one.      *)
THEOREM SourceEvidenceIsUsedOnce == SystemSpec => []SourceEvidenceUsedOnce
<1>1. ASSUME RInv PROVE SourceEvidenceUsedOnce
  <2>1. ASSUME NEW claim \in Claims, NEW other \in Claims,
               Consumed(claim), Consumed(other),
               ComputeSourceEvidenceKey(claim) = ComputeSourceEvidenceKey(other)
        PROVE  ComputeClaimId(claim) = ComputeClaimId(other)
    <3>1. claim.escrow = other.escrow
      BY <1>1, <2>1 DEF RInv, BoundToEscrow
    <3> QED
      BY <1>1, <2>1, <3>1 DEF RInv, RegistryAgreesWithEscrows
  <2> QED
    BY <1>1, <2>1 DEF RInv, BoundToEscrow, SourceEvidenceUsedOnce
<1> QED
  BY <1>1, RegistryInvariance, PTL

(* The claim recorded in a directly settling escrow is about the evidence  *)
(* the escrow shows.                                                       *)
THEOREM ClaimsMatchActiveEvidence ==
  SystemSpec => []VerifiedClaimMatchesActiveEvidence
<1>1. RInv => VerifiedClaimMatchesActiveEvidence
  BY ClaimAssumption DEF RInv, ClaimShown, VerifiedClaimMatchesActiveEvidence
<1> QED
  BY <1>1, RegistryInvariance, PTL
=============================================================================
