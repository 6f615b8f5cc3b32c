------------------------ MODULE EvidenceClaimRegistry ------------------------
(***************************************************************************)
(* The claim registry (contracts/src/EvidenceClaimRegistry.sol) composed   *)
(* with the escrows it writes to.  The verifier's account submits a claim  *)
(* about a source-chain transaction; the registry checks it against the    *)
(* escrow, consumes it, binds its source evidence to the escrow and calls  *)
(* the escrow, all in one transaction.                                     *)
(*                                                                         *)
(* keccak256(abi.encode(...)) is modelled by the tuple of its arguments:   *)
(* equal exactly when they are, and never zero.                            *)
(***************************************************************************)
EXTENDS VeyronisEscrow

CONSTANTS
  Claims,              \* the Claim structs that may be submitted
  authorizedVerifier,  \* the account of the verifier, a wallet
  thisRegistry         \* the address of this registry

ComputeEvidenceCommitment(policy, type, chainKey, txHash, subject) ==
  <<"evidence", policy, type, chainKey, txHash, subject>>

ComputeClaimId(claim) ==
  <<"claim", claim.escrow, claim.agreementCommitment,
    claim.evidencePolicyCommitment, claim.evidenceCommitment,
    claim.evidenceType, claim.sourceChainKey, claim.sourceTransactionHash,
    claim.subject>>

ComputeSourceEvidenceKey(claim) ==
  <<"source", claim.evidenceType, claim.sourceChainKey,
    claim.sourceTransactionHash, claim.subject>>

SourceKeys == {ComputeSourceEvidenceKey(claim) : claim \in Claims}

ASSUME ClaimAssumption ==
  \A claim \in Claims :
    /\ claim.escrow \in Escrows
    /\ ComputeClaimId(claim) \in ClaimIds \ {Zero}
    /\ claim.evidenceCommitment \in Evidence

ASSUME VerifierAssumption == authorizedVerifier \in Accounts \ Contracts

ASSUME EscrowAddressAssumption == Zero \notin Escrows

VARIABLES
  consumedClaims,        \* the claim ids mapped to true
  sourceEvidenceEscrow   \* source evidence key -> escrow, or Zero

registryVars == <<consumedClaims, sourceEvidenceEscrow>>

systemVars == <<esc, frames, consumedClaims, sourceEvidenceEscrow>>

SystemInit ==
  /\ Init
  /\ consumedClaims = {}
  /\ sourceEvidenceEscrow = [key \in SourceKeys |-> Zero]

ValidateNonzeroFields(claim) ==
  /\ claim.escrow # Zero
  /\ claim.agreementCommitment # Zero
  /\ claim.evidencePolicyCommitment # Zero
  /\ claim.evidenceCommitment # Zero
  /\ claim.evidenceType # Zero
  /\ claim.sourceChainKey # 0
  /\ claim.sourceTransactionHash # Zero
  /\ claim.subject # Zero

\* The checks of _acceptVerifiedClaim that read the escrow.
MatchesEscrow(claim, expectedState, submission) ==
  LET e == claim.escrow IN
  /\ esc[e].state # NoCode
  /\ claim.agreementCommitment = agreementCommitment[e]
  /\ claim.evidencePolicyCommitment = evidencePolicyCommitment[e]
  /\ esc[e].activeEvidenceCommitment =
       IF submission = "DisputeEvidence" THEN claim.evidenceCommitment ELSE Zero
  /\ claim.subject \in {buyer[e], seller[e]}
  /\ esc[e].state = expectedState

\* Mutant: only the claim itself, not its source evidence, is checked.
UnusedClaimOnly(claim) ==
  /\ claim.evidenceCommitment =
       ComputeEvidenceCommitment(claim.evidencePolicyCommitment,
         claim.evidenceType, claim.sourceChainKey,
         claim.sourceTransactionHash, claim.subject)
  /\ ComputeClaimId(claim) \notin consumedClaims

\* The checks of _acceptVerifiedClaim on the claim and on the registry.
Unused(claim) ==
  /\ claim.evidenceCommitment =
       ComputeEvidenceCommitment(claim.evidencePolicyCommitment,
         claim.evidenceType, claim.sourceChainKey,
         claim.sourceTransactionHash, claim.subject)
  /\ ComputeClaimId(claim) \notin consumedClaims
  /\ sourceEvidenceEscrow[ComputeSourceEvidenceKey(claim)] = Zero

\* Mutant: a failing escrow call does not revert the submission.
CallEscrowIgnoringFailure(claim, submission) ==
  /\ submission = "PrerequisiteRecord"
  /\ IF directConditionSettlement[claim.escrow]
     THEN UNCHANGED <<esc, frames>>
     ELSE RecordVerifiedCondition(claim.escrow, thisRegistry,
            ComputeClaimId(claim), claim.evidenceCommitment)

\* Mutant: verified dispute evidence is recorded and decides the dispute.
CallEscrowDecidingDispute(claim, submission) ==
  /\ submission = "DisputeEvidence"
  /\ esc' = [esc EXCEPT ![claim.escrow] =
               Credit([@ EXCEPT !.verifiedClaimId = ComputeClaimId(claim),
                                !.state = "Complete"],
                      seller[claim.escrow])]
  /\ UNCHANGED frames

\* The call into the escrow that ends _acceptVerifiedClaim.
CallEscrow(claim, submission) ==
  LET e == claim.escrow
      claimId == ComputeClaimId(claim)
      evidence == claim.evidenceCommitment
  IN \/ /\ submission = "DirectSettlement"
        /\ SettleVerifiedCondition(e, thisRegistry, claimId, evidence)
     \/ /\ submission = "PrerequisiteRecord"
        /\ RecordVerifiedCondition(e, thisRegistry, claimId, evidence)
     \/ /\ submission = "DisputeEvidence"
        /\ RecordVerifiedEvidence(e, thisRegistry, claimId, evidence)

AcceptVerifiedClaim(claim, expectedState, submission) ==
  /\ ValidateNonzeroFields(claim)
  /\ MatchesEscrow(claim, expectedState, submission)
  /\ Unused(claim)
  /\ consumedClaims' = consumedClaims \cup {ComputeClaimId(claim)}
  /\ sourceEvidenceEscrow' =
       [sourceEvidenceEscrow EXCEPT
          ![ComputeSourceEvidenceKey(claim)] = claim.escrow]
  /\ CallEscrow(claim, submission)

SubmitVerifiedClaim(sender, claim) ==
  /\ MayCall(sender)
  /\ sender = authorizedVerifier
  /\ AcceptVerifiedClaim(claim, "Disputed", "DisputeEvidence")

SubmitVerifiedConditionClaim(sender, claim) ==
  /\ MayCall(sender)
  /\ sender = authorizedVerifier
  /\ AcceptVerifiedClaim(claim, "AwaitingDelivery", "DirectSettlement")

SubmitVerifiedPrerequisiteClaim(sender, claim) ==
  /\ MayCall(sender)
  /\ sender = authorizedVerifier
  /\ AcceptVerifiedClaim(claim, "AwaitingDelivery", "PrerequisiteRecord")

Submit ==
  \E sender \in Accounts, claim \in Claims :
    \/ SubmitVerifiedClaim(sender, claim)
    \/ SubmitVerifiedConditionClaim(sender, claim)
    \/ SubmitVerifiedPrerequisiteClaim(sender, claim)

EscrowStep ==
  /\ (\E e \in Escrows : PartyCall(e)) \/ PaymentEnds
  /\ UNCHANGED registryVars

SystemNext == Submit \/ EscrowStep

SystemSpec == SystemInit /\ [][SystemNext]_systemVars

(***************************************************************************)
(* Properties.                                                             *)
(***************************************************************************)

(* The registry's storage holds ids and escrow addresses of submitted      *)
(* claims only.                                                            *)
RegistryTypeOK ==
  /\ TypeOK
  /\ consumedClaims \subseteq {ComputeClaimId(claim) : claim \in Claims}
  /\ sourceEvidenceEscrow \in [SourceKeys -> Escrows \cup {Zero}]

Consumed(claim) == ComputeClaimId(claim) \in consumedClaims

(* Source evidence (a transaction on a chain, as evidence of one type for  *)
(* one subject) is used once: the two maps of the registry agree, and no   *)
(* two accepted claims, of one escrow or of two, rest on the same.  The    *)
(* same transaction as evidence of another type or subject is other        *)
(* evidence.                                                               *)
SourceEvidenceUsedOnce ==
  \A claim \in Claims :
    /\ Consumed(claim) =>
         sourceEvidenceEscrow[ComputeSourceEvidenceKey(claim)] = claim.escrow
    /\ \A other \in Claims :
         /\ Consumed(claim) /\ Consumed(other)
         /\ ComputeSourceEvidenceKey(claim) = ComputeSourceEvidenceKey(other)
         => ComputeClaimId(claim) = ComputeClaimId(other)

(* The registry and the escrows agree: a claim is consumed exactly when    *)
(* its escrow has recorded it.  In particular an escrow call that fails    *)
(* undoes the registry's half, and a claim the escrow recorded is never    *)
(* accepted again after the escrow moved on.                               *)
RegistryAgreesWithEscrows ==
  \A claim \in Claims :
    Consumed(claim) <=>
      esc[claim.escrow].verifiedClaimId = ComputeClaimId(claim)

(* The registry is one of those VeyronisEscrow allows: what the escrow     *)
(* module says of its escrows under any registry holds under this one, and *)
(* a submitted claim changes an escrow only as its three functions do.     *)
EscrowSpec == Spec

(* In an escrow that settles directly on verified evidence, a recorded     *)
(* claim is about the evidence the escrow shows as active, however the     *)
(* escrow got there (settlement, or a dispute about that evidence).        *)
VerifiedClaimMatchesActiveEvidence ==
  \A claim \in Claims :
    /\ directConditionSettlement[claim.escrow]
    /\ esc[claim.escrow].verifiedClaimId = ComputeClaimId(claim)
    => esc[claim.escrow].activeEvidenceCommitment = claim.evidenceCommitment

=============================================================================
