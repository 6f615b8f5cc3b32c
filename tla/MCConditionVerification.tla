----------------------- MODULE MCConditionVerification -----------------------
(***************************************************************************)
(* Agreements between the same parties under the same evidence policy: a   *)
(* source transaction that meets it meets it for every agreement.  Fit are *)
(* those that do, Direct the escrows that settle directly.                 *)
(***************************************************************************)
EXTENDS ConditionVerification, TLC

CONSTANTS Direct, alice, bob, judge, verifier, policy, pay, Fit

MCAccounts == {alice, bob, judge, verifier}
MCbuyer == [e \in Escrows |-> alice]
MCseller == [e \in Escrows |-> bob]
MCarbitrator == [e \in Escrows |-> judge]
MCrequiredAmount == [e \in Escrows |-> 1]
MCdirect == [e \in Escrows |-> e \in Direct]
MCregistry == [e \in Escrows |-> thisRegistry]
MCagreement == [e \in Escrows |-> <<"agreement", e>>]
MCpolicy == [e \in Escrows |-> policy]
MCevidenceType == [e \in Escrows |-> pay]
MCsourceChainKey == [e \in Escrows |-> 7]
MCexpectedSender == [e \in Escrows |-> bob]

MCQualifies == Escrows \X Fit
MCClaims == {ClaimFor(e, t) : e \in Escrows, t \in SourceTxs}
MCEvidence == {Zero} \cup {claim.evidenceCommitment : claim \in MCClaims}
MCClaimIds == {Zero} \cup {ComputeClaimId(claim) : claim \in MCClaims}

Symmetry == Permutations(Workers)
=============================================================================
