----------------------- MODULE MCEvidenceClaimRegistry -----------------------
(***************************************************************************)
(* Two escrows between the same parties under the same evidence policy:    *)
(* the same source transaction is evidence for both.  e1 settles directly, *)
(* e2 does not.  The claims include a wrong agreement, a wrong commitment  *)
(* and an unknown subject.                                                 *)
(***************************************************************************)
EXTENDS EvidenceClaimRegistry

CONSTANTS alice, bob, judge, verifier, policy, pay, otherType, t1, a1, a2, junk

MCEscrows == {"e1", "e2"}
MCAccounts == {alice, bob, judge, verifier}
MCbuyer == [e \in MCEscrows |-> alice]
MCseller == [e \in MCEscrows |-> bob]
MCarbitrator == [e \in MCEscrows |-> judge]
MCrequiredAmount == [e \in MCEscrows |-> 1]
MCdirect == [e1 |-> TRUE, e2 |-> FALSE]
MCregistry == [e \in MCEscrows |-> thisRegistry]
MCagreement == [e1 |-> a1, e2 |-> a2]
MCpolicy == [e \in MCEscrows |-> policy]

MCSources == {<<pay, 7, t1, bob>>, <<otherType, 7, t1, bob>>}

Commit(s) == ComputeEvidenceCommitment(policy, s[1], s[2], s[3], s[4])

ClaimOf(e, agreement, s, evidence) ==
  [escrow |-> e, agreementCommitment |-> agreement,
   evidencePolicyCommitment |-> policy, evidenceCommitment |-> evidence,
   evidenceType |-> s[1], sourceChainKey |-> s[2],
   sourceTransactionHash |-> s[3], subject |-> s[4]]

MCClaims ==
  {ClaimOf(e, MCagreement[e], s, Commit(s)) : e \in MCEscrows, s \in MCSources}
  \cup {ClaimOf("e1", a2, <<pay, 7, t1, bob>>, Commit(<<pay, 7, t1, bob>>)),
        ClaimOf("e1", a1, <<pay, 7, t1, judge>>, Commit(<<pay, 7, t1, judge>>)),
        ClaimOf("e2", a2, <<pay, 7, t1, bob>>, junk)}

MCEvidence == {Zero} \cup {claim.evidenceCommitment : claim \in MCClaims}
MCClaimIds == {Zero} \cup {ComputeClaimId(claim) : claim \in MCClaims}
=============================================================================
