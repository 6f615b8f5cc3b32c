\* The registry and the escrows together.
SPECIFICATION SystemSpec
CONSTANTS
  Zero = Zero
  alice = alice
  bob = bob
  judge = judge
  verifier = verifier
  authorizedVerifier = verifier
  thisRegistry = thisRegistry
  policy = policy
  pay = pay
  otherType = otherType
  t1 = t1
  a1 = a1
  a2 = a2
  junk = junk
  Contracts = {bob}
  Values = {1}
  Escrows <- MCEscrows
  Accounts <- MCAccounts
  Evidence <- MCEvidence
  ClaimIds <- MCClaimIds
  Claims <- MCClaims
  buyer <- MCbuyer
  seller <- MCseller
  arbitrator <- MCarbitrator
  requiredAmount <- MCrequiredAmount
  evidenceRegistry <- MCregistry
  agreementCommitment <- MCagreement
  evidencePolicyCommitment <- MCpolicy
  directConditionSettlement <- MCdirect
INVARIANTS SourceEvidenceUsedOnce RegistryAgreesWithEscrows VerifiedClaimMatchesActiveEvidence
PROPERTY EscrowSpec
CHECK_DEADLOCK FALSE
