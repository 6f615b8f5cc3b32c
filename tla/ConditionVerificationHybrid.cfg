\* A hybrid agreement, two requests, slow ones too, a failing node; t2 does not meet the policy.
SPECIFICATION VerificationSpec
CONSTANTS
  Zero = Zero
  alice = alice
  bob = bob
  judge = judge
  verifier = verifier
  authorizedVerifier = verifier
  thisRegistry = thisRegistry
  pay = pay
  policy = policy
  Direct = {}
  Fit = {t1}
  Contracts = {}
  Values = {1}
  Escrows = {e2}
  Workers = {w1, w2}
  SourceTxs = {t1, t2}
  MaxTxs = 2
  Faults = {"rpc", "slow"}
  Accounts <- MCAccounts
  Evidence <- MCEvidence
  ClaimIds <- MCClaimIds
  Claims <- MCClaims
  buyer <- MCbuyer
  seller <- MCseller
  arbitrator <- MCarbitrator
  requiredAmount <- MCrequiredAmount
  evidenceRegistry <- MCregistry
  agreementCommitment <- MCagreement
  evidencePolicyCommitment <- MCpolicy
  directConditionSettlement <- MCdirect
  evidenceType <- MCevidenceType
  sourceChainKey <- MCsourceChainKey
  expectedSender <- MCexpectedSender
  Qualifies <- MCQualifies
SYMMETRY Symmetry
INVARIANTS OneBroadcastPerClaim ClaimsAreQualified
CHECK_DEADLOCK FALSE
