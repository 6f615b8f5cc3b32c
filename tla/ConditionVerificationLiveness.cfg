\* A direct agreement and two source transactions that meet its policy: attempts end.
SPECIFICATION FairVerificationSpec
CONSTANTS
  Zero = Zero
  alice = alice
  bob = bob
  judge = judge
  verifier = verifier
  authorizedVerifier = verifier
  thisRegistry = thisRegistry
  pay = pay
  policy = policy
  Direct = {e1}
  Fit = {t1, t2}
  Contracts = {}
  Values = {1}
  Escrows = {e1}
  Workers = {w1, w2}
  SourceTxs = {t1, t2}
  MaxTxs = 2
  Faults = {}
  Accounts <- MCAccounts
  Evidence <- MCEvidence
  ClaimIds <- MCClaimIds
  Claims <- MCClaims
  buyer <- MCbuyer
  seller <- MCseller
  arbitrator <- MCarbitrator
  requiredAmount <- MCrequiredAmount
  evidenceRegistry <- MCregistry
  agreementCommitment <- MCagreement
  evidencePolicyCommitment <- MCpolicy
  directConditionSettlement <- MCdirect
  evidenceType <- MCevidenceType
  sourceChainKey <- MCsourceChainKey
  expectedSender <- MCexpectedSender
  Qualifies <- MCQualifies

PROPERTY AttemptEnds
CHECK_DEADLOCK FALSE
