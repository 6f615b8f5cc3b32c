\* An agreement that settles directly, two requests, every fault of a process in time.
SPECIFICATION VerificationSpec
CONSTANTS
  Zero = Zero
  alice = alice
  bob = bob
  judge = judge
  verifier = verifier
  authorizedVerifier = verifier
  thisRegistry = thisRegistry
  pay = pay
  policy = policy
  Direct = {e1}
  Fit = {t1}
  Contracts = {}
  Values = {1}
  Escrows = {e1}
  Workers = {w1, w2}
  SourceTxs = {t1}
  MaxTxs = 3
  Faults = {"crash", "rpc", "db", "lostSend"}
  Accounts <- MCAccounts
  Evidence <- MCEvidence
  ClaimIds <- MCClaimIds
  Claims <- MCClaims
  buyer <- MCbuyer
  seller <- MCseller
  arbitrator <- MCarbitrator
  requiredAmount <- MCrequiredAmount
  evidenceRegistry <- MCregistry
  agreementCommitment <- MCagreement
  evidencePolicyCommitment <- MCpolicy
  directConditionSettlement <- MCdirect
  evidenceType <- MCevidenceType
  sourceChainKey <- MCsourceChainKey
  expectedSender <- MCexpectedSender
  Qualifies <- MCQualifies
SYMMETRY Symmetry
INVARIANTS VerifiedIsOnChain OneWorkerPerAttempt
PROPERTY VerifiedStands
CHECK_DEADLOCK FALSE
