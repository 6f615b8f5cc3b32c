\* The escrow contract, its refinement, and disputes that are decided and paid for participants who act.
SPECIFICATION FairSpec
CONSTANTS
  Zero = Zero
  alice = alice
  hub = hub
  judge = judge
  registry = registry
  commitment = commitment
  Contracts = {hub, judge}
  Evidence = {Zero, v1, v2}
  ClaimIds = {Zero, c1, c2}
  Values = {0, 1, 2}
  Escrows <- MCEscrows
  Accounts <- MCAccounts
  buyer <- MCbuyer
  seller <- MCseller
  arbitrator <- MCarbitrator
  requiredAmount <- MCrequiredAmount
  evidenceRegistry <- MCregistry
  agreementCommitment <- MCcommitment
  evidencePolicyCommitment <- MCcommitment
  directConditionSettlement <- MCdirect
INVARIANTS Solvent CreditMatchesOutcome OnePaymentPerEscrow
PROPERTIES CustodySpec DisputePaysOut
CHECK_DEADLOCK FALSE
