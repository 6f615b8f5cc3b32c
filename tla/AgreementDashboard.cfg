\* The page of one participant of one agreement, of each role and mode.
SPECIFICATION DashboardSpec
CONSTANTS
  Zero = Zero
  bob = bob
  sue = sue
  art = art
  registry = registry
  commitment = commitment
  Contracts = {}
  Evidence = {v1}
  ClaimIds = {Zero, c1}
  Values = {1}
  FailureCodes = {"not attested"}
  f1 = f1
  f2 = f2
  Flows = {f1, f2}
  Scenarios <- MCScenarios
  Escrows <- MCEscrows
  Accounts <- MCAccounts
  buyer <- MCbuyer
  seller <- MCseller
  arbitrator <- MCarbitrator
  requiredAmount <- MCrequiredAmount
  evidenceRegistry <- MCregistry
  agreementCommitment <- MCcommitment
  evidencePolicyCommitment <- MCcommitment
  directConditionSettlement <- MCdirect
  lifecycle <- MClifecycle
INVARIANTS OfferedIsAccepted SomebodyCanGoOn TimelineIsNotAhead PathHappened UnlockedIsSettled 
CHECK_DEADLOCK FALSE
