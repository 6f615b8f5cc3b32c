\* One wizard with two clicks, three agreements of two payloads, every fault.
SPECIFICATION FairWizardSpec
CONSTANTS
  NoAgreement = NoAgreement
  NoRequest = NoRequest
  a1 = a1
  a2 = a2
  a3 = a3
  Agreements <- MCAgreements
  payloadOf <- MCpayloadOf
  newPayload = "one"
  Requests = {r1}
  Flows = {f1, f2}
  MaxTxs = 2
  MaxCalls = 2
  MaxEdits = 4
  MaxClicks = 2
  Faults = {"db", "rpc", "crash"}
INVARIANTS OneEscrowPerAgreement ReviewedTermsAreComplete  OneDeposit FundedIsOnChain
CHECK_DEADLOCK FALSE
PROPERTY FlowEnds
