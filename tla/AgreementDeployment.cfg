\* Two requests at a time, a chain node that fails, a process that restarts.
SPECIFICATION FairDeploymentSpec
CONSTANTS
  NoAgreement = NoAgreement
  Agreements = {a1, a2}
  Requests = {r1, r2}
  MaxTxs = 4
  Faults = {"rpc", "crash"}
INVARIANT AddressIsOwnEscrow
PROPERTY DeploymentIsReported
CHECK_DEADLOCK FALSE
