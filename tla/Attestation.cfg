\* Two source blocks, one reorganisation, every answer of the Proof Builder.
SPECIFICATION AttestationSpec
CONSTANTS
  ZeroAddress = ZeroAddress
  SourceKey <- MCSourceKey
  Cases <- MCCases
  MaxBlock = 2
  MaxReorgs = 1
INVARIANTS AcceptedIsAttested RefusalIsDeserved
PROPERTY VerificationEnds
CHECK_DEADLOCK FALSE
