\* Three clients, two places in each table, windows of two requests.
SPECIFICATION FairHttpSpec
CONSTANTS
  c1 = c1
  c2 = c2
  c3 = c3
  alice = alice
  bob = bob
  carol = carol
  Clients = {c1, c2, c3}
  owner <- MCowner
  Limit = 2
  Window = 2
  MaxKeys = 2
  ChallengeLife = 1
  MaxChallenges = 2
  SessionLife = 3
  GracePeriod = 1
  MaxTime = 3
  MaxRequests = 5
  Scenarios <- MCScenarios
INVARIANTS ChallengeOpensOneSession SessionRestsOnFreshSignature LimitedPerWindow PoolOutlivesWaitingClients
PROPERTY ShutdownEnds
CHECK_DEADLOCK FALSE
