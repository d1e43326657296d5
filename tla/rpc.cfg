SPECIFICATION FairSpec
CONSTANTS
  heartbeat = heartbeat  replication = replication
  Caller <- TwoCallers
  MaxFailures = 3
CHECK_DEADLOCK FALSE
INVARIANTS TypeOK FailuresAreCheap
PROPERTIES ImplementsRpc EventuallyAnswered
