SPECIFICATION FairSpec
CONSTANTS
  h1 = h1
  Handler <- OneHandler
  MaxLeads = 3
CHECK_DEADLOCK FALSE
INVARIANTS TypeOK SomethingWillCallAnElection DrainedIsQuiet
PROPERTIES  ShutdownEnds
