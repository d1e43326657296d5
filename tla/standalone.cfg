SPECIFICATION Spec
CONSTANTS
  a = a
  b = b
  c1 = c1
  c2 = c2
  Key <- TwoKeys
  Conn <- TwoConns
  Options <- Plain
  Ttls <- OneTick
  CmdThreshold = 1
  MaxWrites = 2
  MaxTime = 2
  MaxKills = 2
  MaxFailures = 1
CHECK_DEADLOCK FALSE
SYMMETRY Symmetry
INVARIANTS TypeOK NothingUndone SnapshotAddsNothing
