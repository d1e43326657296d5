SPECIFICATION Spec
CONSTANTS
  n1 = n1  n2 = n2  n3 = n3  v1 = v1  Nil = Nil
  Server <- ThreeServers
  Value <- OneValue
  Mortal <- NoServer
  Eligible <- FirstServer
  MaxTerm = 1  MaxLog = 2  MaxLate = 0  MaxTicks = 1  MaxWriters = 1
  MaxTries = 1  MaxIters = 1  MaxBatch = 2
CONSTRAINT OneRoundFails
SYMMETRY OthersSymmetry
CHECK_DEADLOCK FALSE
INVARIANTS AppliedIsCommitted AckedIsApplied
