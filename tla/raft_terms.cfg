SPECIFICATION Spec
CONSTANTS
  n1 = n1  n2 = n2  n3 = n3  v1 = v1  Nil = Nil
  Server <- ThreeServers
  Value <- OneValue
  Mortal <- NoServer
  Eligible <- FirstTwo
  MaxTerm = 4  MaxLog = 1  MaxLate = 0  MaxTicks = 0  MaxWriters = 1
  MaxTries = 2  MaxIters = 1  MaxBatch = 1
SYMMETRY FirstTwoSymmetry
CHECK_DEADLOCK FALSE
INVARIANTS StateMachineSafety LeaderCompleteness CommittedOnMajority
