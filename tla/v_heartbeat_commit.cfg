SPECIFICATION Spec
CONSTANTS
  n1 = n1  n2 = n2  n3 = n3  v1 = v1  Nil = Nil
  Server <- ThreeServers
  Value <- OneValue
  Mortal <- NoServer
  Eligible <- FirstTwo
  MaxTerm = 2  MaxLog = 1  MaxLate = 0  MaxTicks = 1  MaxWriters = 1
  MaxTries = 1  MaxIters = 1  MaxBatch = 1
CHECK_DEADLOCK FALSE
INVARIANT StateMachineSafety
