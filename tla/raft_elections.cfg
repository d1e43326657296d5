SPECIFICATION Spec
CONSTANTS
  n1 = n1  n2 = n2  n3 = n3  v1 = v1  Nil = Nil
  Server <- ThreeServers
  Value <- OneValue
  Mortal <- ThreeServers
  Eligible <- ThreeServers
  MaxTerm = 2  MaxLog = 0  MaxLate = 1  MaxTicks = 1  MaxWriters = 0
  MaxTries = 1  MaxIters = 1  MaxBatch = 1
SYMMETRY ServerSymmetry
INVARIANTS ElectionSafety TimerArmedUnlessLeader
PROPERTIES VoteStability LeadershipOncePerTerm
