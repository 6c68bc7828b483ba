CONSTANTS
  s1 = s1
  s2 = s2
  s3 = s3
  s4 = s4
  a = a
  b = b
  c = c
  Work = {s1, s2, s3}
  Pauser = {p1, p2}
  MaxGeneration = 2
  Chat = {a, b, c}
  ChatOf <- MCChatOf
  MaxActive = 1
  MaxRetained = 2
SPECIFICATION SendFairSpec
CHECK_DEADLOCK FALSE
INVARIANTS DrainIsComplete AdmittedByItsAccount NoDormantSurvivor
PROPERTIES NoWedge DrainWaitsForTasks
