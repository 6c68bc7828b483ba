CONSTANTS
  c1 = c1
  c2 = c2
  c3 = c3
  c4 = c4
  c5 = c5
  f1 = f1
  Caller = {c1, c2, c3}
  Task = {t1, t2}
  Bystander = {b1}
  Fence = {}
  Op <- NestedOp
  Guard <- NestedGuard
  Parent <- NestedParent
  Account = Account
  NoGuard = NoGuard
  None = None
  DevBuild = TRUE
SPECIFICATION FairSpec
CHECK_DEADLOCK FALSE
INVARIANTS MutualExclusion LockedWritesAreDurable TasksStayInside AllOrNothing
PROPERTY EveryClaimSettles
