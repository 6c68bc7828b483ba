CONSTANTS
  c1 = c1
  c2 = c2
  c3 = c3
  c4 = c4
  c5 = c5
  f1 = f1
  Caller = {c1, c2, c3, c4, c5}
  Task = {}
  Bystander = {}
  Fence = {f1}
  Op <- FencedOp
  Guard <- FencedGuard
  Parent <- FencedParent
  Account = Account
  NoGuard = NoGuard
  None = None
  DevBuild = FALSE
SPECIFICATION FairSpec
CHECK_DEADLOCK FALSE
INVARIANT FenceExclusive
PROPERTIES WatchdogIsRight RevokedNeverCommits
