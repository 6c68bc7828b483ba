CONSTANTS
  e1 = e1
  e2 = e2
  Event = {e1, e2}
  OrderOf <- MCOrderOf
  Epoch = {p, q}
  p = p
  q = q
  EpochOf <- MCEpochOf
  Plain = Plain
  Unknown = Unknown
  Absent = Absent
  Nothing = Nothing
  NoToken = NoToken
  Token = {k1, k2, k3, k4, k5}
  MaxAttempts = 2
  PendingCapacity = 2
  ReceiptCapacity = 2
  MaxCopies = 2
  MaxUpsets = 2
SPECIFICATION Spec
SYMMETRY Twins
CHECK_DEADLOCK FALSE
CONSTRAINT Budget
INVARIANTS AppliedLast AppliesInArrivalOrder NotifiedIsApplied CompletedIsDone AccountFlightsWake
PROPERTIES EffectsByOwner
