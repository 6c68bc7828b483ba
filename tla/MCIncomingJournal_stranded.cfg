CONSTANTS
  e1 = e1
  e2 = e2
  Event = {e1, e2}
  OrderOf <- MCOrderOf
  Epoch = {}
  EpochOf <- MCEpochOf
  Plain = Plain
  Unknown = Unknown
  Absent = Absent
  Nothing = Nothing
  NoToken = NoToken
  Token = {k1, k2, k3, k4}
  MaxAttempts = 2
  PendingCapacity = 2
  ReceiptCapacity = 2
  MaxCopies = 2
  MaxUpsets = 1
SPECIFICATION Spec
SYMMETRY Twins
CHECK_DEADLOCK FALSE
INVARIANTS NoRowStranded
