CONSTANTS
  s1 = s1
  s2 = s2
  s3 = s3
  s4 = s4
  a = a
  b = b
  c = c
  Work = {s1, s2, s3, s4}
  Pauser = {p1}
  MaxGeneration = 1
  Chat = {a, b, c}
  ChatOf <- MCChatOf
  MaxActive = 2
  MaxRetained = 4
SPECIFICATION SendSpec
CHECK_DEADLOCK FALSE
INVARIANTS TurnsAgree WorkConserving
PROPERTY KeepsChatOrder
