CONSTANTS
  Letter = {a}
  Run = {r1, r2}
  Hand = {h1}
  MaxRow = 3
  MaxItem = 2
  MaxNow = 1
  MaxVersion = 1
  MaxAttempts = 2
  None = None
SPECIFICATION Spec
SYMMETRY Symmetry
CONSTRAINT Tracked
CHECK_DEADLOCK FALSE
INVARIANTS ClaimsAccounted OncePerTurn NothingWithdrawnGoesOut NothingIsLost
