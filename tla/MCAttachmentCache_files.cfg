CONSTANTS
  Path = {p1, p2}
  Sweeper = {s1}
  Cap = 1
  None = None
SPECIFICATION Spec
SYMMETRY Symmetry
CHECK_DEADLOCK FALSE
INVARIANTS EveryFileIsCharged ReferencesHold
PROPERTIES PinnedFileStays AdmissionsKeepTheCap
