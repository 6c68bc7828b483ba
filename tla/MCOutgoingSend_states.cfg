SPECIFICATION FairSpec
CONSTANTS
  MaxGeneration = 2
  MaxServerAttempts = 2
  MaxCrashes = 2
  MaxAttempts = 2
  MaxCycles = 2
CHECK_DEADLOCK FALSE
INVARIANTS NothingStranded LadderHasBubble SentIsProven FailureSticks CancelledIsFinal
PROPERTY BubbleSettles
