SPECIFICATION AndroidFairSpec
CONSTANTS
  MaxRetries = 3
  MaxPosted = 2
INVARIANTS
  AndroidInv
  WantedIsWatched
  ReleasedMeansFree
PROPERTIES
  RecoveryIsBounded
  AndroidStopIsFinal
  FailedEncoderIsStopped
CHECK_DEADLOCK FALSE
