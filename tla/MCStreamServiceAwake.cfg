SPECIFICATION AndroidSpec
CONSTANTS
  MaxRetries = 3
  MaxPosted = 2
INVARIANTS
  WantedIsAwake
CHECK_DEADLOCK FALSE
