SPECIFICATION MftSpec
CONSTANTS
  EventLimit = 4
  Depth = 2
  Lookahead = 0
  Delay = 1
PROPERTIES
  DropsOnlyWhenBusy
CHECK_DEADLOCK FALSE
