SPECIFICATION MftFairSpec
CONSTANTS
  EventLimit = 2
  Depth = 2
  Lookahead = 0
  Delay = 1
INVARIANTS
  MftInv
  OutputsAreAnnounced
  SoftwareLosesNothing
PROPERTIES
  RequestedKeyframeComesOut
CHECK_DEADLOCK FALSE
