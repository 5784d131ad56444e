SPECIFICATION FairSpec
CONSTANTS
  MaxFrames = 2
  FrameLimit = 1
INVARIANTS
  DesktopInv
  CleanExit
PROPERTIES
  ServingMeansPublishing
  ShutdownEnds
  WaitingViewerIsServed
CHECK_DEADLOCK FALSE
