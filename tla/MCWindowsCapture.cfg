SPECIFICATION FairSpec
CONSTANTS
  QueueCapacity = 2
  MaxCommands = 2
INVARIANTS
  PipelineInv
  CaptureKeepsAsking
  DiscardIsRemembered
PROPERTIES
  OwnerIsNotBlocked
  FailureEndsCapture
