SPECIFICATION FairSpec
CONSTANTS
  QueueCapacity = 1
  MaxCommands = 1
PROPERTIES
  FailureIsSurfaced
