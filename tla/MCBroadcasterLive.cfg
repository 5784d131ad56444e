SPECIFICATION FairSpec
CONSTANTS
  s1 = s1
  s2 = s2
  Subs <- TwoSubs
  Samples <- TwoSamples
  Accepts = {TRUE}
  Sps = {1}
  Pps = {1, 2}
  NoCodec = NoCodec
  NoUnit = NoUnit
  PtsRange = 1
  MaxQueued = 1
PROPERTY
  WaitingEnds
