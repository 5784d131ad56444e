SPECIFICATION Spec
CONSTANTS
  s1 = s1
  s2 = s2
  Subs <- TwoSubs
  Samples <- ThreeSamples
  Accepts = {TRUE, FALSE}
  Sps = {1}
  Pps = {1, 2}
  NoCodec = NoCodec
  NoUnit = NoUnit
  PtsRange = 3
  MaxQueued = 2
SYMMETRY SubsSymmetry
INVARIANTS
  BroadcasterInv
  DecodeChain
  QueuesMatchCodec
  WaitingIsOwedAKeyframe
PROPERTY
  FeedSpec
