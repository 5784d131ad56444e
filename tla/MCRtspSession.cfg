SPECIFICATION FairSpec
CONSTANTS
  Protected = TRUE
  Permitted = {"tcp", "udp"}
  NoTransport = "none"
  Offers <- SmallOffers
  Ports = {50000, 50001, 50002, 50003}
  NonceTtl = 2
  IdleLimit = 2
  NonceRange = 3
INVARIANTS
  SessionInv
PROPERTIES
  RefusalBringsFreshNonce
  PlaybackSpec
  SilentSessionEnds
CHECK_DEADLOCK FALSE
