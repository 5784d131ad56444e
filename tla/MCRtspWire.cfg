SPECIFICATION Spec
CONSTANTS
  MaxRequest = 7
  Chunk = 3
  Radix = 3
  Scripts <- MCScripts
  Base = 3
  Headers = {1, 2}
  Mtu = 5
  Units <- MCUnits
  MaxUnits = 2
  SeqRange = 16
  Starts <- MCStarts
  LinkLimit = 2
  NoNumber = NoNumber
INVARIANTS
  WireInv
  FramesStayWhole
  CutsDoNotMatter
  ShownIsMade
PROPERTIES
  EverythingIsServed
  TcpShowsEveryUnit
CHECK_DEADLOCK FALSE
