SPECIFICATION FairSpec
CONSTANTS
  p = p
  q = q
  one = one
  two = two
  Peers <- MCPeers
  Local = Local
  Checkers <- MCCheckers
  MaxMoves = 2
INVARIANTS TypeOK CheckSettles PanicHasCause
PROPERTY ChecksConverge
CHECK_DEADLOCK FALSE
