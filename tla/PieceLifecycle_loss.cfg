SPECIFICATION FreshSpec
CONSTANTS
  p1 = p1
  p2 = p2
  Piece = {p1, p2}
  Peer = {h1}
  WebSeed = {}
  Worker = {w1, w2}
  Has <- MCHas
  AllowedFast <- MCFast
  QueueDepth = 1
  PieceCap = 2
  CopyLimit = 1
  MaxFaults = 1
  MaxLosses = 1
  BudgetFull = TRUE
SYMMETRY MCSymmetry
INVARIANT PiecesAreKept
CHECK_DEADLOCK FALSE
