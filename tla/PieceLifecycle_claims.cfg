SPECIFICATION FreshSpec
CONSTANTS
  p1 = p1
  p2 = p2
  Piece = {p1}
  Peer = {h1, h2}
  WebSeed = {}
  Worker = {w1, w2}
  Has <- MCHas
  AllowedFast <- MCNoFast
  QueueDepth = 1
  PieceCap = 2
  CopyLimit = 1
  MaxFaults = 1
  MaxLosses = 0
  BudgetFull = FALSE
SYMMETRY MCSymmetry
INVARIANTS PiecesAreKept SoleOwner
PROPERTY CompletedStays
CHECK_DEADLOCK FALSE
