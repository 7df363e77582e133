SPECIFICATION Spec
CONSTANTS
  p1 = p1
  p2 = p2
  Piece = {p1, p2}
  Peer = {h1}
  WebSeed = {}
  Worker = {w1}
  Has <- MCHas
  AllowedFast <- MCNoFast
  QueueDepth = 1
  PieceCap = 1
  CopyLimit = 1
  MaxFaults = 1
  MaxLosses = 1
  BudgetFull = FALSE
SYMMETRY MCSymmetry
INVARIANT RepairForgetsLostPieces
CHECK_DEADLOCK FALSE
