SPECIFICATION FairSpec
CONSTANTS
  p1 = p1
  p2 = p2
  Piece = {p1}
  Peer = {h1}
  WebSeed = {s1}
  Worker = {w1}
  Has <- MCHas
  AllowedFast <- MCNoFast
  QueueDepth = 1
  PieceCap = 1
  CopyLimit = 1
  MaxFaults = 1
  MaxLosses = 0
  BudgetFull = FALSE
PROPERTY DownloadSettles
CHECK_DEADLOCK FALSE
