\* Two calls of add: two torrents that share a file, or a state directory.
CONSTANTS
  t1 = t1  t2 = t2  f1 = f1  f2 = f2
  x1 = x1  x2 = x2
  Torrent = {t1, t2}
  Adder = {x1, x2}
  Path = {f1, f2}
  PathsOf <- MCPathsOf
  LengthOf <- MCLengthOf
  None = None
  Setups <- AllSetups
SYMMETRY Symmetry
SPECIFICATION Spec
INVARIANTS DeletionSparesOthers ClaimsMatchSessions RemovedIsGone IdleIsSaved
