CONSTANTS
    Explored = {"resume"}
    t1 = t1  t2 = t2  t3 = t3  f1 = f1  f2 = f2
    Torrent = {t1, t2, t3}
    Path = {f1, f2}
    Nobody = Nobody
    LengthOf <- MCLengthOf
    FileLists <- MCFileLists
    MaxHolds = 5
    MaxReservations = 2

    Torrents = {"t", "u"}
    MaxRuns = 3
    MaxChanges = 1

    NumFiles = 2
    Pieces = {1, 2}
    Overlaps <- MCOverlaps
    Plans <- MCPlans
    Settles = TRUE
    Rechecks = {TRUE, FALSE}
    MaxFaults = 1
SPECIFICATION StateSpec
PROPERTY CurrentIsOnDisk
CHECK_DEADLOCK FALSE
