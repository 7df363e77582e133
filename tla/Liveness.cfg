\* Lookups: fewer slots, places and memory than hashes, so that each limit is
\* reached.  uTP: sequence numbers wrap around within the stream.
CONSTANTS
    h1 = h1  h2 = h2  h3 = h3
    InfoHash = {h1, h2, h3}
    Requests <- MCRequests
    NoPort = 0
    Port = {0, 1}
    MaxConcurrent = 1
    MaxQueued = 2
    MaxRemembered = 2

    SeqMod = 16
    AckNrSlack = 1
    MaxReorderDistance = 2
    ReceiveWindow = 2
    SendWindow = 2
    AckCoalesceCount = 2
    MaxInFlight = 2
    SynSeq = 14
    AcceptSeqs <- MCAcceptSeqs
    Scenarios <- MCScenarios

    t1 = t1  f1 = f1  f2 = f2  x1 = x1  x2 = x2
    Torrent = {t1}
    Adder = {x1, x2}
    Path = {f1, f2}
    None = None
    PathsOf <- MCPathsOf
    LengthOf <- MCLengthOf
    Setups <- MCSetups
SPECIFICATION LivenessSpec
INVARIANTS LookupsAreSafe EndsAgree
PROPERTIES LookupsSettle StreamInOrder Arrives CallsReturn
CHECK_DEADLOCK FALSE
