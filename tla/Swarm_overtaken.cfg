CONSTANTS
    Peers = {"p", "q", "r"}
    FastPeers = {"p"}
    UploadPieces = {1, 2}
    FastSet = {1}
    Slots = 1
    MaxUploadQueue = 1
    ServeRounds = 1
    BlockSize = 2
    Limits = {1, 3}
    UploadPlans <- MCUploadPlans

    Conns = {"c", "d"}
    AnnouncePieces = {1, 2}
    FirstHeld = {1}
    MaxOffers = 1
    Writers = {"w", "x"}
    AnnouncePlans <- MCAnnouncePlans

    Fetchers = {"c", "d"}
    HostOf <- MCHostOf
    TrueSize = 2
    MetadataPlans <- MCMetadataPlans

    PeerLoops = {"c", "d"}
    PieceCap = 2
    CopyLimit = 1
    Files = {"a", "b"}
    FilesOf <- MCFilesOf
    PickerPlans <- MCPickerPlans

    Readers = {0, 1}
    Exposed <- MCExposed
    NumPieces = 3
    PieceLength = 2
    TotalSize = 5
    Readahead = 1
    Calls <- MCCalls
    ReaderPlans <- MCReaderPlans
SPECIFICATION SwarmSpec
INVARIANT HonestStayWelcome
CHECK_DEADLOCK FALSE
