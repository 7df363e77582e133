SPECIFICATION NetworkSpec
CONSTANTS
    Trackers = {u, v}
    AnnounceWorkers = 1
    AnnounceTimeout = 1
    MinInterval = 2
    MaxInterval = 4
    DefaultInterval = 3
    EarlyReannounce = 2
    RetryBaseDelay = 1
    RetryMaxDelay = 4
    IdlePoll = 1
    EventFlushDelay = 1
    ScrapeMinInterval = 2
    Intervals = {0, 9}
    MinIntervals = {0}
    TrackerPlans <- MCPlans

    UdpMaxRetries = 2
    Deadlines = {0, 1, 4}
    DefaultUDPTimeout = 6
    ConnectionIds = {1, 2}
    Hashes = 2
    MaxReplies = 2

    Nodes = {"a", "b", "c"}
    Buckets = {1}
    BucketIndex <- MCBucketIndex
    Addresses <- MCAddresses
    Loopback = {}
    LocalNets = {"m"}
    BucketSize = 2
    MaxNodePingFailures = 2
    MaxInFlightProbes = 2
    MaxQuerySenderProbes = 1
    MaxPendingAddrChanges = 1
    MaxAddrChangeCooldowns = 2
    Occupants <- MCOccupants
    NodesFiles <- MCFiles
    MaxMoves = 1
    MaxSightings = 2

    SourceIPs = {"x", "y"}
    LimiterSlot <- MCSlot
    QueryRateBurst = 3
    QueryBlockDuration = 2
    TokenRotation = 1
    InfoHashes = {g, h}
    Ports = {1, 2, 3}
    PeerStoreTTL = 1
    MaxStoredHashes = 1
    MaxPeersPerHash = 2
    MaxPeersPerIPPerHash = 2
    MaxHashesPerIP = 1
    MaxTicks = 2
    MaxQueries = 5

    Distances = {0, 1, 2}
    Endpoints <- MCEndpoints
    LookupK = 2
    LookupCandidates = 2
    LookupParallelism = 2
    LookupQueryLimit = 3
    StartNodes <- MCStartNodes
    MaxReferrals = 1

    Swarm = {"a", "b", "c"}
    IdRank <- MCRank
    HostOf <- MCHost
    MaxDials = 2
    MaxOutbound = 2
    MaxPerHost = 1
    StrikesToBan = 2
    Scenarios <- MCScenarios

    Sessions = {"s", "t"}
    Listen = 1
    External = {5, 6}
    Tries = 2
    PortPlans <- MCPortPlans

    Arrivals = {1, 3, 4, 6}
    BlocksOf <- MCBlocksOf
    ShareOf <- MCShareOf
    Torrents = {"t"}
    MaxHandshakes = 3
    MaxEstablished = 1
    Routable = {"t", "u"}

    PunchEnds = {"a", "b"}
    MaxHolepunch = 2
INVARIANTS
    AnnouncesAreKept UdpAnswersFit ServerKeepsBooks LookupsAreSound
    AdmissionIsSound ResumeRedials PortsAreTrue HandshakesAreShared DialsEndWell EndsMeet
PROPERTY ContactsKept
CHECK_DEADLOCK FALSE
