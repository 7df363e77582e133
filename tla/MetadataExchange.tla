--------------------------- MODULE MetadataExchange ---------------------------
(***************************************************************************)
(* A magnet fetches its info dictionary: the shared accumulator and its    *)
(* rounds, what each connection may be asked for, the blame for an         *)
(* assembly that fails the infohash check, and the storage built from one  *)
(* that passes, its retries and Close (pkg/downloader session.go,          *)
(* peer_conn.go).                                                          *)
(*                                                                         *)
(* A size is its number of blocks.  A block is genuine or not; only the    *)
(* true size filled with genuine blocks has the magnet's hash.  A critical *)
(* section of Session.mu is one action; a connection's loop runs           *)
(* onMetadataDownloaded itself, a step at a time, and so does the retry    *)
(* timer.  Times are flags that a Timeout raises: all of them are          *)
(* metadataSizeStallTimeout or shorter than the next one.  Hashing an      *)
(* assembly takes less than that timeout, which does not keep another      *)
(* size from replacing a round that is merely slow meanwhile.              *)
(***************************************************************************)
EXTENDS Integers, FiniteSets, Sequences

CONSTANTS
    Fetchers,              \* connections of the session
    HostOf,             \* HostOf[c]: the host of c
    TrueSize,           \* blocks of the info dictionary
    MetadataPlans       \* bounds: the size each connection advertises, which lie, whether what has the
                        \* hash parses, how often storage fails, connections that drop or come back, a
                        \* close, and the epochs a round may start in

VARIABLES
    fetchPlan,
    fetching,           \* Session.metadataMode
    metadataCompleted,          \* metadataCompleted
    size, pieces, from, \* metadataSize, metadataPieces with metadataBuf, metadataFrom
    sizedBy, owner, solo, epoch, \* metadataSizedBy, metadataOwner, metadataSolo, metadataEpoch
    suspects, banned,   \* metadataSuspects; hosts under a ban
    streak,             \* metadataFailStreak, up to 2
    resetWait,          \* metadataResetAt is recent: suspects wait
    backoff,            \* metadataNextRoundAt is yet to come
    stalled,            \* no progress for metadataSizeStallTimeout
    slow,               \* the round is old enough to be too slow
    kept,               \* verifiedMetadata is set
    failed,             \* statusErr is set
    retryArmed,         \* metadataRetryTimer
    storage,            \* none, open or closed
    building,           \* metadataInitDone is set
    ending,            \* no, closing or closed
    live,               \* connections
    round, requested,   \* metadataRound and metadataRequested of each connection
    caller,             \* where each caller of onMetadataDownloaded is; history: the epoch of its bytes
    overtaken           \* history: hosts banned by a verdict that came after its round was replaced

Timer == "retry"

\* What the constants are.
PlanType == [size : [Fetchers -> Nat \ {0}], liars : SUBSET Fetchers, parses : BOOLEAN, failures : Nat,
             drops : Nat, close : BOOLEAN, epochs : Nat]
MetadataAssumption ==
    /\ TrueSize \in Nat \ {0} /\ Timer \notin Fetchers
    /\ MetadataPlans \subseteq PlanType

\* Who advertises a wrong size lies too.  A ban is of a host: no honest
\* connection shares its host with a liar.
LiarsOf(p) == p.liars \cup {c \in Fetchers : p.size[c] # TrueSize}
HostsApart ==
    \A p \in MetadataPlans : \A c \in LiarsOf(p), d \in Fetchers \ LiarsOf(p) : HostOf[c] # HostOf[d]

Callers == Fetchers \cup {Timer}
Idle == [at |-> "idle", good |-> FALSE, epoch |-> 0]
Applying(at) == [at |-> at, good |-> TRUE, epoch |-> 0]
roundVars == <<size, pieces, from, sizedBy, owner, epoch>>
blameVars == <<solo, suspects, banned, overtaken, streak, resetWait, backoff>>
timeVars == <<stalled, slow>>
storageVars == <<kept, failed, retryArmed, storage, building, ending>>
connVars == <<live, round, requested>>
fetchVars == <<fetchPlan, fetching, metadataCompleted, roundVars, blameVars, timeVars, storageVars, connVars, caller>>

Liars == LiarsOf(fetchPlan)
Empty(n) == [k \in 1 .. n |-> "none"]
NoHost == "nobody"
Loopback == ""

FetchInit ==
    /\ fetchPlan \in MetadataPlans
    /\ fetching = TRUE /\ metadataCompleted = FALSE
    /\ size = 0 /\ pieces = <<>> /\ from = <<>> /\ sizedBy = NoHost /\ owner = {} /\ epoch = 0
    /\ solo = FALSE /\ suspects = {} /\ banned = {} /\ overtaken = {} /\ streak = 0 /\ resetWait = FALSE /\ backoff = FALSE
    /\ stalled = TRUE /\ slow = FALSE
    /\ kept = FALSE /\ failed = FALSE /\ retryArmed = FALSE /\ storage = "none" /\ building = FALSE /\ ending = "no"
    /\ live = Fetchers /\ round = [c \in Fetchers |-> 0] /\ requested = [c \in Fetchers |-> {}]
    /\ caller = [c \in Callers |-> Idle]

(***************************************************************************)
(* Asking.                                                                 *)
(***************************************************************************)
Fetching == fetching /\ ~metadataCompleted
Suspect(c) == HostOf[c] \in suspects
SuspectWaiting(c) == Suspect(c) /\ resetWait
Suspected(h) == IF h \in {NoHost, Loopback} THEN suspects ELSE suspects \cup {h}

\* The first sized peer, or one whose size differs from a round that stalled
\* or, unless it is a suspect, is too slow.
Resizes(c) ==
    IF size = 0 THEN ~backoff /\ ~SuspectWaiting(c)
    ELSE /\ size # fetchPlan.size[c] /\ ~failed
         /\ (stalled /\ ~SuspectWaiting(c)) \/ (~Suspect(c) /\ (stalled \/ slow))

\* A solo round goes to another connection once its owner is gone or stalled.
TakesOver(c, holder) == solo /\ holder # {c} /\ (holder = {} \/ stalled) /\ ~SuspectWaiting(c)

Missing(ps) == {k \in DOMAIN ps : ps[k] = "none"}

\* requestMetadataBlocks, on the handshake, a new round or the retry tick,
\* which also asks again for blocks unanswered for a while.
\* A takeover discards the blocks of the supplier before; a variant keeps them.
KeepsBlocks(ps) == FALSE
Restarts(ps) == Missing(ps) # DOMAIN ps

requestMetadataBlocks(c, again) ==
    LET resize == Resizes(c)
        ps0 == IF resize THEN Empty(fetchPlan.size[c]) ELSE pieces
        owner0 == IF resize THEN {} ELSE owner
        fits == resize \/ size = fetchPlan.size[c]
        takes == fits /\ TakesOver(c, owner0)
        asks == fits /\ (solo => owner0 = {c} \/ takes)
        restart == takes /\ Restarts(ps0)
        ps == IF restart THEN Empty(Len(ps0)) ELSE ps0
        bump == (IF resize /\ size > 0 THEN 1 ELSE 0) + (IF restart THEN 1 ELSE 0)
        fresh == epoch + bump # round[c]
        asked == IF fresh THEN {} ELSE requested[c] \ again
    IN /\ c \in live /\ caller[c].at = "idle" /\ Fetching
       /\ size' = IF resize THEN fetchPlan.size[c] ELSE size
       /\ pieces' = ps
       /\ from' = IF resize \/ restart THEN [k \in DOMAIN ps |-> NoHost] ELSE from
       /\ sizedBy' = IF resize THEN HostOf[c] ELSE sizedBy
       /\ suspects' = IF resize /\ size > 0 THEN Suspected(sizedBy) ELSE suspects
       /\ owner' = IF takes THEN {c} ELSE owner0
       /\ epoch' = epoch + bump /\ epoch' <= fetchPlan.epochs
       /\ stalled' = (stalled /\ ~resize /\ ~takes)
       /\ slow' = (slow /\ ~resize)
       /\ round' = [round EXCEPT ![c] = epoch + bump]
       /\ requested' = [requested EXCEPT ![c] = IF asks THEN asked \cup Missing(ps) ELSE asked]
       /\ UNCHANGED <<fetchPlan, fetching, metadataCompleted, solo, banned, overtaken, streak, resetWait, backoff,
                      storageVars, live, caller>>

Ask(c) == requestMetadataBlocks(c, {}) \/ requestMetadataBlocks(c, requested[c])

\* A message finds a new round begun while statusErr is set: its blocks are
\* not asked for, those of the round before may still count.
SkipRound(c) ==
    /\ c \in live /\ caller[c].at = "idle" /\ Fetching /\ failed /\ epoch # round[c]
    /\ round' = [round EXCEPT ![c] = epoch]
    /\ UNCHANGED <<fetchPlan, fetching, metadataCompleted, roundVars, blameVars, timeVars, storageVars, live,
                   requested, caller>>

(***************************************************************************)
(* Blocks.                                                                 *)
(***************************************************************************)
\* A block of an earlier round, of a block already in, of another size that
\* it states, or for a solo round of another connection is dropped.  The last
\* one hands the bytes on.
acceptMetadataBlock(c, k) ==
    LET taken == /\ epoch = round[c] /\ Fetching /\ size > 0 /\ k \in DOMAIN pieces /\ pieces[k] = "none"
                 /\ c \in Liars \/ fetchPlan.size[c] = size
                 /\ solo => owner = {c}
        block == IF c \in Liars THEN "junk" ELSE "genuine"
    IN /\ c \in live /\ caller[c].at = "idle" /\ k \in requested[c]
       /\ requested' = [requested EXCEPT ![c] = @ \ {k}]
       /\ IF taken
          THEN /\ pieces' = [pieces EXCEPT ![k] = block] /\ from' = [j \in DOMAIN from |-> IF j = k THEN HostOf[c] ELSE from[j]]
               /\ stalled' = FALSE
               /\ caller' = [caller EXCEPT ![c] =
                     IF Missing(pieces') = {}
                     THEN [at |-> "hashing",
                           good |-> size = TrueSize /\ \A j \in DOMAIN pieces' : pieces'[j] = "genuine",
                           epoch |-> epoch]
                     ELSE Idle]
          ELSE UNCHANGED <<pieces, from, stalled, caller>>
       /\ UNCHANGED <<fetchPlan, fetching, metadataCompleted, size, sizedBy, owner, epoch, blameVars, slow,
                      storageVars, live, round>>

\* An assembly that fails is blamed on what the accumulator holds now, and
\* the accumulator is discarded (noteMetadataRoundFailedLocked and the
\* deferred discard of onMetadataDownloaded).
Suppliers == {from[k] : k \in DOMAIN from}
WholeRound == size > 0 /\ Missing(pieces) = {}
Discarded ==
    /\ size' = 0 /\ pieces' = <<>> /\ from' = <<>> /\ sizedBy' = NoHost /\ owner' = {} /\ epoch' = epoch + 1
    /\ metadataCompleted' = FALSE
HashFails(c) ==
    LET feeders == IF WholeRound THEN Suppliers ELSE {}
        bans == IF Cardinality(feeders) = 1 THEN feeders \ {Loopback} ELSE {}
    IN /\ caller[c].at = "hashing" /\ ~caller[c].good
       /\ caller' = [caller EXCEPT ![c] = Idle]
       /\ suspects' = (suspects \cup (feeders \ {Loopback})) \cup (Suspected(sizedBy) \ suspects)
       /\ banned' = banned \cup bans
       /\ overtaken' = IF epoch = caller[c].epoch THEN overtaken ELSE overtaken \cup bans
       /\ live' = {d \in live : HostOf[d] \notin bans}
       /\ solo' = (solo \/ Cardinality(feeders) > 1)
       /\ streak' = IF streak = 2 THEN 2 ELSE streak + 1
       /\ backoff' = (backoff \/ streak >= 1) /\ resetWait' = TRUE
       /\ Discarded
       /\ UNCHANGED <<fetchPlan, fetching, timeVars, storageVars, round, requested>>

(***************************************************************************)
(* Storage.                                                                *)
(***************************************************************************)
NoBlame == /\ from' = <<>> /\ solo' = FALSE /\ owner' = {} /\ suspects' = {} /\ streak' = 0 /\ backoff' = FALSE

\* What has the hash is no dictionary: nobody has a better one, so fetching
\* ends here.
ParseFails(c) ==
    /\ caller[c].at = "hashing" /\ caller[c].good /\ ~fetchPlan.parses
    /\ caller' = [caller EXCEPT ![c] = Idle]
    /\ metadataCompleted' = TRUE /\ failed' = TRUE /\ live' = {} /\ NoBlame
    /\ UNCHANGED <<fetchPlan, fetching, size, pieces, sizedBy, epoch, banned, overtaken, resetWait, timeVars,
                   kept, retryArmed, storage, building, ending, round, requested>>

\* The dictionary parses and nobody else is applying it: the build starts.
\* A session that is closing starts no files.
StartBuild(c) ==
    LET admitted == ending = "no" /\ fetching /\ storage = "none" /\ ~building
        discards == ending # "no"
    IN /\ caller[c].at = "hashing" /\ caller[c].good /\ fetchPlan.parses
       /\ building' = (building \/ admitted)
       /\ caller' = [caller EXCEPT ![c] = IF admitted THEN Applying("building") ELSE Idle]
       /\ IF discards THEN Discarded ELSE UNCHANGED <<metadataCompleted, roundVars>>
       /\ UNCHANGED <<fetchPlan, fetching, blameVars, timeVars, kept, failed, retryArmed, storage, ending,
                      connVars>>

\* Storage cannot be built: the verified bytes stay, peers are dropped, and
\* a timer tries again.
BuildFails(c) ==
    /\ caller[c].at = "building" /\ fetchPlan.failures > 0
    /\ fetchPlan' = [fetchPlan EXCEPT !.failures = @ - 1]
    /\ building' = FALSE /\ metadataCompleted' = TRUE /\ kept' = TRUE /\ failed' = TRUE
    /\ retryArmed' = (ending = "no")
    /\ live' = {} /\ NoBlame
    /\ caller' = [caller EXCEPT ![c] = Idle]
    /\ UNCHANGED <<fetching, size, pieces, sizedBy, epoch, banned, overtaken, resetWait, timeVars, storage, ending,
                   round, requested>>

\* Torrent, storage and pieces are published together.  A session that is
\* closing still takes them; its Close waits to close this storage.
PublishStorage(c) ==
    /\ caller[c].at = "building"
    /\ building' = FALSE /\ storage' = "open" /\ kept' = FALSE /\ failed' = FALSE /\ retryArmed' = FALSE
    /\ caller' = [caller EXCEPT ![c] = IF ending = "no" THEN Applying("leaving") ELSE Idle]
    /\ solo' = FALSE /\ suspects' = {} /\ streak' = 0 /\ backoff' = FALSE
    /\ IF ending = "no"
       THEN from' = <<>> /\ owner' = {} /\ UNCHANGED <<metadataCompleted, size, pieces, sizedBy, epoch>>
       ELSE Discarded
    /\ UNCHANGED <<fetchPlan, fetching, banned, overtaken, resetWait, timeVars, ending, connVars>>

LeaveMetadata(c) ==
    /\ caller[c].at = "leaving"
    /\ caller' = [caller EXCEPT ![c] = Idle]
    /\ IF storage = "open"
       THEN metadataCompleted' = TRUE /\ fetching' = FALSE /\ UNCHANGED roundVars
       ELSE Discarded /\ UNCHANGED fetching
    /\ UNCHANGED <<fetchPlan, blameVars, timeVars, storageVars, connVars>>

retryMetadataStorage ==
    /\ retryArmed /\ caller[Timer].at = "idle" /\ retryArmed' = FALSE
    /\ caller' = [caller EXCEPT ![Timer] =
          IF kept /\ fetching /\ storage = "none" /\ ending = "no" THEN Applying("hashing") ELSE Idle]
    /\ UNCHANGED <<fetchPlan, fetching, metadataCompleted, roundVars, blameVars, timeVars, kept, failed,
                   storage, building, ending, connVars>>

(***************************************************************************)
(* The rest of the session.                                                *)
(***************************************************************************)
\* metadataSizeStallTimeout passes; no assembly is that long in hashing.
Timeout ==
    /\ \A c \in Callers : caller[c].at # "hashing"
    /\ ~(stalled /\ slow /\ ~resetWait /\ ~backoff)
    /\ stalled' = TRUE /\ slow' = TRUE /\ resetWait' = FALSE /\ backoff' = FALSE
    /\ UNCHANGED <<fetchPlan, fetching, metadataCompleted, roundVars, solo, suspects, banned, overtaken,
                   streak, storageVars, connVars, caller>>

\* A connection ends; its own call of onMetadataDownloaded comes first.
DropFetcher(c) ==
    /\ caller[c].at = "idle" /\ fetchPlan.drops > 0
    /\ \/ c \in live /\ fetchPlan' = [fetchPlan EXCEPT !.drops = @ - 1]
       \/ c \notin live /\ owner = {c} /\ UNCHANGED fetchPlan
    /\ live' = live \ {c} /\ owner' = owner \ {c}
    /\ UNCHANGED <<fetching, metadataCompleted, size, pieces, from, sizedBy, epoch, blameVars, timeVars,
                   storageVars, round, requested, caller>>

\* metadataStalledLocked refuses peers; so does a ban.
Reconnect(c) ==
    /\ c \notin live /\ caller[c].at = "idle" /\ owner # {c} /\ HostOf[c] \notin banned /\ ending = "no"
    /\ ~(fetching /\ metadataCompleted /\ failed)
    /\ fetchPlan.drops > 0 /\ fetchPlan' = [fetchPlan EXCEPT !.drops = @ - 1]
    /\ live' = live \cup {c} /\ round' = [round EXCEPT ![c] = 0] /\ requested' = [requested EXCEPT ![c] = {}]
    /\ UNCHANGED <<fetching, metadataCompleted, roundVars, blameVars, timeVars, storageVars, caller>>

Close ==
    /\ fetchPlan.close /\ ending = "no" /\ ending' = "closing"
    /\ retryArmed' = FALSE /\ live' = {}
    /\ UNCHANGED <<fetchPlan, fetching, metadataCompleted, roundVars, blameVars, timeVars, kept, failed,
                   storage, building, round, requested, caller>>

CloseEnds ==
    /\ ending = "closing" /\ ~building
    /\ ending' = "closed"
    /\ storage' = IF storage = "open" THEN "closed" ELSE storage
    /\ UNCHANGED <<fetchPlan, fetching, metadataCompleted, roundVars, blameVars, timeVars, kept, failed,
                   retryArmed, building, connVars, caller>>

FetchNext ==
    \/ \E c \in Fetchers : Ask(c) \/ SkipRound(c) \/ HashFails(c) \/ DropFetcher(c) \/ Reconnect(c)
    \/ \E c \in Fetchers : \E k \in requested[c] : acceptMetadataBlock(c, k)
    \/ \E c \in Callers : ParseFails(c) \/ StartBuild(c) \/ BuildFails(c) \/ PublishStorage(c) \/ LeaveMetadata(c)
    \/ retryMetadataStorage \/ Timeout \/ Close \/ CloseEnds

FetchSpec == FetchInit /\ [][FetchNext]_fetchVars
-----------------------------------------------------------------------------
Honest == Fetchers \ Liars

\* Only a host that lied is banned, however rounds are mixed, taken over,
\* replaced or abandoned, unless the round was replaced while its assembly was
\* hashed: the verdict then falls on the round that is there by then
\* (HonestStayWelcome).
HonestNeverBanned == \A c \in Honest : HostOf[c] \notin banned \ overtaken

\* A solo round has one supplier to blame at any time.
SoloHasOneSupplier == solo => Cardinality(Suppliers \ {NoHost}) <= 1

\* The metadata is applied once: no storage outlives Close or is built twice,
\* and a session leaves metadata mode only with its storage.
AppliedOnce ==
    /\ Cardinality({c \in Callers : caller[c].at \in {"building", "leaving"}}) <= 1
    /\ building <=> \E c \in Callers : caller[c].at = "building"
    /\ ending = "closed" => storage # "open" /\ ~building
    /\ ~fetching => storage # "none" /\ ~kept /\ ~retryArmed

\* Whatever sizes connections advertise: a verdict on the round it hashed bans
\* only a host that lied about metadata, a solo round has one supplier, and what
\* was fetched is applied once (session.go, peer_conn.go).
MetadataIsFair == HonestNeverBanned /\ SoloHasOneSupplier /\ AppliedOnce

\* What session.go:2057 says of every ban, "a round fed entirely by one host
\* proves that host lied": no honest host is banned.
HonestStayWelcome == \A c \in Honest : HostOf[c] \notin banned

=============================================================================
