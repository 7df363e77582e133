# saintTorrent: a verification project

TLA+ modules, TLC configurations and TLAPS proofs for the core of saintTorrent,
the BitTorrent client in `cmd/sainttorrent` and `pkg/`. Every definition is
translated from the Go source; `PROJECT.json` maps each one to the lines it
stands for, lists the hazards of the code with the properties that watch them,
and gives for every checked property a mutation of the model that breaks it.

## 1. The system

saintTorrent is one process. A `TorrentManager` (pkg/downloader/manager.go) owns
the torrents; each is a `Session` with its own goroutines, one lock
(`Session.mu`) and a storage; the DHT, the uTP socket and the inbound listener are
shared. Most of what can go wrong lies between two critical sections of a lock,
and a critical section is what one action of these modules stands for.

| Part | State it keeps | Talks to | Modules |
|---|---|---|---|
| Piece lifecycle (session.go, peer_conn.go, resume.go, webseed.go) | `PieceStates`, `activeDownloads` of each loop, the write queue, each worker's job | everything that downloads, through `Session.mu` and the queue | `PieceLifecycle` |
| Storage (pkg/storage/storage.go, mmap) | cached handles, inodes, what is on disk | write workers, verification, readers | `FileStorage`, `ResumeCheckpoint` |
| Resume state (resume.go, resume_checkpoint.go) | dirty flag, flush under way, state file, checkpoint | pieces, pause, close, the next start | `ResumeCheckpoint` |
| Piece picker (piece_picker.go) | needed set, rarity buckets, availability, priorities, `pickGen` | peer loops, webseeds, readers | `PiecePicker` |
| Readers (reader.go) | waiters, sequential windows | piece completion, close, selection | `TorrentReaders` |
| Choking and uploads (choking.go, peer_conn.go, ratelimiter.go) | `AmChoking`, optimistic peer, upload queue, bucket | peer loops | `Uploads` |
| Announcing pieces (peer_conn.go, fast_extension.go) | bitfield sent, queued Haves | piece completion, metadata | `Advertising` |
| Metadata (session.go, peer_conn.go) | shared assembly, rounds, epochs, blame | peer loops, storage, bans | `MetadataExchange` |
| Connections (peer_conn.go, peer_admission.go, peer_source.go) | `Peers`, `activePeers`, slots, admission tables, `pauseEpoch` | trackers, DHT and PEX give addresses | `PeerConnections` |
| One dial (peer_conn.go, encryption.go, mse) | two racing transports, MSE, fallbacks, a monitor | the far end | `PeerDial` |
| PEX and holepunch (pex.go, holepunch.go, utp/holepunch.go) | live connections, what was listed, relays, expected endpoints | three sessions | `Holepunch` |
| Listener (listener.go) | handshakes in flight, shares per network, slots | sessions | `InboundListener` |
| Port mapping (listener.go, nat*.go) | port, mappings, what sessions announce | the gateway | `PortMapping` |
| Tracker loop (tracker_loop.go), UDP tracker (tracker/udptracker.go) | event queue, schedule of each tracker; connection id, transaction | trackers | `TrackerAnnounce`, `UDPTracker` |
| DHT (pkg/dht) | buckets and their indexes, limiter, tokens, peer store, candidates, lookup queues | anybody | `RoutingTable`, `DHTServer`, `DHTLookup`, `LookupScheduler` |
| uTP (pkg/utp) | sequence numbers, reorder and send buffers, half-open table | the network | `UTPConn`, `ByteStream` |
| Manager (manager.go) | sessions, removals, cached torrents, session.json | sessions, disk | `TorrentManager` |
| Path claims (path_claims.go) | inline holder, shared table, deletion marks | adds, removals | `PathClaims`, `PathOwnership` |
| Crash containment (crashguard.go, manager.go) | sentinel, crash files, streak, quarantine | starts of the program | `CrashContainment` |

What makes it hard: many goroutines change one piece and do the slow part
(hash, write, read) without the lock; endgame lets several work on the same
piece on purpose; pause, deselection, choke, disconnect and close fall between
any two steps of any of them; state read under the lock is used after it, in the
peer loops, the pings of the DHT, the saves of the manager; two programs of
the same code meet from both ends; and crashes and power losses fall between
two writes. `PROJECT.json` ("hazards") has each at its line.

## 2. Modules

`EXTENDS` and `INSTANCE` follow the code: `PieceLifecycle` extends `FileStorage`
(the state of the payload file); `PathClaims` and `TorrentManager` instantiate
`PathOwnership`; `UTPConn` instantiates `ByteStream`. Four MC modules put
components that share no state side by side (section 3): `MCState`, `MCSwarm` and
`MCLiveness` extend theirs, `MCNetwork` instantiates two of its ten. `PieceLifecycle`,
`TorrentManager`, `Advertising` and `MetadataExchange` have a `_proofs` module
each; `Peers_proofs` is about `LookupScheduler` and `PeerConnections`,
`State_proofs` about `PathClaims`, `CrashContainment` and `ResumeCheckpoint`,
`Network_proofs` about `UDPTracker`, `TrackerAnnounce`, `RoutingTable`,
`InboundListener`, `PortMapping` and `DHTServer`, and `Swarm_proofs` about
`TorrentReaders`, `Uploads` and `PiecePicker` (section 5).

### 2.1 Pieces

**FileStorage, PieceLifecycle.** `pieceState`, `wanted`, `paused`, `life` (open,
closing, context cancelled, closed); per peer loop `pc`, `owns` and `copies` (its
`activeDownloads`, claimed or redundant), `choked`, `rejected`; `queue` and
`outbox` (`pieceWriteCh` and the job a loop is blocked on); per write worker, web
seed and verifier the step it stands at and its job; `onDisk`, `content` and the
cached handles for the file. Blocks are abstracted: a download is open until its
last block arrives. An `os.Remove` that fails and pieces that span files are not
modelled. `own` of a job, `faults` and `handedBack` are history.

**PiecePicker.** The index of needed pieces (a set per priority and
availability, for the heaps), its upkeep by every handler that changes a piece,
a bitfield or a priority, and a loop's cached empty pick with its generation.
`endgameCopyLimit` is a constant per connection. `ensureNeededBuckets` is never
needed in a reachable state.

**TorrentReaders.** Readers, `waitForPiece` with its registration and sleep,
windows, and each transition that ends a wait. Concurrent `ReadAt` calls on one
reader share one window in the code; a reader here reads one at a time.

**ResumeCheckpoint.** A file is its change stamp and the pieces whose part in
it is right. Dirty flag, flush, state file, checkpoint, mmap and positional
writes, and a next start that trusts, hints or rescans. Assumptions: a write that
survives a power loss leaves its stamp, and (the constant `Settles`, TRUE in the
runs) writes of an earlier run reach the disk before the next start; without the
second the code does claim writes it never synced (resume_checkpoint.go:289), so
`Settles` is a hypothesis of the theorem. Pieces of files both edited
from outside and written in one run are excused. Not modelled: repair of a
checkpoint, file systems without change stamps, a changed layout.

### 2.2 A connection

**Uploads.** Interest, choke rounds, the optimistic slot, what each peer was
last told, the queue with cancels, rejects and allowed-fast requests, and the
limiter. A turn of a loop goes select, handle, serve. A queued block of a piece
that a repair has reset may be read and sent or be rejected: the pump reads the
storage without looking at `PieceStates`. Between two rounds more peers than
slots may be unchoked (a peer whose interest comes back), so the bound is one of
rounds.

**Advertising.** Bitfield, have-all or have-none, the Haves queued while a
connection registers (several merge into one wakeup), the switch out of metadata
mode, availability; goroutines that complete pieces, repairs that take completed
pieces back, and Close. `claims`, `early` and `lost` are history: what a peer
announced, what of it came in a Have before the connection had a bitfield, and
what a repair took back.

**MetadataExchange.** Assembly, sizes, solo rounds, blame and bans, storage
built against Close. Connections advertise any sizes; one that advertises a
wrong size is a liar, as one that sends wrong blocks. Bytes with the right hash
may not parse, and an ask after an error skips its round. A verdict on an epoch
that was replaced meanwhile is noted in the history `overtaken`. Not modelled:
serving metadata, retry delays.

**UTPConn.** Both ends of one connection and a network that loses, repeats and
reorders. Not modelled: congestion control, path MTU, the DHT's datagrams.

### 2.3 Reaching peers

**PeerConnections.** Both ends are sessions of the model. Address keys are a host
and a port, so that an inbound TCP source, a listen endpoint and a uTP source
differ as in the code. Not modelled: connections to oneself, the growing
backoff of dead peers, pruning, zero peer IDs, the loopback exemption.

**PeerDial.** A connection is an attempt (dial, plaintext fallback, TCP retry, its
fallback) over a transport; MSE flights are messages, ciphers left out.

**Holepunch.** Every session runs all of this code; here one is the relay
and two are ends behind NATs (no TCP dial reaches them, a datagram only from an
endpoint they have sent to, as `utp.Socket.EmulateNAT` has it). An end's `loop`
is what the loop of its connection to the relay still has to do: `addPeer`
and `noteHolepunchRelays` are two critical sections, and a socket expects the
other end before the dial starts. A dial times out when nothing can answer it
any more; an earlier timeout is a `losses` trouble. Not modelled: private
torrents (`PeerConnections`), the filters on listed addresses, floods, the limit
of a delta, error messages (only logged).

**InboundListener, PortMapping.** The handshake budget with its shares per
address block; the port told to sessions and mapped, with a gateway that
refuses, forgets, reboots and loses answers. Checking and publishing in
`StartPeerListener` is one step with `Session.Start`, as the program starts its
listener first (main.go:2197). Not modelled: a session's own listener, gateway
discovery, the external address, lease expiry.

### 2.4 Finding peers

**TrackerAnnounce** (event queue, per-tracker schedule in ticks with the delay of
the next retry, pause, close; the wait of an announce or a scrape for one of the
200 tracker slots of the process, tracker_loop.go:90, has no bound and is not
counted in the time a tracker is overdue), **UDPTracker** (datagrams are a set, a
timeout is a step of its own), **RoutingTable** (which node answers at
an address changes under the table; a nodes file has no address twice, being
what `saveNodes` wrote of a table, dht.go:2153), **DHTServer** (limiter, token generations,
peer store with its four limits), **DHTLookup** (responders say anything),
**LookupScheduler** (queues, merge, pacing, the dispatcher's one-slot channel, the
part of `DHT.Close` that waits). Not modelled: HTTP trackers, parsing, the DHT's
response budget and node file.

### 2.5 The manager

**PathClaims** implements **PathOwnership**: how often each torrent holds a path,
and what is reserved for deletion. **TorrentManager** uses the abstract one. It
has one action per critical section of `m.mu`, `cacheMu` or `writeMu`, or per blocking
call: adds, replacement, removals, metadata storage, saves, Close. Rebuilding and
syncing a cached copy is taken to succeed; writing session.json, and the add's
own copy, may fail. **CrashContainment** is a sequence of runs of the program over one
state directory: what a start attributes, quarantines, restores and saves. Not
modelled: legacy paths, pruning of crash files, a sentinel that cannot be
written, a corrupt session.json.

## 3. Runs

A run checks every property of its cfg. `MCNetwork`, `MCState`, `MCSwarm` and `MCLiveness` hold
several components that share no state: a behaviour picks one (`part`), the
others stay in one fixed initial state, and each property speaks of its part
only. Such a run is exactly the checks of its parts, one after the other.
Bounds are constants or a *plan*: a record chosen at the start that says which
troubles may happen and how often, so that each kind is combined with what it
can disturb and the state space stays small.

| Run | Instance | What it shows |
|---|---|---|
| claims | 1 piece, 2 peers, 2 write workers, 1 fault of any kind | no claim is lost, one owner, nothing Completed is taken back, through endgame races |
| start | each way a session starts; 1 piece, peer, webseed, worker; 1 fault | the download finishes and a pause drains |
| loss | 2 pieces, 1 allowed fast, 2 workers, an outside deletion, evicting handles | releases are per piece, repairs leave no orphaned claim |
| liveness | `LookupScheduler` (3 hashes, 1 slot, 2 queue places, a memory of 2), `UTPConn` (2 chunks under a loss or a repeat, 3 against a window of 2, 1 under any single trouble), `TorrentManager` (1 torrent, 2 adds replacing each other, no state directory) | queues agree, merging loses nothing, every lookup starts, Close is quiet; the pair of connections implements `ByteStream`, a confirmed write arrived, what is sent arrives; adds, removals and Close return |
| manager | 2 adds at a time: 2 torrents sharing a file without state directory, or 1 torrent with one | deletions spare cross-seeds, claims match sessions, nothing removed comes back, what is idle is saved |
| network | ten parts (2.3, 2.4 and `LookupScheduler` apart): 2 trackers; 1 UDP request; 3 nodes and 2 slots; 2 senders; 1 lookup; 2-3 sessions; 1 gateway; 4 sources; each pair of policies; 2 ends and a relay | one property per part, and two for the connections: admission keeps its books, and a resume redials; `EndsMeet` joins what two ends that look for each other may expect, of simultaneous opens and of introductions |
| state | `PathClaims` (3 torrents, 2 paths), `CrashContainment` (2 torrents, 3 runs), `ResumeCheckpoint` (2 files, 2 pieces) | claims are exact and implement `PathOwnership`; crashes are contained and nothing is forgotten; what a start restores without hashing is on disk, and once a flush is over the state file and its checkpoint name what is held, in starts with `--recheck` and without |
| swarm | `Uploads` (3 peers, 1 slot), `Advertising` and `MetadataExchange` (2 connections), `PiecePicker` (2 pieces, 2 connections), `TorrentReaders` (2 readers, 3 pieces) | requests are answered, pieces announced, liars found and honest peers spared, the rarest is picked, readers are woken |
| unreported_repair; forgotten_quarantine, forgotten_recheck; overtaken_verdict | as `loss`; as `state`; as `swarm` | expected violations (3.2) |

### 3.1 Why the bounds are enough

A race at piece level is between two holders of one piece, so two peers and two
workers with one piece, or one connection with two pieces, contain it; the
theorems lift the main invariants to any number. Path claims change encoding at
the second holder and back at the first; three torrents and five holds pass each
border both ways. Lookup, handshake, slot, limiter and store limits lie below
the number of those who want them, so each is hit. Two adds suffice for
replacement and for an add that a removal overtakes. Simultaneous open, crossing
and introductions are between two sessions; the third of `PeerConnections`
is for host limits and bans. `SeqMod` = 16 with a start at 14 puts the
wrap-around into every stream. Two trackers are the least for which an event
can be announced to one and not the other.

A bucket that starts full serves the first block at once, so a cancel finds a
queued request only after an interest and two requests: the upload plans with
cancels allow four messages, to a peer with the fast extension and one without.
The metadata plans have one size, a liar's larger one and a liar's smaller one,
so that a round is replaced while its bytes are hashed, by an honest round that
is filled before the verdict. A repair meets Haves queued by two goroutines, and
in another plan Close. The live manager has no state directory, so a wait for
`writeMu` is not among those it bounds: with one TLC needs more than its 300
seconds.

`PeerConnections` allows one pause per scenario (see the observations), at most
two dials per session, and `Holepunch` at most two troubles per behaviour.
The pause meets connections over uTP and over TCP with both ends listed, so a
late cleanup of an inbound peer falls after the resume. Deadlock is checked
where a system never rests (`manager`); elsewhere a behaviour rightly ends: a session closed or complete,
a lookup done, a plan used up.

### 3.2 Findings

| Run | Says | Does |
|---|---|---|
| unreported_repair | storage.go:26: after `ErrFileRepaired` callers re-verify completed pieces | a write that recreates the file and then fails returns only the failure; the lost pieces stay Completed |
| forgotten_quarantine | README.md:347: a torrent whose restore crashed stays quarantined across restarts | session.json is written only after every restore (manager.go:1937) and a crash file is looked at once: if that start dies first, the next one loads the torrent running |
| forgotten_recheck | resume_checkpoint.go:432: reports whether the checkpoint on disk already describes this exact piece set | a hint saved during a `--recheck` drops the pieces not hashed yet from the file and leaves the checkpoint in memory as it was; when all are hashed again that one is current and the save is skipped, so the next start hashes everything once more |
| overtaken_verdict | session.go:2057: a round fed entirely by one host proves that host lied | the verdict blames what the accumulator holds when it is noted (session.go:2066); where an honest peer's size replaced a liar's round and its blocks filled the new one while the old was hashed, the honest peer is banned |

### 3.3 Observations

Met while modelling, excluded by a stated bound or by the wording of a property,
and not kept as runs:

- A second dial to an address can start while the first is between handshake
  and registration, since `Dialing` is cleared there and a resume makes the entry
  eligible at once (session.go:80 says the flag prevents it). The first one's
  cleanup (peer_conn.go:472) then clears the second's flag, and with two pauses a
  peer may wait out a backoff from before the last resume: hence one pause.
- The listen endpoint of an inbound TCP peer backs off from the time its
  connection is cleaned up (peer_admission.go:257), so a cleanup after the resume
  keeps it waiting although the pause closed the connection; `ResumeRedials` does
  not speak of such endpoints.
- Haves sent before a connection has a bitfield are skipped (peer_conn.go:3121,
  3125), though the comment at peer_conn.go:2730 says that what a peer announced
  before the piece count was known is replayed: true of the bitfield, have-all and
  have-none. `AvailabilityAgrees` compares with all the peer announced but those.
- A piece that a repair takes back (resume.go:991) stays announced, and a Have
  queued for it still goes out: peers may ask for what is not there any more.
- In endgame a peer may re-fetch the piece it delivered itself while the write
  worker has not resolved it (peer_conn.go:1683; piece_picker.go:819 speaks of
  pieces another peer holds open), and an empty pick cached in endgame is not
  renewed by a choke that hands a copy back (peer_conn.go:1369, 3028): only the
  retry interval wakes that loop.
- UPnP mappings whose request is still under way at shutdown are not deleted
  (nat_upnp.go:293).
- Metadata that passed once and whose storage failed is kept, and the session
  stops asking for it (session.go:1882).
- An add past its first check has its files open, and even created, while a
  removal deletes them; only registering is refused (manager.go:88, 978). Between
  its registration and its copy, an add can replace the durable cached torrent a
  save has just made by an unsynced one (manager.go:1266, 1434).
- DHT secrets rotate only when one is used, so a token can outlive the window of
  peerstore.go:25 while no query comes.
- PEX lists an address once: a uTP peer listed before its extension handshake
  is listed without the holepunch flag and never again, so nobody learns that
  this relay could introduce it; and a delta ignored as too soon is not resent.

## 4. Fairness

Liveness is checked only where the scheduling of the code justifies fairness:

- PieceLifecycle: loops run until the context is cancelled (WF on their steps); a
  loop told to stop stops even if it only passes through the state where it
  looks (SF); a peer that serves nothing is dropped by request timeouts, a
  bounded fault, so one that stays eventually unchokes and delivers good
  blocks (SF: an assumption on the environment); an empty pick is retried after
  `pickRetryInterval`, so a pump that could open a piece does (SF).
- LookupScheduler: the dispatcher runs, the pacing interval passes, a lookup
  ends (its queries are bounded and time out), a Close that began goes on.
- TorrentManager: each call goes on, a session's Close and a storage build end,
  and a Go mutex hands itself to a starved waiter (SF on taking `writeMu`). Nobody
  has to add, remove or close, and metadata may never arrive.
- UTPConn: the network, read loops, writers and timers run; losses are bounded.

The other parts state what must have happened once nothing is under way any
more (a waiter that nobody will wake, two introduced ends not connected) as
invariants, which needs no fairness.

## 5. Proofs

TLAPS checks these for every value of the constants, from the named assumptions
of the modules. TLC checked each inductive invariant on a small instance before
it was proved. A theorem about a component that shares a run with others is
about that component's own specification (`TrackerSpec`, `CrashSpec`, ...), of
which the run's behaviours are the finite instances.

| Theorem | Property | Argument |
|---|---|---|
| `PieceSafety` | `PiecesAreKept` | `TypeSafety`, `ClaimSafety` and `CompletedPiecesOnDisk` together |
| `TypeSafety` | types of PieceLifecycle | inductive; counters of open downloads decrease only where positive, the queue is pushed only below its depth |
| `ClaimSafety` | no orphaned claim | `ClaimInv` adds that storage is closed only once the session is Closed: a worker that finds it closed drops its claim, harmlessly only then |
| `CompletedPiecesOnDisk` | Completed means on disk | `DiskInv`: while nothing was lost there is one inode every handle reaches, and each Completed piece, each worker about to mark one and each positive verification is vouched for by its content |
| `CompletedPiecesStay` | `CompletedStays` | from `DiskInv`: a step that reverts a piece needs a repair, which needs a loss |
| `OneOwner` | `SoleOwner` | `OwnerInv`: the sum over all who may hold a claim is replaced by "no two of them" and "whoever holds finds the piece in flight"; a job in the queue names whose claim it carries |
| `SchedulerSafety` | `LookupsAreSafe` | the three below together |
| `QueuesAgree` | map and queues agree, within limits | inductive with the types; lemmas on the elements of a sequence after Append, Front and Tail |
| `MergingKeepsRequests` | a merge loses no request | from `QueuesAgree`: a merge combines, a fresh entry starts a fresh history |
| `ClosedIsQuiet` | nothing alive after Close | Close waits under a flag that refuses new goroutines |
| `ManagerTyped` | types of TorrentManager | `SessionInv`: which goroutine answers for a session at each place of an add, a removal and a replacement |
| `DeletionSafety` | `DeletionSparesOthers` | `PathInv`: the counts of holders and of reservations are the sizes of the sets of sessions and removals that stand behind them, and what a removal is about to delete has no other holder |
| `ClaimsSafety` | `ClaimsMatchSessions` | the same counts, read the other way |
| `RemovalSafety` | `RemovedIsGone` | `ListInv`, `CacheInv`: who can still put a torrent on the list a save writes, or make a cached copy, once its removal has begun |
| `IdleSafety` | `IdleIsSaved` | `IdleInv`: what is neither written nor durable is on somebody's list, be it a save under way, an add or a removal |
| `ClaimsExact` | `ClaimsAreExact` | `TablesInv`: three stored counts are the sizes of three sets; the outstanding releases of a torrent are numbered, so that no sum over the torrents is needed |
| `OwnershipImplemented` | `ClaimsImplementOwnership` | step simulation from `TablesInv`: each operation is a step of `PathOwnership` or a stutter |
| `SavesAreFaithful` | `NothingForgotten` | `SavesInv`: what is saved, restored and running agrees with what was last asked for, except for what the start still has to restore |
| `CrashContained` | `CrashesAreContained` | `BlameInv`, `StreakInv`: the sentinel and the newest crash files are those of the last run, and the streak counts the unexplained ends before it |
| `RestoresAreSound` | `RestoredIsOnDisk`, if `Settles` | `CheckpointInv`: stamps lie in the past, each record is of a file as it was, and what a checkpoint claims is on disk or owed by a sync that precedes the next claim |
| `ProgressRecorded` | `ProgressIsRecorded`, if `Settles` | `ProgressFits`: the stamp trusted of a file is its own or the next flush will trust the new one, a sweep finds every file at rest as it is, a checkpoint in force is what the state file claims unless a hint of a run with `--recheck` claims less, and whatever a flush missed wants another |
| `UdpAnswersAreOurs` | `UdpAnswersFit` | `UdpInv`: what is sent after the connect carries the connection ID of this operation, so what is answered to it does too |
| `AnnouncesHold` | `AnnouncesAreKept` | `AnnounceInv`: delivered events are a prefix of those asked for, and how long a tracker can have been due at each place of the loop, waits for a slot not counted |
| `ContactsHold` | `ContactsKept` | `RoutingInv`: the table as one value with its indexes, each operation an element-wise change of it; a newcomer of a challenge has answered, an ID has one verification, and what is left of the nodes file has its address to itself |
| `HandshakesShared` | `HandshakesAreShared` | `InboundInv`: each count is the size of the set of connections that stand where it is held; one move of one connection changes a set by one (`MoveCounts`) |
| `AdmissionHolds` | `AdmissionIsSound` | `PeerInv`: a connection is on the path its dial took, so the end it reaches never meets it earlier; for each session, what is admitted is in its loop and an open one in its loop is admitted under its key, the count of a host is the size of the set of its keys, an owner names an admitted key of its peer and direction, and the `Active` entries are the admitted keys |
| `PortsHold` | `PortsAreTrue` | `PortInv`: who still has to be told, what each place of the NAT loop knows of the TCP mapping, and every mapping the gateway holds is in the loop's hands or booked |
| `ServerBooksKept` | `ServerKeepsBooks` | `ServerInv`: the store is one value whose counts are the sizes of the sets of swarms that hold an IP and whose order is an enumeration of the swarms there are, and each operation (`BooksOK`) keeps that of the value; a blocked sender holds its slot; a token from before the last secret is at least as old as that secret |
| `ReadersServed` | `ReadersAreServed` | `ReadersInv`: who sleeps unsignalled is registered, and every transition that ends the reason to sleep signals all it finds registered |
| `ReadersSteered` | `ReadersSteer` | `ReadersInv`: a window covers the read it was made for and slides only over pieces that are completed or unwanted |
| `ChokeRoundsBounded` | `ChokeRoundBounds` | a round unchokes the peers of its slots and keeps of all others only the optimistic one, of whom there is one at most |
| `RarestPicked` | `PicksTheRarest` | `PickerInv`: what is needed is what is empty and wanted, each of it filed once under its priority and the number of counted connections that have it; so the walk meets no stale entry, and the least of a bucket order is the best candidate |
| `EmptyPicksStand` | `EmptyPickStands` | `PickerInv`: a pick made while not choked has looked at all the peer has, which covers an unchoke after it; every other way to gain a candidate moves the generation or clears the cached pick |
| `AnnouncementsHold` | `PiecesAreAnnounced` | `AnnounceInv`: what a peer may still miss is queued with a wakeup, or with a worker, and what it was told was there, though a repair may have taken it back; each availability is the size of the set of connections counted for it, and what is recorded or kept of a peer is what it announced, but its early Haves |
| `MetadataFair` | `MetadataIsFair`, if `HostsApart` | `FairInv`: as long as its epoch lasts, an assembly is what was hashed, and one that fails holds a block of a liar, charged to its host; junk and wrong sizes come from liars only |
| `MetadataAppliedOnce` | its last two conjuncts | `MetadataInv`: one caller at most builds or leaves; a solo round is charged to its owner |

Hypotheses. The assumptions on constants are types and orders of limits, which
TLC evaluates on the constants of each run; three of them are hypotheses of
their theorems (`AnnounceAssumption`, `UploadAssumption`, `MetadataAssumption`).
Three theorems assume more, of the environment. `Settles` (`RestoresAreSound`,
`ProgressRecorded`): what a run wrote reaches the disk before the next start.
`HostsApart` (`MetadataFair`): a ban is by host, so an honest connection from a
liar's host shares its fate. Starts with `--recheck` and sizes of any kind are
within the theorems; what they break is stated in the properties themselves (a
forced start whose last hint trusts less, a verdict on an epoch that was
replaced) and shown by the runs `forgotten_recheck` and `overtaken_verdict`.

What the proofs changed in the models. The code doubles a tracker's delay with
each of its consecutive `fails`; `TrackerAnnounce` now keeps the delay itself, a
recurrence (`RetryDelay`) where the count needed a power. The limits of what a round has `spent` were empty for a
session without trackers. `ResumeCheckpoint` had a safety conjunct about every
state file ever written that is true only of the last one; it was replaced by
`RestoredIsOnDisk`. A manager without a state directory has nothing
unrestored, which the setups now say (`ManagerAssumption`). `PiecePicker` filed
pieces one after the other by a fold over a set; filing (`add`, `remove`, `move`)
is now defined on the set, with the same state graph. The peer store of `DHTServer`
dropped entries by folds and filters; it is now defined by which entries are left
(same state graph), and an announce to a full swarm of one no longer takes the
swarm off the order, as the code does not (peerstore.go:115). Properties that a
run had guarded with its `part` are now stated in their modules.

Only model-checked:

- liveness (`DownloadSettles`, `LookupsSettle`, `CallsReturn`, `Arrives`): the
  provers handle neither fairness nor ENABLED;
- `UTPConn`: sequence numbers modulo 2^w in two streams and a network, and its
  refinement of `ByteStream`;
- `DHTLookup`: sorting (`SetToSortSeq`) and folds decide what it keeps, and what
  they compute is out of the provers' reach;
- `RequestsAreAnswered`: what is pending is counted over a queue that `SelectSeq`
  filters, a recursion over data;
- of `PeerConnections`, `CrossedOpenKeepsOne` (what both ends keep of a
  simultaneous open: a claim about calm scenarios at rest, which relates what
  each end is still going to do with each connection) and `ResumeRedials` (it
  needs the bound of one pause per scenario, see the observations, so it is no
  theorem about every scenario);
- `PeerDial` and `Holepunch`: not attempted yet.

## 6. Plan

1. Proofs: `PeerDial`, `Holepunch.NoDialIsForgotten`, `CrossedOpenKeepsOne`.
2. `RequestPipeline`: block requests, window, byte budget, timeouts, refining the
   open and close of a download in `PieceLifecycle`.
3. `VerifyGate` and `HandleBudget`: slots and counters at their limit.
4. Metadata served to others, joined with `MetadataExchange`; legacy paths.

## 7. Not modelled

- Parsers and wire formats: byte-level functions without state, which unit and
  fuzz tests reach.
- HTTP statistics, the TUI, logging: read-only views.
- Verification slot gates and the handle budget's accounting: they delay
  verification and choose the handle to evict; `PieceLifecycle` lets verification
  start, and `FileStorage` a handle be evicted, at any time.
- MSE's key exchange and ciphers, uTP's congestion control, the pipeline
  controller and transfer rates: numeric heuristics that decide how fast, not
  whether.
- Within modelled components, what section 2 names with each module.
