---------------------------- MODULE PieceLifecycle ----------------------------
(***************************************************************************)
(* The life of a piece in pkg/downloader: Empty pieces are claimed by peer *)
(* loops (peer_conn.go) and webseed workers (webseed.go), completed pieces *)
(* travel through the bounded write queue to the hash/write workers, which *)
(* complete them or hand them back (resume.go), while background           *)
(* verification, pause, file deselection and close change the same states. *)
(*                                                                         *)
(* One action per critical section of Session.mu or per off-lock step, so  *)
(* that everything that can run between two lock acquisitions does.        *)
(* Blocks are abstracted: a download is open until its last block arrives. *)
(***************************************************************************)
EXTENDS FileStorage, Sequences, FiniteSets, FiniteSetsExt

CONSTANTS Peer,         \* peers that may be connected
          WebSeed,      \* webseed workers
          Worker,       \* goroutines of the write pool
          Has,          \* Has[h]: pieces peer h advertises
          AllowedFast,  \* AllowedFast[h]: pieces h serves while choking us
          QueueDepth,   \* capacity of pieceWriteCh
          PieceCap,     \* downloads one connection may have open
          CopyLimit,    \* endgame copies one connection may have open
          MaxFaults     \* bound: chokes, rejects, disconnects, corrupt pieces,
                        \* failed fetches and writes, pauses, changes of
                        \* selection, the close

ASSUME PeersAssumption ==
  /\ Piece # {} /\ Peer \cup WebSeed # {}
  /\ Has \in [Peer -> SUBSET Piece]
  /\ AllowedFast \in [Peer -> SUBSET Piece]
  /\ Peer \cap WebSeed = {}

ASSUME BoundsAssumption ==
  /\ QueueDepth \in Nat \ {0}
  /\ PieceCap \in Nat
  /\ CopyLimit \in Nat
  /\ MaxFaults \in Nat

VARIABLES
  \* Session
  pieceState,  \* PieceStates
  wanted,      \* pieces of files that are not skipped
  paused,
  life,        \* how far Close has come
  \* peer loops
  pc,          \* where each connection's loop stands
  owns,        \* owns[h][p]: open downloads of p that h claimed
  copies,      \* copies[h][p]: open endgame copies of p
  choked,      \* the peer chokes us
  rejected,    \* peerRejectedPieces
  connClosed,  \* the socket was closed under the loop
  outbox,      \* job the loop is handing to pieceWriteCh
  \* write pool
  queue,       \* pieceWriteCh
  wpc, wjob,   \* each worker's step and the job in its hands
  \* webseed workers
  spc, sjob,   \* step, and the piece being fetched
  sres,        \* the buffered result channel of the last job
  \* background verification
  vmode,       \* "none", "resume" (hints) or "full" (full scan)
  vpc, toCheck, vpiece, vok,
  \* history
  faults,      \* faults so far
  handedBack   \* a worker has returned a claimed piece, or storage was repaired

sessionVars == <<pieceState, wanted, paused, life>>
peerVars    == <<pc, owns, copies, choked, rejected, connClosed, outbox>>
workerVars  == <<wpc, wjob>>
seedVars    == <<spc, sjob, sres>>
verifyVars  == <<vmode, vpc, toCheck, vpiece, vok>>
vars == <<storageVars, sessionVars, peerVars, queue, workerVars, seedVars,
          verifyVars, faults, handedBack>>

PieceState == {"Empty", "Downloading", "Completed", "Unverified"}

\* pieceWriteJob.  own tells a claimed piece from an endgame copy; the code
\* does not carry it.
Job == [piece : Piece, src : Peer \cup WebSeed, own : BOOLEAN, good : BOOLEAN]
AnyJob == CHOOSE j \in Job : TRUE

Closing == life # "open"                       \* s.closing || s.closed
CtxDone == life \in {"cancelled", "closed"}    \* s.ctx.Err() != nil
Closed  == life = "closed"                     \* s.closed

SessionTypeOK ==
  /\ pieceState \in [Piece -> PieceState]
  /\ wanted \subseteq Piece
  /\ paused \in BOOLEAN
  /\ life \in {"open", "closing", "cancelled", "closed"}

PeerTypeOK ==
  /\ pc \in [Peer -> {"down", "wait", "drop", "pump", "send"}]
  /\ owns \in [Peer -> [Piece -> Nat]]
  /\ copies \in [Peer -> [Piece -> Nat]]
  /\ choked \in [Peer -> BOOLEAN]
  /\ rejected \in [Peer -> SUBSET Piece]
  /\ connClosed \in [Peer -> BOOLEAN]
  /\ outbox \in [Peer -> Job]

QueueTypeOK == queue \in Seq(Job) /\ Len(queue) <= QueueDepth

WorkerTypeOK ==
  /\ wpc \in [Worker -> {"idle", "check", "hash", "mark", "repair", "fail"}]
  /\ wjob \in [Worker -> Job]

SeedTypeOK ==
  /\ spc \in [WebSeed -> {"idle", "fetch", "send", "await", "exited"}]
  /\ sjob \in [WebSeed -> Job]
  /\ sres \in [WebSeed ->
                 {"none", "completed", "skipped", "closed", "failed"}]

VerifyTypeOK ==
  /\ vmode \in {"none", "resume", "full"}
  /\ vpc \in {"off", "start", "next", "apply"}
  /\ toCheck \subseteq Piece
  /\ vpiece \in Piece
  /\ vok \in BOOLEAN

HistoryTypeOK == faults \in 0 .. MaxFaults /\ handedBack \in BOOLEAN

TypeOK ==
  /\ StorageTypeOK /\ SessionTypeOK /\ PeerTypeOK /\ QueueTypeOK
  /\ WorkerTypeOK /\ SeedTypeOK /\ VerifyTypeOK /\ HistoryTypeOK

-----------------------------------------------------------------------------
(* The three ways a session starts (applyResumeStateLocked): trusted       *)
(* pieces are Completed, hints are Unverified, and without a checkpoint    *)
(* every piece is Empty while a full scan looks at what is on disk.        *)

Checkpoint(trusted, hints) ==
  [p \in Piece |-> IF p \in trusted THEN "Completed"
                   ELSE IF p \in hints THEN "Unverified" ELSE "Empty"]

InitResume ==
  \E present, trusted, hints \in SUBSET Piece :
    /\ trusted \subseteq present
    /\ trusted \cap hints = {}
    /\ StorageInit(present)
    /\ pieceState = Checkpoint(trusted, hints)
    /\ vmode = IF hints = {} THEN "none" ELSE "resume"

InitFullScan ==
  \E present \in SUBSET Piece :
    /\ StorageInit(present)
    /\ pieceState = Checkpoint({}, {})
    /\ vmode = "full"

Idle ==
  /\ wanted = Piece
  /\ paused = FALSE
  /\ life = "open"
  /\ pc = [h \in Peer |-> "down"]
  /\ owns = [h \in Peer |-> [p \in Piece |-> 0]]
  /\ copies = [h \in Peer |-> [p \in Piece |-> 0]]
  /\ choked = [h \in Peer |-> TRUE]
  /\ rejected = [h \in Peer |-> {}]
  /\ connClosed = [h \in Peer |-> FALSE]
  /\ outbox = [h \in Peer |-> AnyJob]
  /\ queue = <<>>
  /\ wpc = [w \in Worker |-> "idle"]
  /\ wjob = [w \in Worker |-> AnyJob]
  /\ spc = [s \in WebSeed |-> "idle"]
  /\ sjob = [s \in WebSeed |-> AnyJob]
  /\ sres = [s \in WebSeed |-> "none"]
  /\ vpc = IF vmode = "none" THEN "off" ELSE "start"
  /\ toCheck = {}
  /\ vpiece = CHOOSE p \in Piece : TRUE
  /\ vok = FALSE
  /\ faults = 0
  /\ handedBack = FALSE

Init == (InitResume \/ InitFullScan) /\ Idle

-----------------------------------------------------------------------------
(* Operators on the piece states.                                          *)

Fault == faults < MaxFaults /\ faults' = faults + 1

Set(p, state) == [pieceState EXCEPT ![p] = state]

\* Variants of ReturnToPool with its guard dropped, and doing nothing.
ReturnAnyToPool(ps) ==
  [p \in Piece |-> IF p \in ps THEN "Empty" ELSE pieceState[p]]
ReturnNothing(ps) == [p \in Piece |-> pieceState[p]]

\* Every path that gives a claim up re-checks that the piece is Downloading.
ReturnToPool(ps) ==
  [p \in Piece |-> IF p \in ps /\ pieceState[p] = "Downloading"
                   THEN "Empty" ELSE pieceState[p]]

\* neededPieces: what the picker may hand out.
Needed == {p \in wanted : pieceState[p] = "Empty"}
EndgameActive == Needed = {}
InFlight == {p \in wanted : pieceState[p] = "Downloading"}

IsCompleted == \A p \in wanted : pieceState[p] = "Completed"

-----------------------------------------------------------------------------
(* Peer loops.  A loop waits for a message ("wait"), drops what others     *)
(* finished ("drop"), fills its window ("pump"), or blocks on the write    *)
(* queue ("send").                                                         *)

Holds(h, p) == owns[h][p] + copies[h][p] > 0
OpenDownloads(h) == MapThenSumSet(LAMBDA p : owns[h][p] + copies[h][p], Piece)
OpenCopies(h) == MapThenSumSet(LAMBDA p : copies[h][p], Piece)

CanRequest(h, p) ==
  /\ p \in Has[h]
  /\ p \notin rejected[h]
  /\ choked[h] => p \in AllowedFast[h]

\* A release that forgets to skip endgame copies.
ReleasesHeld(h) == {p \in Piece : Holds(h, p)}
\* releaseDownloads skips endgame copies: their state belongs to the owner.
Releases(h) == {p \in Piece : owns[h][p] > 0}

NoDownloads == [p \in Piece |-> 0]

Goto(h, step) == pc' = [pc EXCEPT ![h] = step]

Connect(h) ==
  /\ pc[h] = "down"
  /\ ~paused /\ ~Closing
  /\ Goto(h, "wait")
  /\ choked' = [choked EXCEPT ![h] = TRUE]
  /\ rejected' = [rejected EXCEPT ![h] = {}]
  /\ connClosed' = [connClosed EXCEPT ![h] = FALSE]
  /\ UNCHANGED <<storageVars, sessionVars, owns, copies, outbox, queue,
                 workerVars, seedVars, verifyVars, faults, handedBack>>

\* The stall reaper: an outbound peer that is asked for nothing, because it
\* serves nothing we need, loses its slot while the download is unfinished.
Stalled(h) ==
  /\ ~IsCompleted /\ vmode = "none"
  /\ \A p \in Piece : ~Holds(h, p) /\ (p \in Needed => ~CanRequest(h, p))

MustStop(h) == paused \/ CtxDone \/ connClosed[h] \/ Stalled(h)

\* The loop ends: paused, cancelled, its socket closed, the peer reaped, or
\* (a fault) gone.  What it claimed goes back to the pool.
Disconnect(h) ==
  /\ pc[h] = "wait"
  /\ \/ MustStop(h) /\ faults' = faults
     \/ Fault
  /\ pieceState' = ReturnToPool(Releases(h))
  /\ owns' = [owns EXCEPT ![h] = NoDownloads]
  /\ copies' = [copies EXCEPT ![h] = NoDownloads]
  /\ Goto(h, "down")
  /\ UNCHANGED <<storageVars, wanted, paused, life, choked, rejected,
                 connClosed, outbox, queue, workerVars, seedVars, verifyVars,
                 handedBack>>

\* MsgChoke: downloads of allowed-fast pieces are kept, everything else is
\* released, endgame copies included.
Choke(h) ==
  /\ pc[h] = "wait" /\ ~choked[h]
  /\ Fault
  /\ choked' = [choked EXCEPT ![h] = TRUE]
  /\ pieceState' = ReturnToPool(Releases(h) \ AllowedFast[h])
  /\ owns' = [owns EXCEPT ![h] =
                [p \in Piece |-> IF p \in AllowedFast[h] THEN @[p] ELSE 0]]
  /\ copies' = [copies EXCEPT ![h] = NoDownloads]
  /\ Goto(h, "drop")
  /\ UNCHANGED <<storageVars, wanted, paused, life, rejected, connClosed,
                 outbox, queue, workerVars, seedVars, verifyVars, handedBack>>

Unchoke(h) ==
  /\ pc[h] = "wait" /\ choked[h]
  /\ choked' = [choked EXCEPT ![h] = FALSE]
  /\ rejected' = [rejected EXCEPT ![h] = {}]
  /\ Goto(h, "drop")
  /\ UNCHANGED <<storageVars, sessionVars, owns, copies, connClosed, outbox,
                 queue, workerVars, seedVars, verifyVars, faults, handedBack>>

\* findDownload returns the first entry of p; a stale endgame copy and a later
\* claim of the same piece can coexist, in either order.
CloseOne(h, p, own) ==
  IF own
  THEN /\ owns[h][p] > 0
       /\ owns' = [owns EXCEPT ![h][p] = @ - 1]
       /\ copies' = copies
  ELSE /\ copies[h][p] > 0
       /\ copies' = [copies EXCEPT ![h][p] = @ - 1]
       /\ owns' = owns

\* MsgRejectRequest: abandonRejectedDownload.
RejectRequest(h, p, own) ==
  /\ pc[h] = "wait"
  /\ Fault
  /\ CloseOne(h, p, own)
  /\ rejected' = [rejected EXCEPT ![h] = @ \cup {p}]
  /\ pieceState' = IF own THEN ReturnToPool({p}) ELSE pieceState
  /\ Goto(h, "drop")
  /\ UNCHANGED <<storageVars, wanted, paused, life, choked, connClosed,
                 outbox, queue, workerVars, seedVars, verifyVars, handedBack>>

\* MsgPiece with the last block of p: the download closes, the piece stays
\* Downloading, and the loop turns to the write queue.
LastBlock(h, p, own, good) ==
  /\ pc[h] = "wait"
  /\ IF good THEN faults' = faults ELSE Fault
  /\ CloseOne(h, p, own)
  /\ outbox' = [outbox EXCEPT ![h] =
                  [piece |-> p, src |-> h, own |-> own, good |-> good]]
  /\ Goto(h, "send")
  /\ UNCHANGED <<storageVars, sessionVars, choked, rejected, connClosed,
                 queue, workerVars, seedVars, verifyVars, handedBack>>

\* Any other message we act on, and the overdue request sweep.
OtherMessage(h) ==
  /\ pc[h] = "wait"
  /\ Goto(h, "drop")
  /\ UNCHANGED <<storageVars, sessionVars, owns, copies, choked, rejected,
                 connClosed, outbox, queue, workerVars, seedVars, verifyVars,
                 faults, handedBack>>

\* A keep-alive or the bandwidth timer goes straight to the pump.
KeepAlive(h) ==
  /\ pc[h] = "wait"
  /\ Goto(h, "pump")
  /\ UNCHANGED <<storageVars, sessionVars, owns, copies, choked, rejected,
                 connClosed, outbox, queue, workerVars, seedVars, verifyVars,
                 faults, handedBack>>

DropCompletedElsewhere(h) ==
  LET kept(dls) ==
        [p \in Piece |-> IF pieceState[p] = "Downloading" THEN dls[p] ELSE 0]
  IN /\ pc[h] = "drop"
     /\ owns' = [owns EXCEPT ![h] = kept(@)]
     /\ copies' = [copies EXCEPT ![h] = kept(@)]
     /\ Goto(h, "pump")
     /\ UNCHANGED <<storageVars, sessionVars, choked, rejected, connClosed,
                    outbox, queue, workerVars, seedVars, verifyVars, faults,
                    handedBack>>

\* openNewPiece, first choice: claim a needed piece.
ClaimPiece(h, p) ==
  /\ pc[h] = "pump"
  /\ ~paused /\ ~Closed
  /\ OpenDownloads(h) < PieceCap
  /\ p \in Needed /\ CanRequest(h, p)
  /\ pieceState' = Set(p, "Downloading")
  /\ owns' = [owns EXCEPT ![h][p] = @ + 1]
  /\ UNCHANGED <<storageVars, wanted, paused, life, pc, copies, choked,
                 rejected, connClosed, outbox, queue, workerVars, seedVars,
                 verifyVars, faults, handedBack>>

\* openNewPiece, endgame: a copy of a piece in flight, its state untouched.
CopyPiece(h, p) ==
  /\ pc[h] = "pump"
  /\ ~paused /\ ~Closed
  /\ OpenDownloads(h) < PieceCap
  /\ EndgameActive /\ OpenCopies(h) < CopyLimit
  /\ p \in InFlight /\ CanRequest(h, p) /\ ~Holds(h, p)
  /\ copies' = [copies EXCEPT ![h][p] = @ + 1]
  /\ UNCHANGED <<storageVars, sessionVars, pc, owns, choked, rejected,
                 connClosed, outbox, queue, workerVars, seedVars, verifyVars,
                 faults, handedBack>>

\* The pump stops: window full, bandwidth or budget short, nothing to pick, or
\* an empty pick is still cached (noPick).
PumpDone(h) ==
  /\ pc[h] = "pump"
  /\ Goto(h, "wait")
  /\ UNCHANGED <<storageVars, sessionVars, owns, copies, choked, rejected,
                 connClosed, outbox, queue, workerVars, seedVars, verifyVars,
                 faults, handedBack>>

-----------------------------------------------------------------------------
(* The write queue.                                                        *)

QueueHasRoom == Len(queue) < QueueDepth

Enqueue(h) ==
  /\ pc[h] = "send"
  /\ QueueHasRoom
  /\ queue' = Append(queue, outbox[h])
  /\ outbox' = [outbox EXCEPT ![h] = AnyJob]
  /\ Goto(h, "drop")
  /\ UNCHANGED <<storageVars, sessionVars, owns, copies, choked, rejected,
                 connClosed, workerVars, seedVars, verifyVars, faults,
                 handedBack>>

\* A loop blocked on a full queue returns once the session is cancelled; it
\* skips the release at the end of the loop.
EnqueueAborted(h) ==
  /\ pc[h] = "send"
  /\ CtxDone
  /\ owns' = [owns EXCEPT ![h] = NoDownloads]
  /\ copies' = [copies EXCEPT ![h] = NoDownloads]
  /\ outbox' = [outbox EXCEPT ![h] = AnyJob]
  /\ Goto(h, "down")
  /\ UNCHANGED <<storageVars, sessionVars, choked, rejected, connClosed,
                 queue, workerVars, seedVars, verifyVars, faults, handedBack>>

-----------------------------------------------------------------------------
(* pieceWriteWorker and processCompletedPiece.  The check, the hash and    *)
(* the write, and the final state change are separate: only the first and  *)
(* the last hold Session.mu.                                               *)

Step(w, step) == wpc' = [wpc EXCEPT ![w] = step]

\* sendResult: only a webseed's job carries a result channel.
SendResult(w, result) ==
  sres' = IF wjob[w].src \in WebSeed
          THEN [sres EXCEPT ![wjob[w].src] = result] ELSE sres

Finish(w, result) ==
  /\ Step(w, "idle")
  /\ wjob' = [wjob EXCEPT ![w] = AnyJob]
  /\ SendResult(w, result)

TakeJob(w) ==
  /\ wpc[w] = "idle"
  /\ queue # <<>>
  /\ queue' = Tail(queue)
  /\ wjob' = [wjob EXCEPT ![w] = Head(queue)]
  /\ Step(w, "check")
  /\ UNCHANGED <<storageVars, sessionVars, peerVars, seedVars, verifyVars,
                 faults, handedBack>>

SkipJob(w) ==
  /\ wpc[w] = "check"
  /\ Closing \/ pieceState[wjob[w].piece] = "Completed"
  /\ Finish(w, "skipped")
  /\ UNCHANGED <<storageVars, sessionVars, peerVars, queue, spc, sjob,
                 verifyVars, faults, handedBack>>

AcceptJob(w) ==
  /\ wpc[w] = "check"
  /\ ~Closing /\ pieceState[wjob[w].piece] # "Completed"
  /\ Step(w, "hash")
  /\ UNCHANGED <<storageVars, sessionVars, peerVars, queue, wjob, seedVars,
                 verifyVars, faults, handedBack>>

\* sha1.Sum(job.data) = job.hash, and the same without the check.
AnyHash(job) == job.good \in BOOLEAN
HashMatches(job) == job.good

\* A corrupt piece goes back to the pool, whoever holds it now, and the
\* connection that supplied it is closed; by now the peer may be on a new one.
HashFailed(w) ==
  LET j == wjob[w] IN
  /\ wpc[w] = "hash" /\ ~HashMatches(j)
  /\ pieceState' = ReturnToPool({j.piece})
  /\ handedBack' = TRUE
  /\ \/ connClosed' = connClosed
     \/ j.src \in Peer /\ connClosed' = [connClosed EXCEPT ![j.src] = TRUE]
  /\ Finish(w, "failed")
  /\ UNCHANGED <<storageVars, wanted, paused, life, pc, owns, copies, choked,
                 rejected, outbox, queue, spc, sjob, verifyVars, faults>>

WriteSucceeds(w) ==
  /\ wpc[w] = "hash" /\ HashMatches(wjob[w])
  /\ ~storageClosed
  /\ Step(w, IF NeedsRepair THEN "repair" ELSE "mark")
  /\ WriteBlock(wjob[w].piece, wjob[w].good)
  /\ UNCHANGED <<sessionVars, peerVars, queue, wjob, seedVars, verifyVars,
                 faults, handedBack>>

\* Either the file cannot be opened, or it is opened (and repaired) and the
\* write itself fails.
WriteFails(w) ==
  /\ wpc[w] = "hash" /\ HashMatches(wjob[w])
  /\ ~storageClosed
  /\ Fault
  /\ UNCHANGED storageVars \/ WriteBlockFails
  /\ Step(w, "fail")
  /\ UNCHANGED <<sessionVars, peerVars, queue, wjob, seedVars, verifyVars,
                 handedBack>>

WriteRefused(w) ==
  /\ wpc[w] = "hash" /\ HashMatches(wjob[w])
  /\ storageClosed
  /\ Finish(w, "closed")
  /\ UNCHANGED <<storageVars, sessionVars, peerVars, queue, spc, sjob,
                 verifyVars, faults, handedBack>>

\* A completion that leaves the piece as it was.
MarkedNothing(p) == Set(p, pieceState[p])
Marked(p) == Set(p, "Completed")

MarkPieceCompleted(w) ==
  /\ wpc[w] = "mark"
  /\ pieceState' = Marked(wjob[w].piece)
  /\ Finish(w, "completed")
  /\ UNCHANGED <<storageVars, wanted, paused, life, peerVars, queue, spc,
                 sjob, verifyVars, faults, handedBack>>

\* resetProgressAfterStorageRepair.
ResetProgress(w) ==
  /\ wpc[w] = "repair"
  /\ pieceState' =
       [p \in Piece |-> IF p = wjob[w].piece THEN "Completed" ELSE "Empty"]
  /\ handedBack' = TRUE
  /\ Finish(w, "completed")
  /\ UNCHANGED <<storageVars, wanted, paused, life, peerVars, queue, spc,
                 sjob, verifyVars, faults>>

StorageFailed(w) ==
  /\ wpc[w] = "fail"
  /\ pieceState' = ReturnToPool({wjob[w].piece})
  /\ handedBack' = TRUE
  /\ Finish(w, "failed")
  /\ UNCHANGED <<storageVars, wanted, paused, life, peerVars, queue, spc,
                 sjob, verifyVars, faults>>

-----------------------------------------------------------------------------
(* Webseed workers: claim, fetch the whole piece, queue it, await the      *)
(* result.                                                                 *)

SeedStep(s, step) == spc' = [spc EXCEPT ![s] = step]

SeedMayClaim == ~Closed /\ ~paused /\ vmode # "full"

SeedClaims(s, p, own) ==
  /\ spc[s] = "idle"
  /\ SeedMayClaim /\ ~IsCompleted
  /\ IF own
     THEN p \in Needed /\ pieceState' = Set(p, "Downloading")
     ELSE EndgameActive /\ p \in InFlight /\ pieceState' = pieceState
  /\ \E good \in BOOLEAN :
       /\ IF good THEN faults' = faults ELSE Fault
       /\ sjob' = [sjob EXCEPT ![s] =
                     [piece |-> p, src |-> s, own |-> own, good |-> good]]
  /\ SeedStep(s, "fetch")
  /\ UNCHANGED <<storageVars, wanted, paused, life, peerVars, queue,
                 workerVars, sres, verifyVars, handedBack>>

\* The worker leaves for good when the torrent is complete or closing.
SeedExits(s) ==
  /\ spc[s] = "idle"
  /\ (SeedMayClaim /\ IsCompleted) \/ CtxDone
  /\ SeedStep(s, "exited")
  /\ UNCHANGED <<storageVars, sessionVars, peerVars, queue, workerVars, sjob,
                 sres, verifyVars, faults, handedBack>>

SeedFetched(s) ==
  /\ spc[s] = "fetch"
  /\ SeedStep(s, "send")
  /\ UNCHANGED <<storageVars, sessionVars, peerVars, queue, workerVars, sjob,
                 sres, verifyVars, faults, handedBack>>

\* releaseWebseedPiece leaves an endgame copy to its owner.
SeedReleases(s) ==
  pieceState' = IF sjob[s].own THEN ReturnToPool({sjob[s].piece})
                ELSE pieceState

\* The fetch fails, or stops because of a pause or the end of the session.
SeedFetchFailed(s) ==
  /\ spc[s] = "fetch"
  /\ \/ (paused \/ Closed \/ CtxDone) /\ faults' = faults
     \/ Fault
  /\ SeedReleases(s)
  /\ sjob' = [sjob EXCEPT ![s] = AnyJob]
  /\ SeedStep(s, IF CtxDone THEN "exited" ELSE "idle")
  /\ UNCHANGED <<storageVars, wanted, paused, life, peerVars, queue,
                 workerVars, sres, verifyVars, handedBack>>

SeedEnqueues(s) ==
  /\ spc[s] = "send"
  /\ QueueHasRoom
  /\ queue' = Append(queue, sjob[s])
  /\ sres' = [sres EXCEPT ![s] = "none"]
  /\ SeedStep(s, "await")
  /\ UNCHANGED <<storageVars, sessionVars, peerVars, workerVars, sjob,
                 verifyVars, faults, handedBack>>

SeedEnqueueAborted(s) ==
  /\ spc[s] = "send"
  /\ CtxDone
  /\ SeedReleases(s)
  /\ sjob' = [sjob EXCEPT ![s] = AnyJob]
  /\ SeedStep(s, "exited")
  /\ UNCHANGED <<storageVars, wanted, paused, life, peerVars, queue,
                 workerVars, sres, verifyVars, faults, handedBack>>

\* A skipped job is released; one refused by a closed storage ends the worker.
SeedResult(s) ==
  /\ spc[s] = "await"
  /\ sres[s] # "none"
  /\ IF sres[s] \in {"skipped", "closed"} THEN SeedReleases(s)
     ELSE pieceState' = pieceState
  /\ sjob' = [sjob EXCEPT ![s] = AnyJob]
  /\ sres' = [sres EXCEPT ![s] = "none"]
  /\ SeedStep(s, IF sres[s] = "closed" THEN "exited" ELSE "idle")
  /\ UNCHANGED <<storageVars, wanted, paused, life, peerVars, queue,
                 workerVars, verifyVars, faults, handedBack>>

SeedAwaitAborted(s) ==
  /\ spc[s] = "await"
  /\ CtxDone
  /\ SeedStep(s, "exited")
  /\ UNCHANGED <<storageVars, sessionVars, peerVars, queue, workerVars, sjob,
                 sres, verifyVars, faults, handedBack>>

-----------------------------------------------------------------------------
(* Background verification (runVerification, finishVerify).                *)

VerifyStart ==
  /\ vpc = "start"
  /\ ~Closed
  /\ toCheck' = {p \in Piece : pieceState[p] =
                   IF vmode = "full" THEN "Empty" ELSE "Unverified"}
  /\ vpc' = "next"
  /\ UNCHANGED <<storageVars, sessionVars, peerVars, queue, workerVars,
                 seedVars, vmode, vpiece, vok, faults, handedBack>>

\* A full scan passes over a piece the downloader has claimed meanwhile.
VerifySkip(p) ==
  /\ vpc = "next" /\ p \in toCheck
  /\ ~CtxDone
  /\ vmode = "full" /\ pieceState[p] # "Empty"
  /\ toCheck' = toCheck \ {p}
  /\ UNCHANGED <<storageVars, sessionVars, peerVars, queue, workerVars,
                 seedVars, vmode, vpc, vpiece, vok, faults, handedBack>>

\* VerifyPiece reads the piece without Session.mu; a read may also fail.
VerifyRead(p) ==
  /\ vpc = "next" /\ p \in toCheck
  /\ ~CtxDone /\ ~storageClosed
  /\ vmode = "full" => pieceState[p] = "Empty"
  /\ \/ vok' = VerifiesOk(p) /\ faults' = faults
     \/ vok' = FALSE /\ Fault
  /\ OpenReader
  /\ vpiece' = p
  /\ toCheck' = toCheck \ {p}
  /\ vpc' = "apply"
  /\ UNCHANGED <<sessionVars, peerVars, queue, workerVars, seedVars, vmode,
                 handedBack>>

\* A full scan adopts a good piece only if it is still Empty.
Adopted == vok /\ pieceState[vpiece] = "Empty"

VerifyApply ==
  /\ vpc = "apply"
  /\ ~Closed
  /\ pieceState' =
       IF vmode = "full"
       THEN IF Adopted THEN Set(vpiece, "Completed") ELSE pieceState
       ELSE IF pieceState[vpiece] = "Unverified"
            THEN Set(vpiece, IF vok THEN "Completed" ELSE "Empty")
            ELSE pieceState
  /\ vpc' = "next"
  /\ UNCHANGED <<storageVars, wanted, paused, life, peerVars, queue,
                 workerVars, seedVars, vmode, toCheck, vpiece, vok, faults,
                 handedBack>>

VerifyDone ==
  /\ vpc = "next" /\ toCheck = {}
  /\ vmode' = "none"
  /\ vpc' = "off"
  /\ UNCHANGED <<storageVars, sessionVars, peerVars, queue, workerVars,
                 seedVars, toCheck, vpiece, vok, faults, handedBack>>

\* The session ended under the verifier: nothing it found is applied.
VerifyStops ==
  /\ vpc # "off"
  /\ Closed \/ (CtxDone /\ vpc = "next")
  /\ vpc' = "off"
  /\ UNCHANGED <<storageVars, sessionVars, peerVars, queue, workerVars,
                 seedVars, vmode, toCheck, vpiece, vok, faults, handedBack>>

-----------------------------------------------------------------------------
(* The user: pause, resume, file selection, close.                         *)

Connected(h) == pc[h] # "down"

Pause ==
  /\ ~paused
  /\ Fault
  /\ paused' = TRUE
  /\ connClosed' = [h \in Peer |-> connClosed[h] \/ Connected(h)]
  /\ UNCHANGED <<storageVars, pieceState, wanted, life, pc, owns, copies,
                 choked, rejected, outbox, queue, workerVars, seedVars,
                 verifyVars, handedBack>>

Resume ==
  /\ paused
  /\ paused' = FALSE
  /\ UNCHANGED <<storageVars, pieceState, wanted, life, peerVars, queue,
                 workerVars, seedVars, verifyVars, faults, handedBack>>

\* Skipping the files of a piece, or selecting them again; a piece in flight
\* stays in flight.
SetFilePriority(p) ==
  /\ Fault
  /\ \/ wanted' = wanted \ {p}
     \/ wanted' = wanted \cup {p}
  /\ wanted' # wanted
  /\ UNCHANGED <<storageVars, pieceState, paused, life, peerVars, queue,
                 workerVars, seedVars, verifyVars, handedBack>>

BeginClose ==
  /\ life = "open"
  /\ Fault
  /\ life' = "closing"
  /\ connClosed' = [h \in Peer |-> connClosed[h] \/ Connected(h)]
  /\ UNCHANGED <<storageVars, pieceState, wanted, paused, pc, owns, copies,
                 choked, rejected, outbox, queue, workerVars, seedVars,
                 verifyVars, handedBack>>

CancelContext ==
  /\ life = "closing"
  /\ life' = "cancelled"
  /\ UNCHANGED <<storageVars, pieceState, wanted, paused, peerVars, queue,
                 workerVars, seedVars, verifyVars, faults, handedBack>>

FinishClose ==
  /\ life = "cancelled"
  /\ life' = "closed"
  /\ vmode' = "none"
  /\ UNCHANGED <<storageVars, pieceState, wanted, paused, peerVars, queue,
                 workerVars, seedVars, vpc, toCheck, vpiece, vok, faults,
                 handedBack>>

ReleaseStorage ==
  /\ Closed /\ ~storageClosed
  /\ CloseStorage
  /\ UNCHANGED <<sessionVars, peerVars, queue, workerVars, seedVars,
                 verifyVars, faults, handedBack>>

\* Handle eviction and file loss, outside the session.
StorageStep ==
  /\ EvictReader \/ EvictWriter \/ LoseFile
  /\ UNCHANGED <<sessionVars, peerVars, queue, workerVars, seedVars,
                 verifyVars, faults, handedBack>>

-----------------------------------------------------------------------------
PeerNext(h) ==
  \/ Connect(h) \/ Disconnect(h) \/ Choke(h) \/ Unchoke(h)
  \/ OtherMessage(h) \/ KeepAlive(h)
  \/ DropCompletedElsewhere(h) \/ PumpDone(h)
  \/ Enqueue(h) \/ EnqueueAborted(h)
  \/ \E p \in Piece :
       \/ ClaimPiece(h, p) \/ CopyPiece(h, p)
       \/ \E own \in BOOLEAN :
            \/ RejectRequest(h, p, own)
            \/ \E good \in BOOLEAN : LastBlock(h, p, own, good)

WorkerNext(w) ==
  \/ TakeJob(w) \/ SkipJob(w) \/ AcceptJob(w)
  \/ HashFailed(w) \/ WriteSucceeds(w) \/ WriteFails(w) \/ WriteRefused(w)
  \/ MarkPieceCompleted(w) \/ ResetProgress(w) \/ StorageFailed(w)

SeedNext(s) ==
  \/ \E p \in Piece, own \in BOOLEAN : SeedClaims(s, p, own)
  \/ SeedExits(s) \/ SeedFetched(s) \/ SeedFetchFailed(s)
  \/ SeedEnqueues(s) \/ SeedEnqueueAborted(s)
  \/ SeedResult(s) \/ SeedAwaitAborted(s)

VerifyNext ==
  \/ VerifyStart \/ VerifyApply \/ VerifyDone \/ VerifyStops
  \/ \E p \in Piece : VerifySkip(p) \/ VerifyRead(p)

SessionNext ==
  \/ Pause \/ Resume \/ BeginClose \/ CancelContext \/ FinishClose
  \/ ReleaseStorage \/ StorageStep
  \/ \E p \in Piece : SetFilePriority(p)

Next ==
  \/ \E h \in Peer : PeerNext(h)
  \/ \E w \in Worker : WorkerNext(w)
  \/ \E s \in WebSeed : SeedNext(s)
  \/ VerifyNext
  \/ SessionNext

Spec == Init /\ [][Next]_vars

-----------------------------------------------------------------------------
(* Properties.                                                             *)

\* A finished copy of p is on its way to a worker, or with one.
Submitted(p) ==
  \/ \E h \in Peer : pc[h] = "send" /\ outbox[h].piece = p
  \/ \E i \in DOMAIN queue : queue[i].piece = p
  \/ \E w \in Worker : wpc[w] # "idle" /\ wjob[w].piece = p

SeedOwns(s, p) ==
  spc[s] \in {"fetch", "send"} /\ sjob[s].own /\ sjob[s].piece = p

Claimed(p) ==
  \/ \E h \in Peer : owns[h][p] > 0
  \/ \E s \in WebSeed : SeedOwns(s, p)
  \/ Submitted(p)

NoOrphanedClaim ==
  ~Closing => \A p \in Piece : pieceState[p] = "Downloading" => Claimed(p)

CompletedOnDisk ==
  losses = 0 =>
    \A p \in Piece : pieceState[p] = "Completed" => p \in content[1]

\* Until Close begins, a piece is marked Downloading only while somebody who
\* will take it out of that state still has it: an open claiming download
\* (peer_conn.go activeDownloads, webseed.go webseedPiece) or a job in the
\* write pool.  A claim nobody holds would never be handed out again.  And as
\* long as nothing outside deletes the payload, a Completed piece (one we
\* advertise and serve) has its hash-correct bytes in the file, whatever the
\* order of writes, verification, releases and hash failures (resume.go).
PiecesAreKept == TypeOK /\ NoOrphanedClaim /\ CompletedOnDisk

\* Who holds a claim of p that no worker has resolved yet.
LoopOwns(h, p) == owns[h][p] > 0
SendOwns(h, p) == pc[h] = "send" /\ outbox[h].own /\ outbox[h].piece = p
QueueOwns(i, p) == queue[i].own /\ queue[i].piece = p
PoolOwns(w, p) == wpc[w] # "idle" /\ wjob[w].own /\ wjob[w].piece = p

Owners(p) ==
  ({"loop"} \X {h \in Peer : LoopOwns(h, p)})
  \cup ({"send"} \X {h \in Peer : SendOwns(h, p)})
  \cup ({"queue"} \X {i \in DOMAIN queue : QueueOwns(i, p)})
  \cup ({"pool"} \X {w \in Worker : PoolOwns(w, p)})
  \cup ({"fetch"} \X {s \in WebSeed : SeedOwns(s, p)})

\* Endgame copies aside, a piece is downloaded by one claimant at a time until
\* a worker first hands a piece back (a corrupt copy, a failed write, a
\* repair): choke, reject, disconnect and pause never let two peers own it.
SoleOwner ==
  ~handedBack =>
    \A p \in Piece : /\ \A h \in Peer : owns[h][p] <= 1
                     /\ \A c, d \in Owners(p) : c = d

\* Without a file loss a Completed piece stays Completed: a late release, a
\* late corrupt copy or a late verification never takes it back.
CompletedStays ==
  [][losses' = 0 =>
       \A p \in Piece : pieceState[p] = "Completed"
                          => pieceState'[p] = "Completed"]_vars

\* storage.go:26 says that after a write had to recreate the file "callers
\* should re-verify completed pieces": once the file exists again and no
\* repair is still to be acted on, every Completed piece is in the file.
RepairForgetsLostPieces ==
  onDisk # 0 /\ (\A w \in Worker : wpc[w] # "repair") =>
    \A p \in Piece : pieceState[p] = "Completed" => p \in content[onDisk]

-----------------------------------------------------------------------------
(* Liveness.  The loops keep running and the pool keeps working until the  *)
(* context is cancelled; a loop told to stop stops; peers keep being       *)
(* redialled.  Strong fairness where the loop only passes through the      *)
(* state: a peer that serves nothing is dropped (a fault) after its        *)
(* request timeouts, so one that stays eventually unchokes us and delivers *)
(* good blocks; and an empty pick is retried after pickRetryInterval, so   *)
(* a pump that could open a piece eventually does.                         *)

Stop(h) == MustStop(h) /\ Disconnect(h)

PeerFairness(h) ==
  /\ WF_vars(Connect(h)) /\ SF_vars(Stop(h)) /\ SF_vars(Unchoke(h))
  /\ WF_vars(KeepAlive(h)) /\ WF_vars(DropCompletedElsewhere(h))
  /\ WF_vars(PumpDone(h)) /\ WF_vars(Enqueue(h))
  /\ SF_vars(\E p \in Piece, own \in BOOLEAN : LastBlock(h, p, own, TRUE))
  /\ SF_vars(\E p \in Piece : ClaimPiece(h, p) \/ CopyPiece(h, p))

WorkerFairness(w) ==
  /\ WF_vars(~CtxDone /\ TakeJob(w))
  /\ WF_vars(WorkerNext(w) /\ wpc[w] # "idle")

SeedFairness(s) ==
  /\ WF_vars(SeedNext(s))

VerifyFairness == WF_vars(VerifyNext)

Fairness ==
  /\ \A h \in Peer : PeerFairness(h)
  /\ \A w \in Worker : WorkerFairness(w)
  /\ \A s \in WebSeed : SeedFairness(s)
  /\ VerifyFairness

FairSpec == Spec /\ Fairness

DownloadCompletes == <>[](paused \/ Closing \/ IsCompleted)

PauseDrains ==
  paused ~> (~paused \/ Closing
             \/ \A p \in Piece : pieceState[p] # "Downloading")

\* The download finishes: unless it ends up paused or closed, every wanted
\* piece is Completed for good, through any bounded number of chokes, rejects,
\* disconnects, corrupt pieces and failed writes.  And a pause drains it: every
\* piece that was Downloading is completed or back in the pool unless the
\* session is resumed or closed first.
DownloadSettles == DownloadCompletes /\ PauseDrains
=============================================================================
