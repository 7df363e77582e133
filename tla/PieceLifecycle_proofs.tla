------------------------ MODULE PieceLifecycle_proofs ------------------------
(***************************************************************************)
(* Theorems about PieceLifecycle, for any pieces, peers, webseed workers,  *)
(* write workers and bounds.                                               *)
(***************************************************************************)
EXTENDS PieceLifecycle, TLAPS

-----------------------------------------------------------------------------
(* Typing.                                                                 *)

\* There are pieces and somebody to download them, so there are jobs.
LEMMA AnyJobType == AnyJob \in Job
<1>1. PICK p \in Piece, src \in Peer \cup WebSeed : TRUE
  BY PeersAssumption
<1>2. [piece |-> p, src |-> src, own |-> TRUE, good |-> TRUE] \in Job
  BY <1>1 DEF Job
<1> QED
  BY <1>2 DEF AnyJob

\* A session starts well typed.
LEMMA InitTypeOK == Init => TypeOK
<1> SUFFICES ASSUME Init PROVE TypeOK
  OBVIOUS
<1>1. StorageTypeOK
  <2>1. PICK present \in SUBSET Piece : StorageInit(present)
    BY DEF Init, InitResume, InitFullScan
  <2>2. content \in [Inode -> SUBSET Piece]
    BY <2>1 DEF StorageInit
  <2>3. 0 \in Handle /\ 1 \in Handle /\ 0 \in 0 .. MaxLosses
    BY LossesAssumption DEF Handle
  <2> QED
    BY <2>1, <2>2, <2>3 DEF StorageInit, StorageTypeOK
<1>2. /\ pieceState \in [Piece -> PieceState]
      /\ vmode \in {"none", "resume", "full"}
  BY DEF Init, InitResume, InitFullScan, Checkpoint, PieceState
<1>3. SessionTypeOK /\ VerifyTypeOK
  BY <1>2, PeersAssumption DEF Init, Idle, SessionTypeOK, VerifyTypeOK
<1>4. PeerTypeOK
  BY AnyJobType DEF Init, Idle, PeerTypeOK
<1>5. WorkerTypeOK
  BY AnyJobType DEF Init, Idle, WorkerTypeOK
<1>7. SeedTypeOK
  BY AnyJobType DEF Init, Idle, SeedTypeOK
<1>6. QueueTypeOK /\ HistoryTypeOK
  <2>1. queue = <<>> /\ faults = 0 /\ handedBack = FALSE
    BY DEF Init, Idle
  <2>2. QueueTypeOK
    <3>1. Len(<<>>) = 0 /\ 0 <= QueueDepth /\ <<>> \in Seq(Job)
      BY BoundsAssumption
    <3> QED
      BY <2>1, <3>1 DEF QueueTypeOK
  <2>3. 0 \in 0 .. MaxFaults
    BY BoundsAssumption
  <2> QED
    BY <2>1, <2>2, <2>3 DEF HistoryTypeOK
<1> QED
  BY <1>1, <1>3, <1>4, <1>5, <1>6, <1>7 DEF TypeOK

-----------------------------------------------------------------------------
(* What a step leaves alone keeps its type.                                *)

\* Part by part: unchanged variables keep their types.
LEMMA Frames ==
  /\ StorageTypeOK /\ UNCHANGED storageVars => StorageTypeOK'
  /\ SessionTypeOK /\ UNCHANGED sessionVars => SessionTypeOK'
  /\ PeerTypeOK /\ UNCHANGED peerVars => PeerTypeOK'
  /\ QueueTypeOK /\ UNCHANGED queue => QueueTypeOK'
  /\ WorkerTypeOK /\ UNCHANGED workerVars => WorkerTypeOK'
  /\ SeedTypeOK /\ UNCHANGED seedVars => SeedTypeOK'
  /\ VerifyTypeOK /\ UNCHANGED verifyVars => VerifyTypeOK'
<1>1. StorageTypeOK /\ UNCHANGED storageVars => StorageTypeOK'
  BY DEF storageVars, StorageTypeOK
<1>2. SessionTypeOK /\ UNCHANGED sessionVars => SessionTypeOK'
  BY DEF sessionVars, SessionTypeOK
<1>3. PeerTypeOK /\ UNCHANGED peerVars => PeerTypeOK'
  BY DEF peerVars, PeerTypeOK
<1>4. QueueTypeOK /\ UNCHANGED queue => QueueTypeOK'
  BY DEF QueueTypeOK
<1>5. WorkerTypeOK /\ UNCHANGED workerVars => WorkerTypeOK'
  BY DEF workerVars, WorkerTypeOK
<1>6. SeedTypeOK /\ UNCHANGED seedVars => SeedTypeOK'
  BY DEF seedVars, SeedTypeOK
<1>7. VerifyTypeOK /\ UNCHANGED verifyVars => VerifyTypeOK'
  BY DEF verifyVars, VerifyTypeOK
<1> QED
  BY <1>1, <1>2, <1>3, <1>4, <1>5, <1>6, <1>7

\* Releasing pieces leaves a state for every piece.
LEMMA ReturnTyping ==
  ASSUME TypeOK, NEW ps
  PROVE  ReturnToPool(ps) \in [Piece -> PieceState]
  BY DEF ReturnToPool, TypeOK, SessionTypeOK, PieceState

\* Faults are counted up to the bound.
LEMMA FaultTyping ==
  ASSUME TypeOK, Fault \/ faults' = faults
  PROVE  faults' \in 0 .. MaxFaults
  BY BoundsAssumption DEF Fault, TypeOK, HistoryTypeOK

-----------------------------------------------------------------------------
(* Storage steps.                                                          *)

\* A write goes to an inode that exists.
LEMMA WriteInodeType == StorageTypeOK => WriteInode \in Inode \cap Handle
  BY LossesAssumption DEF StorageTypeOK, WriteInode, Inode, Handle

\* Every step of the storage keeps handles and contents typed.
LEMMA StorageTyping ==
  ASSUME StorageTypeOK,
         \/ EvictReader \/ EvictWriter \/ LoseFile \/ OpenReader \/ CloseStorage
         \/ \E p \in Piece, correct \in BOOLEAN : WriteBlock(p, correct)
         \/ WriteBlockFails
  PROVE  StorageTypeOK'
<1>1. 0 \in Handle
  BY LossesAssumption DEF Handle
<1>2. CASE EvictReader \/ EvictWriter
  BY <1>1, <1>2 DEF EvictReader, EvictWriter, StorageTypeOK
<1>3. CASE LoseFile
  BY <1>1, <1>3, LossesAssumption DEF LoseFile, StorageTypeOK
<1>4. CASE OpenReader
  BY <1>4 DEF OpenReader, StorageTypeOK
<1>5. CASE CloseStorage
  BY <1>1, <1>5 DEF CloseStorage, StorageTypeOK
<1>6. OpenWriter => /\ onDisk' \in Handle
                    /\ readHandle' \in Handle
                    /\ writeHandle' \in Handle
  BY <1>1, WriteInodeType DEF OpenWriter, StorageTypeOK
<1>7. ASSUME NEW p \in Piece, NEW correct \in BOOLEAN, WriteBlock(p, correct)
      PROVE  StorageTypeOK'
  BY <1>6, <1>7 DEF WriteBlock, StorageTypeOK
<1>8. CASE WriteBlockFails
  BY <1>6, <1>8 DEF WriteBlockFails, StorageTypeOK
<1> QED
  BY <1>2, <1>3, <1>4, <1>5, <1>7, <1>8

-----------------------------------------------------------------------------
(* Peer loops.                                                             *)

\* Closing a download never takes a counter below zero.
LEMMA ClosedTyping ==
  ASSUME TypeOK, NEW h \in Peer, NEW p \in Piece, NEW own \in BOOLEAN,
         CloseOne(h, p, own)
  PROVE  /\ owns' \in [Peer -> [Piece -> Nat]]
         /\ copies' \in [Peer -> [Piece -> Nat]]
<1>1. /\ owns \in [Peer -> [Piece -> Nat]]
      /\ copies \in [Peer -> [Piece -> Nat]]
  BY DEF TypeOK, PeerTypeOK
<1>2. owns[h][p] \in Nat /\ copies[h][p] \in Nat
  BY <1>1
<1>3. CASE own
  <2>1. owns[h][p] - 1 \in Nat
    BY <1>2, <1>3 DEF CloseOne
  <2>2. [owns[h] EXCEPT ![p] = owns[h][p] - 1] \in [Piece -> Nat]
    BY <1>1, <2>1
  <2> QED
    BY <1>1, <1>3, <2>2 DEF CloseOne
<1>4. CASE ~own
  <2>1. copies[h][p] - 1 \in Nat
    BY <1>2, <1>4 DEF CloseOne
  <2>2. [copies[h] EXCEPT ![p] = copies[h][p] - 1] \in [Piece -> Nat]
    BY <1>1, <2>1
  <2> QED
    BY <1>1, <1>4, <2>2 DEF CloseOne
<1> QED
  BY <1>3, <1>4

\* The steps of a peer loop, one case each.
LEMMA PeerTyping ==
  ASSUME TypeOK, NEW h \in Peer, PeerNext(h)
  PROVE  TypeOK'
<1> USE Frames DEF TypeOK, Goto
<1>1. CASE Connect(h)
  BY <1>1 DEF Connect, PeerTypeOK, HistoryTypeOK
<1>2. CASE Disconnect(h)
  <2>1. SessionTypeOK'
    BY <1>2, ReturnTyping DEF Disconnect, SessionTypeOK
  <2>2. HistoryTypeOK'
    BY <1>2, FaultTyping DEF Disconnect, HistoryTypeOK
  <2>3. PeerTypeOK'
    BY <1>2 DEF Disconnect, PeerTypeOK, NoDownloads
  <2> QED
    BY <1>2, <2>1, <2>2, <2>3 DEF Disconnect
<1>3. CASE Choke(h)
  <2>1. SessionTypeOK'
    BY <1>3, ReturnTyping DEF Choke, SessionTypeOK
  <2>2. HistoryTypeOK'
    BY <1>3, FaultTyping DEF Choke, HistoryTypeOK
  <2>3. PeerTypeOK'
    BY <1>3 DEF Choke, PeerTypeOK, NoDownloads
  <2> QED
    BY <1>3, <2>1, <2>2, <2>3 DEF Choke
<1>4. CASE Unchoke(h)
  BY <1>4 DEF Unchoke, PeerTypeOK, HistoryTypeOK
<1>5. CASE OtherMessage(h)
  BY <1>5 DEF OtherMessage, PeerTypeOK, HistoryTypeOK
<1>6. CASE KeepAlive(h)
  BY <1>6 DEF KeepAlive, PeerTypeOK, HistoryTypeOK
<1>7. CASE PumpDone(h)
  BY <1>7 DEF PumpDone, PeerTypeOK, HistoryTypeOK
<1>8. CASE DropCompletedElsewhere(h)
  BY <1>8 DEF DropCompletedElsewhere, PeerTypeOK, HistoryTypeOK
<1>9. CASE Enqueue(h)
  <2>1. outbox[h] \in Job
    BY DEF PeerTypeOK
  <2>2. QueueTypeOK'
    BY <1>9, <2>1, BoundsAssumption DEF Enqueue, QueueHasRoom, QueueTypeOK
  <2> QED
    BY <1>9, <2>2, AnyJobType DEF Enqueue, PeerTypeOK, HistoryTypeOK
<1>10. CASE EnqueueAborted(h)
  BY <1>10, AnyJobType DEF EnqueueAborted, PeerTypeOK, HistoryTypeOK, NoDownloads
<1>11. ASSUME NEW p \in Piece, ClaimPiece(h, p)
       PROVE  TypeOK'
  BY <1>11
  DEF ClaimPiece, Set, PieceState, SessionTypeOK, PeerTypeOK, HistoryTypeOK
<1>12. ASSUME NEW p \in Piece, CopyPiece(h, p)
       PROVE  TypeOK'
  BY <1>12 DEF CopyPiece, PeerTypeOK, HistoryTypeOK
<1>13. ASSUME NEW p \in Piece, NEW own \in BOOLEAN, RejectRequest(h, p, own)
       PROVE  TypeOK'
  <2>1. SessionTypeOK'
    BY <1>13, ReturnTyping DEF RejectRequest, SessionTypeOK
  <2>2. HistoryTypeOK'
    BY <1>13, FaultTyping DEF RejectRequest, HistoryTypeOK
  <2>3. PeerTypeOK'
    BY <1>13, ClosedTyping DEF RejectRequest, PeerTypeOK
  <2> QED
    BY <1>13, <2>1, <2>2, <2>3 DEF RejectRequest
<1>14. ASSUME NEW p \in Piece, NEW own \in BOOLEAN, NEW good \in BOOLEAN,
              LastBlock(h, p, own, good)
       PROVE  TypeOK'
  <2>1. [piece |-> p, src |-> h, own |-> own, good |-> good] \in Job
    BY DEF Job
  <2>2. HistoryTypeOK'
    BY <1>14, FaultTyping DEF LastBlock, HistoryTypeOK
  <2>3. PeerTypeOK'
    BY <1>14, <2>1, ClosedTyping DEF LastBlock, PeerTypeOK
  <2> QED
    BY <1>14, <2>2, <2>3 DEF LastBlock
<1> QED
  BY <1>1, <1>2, <1>3, <1>4, <1>5, <1>6, <1>7, <1>8, <1>9, <1>10, <1>11,
     <1>12, <1>13, <1>14 DEF PeerNext

-----------------------------------------------------------------------------
(* Write workers.                                                          *)

\* A worker that finishes is idle again and has left its verdict.
LEMMA FinishTyping ==
  ASSUME TypeOK, NEW w \in Worker,
         NEW result \in {"completed", "skipped", "closed", "failed"},
         Finish(w, result), UNCHANGED <<spc, sjob>>
  PROVE  WorkerTypeOK' /\ SeedTypeOK'
  BY AnyJobType
  DEF Finish, Step, SendResult, TypeOK, WorkerTypeOK, SeedTypeOK

\* The steps of a write worker; TakeJob needs a non-empty queue.
LEMMA WorkerTyping ==
  ASSUME TypeOK, NEW w \in Worker, WorkerNext(w)
  PROVE  TypeOK'
<1> USE Frames DEF TypeOK
<1>1. CASE TakeJob(w)
  <2>1. queue # <<>> => /\ Head(queue) \in Job
                        /\ Tail(queue) \in Seq(Job)
                        /\ Len(Tail(queue)) <= QueueDepth
    BY BoundsAssumption DEF QueueTypeOK
  <2>2. WorkerTypeOK'
    BY <1>1, <2>1 DEF TakeJob, Step, WorkerTypeOK
  <2> QED
    BY <1>1, <2>1, <2>2 DEF TakeJob, QueueTypeOK, HistoryTypeOK
<1>2. CASE SkipJob(w)
  BY <1>2, FinishTyping DEF SkipJob, HistoryTypeOK
<1>3. CASE AcceptJob(w)
  BY <1>3 DEF AcceptJob, Step, WorkerTypeOK, HistoryTypeOK
<1>4. CASE HashFailed(w)
  <2>1. WorkerTypeOK' /\ SeedTypeOK'
    BY <1>4, FinishTyping DEF HashFailed
  <2>2. SessionTypeOK'
    BY <1>4, ReturnTyping DEF HashFailed, SessionTypeOK
  <2>3. PeerTypeOK'
    BY <1>4 DEF HashFailed, PeerTypeOK
  <2> QED
    BY <1>4, <2>1, <2>2, <2>3 DEF HashFailed, HistoryTypeOK
<1>5. CASE WriteSucceeds(w)
  <2>1. wjob[w].piece \in Piece /\ wjob[w].good \in BOOLEAN
    BY DEF WorkerTypeOK, Job
  <2>2. StorageTypeOK'
    BY <1>5, <2>1, StorageTyping DEF WriteSucceeds
  <2> QED
    BY <1>5, <2>2 DEF WriteSucceeds, Step, WorkerTypeOK, HistoryTypeOK
<1>6. CASE WriteFails(w)
  <2>1. StorageTypeOK'
    BY <1>6, StorageTyping DEF WriteFails
  <2>2. HistoryTypeOK'
    BY <1>6, FaultTyping DEF WriteFails, HistoryTypeOK
  <2> QED
    BY <1>6, <2>1, <2>2 DEF WriteFails, Step, WorkerTypeOK
<1>7. CASE WriteRefused(w)
  BY <1>7, FinishTyping DEF WriteRefused, HistoryTypeOK
<1>8. CASE MarkPieceCompleted(w)
  <2>1. SessionTypeOK'
    BY <1>8
    DEF MarkPieceCompleted, Marked, Set, PieceState, SessionTypeOK
  <2> QED
    BY <1>8, <2>1, FinishTyping DEF MarkPieceCompleted, HistoryTypeOK
<1>9. CASE ResetProgress(w)
  <2>1. SessionTypeOK'
    BY <1>9 DEF ResetProgress, PieceState, SessionTypeOK
  <2> QED
    BY <1>9, <2>1, FinishTyping DEF ResetProgress, HistoryTypeOK
<1>10. CASE StorageFailed(w)
  <2>1. SessionTypeOK'
    BY <1>10, ReturnTyping DEF StorageFailed, SessionTypeOK
  <2> QED
    BY <1>10, <2>1, FinishTyping DEF StorageFailed, HistoryTypeOK
<1> QED
  BY <1>1, <1>2, <1>3, <1>4, <1>5, <1>6, <1>7, <1>8, <1>9, <1>10
  DEF WorkerNext

-----------------------------------------------------------------------------
(* Webseed workers.                                                        *)

\* The steps of a webseed worker.
LEMMA SeedTyping ==
  ASSUME TypeOK, NEW s \in WebSeed, SeedNext(s)
  PROVE  TypeOK'
<1> USE Frames DEF TypeOK, SeedStep
<1>1. SeedReleases(s) => pieceState' \in [Piece -> PieceState]
  BY ReturnTyping DEF SeedReleases, SessionTypeOK
<1>2. ASSUME NEW p \in Piece, NEW own \in BOOLEAN, SeedClaims(s, p, own)
      PROVE  TypeOK'
  <2>1. SessionTypeOK'
    BY <1>2 DEF SeedClaims, Set, PieceState, SessionTypeOK
  <2>2. HistoryTypeOK'
    BY <1>2, FaultTyping DEF SeedClaims, HistoryTypeOK
  <2>3. SeedTypeOK'
    <3>1. PICK good \in BOOLEAN :
            sjob' = [sjob EXCEPT ![s] =
                       [piece |-> p, src |-> s, own |-> own, good |-> good]]
      BY <1>2 DEF SeedClaims
    <3>2. [piece |-> p, src |-> s, own |-> own, good |-> good] \in Job
      BY DEF Job
    <3> QED
      BY <1>2, <3>1, <3>2 DEF SeedClaims, SeedTypeOK
  <2> QED
    BY <1>2, <2>1, <2>2, <2>3 DEF SeedClaims
<1>3. CASE SeedExits(s)
  BY <1>3 DEF SeedExits, SeedTypeOK, HistoryTypeOK
<1>4. CASE SeedFetched(s)
  BY <1>4 DEF SeedFetched, SeedTypeOK, HistoryTypeOK
<1>5. CASE SeedFetchFailed(s)
  <2>1. SessionTypeOK' /\ HistoryTypeOK'
    BY <1>1, <1>5, FaultTyping
    DEF SeedFetchFailed, SessionTypeOK, HistoryTypeOK
  <2> QED
    BY <1>5, <2>1, AnyJobType DEF SeedFetchFailed, SeedTypeOK
<1>6. CASE SeedEnqueues(s)
  <2>1. sjob[s] \in Job
    BY DEF SeedTypeOK
  <2>2. QueueTypeOK'
    BY <1>6, <2>1, BoundsAssumption
    DEF SeedEnqueues, QueueHasRoom, QueueTypeOK
  <2> QED
    BY <1>6, <2>2 DEF SeedEnqueues, SeedTypeOK, HistoryTypeOK
<1>7. CASE SeedEnqueueAborted(s)
  BY <1>1, <1>7, AnyJobType
  DEF SeedEnqueueAborted, SessionTypeOK, SeedTypeOK, HistoryTypeOK
<1>8. CASE SeedResult(s)
  <2>1. SessionTypeOK'
    BY <1>1, <1>8 DEF SeedResult, SessionTypeOK
  <2> QED
    BY <1>8, <2>1, AnyJobType DEF SeedResult, SeedTypeOK, HistoryTypeOK
<1>9. CASE SeedAwaitAborted(s)
  BY <1>9 DEF SeedAwaitAborted, SeedTypeOK, HistoryTypeOK
<1> QED
  BY <1>2, <1>3, <1>4, <1>5, <1>6, <1>7, <1>8, <1>9 DEF SeedNext

-----------------------------------------------------------------------------
(* Verification and the user.                                              *)

\* The steps of background verification.
LEMMA VerifyTyping ==
  ASSUME TypeOK, VerifyNext
  PROVE  TypeOK'
<1> USE Frames DEF TypeOK
<1>1. CASE VerifyStart
  BY <1>1 DEF VerifyStart, VerifyTypeOK, HistoryTypeOK
<1>2. CASE VerifyApply
  <2>1. SessionTypeOK'
    BY <1>2 DEF VerifyApply, Set, PieceState, SessionTypeOK
  <2> QED
    BY <1>2, <2>1 DEF VerifyApply, VerifyTypeOK, HistoryTypeOK
<1>3. CASE VerifyDone
  BY <1>3 DEF VerifyDone, VerifyTypeOK, HistoryTypeOK
<1>4. CASE VerifyStops
  BY <1>4 DEF VerifyStops, VerifyTypeOK, HistoryTypeOK
<1>5. ASSUME NEW p \in Piece, VerifySkip(p)
      PROVE  TypeOK'
  BY <1>5 DEF VerifySkip, VerifyTypeOK, HistoryTypeOK
<1>6. ASSUME NEW p \in Piece, VerifyRead(p)
      PROVE  TypeOK'
  <2>1. StorageTypeOK'
    BY <1>6, StorageTyping DEF VerifyRead
  <2>2. HistoryTypeOK'
    BY <1>6, FaultTyping DEF VerifyRead, HistoryTypeOK
  <2>3. vok' \in BOOLEAN
    BY <1>6 DEF VerifyRead, VerifiesOk
  <2> QED
    BY <1>6, <2>1, <2>2, <2>3 DEF VerifyRead, VerifyTypeOK
<1> QED
  BY <1>1, <1>2, <1>3, <1>4, <1>5, <1>6 DEF VerifyNext

\* The user's steps and those of the storage.
LEMMA SessionTyping ==
  ASSUME TypeOK, SessionNext
  PROVE  TypeOK'
<1> USE Frames DEF TypeOK
<1>1. CASE Pause
  <2>1. PeerTypeOK'
    BY <1>1 DEF Pause, PeerTypeOK, Connected
  <2>2. HistoryTypeOK'
    BY <1>1, FaultTyping DEF Pause, HistoryTypeOK
  <2> QED
    BY <1>1, <2>1, <2>2 DEF Pause, SessionTypeOK
<1>2. CASE Resume
  BY <1>2 DEF Resume, SessionTypeOK, HistoryTypeOK
<1>3. CASE BeginClose
  <2>1. PeerTypeOK'
    BY <1>3 DEF BeginClose, PeerTypeOK, Connected
  <2>2. HistoryTypeOK'
    BY <1>3, FaultTyping DEF BeginClose, HistoryTypeOK
  <2> QED
    BY <1>3, <2>1, <2>2 DEF BeginClose, SessionTypeOK
<1>4. CASE CancelContext
  BY <1>4 DEF CancelContext, SessionTypeOK, HistoryTypeOK
<1>5. CASE FinishClose
  BY <1>5 DEF FinishClose, SessionTypeOK, VerifyTypeOK, HistoryTypeOK
<1>6. CASE ReleaseStorage
  BY <1>6, StorageTyping DEF ReleaseStorage, HistoryTypeOK
<1>7. CASE StorageStep
  BY <1>7, StorageTyping DEF StorageStep, HistoryTypeOK
<1>8. ASSUME NEW p \in Piece, SetFilePriority(p)
      PROVE  TypeOK'
  BY <1>8, FaultTyping DEF SetFilePriority, SessionTypeOK, HistoryTypeOK
<1> QED
  BY <1>1, <1>2, <1>3, <1>4, <1>5, <1>6, <1>7, <1>8 DEF SessionNext

\* Every step keeps the types.
LEMMA NextTypeOK == TypeOK /\ [Next]_vars => TypeOK'
<1> SUFFICES ASSUME TypeOK, [Next]_vars PROVE TypeOK'
  OBVIOUS
<1>1. CASE Next
  BY <1>1, PeerTyping, WorkerTyping, SeedTyping, VerifyTyping, SessionTyping
  DEF Next
<1>2. CASE UNCHANGED vars
  BY <1>2, Frames DEF vars, TypeOK, HistoryTypeOK
<1> QED
  BY <1>1, <1>2

\* Every reachable state of the session is well typed, for any torrent, set
\* of peers, webseeds and workers: counters of open downloads stay natural,
\* the write queue stays within pieceWriteQueueDepth.
THEOREM TypeSafety == Spec => []TypeOK
  BY InitTypeOK, NextTypeOK, PTL DEF Spec

-----------------------------------------------------------------------------
(* Claims.  NoOrphanedClaim is inductive once it is known that the storage *)
(* is closed only after the session: a worker that a closed storage turns  *)
(* away drops its piece without returning it to the pool.                  *)

StorageOutlivesSession == storageClosed => Closed

ClaimInv == TypeOK /\ NoOrphanedClaim /\ StorageOutlivesSession

\* At the start nothing is in flight.
LEMMA InitClaimInv == Init => ClaimInv
<1> SUFFICES ASSUME Init PROVE ClaimInv
  OBVIOUS
<1>1. \A p \in Piece : pieceState[p] # "Downloading"
  BY DEF Init, InitResume, InitFullScan, Checkpoint
<1>2. storageClosed = FALSE
  BY DEF Init, InitResume, InitFullScan, StorageInit
<1> QED
  BY <1>1, <1>2, InitTypeOK
  DEF ClaimInv, NoOrphanedClaim, StorageOutlivesSession

\* Only ReleaseStorage closes the storage, after the session is closed.
LEMMA OutlivesStep ==
  ASSUME StorageOutlivesSession, [Next]_vars
  PROVE  StorageOutlivesSession'
<1> USE DEF StorageOutlivesSession, Closed
<1>1. ASSUME NEW h \in Peer, PeerNext(h)
      PROVE  UNCHANGED <<life, storageClosed>>
  BY <1>1
  DEF PeerNext, Connect, Disconnect, Choke, Unchoke, RejectRequest, LastBlock,
      OtherMessage, KeepAlive, DropCompletedElsewhere, ClaimPiece, CopyPiece,
      PumpDone, Enqueue, EnqueueAborted, storageVars, sessionVars
<1>2. ASSUME NEW w \in Worker, WorkerNext(w)
      PROVE  UNCHANGED <<life, storageClosed>>
  BY <1>2
  DEF WorkerNext, TakeJob, SkipJob, AcceptJob, HashFailed, WriteSucceeds,
      WriteFails, WriteRefused, MarkPieceCompleted, ResetProgress,
      StorageFailed, WriteBlock, WriteBlockFails, storageVars, sessionVars
<1>3. ASSUME NEW s \in WebSeed, SeedNext(s)
      PROVE  UNCHANGED <<life, storageClosed>>
  BY <1>3
  DEF SeedNext, SeedClaims, SeedExits, SeedFetched, SeedFetchFailed,
      SeedEnqueues, SeedEnqueueAborted, SeedResult, SeedAwaitAborted,
      storageVars, sessionVars
<1>4. CASE VerifyNext
  BY <1>4
  DEF VerifyNext, VerifyStart, VerifySkip, VerifyRead, VerifyApply,
      VerifyDone, VerifyStops, OpenReader, storageVars, sessionVars
<1>5. CASE SessionNext
  BY <1>5
  DEF SessionNext, Pause, Resume, SetFilePriority, BeginClose, CancelContext,
      FinishClose, ReleaseStorage, StorageStep, CloseStorage, EvictReader,
      EvictWriter, LoseFile, storageVars, sessionVars
<1>6. CASE UNCHANGED vars
  BY <1>6 DEF vars, storageVars, sessionVars
<1> QED
  BY <1>1, <1>2, <1>3, <1>4, <1>5, <1>6 DEF Next

\* Closing one download leaves the claims of other pieces alone.
LEMMA OtherClaimsKept ==
  ASSUME TypeOK, NEW h \in Peer, NEW q \in Piece, NEW own \in BOOLEAN,
         CloseOne(h, q, own), NEW p \in Piece, own => p # q, NEW g \in Peer
  PROVE  owns'[g][p] = owns[g][p]
<1>1. CASE own
  <2>1. owns' = [owns EXCEPT ![h][q] = @ - 1] /\ p # q
    BY <1>1 DEF CloseOne
  <2> QED
    BY <2>1 DEF TypeOK, PeerTypeOK
<1>2. CASE ~own
  BY <1>2 DEF CloseOne
<1> QED
  BY <1>1, <1>2

\* A piece in flight after a step of a peer loop still has a holder.
LEMMA PeerClaims ==
  ASSUME ClaimInv, NEW h \in Peer, PeerNext(h), NEW p \in Piece,
         ~Closing', pieceState'[p] = "Downloading"
  PROVE  Claimed(p)'
<1>1. pieceState[p] = "Downloading" /\ ~Closing => Claimed(p)
  BY DEF ClaimInv, NoOrphanedClaim
<1>2. PeerTypeOK /\ SessionTypeOK /\ QueueTypeOK
  BY DEF ClaimInv, TypeOK
<1> USE <1>1, <1>2 DEF Closing, Goto, Claimed, Submitted, SeedOwns,
                       sessionVars, workerVars, seedVars
<1>3. CASE Connect(h)
  BY <1>3 DEF Connect, PeerTypeOK
<1>4. CASE Disconnect(h)
  BY <1>4 DEF Disconnect, ReturnToPool, Releases, PeerTypeOK, SessionTypeOK
<1>5. CASE Choke(h)
  BY <1>5 DEF Choke, ReturnToPool, Releases, PeerTypeOK, SessionTypeOK
<1>6. CASE Unchoke(h)
  BY <1>6 DEF Unchoke, PeerTypeOK
<1>7. CASE OtherMessage(h) \/ KeepAlive(h) \/ PumpDone(h)
  BY <1>7 DEF OtherMessage, KeepAlive, PumpDone, PeerTypeOK
<1>8. CASE DropCompletedElsewhere(h)
  BY <1>8 DEF DropCompletedElsewhere, PeerTypeOK
<1>9. CASE Enqueue(h)
  <2>1. outbox[h] \in Job /\ queue \in Seq(Job)
    BY DEF PeerTypeOK, QueueTypeOK
  <2>2. /\ DOMAIN queue' = 1 .. Len(queue) + 1
        /\ queue'[Len(queue) + 1] = outbox[h]
        /\ \A i \in DOMAIN queue : i \in DOMAIN queue' /\ queue'[i] = queue[i]
    BY <1>9, <2>1 DEF Enqueue
  <2>3. Claimed(p)
    BY <1>9 DEF Enqueue
  <2>4. outbox[h].piece = p => Claimed(p)'
    <3>1. Len(queue) + 1 \in DOMAIN queue'
      BY <2>1, <2>2
    <3> QED
      BY <2>2, <3>1
  <2>5. ASSUME NEW g \in Peer, pc[g] = "send", outbox[g].piece = p
        PROVE  Claimed(p)'
    BY <1>9, <2>4, <2>5 DEF Enqueue, PeerTypeOK
  <2>6. \A i \in DOMAIN queue : queue[i].piece = p => Claimed(p)'
    BY <2>2
  <2> QED
    BY <1>9, <2>3, <2>5, <2>6 DEF Enqueue
<1>10. CASE EnqueueAborted(h)
  BY <1>10 DEF EnqueueAborted, CtxDone
<1>11. ASSUME NEW q \in Piece, ClaimPiece(h, q)
       PROVE  Claimed(p)'
  BY <1>11 DEF ClaimPiece, Set, PeerTypeOK, SessionTypeOK
<1>12. ASSUME NEW q \in Piece, CopyPiece(h, q)
       PROVE  Claimed(p)'
  BY <1>12 DEF CopyPiece
<1>13. ASSUME NEW q \in Piece, NEW own \in BOOLEAN, RejectRequest(h, q, own)
       PROVE  Claimed(p)'
  <2>1. pieceState[p] = "Downloading" /\ Claimed(p)
    BY <1>13 DEF RejectRequest, ReturnToPool, SessionTypeOK
  <2>2. own => p # q
    BY <1>13 DEF RejectRequest, ReturnToPool
  <2>3. \A g \in Peer : owns'[g][p] = owns[g][p]
    BY <1>13, <2>2, OtherClaimsKept DEF RejectRequest, ClaimInv
  <2> QED
    BY <1>13, <2>1, <2>3 DEF RejectRequest, PeerTypeOK
<1>14. ASSUME NEW q \in Piece, NEW own \in BOOLEAN, NEW good \in BOOLEAN,
              LastBlock(h, q, own, good)
       PROVE  Claimed(p)'
  <2>1. Claimed(p)
    BY <1>14 DEF LastBlock
  <2>2. q = p => Claimed(p)'
    BY <1>14 DEF LastBlock, PeerTypeOK
  <2>3. ASSUME q # p, NEW g \in Peer
        PROVE  owns'[g][p] = owns[g][p]
    BY <1>14, <2>3, OtherClaimsKept DEF LastBlock, ClaimInv
  <2>4. \A g \in Peer : pc[g] = "send" => pc'[g] = "send" /\ outbox'[g] = outbox[g]
    BY <1>14 DEF LastBlock, PeerTypeOK
  <2> QED
    BY <1>14, <2>1, <2>2, <2>3, <2>4 DEF LastBlock
<1> QED
  BY <1>3, <1>4, <1>5, <1>6, <1>7, <1>8, <1>9, <1>10, <1>11, <1>12, <1>13,
     <1>14 DEF PeerNext

\* The same for the write pool: a worker lets a piece go only by completing
\* it, by returning it, or because the session is closing.
LEMMA WorkerClaims ==
  ASSUME ClaimInv, NEW w \in Worker, WorkerNext(w), NEW p \in Piece,
         ~Closing', pieceState'[p] = "Downloading"
  PROVE  Claimed(p)'
<1>1. pieceState[p] = "Downloading" /\ ~Closing => Claimed(p)
  BY DEF ClaimInv, NoOrphanedClaim
<1>2. WorkerTypeOK /\ SessionTypeOK /\ QueueTypeOK
  BY DEF ClaimInv, TypeOK
<1> USE <1>1, <1>2 DEF Closing, Step, Finish, Claimed, Submitted, SeedOwns,
                       sessionVars, peerVars, seedVars
<1>3. CASE TakeJob(w)
  <2>1. queue \in Seq(Job) /\ queue # <<>>
    BY <1>3 DEF TakeJob, QueueTypeOK
  <2>2. \A i \in DOMAIN queue :
          \/ i = 1 /\ queue[i] = Head(queue)
          \/ i - 1 \in DOMAIN Tail(queue) /\ Tail(queue)[i - 1] = queue[i]
    BY <2>1
  <2>3. Head(queue).piece = p => Claimed(p)'
    BY <1>3 DEF TakeJob, WorkerTypeOK
  <2>4. \A i \in DOMAIN queue : queue[i].piece = p => Claimed(p)'
    BY <1>3, <2>2, <2>3 DEF TakeJob
  <2>5. \A v \in Worker : wpc[v] # "idle" /\ wjob[v].piece = p => Claimed(p)'
    BY <1>3 DEF TakeJob, WorkerTypeOK
  <2> QED
    BY <1>3, <2>4, <2>5 DEF TakeJob
<1>4. CASE SkipJob(w)
  BY <1>4 DEF SkipJob, WorkerTypeOK
<1>5. CASE AcceptJob(w)
  BY <1>5 DEF AcceptJob, WorkerTypeOK
<1>6. CASE HashFailed(w)
  BY <1>6 DEF HashFailed, ReturnToPool, WorkerTypeOK, SessionTypeOK
<1>7. CASE WriteSucceeds(w)
  BY <1>7 DEF WriteSucceeds, WorkerTypeOK
<1>8. CASE WriteFails(w)
  BY <1>8 DEF WriteFails, WorkerTypeOK
<1>9. CASE WriteRefused(w)
  BY <1>9 DEF WriteRefused, ClaimInv, StorageOutlivesSession, Closed
<1>10. CASE MarkPieceCompleted(w)
  BY <1>10 DEF MarkPieceCompleted, Marked, Set, WorkerTypeOK, SessionTypeOK
<1>11. CASE ResetProgress(w)
  BY <1>11 DEF ResetProgress
<1>12. CASE StorageFailed(w)
  BY <1>12 DEF StorageFailed, ReturnToPool, WorkerTypeOK, SessionTypeOK
<1> QED
  BY <1>3, <1>4, <1>5, <1>6, <1>7, <1>8, <1>9, <1>10, <1>11, <1>12
  DEF WorkerNext

\* The same for a webseed worker.
LEMMA SeedClaimsKept ==
  ASSUME ClaimInv, NEW s \in WebSeed, SeedNext(s), NEW p \in Piece,
         ~Closing', pieceState'[p] = "Downloading"
  PROVE  Claimed(p)'
<1>1. pieceState[p] = "Downloading" /\ ~Closing => Claimed(p)
  BY DEF ClaimInv, NoOrphanedClaim
<1>2. SeedTypeOK /\ SessionTypeOK /\ QueueTypeOK
  BY DEF ClaimInv, TypeOK
<1> USE <1>1, <1>2 DEF Closing, SeedStep, Claimed, Submitted, SeedOwns,
                       sessionVars, peerVars, workerVars
<1>3. ASSUME NEW q \in Piece, NEW own \in BOOLEAN, SeedClaims(s, q, own)
      PROVE  Claimed(p)'
  <2>1. PICK good \in BOOLEAN :
          sjob' = [sjob EXCEPT ![s] =
                     [piece |-> q, src |-> s, own |-> own, good |-> good]]
    BY <1>3 DEF SeedClaims
  <2>2. spc[s] = "idle" /\ spc' = [spc EXCEPT ![s] = "fetch"]
    BY <1>3 DEF SeedClaims
  <2>3. \A r \in WebSeed : SeedOwns(r, p) => SeedOwns(r, p)'
    BY <2>1, <2>2 DEF SeedTypeOK
  <2>4. own /\ p = q => SeedOwns(s, p)'
    BY <2>1, <2>2 DEF SeedTypeOK
  <2>5. pieceState[p] = "Downloading" \/ (own /\ p = q)
    BY <1>3 DEF SeedClaims, Set, SessionTypeOK
  <2>6. ~Closing
    BY <1>3 DEF SeedClaims
  <2> QED
    BY <1>3, <2>3, <2>4, <2>5, <2>6 DEF SeedClaims
<1>4. CASE SeedExits(s)
  BY <1>4 DEF SeedExits, SeedTypeOK
<1>5. CASE SeedFetched(s)
  BY <1>5 DEF SeedFetched, SeedTypeOK
<1>6. CASE SeedFetchFailed(s)
  BY <1>6
  DEF SeedFetchFailed, SeedReleases, ReturnToPool, SeedTypeOK, SessionTypeOK
<1>7. CASE SeedEnqueues(s)
  <2>1. sjob[s] \in Job /\ queue \in Seq(Job)
    BY DEF SeedTypeOK, QueueTypeOK
  <2>2. /\ queue'[Len(queue) + 1] = sjob[s]
        /\ Len(queue) + 1 \in DOMAIN queue'
        /\ \A i \in DOMAIN queue : i \in DOMAIN queue' /\ queue'[i] = queue[i]
    BY <1>7, <2>1 DEF SeedEnqueues
  <2>3. Claimed(p)
    BY <1>7 DEF SeedEnqueues
  <2>4. SeedOwns(s, p) => Claimed(p)'
    BY <2>2
  <2>5. \A r \in WebSeed \ {s} : SeedOwns(r, p) => SeedOwns(r, p)'
    BY <1>7 DEF SeedEnqueues, SeedTypeOK
  <2>6. \A i \in DOMAIN queue : queue[i].piece = p => Claimed(p)'
    BY <2>2
  <2> QED
    BY <1>7, <2>3, <2>4, <2>5, <2>6 DEF SeedEnqueues
<1>8. CASE SeedEnqueueAborted(s)
  BY <1>8 DEF SeedEnqueueAborted, CtxDone
<1>9. CASE SeedResult(s)
  BY <1>9
  DEF SeedResult, SeedReleases, ReturnToPool, SeedTypeOK, SessionTypeOK
<1>10. CASE SeedAwaitAborted(s)
  BY <1>10 DEF SeedAwaitAborted, CtxDone
<1> QED
  BY <1>3, <1>4, <1>5, <1>6, <1>7, <1>8, <1>9, <1>10 DEF SeedNext

\* The same for verification, the user and stuttering.
LEMMA OtherClaims ==
  ASSUME ClaimInv, VerifyNext \/ SessionNext \/ UNCHANGED vars,
         NEW p \in Piece, ~Closing', pieceState'[p] = "Downloading"
  PROVE  Claimed(p)'
<1>1. pieceState[p] = "Downloading" /\ ~Closing => Claimed(p)
  BY DEF ClaimInv, NoOrphanedClaim
<1>2. VerifyTypeOK /\ SessionTypeOK
  BY DEF ClaimInv, TypeOK
<1>3. UNCHANGED <<owns, pc, outbox, queue, workerVars, seedVars>>
        /\ Claimed(p) => Claimed(p)'
  BY DEF Claimed, Submitted, SeedOwns, workerVars, seedVars
<1> USE <1>1, <1>2, <1>3 DEF Closing, sessionVars, peerVars
<1>4. CASE VerifyNext
  BY <1>4
  DEF VerifyNext, VerifyStart, VerifySkip, VerifyRead, VerifyApply, Set,
      VerifyDone, VerifyStops, VerifyTypeOK, SessionTypeOK
<1>5. CASE SessionNext
  BY <1>5
  DEF SessionNext, Pause, Resume, SetFilePriority, BeginClose, CancelContext,
      FinishClose, ReleaseStorage, StorageStep
<1>6. CASE UNCHANGED vars
  BY <1>6 DEF vars
<1> QED
  BY <1>4, <1>5, <1>6

\* The invariant of claims is inductive.
LEMMA NextClaimInv == ClaimInv /\ [Next]_vars => ClaimInv'
<1> SUFFICES ASSUME ClaimInv, [Next]_vars PROVE ClaimInv'
  OBVIOUS
<1>1. TypeOK' /\ StorageOutlivesSession'
  BY NextTypeOK, OutlivesStep DEF ClaimInv
<1>2. ASSUME NEW p \in Piece, ~Closing', pieceState'[p] = "Downloading"
      PROVE  Claimed(p)'
  BY <1>2, PeerClaims, WorkerClaims, SeedClaimsKept, OtherClaims DEF Next
<1> QED
  BY <1>1, <1>2 DEF ClaimInv, NoOrphanedClaim

\* No interleaving of peers, webseeds, workers, verification, pause and file
\* selection loses a claim: until Close begins, a Downloading piece always
\* has a holder that completes it or puts it back.
THEOREM ClaimSafety == Spec => []NoOrphanedClaim
<1>1. Spec => []ClaimInv
  BY InitClaimInv, NextClaimInv, PTL DEF Spec
<1>2. ClaimInv => NoOrphanedClaim
  BY DEF ClaimInv
<1> QED
  BY <1>1, <1>2, PTL

-----------------------------------------------------------------------------
(* Completed pieces.  While nothing deletes the payload there is a single  *)
(* inode, every handle is nil or reaches it, no worker has repaired the    *)
(* file, and whoever is about to mark a piece Completed has seen its bytes *)
(* there.  Writes only ever add pieces: a corrupt one is never written.    *)

OneInode ==
  /\ onDisk = 1
  /\ readHandle \in {0, 1}
  /\ writeHandle \in {0, 1}

Vouched ==
  /\ \A w \in Worker : wpc[w] # "repair"
  /\ \A w \in Worker : wpc[w] = "mark" => wjob[w].piece \in content[1]
  /\ vpc = "apply" /\ vok => vpiece \in content[1]

DiskInv == TypeOK /\ CompletedOnDisk /\ (losses = 0 => OneInode /\ Vouched)

\* What a session trusts at the start is on disk.
LEMMA InitDiskInv == Init => DiskInv
<1> SUFFICES ASSUME Init PROVE DiskInv
  OBVIOUS
<1>1. 1 \in Inode
  BY LossesAssumption DEF Inode
<1>2. CompletedOnDisk
  BY <1>1 DEF Init, InitResume, InitFullScan, StorageInit, Checkpoint,
              CompletedOnDisk
<1>3. OneInode
  BY DEF Init, InitResume, InitFullScan, StorageInit, OneInode
<1>4. Vouched
  BY DEF Init, Idle, Vouched
<1> QED
  BY <1>2, <1>3, <1>4, InitTypeOK DEF DiskInv

\* What every step guarantees while the payload is not deleted.
LEMMA DiskStep ==
  ASSUME DiskInv, [Next]_vars, losses' = 0
  PROVE  /\ OneInode' /\ Vouched'
         /\ \A p \in Piece : pieceState[p] = "Completed"
                               => pieceState'[p] = "Completed"
         /\ \A p \in Piece : pieceState'[p] = "Completed" => p \in content'[1]
<1> DEFINE Kept == \A p \in Piece : pieceState[p] = "Completed"
                                      => pieceState'[p] = "Completed"
           Backed == \A p \in Piece : pieceState'[p] = "Completed"
                                        => p \in content'[1]
           Goal == OneInode' /\ Vouched' /\ Kept /\ Backed
<1>1. /\ TypeOK /\ SessionTypeOK /\ WorkerTypeOK /\ VerifyTypeOK
      /\ StorageTypeOK /\ losses \in Nat /\ 1 \in Inode
  BY LossesAssumption DEF DiskInv, TypeOK, StorageTypeOK, Inode
<1>2. losses = 0 =>
        /\ OneInode /\ Vouched
        /\ \A p \in Piece : pieceState[p] = "Completed" => p \in content[1]
  BY DEF DiskInv, CompletedOnDisk
<1> USE DEF sessionVars, workerVars, verifyVars, storageVars
<1>3. ASSUME NEW h \in Peer, PeerNext(h)
      PROVE  Goal
  <2>1. UNCHANGED <<storageVars, workerVars, verifyVars>>
    BY <1>3
    DEF PeerNext, Connect, Disconnect, Choke, Unchoke, RejectRequest,
        LastBlock, OtherMessage, KeepAlive, DropCompletedElsewhere,
        ClaimPiece, CopyPiece, PumpDone, Enqueue, EnqueueAborted
  <2>2. \A p \in Piece : pieceState'[p] = "Completed"
                           <=> pieceState[p] = "Completed"
    BY <1>1, <1>3
    DEF PeerNext, Connect, Disconnect, Choke, Unchoke, RejectRequest,
        LastBlock, OtherMessage, KeepAlive, DropCompletedElsewhere,
        ClaimPiece, CopyPiece, PumpDone, Enqueue, EnqueueAborted,
        ReturnToPool, Set, Needed, SessionTypeOK
  <2> QED
    BY <1>2, <2>1, <2>2 DEF OneInode, Vouched
<1>4. ASSUME NEW s \in WebSeed, SeedNext(s)
      PROVE  Goal
  <2>1. UNCHANGED <<storageVars, workerVars, verifyVars>>
    BY <1>4
    DEF SeedNext, SeedClaims, SeedExits, SeedFetched, SeedFetchFailed,
        SeedEnqueues, SeedEnqueueAborted, SeedResult, SeedAwaitAborted
  <2>2. \A p \in Piece : pieceState'[p] = "Completed"
                           <=> pieceState[p] = "Completed"
    BY <1>1, <1>4
    DEF SeedNext, SeedClaims, SeedExits, SeedFetched, SeedFetchFailed,
        SeedEnqueues, SeedEnqueueAborted, SeedResult, SeedAwaitAborted,
        SeedReleases, ReturnToPool, Set, Needed, SessionTypeOK
  <2> QED
    BY <1>2, <2>1, <2>2 DEF OneInode, Vouched
<1>5. ASSUME NEW w \in Worker, WorkerNext(w)
      PROVE  Goal
  <2> USE <1>1, <1>2
  <2>1. wjob[w].piece \in Piece
    BY DEF WorkerTypeOK, Job
  <2>2. CASE TakeJob(w)
    BY <2>2 DEF TakeJob, Step, OneInode, Vouched, WorkerTypeOK
  <2>3. CASE SkipJob(w) \/ AcceptJob(w) \/ WriteRefused(w)
    BY <2>3 DEF SkipJob, AcceptJob, WriteRefused, Finish, Step, OneInode,
                Vouched, WorkerTypeOK
  <2>4. CASE HashFailed(w) \/ StorageFailed(w)
    BY <2>4 DEF HashFailed, StorageFailed, Finish, Step, ReturnToPool,
                OneInode, Vouched, WorkerTypeOK, SessionTypeOK
  <2>5. CASE WriteSucceeds(w)
    <3>1. losses = 0 /\ UNCHANGED pieceState
      BY <2>5 DEF WriteSucceeds, WriteBlock
    <3>2. WriteInode = 1 /\ ~NeedsRepair
      BY <3>1 DEF WriteInode, NeedsRepair, OneInode
    <3>3. OneInode'
      BY <2>5, <3>1, <3>2 DEF WriteSucceeds, WriteBlock, OpenWriter, OneInode
    <3>4. content'[1] = content[1] \cup {wjob[w].piece}
      BY <2>5, <3>2 DEF WriteSucceeds, WriteBlock, HashMatches, StorageTypeOK
    <3>5. Vouched'
      BY <2>5, <3>1, <3>2, <3>4
      DEF WriteSucceeds, Step, Vouched, WorkerTypeOK
    <3> QED
      BY <3>1, <3>3, <3>4, <3>5
  <2>6. CASE WriteFails(w)
    <3>1. losses = 0 /\ UNCHANGED <<pieceState, content>>
      BY <2>6 DEF WriteFails, WriteBlockFails
    <3>2. WriteInode = 1 /\ ~NeedsRepair
      BY <3>1 DEF WriteInode, NeedsRepair, OneInode
    <3>3. OneInode'
      BY <2>6, <3>1, <3>2 DEF WriteFails, WriteBlockFails, OpenWriter, OneInode
    <3>4. Vouched'
      BY <2>6, <3>1 DEF WriteFails, Step, Vouched, WorkerTypeOK
    <3> QED
      BY <3>1, <3>3, <3>4
  <2>7. CASE MarkPieceCompleted(w)
    <3>1. losses = 0 /\ wjob[w].piece \in content[1]
      BY <2>7 DEF MarkPieceCompleted, Vouched
    <3> QED
      BY <2>7, <3>1
      DEF MarkPieceCompleted, Marked, Set, Finish, Step, OneInode, Vouched,
          WorkerTypeOK, SessionTypeOK
  <2>8. CASE ResetProgress(w)
    BY <2>8 DEF ResetProgress, Vouched
  <2> QED
    BY <1>5, <2>2, <2>3, <2>4, <2>5, <2>6, <2>7, <2>8 DEF WorkerNext
<1>6. CASE VerifyNext
  <2> USE <1>1, <1>2
  <2>1. CASE VerifyStart \/ VerifyDone \/ VerifyStops
    BY <2>1 DEF VerifyStart, VerifyDone, VerifyStops, OneInode, Vouched
  <2>2. CASE VerifyApply
    BY <2>2 DEF VerifyApply, Adopted, Set, OneInode, Vouched, VerifyTypeOK,
                SessionTypeOK
  <2>3. ASSUME NEW p \in Piece, VerifySkip(p)
        PROVE  Goal
    BY <2>3 DEF VerifySkip, OneInode, Vouched
  <2>4. ASSUME NEW p \in Piece, VerifyRead(p)
        PROVE  Goal
    <3>1. losses = 0 /\ UNCHANGED <<content, onDisk, writeHandle>>
      BY <2>4 DEF VerifyRead, OpenReader
    <3>2. ReadInode = 1 /\ OneInode'
      BY <2>4, <3>1 DEF VerifyRead, OpenReader, ReadInode, OneInode
    <3>3. vok' => p \in content[1]
      BY <2>4, <3>2 DEF VerifyRead, VerifiesOk
    <3> QED
      BY <2>4, <3>1, <3>2, <3>3 DEF VerifyRead, Vouched
  <2> QED
    BY <1>6, <2>1, <2>2, <2>3, <2>4 DEF VerifyNext
<1>7. CASE SessionNext
  <2> USE <1>1, <1>2
  <2>1. losses = 0 /\ UNCHANGED <<pieceState, content, workerVars, vpc, vpiece,
                                  vok, onDisk>>
    BY <1>7
    DEF SessionNext, Pause, Resume, SetFilePriority, BeginClose,
        CancelContext, FinishClose, ReleaseStorage, StorageStep, CloseStorage,
        EvictReader, EvictWriter, LoseFile
  <2>2. readHandle' \in {0, readHandle} /\ writeHandle' \in {0, writeHandle}
    BY <1>7
    DEF SessionNext, Pause, Resume, SetFilePriority, BeginClose,
        CancelContext, FinishClose, ReleaseStorage, StorageStep, CloseStorage,
        EvictReader, EvictWriter, LoseFile
  <2> QED
    BY <2>1, <2>2 DEF OneInode, Vouched
<1>8. CASE UNCHANGED vars
  BY <1>2, <1>8 DEF vars, OneInode, Vouched
<1> QED
  BY <1>3, <1>4, <1>5, <1>6, <1>7, <1>8 DEF Next

\* The invariant of the content is inductive.
LEMMA NextDiskInv == DiskInv /\ [Next]_vars => DiskInv'
<1> SUFFICES ASSUME DiskInv, [Next]_vars PROVE DiskInv'
  OBVIOUS
<1>1. TypeOK'
  BY NextTypeOK DEF DiskInv
<1>2. losses' = 0 => /\ OneInode' /\ Vouched'
                     /\ \A p \in Piece : pieceState'[p] = "Completed"
                                           => p \in content'[1]
  BY DiskStep
<1> QED
  BY <1>1, <1>2 DEF DiskInv, CompletedOnDisk

\* As long as nothing outside deletes the payload, every piece the session
\* advertises and serves is in the file with its correct bytes.
THEOREM CompletedPiecesOnDisk == Spec => []CompletedOnDisk
<1>1. Spec => []DiskInv
  BY InitDiskInv, NextDiskInv, PTL DEF Spec
<1>2. DiskInv => CompletedOnDisk
  BY DEF DiskInv
<1> QED
  BY <1>1, <1>2, PTL

\* And no step takes a piece back once it is Completed.
THEOREM CompletedPiecesStay == Spec => CompletedStays
<1>1. Spec => []DiskInv
  BY InitDiskInv, NextDiskInv, PTL DEF Spec
<1>2. DiskInv /\ [Next]_vars =>
        [losses' = 0 => \A p \in Piece : pieceState[p] = "Completed"
                                           => pieceState'[p] = "Completed"]_vars
  BY DiskStep
<1> QED
  BY <1>1, <1>2, PTL DEF Spec, CompletedStays

-----------------------------------------------------------------------------
(* Owners.  A webseed worker that has handed its claim to the write pool   *)
(* gets it back with a verdict of "skipped" or "closed", so it counts as a *)
(* holder until it has acted on that verdict.  A piece somebody holds is   *)
(* in flight or Completed, never free to be claimed again.                 *)

ResultOwns(s, p) ==
  /\ spc[s] = "await" /\ sres[s] \in {"skipped", "closed"}
  /\ sjob[s].own /\ sjob[s].piece = p /\ pieceState[p] # "Completed"

Holders(p) == Owners(p) \cup ({"result"} \X {s \in WebSeed : ResultOwns(s, p)})

HeldByOne(p) ==
  /\ \A h \in Peer : owns[h][p] <= 1
  /\ \A c, d \in Holders(p) : c = d

HeldIsInFlight(p) ==
  Holders(p) # {} => pieceState[p] \in {"Downloading", "Completed"}

\* The jobs of a webseed worker that waits for a verdict: one at most, the
\* one it waits for, and none once the verdict is there.
QueuedFor(i, s) == queue[i].src = s
PoolFor(w, s) == wpc[w] # "idle" /\ wjob[w].src = s

Tickets(s) == ({"queue"} \X {i \in DOMAIN queue : QueuedFor(i, s)})
              \cup ({"pool"} \X {w \in Worker : PoolFor(w, s)})

TicketsAreOne(s) ==
  /\ Tickets(s) # {} => spc[s] \in {"await", "exited"}
  /\ spc[s] = "await" =>
       /\ \A c, d \in Tickets(s) : c = d
       /\ Tickets(s) # {} => sres[s] = "none"
       /\ \A i \in DOMAIN queue : QueuedFor(i, s) => queue[i] = sjob[s]
       /\ \A w \in Worker : PoolFor(w, s) => wjob[w] = sjob[s]

\* A job names the loop or the webseed worker that downloaded it.
JobsAreNamed ==
  /\ \A h \in Peer : pc[h] = "send" => outbox[h].src = h
  /\ \A s \in WebSeed : spc[s] \in {"fetch", "send"} => sjob[s].src = s

OwnerInv ==
  /\ TypeOK
  /\ JobsAreNamed
  /\ \A s \in WebSeed : TicketsAreOne(s)
  /\ ~handedBack => \A p \in Piece : HeldByOne(p) /\ HeldIsInFlight(p)

\* A session starts with nobody holding anything.
LEMMA InitOwnerInv == Init => OwnerInv
<1> SUFFICES ASSUME Init PROVE OwnerInv
  OBVIOUS
<1>1. queue = <<>> /\ DOMAIN queue = {}
  BY DEF Init, Idle
<1>2. ASSUME NEW s \in WebSeed PROVE TicketsAreOne(s)
  BY <1>1 DEF Init, Idle, TicketsAreOne, Tickets, PoolFor
<1>3. ASSUME NEW p \in Piece PROVE HeldByOne(p) /\ HeldIsInFlight(p)
  <2>1. \A h \in Peer : owns[h][p] = 0
    BY DEF Init, Idle
  <2>2. Holders(p) = {}
    BY <1>1, <2>1
    DEF Init, Idle, Holders, Owners, LoopOwns, SendOwns, PoolOwns, SeedOwns,
        ResultOwns
  <2> QED
    BY <2>1, <2>2 DEF HeldByOne, HeldIsInFlight
<1>4. JobsAreNamed
  BY DEF Init, Idle, JobsAreNamed
<1> QED
  BY <1>2, <1>3, <1>4, InitTypeOK DEF OwnerInv

-----------------------------------------------------------------------------
(* How a step moves the holders of a piece: it adds none, it drops one, it *)
(* passes the claim of one on to another, or it makes the first.           *)

LoopsKept(p) == \A h \in Peer : LoopOwns(h, p)' => LoopOwns(h, p)
SendsKept(p) == \A h \in Peer : SendOwns(h, p)' => SendOwns(h, p)
QueueKept(p) ==
  \A i \in DOMAIN queue' :
    QueueOwns(i, p)' => i \in DOMAIN queue /\ QueueOwns(i, p)
PoolKept(p) == \A w \in Worker : PoolOwns(w, p)' => PoolOwns(w, p)
SeedsKept(p) == \A s \in WebSeed : SeedOwns(s, p)' => SeedOwns(s, p)
ResultsKept(p) == \A s \in WebSeed : ResultOwns(s, p)' => ResultOwns(s, p)

\* If every kind of holder gains nobody, nobody has been added.
LEMMA HoldersKept ==
  ASSUME NEW p \in Piece, LoopsKept(p), SendsKept(p), QueueKept(p),
         PoolKept(p), SeedsKept(p), ResultsKept(p)
  PROVE  Holders(p)' \subseteq Holders(p)
  BY DEF Holders, Owners, LoopsKept, SendsKept, QueueKept, PoolKept, SeedsKept,
         ResultsKept

\* The same when the claim of x, if it was one, may now be y's.
Passes(p, x, y) == \A c \in Holders(p)' : c = y \/ (c \in Holders(p) /\ c # x)

\* Nobody added: still one holder at most.
LEMMA OneHolderStays ==
  ASSUME NEW p \in Piece, HeldByOne(p), Holders(p)' \subseteq Holders(p),
         \A h \in Peer : owns'[h][p] <= 1
  PROVE  HeldByOne(p)'
  BY DEF HeldByOne

\* The only holder passes its claim on: still one.
LEMMA OneHolderPasses ==
  ASSUME NEW p \in Piece, HeldByOne(p), NEW x, NEW y, Passes(p, x, y),
         x \in Holders(p), \A h \in Peer : owns'[h][p] <= 1
  PROVE  HeldByOne(p)'
  BY DEF HeldByOne, Passes

\* The first holder of a free piece is its only one.
LEMMA FirstHolder ==
  ASSUME NEW p \in Piece, Holders(p) = {}, NEW x, NEW y, Passes(p, x, y),
         \A h \in Peer : owns'[h][p] <= 1
  PROVE  HeldByOne(p)'
  BY DEF HeldByOne, Passes

\* The holder of a piece who gives it up leaves it without one.
LEMMA LastHolder ==
  ASSUME NEW p \in Piece, HeldByOne(p), NEW x \in Holders(p),
         Holders(p)' \subseteq Holders(p), x \notin Holders(p)',
         \A h \in Peer : owns'[h][p] <= 1
  PROVE  HeldByOne(p)' /\ HeldIsInFlight(p)'
  BY DEF HeldByOne, HeldIsInFlight

\* Nobody new and the piece still in flight, or Completed by now.
LEMMA HolderUndisturbed ==
  ASSUME NEW p \in Piece, HeldByOne(p), HeldIsInFlight(p),
         Holders(p)' \subseteq Holders(p), \A h \in Peer : owns'[h][p] <= 1,
         pieceState'[p] \in {pieceState[p], "Completed"}
  PROVE  HeldByOne(p)' /\ HeldIsInFlight(p)'
  BY OneHolderStays DEF HeldIsInFlight

\* What a step leaves alone keeps the holders that live there.
LEMMA HolderFrames ==
  ASSUME NEW p \in Piece
  PROVE  /\ UNCHANGED owns => LoopsKept(p)
         /\ UNCHANGED <<pc, outbox>> => SendsKept(p)
         /\ UNCHANGED queue => QueueKept(p)
         /\ UNCHANGED workerVars => PoolKept(p)
         /\ UNCHANGED <<spc, sjob>> => SeedsKept(p)
         /\ /\ UNCHANGED seedVars
            /\ pieceState[p] = "Completed" => pieceState'[p] = "Completed"
            => ResultsKept(p)
<1>1. /\ UNCHANGED owns => LoopsKept(p)
      /\ UNCHANGED <<pc, outbox>> => SendsKept(p)
  BY DEF LoopsKept, LoopOwns, SendsKept, SendOwns
<1>2. /\ UNCHANGED queue => QueueKept(p)
      /\ UNCHANGED workerVars => PoolKept(p)
  BY DEF QueueKept, QueueOwns, PoolKept, PoolOwns, workerVars
<1>3. UNCHANGED <<spc, sjob>> => SeedsKept(p)
  BY DEF SeedsKept, SeedOwns
<1>4. /\ UNCHANGED seedVars
      /\ pieceState[p] = "Completed" => pieceState'[p] = "Completed"
      => ResultsKept(p)
  BY DEF ResultsKept, ResultOwns, seedVars
<1> QED
  BY <1>1, <1>2, <1>3, <1>4

\* The holders by kind, and that kinds differ.
LEMMA WhoHolds ==
  ASSUME NEW p \in Piece
  PROVE  /\ \A h \in Peer : LoopOwns(h, p) <=> <<"loop", h>> \in Holders(p)
         /\ \A h \in Peer : SendOwns(h, p) <=> <<"send", h>> \in Holders(p)
         /\ \A i \in DOMAIN queue :
              QueueOwns(i, p) <=> <<"queue", i>> \in Holders(p)
         /\ \A w \in Worker : PoolOwns(w, p) <=> <<"pool", w>> \in Holders(p)
         /\ \A s \in WebSeed : SeedOwns(s, p) <=> <<"fetch", s>> \in Holders(p)
         /\ \A s \in WebSeed :
              ResultOwns(s, p) <=> <<"result", s>> \in Holders(p)
  BY DEF Holders, Owners

\* The same in the state after a step.
LEMMA WhoWillHold ==
  ASSUME NEW p \in Piece
  PROVE  /\ \A h \in Peer : LoopOwns(h, p)' <=> <<"loop", h>> \in Holders(p)'
         /\ \A w \in Worker : PoolOwns(w, p)' <=> <<"pool", w>> \in Holders(p)'
         /\ \A s \in WebSeed :
              SeedOwns(s, p)' <=> <<"fetch", s>> \in Holders(p)'
         /\ \A s \in WebSeed :
              ResultOwns(s, p)' <=> <<"result", s>> \in Holders(p)'
  BY DEF Holders, Owners

-----------------------------------------------------------------------------
(* Peer loops.                                                             *)

\* Steps of a loop that open and close no download.
LEMMA QuietLoop ==
  ASSUME OwnerInv, ~handedBack, NEW h \in Peer,
         \/ Connect(h) \/ Unchoke(h) \/ OtherMessage(h) \/ KeepAlive(h)
         \/ PumpDone(h) \/ \E q \in Piece : CopyPiece(h, q),
         NEW p \in Piece
  PROVE  HeldByOne(p)' /\ HeldIsInFlight(p)'
<1>1. /\ UNCHANGED <<owns, outbox, queue, workerVars, seedVars, pieceState>>
      /\ \A g \in Peer : pc'[g] = "send" => pc[g] = "send"
  BY DEF OwnerInv, TypeOK, PeerTypeOK, Goto, sessionVars,
         Connect, Unchoke, OtherMessage, KeepAlive, PumpDone, CopyPiece
<1>2. SendsKept(p)
  BY <1>1 DEF SendsKept, SendOwns
<1>3. UNCHANGED <<spc, sjob>>
  BY <1>1 DEF seedVars
<1>4. HeldByOne(p) /\ HeldIsInFlight(p)
  BY DEF OwnerInv
<1> QED
  BY <1>1, <1>2, <1>3, <1>4, HolderFrames, HoldersKept, HolderUndisturbed
  DEF HeldByOne

\* A loop that drops downloads and puts the pieces it claimed back in the
\* pool, or finds that they are no longer in flight.
LEMMA LoopGivesUp ==
  ASSUME OwnerInv, ~handedBack, NEW h \in Peer, NEW p \in Piece,
         UNCHANGED <<queue, workerVars, seedVars>>,
         SendsKept(p),
         \A g \in Peer : owns'[g][p] \in 0 .. owns[g][p],
         \/ pieceState'[p] = pieceState[p]
         \/ /\ pieceState[p] = "Downloading" /\ pieceState'[p] = "Empty"
            /\ owns[h][p] > 0 /\ owns'[h][p] = 0
  PROVE  HeldByOne(p)' /\ HeldIsInFlight(p)'
<1>1. HeldByOne(p) /\ HeldIsInFlight(p)
  BY DEF OwnerInv
<1>2. \A g \in Peer : owns[g][p] \in Nat
  BY DEF OwnerInv, TypeOK, PeerTypeOK
<1>3. LoopsKept(p)
  BY <1>2 DEF LoopsKept, LoopOwns
<1>4. \A g \in Peer : owns'[g][p] <= 1
  BY <1>1, <1>2 DEF HeldByOne
<1>5. UNCHANGED <<spc, sjob>>
  BY DEF seedVars
<1>6. Holders(p)' \subseteq Holders(p)
  BY <1>3, <1>5, HolderFrames, HoldersKept
<1>7. CASE pieceState'[p] = pieceState[p]
  BY <1>1, <1>4, <1>6, <1>7, HolderUndisturbed
<1>8. CASE owns[h][p] > 0 /\ owns'[h][p] = 0
  <2>1. LoopOwns(h, p) /\ ~LoopOwns(h, p)'
    BY <1>8 DEF LoopOwns
  <2>2. <<"loop", h>> \in Holders(p) /\ <<"loop", h>> \notin Holders(p)'
    BY <2>1, WhoHolds, WhoWillHold
  <2> QED
    BY <1>1, <1>4, <1>6, <2>2, LastHolder
<1> QED
  BY <1>7, <1>8

\* Disconnect, choke, the drop of finished pieces and the aborted enqueue.
LEMMA LoopReleases ==
  ASSUME OwnerInv, ~handedBack, NEW h \in Peer, NEW p \in Piece,
         Disconnect(h) \/ Choke(h) \/ DropCompletedElsewhere(h)
           \/ EnqueueAborted(h)
  PROVE  HeldByOne(p)' /\ HeldIsInFlight(p)'
<1>1. PeerTypeOK /\ SessionTypeOK
  BY DEF OwnerInv, TypeOK
<1>2. UNCHANGED <<queue, workerVars, seedVars>>
  BY DEF Disconnect, Choke, DropCompletedElsewhere, EnqueueAborted
<1>3. \A g \in Peer : pc'[g] = "send" => pc[g] = "send" /\ outbox'[g] = outbox[g]
  BY <1>1 DEF Disconnect, Choke, DropCompletedElsewhere, EnqueueAborted, Goto,
              PeerTypeOK
<1>4. SendsKept(p)
  BY <1>3 DEF SendsKept, SendOwns
<1>5. \A g \in Peer : /\ owns[g][p] \in Nat
                      /\ owns'[g][p] \in {0, owns[g][p]}
                      /\ g # h => owns'[g][p] = owns[g][p]
  BY <1>1 DEF Disconnect, Choke, DropCompletedElsewhere, EnqueueAborted,
              PeerTypeOK, NoDownloads
<1>6. \/ pieceState'[p] = pieceState[p]
      \/ /\ pieceState[p] = "Downloading" /\ pieceState'[p] = "Empty"
         /\ owns[h][p] > 0 /\ owns'[h][p] = 0
  BY <1>1 DEF Disconnect, Choke, DropCompletedElsewhere, EnqueueAborted,
              ReturnToPool, Releases, NoDownloads, PeerTypeOK, SessionTypeOK,
              sessionVars
<1>7. \A g \in Peer : owns'[g][p] \in 0 .. owns[g][p]
  BY <1>5
<1> QED
  BY <1>2, <1>4, <1>6, <1>7, LoopGivesUp

\* What closing the download of q does to the counters.
LEMMA CountsClosed ==
  ASSUME OwnerInv, ~handedBack, NEW h \in Peer, NEW q \in Piece,
         NEW own \in BOOLEAN, CloseOne(h, q, own), NEW p \in Piece
  PROVE  /\ \A g \in Peer : owns'[g][p] \in 0 .. owns[g][p]
         /\ own /\ p = q => owns[h][p] > 0 /\ owns'[h][p] = 0
         /\ ~(own /\ p = q) => \A g \in Peer : owns'[g][p] = owns[g][p]
<1>1. /\ owns \in [Peer -> [Piece -> Nat]]
      /\ \A g \in Peer : owns[g][p] \in Nat /\ owns[g][p] <= 1
  BY DEF OwnerInv, TypeOK, PeerTypeOK, HeldByOne
<1>2. CASE own /\ p = q
  <2>1. owns[h][p] > 0 /\ owns' = [owns EXCEPT ![h][p] = @ - 1]
    BY <1>2 DEF CloseOne
  <2>2. owns'[h][p] = owns[h][p] - 1
    BY <1>1, <2>1
  <2>3. \A g \in Peer \ {h} : owns'[g][p] = owns[g][p]
    BY <1>1, <2>1
  <2>4. owns[h][p] = 1 /\ owns'[h][p] = 0
    BY <1>1, <2>1, <2>2
  <2> QED
    BY <1>1, <1>2, <2>3, <2>4
<1>3. CASE ~(own /\ p = q)
  <2>1. \A g \in Peer : owns'[g][p] = owns[g][p]
    BY <1>3, OtherClaimsKept DEF OwnerInv
  <2> QED
    BY <1>1, <1>3, <2>1
<1> QED
  BY <1>2, <1>3

\* A reject closes one download; if it was the claim, the piece is free.
LEMMA RejectedOwner ==
  ASSUME OwnerInv, ~handedBack, NEW h \in Peer, NEW q \in Piece,
         NEW own \in BOOLEAN, RejectRequest(h, q, own), NEW p \in Piece
  PROVE  HeldByOne(p)' /\ HeldIsInFlight(p)'
<1>1. PeerTypeOK /\ SessionTypeOK
  BY DEF OwnerInv, TypeOK
<1>2. UNCHANGED <<queue, workerVars, seedVars>>
  BY DEF RejectRequest
<1>3. \A g \in Peer : pc'[g] = "send" => pc[g] = "send" /\ outbox'[g] = outbox[g]
  BY <1>1 DEF RejectRequest, Goto, PeerTypeOK
<1>4. SendsKept(p)
  BY <1>3 DEF SendsKept, SendOwns
<1>5. CloseOne(h, q, own)
  BY DEF RejectRequest
<1>6. \/ pieceState'[p] = pieceState[p]
      \/ /\ pieceState[p] = "Downloading" /\ pieceState'[p] = "Empty"
         /\ own /\ p = q
  BY <1>1 DEF RejectRequest, ReturnToPool, SessionTypeOK
<1> QED
  BY <1>2, <1>4, <1>5, <1>6, CountsClosed, LoopGivesUp

\* The last block: the open download becomes the job in the outbox.
LEMMA DownloadedOwner ==
  ASSUME OwnerInv, ~handedBack, NEW h \in Peer, NEW q \in Piece,
         NEW own \in BOOLEAN, NEW good \in BOOLEAN,
         LastBlock(h, q, own, good), NEW p \in Piece
  PROVE  HeldByOne(p)' /\ HeldIsInFlight(p)'
<1>1. PeerTypeOK
  BY DEF OwnerInv, TypeOK
<1>2. /\ UNCHANGED <<queue, workerVars, seedVars, pieceState>>
      /\ CloseOne(h, q, own)
  BY DEF LastBlock, sessionVars
<1>3. HeldByOne(p) /\ HeldIsInFlight(p)
  BY DEF OwnerInv
<1>4. /\ \A g \in Peer : owns'[g][p] \in 0 .. owns[g][p]
      /\ own /\ p = q => owns[h][p] > 0 /\ owns'[h][p] = 0
  BY <1>2, CountsClosed
<1>5. \A g \in Peer : owns'[g][p] <= 1 /\ (LoopOwns(g, p)' => LoopOwns(g, p))
  BY <1>1, <1>3, <1>4 DEF PeerTypeOK, HeldByOne, LoopOwns
<1>6. LoopsKept(p)
  BY <1>5 DEF LoopsKept
<1>7. \A g \in Peer : SendOwns(g, p)' =>
        SendOwns(g, p) \/ (g = h /\ own /\ p = q)
  BY <1>1 DEF LastBlock, Goto, SendOwns, PeerTypeOK
<1>8. UNCHANGED <<spc, sjob>>
  BY <1>2 DEF seedVars
<1>9. /\ QueueKept(p) /\ PoolKept(p) /\ SeedsKept(p) /\ ResultsKept(p)
  BY <1>2, <1>8, HolderFrames
<1>10. CASE own /\ p = q
  <2> DEFINE x == <<"loop", h>>
             y == <<"send", h>>
  <2>1. x \in Holders(p) /\ x \notin Holders(p)'
    BY <1>4, <1>10, WhoHolds, WhoWillHold DEF LoopOwns
  <2>2. Passes(p, x, y)
    <3>1. \A c \in Holders(p)' : c = y \/ c \in Holders(p)
      BY <1>6, <1>7, <1>9
      DEF Holders, Owners, LoopsKept, QueueKept, PoolKept, SeedsKept,
          ResultsKept
    <3> QED
      BY <2>1, <3>1 DEF Passes
  <2>3. HeldByOne(p)'
    BY <1>3, <1>5, <2>1, <2>2, OneHolderPasses
  <2>4. HeldIsInFlight(p)'
    BY <1>2, <1>3, <2>1 DEF HeldIsInFlight
  <2> QED
    BY <2>3, <2>4
<1>11. CASE ~(own /\ p = q)
  <2>1. SendsKept(p)
    BY <1>7, <1>11 DEF SendsKept
  <2>2. Holders(p)' \subseteq Holders(p)
    BY <1>6, <1>9, <2>1, HoldersKept
  <2> QED
    BY <1>2, <1>3, <1>5, <2>2, HolderUndisturbed
<1> QED
  BY <1>10, <1>11

\* A claim passed on, the piece as it was.
LEMMA ClaimPassedOn ==
  ASSUME NEW p \in Piece, HeldByOne(p), HeldIsInFlight(p), NEW x, NEW y,
         x \in Holders(p), x \notin Holders(p)',
         \A c \in Holders(p)' : c = y \/ c \in Holders(p),
         UNCHANGED <<owns, pieceState>>
  PROVE  HeldByOne(p)' /\ HeldIsInFlight(p)'
<1>1. Passes(p, x, y)
  BY DEF Passes
<1>2. HeldByOne(p)'
  BY <1>1, OneHolderPasses DEF HeldByOne
<1>3. HeldIsInFlight(p)'
  BY DEF HeldIsInFlight
<1> QED
  BY <1>2, <1>3

\* The queue with a job at its end.
LEMMA Appended ==
  ASSUME TypeOK, NEW j \in Job, queue' = Append(queue, j)
  PROVE  /\ DOMAIN queue' = DOMAIN queue \cup {Len(queue) + 1}
         /\ queue'[Len(queue) + 1] = j
         /\ Len(queue) + 1 \notin DOMAIN queue
         /\ \A i \in DOMAIN queue : queue'[i] = queue[i]
<1>1. queue \in Seq(Job) /\ Len(queue) \in Nat /\ DOMAIN queue = 1 .. Len(queue)
  BY DEF TypeOK, QueueTypeOK
<1>2. queue' \in Seq(Job) /\ Len(queue') = Len(queue) + 1
  BY <1>1
<1>3. DOMAIN queue' = 1 .. Len(queue) + 1
  BY <1>2
<1> QED
  BY <1>1, <1>3

\* A job sent to the queue carries its claim there.
LEMMA QueuedOwner ==
  ASSUME OwnerInv, ~handedBack, NEW h \in Peer, Enqueue(h), NEW p \in Piece
  PROVE  HeldByOne(p)' /\ HeldIsInFlight(p)'
<1>1. PeerTypeOK /\ outbox[h] \in Job
  BY DEF OwnerInv, TypeOK, PeerTypeOK
<1>2. UNCHANGED <<owns, workerVars, seedVars, pieceState>>
  BY DEF Enqueue, sessionVars
<1>3. HeldByOne(p) /\ HeldIsInFlight(p)
  BY DEF OwnerInv
<1>4. /\ DOMAIN queue' = DOMAIN queue \cup {Len(queue) + 1}
      /\ queue'[Len(queue) + 1] = outbox[h]
      /\ \A i \in DOMAIN queue : queue'[i] = queue[i]
  <2>1. TypeOK /\ queue' = Append(queue, outbox[h])
    BY DEF OwnerInv, Enqueue
  <2> QED
    BY <1>1, <2>1, Appended
<1>5. \A g \in Peer : SendOwns(g, p)' => g # h /\ SendOwns(g, p)
  BY <1>1 DEF Enqueue, Goto, SendOwns, PeerTypeOK
<1>6. SendsKept(p)
  BY <1>5 DEF SendsKept
<1>7. UNCHANGED <<spc, sjob>>
  BY <1>2 DEF seedVars
<1>8. LoopsKept(p) /\ PoolKept(p) /\ SeedsKept(p) /\ ResultsKept(p)
  BY <1>2, <1>7, HolderFrames
<1>9. CASE SendOwns(h, p)
  <2> DEFINE x == <<"send", h>>
             y == <<"queue", Len(queue) + 1>>
  <2>1. x \in Holders(p)
    BY <1>9, WhoHolds
  <2>2. x \notin Holders(p)'
    BY <1>5 DEF Holders, Owners
  <2>3. \A i \in DOMAIN queue' :
          QueueOwns(i, p)' => i = Len(queue) + 1
                                \/ (i \in DOMAIN queue /\ QueueOwns(i, p))
    BY <1>4 DEF QueueOwns
  <2>4. \A c \in Holders(p)' : c = y \/ c \in Holders(p)
    BY <1>6, <1>8, <2>3
    DEF Holders, Owners, LoopsKept, SendsKept, PoolKept, SeedsKept,
        ResultsKept
  <2> QED
    BY <1>2, <1>3, <2>1, <2>2, <2>4, ClaimPassedOn
<1>10. CASE ~SendOwns(h, p)
  <2>1. ~(outbox[h].own /\ outbox[h].piece = p)
    BY <1>10 DEF Enqueue, SendOwns
  <2>2. QueueKept(p)
    BY <1>4, <2>1 DEF QueueKept, QueueOwns
  <2>3. Holders(p)' \subseteq Holders(p)
    BY <1>6, <1>8, <2>2, HoldersKept
  <2> QED
    BY <1>2, <1>3, <2>3, HolderUndisturbed DEF HeldByOne
<1> QED
  BY <1>9, <1>10

\* A piece that may be claimed has no holder.
LEMMA FreeHasNoHolder ==
  ASSUME OwnerInv, ~handedBack, NEW p \in Piece, pieceState[p] = "Empty"
  PROVE  Holders(p) = {} /\ \A h \in Peer : owns[h][p] = 0
<1>1. Holders(p) = {}
  BY DEF OwnerInv, HeldIsInFlight
<1>2. \A h \in Peer : owns[h][p] \in Nat /\ ~(owns[h][p] > 0)
  BY <1>1, WhoHolds DEF LoopOwns, OwnerInv, TypeOK, PeerTypeOK
<1> QED
  BY <1>1, <1>2

\* A loop's claim: only a free piece is claimed.
LEMMA ClaimedOwner ==
  ASSUME OwnerInv, ~handedBack, NEW h \in Peer, NEW q \in Piece,
         ClaimPiece(h, q), NEW p \in Piece
  PROVE  HeldByOne(p)' /\ HeldIsInFlight(p)'
<1>1. PeerTypeOK /\ SessionTypeOK
  BY DEF OwnerInv, TypeOK
<1>2. UNCHANGED <<pc, outbox, queue, workerVars, seedVars>>
  BY DEF ClaimPiece
<1>3. HeldByOne(p) /\ HeldIsInFlight(p)
  BY DEF OwnerInv
<1>4. UNCHANGED <<spc, sjob>>
  BY <1>2 DEF seedVars
<1>5. owns' = [owns EXCEPT ![h][q] = @ + 1]
  BY DEF ClaimPiece
<1>6. CASE p = q
  <2>1. pieceState[p] = "Empty" /\ pieceState'[p] = "Downloading"
    BY <1>1, <1>6 DEF ClaimPiece, Needed, Set, SessionTypeOK
  <2>2. Holders(p) = {} /\ \A g \in Peer : owns[g][p] = 0
    BY <2>1, FreeHasNoHolder
  <2>3. \A g \in Peer : owns'[g][p] = IF g = h THEN owns[g][p] + 1 ELSE owns[g][p]
    BY <1>1, <1>5, <1>6 DEF PeerTypeOK
  <2>4. \A g \in Peer : owns'[g][p] <= 1
    BY <2>2, <2>3
  <2>5. \A g \in Peer : LoopOwns(g, p)' => g = h
    BY <2>2, <2>3 DEF LoopOwns
  <2>6. SendsKept(p) /\ QueueKept(p) /\ PoolKept(p) /\ SeedsKept(p)
          /\ ResultsKept(p)
    BY <1>2, <1>4, <2>1, HolderFrames
  <2>7. \A c \in Holders(p)' : c = <<"loop", h>> \/ c \in Holders(p)
    BY <2>5, <2>6
    DEF Holders, Owners, SendsKept, QueueKept, PoolKept, SeedsKept,
        ResultsKept
  <2>8. Passes(p, <<"nobody", h>>, <<"loop", h>>)
    BY <2>2, <2>7 DEF Passes
  <2> QED
    BY <2>1, <2>2, <2>4, <2>8, FirstHolder DEF HeldIsInFlight
<1>7. CASE p # q
  <2>1. pieceState'[p] = pieceState[p]
    BY <1>1, <1>7 DEF ClaimPiece, Set, SessionTypeOK
  <2>2. \A g \in Peer : owns'[g][p] = owns[g][p]
    BY <1>1, <1>5, <1>7 DEF PeerTypeOK
  <2>3. LoopsKept(p)
    BY <2>2 DEF LoopsKept, LoopOwns
  <2>4. Holders(p)' \subseteq Holders(p)
    BY <1>2, <1>4, <2>1, <2>3, HolderFrames, HoldersKept
  <2> QED
    BY <1>3, <2>1, <2>2, <2>4, HolderUndisturbed DEF HeldByOne
<1> QED
  BY <1>6, <1>7

\* Every step of a peer loop.
LEMMA PeerOwners ==
  ASSUME OwnerInv, ~handedBack, NEW h \in Peer, PeerNext(h), NEW p \in Piece
  PROVE  HeldByOne(p)' /\ HeldIsInFlight(p)'
  BY QuietLoop, LoopReleases, RejectedOwner, DownloadedOwner, QueuedOwner,
     ClaimedOwner DEF PeerNext

-----------------------------------------------------------------------------
(* Write workers.                                                          *)

\* The head of the queue becomes w's job; the others move up by one.
LEMMA Taken ==
  ASSUME TypeOK, NEW w \in Worker, TakeJob(w)
  PROVE  /\ 1 \in DOMAIN queue /\ wjob'[w] = queue[1] /\ queue[1] \in Job
         /\ \A i \in DOMAIN queue' :
              i + 1 \in DOMAIN queue /\ queue'[i] = queue[i + 1] /\ i \in Nat
         /\ wpc[w] = "idle" /\ wpc'[w] = "check"
         /\ \A v \in Worker \ {w} : wpc'[v] = wpc[v] /\ wjob'[v] = wjob[v]
<1>1. queue \in Seq(Job) /\ queue # <<>> /\ queue' = Tail(queue)
  BY DEF TakeJob, TypeOK, QueueTypeOK
<1>2. Head(queue) = queue[1] /\ queue[1] \in Job /\ 1 \in DOMAIN queue
  BY <1>1
<1>3. \A i \in DOMAIN queue' :
        i + 1 \in DOMAIN queue /\ queue'[i] = queue[i + 1] /\ i \in Nat
  BY <1>1
<1> QED
  BY <1>2, <1>3 DEF TakeJob, Step, TypeOK, WorkerTypeOK

\* The claim at the head of the queue passes to w.
LEMMA TakenOwner ==
  ASSUME OwnerInv, ~handedBack, NEW w \in Worker, TakeJob(w), NEW p \in Piece
  PROVE  HeldByOne(p)' /\ HeldIsInFlight(p)'
<1>1. UNCHANGED <<owns, pc, outbox, seedVars, pieceState>>
  BY DEF TakeJob, sessionVars, peerVars
<1>2. HeldByOne(p) /\ HeldIsInFlight(p)
  BY DEF OwnerInv
<1>3. UNCHANGED <<spc, sjob>>
  BY <1>1 DEF seedVars
<1>4. LoopsKept(p) /\ SendsKept(p) /\ SeedsKept(p) /\ ResultsKept(p)
  BY <1>1, <1>3, HolderFrames
<1>5. /\ 1 \in DOMAIN queue /\ wjob'[w] = queue[1]
      /\ \A i \in DOMAIN queue' :
           i + 1 \in DOMAIN queue /\ queue'[i] = queue[i + 1] /\ i \in Nat
      /\ wpc[w] = "idle"
      /\ \A v \in Worker \ {w} : wpc'[v] = wpc[v] /\ wjob'[v] = wjob[v]
  BY Taken DEF OwnerInv
<1>6. \A i \in DOMAIN queue' : QueueOwns(i, p)' =>
        i \in Nat /\ <<"queue", i + 1>> \in Holders(p)
  BY <1>5, WhoHolds DEF QueueOwns
<1>7. PoolOwns(w, p)' => <<"queue", 1>> \in Holders(p)
  BY <1>5, WhoHolds DEF PoolOwns, QueueOwns
<1>8. \A v \in Worker : PoolOwns(v, p)' =>
        v = w \/ (<<"pool", v>> \in Holders(p))
  BY <1>5, WhoHolds DEF PoolOwns
\* Where the claim of a holder after the step was before it.
<1> DEFINE Was(c, b) ==
      \/ c = b /\ c[1] # "queue"
      \/ c = <<"pool", w>> /\ b = <<"queue", 1>>
      \/ \E i \in Nat : i # 0 /\ c = <<"queue", i>> /\ b = <<"queue", i + 1>>
<1>9. ASSUME NEW c \in Holders(p)'
      PROVE  \E b \in Holders(p) : Was(c, b)
  <2>1. CASE c \in {"queue"} \X {i \in DOMAIN queue' : QueueOwns(i, p)'}
    <3>1. PICK i \in DOMAIN queue' : c = <<"queue", i>> /\ QueueOwns(i, p)'
      BY <2>1
    <3>2. i # 0
      BY <1>5, <3>1, <1>6 DEF TakeJob, OwnerInv, TypeOK, QueueTypeOK
    <3> QED
      BY <1>6, <3>1, <3>2
  <2>2. CASE c \in {"pool"} \X {v \in Worker : PoolOwns(v, p)'}
    BY <1>7, <1>8, <2>2
  <2>3. CASE c \notin {"queue"} \X {i \in DOMAIN queue' : QueueOwns(i, p)'}
               /\ c \notin {"pool"} \X {v \in Worker : PoolOwns(v, p)'}
    <3>1. c \in Holders(p) /\ c[1] # "queue"
      BY <1>4, <2>3
      DEF Holders, Owners, LoopsKept, SendsKept, SeedsKept, ResultsKept
    <3> QED
      BY <3>1
  <2> QED
    BY <2>1, <2>2, <2>3
<1>10. <<"pool", w>> \notin Holders(p)
  BY <1>5, WhoHolds DEF PoolOwns
<1>11. HeldByOne(p)'
  <2>1. ASSUME NEW c \in Holders(p)', NEW d \in Holders(p)'
        PROVE  c = d
    <3>1. PICK b \in Holders(p) : Was(c, b) /\ Was(d, b)
      BY <1>2, <1>9 DEF HeldByOne
    <3> QED
      BY <1>10, <3>1
  <2> QED
    BY <1>1, <1>2, <2>1 DEF HeldByOne
<1>12. HeldIsInFlight(p)'
  BY <1>1, <1>2, <1>9 DEF HeldIsInFlight
<1> QED
  BY <1>11, <1>12

\* A verdict that returns a claim to the webseed worker it came from.
LEMMA ReturnedOwner ==
  ASSUME OwnerInv, ~handedBack, NEW w \in Worker, NEW p \in Piece,
         wpc[w] # "idle",
         NEW result \in {"skipped", "closed", "completed"}, Finish(w, result),
         UNCHANGED <<owns, pc, outbox, queue, spc, sjob>>,
         \/ pieceState'[p] = pieceState[p]
         \/ pieceState'[p] = "Completed"
  PROVE  HeldByOne(p)' /\ HeldIsInFlight(p)'
<1>1. WorkerTypeOK /\ SeedTypeOK /\ SessionTypeOK
  BY DEF OwnerInv, TypeOK
<1>2. HeldByOne(p) /\ HeldIsInFlight(p)
  BY DEF OwnerInv
<1>3. /\ wpc'[w] = "idle"
      /\ \A v \in Worker \ {w} : wpc'[v] = wpc[v] /\ wjob'[v] = wjob[v]
  BY <1>1 DEF Finish, Step, WorkerTypeOK
<1>4. \A v \in Worker : PoolOwns(v, p)' => v # w /\ PoolOwns(v, p)
  BY <1>3 DEF PoolOwns
<1>5. PoolKept(p)
  BY <1>4 DEF PoolKept
<1>6. LoopsKept(p) /\ SendsKept(p) /\ QueueKept(p) /\ SeedsKept(p)
  BY HolderFrames
<1>7. \A s \in WebSeed : s # wjob[w].src => sres'[s] = sres[s]
  BY <1>1 DEF Finish, SendResult, SeedTypeOK
<1>8. \A s \in WebSeed : ResultOwns(s, p)' /\ s # wjob[w].src => ResultOwns(s, p)
  BY <1>7 DEF ResultOwns
<1>9. CASE ResultsKept(p)
  <2>1. Holders(p)' \subseteq Holders(p)
    BY <1>5, <1>6, <1>9, HoldersKept
  <2> QED
    BY <1>2, <2>1, HolderUndisturbed DEF HeldByOne
<1>10. CASE ~ResultsKept(p)
  <2>1. PICK s \in WebSeed : ResultOwns(s, p)' /\ ~ResultOwns(s, p)
    BY <1>10 DEF ResultsKept
  <2>2. s = wjob[w].src
    BY <1>8, <2>1
  <2>3. spc[s] = "await" /\ sjob[s].own /\ sjob[s].piece = p
    BY <2>1 DEF ResultOwns
  <2>4. wjob[w] = sjob[s]
    BY <2>2, <2>3 DEF OwnerInv, TicketsAreOne, PoolFor
  <2>5. <<"pool", w>> \in Holders(p)
    BY <2>3, <2>4, WhoHolds DEF PoolOwns
  <2>6. <<"pool", w>> \notin Holders(p)'
    BY <1>3, WhoWillHold DEF PoolOwns
  <2>7. \A r \in WebSeed : ResultOwns(r, p)' => r = s \/ ResultOwns(r, p)
    BY <1>8, <2>2
  <2>8. \A c \in Holders(p)' : c = <<"result", s>> \/ c \in Holders(p)
    BY <1>5, <1>6, <2>7
    DEF Holders, Owners, LoopsKept, SendsKept, QueueKept, PoolKept, SeedsKept
  <2>9. pieceState'[p] = pieceState[p]
    BY <2>1 DEF ResultOwns
  <2>10. Passes(p, <<"pool", w>>, <<"result", s>>)
    BY <2>6, <2>8 DEF Passes
  <2>11. HeldByOne(p)'
    BY <1>2, <2>5, <2>10, OneHolderPasses DEF HeldByOne
  <2> QED
    BY <1>2, <2>5, <2>9, <2>11 DEF HeldIsInFlight
<1> QED
  BY <1>9, <1>10

\* Every step of a write worker that hands nothing back.
LEMMA WorkerOwners ==
  ASSUME OwnerInv, ~handedBack', NEW w \in Worker, WorkerNext(w),
         NEW p \in Piece
  PROVE  HeldByOne(p)' /\ HeldIsInFlight(p)'
<1>1. WorkerTypeOK /\ SessionTypeOK
  BY DEF OwnerInv, TypeOK
<1>2. ~HashFailed(w) /\ ~ResetProgress(w) /\ ~StorageFailed(w)
  BY DEF HashFailed, ResetProgress, StorageFailed
<1>3. CASE TakeJob(w)
  BY <1>3, TakenOwner DEF TakeJob
<1>4. CASE SkipJob(w) \/ WriteRefused(w) \/ MarkPieceCompleted(w)
  <2>1. PICK result \in {"skipped", "closed", "completed"} : Finish(w, result)
    BY <1>4 DEF SkipJob, WriteRefused, MarkPieceCompleted
  <2>2. /\ ~handedBack /\ wpc[w] # "idle"
        /\ UNCHANGED <<owns, pc, outbox, queue, spc, sjob>>
    BY <1>4 DEF SkipJob, WriteRefused, MarkPieceCompleted, peerVars
  <2>3. \/ pieceState'[p] = pieceState[p]
        \/ pieceState'[p] = "Completed"
    BY <1>1, <1>4 DEF SkipJob, WriteRefused, MarkPieceCompleted, Marked, Set,
                      SessionTypeOK, sessionVars
  <2> QED
    BY <2>1, <2>2, <2>3, ReturnedOwner
<1>5. CASE AcceptJob(w) \/ WriteSucceeds(w) \/ WriteFails(w)
  <2>1. /\ ~handedBack
        /\ UNCHANGED <<owns, pc, outbox, queue, seedVars, wjob, pieceState>>
    BY <1>5 DEF AcceptJob, WriteSucceeds, WriteFails, sessionVars, peerVars
  <2>2. \A v \in Worker : PoolOwns(v, p)' => PoolOwns(v, p)
    BY <1>1, <1>5, <2>1 DEF AcceptJob, WriteSucceeds, WriteFails, Step,
                            PoolOwns, WorkerTypeOK
  <2>3. PoolKept(p)
    BY <2>2 DEF PoolKept
  <2>4. UNCHANGED <<spc, sjob>>
    BY <2>1 DEF seedVars
  <2>5. Holders(p)' \subseteq Holders(p)
    BY <2>1, <2>3, <2>4, HolderFrames, HoldersKept
  <2>6. HeldByOne(p) /\ HeldIsInFlight(p)
    BY <2>1 DEF OwnerInv
  <2> QED
    BY <2>1, <2>5, <2>6, HolderUndisturbed DEF HeldByOne
<1> QED
  BY <1>2, <1>3, <1>4, <1>5 DEF WorkerNext

-----------------------------------------------------------------------------
(* Webseed workers.                                                        *)

\* A webseed worker's claim: again only of a free piece.
LEMMA SeedTakes ==
  ASSUME OwnerInv, ~handedBack, NEW s \in WebSeed, NEW q \in Piece,
         NEW own \in BOOLEAN, SeedClaims(s, q, own), NEW p \in Piece
  PROVE  HeldByOne(p)' /\ HeldIsInFlight(p)'
<1>1. SeedTypeOK /\ SessionTypeOK
  BY DEF OwnerInv, TypeOK
<1>2. UNCHANGED <<owns, pc, outbox, queue, workerVars, sres>>
  BY DEF SeedClaims, peerVars
<1>3. HeldByOne(p) /\ HeldIsInFlight(p)
  BY DEF OwnerInv
<1>4. PICK good \in BOOLEAN :
        sjob' = [sjob EXCEPT ![s] =
                   [piece |-> q, src |-> s, own |-> own, good |-> good]]
  BY DEF SeedClaims
<1>5. /\ sjob'[s].own = own /\ sjob'[s].piece = q /\ spc'[s] = "fetch"
      /\ \A r \in WebSeed \ {s} : sjob'[r] = sjob[r] /\ spc'[r] = spc[r]
  BY <1>1, <1>4 DEF SeedClaims, SeedStep, SeedTypeOK
<1>6. \A r \in WebSeed : SeedOwns(r, p)' =>
        SeedOwns(r, p) \/ (r = s /\ own /\ p = q)
  BY <1>5 DEF SeedOwns
<1>7. pieceState[p] = "Completed" => pieceState'[p] = "Completed"
  BY <1>1 DEF SeedClaims, Needed, Set, SessionTypeOK
<1>8. ResultsKept(p)
  BY <1>2, <1>5, <1>7 DEF ResultsKept, ResultOwns
<1>9. LoopsKept(p) /\ SendsKept(p) /\ QueueKept(p) /\ PoolKept(p)
  BY <1>2, HolderFrames
<1>10. CASE own /\ p = q
  <2>1. pieceState[p] = "Empty" /\ pieceState'[p] = "Downloading"
    BY <1>1, <1>10 DEF SeedClaims, Needed, Set, SessionTypeOK
  <2>2. Holders(p) = {}
    BY <2>1, FreeHasNoHolder
  <2>3. \A c \in Holders(p)' : c = <<"fetch", s>> \/ c \in Holders(p)
    BY <1>6, <1>8, <1>9
    DEF Holders, Owners, LoopsKept, SendsKept, QueueKept, PoolKept, ResultsKept
  <2>4. Passes(p, <<"nobody", s>>, <<"fetch", s>>)
    BY <2>2, <2>3 DEF Passes
  <2> QED
    BY <1>2, <1>3, <2>1, <2>2, <2>4, FirstHolder DEF HeldIsInFlight, HeldByOne
<1>11. CASE ~(own /\ p = q)
  <2>1. pieceState'[p] = pieceState[p]
    BY <1>1, <1>11 DEF SeedClaims, Set, SessionTypeOK
  <2>2. SeedsKept(p)
    BY <1>6, <1>11 DEF SeedsKept
  <2>3. Holders(p)' \subseteq Holders(p)
    BY <1>8, <1>9, <2>2, HoldersKept
  <2> QED
    BY <1>2, <1>3, <2>1, <2>3, HolderUndisturbed DEF HeldByOne
<1> QED
  BY <1>10, <1>11

\* Steps of a webseed worker that add no holder; a piece it puts back in the
\* pool was its own.
LEMMA SeedGivesUp ==
  ASSUME OwnerInv, ~handedBack, NEW s \in WebSeed, NEW p \in Piece,
         \/ SeedExits(s) \/ SeedFetched(s) \/ SeedFetchFailed(s)
         \/ SeedEnqueueAborted(s) \/ SeedResult(s) \/ SeedAwaitAborted(s)
  PROVE  HeldByOne(p)' /\ HeldIsInFlight(p)'
<1>1. SeedTypeOK /\ SessionTypeOK
  BY DEF OwnerInv, TypeOK
<1>2. UNCHANGED <<owns, pc, outbox, queue, workerVars>>
  BY DEF SeedExits, SeedFetched, SeedFetchFailed, SeedEnqueueAborted,
         SeedResult, SeedAwaitAborted, peerVars
<1>3. HeldByOne(p) /\ HeldIsInFlight(p)
  BY DEF OwnerInv
<1>4. \/ pieceState'[p] = pieceState[p]
      \/ /\ pieceState[p] = "Downloading" /\ pieceState'[p] = "Empty"
         /\ sjob[s].own /\ sjob[s].piece = p
         /\ \/ SeedFetchFailed(s) \/ SeedEnqueueAborted(s)
            \/ SeedResult(s) /\ sres[s] \in {"skipped", "closed"}
  BY <1>1 DEF SeedExits, SeedFetched, SeedFetchFailed, SeedEnqueueAborted,
              SeedResult, SeedAwaitAborted, SeedReleases, ReturnToPool,
              SessionTypeOK, sessionVars
<1>5. \A r \in WebSeed \ {s} :
        spc'[r] = spc[r] /\ sjob'[r] = sjob[r] /\ sres'[r] = sres[r]
  BY <1>1 DEF SeedExits, SeedFetched, SeedFetchFailed, SeedEnqueueAborted,
              SeedResult, SeedAwaitAborted, SeedStep, SeedTypeOK
<1>6. /\ spc'[s] # "await"
      /\ spc'[s] \in {"fetch", "send"} =>
           /\ SeedFetched(s) /\ spc[s] \in {"fetch", "send"}
           /\ sjob'[s] = sjob[s]
  BY <1>1 DEF SeedExits, SeedFetched, SeedFetchFailed, SeedEnqueueAborted,
              SeedResult, SeedAwaitAborted, SeedStep, SeedTypeOK
<1>7. SeedsKept(p)
  BY <1>5, <1>6 DEF SeedsKept, SeedOwns
<1>8. pieceState[p] = "Completed" => pieceState'[p] = "Completed"
  BY <1>4
<1>9. \A r \in WebSeed : ResultOwns(r, p)' => r # s /\ ResultOwns(r, p)
  BY <1>5, <1>6, <1>8 DEF ResultOwns
<1>10. ResultsKept(p)
  BY <1>9 DEF ResultsKept
<1>11. Holders(p)' \subseteq Holders(p)
  BY <1>2, <1>7, <1>10, HolderFrames, HoldersKept
<1>12. CASE pieceState'[p] = pieceState[p]
  BY <1>2, <1>3, <1>11, <1>12, HolderUndisturbed DEF HeldByOne
<1>13. CASE pieceState'[p] # pieceState[p]
  <2>1. /\ pieceState[p] = "Downloading"
        /\ sjob[s].own /\ sjob[s].piece = p
        /\ \/ SeedFetchFailed(s) \/ SeedEnqueueAborted(s)
           \/ SeedResult(s) /\ sres[s] \in {"skipped", "closed"}
    BY <1>4, <1>13
  <2>2. CASE SeedFetchFailed(s) \/ SeedEnqueueAborted(s)
    <3>1. SeedOwns(s, p)
      BY <2>1, <2>2 DEF SeedFetchFailed, SeedEnqueueAborted, SeedOwns
    <3>2. ~SeedOwns(s, p)'
      <4>1. spc'[s] \notin {"fetch", "send"}
        BY <1>1, <2>2
        DEF SeedFetchFailed, SeedEnqueueAborted, SeedStep, SeedTypeOK
      <4> QED
        BY <4>1 DEF SeedOwns
    <3>3. <<"fetch", s>> \in Holders(p) /\ <<"fetch", s>> \notin Holders(p)'
      BY <3>1, <3>2, WhoHolds, WhoWillHold
    <3> QED
      BY <1>2, <1>3, <1>11, <3>3, LastHolder DEF HeldByOne
  <2>3. CASE SeedResult(s) /\ sres[s] \in {"skipped", "closed"}
    <3>1. ResultOwns(s, p)
      BY <2>1, <2>3 DEF SeedResult, ResultOwns
    <3>2. <<"result", s>> \in Holders(p) /\ <<"result", s>> \notin Holders(p)'
      BY <1>9, <3>1, WhoHolds, WhoWillHold
    <3> QED
      BY <1>2, <1>3, <1>11, <3>2, LastHolder DEF HeldByOne
  <2> QED
    BY <2>1, <2>2, <2>3
<1> QED
  BY <1>12, <1>13

\* A fetched piece carries its claim into the queue.
LEMMA SeedQueues ==
  ASSUME OwnerInv, ~handedBack, NEW s \in WebSeed, SeedEnqueues(s),
         NEW p \in Piece
  PROVE  HeldByOne(p)' /\ HeldIsInFlight(p)'
<1>1. SeedTypeOK /\ sjob[s] \in Job
  BY DEF OwnerInv, TypeOK, SeedTypeOK
<1>2. UNCHANGED <<owns, pc, outbox, workerVars, sjob, pieceState>>
  BY DEF SeedEnqueues, sessionVars, peerVars
<1>3. HeldByOne(p) /\ HeldIsInFlight(p)
  BY DEF OwnerInv
<1>4. /\ DOMAIN queue' = DOMAIN queue \cup {Len(queue) + 1}
      /\ queue'[Len(queue) + 1] = sjob[s]
      /\ \A i \in DOMAIN queue : queue'[i] = queue[i]
  <2>1. TypeOK /\ queue' = Append(queue, sjob[s])
    BY DEF OwnerInv, SeedEnqueues
  <2> QED
    BY <1>1, <2>1, Appended
<1>5. /\ spc[s] = "send" /\ spc'[s] = "await" /\ sres'[s] = "none"
      /\ \A r \in WebSeed \ {s} : spc'[r] = spc[r] /\ sres'[r] = sres[r]
  BY <1>1 DEF SeedEnqueues, SeedStep, SeedTypeOK
<1>6. \A r \in WebSeed : SeedOwns(r, p)' => r # s /\ SeedOwns(r, p)
  BY <1>2, <1>5 DEF SeedOwns
<1>7. SeedsKept(p)
  BY <1>6 DEF SeedsKept
<1>8. ResultsKept(p)
  BY <1>2, <1>5 DEF ResultsKept, ResultOwns
<1>9. LoopsKept(p) /\ SendsKept(p) /\ PoolKept(p)
  BY <1>2, HolderFrames
<1>10. CASE sjob[s].own /\ sjob[s].piece = p
  <2> DEFINE x == <<"fetch", s>>
             y == <<"queue", Len(queue) + 1>>
  <2>1. x \in Holders(p)
    BY <1>5, <1>10, WhoHolds DEF SeedOwns
  <2>2. x \notin Holders(p)'
    BY <1>6, WhoWillHold
  <2>3. \A i \in DOMAIN queue' :
          QueueOwns(i, p)' => i = Len(queue) + 1
                                \/ (i \in DOMAIN queue /\ QueueOwns(i, p))
    BY <1>4 DEF QueueOwns
  <2>4. \A c \in Holders(p)' : c = y \/ c \in Holders(p)
    BY <1>7, <1>8, <1>9, <2>3
    DEF Holders, Owners, LoopsKept, SendsKept, PoolKept, SeedsKept,
        ResultsKept
  <2> QED
    BY <1>2, <1>3, <2>1, <2>2, <2>4, ClaimPassedOn
<1>11. CASE ~(sjob[s].own /\ sjob[s].piece = p)
  <2>1. QueueKept(p)
    BY <1>4, <1>11 DEF QueueKept, QueueOwns
  <2>2. Holders(p)' \subseteq Holders(p)
    BY <1>7, <1>8, <1>9, <2>1, HoldersKept
  <2> QED
    BY <1>2, <1>3, <2>2, HolderUndisturbed DEF HeldByOne
<1> QED
  BY <1>10, <1>11

\* Every step of a webseed worker.
LEMMA SeedOwners ==
  ASSUME OwnerInv, ~handedBack, NEW s \in WebSeed, SeedNext(s), NEW p \in Piece
  PROVE  HeldByOne(p)' /\ HeldIsInFlight(p)'
  BY SeedTakes, SeedGivesUp, SeedQueues DEF SeedNext

-----------------------------------------------------------------------------
(* Verification decides only pieces nobody holds; the user's actions leave *)
(* claims where they are.                                                  *)

\* Verification, the user, the storage, and stuttering.
LEMMA OtherOwners ==
  ASSUME OwnerInv, ~handedBack, VerifyNext \/ SessionNext \/ UNCHANGED vars,
         NEW p \in Piece
  PROVE  HeldByOne(p)' /\ HeldIsInFlight(p)'
<1>1. VerifyTypeOK /\ SessionTypeOK
  BY DEF OwnerInv, TypeOK
<1>2. HeldByOne(p) /\ HeldIsInFlight(p)
  BY DEF OwnerInv
<1>3. UNCHANGED <<owns, pc, outbox, queue, workerVars, seedVars>>
  <2>1. CASE VerifyNext
    BY <2>1 DEF VerifyNext, VerifyStart, VerifySkip, VerifyRead, VerifyApply,
                VerifyDone, VerifyStops, peerVars
  <2>2. CASE SessionNext
    BY <2>2 DEF SessionNext, Pause, Resume, SetFilePriority, BeginClose,
                CancelContext, FinishClose, ReleaseStorage, StorageStep,
                peerVars
  <2>3. CASE UNCHANGED vars
    BY <2>3 DEF vars, peerVars
  <2> QED
    BY <2>1, <2>2, <2>3
<1>4. \/ pieceState'[p] = pieceState[p]
      \/ pieceState'[p] = "Completed"
      \/ pieceState[p] = "Unverified" /\ pieceState'[p] = "Empty"
  <2>1. CASE VerifyNext
    BY <1>1, <2>1
    DEF VerifyNext, VerifyStart, VerifySkip, VerifyRead, VerifyApply,
        VerifyDone, VerifyStops, Set, VerifyTypeOK, SessionTypeOK, sessionVars
  <2>2. CASE SessionNext
    BY <2>2 DEF SessionNext, Pause, Resume, SetFilePriority, BeginClose,
                CancelContext, FinishClose, ReleaseStorage, StorageStep,
                sessionVars
  <2>3. CASE UNCHANGED vars
    BY <2>3 DEF vars, sessionVars
  <2> QED
    BY <2>1, <2>2, <2>3
<1>5. UNCHANGED <<spc, sjob>>
  BY <1>3 DEF seedVars
<1>6. pieceState[p] = "Completed" => pieceState'[p] = "Completed"
  BY <1>4
<1>7. Holders(p)' \subseteq Holders(p)
  BY <1>3, <1>5, <1>6, HolderFrames, HoldersKept
<1>8. CASE pieceState'[p] \in {pieceState[p], "Completed"}
  BY <1>2, <1>3, <1>7, <1>8, HolderUndisturbed DEF HeldByOne
<1>9. CASE pieceState[p] = "Unverified"
  BY <1>2, <1>3, <1>7, <1>9, OneHolderStays DEF HeldIsInFlight, HeldByOne
<1> QED
  BY <1>4, <1>8, <1>9

-----------------------------------------------------------------------------
(* Tickets: a webseed worker and the one job whose verdict it awaits.      *)

\* Nothing is added to the jobs of s, and s waits on as it did.
LEMMA TicketsKept ==
  ASSUME NEW s \in WebSeed, TicketsAreOne(s),
         \A i \in DOMAIN queue' : QueuedFor(i, s)' =>
           i \in DOMAIN queue /\ queue'[i] = queue[i] /\ QueuedFor(i, s),
         \A w \in Worker : PoolFor(w, s)' => PoolFor(w, s) /\ wjob'[w] = wjob[w],
         spc'[s] = "await" =>
           spc[s] = "await" /\ sjob'[s] = sjob[s] /\ sres'[s] = sres[s],
         spc[s] \in {"await", "exited"} => spc'[s] \in {"await", "exited"}
  PROVE  TicketsAreOne(s)'
<1>1. Tickets(s)' \subseteq Tickets(s)
  BY DEF Tickets
<1> QED
  BY <1>1 DEF TicketsAreOne

\* A step that finds no job of s, or leaves s not waiting for one.
LEMMA NoTickets ==
  ASSUME NEW s \in WebSeed, Tickets(s) = {},
         \A i \in DOMAIN queue' : QueuedFor(i, s)' =>
           i \in DOMAIN queue /\ QueuedFor(i, s),
         \A w \in Worker : PoolFor(w, s)' => PoolFor(w, s)
  PROVE  TicketsAreOne(s)'
<1>1. /\ \A i \in DOMAIN queue : QueuedFor(i, s) => <<"queue", i>> \in Tickets(s)
      /\ \A w \in Worker : PoolFor(w, s) => <<"pool", w>> \in Tickets(s)
  BY DEF Tickets
<1>2. /\ \A i \in DOMAIN queue' : ~QueuedFor(i, s)'
      /\ \A w \in Worker : ~PoolFor(w, s)'
  BY <1>1
<1>3. Tickets(s)' = {}
  BY <1>2 DEF Tickets
<1> QED
  BY <1>2, <1>3 DEF TicketsAreOne

\* A step elsewhere changes no ticket.
LEMMA TicketFrames ==
  ASSUME OwnerInv, UNCHANGED <<queue, workerVars>>, NEW s \in WebSeed,
         UNCHANGED <<spc[s], sjob[s], sres[s]>>
  PROVE  TicketsAreOne(s)'
<1>1. TicketsAreOne(s)
  BY DEF OwnerInv
<1>2. \A i \in DOMAIN queue' : QueuedFor(i, s)' =>
        i \in DOMAIN queue /\ queue'[i] = queue[i] /\ QueuedFor(i, s)
  BY DEF QueuedFor
<1>3. \A w \in Worker : PoolFor(w, s)' => PoolFor(w, s) /\ wjob'[w] = wjob[w]
  BY DEF PoolFor, workerVars
<1> QED
  BY <1>1, <1>2, <1>3, TicketsKept

\* A loop's job is not a webseed's.
LEMMA PeerTickets ==
  ASSUME OwnerInv, NEW h \in Peer, PeerNext(h), NEW s \in WebSeed
  PROVE  TicketsAreOne(s)'
<1>1. CASE Enqueue(h)
  <2>1. outbox[h] \in Job /\ UNCHANGED <<workerVars, spc, sjob, sres>>
    BY <1>1 DEF Enqueue, OwnerInv, TypeOK, PeerTypeOK, seedVars
  <2>2. /\ DOMAIN queue' = DOMAIN queue \cup {Len(queue) + 1}
        /\ queue'[Len(queue) + 1] = outbox[h]
        /\ \A i \in DOMAIN queue : queue'[i] = queue[i]
    <3>1. TypeOK /\ queue' = Append(queue, outbox[h])
      BY <1>1 DEF OwnerInv, Enqueue
    <3> QED
      BY <2>1, <3>1, Appended
  <2>3. outbox[h].src \in Peer
    BY <1>1 DEF Enqueue, OwnerInv, JobsAreNamed
  <2>4. \A i \in DOMAIN queue' : QueuedFor(i, s)' =>
          i \in DOMAIN queue /\ queue'[i] = queue[i] /\ QueuedFor(i, s)
    BY <2>2, <2>3, PeersAssumption DEF QueuedFor
  <2>5. \A w \in Worker : PoolFor(w, s)' => PoolFor(w, s) /\ wjob'[w] = wjob[w]
    BY <2>1 DEF PoolFor, workerVars
  <2>6. TicketsAreOne(s)
    BY DEF OwnerInv
  <2> QED
    BY <2>1, <2>4, <2>5, <2>6, TicketsKept
<1>2. CASE ~Enqueue(h)
  <2>1. UNCHANGED <<queue, workerVars, seedVars>>
    BY <1>2
    DEF PeerNext, Connect, Disconnect, Choke, Unchoke, RejectRequest,
        LastBlock, OtherMessage, KeepAlive, DropCompletedElsewhere,
        ClaimPiece, CopyPiece, PumpDone, EnqueueAborted
  <2> QED
    BY <2>1, TicketFrames DEF seedVars
<1> QED
  BY <1>1, <1>2

\* The tickets one by one, before and after a step.
LEMMA WhoseTickets ==
  ASSUME NEW s \in WebSeed
  PROVE  /\ \A i \in DOMAIN queue :
              QueuedFor(i, s) <=> <<"queue", i>> \in Tickets(s)
         /\ \A w \in Worker : PoolFor(w, s) <=> <<"pool", w>> \in Tickets(s)
         /\ \A i \in DOMAIN queue' :
              QueuedFor(i, s)' <=> <<"queue", i>> \in Tickets(s)'
         /\ \A w \in Worker : PoolFor(w, s)' <=> <<"pool", w>> \in Tickets(s)'
  BY DEF Tickets

\* A worker that takes a job takes its ticket, one that is done drops it and
\* leaves the verdict.
LEMMA WorkerTickets ==
  ASSUME OwnerInv, NEW w \in Worker, WorkerNext(w), NEW s \in WebSeed
  PROVE  TicketsAreOne(s)'
<1>1. WorkerTypeOK /\ SeedTypeOK /\ TicketsAreOne(s)
  BY DEF OwnerInv, TypeOK
<1>2. UNCHANGED <<spc, sjob>>
  BY DEF WorkerNext, TakeJob, SkipJob, AcceptJob, HashFailed, WriteSucceeds,
         WriteFails, WriteRefused, MarkPieceCompleted, ResetProgress,
         StorageFailed, seedVars
<1>3. CASE TakeJob(w)
  <2>1. /\ 1 \in DOMAIN queue /\ wjob'[w] = queue[1]
        /\ \A i \in DOMAIN queue' :
             i + 1 \in DOMAIN queue /\ queue'[i] = queue[i + 1] /\ i \in Nat
        /\ wpc[w] = "idle"
        /\ \A v \in Worker \ {w} : wpc'[v] = wpc[v] /\ wjob'[v] = wjob[v]
    BY <1>3, Taken DEF OwnerInv
  <2>2. sres' = sres
    BY <1>3 DEF TakeJob, seedVars
  <2>3. /\ \A i \in DOMAIN queue :
             QueuedFor(i, s) <=> <<"queue", i>> \in Tickets(s)
        /\ \A v \in Worker : PoolFor(v, s) <=> <<"pool", v>> \in Tickets(s)
    BY WhoseTickets
  <2>4. /\ \A i \in DOMAIN queue' : QueuedFor(i, s)' => QueuedFor(i + 1, s)
        /\ PoolFor(w, s)' => QueuedFor(1, s)
        /\ \A v \in Worker \ {w} : PoolFor(v, s)' => PoolFor(v, s)
    BY <2>1 DEF QueuedFor, PoolFor
  <2>5. ASSUME NEW c \in Tickets(s)'
        PROVE  Tickets(s) # {}
    <3>1. \/ \E i \in DOMAIN queue' : QueuedFor(i, s)'
          \/ \E v \in Worker : PoolFor(v, s)'
      BY <2>5 DEF Tickets
    <3>2. \/ \E i \in DOMAIN queue : QueuedFor(i, s)
          \/ \E v \in Worker : PoolFor(v, s)
      BY <2>1, <2>4, <3>1
    <3> QED
      BY <2>3, <3>2
  <2>6. ASSUME spc[s] = "await"
        PROVE  /\ \A i \in DOMAIN queue' : QueuedFor(i, s)' => queue'[i] = sjob[s]
               /\ \A v \in Worker : PoolFor(v, s)' => wjob'[v] = sjob[s]
    BY <1>1, <2>1, <2>4, <2>6 DEF TicketsAreOne
  <2>7. ASSUME spc[s] = "await", NEW c \in Tickets(s)', NEW d \in Tickets(s)'
        PROVE  c = d
    <3> DEFINE Was(x, b) ==
          \/ x \in {"pool"} \X (Worker \ {w}) /\ b = x
          \/ x = <<"pool", w>> /\ b = <<"queue", 1>>
          \/ \E i \in Nat : i # 0 /\ x = <<"queue", i>> /\ b = <<"queue", i + 1>>
    <3>1. ASSUME NEW x \in Tickets(s)'
          PROVE  \E b \in Tickets(s) : Was(x, b)
      <4>1. CASE x \in {"queue"} \X {i \in DOMAIN queue' : QueuedFor(i, s)'}
        <5>1. PICK i \in DOMAIN queue' : x = <<"queue", i>> /\ QueuedFor(i, s)'
          BY <4>1
        <5>2. i # 0
          BY <1>3 DEF TakeJob, OwnerInv, TypeOK, QueueTypeOK
        <5> QED
          BY <2>1, <2>3, <2>4, <5>1, <5>2
      <4>2. CASE x \in {"pool"} \X {v \in Worker : PoolFor(v, s)'}
        <5>1. PICK v \in Worker : x = <<"pool", v>> /\ PoolFor(v, s)'
          BY <4>2
        <5>2. CASE v = w
          BY <2>1, <2>3, <2>4, <5>1, <5>2
        <5>3. CASE v # w
          BY <2>3, <2>4, <5>1, <5>3
        <5> QED
          BY <5>2, <5>3
      <4> QED
        BY <4>1, <4>2 DEF Tickets
    <3>2. \A b, e \in Tickets(s) : b = e
      BY <1>1, <2>7 DEF TicketsAreOne
    <3>3. PICK b \in Tickets(s) : Was(c, b) /\ Was(d, b)
      BY <3>1, <3>2
    <3> QED
      BY <3>3
  <2> QED
    BY <1>1, <1>2, <2>2, <2>5, <2>6, <2>7 DEF TicketsAreOne
<1>4. CASE AcceptJob(w) \/ WriteSucceeds(w) \/ WriteFails(w)
  <2>1. UNCHANGED <<queue, wjob, sres>> /\ wpc[w] # "idle"
    BY <1>4 DEF AcceptJob, WriteSucceeds, WriteFails, seedVars
  <2>2. \A v \in Worker : wpc'[v] # "idle" => wpc[v] # "idle"
    BY <1>1, <1>4 DEF AcceptJob, WriteSucceeds, WriteFails, Step, WorkerTypeOK
  <2> QED
    BY <1>1, <1>2, <2>1, <2>2, TicketsKept DEF QueuedFor, PoolFor
<1>5. ASSUME NEW result, Finish(w, result), wpc[w] # "idle", UNCHANGED queue
      PROVE  TicketsAreOne(s)'
  <2>1. /\ wpc'[w] = "idle"
        /\ \A v \in Worker \ {w} : wpc'[v] = wpc[v] /\ wjob'[v] = wjob[v]
    BY <1>1, <1>5 DEF Finish, Step, WorkerTypeOK
  <2>2. \A v \in Worker : PoolFor(v, s)' => /\ PoolFor(v, s)
                                            /\ wjob'[v] = wjob[v] /\ v # w
    BY <2>1 DEF PoolFor
  <2>3. \A i \in DOMAIN queue' : QueuedFor(i, s)' =>
          i \in DOMAIN queue /\ queue'[i] = queue[i] /\ QueuedFor(i, s)
    BY <1>5 DEF QueuedFor
  <2>4. CASE wjob[w].src # s
    <3>1. sres'[s] = sres[s]
      BY <1>1, <1>5, <2>4 DEF Finish, SendResult, SeedTypeOK
    <3> QED
      BY <1>1, <1>2, <2>2, <2>3, <3>1, TicketsKept
  <2>5. CASE wjob[w].src = s
    <3>1. <<"pool", w>> \in Tickets(s)
      BY <1>5, <2>5 DEF Tickets, PoolFor
    <3>2. spc[s] \in {"await", "exited"}
      BY <1>1, <3>1 DEF TicketsAreOne
    <3>3. Tickets(s)' \subseteq Tickets(s) \ {<<"pool", w>>}
      BY <2>2, <2>3 DEF Tickets
    <3>4. spc[s] = "await" => Tickets(s)' = {}
      BY <1>1, <3>1, <3>3 DEF TicketsAreOne
    <3>5. spc[s] = "await" =>
            /\ \A i \in DOMAIN queue' : ~QueuedFor(i, s)'
            /\ \A v \in Worker : ~PoolFor(v, s)'
      BY <3>4, WhoseTickets
    <3> QED
      BY <1>2, <3>2, <3>4, <3>5 DEF TicketsAreOne
  <2> QED
    BY <2>4, <2>5
<1>6. CASE \/ SkipJob(w) \/ HashFailed(w) \/ WriteRefused(w)
           \/ MarkPieceCompleted(w) \/ ResetProgress(w) \/ StorageFailed(w)
  <2>1. PICK result \in {"skipped", "failed", "closed", "completed"} :
          Finish(w, result)
    BY <1>6 DEF SkipJob, HashFailed, WriteRefused, MarkPieceCompleted,
                ResetProgress, StorageFailed
  <2>2. wpc[w] # "idle" /\ UNCHANGED queue
    BY <1>6 DEF SkipJob, HashFailed, WriteRefused, MarkPieceCompleted,
                ResetProgress, StorageFailed
  <2> QED
    BY <1>5, <2>1, <2>2
<1> QED
  BY <1>3, <1>4, <1>6 DEF WorkerNext

\* A webseed worker queues one job, and only when it has none.
LEMMA SeedTickets ==
  ASSUME OwnerInv, NEW r \in WebSeed, SeedNext(r), NEW s \in WebSeed
  PROVE  TicketsAreOne(s)'
<1>1. SeedTypeOK /\ TicketsAreOne(s) /\ UNCHANGED workerVars
  BY DEF OwnerInv, TypeOK, SeedNext, SeedClaims, SeedExits, SeedFetched,
         SeedFetchFailed, SeedEnqueues, SeedEnqueueAborted, SeedResult,
         SeedAwaitAborted
<1>2. r # s => UNCHANGED <<spc[s], sjob[s], sres[s]>>
  <2>1. r # s => spc'[s] = spc[s]
    BY <1>1 DEF SeedNext, SeedClaims, SeedExits, SeedFetched, SeedFetchFailed,
                SeedEnqueues, SeedEnqueueAborted, SeedResult, SeedAwaitAborted,
                SeedStep, SeedTypeOK
  <2>2. r # s => sjob'[s] = sjob[s]
    BY <1>1 DEF SeedNext, SeedClaims, SeedExits, SeedFetched, SeedFetchFailed,
                SeedEnqueues, SeedEnqueueAborted, SeedResult, SeedAwaitAborted,
                SeedTypeOK
  <2>3. r # s => sres'[s] = sres[s]
    BY <1>1 DEF SeedNext, SeedClaims, SeedExits, SeedFetched, SeedFetchFailed,
                SeedEnqueues, SeedEnqueueAborted, SeedResult, SeedAwaitAborted,
                SeedTypeOK
  <2> QED
    BY <2>1, <2>2, <2>3
<1>3. \A w \in Worker : PoolFor(w, s)' => PoolFor(w, s) /\ wjob'[w] = wjob[w]
  BY <1>1 DEF PoolFor, workerVars
<1>4. CASE SeedEnqueues(r)
  <2>1. /\ sjob[r] \in Job /\ sjob[r].src = r
        /\ spc[r] = "send" /\ spc'[r] = "await"
        /\ sjob' = sjob /\ sres'[r] = "none"
    BY <1>1, <1>4 DEF SeedEnqueues, SeedStep, SeedTypeOK, OwnerInv, JobsAreNamed
  <2>2. /\ DOMAIN queue' = DOMAIN queue \cup {Len(queue) + 1}
        /\ queue'[Len(queue) + 1] = sjob[r]
        /\ \A i \in DOMAIN queue : queue'[i] = queue[i]
    <3>1. TypeOK /\ queue' = Append(queue, sjob[r])
      BY <1>4 DEF OwnerInv, SeedEnqueues
    <3> QED
      BY <2>1, <3>1, Appended
  <2>3. CASE r # s
    <3>1. \A i \in DOMAIN queue' : QueuedFor(i, s)' =>
            i \in DOMAIN queue /\ queue'[i] = queue[i] /\ QueuedFor(i, s)
      BY <2>1, <2>2, <2>3 DEF QueuedFor
    <3> QED
      BY <1>1, <1>2, <1>3, <2>3, <3>1, TicketsKept
  <2>4. CASE r = s
    <3>1. Tickets(s) = {}
      BY <1>1, <2>1, <2>4 DEF TicketsAreOne
    <3>2. /\ \A i \in DOMAIN queue : ~QueuedFor(i, s)
          /\ \A w \in Worker : ~PoolFor(w, s)
      BY <3>1, WhoseTickets
    <3>3. /\ \A i \in DOMAIN queue' : QueuedFor(i, s)' => i = Len(queue) + 1
          /\ \A w \in Worker : ~PoolFor(w, s)'
      BY <1>3, <2>2, <3>2 DEF QueuedFor
    <3>4. \A c \in Tickets(s)' : c = <<"queue", Len(queue) + 1>>
      BY <3>3 DEF Tickets
    <3> QED
      BY <2>1, <2>2, <2>4, <3>3, <3>4 DEF TicketsAreOne
  <2> QED
    BY <2>3, <2>4
<1>5. CASE ~SeedEnqueues(r)
  <2>1. UNCHANGED queue
    BY <1>5 DEF SeedNext, SeedClaims, SeedExits, SeedFetched, SeedFetchFailed,
                SeedEnqueueAborted, SeedResult, SeedAwaitAborted
  <2>2. \A i \in DOMAIN queue' : QueuedFor(i, s)' =>
          i \in DOMAIN queue /\ queue'[i] = queue[i] /\ QueuedFor(i, s)
    BY <2>1 DEF QueuedFor
  <2>3. CASE r # s
    BY <1>1, <1>2, <1>3, <2>2, <2>3, TicketsKept
  <2>4. CASE r = s
    <3>1. \/ spc[s] \in {"idle", "fetch", "send"}
          \/ SeedResult(s) /\ sres[s] # "none" /\ spc[s] = "await"
          \/ SeedAwaitAborted(s) /\ spc'[s] = "exited" /\ spc[s] = "await"
      BY <1>1, <1>5, <2>4
      DEF SeedNext, SeedClaims, SeedExits, SeedFetched, SeedFetchFailed,
          SeedEnqueueAborted, SeedResult, SeedAwaitAborted, SeedStep, SeedTypeOK
    <3>2. CASE SeedAwaitAborted(s) /\ spc'[s] = "exited" /\ spc[s] = "await"
      BY <1>1, <1>3, <2>2, <3>2, TicketsKept
    <3>3. CASE \/ spc[s] \in {"idle", "fetch", "send"}
               \/ sres[s] # "none" /\ spc[s] = "await"
      <4>1. Tickets(s) = {}
        BY <1>1, <3>3 DEF TicketsAreOne
      <4> QED
        BY <1>3, <2>2, <4>1, NoTickets
    <3> QED
      BY <3>1, <3>2, <3>3
  <2> QED
    BY <2>3, <2>4
<1> QED
  BY <1>4, <1>5

\* Verification, the user and stuttering leave the tickets alone.
LEMMA OtherTickets ==
  ASSUME OwnerInv, VerifyNext \/ SessionNext \/ UNCHANGED vars,
         NEW s \in WebSeed
  PROVE  TicketsAreOne(s)'
<1>1. UNCHANGED <<queue, workerVars, seedVars>>
  <2>1. CASE VerifyNext
    BY <2>1 DEF VerifyNext, VerifyStart, VerifySkip, VerifyRead, VerifyApply,
                VerifyDone, VerifyStops
  <2>2. CASE SessionNext
    BY <2>2 DEF SessionNext, Pause, Resume, SetFilePriority, BeginClose,
                CancelContext, FinishClose, ReleaseStorage, StorageStep
  <2>3. CASE UNCHANGED vars
    BY <2>3 DEF vars
  <2> QED
    BY <2>1, <2>2, <2>3
<1> QED
  BY <1>1, TicketFrames DEF seedVars

\* Whoever builds a job signs it, and sends what it built.
LEMMA NextJobsAreNamed ==
  ASSUME OwnerInv, [Next]_vars
  PROVE  JobsAreNamed'
<1>1. JobsAreNamed /\ PeerTypeOK /\ SeedTypeOK
  BY DEF OwnerInv, TypeOK
<1>2. ASSUME NEW h \in Peer, PeerNext(h)
      PROVE  /\ UNCHANGED seedVars
             /\ \A g \in Peer : pc'[g] = "send" => outbox'[g].src = g
  <2>1. UNCHANGED seedVars
    BY <1>2
    DEF PeerNext, Connect, Disconnect, Choke, Unchoke, RejectRequest,
        LastBlock, OtherMessage, KeepAlive, DropCompletedElsewhere,
        ClaimPiece, CopyPiece, PumpDone, Enqueue, EnqueueAborted
  <2>2. CASE \E p \in Piece, own \in BOOLEAN, good \in BOOLEAN :
               LastBlock(h, p, own, good)
    BY <1>1, <2>1, <2>2 DEF LastBlock, Goto, JobsAreNamed, PeerTypeOK
  <2>3. CASE ~\E p \in Piece, own \in BOOLEAN, good \in BOOLEAN :
                LastBlock(h, p, own, good)
    <3>1. \A g \in Peer : pc'[g] = "send" =>
                            pc[g] = "send" /\ outbox'[g] = outbox[g]
      BY <1>1, <1>2, <2>3
      DEF PeerNext, Connect, Disconnect, Choke, Unchoke, RejectRequest,
          OtherMessage, KeepAlive, DropCompletedElsewhere, ClaimPiece,
          CopyPiece, PumpDone, Enqueue, EnqueueAborted, Goto, PeerTypeOK
    <3> QED
      BY <1>1, <2>1, <3>1 DEF JobsAreNamed
  <2> QED
    BY <2>1, <2>2, <2>3
<1>3. ASSUME NEW s \in WebSeed, SeedNext(s)
      PROVE  /\ UNCHANGED <<pc, outbox>>
             /\ \A r \in WebSeed :
                  spc'[r] \in {"fetch", "send"} => sjob'[r].src = r
  <2>1. UNCHANGED <<pc, outbox>>
    BY <1>3
    DEF SeedNext, SeedClaims, SeedExits, SeedFetched, SeedFetchFailed,
        SeedEnqueues, SeedEnqueueAborted, SeedResult, SeedAwaitAborted,
        peerVars
  <2>2. ASSUME NEW p \in Piece, NEW own \in BOOLEAN, SeedClaims(s, p, own),
               NEW r \in WebSeed, spc'[r] \in {"fetch", "send"}
        PROVE  sjob'[r].src = r
    BY <1>1, <2>2 DEF SeedClaims, SeedStep, JobsAreNamed, SeedTypeOK
  <2>3. CASE ~\E p \in Piece, own \in BOOLEAN : SeedClaims(s, p, own)
    <3>1. \A r \in WebSeed :
            spc'[r] \in {"fetch", "send"} =>
              spc[r] \in {"fetch", "send"} /\ sjob'[r] = sjob[r]
      BY <1>1, <1>3, <2>3
      DEF SeedNext, SeedExits, SeedFetched, SeedFetchFailed, SeedEnqueues,
          SeedEnqueueAborted, SeedResult, SeedAwaitAborted, SeedStep,
          SeedTypeOK
    <3> QED
      BY <1>1, <2>1, <3>1 DEF JobsAreNamed
  <2> QED
    BY <2>1, <2>2, <2>3
<1>4. ASSUME NEW w \in Worker, WorkerNext(w)
      PROVE  UNCHANGED <<pc, outbox, spc, sjob>>
  BY <1>4
  DEF WorkerNext, TakeJob, SkipJob, AcceptJob, HashFailed, WriteSucceeds,
      WriteFails, WriteRefused, MarkPieceCompleted, ResetProgress,
      StorageFailed, peerVars, seedVars
<1>5. CASE VerifyNext
  <2>1. UNCHANGED <<peerVars, seedVars>>
    BY <1>5 DEF VerifyNext, VerifyStart, VerifySkip, VerifyRead, VerifyApply,
                VerifyDone, VerifyStops
  <2> QED
    BY <1>1, <2>1 DEF JobsAreNamed, peerVars, seedVars
<1>6. CASE SessionNext
  <2>1. UNCHANGED <<pc, outbox, seedVars>>
    BY <1>6 DEF SessionNext, Pause, Resume, SetFilePriority, BeginClose,
                CancelContext, FinishClose, ReleaseStorage, StorageStep,
                peerVars
  <2> QED
    BY <1>1, <2>1 DEF JobsAreNamed, seedVars
<1>7. CASE UNCHANGED vars
  BY <1>1, <1>7 DEF JobsAreNamed, vars, peerVars, seedVars
<1> QED
  BY <1>1, <1>2, <1>3, <1>4, <1>5, <1>6, <1>7
  DEF Next, JobsAreNamed, seedVars

\* The invariant is inductive.
LEMMA NextOwnerInv == OwnerInv /\ [Next]_vars => OwnerInv'
<1> SUFFICES ASSUME OwnerInv, [Next]_vars PROVE OwnerInv'
  OBVIOUS
<1>1. TypeOK' /\ JobsAreNamed'
  BY NextTypeOK, NextJobsAreNamed DEF OwnerInv
<1>2. ASSUME NEW s \in WebSeed PROVE TicketsAreOne(s)'
  BY PeerTickets, WorkerTickets, SeedTickets, OtherTickets DEF Next
<1>3. ASSUME ~handedBack', NEW p \in Piece
      PROVE  HeldByOne(p)' /\ HeldIsInFlight(p)'
  <2>1. ~handedBack \/ \E w \in Worker : WorkerNext(w)
    <3>1. ASSUME NEW h \in Peer, PeerNext(h)
          PROVE  UNCHANGED handedBack
      BY <3>1
      DEF PeerNext, Connect, Disconnect, Choke, Unchoke, RejectRequest,
          LastBlock, OtherMessage, KeepAlive, DropCompletedElsewhere,
          ClaimPiece, CopyPiece, PumpDone, Enqueue, EnqueueAborted
    <3>2. ASSUME NEW s \in WebSeed, SeedNext(s)
          PROVE  UNCHANGED handedBack
      BY <3>2
      DEF SeedNext, SeedClaims, SeedExits, SeedFetched, SeedFetchFailed,
          SeedEnqueues, SeedEnqueueAborted, SeedResult, SeedAwaitAborted
    <3>3. ASSUME VerifyNext \/ SessionNext \/ UNCHANGED vars
          PROVE  UNCHANGED handedBack
      BY <3>3
      DEF VerifyNext, VerifyStart, VerifySkip, VerifyRead, VerifyApply,
          VerifyDone, VerifyStops, SessionNext, Pause, Resume,
          SetFilePriority, BeginClose, CancelContext, FinishClose,
          ReleaseStorage, StorageStep, vars
    <3> QED
      BY <1>3, <3>1, <3>2, <3>3 DEF Next
  <2> QED
    BY <1>3, <2>1, PeerOwners, WorkerOwners, SeedOwners, OtherOwners DEF Next
<1> QED
  BY <1>1, <1>2, <1>3 DEF OwnerInv

\* Until a worker hands a piece back (a corrupt copy, a failed write, a
\* repair), one loop, job or webseed worker at most owns it, whatever chokes,
\* rejects, disconnects, pauses and verdicts come in between.
THEOREM OneOwner == Spec => []SoleOwner
<1>1. Spec => []OwnerInv
  BY InitOwnerInv, NextOwnerInv, PTL DEF Spec
<1>2. OwnerInv => SoleOwner
  BY DEF OwnerInv, SoleOwner, HeldByOne, Holders
<1> QED
  BY <1>1, <1>2, PTL

-----------------------------------------------------------------------------
\* Types, claims and content together, as the runs state them.
THEOREM PieceSafety == Spec => []PiecesAreKept
<1>1. TypeOK /\ NoOrphanedClaim /\ CompletedOnDisk => PiecesAreKept
  BY DEF PiecesAreKept
<1> QED
  BY <1>1, TypeSafety, ClaimSafety, CompletedPiecesOnDisk, PTL
=============================================================================
