--------------------------- MODULE ResumeCheckpoint ---------------------------
(***************************************************************************)
(* Fast resume of one torrent: what the session flushes (flushState,       *)
(* pkg/downloader/resume.go), how the file and mmap backends turn it into  *)
(* hints and durable checkpoints, and what the next start may restore from *)
(* them without hashing (pkg/storage/resume_checkpoint.go, storage.go,     *)
(* mmap_storage_unix.go).                                                  *)
(*                                                                         *)
(* A file is its change stamp (its identity, with inode and times) and the *)
(* pieces whose part in it is right.  A piece is hashed in memory before   *)
(* it is written, so the program only ever writes parts that are right.    *)
(***************************************************************************)
EXTENDS Naturals, FiniteSets

CONSTANTS
    NumFiles, Pieces,
    Overlaps,       \* piece -> the files it lies in
    Plans,          \* records [mmap, wanted, clock]: the backend, the pieces of unskipped
                    \* files, and the bound on stamps
    Rechecks,       \* what a start may ask for: TRUE is --recheck (verifyOnStartup)
    Settles,        \* TRUE: what a run wrote reaches the disk before the next start
    MaxFaults       \* bound: changes by other programs, crashes, power losses,
                    \* failed syncs and failed writes of the state file

ASSUME ResumeAssumption ==
    /\ NumFiles \in Nat /\ Overlaps \in [Pieces -> SUBSET (1 .. NumFiles)]
    /\ Plans \subseteq [mmap : BOOLEAN, wanted : SUBSET Pieces, clock : Nat]
    /\ Settles \in BOOLEAN /\ Rechecks \subseteq BOOLEAN /\ MaxFaults \in Nat

VARIABLES
    plan,
    disk,           \* file -> [stamp, parts, and what a power loss leaves of them]
    stateFile,      \* .<info-hash>.state: [is, ids, verified, completed]
    syncedState,    \* ... what a power loss leaves of it
    clock,          \* the last stamp given
    power,          \* "down" or "up"
    held, unverified, toHash,   \* pieces completed, waiting for, or named to the hasher
    jobs,           \* piece -> files its write has still to reach
    finishing,      \* pieces written, whose completion is still to be recorded
    unmarked,       \* <<piece, file>>: written, the file not marked dirty yet
    dirty,          \* FileStorage.dirty: file -> subset of {"meta", "sync"}
    trusted,        \* trustedIdentity: file -> stamp
    checkpoint,     \* FileStorage.checkpoint: [valid, complete, ids, verified, completed]
    mapped, mappedDirty,    \* MMapStorage.maps, MMapStorage.dirty
    unstamped,      \* files whose mapped writes have not moved the stamp yet
    paused, closing, stateDirty,
    flush,          \* the flush under way
    \* history:
    edited,         \* files another program changed in this run
    written,        \* files this run wrote, or released a mapping of
    excused,        \* pieces in files both edited and written in a run: see RestoredIsOnDisk
    failed,         \* a sync or write of the state file failed in this run
    forced,         \* this run was started with --recheck
    demoted,        \* the state file is a hint that trusts less than the checkpoint it repeats
    faults

payload == <<disk, clock, edited, written, excused>>
stateFiles == <<stateFile, syncedState>>
session == <<held, unverified, toHash, jobs, finishing, paused, closing, stateDirty>>
storage == <<unmarked, dirty, trusted, checkpoint, mapped, mappedDirty, unstamped>>
bounds == <<plan, failed, faults, forced, demoted>>
resumeVars == <<payload, stateFiles, power, session, storage, flush, bounds>>

Files == 1 .. NumFiles
None == [is |-> FALSE, ids |-> [f \in Files |-> 0], verified |-> {}, completed |-> {}]
NoCheckpoint == [valid |-> FALSE, complete |-> FALSE, ids |-> [f \in Files |-> 0],
                 verified |-> {}, completed |-> {}]
Idle == [stage |-> "idle", durable |-> FALSE, verified |-> {}, completed |-> {},
         taken |-> [f \in Files |-> {}],
         at |-> 1, before |-> 0, ids |-> [f \in Files |-> 0]]
In(f) == {p \in Pieces : f \in Overlaps[p]}
OnDisk(p) == \A f \in Overlaps[p] : p \in disk[f].parts
Up == power = "up"
Checkpointing == flush.durable /\ flush.stage # "idle"

\* What a process has in memory is gone.
ProcessEnds ==
    /\ UNCHANGED plan
    /\ held' = {} /\ unverified' = {} /\ toHash' = {} /\ jobs' = [p \in Pieces |-> {}] /\ finishing' = {}
    /\ unmarked' = {} /\ dirty' = [f \in Files |-> {}] /\ trusted' = [f \in Files |-> 0]
    /\ checkpoint' = NoCheckpoint /\ mapped' = {} /\ mappedDirty' = {} /\ unstamped' = {}
    /\ paused' = FALSE /\ closing' = FALSE /\ stateDirty' = FALSE /\ flush' = Idle
    /\ edited' = {} /\ written' = {} /\ failed' = FALSE /\ forced' = FALSE /\ demoted' = FALSE

Fault == faults < MaxFaults /\ faults' = faults + 1 /\ UNCHANGED plan

ResumeInit ==
    /\ plan \in Plans
    /\ disk = [f \in Files |-> [stamp |-> 1, parts |-> {}, syncedStamp |-> 1, syncedParts |-> {}]]
    /\ stateFile = None /\ syncedState = None /\ clock = 1 /\ power = "down"
    /\ held = {} /\ unverified = {} /\ toHash = {} /\ jobs = [p \in Pieces |-> {}] /\ finishing = {}
    /\ unmarked = {} /\ dirty = [f \in Files |-> {}] /\ trusted = [f \in Files |-> 0]
    /\ checkpoint = NoCheckpoint /\ mapped = {} /\ mappedDirty = {} /\ unstamped = {}
    /\ paused = FALSE /\ closing = FALSE /\ stateDirty = FALSE /\ flush = Idle
    /\ edited = {} /\ written = {} /\ excused = {} /\ failed = FALSE /\ faults = 0
    /\ forced = FALSE /\ demoted = FALSE

\* The stamps of the files in S move.
Stamped(S, d) == [f \in Files |-> IF f \in S THEN [d[f] EXCEPT !.stamp = clock + 1] ELSE d[f]]
Ticks(S) == IF S = {} THEN UNCHANGED clock ELSE clock < plan.clock /\ clock' = clock + 1
Settled == [f \in Files |-> [disk[f] EXCEPT !.syncedStamp = disk[f].stamp, !.syncedParts = disk[f].parts]]
\* The program's own write, or release, of the files in S.
Touches(S) ==
    /\ written' = written \cup S
    /\ excused' = excused \cup UNION {In(f) : f \in S \cap edited}
    /\ UNCHANGED edited

----------------------------------------------------------------------------
(* Start: LoadResumeState and applyResumeStateLocked *)

\* A variant: a changed file does not invalidate the pieces it shares.
WholePiecesOnly ==
    {p \in Pieces : Overlaps[p] # {} /\ \A f \in Overlaps[p] : stateFile.ids[f] = 0 \/ stateFile.ids[f] # disk[f].stamp}
\* The pieces that overlap a file the state file does not describe.
Recheck ==
    {p \in Pieces : \E f \in Overlaps[p] : stateFile.ids[f] = 0 \/ stateFile.ids[f] # disk[f].stamp}
LoadedVerified == (stateFile.verified \cap stateFile.completed) \ Recheck

adoptCheckpoint ==
    [valid |-> TRUE, complete |-> Recheck = {}, ids |-> stateFile.ids,
     verified |-> stateFile.verified, completed |-> stateFile.completed]

\* force: verifyOnStartup.
StartSession(force) ==
    /\ power = "down" /\ power' = "up"
    /\ held' = IF force THEN {} ELSE LoadedVerified
    /\ unverified' = stateFile.completed \ held'
    /\ toHash' = IF stateFile.is THEN unverified' ELSE Pieces
    /\ checkpoint' = IF stateFile.is THEN adoptCheckpoint ELSE NoCheckpoint
    /\ trusted' = [f \in Files |-> disk[f].stamp]
    /\ disk' = IF Settles THEN Settled ELSE disk
    /\ forced' = force /\ demoted' = FALSE
    /\ UNCHANGED <<clock, edited, written, excused, stateFiles, jobs, finishing, paused, closing, stateDirty, unmarked, dirty, mapped, mappedDirty,
                   unstamped, flush, plan, failed, faults>>

----------------------------------------------------------------------------
(* The session *)

\* VerifyPiece of the background hasher; a piece being downloaded is left alone.
Found(p) == OnDisk(p) /\ jobs[p] = {} /\ p \notin finishing
HashPiece(p) ==
    /\ Up /\ ~closing /\ p \in toHash /\ toHash' = toHash \ {p}
    /\ unverified' = unverified \ {p}
    /\ held' = IF Found(p) THEN held \cup {p} ELSE held
    /\ excused' = IF p \in held \/ ~Found(p) THEN excused ELSE excused \ {p}
    /\ stateDirty' = (stateDirty \/ Found(p) \/ toHash' = {})
    /\ mapped' = IF plan.mmap THEN mapped \cup Overlaps[p] ELSE mapped
    /\ UNCHANGED <<disk, clock, edited, written, stateFiles, power, jobs, finishing, paused, closing, unmarked, dirty,
                   trusted, checkpoint, mappedDirty, unstamped, flush, bounds>>

\* A piece that was downloaded is queued for its write.
QueueWrite(p) ==
    /\ Up /\ ~closing /\ ~paused /\ p \in plan.wanted /\ p \notin held \cup unverified \cup finishing /\ jobs[p] = {}
    /\ jobs' = [jobs EXCEPT ![p] = Overlaps[p]]
    /\ UNCHANGED <<payload, stateFiles, power, held, unverified, toHash, finishing, paused, closing, stateDirty,
                   storage, flush, bounds>>

\* writeFileAt: the write, and then the mark.
WriteFileAt(p, f) ==
    /\ Up /\ ~plan.mmap /\ f \in jobs[p] /\ <<p, f>> \notin unmarked /\ clock < plan.clock
    /\ \A g \in jobs[p] : f <= g
    /\ clock' = clock + 1
    /\ disk' = [Stamped({f}, disk) EXCEPT ![f].parts = @ \cup {p}]
    /\ unmarked' = unmarked \cup {<<p, f>>} /\ Touches({f})
    /\ UNCHANGED <<stateFiles, power, session, dirty, trusted, checkpoint, mapped, mappedDirty, unstamped, flush, bounds>>
Wrote(p, fs) ==
    /\ jobs' = [jobs EXCEPT ![p] = @ \ fs]
    /\ finishing' = IF jobs'[p] = {} THEN finishing \cup {p} ELSE finishing
MarkWritten(p, f) ==
    /\ Up /\ <<p, f>> \in unmarked /\ unmarked' = unmarked \ {<<p, f>>}
    /\ dirty' = [dirty EXCEPT ![f] = {"meta", "sync"}]
    /\ Wrote(p, {f})
    /\ UNCHANGED <<payload, stateFiles, power, held, unverified, toHash, paused, closing, stateDirty, trusted, checkpoint,
                   mapped, mappedDirty, unstamped, flush, bounds>>

\* writeMappedLocked, under the mapping lock throughout.
WriteMapped(p) ==
    /\ Up /\ plan.mmap /\ jobs[p] # {}
    /\ disk' = [f \in Files |-> IF f \in jobs[p] THEN [disk[f] EXCEPT !.parts = @ \cup {p}] ELSE disk[f]]
    /\ mapped' = mapped \cup jobs[p] /\ mappedDirty' = mappedDirty \cup jobs[p]
    /\ unstamped' = unstamped \cup jobs[p] /\ Touches(jobs[p]) /\ Wrote(p, jobs[p])
    /\ UNCHANGED <<clock, stateFiles, power, held, unverified, toHash, paused, closing, stateDirty, unmarked, dirty, trusted,
                   checkpoint, flush, bounds>>

\* markPieceCompleted: a write that ends while the session closes is not recorded.
FinishPiece(p) ==
    /\ Up /\ p \in finishing /\ finishing' = finishing \ {p}
    /\ held' = held \cup {p} /\ toHash' = toHash \ {p}
    /\ stateDirty' = (stateDirty \/ (~closing /\ p \notin held))
    /\ UNCHANGED <<payload, stateFiles, power, unverified, jobs, paused, closing, storage, flush, bounds>>

\* A read, of a piece there is, maps the file, except while a checkpoint is taken.
ReadMapped(f) ==
    /\ Up /\ plan.mmap /\ ~closing /\ ~Checkpointing /\ f \notin mapped /\ mapped' = mapped \cup {f}
    /\ \E p \in held : f \in Overlaps[p]
    /\ UNCHANGED <<payload, stateFiles, power, session, unmarked, dirty, trusted, checkpoint, mappedDirty, unstamped,
                   flush, bounds>>

SetPaused ==
    /\ Up /\ ~closing /\ paused' = ~paused /\ stateDirty' = (stateDirty \/ paused')
    /\ UNCHANGED <<payload, stateFiles, power, held, unverified, toHash, jobs, finishing, closing, storage, flush, bounds>>

BeginClose ==
    /\ Up /\ ~closing /\ closing' = TRUE /\ stateDirty' = (stateDirty \/ held # {})
    /\ UNCHANGED <<payload, stateFiles, power, held, unverified, toHash, jobs, finishing, paused, storage, flush, bounds>>

\* Releasing a mapping moves the stamp: always for a written one, perhaps for one only read.
Moves(moved) ==
    /\ unstamped \subseteq moved /\ Ticks(moved)
    /\ disk' = Stamped(moved, disk)
Release(moved) == Moves(moved) /\ mapped' = {} /\ unstamped' = {}

\* The flush of Close is done; what is still being written fails from here on.
CloseStorage ==
    /\ Up /\ closing /\ ~stateDirty /\ flush.stage = "idle" /\ power' = "down"
    /\ \E moved \in SUBSET mapped : Moves(moved)
    /\ ProcessEnds /\ UNCHANGED <<excused, stateFiles, faults>>

----------------------------------------------------------------------------
(* A flush *)

Quiescent == toHash = {} /\ (plan.wanted \subseteq held \/ paused \/ closing)

\* flushState: the pieces are read, and stateDirty cleared, before anything is written.
BeginFlush ==
    /\ Up /\ stateDirty /\ flush.stage = "idle"
    /\ stateDirty' = FALSE
    /\ flush' = [Idle EXCEPT !.stage = IF plan.mmap THEN "settle" ELSE IF Quiescent THEN "swap" ELSE "hint", !.durable = Quiescent, !.verified = held,
                             !.completed = held \cup unverified]
    /\ UNCHANGED <<payload, stateFiles, power, held, unverified, toHash, jobs, finishing, paused, closing, storage, bounds>>

\* unmapForCheckpoint and markReleasedMappings: a mapping only read through may take on
\* its new stamp if the file still was the one that is trusted.
ReleaseForCheckpoint ==
    /\ Up /\ flush.stage = "settle" /\ flush.durable
    /\ LET wrote == {f \in mapped : f \in mappedDirty \/ "sync" \in dirty[f]}
           same == {f \in mapped \ wrote : disk[f].stamp = trusted[f]}
       IN /\ \E moved \in SUBSET mapped : Release(moved)
          /\ mappedDirty' = mappedDirty \ wrote
          /\ dirty' = [f \in Files |-> dirty[f] \cup (IF f \in wrote THEN {"meta", "sync"} ELSE {})
                                                \cup (IF f \in same THEN {"meta"} ELSE {})]
          /\ Touches(same)
    /\ flush' = [flush EXCEPT !.stage = "swap"]
    /\ UNCHANGED <<stateFiles, power, session, unmarked, trusted, checkpoint, bounds>>

\* refreshMappedMtimes: the files written through mappings are stamped.
StampMapped ==
    /\ Up /\ flush.stage = "settle" /\ ~flush.durable /\ Ticks(mappedDirty)
    /\ disk' = Stamped(mappedDirty, disk)
    /\ dirty' = [f \in Files |-> IF f \in mappedDirty THEN {"meta", "sync"} ELSE dirty[f]]
    /\ mappedDirty' = {}
    /\ flush' = [flush EXCEPT !.stage = "hint"]
    /\ UNCHANGED <<edited, written, excused, stateFiles, power, session, unmarked, trusted, checkpoint, mapped, unstamped, bounds>>

\* Mapped pages reach the disk, and their stamp moves, when the system likes.
PageOut(f) ==
    /\ Up /\ f \in unstamped /\ clock < plan.clock /\ clock' = clock + 1
    /\ disk' = Stamped({f}, disk) /\ unstamped' = unstamped \ {f}
    /\ UNCHANGED <<edited, written, excused, stateFiles, power, session, unmarked, dirty, trusted, checkpoint, mapped,
                   mappedDirty, flush, bounds>>

\* refreshDirtyLocked.
RefreshDirty ==
    /\ trusted' = [f \in Files |-> IF "meta" \in dirty[f] THEN disk[f].stamp ELSE trusted[f]]
    /\ dirty' = [f \in Files |-> dirty[f] \ {"meta"}]

StillHeld == checkpoint.verified \cap flush.verified
\* A variant: a hint leaves out what no checkpoint has proven.
ProvenHint == [is |-> TRUE, ids |-> checkpoint.ids, verified |-> StillHeld, completed |-> StillHeld]
\* saveResumeHint: the last checkpoint, of the files not written since.
Hint ==
    [is |-> TRUE,
     ids |-> [f \in Files |-> IF checkpoint.valid /\ "sync" \notin dirty[f] THEN checkpoint.ids[f] ELSE 0],
     verified |-> StillHeld, completed |-> flush.completed]

\* The hint is not synced.
SaveHint ==
    /\ Up /\ flush.stage = "hint" /\ stateFile' = Hint /\ RefreshDirty /\ flush' = Idle
    /\ demoted' = (checkpoint.valid /\ StillHeld # checkpoint.verified)
    /\ UNCHANGED <<payload, syncedState, power, session, unmarked, checkpoint, mapped, mappedDirty, unstamped,
                   plan, failed, faults, forced>>

checkpointCurrent ==
    /\ checkpoint.valid /\ checkpoint.complete
    /\ checkpoint.verified = flush.verified /\ checkpoint.completed = flush.completed
    /\ \A f \in Files : dirty[f] = {}

\* saveResumeCheckpoint takes the dirty set, so what is written from here on is the next one's.
SwapDirty ==
    /\ Up /\ flush.stage = "swap"
    /\ IF checkpointCurrent THEN flush' = Idle /\ UNCHANGED dirty
       ELSE /\ flush' = [flush EXCEPT !.stage = "sweep", !.taken = dirty]
            /\ dirty' = [f \in Files |-> {}]
    /\ UNCHANGED <<payload, stateFiles, power, session, unmarked, trusted, checkpoint, mapped, mappedDirty, unstamped, bounds>>

\* checkpointFile: stat, sync, stat.
Sweeping == Up /\ flush.stage = "sweep" /\ flush.at <= NumFiles
StatBefore ==
    /\ Sweeping /\ flush.before = 0 /\ flush' = [flush EXCEPT !.before = disk[flush.at].stamp]
    /\ UNCHANGED <<payload, stateFiles, power, session, storage, bounds>>

Synced(f) == [disk EXCEPT ![f].syncedStamp = disk[f].stamp, ![f].syncedParts = disk[f].parts]
Trustworthy(f) ==
    /\ "meta" \in flush.taken[f] \/ flush.before = trusted[f]
    /\ flush.before = disk[f].stamp
SyncAndStat ==
    LET f == flush.at IN
    /\ Sweeping /\ flush.before # 0
    /\ \/ /\ disk' = IF "sync" \in flush.taken[f] THEN Synced(f) ELSE disk
          /\ flush' = [flush EXCEPT !.at = f + 1, !.before = 0,
                                   !.ids[f] = IF Trustworthy(f) THEN flush.before ELSE 0]
          /\ UNCHANGED bounds
       \/ /\ "sync" \in flush.taken[f] /\ Fault /\ failed' = TRUE
          /\ flush' = [flush EXCEPT !.at = f + 1, !.before = 0] /\ UNCHANGED <<disk, forced, demoted>>
    /\ UNCHANGED <<clock, edited, written, excused, stateFiles, power, session, storage>>
Swept == Up /\ flush.stage = "sweep" /\ flush.at > NumFiles

\* The deferred half of saveResumeCheckpoint: what is not recorded stays dirty.
Pending(wrote) ==
    [f \in Files |-> IF wrote /\ flush.ids[f] # 0 THEN dirty[f] ELSE dirty[f] \cup flush.taken[f]]

SaveCheckpoint ==
    /\ Swept
    /\ stateFile' = [is |-> TRUE, ids |-> flush.ids, verified |-> flush.verified, completed |-> flush.completed]
    /\ syncedState' = stateFile'
    /\ checkpoint' = [valid |-> TRUE, complete |-> \A f \in Files : flush.ids[f] # 0, ids |-> flush.ids,
                      verified |-> flush.verified, completed |-> flush.completed]
    /\ trusted' = [f \in Files |-> IF flush.ids[f] # 0 THEN flush.ids[f] ELSE trusted[f]]
    /\ dirty' = Pending(TRUE) /\ flush' = Idle /\ demoted' = FALSE
    /\ UNCHANGED <<payload, power, session, unmarked, mapped, mappedDirty, unstamped, plan, failed, faults, forced>>

\* A failed flush is tried again.
FlushFails ==
    /\ Up /\ Fault /\ failed' = TRUE
    /\ \/ flush.stage = "hint" /\ RefreshDirty
       \/ Swept /\ dirty' = Pending(FALSE) /\ UNCHANGED trusted
    /\ flush' = Idle /\ stateDirty' = TRUE
    /\ UNCHANGED <<payload, stateFiles, power, held, unverified, toHash, jobs, finishing, paused, closing, unmarked,
                   checkpoint, mapped, mappedDirty, unstamped, forced, demoted>>

----------------------------------------------------------------------------
(* What happens to it *)

\* Another program changes a file.
EditFile(f) ==
    /\ Fault /\ clock < plan.clock /\ clock' = clock + 1
    /\ \E lost \in {{}, disk[f].parts} : disk' = [Stamped({f}, disk) EXCEPT ![f].parts = @ \ lost]
    /\ edited' = IF Up THEN edited \cup {f} ELSE edited
    /\ excused' = IF Up /\ f \in written THEN excused \cup In(f) ELSE excused
    /\ UNCHANGED <<written, stateFiles, power, session, storage, flush, failed, forced, demoted>>

Gone ==
    /\ power' = "down" /\ Fault /\ ProcessEnds /\ UNCHANGED excused

\* The process dies: the system keeps what it wrote, and releases its mappings.
Crash ==
    /\ Up /\ Ticks(unstamped) /\ disk' = Stamped(unstamped, disk) /\ Gone /\ UNCHANGED stateFiles

\* The power fails: of a file not synced, any part of what was written since the
\* last sync may be gone; a part that is left moved the stamp.
PowerLoss ==
    /\ Gone /\ UNCHANGED clock
    /\ \E lost \in SUBSET Files :
         disk' = [f \in Files |->
            LET d == disk[f] IN
            IF f \in lost
            THEN [d EXCEPT !.stamp = d.syncedStamp, !.parts = d.syncedParts]
            ELSE [d EXCEPT !.parts = d.parts \cap d.syncedParts, !.syncedStamp = d.stamp,
                           !.syncedParts = d.parts \cap d.syncedParts]]
    /\ stateFile' \in {stateFile, syncedState} /\ syncedState' = stateFile'

ResumeNext ==
    \/ \E force \in Rechecks : StartSession(force)
    \/ \E p \in Pieces : \/ HashPiece(p) \/ QueueWrite(p) \/ WriteMapped(p) \/ FinishPiece(p)
                         \/ \E f \in Files : WriteFileAt(p, f) \/ MarkWritten(p, f)
    \/ \E f \in Files : ReadMapped(f) \/ PageOut(f) \/ EditFile(f)
    \/ SetPaused \/ BeginClose \/ CloseStorage
    \/ BeginFlush \/ ReleaseForCheckpoint \/ StampMapped \/ SaveHint \/ SwapDirty \/ StatBefore \/ SyncAndStat
    \/ SaveCheckpoint \/ FlushFails
    \/ Crash \/ PowerLoss

ResumeSpec == ResumeInit /\ [][ResumeNext]_resumeVars

----------------------------------------------------------------------------
(* Properties *)

\* A piece a start makes available without hashing is right on disk, whatever was
\* lost since, save in a file that another program changed in a run that wrote it
\* too, before the piece was hashed again (README, "Startup checking").
RestoredIsOnDisk == [][power # "up" /\ power' = "up" => \A p \in held' \ excused : OnDisk(p)]_resumeVars

\* The flushed state file claims every piece there is.
FlushedIsClaimed ==
    Up /\ ~closing /\ ~stateDirty /\ flush.stage = "idle" /\ stateFile.is => held \subseteq stateFile.completed

\* Once a quiescent session has flushed, the next start restores every piece
\* without hashing, if no write is under way and no file was touched since.
CheckpointCoversHeld ==
    Up /\ ~closing /\ Quiescent /\ ~stateDirty /\ flush.stage = "idle" /\ stateFile.is
       /\ edited = {} /\ ~failed /\ mapped = {} /\ finishing = {} /\ (\A p \in Pieces : jobs[p] = {}) =>
        LoadedVerified = held

\* Progress made while a flush writes is flushed by another one: when none is
\* wanted or under way, the state file claims every piece there is (resume.go:705),
\* and a start takes them all from the checkpoint of a quiescent session
\* (resume_checkpoint.go:294).  The second half leaves out the case in which
\* CurrentIsOnDisk fails: a run started with --recheck whose last hint was saved
\* before everything was hashed, so that it trusts less than the checkpoint.
ProgressIsRecorded == FlushedIsClaimed /\ (~(forced /\ demoted) => CheckpointCoversHeld)

\* "the on-disk checkpoint already describes this exact piece set"
\* (resume_checkpoint.go:432) when a flush finds nothing to save: the state file
\* claims as verified the set that was to be saved.
CurrentIsOnDisk ==
    [][flush.stage = "swap" /\ flush'.stage = "idle" /\ Up' => stateFile.verified = flush.verified]_resumeVars
=============================================================================
