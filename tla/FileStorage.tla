----------------------------- MODULE FileStorage -----------------------------
(***************************************************************************)
(* The payload file of a torrent as pkg/storage sees it: one path, cached  *)
(* read and write handles, and the inodes behind them.                     *)
(*                                                                         *)
(* A write through a cached handle goes wherever that handle points, even  *)
(* when the path has since been deleted; only OPENING the file for writing *)
(* notices that it is gone, recreates it and reports a repair.  Contents   *)
(* are abstracted to "this inode holds the hash-correct bytes of piece p". *)
(* Inodes are numbered in the order they are created; 0 is a nil handle    *)
(* or a missing path.                                                      *)
(***************************************************************************)
EXTENDS Naturals

CONSTANTS Piece,     \* pieces of the torrent
          MaxLosses, \* bound: how often something outside deletes the file
          BudgetFull \* other files keep the handle budget full

ASSUME LossesAssumption == MaxLosses \in Nat /\ BudgetFull \in BOOLEAN

VARIABLES onDisk,        \* inode at the path, 0 when the path is missing
          readHandle,    \* fileLayout.readHandle, 0 when nil
          writeHandle,   \* fileLayout.writeHandle, 0 when nil
          content,       \* content[i]: pieces whose correct bytes inode i holds
          losses,        \* deletions so far
          storageClosed  \* FileStorage.closed

storageVars ==
  <<onDisk, readHandle, writeHandle, content, losses, storageClosed>>

Inode  == 1 .. (MaxLosses + 1)
Handle == 0 .. (MaxLosses + 1)

StorageTypeOK ==
  /\ onDisk \in Handle
  /\ readHandle \in Handle
  /\ writeHandle \in Handle
  /\ content \in [Inode -> SUBSET Piece]
  /\ losses \in 0 .. MaxLosses
  /\ storageClosed \in BOOLEAN

\* The file exists when the session starts and already holds `present`.
StorageInit(present) ==
  /\ onDisk = 1
  /\ readHandle = 0
  /\ writeHandle = 0
  /\ content = [i \in Inode |-> IF i = 1 THEN present ELSE {}]
  /\ losses = 0
  /\ storageClosed = FALSE

-----------------------------------------------------------------------------
(* Handles.  tryEvict try-locks the read and the write side separately;    *)
(* the budget evicts only when opening another file exceeds it.            *)

EvictReader ==
  /\ BudgetFull
  /\ readHandle # 0
  /\ readHandle' = 0
  /\ UNCHANGED <<onDisk, writeHandle, content, losses, storageClosed>>

EvictWriter ==
  /\ BudgetFull
  /\ writeHandle # 0
  /\ writeHandle' = 0
  /\ UNCHANGED <<onDisk, readHandle, content, losses, storageClosed>>

\* Something outside the program deletes the payload file.  Open handles keep
\* reaching the orphaned inode.
LoseFile ==
  /\ onDisk # 0
  /\ losses < MaxLosses
  /\ onDisk' = 0
  /\ losses' = losses + 1
  /\ UNCHANGED <<readHandle, writeHandle, content, storageClosed>>

\* The inode a read would use: the read handle, else the write handle, else
\* the path itself (0: the open fails).
ReadInode ==
  IF readHandle # 0 THEN readHandle
  ELSE IF writeHandle # 0 THEN writeHandle ELSE onDisk

\* VerifyPiece leaves the handle it opened in the cache.
OpenReader ==
  /\ readHandle' = IF readHandle = 0 /\ writeHandle = 0 THEN onDisk
                   ELSE readHandle
  /\ UNCHANGED <<onDisk, writeHandle, content, losses, storageClosed>>

\* VerifyPiece hashes what the handle it reads through reaches.
VerifiesOk(p) == ReadInode # 0 /\ p \in content[ReadInode]

\* openWriterLocked recreates a missing file as a fresh inode.
NeedsRepair == writeHandle = 0 /\ onDisk = 0

WriteInode ==
  IF writeHandle # 0 THEN writeHandle
  ELSE IF onDisk # 0 THEN onDisk ELSE losses + 1

\* writer(): the cached handle, or a newly opened (and repaired) one.
OpenWriter ==
  /\ writeHandle' = WriteInode
  /\ onDisk' = IF NeedsRepair THEN WriteInode ELSE onDisk
  /\ readHandle' = IF NeedsRepair THEN 0 ELSE readHandle

\* A whole WriteBlock of piece p: the bytes, hash-correct or not, land in the
\* inode the handle points at.
WriteBlock(p, correct) ==
  /\ OpenWriter
  /\ content' = [content EXCEPT ![WriteInode] =
                   IF correct THEN @ \cup {p} ELSE @ \ {p}]
  /\ UNCHANGED <<losses, storageClosed>>

\* The positional write fails (a full disk, an I/O error) after the open and
\* its repair: WriteBlock returns that error and the repair goes unreported.
WriteBlockFails ==
  /\ OpenWriter
  /\ UNCHANGED <<content, losses, storageClosed>>

CloseStorage ==
  /\ storageClosed' = TRUE
  /\ readHandle' = 0
  /\ writeHandle' = 0
  /\ UNCHANGED <<onDisk, content, losses>>

=============================================================================
