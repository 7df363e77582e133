---------------------------- MODULE TorrentReaders ----------------------------
(***************************************************************************)
(* TorrentReader (pkg/downloader/reader.go): verified bytes of a torrent   *)
(* as they arrive, and the sequential windows (piece_picker.go) with which *)
(* a reader asks the picker for the pieces it is about to need.            *)
(*                                                                         *)
(* A read walks its range piece by piece: under Session.mu it checks the   *)
(* piece and, if it is not there yet, registers a waiter and sleeps; every *)
(* transition that can end its wait must signal it.  One action per        *)
(* critical section or off-lock step.                                      *)
(***************************************************************************)
EXTENDS Integers, FiniteSets, FiniteSetsExt

CONSTANTS Readers,      \* open readers, numbered by their sequentialID
          Exposed,      \* Exposed[r]: [base, length] a reader exposes, in bytes
          NumPieces, PieceLength, TotalSize,
          Readahead,    \* ReadaheadPieces
          Calls,        \* the [off, len] a ReadAt may be asked for, none of them empty
          ReaderPlans   \* what a run may do: [readers, resumed, has,
                        \* selections, manual, budget]

ASSUME SizesAssumption ==
  /\ NumPieces \in Nat \ {0} /\ PieceLength \in Nat \ {0}
  /\ TotalSize \in (NumPieces - 1) * PieceLength + 1 .. NumPieces * PieceLength
  /\ Readers \subseteq Nat
  /\ \A r \in Readers : Exposed[r].base \in 0 .. TotalSize /\ Exposed[r].length \in Nat
                     /\ Exposed[r].base + Exposed[r].length <= TotalSize

\* ReadAt refuses a negative offset and returns at once when asked for nothing;
\* a selection is of pieces there are.
ASSUME CallsAssumption ==
  /\ \A c \in Calls : c.off \in Nat /\ c.len \in Nat \ {0}
  /\ Readahead \in Nat
  /\ \A p \in ReaderPlans : /\ p.readers \subseteq Readers
                           /\ p.selections \subseteq SUBSET (0 .. NumPieces - 1)

VARIABLES
  \* Session
  pieceState, wanted, life, statusErr,
  sequentialReaderWindows,  \* each reader's window, or NoWindow
  manual,                   \* sequentialMode, or NoWindow
  pieceWaiters,             \* readers registered on a piece
  woken,                    \* readers whose channel was closed since
  \* each reader
  rpc, call,     \* its step, and the read in progress: [start, len, total]
  result,        \* of its last read: [n, err]
  closing,       \* how far its Close has come
  \* bounds and history
  readerPlan, readerBudget,
  cameBack       \* a piece already passed over was needed again

session == <<pieceState, wanted, life, statusErr>>
waiting == <<pieceWaiters, woken>>
windows == <<sequentialReaderWindows, manual>>
calls == <<rpc, call, result>>
bounds == <<readerPlan, readerBudget, cameBack>>
readerVars == <<session, waiting, windows, calls, closing, bounds>>

Pieces == 0 .. NumPieces - 1
NoWindow == [start |-> -1, end |-> -1, ahead |-> 0]
NoCall == [start |-> 0, len |-> 0, total |-> 0]
Lesser(a, b) == IF a < b THEN a ELSE b

\* Bounds: a run does each kind of event at most as often as its plan allows.
Costs(kind) ==
  /\ readerBudget[kind] > 0
  /\ readerBudget' = [readerBudget EXCEPT ![kind] = @ - 1]
  /\ UNCHANGED readerPlan

-----------------------------------------------------------------------------
\* Waiters.  The readers registered on a piece stand for its pieceWaiter and
\* count; closing its channel wakes those registered, a new one is for the next.

addPieceWaiter(W, r, i) == [W EXCEPT ![i] = @ \cup {r}]
\* A variant: the first reader that leaves takes the others' registrations along.
RemovesAll(W, r, i) == [W EXCEPT ![i] = {}]
removePieceWaiter(W, r, i) == [W EXCEPT ![i] = @ \ {r}]
signalPieceWaiters(i) == woken' = woken \cup pieceWaiters[i]
broadcastPieceWaiters == woken' = woken \cup UNION {pieceWaiters[i] : i \in Pieces}

-----------------------------------------------------------------------------
\* Windows.

\* sequentialWindowForRangeLocked.
\* The piece after the last one below limit; a variant is one short.
OneShort(limit) == (limit - 1) \div PieceLength
PiecesBelow(limit) == (limit - 1) \div PieceLength + 1

WindowFor(offset, length, limit) ==
  LET first == Lesser(offset \div PieceLength, NumPieces - 1)
      span == (offset + length - 1) \div PieceLength - first + 1
      ahead == IF span > Readahead THEN span ELSE Readahead
      last == IF limit > offset
              THEN Lesser(first + ahead, PiecesBelow(limit))
              ELSE first + ahead
      end == Lesser(last, NumPieces)
  IN IF end <= first THEN NoWindow
     ELSE [start |-> first, end |-> end, ahead |-> ahead]

\* selectFromSequentialWindowLocked: past what is done or unwanted, then the
\* first empty piece the peer has.  The manual window, whose end is 0, slides.
Slid(w) ==
  LET end == IF w.end > 0 THEN Lesser(w.end, NumPieces) ELSE NumPieces
      left == {i \in w.start .. end - 1 : pieceState[i] # "completed" /\ i \in wanted}
  IN IF w.start >= end THEN w
     ELSE [w EXCEPT !.start = IF left = {} THEN end ELSE Min(left)]
WindowPick(w, has) ==
  LET s == Slid(w).start
      end == IF w.end > 0 THEN Lesser(w.end, NumPieces)
             ELSE Lesser(s + w.ahead, NumPieces)
      fits == {i \in s .. end - 1 :
                 i \in has /\ i \in wanted /\ pieceState[i] = "empty"}
  IN IF fits = {} THEN -1 ELSE Min(fits)

Manual == -1
WindowOf(k) == IF k = Manual THEN manual ELSE sequentialReaderWindows[k]
Open == {k \in Readers \cup {Manual} : WindowOf(k) # NoWindow}
\* sequentialWindowRefLess.
Earlier(j, k) ==
  \/ WindowOf(j).start < WindowOf(k).start
  \/ WindowOf(j).start = WindowOf(k).start /\ j < k

-----------------------------------------------------------------------------
\* The picker and what else moves the pieces.

\* A peer claims a piece: the windows are tried in order, each slid as it is,
\* until one has a piece for it; with none any needed piece will do.
selectSequentialNeededPiece(has) ==
  LET hits == {k \in Open : WindowPick(WindowOf(k), has) # -1}
      hit == CHOOSE k \in hits : \A j \in hits \ {k} : Earlier(k, j)
      tried == {k \in Open : hits = {} \/ k = hit \/ Earlier(k, hit)}
      pieces == IF hits # {} THEN {WindowPick(WindowOf(hit), has)}
                ELSE {i \in has \cap wanted : pieceState[i] = "empty"}
  IN /\ \E i \in pieces : pieceState' = [pieceState EXCEPT ![i] = "downloading"]
     /\ sequentialReaderWindows' =
          [r \in Readers |-> IF r \in tried THEN Slid(WindowOf(r)) ELSE WindowOf(r)]
     /\ manual' = IF Manual \in tried THEN Slid(manual) ELSE manual

Claim ==
  /\ life = "open"
  /\ \E has \in readerPlan.has : selectSequentialNeededPiece(has)
  /\ UNCHANGED <<wanted, life, statusErr, waiting, calls, closing, bounds>>

\* The peer gave it up.
HandBack(i) ==
  /\ pieceState[i] = "downloading"
  /\ Costs("handback")
  /\ pieceState' = [pieceState EXCEPT ![i] = "empty"]
  /\ UNCHANGED <<wanted, life, statusErr, waiting, windows, calls, closing,
                 cameBack>>

markPieceCompleted(i) ==
  /\ pieceState[i] = "downloading"
  /\ pieceState' = [pieceState EXCEPT ![i] = "completed"]
  /\ statusErr' = "none"
  /\ signalPieceWaiters(i)
  /\ UNCHANGED <<wanted, life, pieceWaiters, windows, calls, closing, bounds>>

\* processCompletedPiece: the storage refused it, for good or for now.
WriteFails(i) ==
  /\ pieceState[i] = "downloading"
  /\ Costs("fail")
  /\ pieceState' = [pieceState EXCEPT ![i] = "empty"]
  /\ statusErr' \in {statusErr, "storage"}
  /\ broadcastPieceWaiters
  /\ UNCHANGED <<wanted, life, pieceWaiters, windows, calls, closing, cameBack>>

\* resetProgressAfterStorageRepair.
Repair(i) ==
  /\ pieceState[i] = "downloading"
  /\ Costs("repair")
  /\ pieceState' = [j \in Pieces |-> IF j = i THEN "completed" ELSE "empty"]
  /\ statusErr' = "none"
  /\ signalPieceWaiters(i)
  /\ cameBack' = TRUE
  /\ UNCHANGED <<wanted, life, pieceWaiters, windows, calls, closing>>

\* The recheck of a restored piece.
Verify(i) ==
  /\ pieceState[i] = "unverified"
  /\ life # "closed"
  /\ \/ /\ pieceState' = [pieceState EXCEPT ![i] = "completed"]
        /\ signalPieceWaiters(i)
     \/ /\ pieceState' = [pieceState EXCEPT ![i] = "empty"]
        /\ UNCHANGED woken
  /\ UNCHANGED <<wanted, life, statusErr, pieceWaiters, windows, calls, closing,
                 bounds>>

\* onFilePriorityChangedLocked.
SelectFiles(W) ==
  /\ W # wanted
  /\ Costs("select")
  /\ wanted' = W
  /\ broadcastPieceWaiters
  /\ cameBack' = (cameBack \/ ~(W \subseteq wanted))
  /\ UNCHANGED <<pieceState, life, statusErr, pieceWaiters, windows, calls,
                 closing>>

\* flushState fails, and a later one succeeds.
PersistFails ==
  /\ life = "open"
  /\ Costs("persist")
  /\ statusErr' = "persist"
  /\ broadcastPieceWaiters
  /\ UNCHANGED <<pieceState, wanted, life, pieceWaiters, windows, calls, closing,
                 cameBack>>

PersistWorks ==
  /\ statusErr = "persist"
  /\ statusErr' = "none"
  /\ UNCHANGED <<pieceState, wanted, life, waiting, windows, calls, closing,
                 bounds>>

SetSequentialMode(w) ==
  /\ Costs("manual")
  /\ manual' = w
  /\ UNCHANGED <<session, waiting, sequentialReaderWindows, calls, closing,
                 cameBack>>

\* Session.Close, then the close of its storage.
CloseSession ==
  /\ life = "open"
  /\ Costs("close")
  /\ life' = "closed"
  /\ broadcastPieceWaiters
  /\ UNCHANGED <<pieceState, wanted, statusErr, pieceWaiters, windows, calls,
                 closing, cameBack>>

CloseStorage ==
  /\ life = "closed"
  /\ life' = "storageClosed"
  /\ UNCHANGED <<pieceState, wanted, statusErr, waiting, windows, calls, closing,
                 bounds>>

-----------------------------------------------------------------------------
\* A read.

Return(r, err) ==
  /\ rpc' = [rpc EXCEPT ![r] = "idle"]
  /\ call' = [call EXCEPT ![r] = NoCall]
  /\ result' = [result EXCEPT ![r] = [n |-> call[r].total, err |-> err]]

\* ReadAt: the checks, and the range cut to what the reader exposes.
ReadAt(r, c) ==
  /\ rpc[r] = "idle"
  /\ Costs("read")
  /\ IF closing[r] # "open" \/ c.off >= Exposed[r].length
     THEN Return(r, IF closing[r] # "open" THEN "closed" ELSE "eof")
     ELSE /\ rpc' = [rpc EXCEPT ![r] = "prioritize"]
          /\ call' = [call EXCEPT ![r] =
               [start |-> Exposed[r].base + c.off,
                len |-> Lesser(c.len, Exposed[r].length - c.off), total |-> 0]]
          /\ UNCHANGED result
  /\ UNCHANGED <<session, waiting, windows, closing, cameBack>>

\* prioritize looks at closed once before it locks ...
Prioritize(r) ==
  /\ rpc[r] = "prioritize"
  /\ rpc' = [rpc EXCEPT ![r] = IF closing[r] = "open" THEN "window" ELSE "chunk"]
  /\ UNCHANGED <<session, waiting, windows, call, result, closing, bounds>>

\* ... and again under the lock, so that no window outlives its reader.
RegisterWindow(r) ==
  LET w == WindowFor(call[r].start, call[r].len, Exposed[r].base + Exposed[r].length)
  IN /\ rpc[r] = "window"
     /\ rpc' = [rpc EXCEPT ![r] = "chunk"]
     /\ sequentialReaderWindows' = [sequentialReaderWindows EXCEPT ![r] =
          IF closing[r] # "open" THEN NoWindow
          ELSE IF w = NoWindow THEN @ ELSE w]
     /\ UNCHANGED <<session, waiting, manual, call, result, closing, bounds>>

Position(r) == call[r].start + call[r].total
PieceOf(r) == Position(r) \div PieceLength
PieceEnd(i) == Lesser((i + 1) * PieceLength, TotalSize)
\* chunkFor: to the end of the piece or of the read.
Chunk(r) == Lesser(PieceEnd(PieceOf(r)) - Position(r), call[r].len - call[r].total)

\* The loop of ReadAt: done, closed, or on to the next chunk.
NextChunk(r) ==
  /\ rpc[r] = "chunk"
  /\ IF call[r].total = call[r].len \/ closing[r] # "open"
     THEN Return(r, IF call[r].total < call[r].len THEN "closed" ELSE "none")
     ELSE /\ rpc' = [rpc EXCEPT ![r] = "await"]
          /\ UNCHANGED <<call, result>>
  /\ UNCHANGED <<session, waiting, windows, closing, bounds>>

\* The checks of waitForPiece, in their order, and the waiter if none settles
\* it.  W is pieceWaiters without r.
CheckPiece(r, W) ==
  LET i == PieceOf(r)
      ends == closing[r] # "open" \/ life # "open" \/ statusErr # "none"
                \/ i \notin wanted
  IN IF closing[r] = "open" /\ pieceState[i] = "completed"
     THEN /\ rpc' = [rpc EXCEPT ![r] = "copy"]
          /\ pieceWaiters' = W
          /\ UNCHANGED <<call, result, woken>>
     ELSE IF ends
     THEN /\ Return(r, IF closing[r] # "open" THEN "closed" ELSE "error")
          /\ pieceWaiters' = W
          /\ UNCHANGED woken
     ELSE /\ rpc' = [rpc EXCEPT ![r] = "asleep"]
          /\ pieceWaiters' = addPieceWaiter(W, r, i)
          /\ woken' = woken \ {r}
          /\ UNCHANGED <<call, result>>

waitForPiece(r) ==
  /\ rpc[r] = "await"
  /\ CheckPiece(r, pieceWaiters)
  /\ UNCHANGED <<session, windows, closing, bounds>>

\* Its channel or closeCh is closed.
WakeUp(r) ==
  /\ rpc[r] = "asleep"
  /\ r \in woken \/ closing[r] # "open"
  /\ CheckPiece(r, removePieceWaiter(pieceWaiters, r, PieceOf(r)))
  /\ UNCHANGED <<session, windows, closing, bounds>>

\* ReadBlock, off the lock.
ReadBlock(r) ==
  /\ rpc[r] = "copy"
  /\ IF life = "storageClosed" THEN Return(r, "error")
     ELSE /\ rpc' = [rpc EXCEPT ![r] = "chunk"]
          /\ call' = [call EXCEPT ![r].total = @ + Chunk(r)]
          /\ UNCHANGED result
  /\ UNCHANGED <<session, waiting, windows, closing, bounds>>

\* Close: closed and closeCh, then the window under the lock.
CloseReader(r) ==
  /\ closing[r] = "open"
  /\ Costs("closeReader")
  /\ closing' = [closing EXCEPT ![r] = "closing"]
  /\ UNCHANGED <<session, waiting, windows, calls, cameBack>>

DropWindow(r) ==
  /\ closing[r] = "closing"
  /\ closing' = [closing EXCEPT ![r] = "closed"]
  /\ sequentialReaderWindows' = [sequentialReaderWindows EXCEPT ![r] = NoWindow]
  /\ UNCHANGED <<session, waiting, manual, calls, bounds>>

ReadersInit ==
  /\ readerPlan \in ReaderPlans
  /\ readerBudget = readerPlan.budget
  /\ pieceState = [i \in Pieces |-> IF i \in readerPlan.resumed THEN "unverified"
                                    ELSE "empty"]
  /\ wanted = Pieces
  /\ life = "open"
  /\ statusErr = "none"
  /\ sequentialReaderWindows = [r \in Readers |-> NoWindow]
  /\ manual = NoWindow
  /\ pieceWaiters = [i \in Pieces |-> {}]
  /\ woken = {}
  /\ rpc = [r \in Readers |-> "idle"]
  /\ call = [r \in Readers |-> NoCall]
  /\ result = [r \in Readers |-> [n |-> 0, err |-> "none"]]
  /\ closing = [r \in Readers |-> "open"]
  /\ cameBack = FALSE

ReadersNext ==
  \/ \E r \in readerPlan.readers :
       \/ \E c \in Calls : ReadAt(r, c)
       \/ Prioritize(r) \/ RegisterWindow(r) \/ NextChunk(r) \/ waitForPiece(r)
       \/ WakeUp(r) \/ ReadBlock(r) \/ CloseReader(r) \/ DropWindow(r)
  \/ \E i \in Pieces :
       \/ HandBack(i) \/ markPieceCompleted(i) \/ WriteFails(i) \/ Repair(i)
       \/ Verify(i)
  \/ \E W \in readerPlan.selections : SelectFiles(W)
  \/ \E w \in readerPlan.manual : SetSequentialMode(w)
  \/ Claim \/ PersistFails \/ PersistWorks \/ CloseSession \/ CloseStorage

ReadersSpec == ReadersInit /\ [][ReadersNext]_readerVars

-----------------------------------------------------------------------------
(***************************************************************************)
(* Properties                                                              *)
(***************************************************************************)

\* The session and its readers are in states the code declares.
ReadersTypeOK ==
  /\ pieceState \in [Pieces -> {"empty", "downloading", "completed", "unverified"}]
  /\ wanted \subseteq Pieces /\ woken \subseteq Readers
  /\ \A r \in Readers : rpc[r] \in {"idle", "prioritize", "window", "chunk",
                                    "await", "asleep", "copy"}

\* No wake-up is lost: a reader sleeps on only while its piece is missing and
\* still to come, and it is registered where the completion will look for it
\* (waitForPiece releases Session.mu between its checks and its sleep).
SleepersWillBeWoken ==
  \A r \in Readers :
    rpc[r] = "asleep" /\ r \notin woken /\ closing[r] = "open" =>
      /\ r \in pieceWaiters[PieceOf(r)]
      /\ pieceState[PieceOf(r)] # "completed"
      /\ PieceOf(r) \in wanted
      /\ life = "open" /\ statusErr = "none"

\* A closed reader leaves nothing behind that steers the picker, whatever its
\* Close overlapped (prioritize re-checks closed under the lock).
ClosedReadersAreForgotten ==
  \A r \in Readers : closing[r] = "closed" =>
    sequentialReaderWindows[r] = NoWindow

\* The piece a reader waits for lies in its own window, wherever the window
\* has slid meanwhile, unless a piece it had passed over came back.
WaitedPieceIsInWindow ==
  \A r \in Readers :
    rpc[r] = "asleep" /\ closing[r] = "open" /\ r \notin woken /\ ~cameBack =>
      PieceOf(r) \in sequentialReaderWindows[r].start ..
                       sequentialReaderWindows[r].end - 1

\* No reader sleeps through what should wake it, and a closed one steers
\* nothing (reader.go:335).
ReadersAreServed == ReadersTypeOK /\ SleepersWillBeWoken /\ ClosedReadersAreForgotten

\* The piece a reader waits for lies in its window (reader.go, piece_picker.go).
ReadersSteer == WaitedPieceIsInWindow
=============================================================================
