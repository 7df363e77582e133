----------------------------- MODULE Swarm_proofs -----------------------------
(***************************************************************************)
(* The theorems about TorrentReaders, one about Uploads and, last, two     *)
(* about PiecePicker; the three share no state.                            *)
(*                                                                         *)
(* No reader sleeps through what should wake it, a closed one steers       *)
(* nothing, and the piece a reader waits for lies in its window            *)
(* (ReadersAreServed, ReadersSteer), for any readers, calls, piece sizes   *)
(* and read-ahead.                                                         *)
(*                                                                         *)
(* A session step leaves every read where it is, so what is shown of it is *)
(* that it wakes the readers of each piece it changes the answer for       *)
(* (Spares), and that no piece a window has slid over is needed again      *)
(* (Reverts).  A reader's step concerns that reader alone (OnlyReader).    *)
(* The invariant adds that a read fits into what its reader exposes and    *)
(* that its window covers what is left of it.                              *)
(*                                                                         *)
(* The picker's walk finds the piece its comment promises, and a           *)
(* connection that trusts an empty pick misses nothing (RarestPicked,      *)
(* EmptyPicksStand), for any pieces, files and connections.  The           *)
(* invariant says that the needed pieces are the empty wanted ones and     *)
(* that each is filed once, under its priority and the number of counted   *)
(* connections that have it, so a walk meets no stale entry; and that a    *)
(* pick made while the peer did not choke has looked at all the peer has,  *)
(* so a later unchoke brings nothing new.                                  *)
(***************************************************************************)
EXTENDS TorrentReaders, Uploads, PiecePicker, FiniteSetTheorems, WellFoundedInduction, TLAPS

----------------------------------------------------------------------------
(* The invariant *)

PieceStates == {"empty", "downloading", "completed", "unverified"}
InRead == {"prioritize", "window", "chunk", "await", "asleep", "copy"}
InLoop == {"chunk", "await", "asleep", "copy"}

\* The window of a reader: its end is never 0, as the manual window's is.
Windows == [start : Nat, end : 1 .. NumPieces, ahead : Nat]

\* The session.
SessionTyped ==
  /\ readerPlan \in ReaderPlans
  /\ pieceState \in [Pieces -> PieceStates]
  /\ wanted \subseteq Pieces /\ woken \subseteq Readers
  /\ pieceWaiters \in [Pieces -> SUBSET Readers]
  /\ cameBack \in BOOLEAN

\* The readers.
ReadersTyped ==
  /\ rpc \in [Readers -> InRead \cup {"idle"}]
  /\ closing \in [Readers -> {"open", "closing", "closed"}]
  /\ call \in [Readers -> [start : Nat, len : Nat, total : Nat]]
  /\ sequentialReaderWindows \in [Readers -> Windows \cup {NoWindow}]

\* What SleepersWillBeWoken and ClosedReadersAreForgotten say of one reader.
Attended(r) ==
  rpc[r] = "asleep" /\ r \notin woken /\ closing[r] = "open" =>
    /\ r \in pieceWaiters[PieceOf(r)]
    /\ pieceState[PieceOf(r)] # "completed"
    /\ PieceOf(r) \in wanted
    /\ life = "open" /\ statusErr = "none"
Forgotten(r) == closing[r] = "closed" => sequentialReaderWindows[r] = NoWindow

\* A read stays inside what its reader exposes, and waits only for bytes it has not got.
CallFits(r) ==
  /\ rpc[r] \in InRead => /\ call[r].len >= 1 /\ call[r].total <= call[r].len
                          /\ call[r].start + call[r].len <= Exposed[r].base + Exposed[r].length
  /\ rpc[r] \in {"await", "asleep", "copy"} => call[r].total < call[r].len

\* The pieces of a read, and the window that covers them: none of them is past
\* its end, and it slides only over what is there or no longer wanted.
Needed(r) == {i \in Pieces : /\ call[r].start \div PieceLength <= i
                             /\ i <= (call[r].start + call[r].len - 1) \div PieceLength}
Settled(i) == pieceState[i] = "completed" \/ i \notin wanted
Covers(w, r) ==
  /\ w # NoWindow
  /\ \A i \in Needed(r) : i < w.end /\ (i < w.start => Settled(i))
Steered(r) ==
  rpc[r] \in InLoop /\ closing[r] = "open" /\ ~cameBack => Covers(sequentialReaderWindows[r], r)

ReaderHolds(r) == Attended(r) /\ Forgotten(r) /\ CallFits(r) /\ Steered(r)
ReadersInv == SessionTyped /\ ReadersTyped /\ \A r \in Readers : ReaderHolds(r)

----------------------------------------------------------------------------
(* Numbers *)

\* Division by the length of a piece: p lies in the piece p \div d.
LEMMA DivFacts ==
  ASSUME NEW p \in Nat, NEW d \in Nat \ {0}
  PROVE  p \div d \in Nat /\ (p \div d) * d <= p /\ p < (p \div d + 1) * d
<1>1. p \div d \in Int /\ p = d * (p \div d) + (p % d) /\ p % d \in 0 .. d - 1
  BY SMT
<1> DEFINE q == p \div d
<1>2. q >= 0
  BY SMT
<1> HIDE DEF q
<1>3. d * q = q * d /\ (q + 1) * d = q * d + d
  BY <1>1, SMT DEF q
<1> QED
  BY <1>1, <1>2, <1>3 DEF q

\* Multiplication keeps the order.
LEMMA TimesMonotone ==
  ASSUME NEW a \in Nat, NEW b \in Nat, NEW d \in Nat, a <= b
  PROVE  a * d <= b * d
<1>1. PICK k \in Nat : b = a + k
  BY b - a \in Nat
<1>2. b * d = a * d + k * d
  BY <1>1
<1>3. k * d \in Nat
  OBVIOUS
<1>4. a * d \in Nat
  OBVIOUS
<1> QED
  BY <1>2, <1>3, <1>4

\* What lies below the end of n pieces is in one of them.
LEMMA DivBelow ==
  ASSUME NEW p \in Nat, NEW d \in Nat \ {0}, NEW n \in Nat, p < n * d
  PROVE  p \div d < n
<1> DEFINE q == p \div d
<1>1. q \in Nat /\ q * d <= p
  BY DivFacts
<1> HIDE DEF q
<1>2. q >= n => n * d <= q * d
  BY <1>1, TimesMonotone
<1>3. q * d \in Nat /\ n * d \in Nat
  BY <1>1
<1> QED
  BY <1>1, <1>2, <1>3 DEF q

\* A later byte is in the same piece or a later one.
LEMMA DivMonotone ==
  ASSUME NEW p \in Nat, NEW q \in Nat, NEW d \in Nat \ {0}, p <= q
  PROVE  p \div d <= q \div d
<1> DEFINE n == q \div d + 1
<1>1. n \in Nat /\ q < n * d
  BY DivFacts
<1> HIDE DEF n
<1>2. n * d \in Nat
  BY <1>1
<1>3. p \div d < n
  BY <1>1, <1>2, DivBelow
<1>4. p \div d \in Nat /\ q \div d \in Nat
  BY DivFacts
<1> QED
  BY <1>3, <1>4 DEF n

\* A set of naturals that is not empty has a least element: < is well-founded.
LEMMA MinIsIn ==
  ASSUME NEW S \in SUBSET Nat, S # {}
  PROVE  Min(S) \in S /\ \A y \in S : Min(S) <= y
<1>1. PICK x \in S : \A y \in S : <<y, x>> \notin OpToRel(<, Nat)
  BY NatLessThanWellFounded, WFMin, Zenon
<1>2. \A y \in S : ~ (y < x)
  <2>1. ASSUME NEW y \in S, y < x PROVE FALSE
    <3>1. <<y, x>> \in Nat \X Nat /\ <<y, x>>[1] = y /\ <<y, x>>[2] = x
      OBVIOUS
    <3> QED
      BY <1>1, <2>1, <3>1, Zenon DEF OpToRel
  <2> QED
    BY <2>1
<1>3. \A y \in S : x <= y
  BY <1>2
<1> QED
  BY <1>3 DEF Min

\* The sizes of a torrent.
LEMMA Sizes ==
  /\ NumPieces \in Nat \ {0} /\ PieceLength \in Nat \ {0} /\ TotalSize \in Nat
  /\ TotalSize <= NumPieces * PieceLength /\ NumPieces * PieceLength \in Nat
  /\ (NumPieces - 1) * PieceLength \in Nat
  /\ Pieces \subseteq Nat
<1>1. NumPieces \in Nat \ {0} /\ PieceLength \in Nat \ {0}
  BY SizesAssumption DEF SizesAssumption
<1>2. NumPieces * PieceLength \in Nat /\ (NumPieces - 1) * PieceLength \in Nat
  <2>1. NumPieces - 1 \in Nat
    BY <1>1
  <2> QED
    BY <1>1, <2>1
<1> QED
  BY <1>1, <1>2, SizesAssumption DEF SizesAssumption, Pieces

----------------------------------------------------------------------------
(* Reads and windows *)

\* What a read asks for ends where the torrent does, at the latest.
LEMMA ReadIsInside ==
  ASSUME ReadersTyped, NEW r \in Readers, CallFits(r), rpc[r] \in InRead
  PROVE  /\ call[r].start \in Nat /\ call[r].len \in Nat \ {0} /\ call[r].total \in Nat
         /\ call[r].start + call[r].len <= TotalSize
         /\ call[r].start + call[r].len <= Exposed[r].base + Exposed[r].length
         /\ Exposed[r].base + Exposed[r].length \in Nat
         /\ Exposed[r].base + Exposed[r].length <= TotalSize
<1>1. call[r] \in [start : Nat, len : Nat, total : Nat]
  BY DEF ReadersTyped
<1>2. /\ Exposed[r].base \in Nat /\ Exposed[r].length \in Nat
      /\ Exposed[r].base + Exposed[r].length <= TotalSize
  BY SizesAssumption, Sizes DEF SizesAssumption
<1>3. call[r].start \in Nat /\ call[r].len \in Nat /\ call[r].total \in Nat
  BY <1>1
<1>4. call[r].len >= 1 /\ call[r].start + call[r].len <= Exposed[r].base + Exposed[r].length
  BY DEF CallFits
<1> QED
  BY <1>2, <1>3, <1>4, Sizes

\* The piece a read is at is one of those it needs, and the next chunk of it is
\* not more than what is left of the read.
LEMMA PieceIsNeeded ==
  ASSUME ReadersTyped, NEW r \in Readers, CallFits(r), rpc[r] \in InRead,
         call[r].total < call[r].len
  PROVE  /\ PieceOf(r) \in Needed(r)
         /\ Chunk(r) \in Nat /\ Chunk(r) <= call[r].len - call[r].total
<1> DEFINE p == Position(r)
           last == call[r].start + call[r].len - 1
<1>1. /\ call[r].start \in Nat /\ call[r].len \in Nat \ {0} /\ call[r].total \in Nat
      /\ call[r].start + call[r].len <= TotalSize
  BY ReadIsInside
<1>2. /\ p \in Nat /\ last \in Nat /\ call[r].start <= p /\ p <= last /\ p < TotalSize
      /\ last < TotalSize
  BY <1>1, Sizes DEF Position
<1> HIDE DEF p, last
<1>3. /\ PieceOf(r) = p \div PieceLength /\ PieceOf(r) \in Nat
      /\ p < (PieceOf(r) + 1) * PieceLength
  BY <1>2, Sizes, DivFacts DEF PieceOf, p
<1>4. PieceOf(r) < NumPieces
  BY <1>2, <1>3, Sizes, DivBelow
<1>5. PieceOf(r) \in Pieces
  BY <1>3, <1>4, Sizes DEF Pieces
<1>6. call[r].start \div PieceLength <= PieceOf(r) /\ PieceOf(r) <= last \div PieceLength
  BY <1>1, <1>2, <1>3, Sizes, DivMonotone
<1>7. PieceOf(r) \in Needed(r)
  BY <1>5, <1>6 DEF Needed, last
<1>8. (PieceOf(r) + 1) * PieceLength \in Nat
  <2>1. PieceOf(r) + 1 \in Nat
    BY <1>3
  <2> QED
    BY <2>1, Sizes
<1>9. PieceEnd(PieceOf(r)) \in Nat /\ PieceEnd(PieceOf(r)) > p
  BY <1>2, <1>3, <1>8, Sizes DEF PieceEnd, Lesser
<1>10. Chunk(r) \in Nat /\ Chunk(r) <= call[r].len - call[r].total
  <2> DEFINE e == PieceEnd(PieceOf(r))
  <2>1. e \in Nat /\ e > p
    BY <1>9
  <2> HIDE DEF e
  <2>2. Chunk(r) = Lesser(e - p, call[r].len - call[r].total)
    BY DEF Chunk, e, p
  <2> QED
    BY <1>1, <1>2, <2>1, <2>2 DEF Lesser
<1> QED
  BY <1>7, <1>10

\* A window slides forward inside its end, over what is settled.
LEMMA SlidFacts ==
  ASSUME SessionTyped, NEW w \in Windows
  PROVE  /\ Slid(w) \in Windows /\ Slid(w).end = w.end
         /\ \A i \in Pieces : i < Slid(w).start => i < w.start \/ Settled(i)
<1>1. w.start \in Nat /\ w.end \in 1 .. NumPieces /\ w.ahead \in Nat /\ NumPieces \in Nat
  BY Sizes DEF Windows
<1>2. w.end > 0 /\ w.end <= NumPieces /\ w.end \in Nat
  BY <1>1
<1>3. (IF w.end > 0 THEN Lesser(w.end, NumPieces) ELSE NumPieces) = w.end
  BY <1>1, <1>2 DEF Lesser
<1> DEFINE left == {i \in w.start .. w.end - 1 : pieceState[i] # "completed" /\ i \in wanted}
           s == IF left = {} THEN w.end ELSE Min(left)
<1>4. Slid(w) = IF w.start >= w.end THEN w ELSE [w EXCEPT !.start = s]
  BY <1>3 DEF Slid
<1>5. left \subseteq Nat
  BY <1>1, <1>2
<1>6. left # {} => Min(left) \in left /\ \A y \in left : Min(left) <= y
  BY <1>5, MinIsIn
<1>7. s \in Nat
  BY <1>2, <1>5, <1>6
<1>8. \A i \in Nat : i < s /\ ~(w.start >= w.end) => i < w.start \/ i \notin left
  <2> SUFFICES ASSUME NEW i \in Nat, i < s, ~(w.start >= w.end), i \in left PROVE FALSE
    OBVIOUS
  <2>1. left # {} /\ s = Min(left)
    OBVIOUS
  <2>2. s <= i
    BY <2>1, <1>6
  <2> QED
    BY <2>2, <1>7
<1>9. \A i \in Nat : i < s /\ ~(w.start >= w.end) => i < w.end
  <2> SUFFICES ASSUME NEW i \in Nat, i < s, ~(w.start >= w.end) PROVE i < w.end
    OBVIOUS
  <2>1. CASE left = {}
    BY <2>1
  <2>2. CASE left # {}
    <3>1. s \in left
      BY <2>2, <1>6
    <3>2. s <= w.end - 1
      BY <3>1, <1>1, <1>2
    <3> QED
      BY <3>2, <1>7, <1>2
  <2> QED
    BY <2>1, <2>2
<1>10. \A i \in Nat : i \notin left => i < w.start \/ i >= w.end \/ Settled(i)
  <2> SUFFICES ASSUME NEW i \in Nat, i \notin left, ~(i < w.start), ~(i >= w.end) PROVE Settled(i)
    OBVIOUS
  <2>1. i \in w.start .. w.end - 1
    BY <1>1, <1>2
  <2> QED
    BY <2>1 DEF Settled
<1> HIDE DEF left, s
<1>11. CASE w.start >= w.end
  BY <1>4, <1>11
<1>12. CASE ~(w.start >= w.end)
  <2>1. Slid(w) = [w EXCEPT !.start = s]
    BY <1>4, <1>12
  <2>2. Slid(w) = [start |-> s, end |-> w.end, ahead |-> w.ahead]
    BY <2>1 DEF Windows
  <2>3. Slid(w) \in Windows /\ Slid(w).end = w.end /\ Slid(w).start = s
    BY <2>2, <1>1, <1>7 DEF Windows
  <2>4. \A i \in Pieces : i < s => i < w.start \/ Settled(i)
    BY <1>1, <1>2, <1>7, <1>8, <1>9, <1>10, <1>12, Sizes
  <2> QED
    BY <2>3, <2>4
<1> QED
  BY <1>11, <1>12

\* A window is made for all of a read, from its first piece on.
LEMMA WindowForFacts ==
  ASSUME NEW offset \in Nat, NEW length \in Nat \ {0}, NEW bound \in Nat,
         offset + length <= bound, bound <= TotalSize
  PROVE  /\ WindowFor(offset, length, bound) \in Windows
         /\ WindowFor(offset, length, bound).start = offset \div PieceLength
         /\ (offset + length - 1) \div PieceLength < WindowFor(offset, length, bound).end
<1> DEFINE first == offset \div PieceLength
           final == (offset + length - 1) \div PieceLength
           below == (bound - 1) \div PieceLength + 1
           span == final - first + 1
           ahead == IF span > Readahead THEN span ELSE Readahead
           last == Lesser(first + ahead, below)
           end == Lesser(last, NumPieces)
<1>1. Readahead \in Nat /\ NumPieces \in Nat \ {0} /\ PieceLength \in Nat \ {0}
  BY CallsAssumption, Sizes DEF CallsAssumption
<1>2. /\ offset + length - 1 \in Nat /\ bound - 1 \in Nat /\ offset <= offset + length - 1
      /\ offset + length - 1 <= bound - 1 /\ bound - 1 < NumPieces * PieceLength
      /\ bound > offset
  BY Sizes
<1>3. first \in Nat /\ final \in Nat /\ below \in Nat
  BY <1>1, <1>2, DivFacts
<1>4. first <= final /\ final < below /\ below <= NumPieces
  <2>1. first <= final /\ final <= (bound - 1) \div PieceLength
    BY <1>1, <1>2, DivMonotone
  <2>2. (bound - 1) \div PieceLength < NumPieces /\ (bound - 1) \div PieceLength \in Nat
    BY <1>1, <1>2, DivBelow, DivFacts
  <2> QED
    BY <2>1, <2>2, <1>1, <1>3
<1>5. Lesser(first, NumPieces - 1) = first
  BY <1>1, <1>3, <1>4 DEF Lesser
<1>6. PiecesBelow(bound) = below
  BY DEF PiecesBelow
<1>7. WindowFor(offset, length, bound) =
        IF end <= first THEN NoWindow ELSE [start |-> first, end |-> end, ahead |-> ahead]
  BY <1>2, <1>5, <1>6 DEF WindowFor
<1> HIDE DEF first, final, below
<1>8. span \in Nat /\ ahead \in Nat /\ ahead >= span /\ first + ahead > final
  BY <1>1, <1>3, <1>4
<1> HIDE DEF ahead
<1>9. last \in Nat /\ last > final
  BY <1>3, <1>4, <1>8 DEF Lesser
<1> HIDE DEF last
<1>10. end \in 1 .. NumPieces /\ end > final
  BY <1>1, <1>3, <1>4, <1>9 DEF Lesser
<1> HIDE DEF end
<1>11. WindowFor(offset, length, bound) = [start |-> first, end |-> end, ahead |-> ahead]
  BY <1>3, <1>4, <1>7, <1>10
<1> QED
  BY <1>3, <1>8, <1>10, <1>11 DEF Windows, first, final

\* A sleeper's piece is in its window: it has not been slid over, for it is
\* still to come.
LEMMA SleeperIsSteered ==
  ASSUME SessionTyped, ReadersTyped, NEW r \in Readers, ReaderHolds(r),
         rpc[r] = "asleep", closing[r] = "open", r \notin woken, ~cameBack
  PROVE  PieceOf(r) \in sequentialReaderWindows[r].start .. sequentialReaderWindows[r].end - 1
<1> DEFINE w == sequentialReaderWindows[r]
           i == PieceOf(r)
<1>1. CallFits(r) /\ Attended(r) /\ Steered(r)
  BY DEF ReaderHolds
<1>2. i \in Needed(r)
  <2>1. rpc[r] \in InRead /\ call[r].total < call[r].len
    BY <1>1 DEF CallFits, InRead
  <2> QED
    BY <2>1, <1>1, PieceIsNeeded
<1>3. pieceState[i] # "completed" /\ i \in wanted
  BY <1>1 DEF Attended
<1>4. w # NoWindow /\ i < w.end /\ ~(i < w.start)
  BY <1>1, <1>2, <1>3 DEF Steered, Covers, InLoop, Settled
<1>5. w \in Windows
  BY <1>4 DEF ReadersTyped
<1>6. w.start \in Nat /\ w.end \in Nat
  BY <1>5, Sizes DEF Windows
<1>7. i \in Nat
  BY <1>2, Sizes DEF Needed
<1> QED
  BY <1>4, <1>6, <1>7

----------------------------------------------------------------------------
(* Steps of the session *)

\* The reads stay where they are.
ReadersStay == UNCHANGED <<readerPlan, rpc, call, closing, sequentialReaderWindows, pieceWaiters>>
\* What a sleeper on piece i was told stays true.
Spared(i) ==
  /\ pieceState[i] # "completed" => pieceState'[i] # "completed"
  /\ i \in wanted => i \in wanted'
  /\ life = "open" => life' = "open"
  /\ statusErr = "none" => statusErr' = "none"
\* Whoever it does not stay true for is woken.
Spares == woken \subseteq woken' /\ \A i \in Pieces : pieceWaiters[i] \subseteq woken' \/ Spared(i)
\* A piece passed over is needed again only where cameBack records it.
Reverts == ~cameBack' => ~cameBack /\ \A i \in Pieces : Settled(i) => Settled(i)'

\* Such a step keeps what holds of every reader.
LEMMA SessionStep ==
  ASSUME ReadersInv, ReadersStay, Spares, Reverts, SessionTyped'
  PROVE  ReadersInv'
<1>1. ReadersTyped'
  BY DEF ReadersInv, ReadersTyped, ReadersStay
<1>2. ASSUME NEW r \in Readers PROVE ReaderHolds(r)'
  <2>1. ReaderHolds(r)
    BY DEF ReadersInv
  <2>2. PieceOf(r)' = PieceOf(r) /\ Needed(r)' = Needed(r)
    BY DEF ReadersStay, PieceOf, Position, Needed
  <2>3. Attended(r)'
    <3> SUFFICES ASSUME rpc[r] = "asleep", r \notin woken', closing[r] = "open"
                 PROVE  /\ r \in pieceWaiters[PieceOf(r)] /\ pieceState'[PieceOf(r)] # "completed"
                        /\ PieceOf(r) \in wanted' /\ life' = "open" /\ statusErr' = "none"
      BY <2>2 DEF Attended, ReadersStay
    <3>1. /\ r \in pieceWaiters[PieceOf(r)] /\ pieceState[PieceOf(r)] # "completed"
          /\ PieceOf(r) \in wanted /\ life = "open" /\ statusErr = "none"
      BY <2>1 DEF ReaderHolds, Attended, Spares
    <3>2. PieceOf(r) \in Pieces
      BY <3>1 DEF ReadersInv, SessionTyped
    <3> QED
      BY <3>1, <3>2 DEF Spares, Spared
  <2>4. Forgotten(r)' /\ CallFits(r)'
    BY <2>1 DEF ReaderHolds, Forgotten, CallFits, ReadersStay
  <2>5. Steered(r)'
    <3> SUFFICES ASSUME rpc[r] \in InLoop, closing[r] = "open", ~cameBack'
                 PROVE  Covers(sequentialReaderWindows[r], r)'
      BY DEF Steered, ReadersStay
    <3>1. Covers(sequentialReaderWindows[r], r) /\ \A i \in Pieces : Settled(i) => Settled(i)'
      BY <2>1 DEF Reverts, ReaderHolds, Steered
    <3>2. \A i \in Needed(r) : i \in Pieces
      BY DEF Needed
    <3> QED
      BY <2>2, <3>1, <3>2 DEF Covers, ReadersStay
  <2> QED
    BY <2>3, <2>4, <2>5 DEF ReaderHolds
<1> QED
  BY <1>1, <1>2 DEF ReadersInv

\* A broadcast wakes all there are.
LEMMA BroadcastSpares ==
  ASSUME SessionTyped, broadcastPieceWaiters
  PROVE  Spares /\ woken' \subseteq Readers
<1>1. woken' = woken \cup UNION {pieceWaiters[i] : i \in Pieces}
  BY DEF broadcastPieceWaiters
<1>2. \A i \in Pieces : pieceWaiters[i] \subseteq woken'
  BY <1>1
<1>3. woken' \subseteq Readers
  BY <1>1 DEF SessionTyped
<1> QED
  BY <1>1, <1>2, <1>3 DEF Spares

\* A piece handed back was not there, and is still to come.
LEMMA HandBackStep ==
  ASSUME ReadersInv, NEW i \in Pieces, HandBack(i)
  PROVE  ReadersInv'
<1>1. pieceState[i] = "downloading" /\ pieceState' = [pieceState EXCEPT ![i] = "empty"]
  BY DEF HandBack
<1>2. UNCHANGED <<wanted, life, statusErr, pieceWaiters, woken, cameBack>> /\ ReadersStay
  BY DEF HandBack, Costs, ReadersStay, waiting, windows, calls
<1>3. SessionTyped'
  BY <1>1, <1>2 DEF ReadersInv, SessionTyped, ReadersStay, PieceStates
<1>4. \A j \in Pieces : pieceState'[j] = "completed" <=> pieceState[j] = "completed"
  BY <1>1 DEF ReadersInv, SessionTyped
<1>5. Spares
  BY <1>2, <1>4 DEF Spares, Spared
<1>6. Reverts
  BY <1>2, <1>4 DEF Reverts, Settled
<1> QED
  BY <1>2, <1>3, <1>5, <1>6, SessionStep

\* A completion wakes the readers of its piece; nothing is taken from the others.
LEMMA CompletionStep ==
  ASSUME ReadersInv, NEW i \in Pieces,
         pieceState' = [pieceState EXCEPT ![i] = "completed"],
         signalPieceWaiters(i), statusErr' \in {statusErr, "none"},
         UNCHANGED <<wanted, life, cameBack>>, ReadersStay
  PROVE  ReadersInv'
<1>1. woken' = woken \cup pieceWaiters[i]
  BY DEF signalPieceWaiters
<1>2. SessionTyped'
  BY <1>1 DEF ReadersInv, SessionTyped, ReadersStay, PieceStates
<1>3. \A j \in Pieces : pieceState'[j] = IF j = i THEN "completed" ELSE pieceState[j]
  BY DEF ReadersInv, SessionTyped
<1>4. Spares
  BY <1>1, <1>3 DEF Spares, Spared
<1>5. Reverts
  BY <1>3 DEF Reverts, Settled
<1> QED
  BY <1>2, <1>4, <1>5, SessionStep

\* markPieceCompleted.
LEMMA CompletedStep ==
  ASSUME ReadersInv, NEW i \in Pieces, markPieceCompleted(i)
  PROVE  ReadersInv'
<1>1. /\ pieceState' = [pieceState EXCEPT ![i] = "completed"] /\ signalPieceWaiters(i)
      /\ statusErr' = "none" /\ UNCHANGED <<wanted, life, cameBack>> /\ ReadersStay
  BY DEF markPieceCompleted, ReadersStay, windows, calls, bounds
<1> QED
  BY <1>1, CompletionStep

\* A failed write tells everyone.
LEMMA WriteFailsStep ==
  ASSUME ReadersInv, NEW i \in Pieces, WriteFails(i)
  PROVE  ReadersInv'
<1>1. pieceState[i] = "downloading" /\ pieceState' = [pieceState EXCEPT ![i] = "empty"]
  BY DEF WriteFails
<1>2. /\ UNCHANGED <<wanted, life, cameBack>> /\ ReadersStay /\ broadcastPieceWaiters
  BY DEF WriteFails, Costs, ReadersStay, windows, calls
<1>3. Spares /\ woken' \subseteq Readers
  BY <1>2, BroadcastSpares DEF ReadersInv
<1>4. SessionTyped'
  BY <1>1, <1>2, <1>3 DEF ReadersInv, SessionTyped, ReadersStay, PieceStates
<1>5. Reverts
  <2>1. \A j \in Pieces : pieceState'[j] = "completed" <=> pieceState[j] = "completed"
    BY <1>1 DEF ReadersInv, SessionTyped
  <2> QED
    BY <1>2, <2>1 DEF Reverts, Settled
<1> QED
  BY <1>2, <1>3, <1>4, <1>5, SessionStep

\* A repair takes every other piece back, and cameBack records it.
LEMMA RepairStep ==
  ASSUME ReadersInv, NEW i \in Pieces, Repair(i)
  PROVE  ReadersInv'
<1>1. /\ pieceState' = [j \in Pieces |-> IF j = i THEN "completed" ELSE "empty"]
      /\ statusErr' = "none" /\ cameBack' = TRUE /\ woken' = woken \cup pieceWaiters[i]
      /\ UNCHANGED <<wanted, life>> /\ ReadersStay
  BY DEF Repair, Costs, ReadersStay, windows, calls, signalPieceWaiters
<1>2. SessionTyped'
  BY <1>1 DEF ReadersInv, SessionTyped, ReadersStay, PieceStates
<1>3. Spares
  BY <1>1 DEF Spares, Spared
<1>4. Reverts
  BY <1>1 DEF Reverts
<1> QED
  BY <1>1, <1>2, <1>3, <1>4, SessionStep

\* A recheck finds its piece, or that it was never there.
LEMMA VerifyStep ==
  ASSUME ReadersInv, NEW i \in Pieces, Verify(i)
  PROVE  ReadersInv'
<1>1. /\ pieceState[i] = "unverified" /\ UNCHANGED <<wanted, life, statusErr, cameBack>> /\ ReadersStay
  BY DEF Verify, ReadersStay, windows, calls, bounds
<1>2. CASE pieceState' = [pieceState EXCEPT ![i] = "completed"] /\ signalPieceWaiters(i)
  BY <1>1, <1>2, CompletionStep
<1>3. CASE pieceState' = [pieceState EXCEPT ![i] = "empty"] /\ UNCHANGED woken
  <2>1. SessionTyped'
    BY <1>1, <1>3 DEF ReadersInv, SessionTyped, ReadersStay, PieceStates
  <2>2. \A j \in Pieces : pieceState'[j] = "completed" <=> pieceState[j] = "completed"
    BY <1>1, <1>3 DEF ReadersInv, SessionTyped
  <2>3. Spares
    BY <1>1, <1>3, <2>2 DEF Spares, Spared
  <2>4. Reverts
    BY <1>1, <2>2 DEF Reverts, Settled
  <2> QED
    BY <1>1, <2>1, <2>3, <2>4, SessionStep
<1> QED
  BY <1>2, <1>3 DEF Verify

\* A selection tells everyone, and cameBack records what it wants anew.
LEMMA SelectFilesStep ==
  ASSUME ReadersInv, NEW W \in readerPlan.selections, SelectFiles(W)
  PROVE  ReadersInv'
<1>1. /\ wanted' = W /\ broadcastPieceWaiters /\ cameBack' = (cameBack \/ ~(W \subseteq wanted))
      /\ UNCHANGED <<pieceState, life, statusErr>> /\ ReadersStay
  BY DEF SelectFiles, Costs, ReadersStay, windows, calls
<1>2. W \subseteq Pieces
  BY CallsAssumption DEF CallsAssumption, ReadersInv, SessionTyped, Pieces
<1>3. Spares /\ woken' \subseteq Readers
  BY <1>1, BroadcastSpares DEF ReadersInv
<1>4. SessionTyped'
  BY <1>1, <1>2, <1>3 DEF ReadersInv, SessionTyped, ReadersStay
<1>5. Reverts
  BY <1>1 DEF Reverts, Settled
<1> QED
  BY <1>1, <1>3, <1>4, <1>5, SessionStep

\* A failed save and a close tell everyone; a save that works, the close of
\* the storage and the manual window change nothing a reader waits for.
LEMMA OtherSessionSteps ==
  ASSUME ReadersInv,
         \/ PersistFails \/ PersistWorks \/ CloseSession \/ CloseStorage
         \/ \E w \in readerPlan.manual : SetSequentialMode(w)
  PROVE  ReadersInv'
<1>1. CASE PersistFails \/ CloseSession
  <2>1. UNCHANGED <<pieceState, wanted, cameBack>> /\ ReadersStay /\ broadcastPieceWaiters
    BY <1>1 DEF PersistFails, CloseSession, Costs, ReadersStay, windows, calls
  <2>2. Spares /\ woken' \subseteq Readers
    BY <2>1, BroadcastSpares DEF ReadersInv
  <2>3. SessionTyped'
    BY <2>1, <2>2 DEF ReadersInv, SessionTyped, ReadersStay
  <2>4. Reverts
    BY <2>1 DEF Reverts, Settled
  <2> QED
    BY <2>1, <2>2, <2>3, <2>4, SessionStep
<1>2. CASE \/ PersistWorks \/ CloseStorage \/ \E w \in readerPlan.manual : SetSequentialMode(w)
  <2>1. /\ UNCHANGED <<pieceState, wanted, cameBack, woken>> /\ ReadersStay
        /\ statusErr' \in {statusErr, "none"} /\ (life = "open" => life' = "open")
    BY <1>2 DEF PersistWorks, CloseStorage, SetSequentialMode, Costs, ReadersStay, windows, calls,
      waiting, bounds, session
  <2>2. SessionTyped'
    BY <2>1 DEF ReadersInv, SessionTyped, ReadersStay
  <2>3. Spares
    BY <2>1 DEF Spares, Spared
  <2>4. Reverts
    BY <2>1 DEF Reverts, Settled
  <2> QED
    BY <2>1, <2>2, <2>3, <2>4, SessionStep
<1> QED
  BY <1>1, <1>2

\* What a window offers is an empty piece, or none.
LEMMA PickIsEmpty ==
  ASSUME SessionTyped, NEW w, NEW has
  PROVE  \/ WindowPick(w, has) = -1
         \/ WindowPick(w, has) \in Pieces /\ pieceState[WindowPick(w, has)] = "empty"
<1> DEFINE s == Slid(w).start
           end == IF w.end > 0 THEN Lesser(w.end, NumPieces) ELSE Lesser(s + w.ahead, NumPieces)
           fits == {i \in s .. end - 1 : i \in has /\ i \in wanted /\ pieceState[i] = "empty"}
<1>1. WindowPick(w, has) = IF fits = {} THEN -1 ELSE Min(fits)
  BY DEF WindowPick
<1>2. \A i \in fits : i \in Pieces /\ pieceState[i] = "empty"
  BY DEF SessionTyped
<1> HIDE DEF fits
<1>3. fits \in SUBSET Nat
  BY <1>2, Sizes
<1>4. CASE fits = {}
  BY <1>1, <1>4
<1>5. CASE fits # {}
  BY <1>1, <1>2, <1>3, <1>5, MinIsIn
<1> QED
  BY <1>4, <1>5

\* A claim takes an empty piece, and the windows it tried slide.
LEMMA ClaimStep ==
  ASSUME ReadersInv, Claim
  PROVE  ReadersInv'
<1>1. PICK has \in readerPlan.has : selectSequentialNeededPiece(has)
  BY DEF Claim
<1>2. /\ UNCHANGED <<wanted, life, statusErr, woken, pieceWaiters, cameBack>>
      /\ UNCHANGED <<readerPlan, rpc, call, closing>>
  BY DEF Claim, waiting, calls, bounds
<1> DEFINE hits == {k \in Open : WindowPick(WindowOf(k), has) # -1}
           hit == CHOOSE k \in hits : \A j \in hits \ {k} : Earlier(k, j)
           tried == {k \in Open : hits = {} \/ k = hit \/ Earlier(k, hit)}
           pieces == IF hits # {} THEN {WindowPick(WindowOf(hit), has)}
                     ELSE {i \in has \cap wanted : pieceState[i] = "empty"}
<1>3. /\ \E i \in pieces : pieceState' = [pieceState EXCEPT ![i] = "downloading"]
      /\ sequentialReaderWindows' =
           [r \in Readers |-> IF r \in tried THEN Slid(WindowOf(r)) ELSE WindowOf(r)]
  BY <1>1 DEF selectSequentialNeededPiece
<1>4. tried \subseteq Open
  OBVIOUS
<1>5. PICK i \in pieces : pieceState' = [pieceState EXCEPT ![i] = "downloading"]
  BY <1>3
<1> HIDE DEF tried
<1>6. Readers \subseteq Nat /\ Manual \notin Readers
  BY SizesAssumption DEF SizesAssumption, Manual
<1>7. \A r \in Readers : /\ WindowOf(r) = sequentialReaderWindows[r]
                         /\ r \in Open => sequentialReaderWindows[r] # NoWindow
  BY <1>6 DEF WindowOf, Open
<1>8. \A r \in Readers :
        /\ sequentialReaderWindows'[r] \in {sequentialReaderWindows[r], Slid(sequentialReaderWindows[r])}
        /\ sequentialReaderWindows[r] = NoWindow => sequentialReaderWindows'[r] = NoWindow
  BY <1>3, <1>4, <1>7
<1>9. \A r \in Readers : sequentialReaderWindows[r] # NoWindow =>
        LET w == sequentialReaderWindows[r]
            v == sequentialReaderWindows'[r]
        IN /\ v \in Windows /\ v.end = w.end
           /\ \A j \in Pieces : j < v.start => j < w.start \/ Settled(j)
  <2> TAKE r \in Readers
  <2> HAVE sequentialReaderWindows[r] # NoWindow
  <2> DEFINE w == sequentialReaderWindows[r]
             v == sequentialReaderWindows'[r]
  <2>1. w \in Windows
    BY DEF ReadersInv, ReadersTyped
  <2>2. v = w \/ v = Slid(w)
    BY <1>8
  <2> HIDE DEF v, w
  <2>3. /\ v \in Windows /\ v.end = w.end
        /\ \A j \in Pieces : j < v.start => j < w.start \/ Settled(j)
    BY <2>1, <2>2, SlidFacts DEF ReadersInv
  <2> QED
    BY <2>3 DEF v, w
<1>10. SessionTyped'
  BY <1>2, <1>5 DEF ReadersInv, SessionTyped, PieceStates
<1>11. ReadersTyped'
  <2>1. sequentialReaderWindows' \in [Readers -> Windows \cup {NoWindow}]
    <3>1. \A r \in Readers : sequentialReaderWindows'[r] \in Windows \cup {NoWindow}
      BY <1>8, <1>9
    <3>2. sequentialReaderWindows' = [r \in Readers |-> sequentialReaderWindows'[r]]
      BY <1>3
    <3> QED
      BY <3>1, <3>2
  <2> QED
    BY <2>1, <1>2 DEF ReadersInv, ReadersTyped
<1>12. \A j \in Pieces : pieceState[j] = "completed" <=> pieceState'[j] = "completed"
  <2>1. i = -1 \/ (i \in Pieces /\ pieceState[i] = "empty")
    <3>1. CASE hits # {}
      BY <3>1, PickIsEmpty DEF ReadersInv
    <3>2. CASE hits = {}
      BY <3>2 DEF ReadersInv, SessionTyped
    <3> QED
      BY <3>1, <3>2
  <2>2. -1 \notin Pieces
    BY Sizes
  <2> QED
    BY <1>5, <2>1, <2>2 DEF ReadersInv, SessionTyped
<1> HIDE DEF hits, hit, pieces
<1>13. ASSUME NEW r \in Readers PROVE ReaderHolds(r)'
  <2>1. ReaderHolds(r)
    BY DEF ReadersInv
  <2>2. PieceOf(r)' = PieceOf(r) /\ Needed(r)' = Needed(r)
    BY <1>2 DEF PieceOf, Position, Needed
  <2>3. Attended(r)'
    <3> SUFFICES ASSUME rpc[r] = "asleep", r \notin woken, closing[r] = "open"
                 PROVE  /\ r \in pieceWaiters[PieceOf(r)] /\ pieceState'[PieceOf(r)] # "completed"
                        /\ PieceOf(r) \in wanted /\ life = "open" /\ statusErr = "none"
      BY <1>2, <2>2 DEF Attended
    <3>1. /\ r \in pieceWaiters[PieceOf(r)] /\ pieceState[PieceOf(r)] # "completed"
          /\ PieceOf(r) \in wanted /\ life = "open" /\ statusErr = "none"
      BY <2>1 DEF ReaderHolds, Attended
    <3>2. PieceOf(r) \in Pieces
      BY <3>1 DEF ReadersInv, SessionTyped
    <3> QED
      BY <1>12, <3>1, <3>2
  <2>4. Forgotten(r)' /\ CallFits(r)'
    BY <1>2, <1>8, <2>1 DEF ReaderHolds, Forgotten, CallFits
  <2>5. Steered(r)'
    <3> SUFFICES ASSUME rpc[r] \in InLoop, closing[r] = "open", ~cameBack
                 PROVE  Covers(sequentialReaderWindows[r], r)'
      BY <1>2 DEF Steered
    <3> DEFINE w == sequentialReaderWindows[r]
               v == sequentialReaderWindows'[r]
    <3>1. Covers(w, r)
      BY <2>1 DEF ReaderHolds, Steered
    <3>2. w # NoWindow /\ \A j \in Needed(r) : j \in Pieces /\ j < w.end /\ (j < w.start => Settled(j))
      BY <3>1 DEF Covers, Needed
    <3>3. v \in Windows /\ v.end = w.end /\ \A j \in Pieces : j < v.start => j < w.start \/ Settled(j)
      BY <1>9, <3>2
    <3> HIDE DEF v, w
    <3>4. v # NoWindow
      BY <3>3 DEF Windows, NoWindow
    <3>5. \A j \in Pieces : Settled(j) => Settled(j)'
      BY <1>2, <1>12 DEF Settled
    <3>6. \A j \in Needed(r) : j < v.end /\ (j < v.start => Settled(j)')
      BY <3>2, <3>3, <3>5
    <3> QED
      BY <2>2, <3>4, <3>6 DEF Covers, v
  <2> QED
    BY <2>3, <2>4, <2>5 DEF ReaderHolds
<1> QED
  BY <1>10, <1>11, <1>13 DEF ReadersInv

----------------------------------------------------------------------------
(* Steps of a reader *)

\* The session stands still but for r's registration, and so do the other readers.
OnlyReader(r) ==
  /\ UNCHANGED <<pieceState, wanted, life, statusErr, cameBack, readerPlan>>
  /\ \A x \in Readers \ {r} :
       /\ rpc'[x] = rpc[x] /\ call'[x] = call[x] /\ closing'[x] = closing[x]
       /\ sequentialReaderWindows'[x] = sequentialReaderWindows[x]
       /\ x \in woken => x \in woken'
       /\ \A i \in Pieces : x \in pieceWaiters[i] => x \in pieceWaiters'[i]

\* So what holds of the others goes on to.
LEMMA ReaderStep ==
  ASSUME ReadersInv, NEW r \in Readers, OnlyReader(r), ReadersTyped', ReaderHolds(r)',
         pieceWaiters' \in [Pieces -> SUBSET Readers], woken' \subseteq Readers
  PROVE  ReadersInv'
<1>1. SessionTyped'
  BY DEF ReadersInv, SessionTyped, OnlyReader
<1>2. ASSUME NEW x \in Readers \ {r} PROVE ReaderHolds(x)'
  <2>1. ReaderHolds(x)
    BY DEF ReadersInv
  <2>2. PieceOf(x)' = PieceOf(x) /\ Needed(x)' = Needed(x)
    BY DEF OnlyReader, PieceOf, Position, Needed
  <2>3. Attended(x)'
    <3> SUFFICES ASSUME rpc[x] = "asleep", x \notin woken', closing[x] = "open"
                 PROVE  /\ x \in pieceWaiters'[PieceOf(x)] /\ pieceState[PieceOf(x)] # "completed"
                        /\ PieceOf(x) \in wanted /\ life = "open" /\ statusErr = "none"
      BY <2>2 DEF Attended, OnlyReader
    <3>1. /\ x \in pieceWaiters[PieceOf(x)] /\ pieceState[PieceOf(x)] # "completed"
          /\ PieceOf(x) \in wanted /\ life = "open" /\ statusErr = "none"
      BY <2>1 DEF ReaderHolds, Attended, OnlyReader
    <3>2. PieceOf(x) \in Pieces
      BY <3>1 DEF ReadersInv, SessionTyped
    <3> QED
      BY <3>1, <3>2 DEF OnlyReader
  <2>4. Forgotten(x)' /\ CallFits(x)'
    BY <2>1 DEF ReaderHolds, Forgotten, CallFits, OnlyReader
  <2>5. Steered(x)'
    BY <2>1, <2>2 DEF ReaderHolds, Steered, Covers, Settled, OnlyReader
  <2> QED
    BY <2>3, <2>4, <2>5 DEF ReaderHolds
<1> QED
  BY <1>1, <1>2 DEF ReadersInv

\* The readers of the plan are readers.
LEMMA PlannedReaders == SessionTyped => readerPlan.readers \subseteq Readers
BY CallsAssumption DEF CallsAssumption, SessionTyped

\* A read that is over waits for nothing.
LEMMA ReturnFacts ==
  ASSUME ReadersTyped, NEW r \in Readers, NEW err, Return(r, err)
  PROVE  /\ rpc'[r] = "idle" /\ rpc' \in [Readers -> InRead \cup {"idle"}]
         /\ call' \in [Readers -> [start : Nat, len : Nat, total : Nat]]
         /\ \A x \in Readers \ {r} : rpc'[x] = rpc[x] /\ call'[x] = call[x]
<1>1. rpc' = [rpc EXCEPT ![r] = "idle"] /\ call' = [call EXCEPT ![r] = NoCall]
  BY DEF Return
<1>2. NoCall \in [start : Nat, len : Nat, total : Nat]
  BY DEF NoCall
<1> QED
  BY <1>1, <1>2 DEF ReadersTyped

\* Where a reader that returned ends, if nothing else of it changes.
LEMMA ReturnStep ==
  ASSUME ReadersInv, NEW r \in Readers, NEW err, Return(r, err),
         UNCHANGED <<pieceState, wanted, life, statusErr, cameBack, readerPlan, closing,
                     sequentialReaderWindows, woken>>,
         pieceWaiters' \in [Pieces -> SUBSET Readers],
         \A i \in Pieces : pieceWaiters[i] \ {r} \subseteq pieceWaiters'[i]
  PROVE  ReadersInv'
<1>1. ReadersTyped /\ SessionTyped /\ Forgotten(r)
  BY DEF ReadersInv, ReaderHolds
<1>2. /\ rpc'[r] = "idle" /\ rpc' \in [Readers -> InRead \cup {"idle"}]
      /\ call' \in [Readers -> [start : Nat, len : Nat, total : Nat]]
      /\ \A x \in Readers \ {r} : rpc'[x] = rpc[x] /\ call'[x] = call[x]
  BY <1>1, ReturnFacts
<1>3. OnlyReader(r)
  BY <1>2 DEF OnlyReader
<1>4. ReadersTyped'
  BY <1>1, <1>2 DEF ReadersTyped
<1>5. ReaderHolds(r)'
  BY <1>1, <1>2 DEF ReaderHolds, Attended, Forgotten, CallFits, Steered, InRead, InLoop
<1>6. woken' \subseteq Readers
  BY <1>1 DEF SessionTyped
<1> QED
  BY <1>3, <1>4, <1>5, <1>6, ReaderStep

\* ReadAt cuts the range to what the reader exposes.
LEMMA ReadAtStep ==
  ASSUME ReadersInv, NEW r \in Readers, NEW c \in Calls, ReadAt(r, c)
  PROVE  ReadersInv'
<1>1. /\ UNCHANGED <<pieceState, wanted, life, statusErr, cameBack, readerPlan, closing,
                     sequentialReaderWindows, woken, pieceWaiters>>
      /\ ReadersTyped /\ SessionTyped /\ Forgotten(r)
  BY DEF ReadAt, Costs, session, waiting, windows, ReadersInv, ReaderHolds
<1>2. CASE closing[r] # "open" \/ c.off >= Exposed[r].length
  <2>1. PICK err : Return(r, err)
    BY <1>2 DEF ReadAt
  <2> QED
    BY <1>1, <2>1, ReturnStep DEF SessionTyped
<1>3. CASE ~(closing[r] # "open" \/ c.off >= Exposed[r].length)
  <2> DEFINE n == [start |-> Exposed[r].base + c.off, len |-> Lesser(c.len, Exposed[r].length - c.off),
                   total |-> 0]
  <2>1. rpc' = [rpc EXCEPT ![r] = "prioritize"] /\ call' = [call EXCEPT ![r] = n]
    BY <1>3 DEF ReadAt
  <2>2. /\ c.off \in Nat /\ c.len \in Nat \ {0} /\ Exposed[r].base \in Nat /\ Exposed[r].length \in Nat
        /\ c.off < Exposed[r].length
    BY <1>3, CallsAssumption, SizesAssumption, Sizes DEF CallsAssumption, SizesAssumption
  <2>3. /\ n.start \in Nat /\ n.len \in Nat /\ n.len >= 1 /\ n.total = 0
        /\ n.start + n.len <= Exposed[r].base + Exposed[r].length
    BY <2>2 DEF Lesser
  <2>4. n \in [start : Nat, len : Nat, total : Nat]
    BY <2>3
  <2> HIDE DEF n
  <2>5. rpc'[r] = "prioritize" /\ call'[r] = n
    BY <1>1, <2>1 DEF ReadersTyped
  <2>6. ReadersTyped'
    BY <1>1, <2>1, <2>4 DEF ReadersTyped, InRead
  <2>7. OnlyReader(r)
    BY <1>1, <2>1 DEF OnlyReader, ReadersTyped
  <2>8. ReaderHolds(r)'
    BY <1>1, <2>3, <2>5 DEF ReaderHolds, Attended, Forgotten, CallFits, Steered, InLoop
  <2> QED
    BY <1>1, <2>6, <2>7, <2>8, ReaderStep DEF SessionTyped
<1> QED
  BY <1>2, <1>3

\* prioritize looks at closed: a closing reader goes on without a window.
LEMMA PrioritizeStep ==
  ASSUME ReadersInv, NEW r \in Readers, Prioritize(r)
  PROVE  ReadersInv'
<1>1. /\ UNCHANGED <<pieceState, wanted, life, statusErr, cameBack, readerPlan, closing, call,
                     sequentialReaderWindows, woken, pieceWaiters>>
      /\ ReadersTyped /\ SessionTyped /\ ReaderHolds(r)
  BY DEF Prioritize, session, waiting, windows, bounds, ReadersInv
<1>2. /\ rpc[r] = "prioritize"
      /\ rpc' = [rpc EXCEPT ![r] = IF closing[r] = "open" THEN "window" ELSE "chunk"]
  BY DEF Prioritize
<1>3. ReadersTyped'
  BY <1>1, <1>2 DEF ReadersTyped, InRead
<1>4. OnlyReader(r)
  BY <1>1, <1>2 DEF OnlyReader, ReadersTyped
<1>5. rpc'[r] = IF closing[r] = "open" THEN "window" ELSE "chunk"
  BY <1>1, <1>2 DEF ReadersTyped
<1>6. ReaderHolds(r)'
  BY <1>1, <1>2, <1>5 DEF ReaderHolds, Attended, Forgotten, CallFits, Steered, InLoop, InRead
<1> QED
  BY <1>1, <1>3, <1>4, <1>6, ReaderStep DEF SessionTyped

\* The window of a read covers it; a reader that closed meanwhile gets none.
LEMMA RegisterWindowStep ==
  ASSUME ReadersInv, NEW r \in Readers, RegisterWindow(r)
  PROVE  ReadersInv'
<1> DEFINE bound == Exposed[r].base + Exposed[r].length
           w == WindowFor(call[r].start, call[r].len, bound)
           v == IF closing[r] # "open" THEN NoWindow ELSE w
<1>1. /\ UNCHANGED <<pieceState, wanted, life, statusErr, cameBack, readerPlan, closing, call,
                     woken, pieceWaiters>>
      /\ ReadersTyped /\ SessionTyped /\ ReaderHolds(r)
  BY DEF RegisterWindow, session, waiting, bounds, ReadersInv
<1>2. rpc[r] = "window" /\ rpc' = [rpc EXCEPT ![r] = "chunk"]
  BY DEF RegisterWindow
<1>3. CallFits(r)
  BY <1>1 DEF ReaderHolds
<1>4. /\ call[r].start \in Nat /\ call[r].len \in Nat \ {0} /\ bound \in Nat
      /\ call[r].start + call[r].len <= bound /\ bound <= TotalSize
  BY <1>1, <1>2, <1>3, ReadIsInside DEF InRead
<1>5. /\ w \in Windows /\ w.start = call[r].start \div PieceLength
      /\ (call[r].start + call[r].len - 1) \div PieceLength < w.end
  BY <1>4, WindowForFacts
<1>6. w # NoWindow
  BY <1>5 DEF Windows, NoWindow
<1>7. sequentialReaderWindows' = [sequentialReaderWindows EXCEPT ![r] = v]
  BY <1>6 DEF RegisterWindow
<1>8. Covers(w, r)
  <2>1. \A i \in Needed(r) : i < w.end /\ ~(i < w.start)
    <3> SUFFICES ASSUME NEW i \in Needed(r) PROVE i < w.end /\ ~(i < w.start)
      OBVIOUS
    <3>1. /\ i \in Nat /\ call[r].start \div PieceLength <= i
          /\ i <= (call[r].start + call[r].len - 1) \div PieceLength
      BY Sizes DEF Needed
    <3>2. w.end \in Nat /\ w.start \in Nat
      BY <1>5, Sizes DEF Windows
    <3>3. (call[r].start + call[r].len - 1) \div PieceLength \in Nat
      <4>1. call[r].start + call[r].len - 1 \in Nat
        BY <1>4
      <4> QED
        BY <4>1, Sizes, DivFacts
    <3> QED
      BY <1>5, <3>1, <3>2, <3>3
  <2> QED
    BY <1>6, <2>1 DEF Covers
<1> HIDE DEF w
<1>9. v \in Windows \cup {NoWindow}
  BY <1>5
<1>10. ReadersTyped'
  BY <1>1, <1>2, <1>7, <1>9 DEF ReadersTyped, InRead
<1>11. OnlyReader(r)
  BY <1>1, <1>2, <1>7 DEF OnlyReader, ReadersTyped
<1>12. rpc'[r] = "chunk" /\ sequentialReaderWindows'[r] = v
  BY <1>1, <1>2, <1>7 DEF ReadersTyped
<1>13. Forgotten(r)' /\ CallFits(r)' /\ Attended(r)'
  BY <1>1, <1>2, <1>3, <1>12 DEF Forgotten, CallFits, Attended, InRead
<1>14. Steered(r)'
  <2> SUFFICES ASSUME closing[r] = "open" PROVE Covers(sequentialReaderWindows[r], r)'
    BY <1>1 DEF Steered
  <2>1. sequentialReaderWindows'[r] = w
    BY <1>12
  <2> QED
    BY <1>1, <1>8, <2>1 DEF Covers, Needed, Settled
<1>15. ReaderHolds(r)'
  BY <1>13, <1>14 DEF ReaderHolds
<1> QED
  BY <1>1, <1>10, <1>11, <1>15, ReaderStep DEF SessionTyped

\* The loop of ReadAt goes on only while bytes are missing.
LEMMA NextChunkStep ==
  ASSUME ReadersInv, NEW r \in Readers, NextChunk(r)
  PROVE  ReadersInv'
<1>1. /\ UNCHANGED <<pieceState, wanted, life, statusErr, cameBack, readerPlan, closing,
                     sequentialReaderWindows, woken, pieceWaiters>>
      /\ ReadersTyped /\ SessionTyped /\ ReaderHolds(r) /\ rpc[r] = "chunk"
  BY DEF NextChunk, session, waiting, windows, bounds, ReadersInv
<1>2. CASE call[r].total = call[r].len \/ closing[r] # "open"
  <2>1. PICK err : Return(r, err)
    BY <1>2 DEF NextChunk
  <2> QED
    BY <1>1, <2>1, ReturnStep DEF SessionTyped
<1>3. CASE ~(call[r].total = call[r].len \/ closing[r] # "open")
  <2>1. rpc' = [rpc EXCEPT ![r] = "await"] /\ UNCHANGED call
    BY <1>3 DEF NextChunk
  <2>2. rpc'[r] = "await" /\ rpc[r] \in InRead /\ CallFits(r)
    BY <1>1, <2>1 DEF ReadersTyped, InRead, ReaderHolds
  <2>3. call[r].total < call[r].len
    <3>1. call[r].total \in Nat /\ call[r].len \in Nat /\ call[r].total <= call[r].len
      BY <1>1, <2>2, ReadIsInside DEF CallFits
    <3> QED
      BY <1>3, <3>1
  <2>4. ReadersTyped'
    BY <1>1, <2>1 DEF ReadersTyped, InRead
  <2>5. OnlyReader(r)
    BY <1>1, <2>1 DEF OnlyReader, ReadersTyped
  <2>6. ReaderHolds(r)'
    BY <1>1, <2>1, <2>2, <2>3 DEF ReaderHolds, Attended, Forgotten, CallFits, Steered, Covers, Needed,
      Settled, InLoop, InRead
  <2> QED
    BY <1>1, <2>4, <2>5, <2>6, ReaderStep DEF SessionTyped
<1> QED
  BY <1>2, <1>3

\* The checks of waitForPiece: a reader that sleeps is registered, and nothing
\* has settled its wait yet.
LEMMA CheckPieceStep ==
  ASSUME ReadersInv, NEW r \in Readers, NEW W \in [Pieces -> SUBSET Readers],
         rpc[r] \in {"await", "asleep"}, CheckPiece(r, W),
         \A i \in Pieces : pieceWaiters[i] \ {r} \subseteq W[i],
         UNCHANGED <<session, windows, closing, bounds>>
  PROVE  ReadersInv'
<1>1. /\ UNCHANGED <<pieceState, wanted, life, statusErr, cameBack, readerPlan, closing,
                     sequentialReaderWindows>>
      /\ ReadersTyped /\ SessionTyped /\ ReaderHolds(r)
  BY DEF session, windows, bounds, ReadersInv
<1> DEFINE i == PieceOf(r)
           ends == closing[r] # "open" \/ life # "open" \/ statusErr # "none" \/ i \notin wanted
           here == closing[r] = "open" /\ pieceState[i] = "completed"
<1>2. CASE here
  <2>1. rpc' = [rpc EXCEPT ![r] = "copy"] /\ pieceWaiters' = W /\ UNCHANGED <<call, woken>>
    BY <1>2 DEF CheckPiece
  <2>2. rpc'[r] = "copy"
    BY <1>1, <2>1 DEF ReadersTyped
  <2>3. ReadersTyped'
    BY <1>1, <2>1 DEF ReadersTyped, InRead
  <2>4. OnlyReader(r)
    BY <1>1, <2>1 DEF OnlyReader, ReadersTyped
  <2>5. ReaderHolds(r)'
    BY <1>1, <2>1, <2>2 DEF ReaderHolds, Attended, Forgotten, CallFits, Steered, Covers, Needed,
      Settled, InLoop, InRead
  <2> QED
    BY <1>1, <2>1, <2>3, <2>4, <2>5, ReaderStep DEF SessionTyped
<1>3. CASE ~here /\ ends
  <2>1. PICK err : Return(r, err)
    BY <1>3 DEF CheckPiece
  <2>2. pieceWaiters' = W /\ UNCHANGED woken
    BY <1>3 DEF CheckPiece
  <2> QED
    BY <1>1, <2>1, <2>2, ReturnStep
<1>4. CASE ~here /\ ~ends
  <2>1. /\ rpc' = [rpc EXCEPT ![r] = "asleep"] /\ pieceWaiters' = addPieceWaiter(W, r, i)
        /\ woken' = woken \ {r} /\ UNCHANGED call
    BY <1>4 DEF CheckPiece
  <2>2. /\ closing[r] = "open" /\ life = "open" /\ statusErr = "none" /\ i \in wanted
        /\ pieceState[i] # "completed" /\ i \in Pieces
    BY <1>1, <1>4 DEF SessionTyped
  <2>3. rpc'[r] = "asleep"
    BY <1>1, <2>1 DEF ReadersTyped
  <2>4. pieceWaiters' = [W EXCEPT ![i] = W[i] \cup {r}]
    BY <2>1 DEF addPieceWaiter
  <2>5. /\ pieceWaiters' \in [Pieces -> SUBSET Readers] /\ r \in pieceWaiters'[i]
        /\ \A j \in Pieces : pieceWaiters[j] \ {r} \subseteq pieceWaiters'[j]
    BY <2>2, <2>4
  <2>6. ReadersTyped'
    BY <1>1, <2>1 DEF ReadersTyped, InRead
  <2>7. OnlyReader(r)
    BY <1>1, <2>1, <2>5 DEF OnlyReader, ReadersTyped
  <2>8. PieceOf(r)' = i
    BY <2>1 DEF PieceOf, Position
  <2>9. Attended(r)'
    BY <1>1, <2>2, <2>5, <2>8 DEF Attended
  <2>10. Forgotten(r)' /\ CallFits(r)' /\ Steered(r)'
    BY <1>1, <2>1, <2>3 DEF ReaderHolds, Forgotten, CallFits, Steered, Covers, Needed, Settled,
      InLoop, InRead
  <2>11. woken' \subseteq Readers
    BY <1>1, <2>1 DEF SessionTyped
  <2> QED
    BY <2>5, <2>6, <2>7, <2>9, <2>10, <2>11, ReaderStep DEF ReaderHolds
<1> QED
  BY <1>2, <1>3, <1>4

\* The first check, and the one after a wake-up, which first gives up the waiter.
LEMMA WaitSteps ==
  ASSUME ReadersInv, NEW r \in Readers, waitForPiece(r) \/ WakeUp(r)
  PROVE  ReadersInv'
<1>1. pieceWaiters \in [Pieces -> SUBSET Readers]
  BY DEF ReadersInv, SessionTyped
<1>2. CASE waitForPiece(r)
  BY <1>1, <1>2, CheckPieceStep DEF waitForPiece
<1>3. CASE WakeUp(r)
  <2> DEFINE W == removePieceWaiter(pieceWaiters, r, PieceOf(r))
  <2>1. W \in [Pieces -> SUBSET Readers] /\ \A i \in Pieces : pieceWaiters[i] \ {r} \subseteq W[i]
    BY <1>1 DEF removePieceWaiter
  <2>2. CheckPiece(r, W) /\ rpc[r] = "asleep" /\ UNCHANGED <<session, windows, closing, bounds>>
    BY <1>3 DEF WakeUp
  <2> HIDE DEF W
  <2> QED
    BY <2>1, <2>2, CheckPieceStep
<1> QED
  BY <1>2, <1>3

\* What was copied is at most what was missing.
LEMMA ReadBlockStep ==
  ASSUME ReadersInv, NEW r \in Readers, ReadBlock(r)
  PROVE  ReadersInv'
<1>1. /\ UNCHANGED <<pieceState, wanted, life, statusErr, cameBack, readerPlan, closing,
                     sequentialReaderWindows, woken, pieceWaiters>>
      /\ ReadersTyped /\ SessionTyped /\ ReaderHolds(r) /\ rpc[r] = "copy"
  BY DEF ReadBlock, session, waiting, windows, bounds, ReadersInv
<1>2. CASE life = "storageClosed"
  <2>1. Return(r, "error")
    BY <1>2 DEF ReadBlock
  <2> QED
    BY <1>1, <2>1, ReturnStep DEF SessionTyped
<1>3. CASE life # "storageClosed"
  <2> DEFINE t == call[r].total + Chunk(r)
  <2>1. rpc' = [rpc EXCEPT ![r] = "chunk"] /\ call' = [call EXCEPT ![r].total = t]
    BY <1>3 DEF ReadBlock
  <2>2. CallFits(r) /\ rpc[r] \in InRead /\ call[r].total < call[r].len
    BY <1>1 DEF ReaderHolds, CallFits, InRead
  <2>3. /\ call[r].start \in Nat /\ call[r].len \in Nat \ {0} /\ call[r].total \in Nat
        /\ call[r] \in [start : Nat, len : Nat, total : Nat]
    BY <1>1, <2>2, ReadIsInside DEF ReadersTyped
  <2>4. t \in Nat /\ t <= call[r].len
    <3>1. Chunk(r) \in Nat /\ Chunk(r) <= call[r].len - call[r].total
      BY <1>1, <2>2, PieceIsNeeded
    <3> QED
      BY <2>3, <3>1
  <2> HIDE DEF t
  <2>5. /\ rpc'[r] = "chunk" /\ call'[r].start = call[r].start /\ call'[r].len = call[r].len
        /\ call'[r].total = t /\ call'[r] \in [start : Nat, len : Nat, total : Nat]
    BY <1>1, <2>1, <2>3, <2>4 DEF ReadersTyped
  <2>6. \A x \in Readers \ {r} : call'[x] = call[x] /\ rpc'[x] = rpc[x]
    BY <1>1, <2>1 DEF ReadersTyped
  <2>7. ReadersTyped'
    <3>1. call' \in [Readers -> [start : Nat, len : Nat, total : Nat]]
      BY <1>1, <2>1, <2>5, <2>6 DEF ReadersTyped
    <3> QED
      BY <1>1, <2>1, <3>1 DEF ReadersTyped, InRead
  <2>8. OnlyReader(r)
    BY <1>1, <2>6 DEF OnlyReader
  <2>9. Needed(r)' = Needed(r)
    BY <2>5 DEF Needed
  <2>10. Forgotten(r)' /\ CallFits(r)' /\ Attended(r)'
    BY <1>1, <2>2, <2>4, <2>5 DEF ReaderHolds, Forgotten, CallFits, Attended, InRead
  <2>11. Steered(r)'
    BY <1>1, <2>5, <2>9 DEF ReaderHolds, Steered, Covers, Settled, InLoop
  <2> QED
    BY <1>1, <2>7, <2>8, <2>10, <2>11, ReaderStep DEF SessionTyped, ReaderHolds
<1> QED
  BY <1>2, <1>3

\* Close: from then on the reader counts on nothing, and its window goes.
LEMMA CloseSteps ==
  ASSUME ReadersInv, NEW r \in Readers, CloseReader(r) \/ DropWindow(r)
  PROVE  ReadersInv'
<1>1. /\ UNCHANGED <<pieceState, wanted, life, statusErr, cameBack, readerPlan, rpc, call, woken,
                     pieceWaiters>>
      /\ ReadersTyped /\ SessionTyped /\ ReaderHolds(r)
  BY DEF CloseReader, DropWindow, Costs, session, waiting, windows, calls, bounds, ReadersInv
<1>2. CASE CloseReader(r)
  <2>1. closing' = [closing EXCEPT ![r] = "closing"] /\ UNCHANGED sequentialReaderWindows
    BY <1>2 DEF CloseReader, windows
  <2>2. closing'[r] = "closing" /\ ReadersTyped'
    BY <1>1, <2>1 DEF ReadersTyped
  <2>3. OnlyReader(r)
    BY <1>1, <2>1 DEF OnlyReader, ReadersTyped
  <2>4. ReaderHolds(r)'
    BY <1>1, <2>1, <2>2 DEF ReaderHolds, Attended, Forgotten, CallFits, Steered
  <2> QED
    BY <1>1, <2>2, <2>3, <2>4, ReaderStep DEF SessionTyped
<1>3. CASE DropWindow(r)
  <2>1. /\ closing' = [closing EXCEPT ![r] = "closed"]
        /\ sequentialReaderWindows' = [sequentialReaderWindows EXCEPT ![r] = NoWindow]
    BY <1>3 DEF DropWindow
  <2>2. closing'[r] = "closed" /\ sequentialReaderWindows'[r] = NoWindow /\ ReadersTyped'
    BY <1>1, <2>1 DEF ReadersTyped
  <2>3. OnlyReader(r)
    BY <1>1, <2>1 DEF OnlyReader, ReadersTyped
  <2>4. ReaderHolds(r)'
    BY <1>1, <2>2 DEF ReaderHolds, Attended, Forgotten, CallFits, Steered
  <2> QED
    BY <1>1, <2>2, <2>3, <2>4, ReaderStep DEF SessionTyped
<1> QED
  BY <1>2, <1>3

----------------------------------------------------------------------------
(* The theorems *)

\* At first nobody reads.
LEMMA ReadersInitInv == ReadersInit => ReadersInv
<1> SUFFICES ASSUME ReadersInit PROVE ReadersInv
  OBVIOUS
<1>1. SessionTyped
  BY DEF ReadersInit, SessionTyped, PieceStates
<1>2. ReadersTyped
  BY DEF ReadersInit, ReadersTyped, NoCall
<1>3. \A r \in Readers : rpc[r] = "idle" /\ closing[r] = "open"
  BY DEF ReadersInit
<1>4. \A r \in Readers : ReaderHolds(r)
  BY <1>3 DEF ReaderHolds, Attended, Forgotten, CallFits, Steered, InRead, InLoop
<1> QED
  BY <1>1, <1>2, <1>4 DEF ReadersInv

\* Every step keeps the invariant.
LEMMA ReadersNextInv == ReadersInv /\ [ReadersNext]_readerVars => ReadersInv'
<1> SUFFICES ASSUME ReadersInv, [ReadersNext]_readerVars PROVE ReadersInv'
  OBVIOUS
<1>1. ASSUME NEW r \in readerPlan.readers, NEW c \in Calls, ReadAt(r, c) PROVE ReadersInv'
  BY <1>1, PlannedReaders, ReadAtStep DEF ReadersInv
<1>2. ASSUME NEW r \in readerPlan.readers,
             \/ Prioritize(r) \/ RegisterWindow(r) \/ NextChunk(r) \/ waitForPiece(r)
             \/ WakeUp(r) \/ ReadBlock(r) \/ CloseReader(r) \/ DropWindow(r)
      PROVE  ReadersInv'
  <2>1. r \in Readers
    BY PlannedReaders DEF ReadersInv
  <2> QED
    BY <1>2, <2>1, PrioritizeStep, RegisterWindowStep, NextChunkStep, WaitSteps, ReadBlockStep, CloseSteps
<1>3. ASSUME NEW i \in Pieces,
             HandBack(i) \/ markPieceCompleted(i) \/ WriteFails(i) \/ Repair(i) \/ Verify(i)
      PROVE  ReadersInv'
  BY <1>3, HandBackStep, CompletedStep, WriteFailsStep, RepairStep, VerifyStep
<1>4. CASE \E W \in readerPlan.selections : SelectFiles(W)
  BY <1>4, SelectFilesStep
<1>5. CASE \/ PersistFails \/ PersistWorks \/ CloseSession \/ CloseStorage
           \/ \E w \in readerPlan.manual : SetSequentialMode(w)
  BY <1>5, OtherSessionSteps
<1>6. CASE Claim
  BY <1>6, ClaimStep
<1>7. CASE UNCHANGED readerVars
  <2>1. /\ UNCHANGED <<pieceState, wanted, life, statusErr, cameBack, readerPlan, rpc, call, woken,
                       pieceWaiters, closing, sequentialReaderWindows>>
    BY <1>7 DEF readerVars, session, waiting, windows, calls, bounds
  <2>2. ReadersStay /\ Spares /\ Reverts /\ SessionTyped'
    BY <2>1 DEF ReadersStay, Spares, Spared, Reverts, Settled, SessionTyped, ReadersInv
  <2> QED
    BY <2>2, SessionStep
<1> QED
  BY <1>1, <1>2, <1>3, <1>4, <1>5, <1>6, <1>7 DEF ReadersNext

\* The invariant holds throughout.
THEOREM ReadersInvHolds == ReadersSpec => []ReadersInv
BY ReadersInitInv, ReadersNextInv, PTL DEF ReadersSpec

\* No wake-up is lost between a reader's checks and its sleep, by completions,
\* failures, selections or closes in any order, and a reader that closes while
\* it reads leaves no window behind (waitForPiece, prioritize and Close of
\* reader.go), for any readers, pieces and plan.
THEOREM ReadersServed == ReadersSpec => []ReadersAreServed
<1>1. ReadersInv => ReadersAreServed
  <2> SUFFICES ASSUME ReadersInv PROVE ReadersAreServed
    OBVIOUS
  <2>1. ReadersTypeOK
    BY DEF ReadersInv, SessionTyped, ReadersTyped, ReadersTypeOK, PieceStates, InRead
  <2>2. SleepersWillBeWoken /\ ClosedReadersAreForgotten
    BY DEF ReadersInv, ReaderHolds, Attended, Forgotten, SleepersWillBeWoken, ClosedReadersAreForgotten
  <2> QED
    BY <2>1, <2>2 DEF ReadersAreServed
<1> QED
  BY <1>1, ReadersInvHolds, PTL

\* However windows slide while peers claim, the piece a reader sleeps on lies
\* in its own (sequentialWindowForRangeLocked and selectFromSequentialWindowLocked
\* of piece_picker.go), unless a repair or a selection brought one back.
THEOREM ReadersSteered == ReadersSpec => []ReadersSteer
<1>1. ReadersInv => ReadersSteer
  BY SleeperIsSteered DEF ReadersInv, ReadersSteer, WaitedPieceIsInWindow
<1> QED
  BY <1>1, ReadersInvHolds, PTL

-----------------------------------------------------------------------------
(***************************************************************************)
(* ChokeRoundBounds of Uploads.  A choke round leaves unchoked the peers   *)
(* of its slots and, of all others, only the optimistic one.               *)
(***************************************************************************)

ChokerInv == active \subseteq Peers /\ (optimistic = {} \/ \E p \in Peers : optimistic = {p})

LEMMA ChokerStep ==
    ASSUME ChokerInv, [UploadsNext]_uploadsVars
    PROVE  ChokerInv'
<1> USE DEF ChokerInv
<1>1. ASSUME NEW p \in Peers, Loop(p) PROVE ChokerInv'
  <2>1. UNCHANGED <<active, optimistic>>
    BY <1>1 DEF Loop, ChokeNotified, RetryDue, Take, HandleInterested, HandleNotInterested, HandleRequest, HandleCancel,
       ServeBlock, EndTurn, chokeVars
  <2> QED
    BY <2>1
<1>2. ASSUME NEW p \in Peers, Connect(p) \/ EndConnection(p) \/ recalculateOptimistic(p) PROVE ChokerInv'
  BY <1>2 DEF Connect, EndConnection, recalculateOptimistic
<1>3. CASE \/ \E p \in Peers, m \in Messages : PeerSends(p, m)
           \/ recalculateChoking \/ Refill \/ PauseOrResume
           \/ \E l \in Limits : SetLimit(l)
           \/ \E i \in UploadPieces : Lose(i)
  BY <1>3 DEF PeerSends, recalculateChoking, Refill, PauseOrResume, SetLimit, Lose, chokeVars
<1>4. CASE UNCHANGED uploadsVars
  BY <1>4 DEF uploadsVars, chokeVars
<1> QED
  BY <1>1, <1>2, <1>3, <1>4 DEF UploadsNext

LEMMA RoundBound ==
    ASSUME UploadAssumption, ChokerInv
    PROVE  RoundIsBounded
<1> SUFFICES ASSUME recalculateChoking PROVE Cardinality({p \in active : ~amChoking'[p]}) <= Slots + 1
  BY DEF RoundIsBounded
<1>1. PICK top \in SUBSET Candidates :
         /\ Cardinality(top) = (IF Cardinality(Candidates) < Slots THEN Cardinality(Candidates) ELSE Slots)
         /\ amChoking' = [p \in Peers |-> IF p \in active THEN p \notin top /\ ~KeepsOptimistic(p, top)
                                          ELSE amChoking[p]]
  BY DEF recalculateChoking
<1>2. IsFiniteSet(Peers) /\ Slots \in Nat /\ active \subseteq Peers /\ Candidates \subseteq Peers
  BY DEF UploadAssumption, ChokerInv, Candidates
<1>3. IsFiniteSet(top) /\ Cardinality(top) \in Nat /\ Cardinality(top) <= Slots
  <2>1. IsFiniteSet(top) /\ IsFiniteSet(Candidates)
    BY <1>2, FS_Subset
  <2>2. Cardinality(top) \in Nat /\ Cardinality(Candidates) \in Nat
    BY <2>1, FS_CardinalityType
  <2> QED
    BY <1>1, <1>2, <2>1, <2>2
<1>4. IsFiniteSet(optimistic) /\ Cardinality(optimistic) \in 0 .. 1
  <2>1. CASE optimistic = {}
    BY <2>1, FS_EmptySet
  <2>2. ASSUME NEW p \in Peers, optimistic = {p} PROVE IsFiniteSet(optimistic) /\ Cardinality(optimistic) = 1
    BY <2>2, FS_Singleton
  <2> QED
    BY <2>1, <2>2 DEF ChokerInv
<1>5. {p \in active : ~amChoking'[p]} \subseteq top \cup optimistic
  BY <1>1, <1>2 DEF KeepsOptimistic
<1>6. IsFiniteSet(top \cup optimistic) /\ Cardinality(top \cup optimistic) <= Cardinality(top) + Cardinality(optimistic)
  <2>1. /\ IsFiniteSet(top \cup optimistic) /\ IsFiniteSet(top \cap optimistic)
        /\ Cardinality(top \cup optimistic) =
             Cardinality(top) + Cardinality(optimistic) - Cardinality(top \cap optimistic)
    BY <1>3, <1>4, FS_Union, FS_Intersection
  <2>2. Cardinality(top \cap optimistic) \in Nat
    BY <2>1, FS_CardinalityType
  <2> QED
    BY <1>3, <1>4, <2>1, <2>2
<1>7. /\ IsFiniteSet({p \in active : ~amChoking'[p]})
      /\ Cardinality({p \in active : ~amChoking'[p]}) <= Cardinality(top \cup optimistic)
  BY <1>5, <1>6, FS_Subset
<1>8. Cardinality({p \in active : ~amChoking'[p]}) \in Nat /\ Cardinality(top \cup optimistic) \in Nat
  BY <1>6, <1>7, FS_CardinalityType
<1> QED
  BY <1>2, <1>3, <1>4, <1>6, <1>7, <1>8

\* For any peers and slots, however many lost and regained interest, reconnected
\* or were unchoked since the last one: a choke round leaves at most one peer
\* unchoked beyond its slots (choking.go:39).
THEOREM ChokeRoundsBounded == UploadAssumption => (UploadsSpec => ChokeRoundBounds)
<1> SUFFICES ASSUME UploadAssumption PROVE UploadsSpec => ChokeRoundBounds
  OBVIOUS
<1>1. UploadsInit => ChokerInv
  BY DEF UploadsInit, ChokerInv
<1>2. ChokerInv /\ [UploadsNext]_uploadsVars => ChokerInv'
  BY ChokerStep
<1>3. ChokerInv => RoundIsBounded
  BY RoundBound
<1> QED
  BY <1>1, <1>2, <1>3, PTL DEF UploadsSpec, ChokeRoundBounds

----------------------------------------------------------------------------
(* The inductive invariant of the picker *)

PieceStatus == {"empty", "downloading", "completed"}

\* The picker's state; the cache holds what the file priorities say.
PickerTyped ==
  /\ pieceStates \in [PieceIndex -> PieceStatus]
  /\ filePriority \in [Files -> Skip .. High]
  /\ piecePriorityCache = [i \in PieceIndex |-> PriorityOf(filePriority, i)]
  /\ pieceAvailability \in [PieceIndex -> Nat]
  /\ peerIsSeed \in [PeerLoops -> BOOLEAN] /\ announced \in [PeerLoops -> BOOLEAN]
  /\ choked \in [PeerLoops -> BOOLEAN]
  /\ noPick \in [PeerLoops -> BOOLEAN] /\ noPickRestricted \in [PeerLoops -> BOOLEAN]
  /\ peerBitfield \in [PeerLoops -> SUBSET PieceIndex]
  /\ peerAllowedFast \in [PeerLoops -> SUBSET PieceIndex]
  /\ peerRejectedPieces \in [PeerLoops -> SUBSET PieceIndex]
  /\ owned \in [PeerLoops -> SUBSET PieceIndex] /\ copies \in [PeerLoops -> SUBSET PieceIndex]
  /\ up \subseteq PeerLoops /\ moved \subseteq PeerLoops
  /\ jobs \subseteq PeerLoops \X PieceIndex
  /\ pickerPlan \in PickerPlans

\* The index that files the pieces of needed by these priorities and counts.
Filed(needed, cache, counts) ==
  [refs |-> [i \in PieceIndex |-> IF i \in needed THEN <<cache[i], counts[i]>> ELSE <<>>],
   members |-> {<<cache[i], counts[i], i>> : i \in needed},
   total |-> Cardinality(needed)]

\* The index holds the pieces that can be picked, and those alone.
IndexRight ==
  /\ neededPieces = {i \in PieceIndex : Candidate(i)}
  /\ neededBuckets = Filed(neededPieces, piecePriorityCache, pieceAvailability)

\* Each count is the number of connections behind it; a seed is counted apart.
HasIt(i) == {c \in PeerLoops : ~peerIsSeed[c] /\ i \in peerBitfield[c]}
CountsRight ==
  /\ \A i \in PieceIndex : pieceAvailability[i] = Holders(i)
  /\ \A c \in PeerLoops : peerIsSeed[c] => announced[c]

\* A pick made unrestricted has looked at all the peer has.
Untouched(c) ==
  Trusts(c) =>
    \A i \in PieceIndex :
      Candidate(i) => /\ i \notin CanRequest(c)
                      /\ ~noPickRestricted[c] => i \notin peerBitfield[c]
PicksAreEmpty == \A c \in up : Untouched(c)

PickerInv == PickerTyped /\ IndexRight /\ CountsRight /\ PicksAreEmpty

----------------------------------------------------------------------------
(* Constants, priorities and the order of picks *)

LEMMA PickerConstants ==
  /\ IsFiniteSet(PeerLoops) /\ IsFiniteSet(PieceIndex) /\ PieceIndex \subseteq Nat
  /\ FilesOf \in [PieceIndex -> (SUBSET Files) \ {{}}]
  /\ \A p \in PickerPlans : /\ p.conns \subseteq PeerLoops /\ p.bitfields \subseteq SUBSET PieceIndex
                            /\ p.priorities \subseteq Skip .. High
<1>1. \A p \in PickerPlans : p \in Pickings
  BY PickerAssumption
<1>2. \A p \in Pickings : /\ p.conns \subseteq PeerLoops /\ p.bitfields \subseteq SUBSET PieceIndex
                          /\ p.priorities \subseteq Skip .. High
  BY DEF Pickings
<1> QED
  BY <1>1, <1>2, PickerAssumption

LEMMA GreatestPriority ==
  ASSUME NEW S \in SUBSET (Skip .. High), S # {}
  PROVE  Max(S) \in S
<1>1. \E x \in S : \A y \in S : x >= y
  <2>0. \A y \in S : y = 0 \/ y = 1 \/ y = 2 \/ y = 3
    BY DEF Skip, High
  <2>1. CASE 3 \in S
    BY <2>0, <2>1
  <2>2. CASE 3 \notin S /\ 2 \in S
    <3>1. \A y \in S : 2 >= y
      BY <2>0, <2>2
    <3> QED
      BY <2>2, <3>1
  <2>3. CASE 3 \notin S /\ 2 \notin S /\ 1 \in S
    <3>1. \A y \in S : 1 >= y
      BY <2>0, <2>3
    <3> QED
      BY <2>3, <3>1
  <2>4. CASE 3 \notin S /\ 2 \notin S /\ 1 \notin S
    <3>1. \A y \in S : y = 0
      BY <2>0, <2>4
    <3>2. PICK z \in S : TRUE
      BY Zenon
    <3>3. z = 0 /\ z >= 0
      BY <3>1
    <3>4. \A y \in S : z >= y
      BY <3>1, <3>3
    <3> QED
      BY <3>4
  <2> QED
    BY <2>1, <2>2, <2>3, <2>4
<1> QED
  BY <1>1 DEF Max

\* A piece has one of the priorities of its files.
LEMMA PriorityTyped ==
  ASSUME NEW priorities \in [Files -> Skip .. High], NEW i \in PieceIndex
  PROVE  PriorityOf(priorities, i) \in Skip .. High
<1> DEFINE S == {priorities[f] : f \in FilesOf[i]}
<1>1. FilesOf[i] \in SUBSET Files /\ FilesOf[i] # {}
  BY PickerConstants
<1>2. S \in SUBSET (Skip .. High) /\ S # {}
  BY <1>1
<1> HIDE DEF S
<1>3. Max(S) \in Skip .. High
  BY <1>2, GreatestPriority
<1> QED
  BY <1>3 DEF PriorityOf, S

LEMMA CacheTyped ==
  ASSUME PickerTyped
  PROVE  piecePriorityCache \in [PieceIndex -> Skip .. High]
  BY PriorityTyped DEF PickerTyped


\* Among pieces to choose from, one comes before all the others.
LEMMA OneIsBest ==
  ASSUME NEW S \in SUBSET PieceIndex, S # {},
         NEW cache \in [PieceIndex -> Skip .. High], NEW counts \in [PieceIndex -> Nat]
  PROVE  \E i \in S : \A j \in S \ {i} :
            Before(<<cache[i], counts[i], i>>, <<cache[j], counts[j], j>>)
<1>1. PICK p \in {High - cache[i] : i \in S} : \A q \in {High - cache[i] : i \in S} : p <= q
  <2>1. {High - cache[i] : i \in S} \in SUBSET Nat /\ {High - cache[i] : i \in S} # {}
    BY DEF Skip, High
  <2> QED
    BY <2>1, MinIsIn
<1> DEFINE P == {i \in S : High - cache[i] = p}
<1>2. P # {} /\ P \subseteq S /\ \A j \in S \ P : p < High - cache[j]
  BY <1>1 DEF Skip, High
<1> HIDE DEF P
<1>3. PICK a \in {counts[i] : i \in P} : \A b \in {counts[i] : i \in P} : a <= b
  <2>1. {counts[i] : i \in P} \in SUBSET Nat /\ {counts[i] : i \in P} # {}
    BY <1>2
  <2> QED
    BY <2>1, MinIsIn
<1> DEFINE R == {i \in P : counts[i] = a}
<1>4. R # {} /\ R \subseteq P /\ \A j \in P \ R : a < counts[j]
  <2>1. \A j \in P : counts[j] \in Nat /\ a <= counts[j]
    BY <1>2, <1>3
  <2>2. a \in Nat /\ \E j \in P : counts[j] = a
    BY <1>3, <2>1
  <2> QED
    BY <2>1, <2>2
<1> HIDE DEF R
<1>5. PICK i \in R : \A j \in R : i <= j
  BY <1>2, <1>4, PickerConstants, MinIsIn
<1>6. i \in S /\ i \in P /\ cache[i] = High - p /\ counts[i] = a
  BY <1>2, <1>4, <1>5 DEF P, R, Skip, High
<1>7. ASSUME NEW j \in S \ {i}
      PROVE  Before(<<cache[i], counts[i], i>>, <<cache[j], counts[j], j>>)
  <2>1. CASE j \notin P
    <3>1. cache[i] > cache[j]
      BY <1>2, <1>6, <1>7, <2>1 DEF Skip, High
    <3> QED
      BY <3>1 DEF Before
  <2>2. CASE j \in P \ R
    <3>1. cache[j] = cache[i] /\ counts[i] < counts[j]
      BY <1>2, <1>4, <1>6, <2>2 DEF P, Skip, High
    <3> QED
      BY <3>1 DEF Before
  <2>3. CASE j \in R
    <3>1. cache[j] = cache[i] /\ counts[j] = counts[i] /\ i < j
      BY <1>2, <1>4, <1>5, <1>6, <1>7, <2>3, PickerConstants DEF P, R, Skip, High
    <3> QED
      BY <3>1 DEF Before
  <2> QED
    BY <1>4, <2>1, <2>2, <2>3
<1> QED
  BY <1>6, <1>7

----------------------------------------------------------------------------
(* The operations on the index *)

LEMMA RefsDiffer == \A x, y : <<x, y>> # <<>>
<1> TAKE x, y
<1>1. DOMAIN <<x, y>> = 1 .. 2 /\ DOMAIN <<>> = 1 .. 0
  OBVIOUS
<1>2. 1 \in 1 .. 2 /\ 1 \notin 1 .. 0
  OBVIOUS
<1> QED
  BY <1>1, <1>2

LEMMA SomePieces ==
  ASSUME NEW S \in SUBSET PieceIndex
  PROVE  IsFiniteSet(S) /\ Cardinality(S) \in Nat
  BY PickerConstants, FS_Subset, FS_CardinalityType

LEMMA Filing ==
  ASSUME NEW needed \in SUBSET PieceIndex, NEW S \in SUBSET (PieceIndex \ needed),
         NEW cache \in [PieceIndex -> Skip .. High], NEW counts, \A i \in S : cache[i] # Skip
  PROVE  add(Filed(needed, cache, counts), S, cache, counts) = Filed(needed \cup S, cache, counts)
<1> DEFINE b == Filed(needed, cache, counts)
<1>1. {i \in S : b.refs[i] = <<>> /\ cache[i] \in Skip + 1 .. High} = S
  <2>1. \A i \in S : b.refs[i] = <<>>
    BY DEF Filed
  <2>2. \A i \in S : cache[i] \in Skip + 1 .. High
    BY DEF Skip, High
  <2> QED
    BY <2>1, <2>2
<1>2. add(b, S, cache, counts) =
        [refs |-> [i \in PieceIndex |-> IF i \in S THEN <<cache[i], counts[i]>> ELSE b.refs[i]],
         members |-> b.members \cup {<<cache[i], counts[i], i>> : i \in S},
         total |-> b.total + Cardinality(S)]
  BY <1>1, Zenon DEF add
<1>3. \A i \in PieceIndex : b.refs[i] = IF i \in needed THEN <<cache[i], counts[i]>> ELSE <<>>
  BY DEF Filed
<1>4. b.members = {<<cache[i], counts[i], i>> : i \in needed} /\ b.total = Cardinality(needed)
  BY DEF Filed
<1> HIDE DEF b
<1>5. [i \in PieceIndex |-> IF i \in S THEN <<cache[i], counts[i]>> ELSE b.refs[i]]
        = [i \in PieceIndex |-> IF i \in needed \cup S THEN <<cache[i], counts[i]>> ELSE <<>>]
  BY <1>3
<1>6. b.members \cup {<<cache[i], counts[i], i>> : i \in S}
        = {<<cache[i], counts[i], i>> : i \in needed \cup S}
  BY <1>4
<1>7. Cardinality(needed \cup S) = b.total + Cardinality(S)
  <2>1. needed \cap S = {} /\ S \in SUBSET PieceIndex
    OBVIOUS
  <2>2. Cardinality(needed \cap S) = 0
    BY <2>1, FS_EmptySet
  <2>3. IsFiniteSet(needed) /\ IsFiniteSet(S) /\ Cardinality(needed) \in Nat /\ Cardinality(S) \in Nat
    BY <2>1, SomePieces
  <2>4. Cardinality(needed \cup S) = Cardinality(needed) + Cardinality(S) - Cardinality(needed \cap S)
    BY <2>3, FS_Union
  <2> QED
    BY <1>4, <2>2, <2>3, <2>4
<1> QED
  BY <1>2, <1>5, <1>6, <1>7 DEF Filed, b

LEMMA Unfiling ==
  ASSUME NEW needed \in SUBSET PieceIndex, NEW S \in SUBSET needed, NEW cache, NEW counts
  PROVE  remove(Filed(needed, cache, counts), S) = Filed(needed \ S, cache, counts)
<1> DEFINE b == Filed(needed, cache, counts)
<1>1. \A i \in PieceIndex : b.refs[i] = IF i \in needed THEN <<cache[i], counts[i]>> ELSE <<>>
  BY DEF Filed
<1>2. b.members = {<<cache[i], counts[i], i>> : i \in needed} /\ b.total = Cardinality(needed)
  BY DEF Filed
<1> HIDE DEF b
<1>3. {i \in S : b.refs[i] # <<>>} = S
  BY <1>1, RefsDiffer
<1>4. remove(b, S) =
        [refs |-> [i \in PieceIndex |-> IF i \in S THEN <<>> ELSE b.refs[i]],
         members |-> b.members \ {<<b.refs[i][1], b.refs[i][2], i>> : i \in S},
         total |-> b.total - Cardinality(S)]
  BY <1>3, Zenon DEF remove
<1>5. [i \in PieceIndex |-> IF i \in S THEN <<>> ELSE b.refs[i]]
        = [i \in PieceIndex |-> IF i \in needed \ S THEN <<cache[i], counts[i]>> ELSE <<>>]
  BY <1>1
<1>6. b.members \ {<<b.refs[i][1], b.refs[i][2], i>> : i \in S}
        = {<<cache[i], counts[i], i>> : i \in needed \ S}
  <2>1. ASSUME NEW i \in S PROVE b.refs[i][1] = cache[i] /\ b.refs[i][2] = counts[i]
    <3>1. b.refs[i] = <<cache[i], counts[i]>>
      BY <1>1
    <3> QED
      BY <3>1
  <2> QED
    BY <1>2, <2>1
<1>7. Cardinality(needed \ S) = b.total - Cardinality(S)
  <2>1. needed \cap S = S /\ IsFiniteSet(needed)
    BY SomePieces
  <2>2. Cardinality(needed \ S) = Cardinality(needed) - Cardinality(needed \cap S)
    BY <2>1, FS_Difference
  <2> QED
    BY <1>2, <2>1, <2>2
<1> QED
  BY <1>4, <1>5, <1>6, <1>7 DEF Filed, b

LEMMA Refiling ==
  ASSUME NEW needed \in SUBSET PieceIndex, NEW S \in SUBSET needed,
         NEW cache \in [PieceIndex -> Skip .. High], \A i \in needed : cache[i] # Skip,
         NEW counts, NEW recount, \A i \in needed \ S : recount[i] = counts[i]
  PROVE  move(Filed(needed, cache, counts), S, cache, recount) = Filed(needed, cache, recount)
<1>1. {i \in S : cache[i] \in Skip + 1 .. High} = S
  BY DEF Skip, High
<1>2. move(Filed(needed, cache, counts), S, cache, recount)
        = add(remove(Filed(needed, cache, counts), S), S, cache, recount)
  BY <1>1, Zenon DEF move
<1>3. remove(Filed(needed, cache, counts), S) = Filed(needed \ S, cache, counts)
  BY Unfiling
<1>4. Filed(needed \ S, cache, counts) = Filed(needed \ S, cache, recount)
  BY DEF Filed
<1>5. add(Filed(needed \ S, cache, recount), S, cache, recount)
        = Filed((needed \ S) \cup S, cache, recount)
  <2>1. needed \ S \in SUBSET PieceIndex /\ S \in SUBSET (PieceIndex \ (needed \ S))
    OBVIOUS
  <2>2. \A i \in S : cache[i] # Skip
    OBVIOUS
  <2> QED
    BY <2>1, <2>2, Filing
<1>6. (needed \ S) \cup S = needed
  OBVIOUS
<1> QED
  BY <1>2, <1>3, <1>4, <1>5, <1>6

----------------------------------------------------------------------------
(* What a pick finds *)

\* While the index is right no piece in it is stale.
LEMMA WalkFinds ==
  ASSUME PickerTyped, IndexRight, NEW has \in SUBSET PieceIndex
  PROVE  /\ firstMatch(has).dropped = {}
         /\ (\A i \in has : ~Candidate(i)) => firstMatch(has).piece = None
         /\ (\E i \in has : Candidate(i)) =>
              LET piece == firstMatch(has).piece
              IN /\ piece \in has /\ Candidate(piece)
                 /\ \A j \in has \ {piece} : Candidate(j) =>
                      Before(<<piecePriorityCache[piece], pieceAvailability[piece], piece>>,
                             <<piecePriorityCache[j], pieceAvailability[j], j>>)
<1> DEFINE M == neededBuckets.members
           T(i) == <<piecePriorityCache[i], pieceAvailability[i], i>>
           S == {i \in has : Candidate(i)}
           fits == {t \in M : Candidate(t[3]) /\ t[3] \in has}
           best == CHOOSE t \in fits : \A u \in fits \ {t} : Before(t, u)
           stale == {t \in M : ~Candidate(t[3]) /\ (fits = {} \/ Before(t, best))}
<1>1. firstMatch(has) = [piece |-> IF fits = {} THEN None ELSE best[3], dropped |-> {t[3] : t \in stale}]
  BY Zenon DEF firstMatch
<1>2. M = {T(i) : i \in neededPieces} /\ \A i \in PieceIndex : i \in neededPieces <=> Candidate(i)
  BY DEF IndexRight, Filed
<1>3. neededPieces \subseteq PieceIndex
  BY DEF IndexRight
<1>4. \A i : T(i)[3] = i
  OBVIOUS
<1>5. \A t \in M : Candidate(t[3])
  BY <1>2, <1>3, <1>4
<1>6. fits = {T(i) : i \in S}
  BY <1>2, <1>3, <1>4, <1>5
<1>7. stale = {}
  BY <1>5
<1>8. firstMatch(has).dropped = {} /\ firstMatch(has).piece = IF fits = {} THEN None ELSE best[3]
  BY <1>1, <1>7
<1>9. (\A i \in has : ~Candidate(i)) => firstMatch(has).piece = None
  BY <1>6, <1>8
<1>10. ASSUME S # {}
       PROVE  /\ firstMatch(has).piece \in S
              /\ \A j \in S \ {firstMatch(has).piece} : Before(T(firstMatch(has).piece), T(j))
  <2>1. \E i \in S : \A j \in S \ {i} : Before(T(i), T(j))
    <3>1. S \in SUBSET PieceIndex /\ piecePriorityCache \in [PieceIndex -> Skip .. High]
          /\ pieceAvailability \in [PieceIndex -> Nat]
      BY CacheTyped DEF PickerTyped
    <3> HIDE DEF S
    <3> QED
      BY <1>10, <3>1, OneIsBest
  <2> HIDE DEF S, fits
  <2>2. \E t \in fits : \A u \in fits \ {t} : Before(t, u)
    BY <1>6, <2>1
  <2>3. best \in fits /\ \A u \in fits \ {best} : Before(best, u)
    BY <2>2
  <2>4. PICK i \in S : best = T(i)
    BY <1>6, <2>3
  <2> HIDE DEF best
  <2>5. firstMatch(has).piece = i
    BY <1>4, <1>8, <2>3, <2>4
  <2>6. \A j \in S \ {i} : T(j) \in fits \ {best}
    BY <1>4, <1>6, <2>4
  <2> QED
    BY <2>3, <2>4, <2>5, <2>6
<1> QED
  BY <1>8, <1>9, <1>10

----------------------------------------------------------------------------
(* What the critical sections do to the index *)

\* What a step may do to the picks of others: a piece that becomes a
\* candidate ends all of them.
PicksEndedFor ==
  /\ moved \subseteq moved' /\ moved' \subseteq PeerLoops
  /\ moved' # PeerLoops => \A i \in PieceIndex : Candidate(i)' => Candidate(i)

LEMMA StatesChange ==
  ASSUME PickerTyped, IndexRight, NEW D \in SUBSET PieceIndex, NEW state \in PieceStatus,
         SetPieceStates(D, state)
  PROVE  /\ IndexRight' /\ pieceStates' \in [PieceIndex -> PieceStatus] /\ PicksEndedFor
         /\ UNCHANGED <<filePriority, piecePriorityCache, pieceAvailability>>
<1> DEFINE changed == {i \in D : pieceStates[i] # state}
           joins == {i \in changed : isPieceWanted(i)} \ neededPieces
           leaves == changed \cap neededPieces
<1>1. /\ pieceStates' = [i \in PieceIndex |-> IF i \in D THEN state ELSE pieceStates[i]]
      /\ UNCHANGED <<filePriority, piecePriorityCache, pieceAvailability>>
  BY DEF SetPieceStates
<1>2. pieceStates' \in [PieceIndex -> PieceStatus]
  BY <1>1 DEF PickerTyped
<1>3. /\ neededPieces \subseteq PieceIndex
      /\ \A i \in PieceIndex : i \in neededPieces <=> pieceStates[i] = "empty" /\ piecePriorityCache[i] # Skip
      /\ \A i \in PieceIndex : Candidate(i)' <=> pieceStates'[i] = "empty" /\ piecePriorityCache[i] # Skip
      /\ \A i \in PieceIndex : Candidate(i) <=> i \in neededPieces
      /\ neededBuckets = Filed(neededPieces, piecePriorityCache, pieceAvailability)
  BY <1>1 DEF IndexRight, Candidate, isPieceWanted
<1>4. CASE state = "empty"
  <2>1. /\ neededPieces' = neededPieces \cup joins
        /\ neededBuckets' = add(neededBuckets, joins, piecePriorityCache, pieceAvailability)
        /\ moved' = IF joins # {} THEN PeerLoops ELSE moved
    BY <1>4 DEF SetPieceStates, MovedBy
  <2>2. /\ joins \in SUBSET (PieceIndex \ neededPieces)
        /\ \A i \in joins : piecePriorityCache[i] # Skip
    BY DEF isPieceWanted
  <2>3. \A i \in PieceIndex : i \in neededPieces \cup joins <=> Candidate(i)'
    BY <1>1, <1>3, <1>4 DEF isPieceWanted
  <2> HIDE DEF joins
  <2>4. neededBuckets' = Filed(neededPieces \cup joins, piecePriorityCache, pieceAvailability)
    BY <1>3, <2>1, <2>2, CacheTyped, Filing
  <2>5. IndexRight'
    BY <1>1, <1>3, <2>1, <2>2, <2>3, <2>4 DEF IndexRight, Filed
  <2>6. PicksEndedFor
    BY <1>3, <2>1, <2>3 DEF PicksEndedFor, PickerTyped
  <2> QED
    BY <1>1, <1>2, <2>5, <2>6
<1>5. CASE state # "empty"
  <2>1. /\ neededPieces' = neededPieces \ leaves
        /\ neededBuckets' = remove(neededBuckets, leaves)
        /\ moved' = IF leaves # {} /\ neededPieces \subseteq leaves THEN PeerLoops ELSE moved
    BY <1>5 DEF SetPieceStates
  <2>2. leaves \in SUBSET neededPieces
    OBVIOUS
  <2>3. \A i \in PieceIndex : i \in neededPieces \ leaves <=> Candidate(i)'
    BY <1>1, <1>3, <1>5
  <2> HIDE DEF leaves
  <2>4. neededBuckets' = Filed(neededPieces \ leaves, piecePriorityCache, pieceAvailability)
    BY <1>3, <2>1, <2>2, Unfiling
  <2>5. IndexRight'
    BY <1>1, <1>3, <2>1, <2>2, <2>3, <2>4 DEF IndexRight, Filed
  <2>6. PicksEndedFor
    BY <1>3, <2>1, <2>3 DEF PicksEndedFor, PickerTyped
  <2> QED
    BY <1>1, <1>2, <2>5, <2>6
<1> QED
  BY <1>4, <1>5

LEMMA Recomputed ==
  ASSUME NEW states, NEW cache, Recompute(states, cache),
         pieceStates' = states, piecePriorityCache' = cache, pieceAvailability' = pieceAvailability
  PROVE  IndexRight' /\ moved' = PeerLoops
<1>1. neededPieces' = {i \in PieceIndex : Candidate(i)'}
  BY DEF Recompute, Candidate, isPieceWanted
<1>2. neededBuckets' = Filed(neededPieces', cache, pieceAvailability)
  BY DEF Recompute, Filed
<1>3. moved' = PeerLoops
  BY DEF Recompute
<1> QED
  BY <1>1, <1>2, <1>3 DEF IndexRight, Filed

\* The counts of a connection's pieces change, and the index follows.
LEMMA CountsChange ==
  ASSUME PickerTyped, IndexRight, NEW more \in SUBSET PieceIndex, NEW fewer \in SUBSET PieceIndex,
         ChangeAvailability(more, fewer)
  PROVE  /\ IndexRight' /\ pieceAvailability' \in [PieceIndex -> Nat]
         /\ UNCHANGED <<pieceStates, filePriority, piecePriorityCache, neededPieces>>
         /\ \A i \in PieceIndex : Candidate(i)' <=> Candidate(i)
         /\ \A i \in PieceIndex : pieceAvailability'[i] =
              IF i \in more \ fewer THEN pieceAvailability[i] + 1
              ELSE IF i \in fewer \ more /\ pieceAvailability[i] > 0 THEN pieceAvailability[i] - 1
              ELSE pieceAvailability[i]
<1> DEFINE count == [i \in PieceIndex |->
              Max({0, pieceAvailability[i] + (IF i \in more THEN 1 ELSE 0)
                                           - (IF i \in fewer THEN 1 ELSE 0)})]
           S == (more \cup fewer) \cap neededPieces
<1>1. /\ pieceAvailability' = count
      /\ neededBuckets' = move(neededBuckets, S, piecePriorityCache, count)
      /\ UNCHANGED <<pieceStates, filePriority, piecePriorityCache, neededPieces>>
  BY Zenon DEF ChangeAvailability
<1>2. ASSUME NEW n \in Int PROVE Max({0, n}) = IF n > 0 THEN n ELSE 0
  <2>1. \E x \in {0, n} : \A y \in {0, n} : x >= y
    <3>1. CASE n > 0
      BY <3>1
    <3>2. CASE ~ (n > 0)
      BY <3>2
    <3> QED
      BY <3>1, <3>2
  <2>2. Max({0, n}) \in {0, n} /\ \A y \in {0, n} : Max({0, n}) >= y
    BY <2>1 DEF Max
  <2> QED
    BY <2>2
<1>3. ASSUME NEW i \in PieceIndex
      PROVE  /\ count[i] \in Nat
             /\ count[i] = IF i \in more \ fewer THEN pieceAvailability[i] + 1
                           ELSE IF i \in fewer \ more /\ pieceAvailability[i] > 0 THEN pieceAvailability[i] - 1
                           ELSE pieceAvailability[i]
  <2>1. pieceAvailability[i] \in Nat
    BY DEF PickerTyped
  <2>2. CASE i \in more /\ i \notin fewer
    <3>1. count[i] = Max({0, pieceAvailability[i] + 1 - 0})
      BY <2>2
    <3>2. pieceAvailability[i] + 1 - 0 \in Int /\ pieceAvailability[i] + 1 - 0 > 0
      BY <2>1
    <3>3. count[i] = pieceAvailability[i] + 1 - 0
      BY <1>2, <3>1, <3>2
    <3> QED
      BY <2>1, <2>2, <3>3
  <2>3. CASE i \notin more /\ i \in fewer
    <3>1. count[i] = Max({0, pieceAvailability[i] + 0 - 1})
      BY <2>3
    <3>2. pieceAvailability[i] + 0 - 1 \in Int
      BY <2>1
    <3>3. count[i] = IF pieceAvailability[i] + 0 - 1 > 0 THEN pieceAvailability[i] + 0 - 1 ELSE 0
      BY <1>2, <3>1, <3>2
    <3> QED
      BY <2>1, <2>3, <3>3
  <2>4. CASE i \in more /\ i \in fewer
    <3>1. count[i] = Max({0, pieceAvailability[i] + 1 - 1})
      BY <2>4
    <3>2. pieceAvailability[i] + 1 - 1 \in Int
      BY <2>1
    <3>3. count[i] = IF pieceAvailability[i] + 1 - 1 > 0 THEN pieceAvailability[i] + 1 - 1 ELSE 0
      BY <1>2, <3>1, <3>2
    <3> QED
      BY <2>1, <2>4, <3>3
  <2>5. CASE i \notin more /\ i \notin fewer
    <3>1. count[i] = Max({0, pieceAvailability[i] + 0 - 0})
      BY <2>5
    <3>2. pieceAvailability[i] + 0 - 0 \in Int
      BY <2>1
    <3>3. count[i] = IF pieceAvailability[i] + 0 - 0 > 0 THEN pieceAvailability[i] + 0 - 0 ELSE 0
      BY <1>2, <3>1, <3>2
    <3> QED
      BY <2>1, <2>5, <3>3
  <2> QED
    BY <2>2, <2>3, <2>4, <2>5
<1>4. count \in [PieceIndex -> Nat]
  BY <1>3
<1>5. \A i \in neededPieces \ S : count[i] = pieceAvailability[i]
  BY <1>3 DEF IndexRight
<1> HIDE DEF count
<1>6. neededBuckets' = Filed(neededPieces, piecePriorityCache, count)
  <2>1. /\ neededPieces \in SUBSET PieceIndex /\ S \in SUBSET neededPieces
        /\ \A i \in neededPieces : piecePriorityCache[i] # Skip
        /\ neededBuckets = Filed(neededPieces, piecePriorityCache, pieceAvailability)
    BY DEF IndexRight, Candidate, isPieceWanted
  <2> HIDE DEF S
  <2> QED
    BY <1>1, <1>5, <2>1, CacheTyped, Refiling
<1>7. \A i \in PieceIndex : Candidate(i)' <=> Candidate(i)
  BY <1>1 DEF Candidate, isPieceWanted
<1>8. IndexRight'
  BY <1>1, <1>6, <1>7 DEF IndexRight, Filed
<1> QED
  BY <1>1, <1>3, <1>4, <1>7, <1>8

\* The pieces counted for a connection change, and the counts with them.
LEMMA CountsFollow ==
  ASSUME PickerTyped, IndexRight, CountsRight, NEW c \in PeerLoops,
         NEW more \in SUBSET PieceIndex, NEW fewer \in SUBSET PieceIndex,
         ChangeAvailability(more, fewer),
         \A d \in PeerLoops \ {c} : /\ peerIsSeed'[d] = peerIsSeed[d]
                                    /\ peerBitfield'[d] = peerBitfield[d],
         \A i \in PieceIndex : i \in more \ fewer <=> c \in HasIt(i)' /\ c \notin HasIt(i),
         \A i \in PieceIndex : i \in fewer \ more <=> c \in HasIt(i) /\ c \notin HasIt(i)'
  PROVE  \A i \in PieceIndex : pieceAvailability'[i] = Holders(i)'
<1>0. \A i \in PieceIndex : pieceAvailability'[i] =
        IF i \in more \ fewer THEN pieceAvailability[i] + 1
        ELSE IF i \in fewer \ more /\ pieceAvailability[i] > 0 THEN pieceAvailability[i] - 1
        ELSE pieceAvailability[i]
  BY CountsChange
<1> TAKE i \in PieceIndex
<1>1. /\ pieceAvailability[i] = Cardinality(HasIt(i))
      /\ Holders(i)' = Cardinality(HasIt(i)')
  BY DEF CountsRight, Holders, HasIt
<1>2. HasIt(i) \subseteq PeerLoops /\ HasIt(i)' \subseteq PeerLoops
      /\ \A d \in PeerLoops \ {c} : d \in HasIt(i)' <=> d \in HasIt(i)
  BY DEF HasIt
<1>3. IsFiniteSet(HasIt(i)) /\ Cardinality(HasIt(i)) \in Nat
  BY <1>2, PickerConstants, FS_Subset, FS_CardinalityType
<1>4. pieceAvailability'[i] =
        IF i \in more \ fewer THEN pieceAvailability[i] + 1
        ELSE IF i \in fewer \ more /\ pieceAvailability[i] > 0 THEN pieceAvailability[i] - 1
        ELSE pieceAvailability[i]
  BY <1>0
<1>5. CASE i \in more \ fewer
  <2>1. c \notin HasIt(i) /\ HasIt(i)' = HasIt(i) \cup {c}
    BY <1>2, <1>5
  <2>2. Cardinality(HasIt(i) \cup {c}) = Cardinality(HasIt(i)) + 1
    BY <1>3, <2>1, FS_AddElement
  <2> QED
    BY <1>1, <1>4, <1>5, <2>1, <2>2
<1>6. CASE i \in fewer \ more
  <2>1. c \in HasIt(i) /\ HasIt(i)' = HasIt(i) \ {c}
    BY <1>2, <1>6
  <2>2. Cardinality(HasIt(i) \ {c}) = Cardinality(HasIt(i)) - 1
    BY <1>3, <2>1, FS_RemoveElement
  <2>3. Cardinality(HasIt(i)) # 0
    BY <1>3, <2>1, FS_EmptySet
  <2>4. pieceAvailability'[i] = pieceAvailability[i] - 1
    BY <1>1, <1>3, <1>4, <1>6, <2>3
  <2> QED
    BY <1>1, <2>1, <2>2, <2>4
<1>7. CASE i \notin more \ fewer /\ i \notin fewer \ more
  <2>1. HasIt(i)' = HasIt(i)
    BY <1>2, <1>7
  <2> QED
    BY <1>1, <1>4, <1>7, <2>1
<1> QED
  BY <1>5, <1>6, <1>7

\* Picks of connections that look at no more than before stay empty.
LEMMA PicksKept ==
  ASSUME PicksAreEmpty, PicksEndedFor, up' \subseteq PeerLoops,
         \A c \in up' : noPick'[c] =>
            /\ c \in up /\ noPick[c]
            /\ \/ CanRequest(c)' \subseteq CanRequest(c)
               \/ ~noPickRestricted[c] /\ CanRequest(c)' \subseteq peerBitfield[c]
            /\ ~noPickRestricted'[c] => ~noPickRestricted[c] /\ peerBitfield'[c] \subseteq peerBitfield[c]
  PROVE  PicksAreEmpty'
<1> SUFFICES ASSUME NEW c \in up', noPick'[c], c \notin moved', NEW i \in PieceIndex, Candidate(i)'
             PROVE  /\ i \notin CanRequest(c)'
                    /\ ~noPickRestricted'[c] => i \notin peerBitfield'[c]
  BY DEF PicksAreEmpty, Untouched, Trusts
<1>1. c \notin moved /\ Candidate(i)
  BY DEF PicksEndedFor
<1>2. c \in up /\ Trusts(c)
  BY <1>1 DEF Trusts
<1>3. i \notin CanRequest(c) /\ (~noPickRestricted[c] => i \notin peerBitfield[c])
  BY <1>1, <1>2 DEF PicksAreEmpty, Untouched
<1> QED
  BY <1>3

\* The session's part of the invariant is left alone.
LEMMA SessionKept ==
  ASSUME PickerInv, UNCHANGED pickSession
  PROVE  IndexRight' /\ \A i \in PieceIndex : Candidate(i)' <=> Candidate(i)
  BY DEF PickerInv, pickSession, IndexRight, Filed, Candidate, isPieceWanted

LEMMA CountsStay ==
  ASSUME CountsRight, UNCHANGED <<pieceAvailability, peerIsSeed, peerBitfield, announced>>
  PROVE  CountsRight'
  BY DEF CountsRight, Holders

----------------------------------------------------------------------------
(* The steps *)

LEMMA PickSteps ==
  ASSUME PickerInv, NEW c \in PeerLoops, Pick(c) \/ PickRetry(c)
  PROVE  PickerInv'
<1>1. openNewPiece(c) /\ UNCHANGED <<jobs, wire, up, pickerPlan, pickerBudget>>
  BY DEF Pick, PickRetry
<1> DEFINE m == firstMatch(CanRequest(c))
<1>2. PickerTyped /\ IndexRight /\ CanRequest(c) \in SUBSET PieceIndex
  BY DEF PickerInv, PickerTyped, CanRequest
<1>3. /\ m.dropped = {}
      /\ (\A i \in CanRequest(c) : ~Candidate(i)) => m.piece = None
      /\ (\E i \in CanRequest(c) : Candidate(i)) => m.piece \in CanRequest(c) /\ Candidate(m.piece)
  BY <1>2, WalkFinds
<1>4. /\ neededPieces \in SUBSET PieceIndex
      /\ neededBuckets = Filed(neededPieces, piecePriorityCache, pieceAvailability)
      /\ \A i \in PieceIndex : i \in neededPieces <=> Candidate(i)
  BY DEF PickerInv, IndexRight
<1>5. None \notin PieceIndex
  BY PickerConstants DEF None
<1>6. neededPieces \ m.dropped = neededPieces /\ remove(neededBuckets, m.dropped) = neededBuckets
  <2>1. neededPieces \ m.dropped = neededPieces /\ m.dropped \in SUBSET neededPieces
    BY <1>3
  <2> HIDE DEF m
  <2>2. remove(neededBuckets, m.dropped) = Filed(neededPieces \ m.dropped, piecePriorityCache, pieceAvailability)
    BY <1>4, <2>1, Unfiling
  <2> QED
    BY <1>4, <2>1, <2>2
<1>7. /\ UNCHANGED <<filePriority, piecePriorityCache, pieceAvailability>>
      /\ \/ /\ m.piece # None
            /\ neededPieces' = neededPieces \ {m.piece}
            /\ neededBuckets' = remove(neededBuckets, {m.piece})
            /\ pieceStates' = [pieceStates EXCEPT ![m.piece] = "downloading"]
            /\ owned' = [owned EXCEPT ![c] = @ \cup {m.piece}]
            /\ moved' = IF neededPieces = {m.piece} THEN PeerLoops ELSE moved
            /\ UNCHANGED <<copies, noPick, noPickRestricted>>
         \/ /\ m.piece = None
            /\ UNCHANGED <<neededPieces, neededBuckets, pieceStates, owned>>
            /\ \/ /\ Copyable(c) # {}
                  /\ copies' = [copies EXCEPT ![c] = @ \cup {BestCopy(c)}]
                  /\ moved' = moved /\ UNCHANGED <<noPick, noPickRestricted>>
               \/ /\ noPick' = [noPick EXCEPT ![c] = TRUE]
                  /\ noPickRestricted' = [noPickRestricted EXCEPT ![c] = choked[c] \/ peerRejectedPieces[c] # {}]
                  /\ moved' = moved \ {c} /\ UNCHANGED copies
  <2> HIDE DEF m
  <2> QED
    BY <1>1, <1>3, <1>6 DEF openNewPiece, m
<1>8. CountsRight'
  BY <1>1, <1>7, CountsStay DEF wire, PickerInv
<1>9. \A d \in PeerLoops : CanRequest(d)' = CanRequest(d)
  BY <1>1 DEF wire, CanRequest
<1> HIDE DEF m
<1>10. CASE m.piece # None
  <2>1. m.piece \in CanRequest(c) /\ Candidate(m.piece) /\ m.piece \in neededPieces
    BY <1>2, <1>3, <1>4, <1>10
  <2>2. /\ neededPieces' = neededPieces \ {m.piece}
        /\ pieceStates' = [pieceStates EXCEPT ![m.piece] = "downloading"]
        /\ owned' = [owned EXCEPT ![c] = @ \cup {m.piece}]
        /\ moved' = IF neededPieces = {m.piece} THEN PeerLoops ELSE moved
        /\ neededBuckets' = remove(neededBuckets, {m.piece})
        /\ UNCHANGED <<copies, noPick, noPickRestricted>>
    BY <1>7, <1>10
  <2>3. \A i \in PieceIndex : Candidate(i)' <=> i \in neededPieces /\ i # m.piece
    BY <1>2, <1>4, <1>7, <2>1, <2>2 DEF Candidate, isPieceWanted, PickerTyped
  <2>4. IndexRight'
    <3>1. neededBuckets' = Filed(neededPieces \ {m.piece}, piecePriorityCache, pieceAvailability)
      BY <1>4, <2>1, <2>2, Unfiling
    <3>2. neededPieces' = {i \in PieceIndex : Candidate(i)'}
      BY <1>4, <2>2, <2>3
    <3>3. neededBuckets' = Filed(neededPieces', piecePriorityCache', pieceAvailability')
      BY <1>7, <2>2, <3>1
    <3> QED
      BY <3>2, <3>3 DEF IndexRight, Filed
  <2>5. PickerTyped'
    BY <1>1, <1>2, <1>7, <2>1, <2>2 DEF PickerTyped, PieceStatus, wire, CanRequest
  <2>6. PicksEndedFor
    BY <1>2, <1>4, <2>2, <2>3 DEF PicksEndedFor, PickerTyped
  <2>7. PicksAreEmpty'
    BY <1>1, <1>2, <1>9, <2>2, <2>6, PicksKept DEF PickerInv, PickerTyped, wire
  <2> QED
    BY <1>8, <2>4, <2>5, <2>7 DEF PickerInv
<1>11. CASE m.piece = None
  <2>1. /\ UNCHANGED <<neededPieces, neededBuckets, pieceStates, owned>>
        /\ UNCHANGED pickSession
    BY <1>7, <1>11 DEF pickSession
  <2>2. IndexRight' /\ \A i \in PieceIndex : Candidate(i)' <=> Candidate(i)
    BY <2>1, SessionKept
  <2>3. \A i \in CanRequest(c) : ~Candidate(i)
    BY <1>2, <1>3, <1>5, <1>11
  <2>4. CASE UNCHANGED <<noPick, noPickRestricted>> /\ moved' = moved /\ Copyable(c) # {}
             /\ copies' = [copies EXCEPT ![c] = @ \cup {BestCopy(c)}]
    <3>1. BestCopy(c) \in PieceIndex
      <4>1. Copyable(c) \in SUBSET PieceIndex
        BY <1>2 DEF Copyable
      <4>2. \E i \in Copyable(c) : \A j \in Copyable(c) \ {i} :
              Before(<<piecePriorityCache[i], pieceAvailability[i], i>>,
                     <<piecePriorityCache[j], pieceAvailability[j], j>>)
        <5>1. pieceAvailability \in [PieceIndex -> Nat]
          BY <1>2 DEF PickerTyped
        <5> QED
          BY <1>2, <2>4, <4>1, <5>1, CacheTyped, OneIsBest
      <4>3. BestCopy(c) \in Copyable(c)
        BY <4>2 DEF BestCopy
      <4> QED
        BY <4>1, <4>3
    <3>2. PickerTyped'
      BY <1>1, <1>2, <1>7, <2>1, <2>4, <3>1 DEF PickerTyped, wire
    <3>3. PicksEndedFor
      BY <1>2, <2>2, <2>4 DEF PicksEndedFor, PickerTyped
    <3>4. PicksAreEmpty'
      BY <1>1, <1>2, <1>9, <2>4, <3>3, PicksKept DEF PickerInv, PickerTyped, wire
    <3> QED
      BY <1>8, <2>2, <3>2, <3>4 DEF PickerInv
  <2>5. CASE /\ noPick' = [noPick EXCEPT ![c] = TRUE]
             /\ noPickRestricted' = [noPickRestricted EXCEPT ![c] = choked[c] \/ peerRejectedPieces[c] # {}]
             /\ moved' = moved \ {c} /\ UNCHANGED copies
    <3>1. PickerTyped'
      BY <1>1, <1>2, <1>7, <2>1, <2>5 DEF PickerTyped, wire
    <3>2. ASSUME NEW d \in up' PROVE Untouched(d)'
      <4>1. d \in up /\ d \in PeerLoops
        BY <1>1, <1>2 DEF PickerTyped
      <4>2. CASE d # c
        <5>1. Untouched(d)
          BY <4>1 DEF PickerInv, PicksAreEmpty
        <5>2. /\ noPick'[d] = noPick[d] /\ noPickRestricted'[d] = noPickRestricted[d]
              /\ d \in moved' <=> d \in moved
          BY <1>2, <2>5, <4>1, <4>2 DEF PickerTyped
        <5> QED
          BY <1>1, <1>9, <2>2, <4>1, <5>1, <5>2 DEF Untouched, Trusts, wire
      <4>3. CASE d = c
        <5>1. noPickRestricted'[c] = (choked[c] \/ peerRejectedPieces[c] # {})
          BY <1>2, <2>5 DEF PickerTyped
        <5>2. ~noPickRestricted'[c] => CanRequest(c) = peerBitfield[c]
          BY <5>1 DEF CanRequest
        <5>3. peerBitfield' = peerBitfield
          BY <1>1 DEF wire
        <5> QED
          BY <1>9, <2>2, <2>3, <4>3, <5>2, <5>3 DEF Untouched
      <4> QED
        BY <4>2, <4>3
    <3>3. PicksAreEmpty'
      BY <3>2 DEF PicksAreEmpty
    <3> QED
      BY <1>8, <2>2, <3>1, <3>3 DEF PickerInv
  <2> QED
    BY <1>7, <1>11, <2>4, <2>5
<1> QED
  BY <1>10, <1>11

\* A step of one connection that ends its pick leaves those of the others.
LEMMA OthersPicks ==
  ASSUME PickerInv, PicksEndedFor, NEW c \in PeerLoops, up' \subseteq up \cup {c}, ~noPick'[c],
         \A d \in PeerLoops \ {c} :
            /\ noPick'[d] = noPick[d] /\ noPickRestricted'[d] = noPickRestricted[d]
            /\ peerBitfield'[d] = peerBitfield[d] /\ CanRequest(d)' = CanRequest(d)
  PROVE  PicksAreEmpty'
<1>1. up \subseteq PeerLoops /\ up' \subseteq PeerLoops
  BY DEF PickerInv, PickerTyped
<1>2. \A d \in up' : noPick'[d] =>
         /\ d \in up /\ noPick[d] /\ CanRequest(d)' \subseteq CanRequest(d)
         /\ ~noPickRestricted'[d] => ~noPickRestricted[d] /\ peerBitfield'[d] \subseteq peerBitfield[d]
  BY <1>1
<1> QED
  BY <1>1, <1>2, PicksKept DEF PickerInv

LEMMA NothingEnds ==
  ASSUME PickerTyped, moved' = moved, \A i \in PieceIndex : Candidate(i)' => Candidate(i)
  PROVE  PicksEndedFor
  BY DEF PicksEndedFor, PickerTyped

LEMMA HaveKeeps ==
  ASSUME PickerInv, NEW c \in PeerLoops, NEW i \in PieceIndex, TakeHave(c, i)
  PROVE  PickerInv'
<1>1. /\ c \in up /\ i \notin peerBitfield[c] /\ pickerPlan' = pickerPlan
      /\ peerBitfield' = [peerBitfield EXCEPT ![c] = @ \cup {i}]
      /\ noPick' = [noPick EXCEPT ![c] = FALSE]
      /\ UNCHANGED <<jobs, peerIsSeed, announced, choked, peerAllowedFast,
                     peerRejectedPieces, owned, copies, noPickRestricted, up, moved>>
  BY DEF TakeHave, Spend
<1>2. PickerTyped /\ IndexRight /\ CountsRight
  BY DEF PickerInv
<1>3. /\ IndexRight' /\ pieceAvailability' \in [PieceIndex -> Nat]
      /\ UNCHANGED <<pieceStates, filePriority, piecePriorityCache>>
      /\ \A j \in PieceIndex : Candidate(j)' <=> Candidate(j)
      /\ \A j \in PieceIndex : pieceAvailability'[j] = Holders(j)'
  <2>1. CASE peerIsSeed[c]
    <3>1. UNCHANGED pickSession
      BY <2>1 DEF TakeHave
    <3>2. \A j \in PieceIndex : HasIt(j)' = HasIt(j)
      BY <1>1, <1>2, <2>1 DEF HasIt, PickerTyped
    <3>3. \A j \in PieceIndex : Holders(j)' = Holders(j)
      BY <3>2 DEF Holders, HasIt
    <3> QED
      BY <1>2, <3>1, <3>3, SessionKept DEF pickSession, PickerTyped, CountsRight
  <2>2. CASE ~peerIsSeed[c]
    <3>1. ChangeAvailability({i}, {})
      BY <2>2 DEF TakeHave
    <3>2. \A d \in PeerLoops \ {c} : peerIsSeed'[d] = peerIsSeed[d] /\ peerBitfield'[d] = peerBitfield[d]
      BY <1>1, <1>2 DEF PickerTyped
    <3>3. \A j \in PieceIndex : /\ j \in {i} \ {} <=> c \in HasIt(j)' /\ c \notin HasIt(j)
                                /\ j \in {} \ {i} <=> c \in HasIt(j) /\ c \notin HasIt(j)'
      BY <1>1, <1>2, <2>2 DEF HasIt, PickerTyped
    <3>4. {i} \in SUBSET PieceIndex /\ {} \in SUBSET PieceIndex
      OBVIOUS
    <3>5. \A j \in PieceIndex : pieceAvailability'[j] = Holders(j)'
      BY <1>2, <3>1, <3>2, <3>3, <3>4, CountsFollow
    <3>6. /\ IndexRight' /\ pieceAvailability' \in [PieceIndex -> Nat]
          /\ UNCHANGED <<pieceStates, filePriority, piecePriorityCache, neededPieces>>
          /\ \A j \in PieceIndex : Candidate(j)' <=> Candidate(j)
      BY <1>2, <3>1, <3>4, CountsChange
    <3> QED
      BY <3>5, <3>6
  <2> QED
    BY <2>1, <2>2
<1>4. CountsRight'
  BY <1>1, <1>2, <1>3 DEF CountsRight
<1>5. PickerTyped'
  BY <1>1, <1>2, <1>3 DEF PickerTyped
<1>6. \A d \in PeerLoops \ {c} : CanRequest(d)' = CanRequest(d) /\ peerBitfield'[d] = peerBitfield[d]
                                 /\ noPick'[d] = noPick[d] /\ noPickRestricted'[d] = noPickRestricted[d]
  BY <1>1, <1>2 DEF CanRequest, PickerTyped
<1>7. ~noPick'[c]
  BY <1>1, <1>2 DEF PickerTyped
<1>8. PicksAreEmpty'
  BY <1>1, <1>2, <1>3, <1>6, <1>7, NothingEnds, OthersPicks
<1> QED
  BY <1>3, <1>4, <1>5, <1>8 DEF PickerInv

LEMMA BitfieldKeeps ==
  ASSUME PickerInv, NEW c \in PeerLoops, NEW S \in SUBSET PieceIndex, TakeBitfield(c, S)
  PROVE  PickerInv'
<1>1. /\ c \in up /\ ~announced[c] /\ pickerPlan' = pickerPlan
      /\ announced' = [announced EXCEPT ![c] = TRUE]
      /\ peerIsSeed' = [peerIsSeed EXCEPT ![c] = S = PieceIndex]
      /\ peerBitfield' = [peerBitfield EXCEPT ![c] = S]
      /\ noPick' = [noPick EXCEPT ![c] = FALSE]
      /\ UNCHANGED <<jobs, choked, peerAllowedFast, peerRejectedPieces, owned, copies,
                     noPickRestricted, up, moved>>
  BY DEF TakeBitfield, Spend
<1>2. PickerTyped /\ IndexRight /\ CountsRight
  BY DEF PickerInv
<1>3. ~peerIsSeed[c] /\ peerBitfield[c] \in SUBSET PieceIndex
  BY <1>1, <1>2 DEF CountsRight, PickerTyped
<1>4. \A d \in PeerLoops \ {c} : peerIsSeed'[d] = peerIsSeed[d] /\ peerBitfield'[d] = peerBitfield[d]
  BY <1>1, <1>2 DEF PickerTyped
<1>5. peerIsSeed'[c] = (S = PieceIndex) /\ peerBitfield'[c] = S
  BY <1>1, <1>2 DEF PickerTyped
<1>6. \A j \in PieceIndex : /\ c \in HasIt(j) <=> j \in peerBitfield[c]
                            /\ c \in HasIt(j)' <=> S # PieceIndex /\ j \in S
  BY <1>3, <1>5 DEF HasIt
<1>7. PICK more \in SUBSET PieceIndex, fewer \in SUBSET PieceIndex :
        /\ ChangeAvailability(more, fewer)
        /\ \A j \in PieceIndex : j \in more \ fewer <=> c \in HasIt(j)' /\ c \notin HasIt(j)
        /\ \A j \in PieceIndex : j \in fewer \ more <=> c \in HasIt(j) /\ c \notin HasIt(j)'
  <2>1. CASE S = PieceIndex
    <3>1. ChangeAvailability({}, peerBitfield[c])
      BY <2>1 DEF TakeBitfield
    <3>2. \A j \in PieceIndex : j \in {} \ peerBitfield[c] <=> c \in HasIt(j)' /\ c \notin HasIt(j)
      BY <1>6, <2>1
    <3>3. \A j \in PieceIndex : j \in peerBitfield[c] \ {} <=> c \in HasIt(j) /\ c \notin HasIt(j)'
      BY <1>6, <2>1
    <3>4. {} \in SUBSET PieceIndex
      OBVIOUS
    <3> QED
      BY <1>3, <3>1, <3>2, <3>3, <3>4
  <2>2. CASE S # PieceIndex
    <3> DEFINE joining == S \ peerBitfield[c]
               leaving == peerBitfield[c] \ S
    <3>1. ChangeAvailability(joining, leaving)
      BY <2>2 DEF TakeBitfield
    <3>2. \A j \in PieceIndex : j \in joining \ leaving <=> c \in HasIt(j)' /\ c \notin HasIt(j)
      BY <1>6, <2>2
    <3>3. \A j \in PieceIndex : j \in leaving \ joining <=> c \in HasIt(j) /\ c \notin HasIt(j)'
      BY <1>6, <2>2
    <3>4. joining \in SUBSET PieceIndex /\ leaving \in SUBSET PieceIndex
      BY <1>3
    <3> HIDE DEF joining, leaving
    <3> QED
      BY <3>1, <3>2, <3>3, <3>4
  <2> QED
    BY <2>1, <2>2
<1>8. \A j \in PieceIndex : pieceAvailability'[j] = Holders(j)'
  BY <1>2, <1>4, <1>7, CountsFollow
<1>9. /\ IndexRight' /\ pieceAvailability' \in [PieceIndex -> Nat]
      /\ UNCHANGED <<pieceStates, filePriority, piecePriorityCache, neededPieces>>
      /\ \A j \in PieceIndex : Candidate(j)' <=> Candidate(j)
  BY <1>2, <1>7, CountsChange
<1>10. CountsRight'
  BY <1>1, <1>2, <1>8 DEF CountsRight, PickerTyped
<1>11. PickerTyped'
  BY <1>1, <1>2, <1>9 DEF PickerTyped
<1>12. \A d \in PeerLoops \ {c} : CanRequest(d)' = CanRequest(d)
                                  /\ noPick'[d] = noPick[d] /\ noPickRestricted'[d] = noPickRestricted[d]
  BY <1>1, <1>2, <1>4 DEF CanRequest, PickerTyped
<1>13. ~noPick'[c]
  BY <1>1, <1>2 DEF PickerTyped
<1>14. PicksAreEmpty'
  BY <1>1, <1>2, <1>4, <1>9, <1>12, <1>13, NothingEnds, OthersPicks
<1> QED
  BY <1>9, <1>10, <1>11, <1>14 DEF PickerInv

LEMMA AllowedFastKeeps ==
  ASSUME PickerInv, NEW c \in PeerLoops, NEW i \in PieceIndex, TakeAllowedFast(c, i)
  PROVE  PickerInv'
<1>1. /\ c \in up /\ pickerPlan' = pickerPlan
      /\ peerAllowedFast' = [peerAllowedFast EXCEPT ![c] = @ \cup {i}]
      /\ noPick' = [noPick EXCEPT ![c] = FALSE]
      /\ UNCHANGED <<pickSession, jobs, peerBitfield, peerIsSeed, announced, choked,
                     peerRejectedPieces, owned, copies, noPickRestricted, up, moved>>
  BY DEF TakeAllowedFast, Spend
<1>2. PickerTyped /\ IndexRight /\ CountsRight
  BY DEF PickerInv
<1>3. IndexRight' /\ \A j \in PieceIndex : Candidate(j)' <=> Candidate(j)
  BY <1>1, SessionKept
<1>4. CountsRight'
  BY <1>1, <1>2, CountsStay DEF pickSession
<1>5. PickerTyped'
  BY <1>1, <1>2 DEF PickerTyped, pickSession
<1>6. \A d \in PeerLoops \ {c} : CanRequest(d)' = CanRequest(d) /\ peerBitfield'[d] = peerBitfield[d]
                                 /\ noPick'[d] = noPick[d] /\ noPickRestricted'[d] = noPickRestricted[d]
  BY <1>1, <1>2 DEF CanRequest, PickerTyped
<1>7. ~noPick'[c]
  BY <1>1, <1>2 DEF PickerTyped
<1>8. PicksAreEmpty'
  BY <1>1, <1>2, <1>3, <1>6, <1>7, NothingEnds, OthersPicks
<1> QED
  BY <1>3, <1>4, <1>5, <1>8 DEF PickerInv

\* What a release does.
LEMMA Released ==
  ASSUME PickerTyped, IndexRight, NEW S \in SUBSET PieceIndex, Release(S)
  PROVE  /\ IndexRight' /\ pieceStates' \in [PieceIndex -> PieceStatus] /\ PicksEndedFor
         /\ UNCHANGED <<filePriority, piecePriorityCache, pieceAvailability>>
<1>1. {i \in S : pieceStates[i] = "downloading"} \in SUBSET PieceIndex /\ "empty" \in PieceStatus
  BY DEF PieceStatus
<1> QED
  BY <1>1, StatesChange DEF Release

LEMMA ChokeKeeps ==
  ASSUME PickerInv, NEW c \in PeerLoops, TakeChoke(c)
  PROVE  PickerInv'
<1>1. /\ ~choked[c] /\ choked' = [choked EXCEPT ![c] = TRUE] /\ pickerPlan' = pickerPlan
      /\ owned' = [owned EXCEPT ![c] = @ \cap peerAllowedFast[c]]
      /\ copies' = [copies EXCEPT ![c] = {}]
      /\ Release(owned[c] \ peerAllowedFast[c])
      /\ UNCHANGED <<jobs, peerBitfield, peerIsSeed, announced, peerAllowedFast,
                     peerRejectedPieces, noPick, noPickRestricted, up>>
  BY DEF TakeChoke, Spend
<1>2. PickerTyped /\ IndexRight /\ CountsRight
  BY DEF PickerInv
<1>3. owned[c] \ peerAllowedFast[c] \in SUBSET PieceIndex
  BY <1>2 DEF PickerTyped
<1>4. /\ IndexRight' /\ pieceStates' \in [PieceIndex -> PieceStatus] /\ PicksEndedFor
      /\ UNCHANGED <<filePriority, piecePriorityCache, pieceAvailability>>
  BY <1>1, <1>2, <1>3, Released
<1>5. CountsRight'
  BY <1>1, <1>2, <1>4, CountsStay
<1>6. PickerTyped'
  BY <1>1, <1>2, <1>4 DEF PickerTyped, PicksEndedFor
<1>7. \A d \in PeerLoops : CanRequest(d)' \subseteq CanRequest(d)
  BY <1>1, <1>2 DEF CanRequest, PickerTyped
<1>8. up \subseteq PeerLoops
  BY <1>2 DEF PickerTyped
<1>9. PicksAreEmpty'
  BY <1>1, <1>4, <1>7, <1>8, PicksKept DEF PickerInv
<1> QED
  BY <1>4, <1>5, <1>6, <1>9 DEF PickerInv

LEMMA UnchokeKeeps ==
  ASSUME PickerInv, NEW c \in PeerLoops, TakeUnchoke(c)
  PROVE  PickerInv'
<1>1. /\ choked' = [choked EXCEPT ![c] = FALSE]
      /\ peerRejectedPieces' = [peerRejectedPieces EXCEPT ![c] = {}]
      /\ noPick' = [noPick EXCEPT ![c] = @ /\ ~noPickRestricted[c]]
      /\ UNCHANGED <<pickSession, jobs, peerBitfield, peerIsSeed, announced, peerAllowedFast,
                     owned, copies, noPickRestricted, up, moved, pickerPlan>>
  BY DEF TakeUnchoke
<1>2. PickerTyped /\ IndexRight /\ CountsRight
  BY DEF PickerInv
<1>3. IndexRight' /\ \A j \in PieceIndex : Candidate(j)' <=> Candidate(j)
  BY <1>1, SessionKept
<1>4. CountsRight'
  BY <1>1, <1>2, CountsStay DEF pickSession
<1>5. noPick' \in [PeerLoops -> BOOLEAN] /\ (noPick'[c] => noPick[c] /\ ~noPickRestricted[c])
  BY <1>1, <1>2 DEF PickerTyped
<1>6. PickerTyped'
  BY <1>1, <1>2, <1>5 DEF PickerTyped, pickSession
<1>7. \A d \in PeerLoops \ {c} : CanRequest(d)' = CanRequest(d) /\ noPick'[d] = noPick[d]
  BY <1>1, <1>2 DEF CanRequest, PickerTyped
<1>8. CanRequest(c)' \subseteq peerBitfield[c]
  BY <1>1 DEF CanRequest
<1>9. up \subseteq PeerLoops
  BY <1>2 DEF PickerTyped
<1>10. ASSUME NEW d \in up', noPick'[d]
       PROVE  /\ d \in up /\ noPick[d]
              /\ \/ CanRequest(d)' \subseteq CanRequest(d)
                 \/ ~noPickRestricted[d] /\ CanRequest(d)' \subseteq peerBitfield[d]
              /\ ~noPickRestricted'[d] => ~noPickRestricted[d] /\ peerBitfield'[d] \subseteq peerBitfield[d]
  <2>1. d \in up /\ d \in PeerLoops
    BY <1>1, <1>9
  <2>2. CASE d = c
    BY <1>1, <1>5, <1>8, <1>10, <2>1, <2>2
  <2>3. CASE d # c
    BY <1>1, <1>7, <1>10, <2>1, <2>3
  <2> QED
    BY <2>2, <2>3
<1>11. PicksEndedFor
  BY <1>1, <1>2, <1>3, NothingEnds
<1>12. up' \subseteq PeerLoops
  BY <1>1, <1>9
<1>13. PicksAreEmpty'
  BY <1>10, <1>11, <1>12, PicksKept DEF PickerInv
<1> QED
  BY <1>3, <1>4, <1>6, <1>13 DEF PickerInv

LEMMA RejectKeeps ==
  ASSUME PickerInv, NEW c \in PeerLoops, NEW i \in PieceIndex, TakeReject(c, i)
  PROVE  PickerInv'
<1>1. /\ pickerPlan' = pickerPlan /\ Release(owned[c] \cap {i})
      /\ peerRejectedPieces' = [peerRejectedPieces EXCEPT ![c] = @ \cup {i}]
      /\ owned' = [owned EXCEPT ![c] = @ \ {i}] /\ copies' = [copies EXCEPT ![c] = @ \ {i}]
      /\ noPick' = [noPick EXCEPT ![c] = FALSE]
      /\ UNCHANGED <<jobs, peerBitfield, peerIsSeed, announced, choked, peerAllowedFast,
                     noPickRestricted, up>>
  BY DEF TakeReject, Spend, Drop
<1>2. PickerTyped /\ IndexRight /\ CountsRight
  BY DEF PickerInv
<1>3. owned[c] \cap {i} \in SUBSET PieceIndex
  BY <1>2 DEF PickerTyped
<1>4. /\ IndexRight' /\ pieceStates' \in [PieceIndex -> PieceStatus] /\ PicksEndedFor
      /\ UNCHANGED <<filePriority, piecePriorityCache, pieceAvailability>>
  BY <1>1, <1>2, <1>3, Released
<1>5. CountsRight'
  BY <1>1, <1>2, <1>4, CountsStay
<1>6. PickerTyped'
  BY <1>1, <1>2, <1>4 DEF PickerTyped, PicksEndedFor
<1>7. \A d \in PeerLoops \ {c} : CanRequest(d)' = CanRequest(d) /\ peerBitfield'[d] = peerBitfield[d]
                                 /\ noPick'[d] = noPick[d] /\ noPickRestricted'[d] = noPickRestricted[d]
  BY <1>1, <1>2 DEF CanRequest, PickerTyped
<1>8. ~noPick'[c]
  BY <1>1, <1>2 DEF PickerTyped
<1>9. PicksAreEmpty'
  BY <1>1, <1>2, <1>4, <1>7, <1>8, OthersPicks
<1> QED
  BY <1>4, <1>5, <1>6, <1>9 DEF PickerInv

\* A piece assembled, or dropped since another connection brought it.
LEMMA DropKeeps ==
  ASSUME PickerInv, NEW c \in PeerLoops, NEW S, Drop(c, S), jobs' \subseteq PeerLoops \X PieceIndex,
         UNCHANGED <<pickSession, wire, noPickRestricted, up, moved, pickerPlan>>
  PROVE  PickerInv'
<1>1. /\ owned' = [owned EXCEPT ![c] = @ \ S] /\ copies' = [copies EXCEPT ![c] = @ \ S]
      /\ noPick' = [noPick EXCEPT ![c] = FALSE]
  BY DEF Drop
<1>2. PickerTyped /\ IndexRight /\ CountsRight
  BY DEF PickerInv
<1>3. IndexRight' /\ \A j \in PieceIndex : Candidate(j)' <=> Candidate(j)
  BY SessionKept
<1>4. CountsRight'
  BY <1>2, CountsStay DEF pickSession, wire
<1>5. PickerTyped'
  BY <1>1, <1>2 DEF PickerTyped, pickSession, wire
<1>6. \A d \in PeerLoops \ {c} : CanRequest(d)' = CanRequest(d) /\ peerBitfield'[d] = peerBitfield[d]
                                 /\ noPick'[d] = noPick[d] /\ noPickRestricted'[d] = noPickRestricted[d]
  BY <1>1, <1>2 DEF CanRequest, PickerTyped, wire
<1>7. ~noPick'[c]
  BY <1>1, <1>2 DEF PickerTyped
<1>8. PicksAreEmpty'
  BY <1>2, <1>3, <1>6, <1>7, NothingEnds, OthersPicks
<1> QED
  BY <1>3, <1>4, <1>5, <1>8 DEF PickerInv

\* A verdict of the write pool.
LEMMA VerdictKeeps ==
  ASSUME PickerInv, IndexRight', pieceStates' \in [PieceIndex -> PieceStatus], PicksEndedFor,
         jobs' \subseteq PeerLoops \X PieceIndex,
         UNCHANGED <<filePriority, piecePriorityCache, pieceAvailability, wire, owned, copies, noPick,
                     noPickRestricted, up, pickerPlan>>
  PROVE  PickerInv'
<1>1. CountsRight'
  BY CountsStay DEF PickerInv, wire
<1>2. PickerTyped'
  BY DEF PickerInv, PickerTyped, PicksEndedFor, wire
<1>3. up \subseteq PeerLoops /\ \A d \in PeerLoops : CanRequest(d)' = CanRequest(d)
  BY DEF PickerInv, PickerTyped, CanRequest, wire
<1>4. PicksAreEmpty'
  BY <1>3, PicksKept DEF PickerInv, wire
<1> QED
  BY <1>1, <1>2, <1>4 DEF PickerInv

LEMMA WrittenKeeps ==
  ASSUME PickerInv, NEW c \in PeerLoops, NEW i \in PieceIndex, Written(c, i) \/ HandedBack(c, i)
  PROVE  PickerInv'
<1>1. /\ jobs' = jobs \ {<<c, i>>}
      /\ SetPieceStates({i}, "completed") \/ Release({i})
      /\ UNCHANGED <<wire, owned, copies, noPick, noPickRestricted, up, pickerPlan>>
  BY DEF Written, HandedBack, Spend
<1>2. PickerTyped /\ IndexRight /\ {i} \in SUBSET PieceIndex /\ "completed" \in PieceStatus
  BY DEF PickerInv, PieceStatus
<1>3. /\ IndexRight' /\ pieceStates' \in [PieceIndex -> PieceStatus] /\ PicksEndedFor
      /\ UNCHANGED <<filePriority, piecePriorityCache, pieceAvailability>>
  BY <1>1, <1>2, StatesChange, Released
<1>4. jobs' \subseteq PeerLoops \X PieceIndex
  BY <1>1, <1>2 DEF PickerTyped
<1> QED
  BY <1>1, <1>3, <1>4, VerdictKeeps

LEMMA RepairedKeeps ==
  ASSUME PickerInv, NEW c \in PeerLoops, NEW i \in PieceIndex, Repaired(c, i)
  PROVE  PickerInv'
<1> DEFINE states == [j \in PieceIndex |-> IF j = i THEN "completed" ELSE "empty"]
<1>1. /\ jobs' = jobs \ {<<c, i>>} /\ pieceStates' = states
      /\ Recompute(states, piecePriorityCache)
      /\ UNCHANGED <<filePriority, piecePriorityCache, pieceAvailability, wire, owned, copies,
                     noPick, noPickRestricted, up, pickerPlan>>
  BY DEF Repaired, resetProgressAfterStorageRepair, Spend
<1>2. states \in [PieceIndex -> PieceStatus]
  BY DEF PieceStatus
<1> HIDE DEF states
<1>3. IndexRight' /\ moved' = PeerLoops
  BY <1>1, Recomputed
<1>4. PicksEndedFor
  BY <1>3 DEF PicksEndedFor, PickerInv, PickerTyped
<1>5. jobs' \subseteq PeerLoops \X PieceIndex
  BY <1>1 DEF PickerInv, PickerTyped
<1> QED
  BY <1>1, <1>2, <1>3, <1>4, <1>5, VerdictKeeps

LEMMA PriorityKeeps ==
  ASSUME PickerInv, NEW f \in Files, NEW priority \in Skip .. High, setFilePriority(f, priority)
  PROVE  PickerInv'
<1> DEFINE priorities == [filePriority EXCEPT ![f] = priority]
           cache == [i \in PieceIndex |-> PriorityOf(priorities, i)]
<1>1. /\ filePriority' = priorities /\ piecePriorityCache' = cache
      /\ Recompute(pieceStates, cache)
      /\ UNCHANGED <<pieceStates, pieceAvailability, jobs, wire, owned, copies, noPick,
                     noPickRestricted, up, pickerPlan>>
  BY DEF setFilePriority, Spend
<1>2. PickerTyped /\ CountsRight
  BY DEF PickerInv
<1>3. priorities \in [Files -> Skip .. High]
  BY <1>2 DEF PickerTyped
<1>4. IndexRight' /\ moved' = PeerLoops
  <2> HIDE DEF cache
  <2> QED
    BY <1>1, Recomputed
<1>5. piecePriorityCache' = [i \in PieceIndex |-> PriorityOf(filePriority', i)]
  BY <1>1
<1> HIDE DEF priorities, cache
<1>6. PickerTyped'
  BY <1>1, <1>2, <1>3, <1>4, <1>5 DEF PickerTyped, wire
<1>7. CountsRight'
  BY <1>1, <1>2, CountsStay DEF wire
<1>8. PicksAreEmpty'
  BY <1>4, <1>6 DEF PicksAreEmpty, Untouched, Trusts, PickerTyped
<1> QED
  BY <1>4, <1>6, <1>7, <1>8 DEF PickerInv

LEMMA DisconnectKeeps ==
  ASSUME PickerInv, NEW c \in PeerLoops, Disconnect(c)
  PROVE  PickerInv'
<1>1. /\ pickerPlan' = pickerPlan /\ up' = up \ {c} /\ Release(owned[c])
      /\ owned' = [owned EXCEPT ![c] = {}] /\ copies' = [copies EXCEPT ![c] = {}]
      /\ UNCHANGED <<jobs, wire, noPick, noPickRestricted>>
  BY DEF Disconnect, Spend
<1>2. PickerTyped /\ IndexRight /\ CountsRight
  BY DEF PickerInv
<1>3. owned[c] \in SUBSET PieceIndex
  BY <1>2 DEF PickerTyped
<1>4. /\ IndexRight' /\ pieceStates' \in [PieceIndex -> PieceStatus] /\ PicksEndedFor
      /\ UNCHANGED <<filePriority, piecePriorityCache, pieceAvailability>>
  BY <1>1, <1>2, <1>3, Released
<1>5. CountsRight'
  BY <1>1, <1>2, <1>4, CountsStay DEF wire
<1>6. PickerTyped'
  BY <1>1, <1>2, <1>4 DEF PickerTyped, PicksEndedFor, wire
<1>7. up' \subseteq PeerLoops /\ up' \subseteq up /\ \A d \in PeerLoops : CanRequest(d)' = CanRequest(d)
  BY <1>1, <1>2 DEF PickerTyped, CanRequest, wire
<1>8. PicksAreEmpty'
  BY <1>1, <1>4, <1>7, PicksKept DEF PickerInv, wire
<1> QED
  BY <1>4, <1>5, <1>6, <1>8 DEF PickerInv

LEMMA LeaveKeeps ==
  ASSUME PickerInv, NEW c \in PeerLoops, Leave(c)
  PROVE  PickerInv'
<1> DEFINE fewer == IF peerIsSeed[c] THEN {} ELSE peerBitfield[c]
<1>1. /\ up' = up \cup {c} /\ ChangeAvailability({}, fewer)
      /\ peerBitfield' = [peerBitfield EXCEPT ![c] = {}]
      /\ peerIsSeed' = [peerIsSeed EXCEPT ![c] = FALSE]
      /\ announced' = [announced EXCEPT ![c] = FALSE]
      /\ choked' = [choked EXCEPT ![c] = TRUE]
      /\ peerAllowedFast' = [peerAllowedFast EXCEPT ![c] = {}]
      /\ peerRejectedPieces' = [peerRejectedPieces EXCEPT ![c] = {}]
      /\ noPick' = [noPick EXCEPT ![c] = FALSE]
      /\ noPickRestricted' = [noPickRestricted EXCEPT ![c] = FALSE]
      /\ UNCHANGED <<jobs, owned, copies, moved, pickerPlan>>
  BY DEF Leave
<1>2. PickerTyped /\ IndexRight /\ CountsRight
  BY DEF PickerInv
<1>3. fewer \in SUBSET PieceIndex /\ {} \in SUBSET PieceIndex
  BY <1>2 DEF PickerTyped
<1>4. \A d \in PeerLoops \ {c} : peerIsSeed'[d] = peerIsSeed[d] /\ peerBitfield'[d] = peerBitfield[d]
  BY <1>1, <1>2 DEF PickerTyped
<1>5. \A j \in PieceIndex : /\ j \in {} \ fewer <=> c \in HasIt(j)' /\ c \notin HasIt(j)
                            /\ j \in fewer \ {} <=> c \in HasIt(j) /\ c \notin HasIt(j)'
  BY <1>1, <1>2 DEF HasIt, PickerTyped
<1> HIDE DEF fewer
<1>6. \A j \in PieceIndex : pieceAvailability'[j] = Holders(j)'
  BY <1>1, <1>2, <1>3, <1>4, <1>5, CountsFollow
<1>7. /\ IndexRight' /\ pieceAvailability' \in [PieceIndex -> Nat]
      /\ UNCHANGED <<pieceStates, filePriority, piecePriorityCache, neededPieces>>
      /\ \A j \in PieceIndex : Candidate(j)' <=> Candidate(j)
  BY <1>1, <1>2, <1>3, CountsChange
<1>8. CountsRight'
  BY <1>1, <1>2, <1>6 DEF CountsRight, PickerTyped
<1>9. PickerTyped'
  BY <1>1, <1>2, <1>7 DEF PickerTyped
<1>10. \A d \in PeerLoops \ {c} : CanRequest(d)' = CanRequest(d)
                                  /\ noPick'[d] = noPick[d] /\ noPickRestricted'[d] = noPickRestricted[d]
  BY <1>1, <1>2, <1>4 DEF CanRequest, PickerTyped
<1>11. ~noPick'[c]
  BY <1>1, <1>2 DEF PickerTyped
<1>12. PicksAreEmpty'
  BY <1>1, <1>2, <1>4, <1>7, <1>10, <1>11, NothingEnds, OthersPicks
<1> QED
  BY <1>7, <1>8, <1>9, <1>12 DEF PickerInv

----------------------------------------------------------------------------
(* The theorems *)

LEMMA PickerStarts == PickerInit => PickerInv
<1> SUFFICES ASSUME PickerInit PROVE PickerInv
  OBVIOUS
<1>1. filePriority \in [Files -> Skip .. High]
  BY DEF PickerInit, Skip, High
<1>2. piecePriorityCache = [i \in PieceIndex |-> PriorityOf(filePriority, i)]
  <2>1. ASSUME NEW i \in PieceIndex PROVE PriorityOf(filePriority, i) = 2
    <3>1. FilesOf[i] \in SUBSET Files /\ FilesOf[i] # {}
      BY PickerConstants
    <3>2. {filePriority[f] : f \in FilesOf[i]} = {2}
      BY <3>1 DEF PickerInit
    <3>3. Max({2}) = 2
      BY DEF Max
    <3> QED
      BY <3>2, <3>3 DEF PriorityOf
  <2> QED
    BY <2>1 DEF PickerInit
<1>3. PickerTyped
  BY <1>1, <1>2 DEF PickerInit, PickerTyped, PieceStatus
<1>4. IndexRight
  <2>1. neededPieces = PieceIndex /\ \A i \in PieceIndex : Candidate(i)
    BY DEF PickerInit, Candidate, isPieceWanted, Skip
  <2>2. neededBuckets = Filed(PieceIndex, piecePriorityCache, pieceAvailability)
    <3>1. [i \in PieceIndex |-> IF i \in PieceIndex THEN <<piecePriorityCache[i], pieceAvailability[i]>> ELSE <<>>]
            = [i \in PieceIndex |-> <<2, 0>>]
      BY DEF PickerInit
    <3>2. {<<piecePriorityCache[i], pieceAvailability[i], i>> : i \in PieceIndex} = {<<2, 0, i>> : i \in PieceIndex}
      BY DEF PickerInit
    <3> QED
      BY <3>1, <3>2 DEF PickerInit, Filed
  <2> QED
    BY <2>1, <2>2 DEF IndexRight
<1>5. CountsRight
  <2>1. ASSUME NEW i \in PieceIndex PROVE pieceAvailability[i] = Holders(i)
    <3>1. {c \in PeerLoops : ~peerIsSeed[c] /\ i \in peerBitfield[c]} = {}
      BY DEF PickerInit
    <3> QED
      BY <3>1, FS_EmptySet DEF Holders, PickerInit
  <2> QED
    BY <2>1 DEF CountsRight, PickerInit
<1>6. PicksAreEmpty
  BY DEF PickerInit, PicksAreEmpty, Untouched, Trusts
<1> QED
  BY <1>3, <1>4, <1>5, <1>6 DEF PickerInv

LEMMA PickerSteps == PickerInv /\ [PickerNext]_pickerVars => PickerInv'
<1> SUFFICES ASSUME PickerInv, [PickerNext]_pickerVars PROVE PickerInv'
  OBVIOUS
<1>1. pickerPlan.conns \subseteq PeerLoops /\ pickerPlan.bitfields \subseteq SUBSET PieceIndex
      /\ pickerPlan.priorities \subseteq Skip .. High
  BY PickerConstants DEF PickerInv, PickerTyped
<1>2. ASSUME NEW c \in pickerPlan.conns, Pick(c) \/ PickRetry(c) PROVE PickerInv'
  BY <1>1, <1>2, PickSteps
<1>3. ASSUME NEW c \in pickerPlan.conns, TakeChoke(c) PROVE PickerInv'
  BY <1>1, <1>3, ChokeKeeps
<1>4. ASSUME NEW c \in pickerPlan.conns, TakeUnchoke(c) PROVE PickerInv'
  BY <1>1, <1>4, UnchokeKeeps
<1>5. ASSUME NEW c \in pickerPlan.conns, dropCompletedElsewhere(c) PROVE PickerInv'
  <2>1. jobs' \subseteq PeerLoops \X PieceIndex
    BY <1>5 DEF dropCompletedElsewhere, PickerInv, PickerTyped
  <2> QED
    BY <1>1, <1>5, <2>1, DropKeeps DEF dropCompletedElsewhere
<1>6. ASSUME NEW c \in pickerPlan.conns, Disconnect(c) PROVE PickerInv'
  BY <1>1, <1>6, DisconnectKeeps
<1>7. ASSUME NEW c \in pickerPlan.conns, Leave(c) PROVE PickerInv'
  BY <1>1, <1>7, LeaveKeeps
<1>8. ASSUME NEW c \in pickerPlan.conns, NEW i \in PieceIndex, TakeHave(c, i) PROVE PickerInv'
  BY <1>1, <1>8, HaveKeeps
<1>9. ASSUME NEW c \in pickerPlan.conns, NEW i \in PieceIndex, TakeAllowedFast(c, i) PROVE PickerInv'
  BY <1>1, <1>9, AllowedFastKeeps
<1>10. ASSUME NEW c \in pickerPlan.conns, NEW i \in PieceIndex, TakeReject(c, i) PROVE PickerInv'
  BY <1>1, <1>10, RejectKeeps
<1>11. ASSUME NEW c \in pickerPlan.conns, NEW i \in PieceIndex, Assemble(c, i) PROVE PickerInv'
  <2>1. jobs' \subseteq PeerLoops \X PieceIndex
    BY <1>1, <1>11 DEF Assemble, PickerInv, PickerTyped
  <2> QED
    BY <1>1, <1>11, <2>1, DropKeeps DEF Assemble
<1>12. ASSUME NEW c \in pickerPlan.conns, NEW i \in PieceIndex, Written(c, i) \/ HandedBack(c, i) PROVE PickerInv'
  BY <1>1, <1>12, WrittenKeeps
<1>13. ASSUME NEW c \in pickerPlan.conns, NEW i \in PieceIndex, Repaired(c, i) PROVE PickerInv'
  BY <1>1, <1>13, RepairedKeeps
<1>14. ASSUME NEW c \in pickerPlan.conns, NEW S \in pickerPlan.bitfields, TakeBitfield(c, S) PROVE PickerInv'
  BY <1>1, <1>14, BitfieldKeeps
<1>15. ASSUME NEW f \in Files, NEW priority \in pickerPlan.priorities, setFilePriority(f, priority) PROVE PickerInv'
  BY <1>1, <1>15, PriorityKeeps
<1>16. CASE UNCHANGED pickerVars
  <2>1. UNCHANGED pickSession /\ UNCHANGED wire
        /\ UNCHANGED <<jobs, owned, copies, noPick, noPickRestricted, up, moved, pickerPlan>>
    BY <1>16 DEF pickerVars
  <2>2. IndexRight' /\ \A j \in PieceIndex : Candidate(j)' <=> Candidate(j)
    BY <2>1, SessionKept
  <2>3. PicksEndedFor
    BY <2>1, <2>2, NothingEnds DEF PickerInv
  <2>4. jobs' \subseteq PeerLoops \X PieceIndex /\ pieceStates' \in [PieceIndex -> PieceStatus]
    BY <2>1 DEF PickerInv, PickerTyped, pickSession
  <2> QED
    BY <2>1, <2>2, <2>3, <2>4, VerdictKeeps DEF pickSession
<1> QED
  BY <1>2, <1>3, <1>4, <1>5, <1>6, <1>7, <1>8, <1>9, <1>10, <1>11, <1>12, <1>13, <1>14, <1>15, <1>16
     DEF PickerNext

\* In a state where the invariant holds a piece may be picked where it is a
\* candidate that the peer can be asked for.
LEMMA PickableIs ==
  ASSUME PickerInv, NEW c \in PeerLoops
  PROVE  /\ CanRequest(c) \in SUBSET PieceIndex
         /\ \A i \in PieceIndex : i \in Pickable(c) <=> i \in CanRequest(c) /\ Candidate(i)
         /\ \A i \in PieceIndex : Rank(i) = <<piecePriorityCache[i], pieceAvailability[i], i>>
         /\ Pickable(c) \subseteq PieceIndex
<1>1. CanRequest(c) \in SUBSET PieceIndex
  BY DEF PickerInv, PickerTyped, CanRequest
<1>2. \A i \in PieceIndex : piecePriorityCache[i] = PriorityOf(filePriority, i) /\ pieceAvailability[i] = Holders(i)
  BY DEF PickerInv, PickerTyped, CountsRight
<1> QED
  BY <1>1, <1>2 DEF Pickable, Candidate, isPieceWanted, Rank

LEMMA InvPicks == PickerInv => PicksTheRarest
<1> SUFFICES ASSUME PickerInv PROVE PicksTheRarest
  OBVIOUS
<1>1. neededPieces \in SUBSET PieceIndex /\ neededBuckets.total = Cardinality(neededPieces)
  BY DEF PickerInv, IndexRight, Filed
<1>2. PickerTypeOK
  <2>1. neededBuckets.total \in 0 .. Cardinality(PieceIndex)
    <3>1. /\ Cardinality(neededPieces) \in Nat /\ Cardinality(PieceIndex) \in Nat
          /\ Cardinality(neededPieces) <= Cardinality(PieceIndex)
      BY <1>1, PickerConstants, FS_Subset, FS_CardinalityType
    <3>2. neededBuckets.total = Cardinality(neededPieces)
      BY <1>1
    <3> QED
      BY <3>1, <3>2
  <2>2. ASSUME NEW i \in PieceIndex PROVE pieceAvailability[i] \in 0 .. Cardinality(PeerLoops)
    <3>1. HasIt(i) \in SUBSET PeerLoops /\ pieceAvailability[i] = Cardinality(HasIt(i))
      BY DEF HasIt, PickerInv, CountsRight, Holders
    <3> QED
      BY <3>1, PickerConstants, FS_Subset, FS_CardinalityType
  <2>3. pieceAvailability \in [PieceIndex -> 0 .. Cardinality(PeerLoops)]
    BY <2>2 DEF PickerInv, PickerTyped
  <2>4. \A c \in PeerLoops : Mine(c) \cup peerRejectedPieces[c] \subseteq PieceIndex
    BY DEF PickerInv, PickerTyped, Mine
  <2> QED
    BY <1>1, <2>1, <2>3, <2>4 DEF PickerTypeOK, PickerInv, PickerTyped, PieceStatus
<1>3. ASSUME NEW c \in up
      PROVE  LET piece == firstMatch(CanRequest(c)).piece
             IN IF Pickable(c) = {} THEN piece = None
                ELSE /\ piece \in Pickable(c)
                     /\ \A j \in Pickable(c) \ {piece} : Before(Rank(piece), Rank(j))
  <2> DEFINE piece == firstMatch(CanRequest(c)).piece
  <2>1. c \in PeerLoops /\ PickerTyped /\ IndexRight
    BY DEF PickerInv, PickerTyped
  <2>2. /\ CanRequest(c) \in SUBSET PieceIndex
        /\ \A i \in PieceIndex : i \in Pickable(c) <=> i \in CanRequest(c) /\ Candidate(i)
        /\ \A i \in PieceIndex : Rank(i) = <<piecePriorityCache[i], pieceAvailability[i], i>>
        /\ Pickable(c) \subseteq PieceIndex
    BY <2>1, PickableIs
  <2>3. /\ (\A i \in CanRequest(c) : ~Candidate(i)) => piece = None
        /\ (\E i \in CanRequest(c) : Candidate(i)) =>
             /\ piece \in CanRequest(c) /\ Candidate(piece)
             /\ \A j \in CanRequest(c) \ {piece} : Candidate(j) =>
                  Before(<<piecePriorityCache[piece], pieceAvailability[piece], piece>>,
                         <<piecePriorityCache[j], pieceAvailability[j], j>>)
    BY <2>1, <2>2, WalkFinds
  <2> HIDE DEF piece
  <2>4. CASE Pickable(c) = {}
    <3>1. piece = None
      BY <2>2, <2>3, <2>4
    <3> QED
      BY <2>4, <3>1 DEF piece
  <2>5. CASE Pickable(c) # {}
    <3>1. /\ piece \in CanRequest(c) /\ Candidate(piece)
          /\ \A j \in CanRequest(c) \ {piece} : Candidate(j) =>
               Before(<<piecePriorityCache[piece], pieceAvailability[piece], piece>>,
                      <<piecePriorityCache[j], pieceAvailability[j], j>>)
      BY <2>2, <2>3, <2>5
    <3>2. piece \in Pickable(c) /\ \A j \in Pickable(c) \ {piece} : Before(Rank(piece), Rank(j))
      BY <2>2, <3>1
    <3> QED
      BY <2>5, <3>2 DEF piece
  <2> QED
    BY <2>4, <2>5
<1> QED
  BY <1>1, <1>2, <1>3 DEF PicksTheRarest

LEMMA InvEmpty == PickerInv => EmptyPickStands
<1> SUFFICES ASSUME PickerInv, NEW c \in up, Trusts(c) PROVE Pickable(c) = {}
  BY DEF EmptyPickStands
<1>1. c \in PeerLoops /\ Untouched(c)
  BY DEF PickerInv, PickerTyped, PicksAreEmpty
<1>2. \A i \in PieceIndex : Candidate(i) => i \notin CanRequest(c)
  BY <1>1 DEF Untouched
<1> QED
  BY <1>1, <1>2, PickableIs

\* Whatever pieces, files and connections there are and whatever they did
\* before: the walk over the buckets finds the piece selectNeededPieceLocked
\* documents, and the index has each needed piece once, under its priority and
\* the number of connections counted for it (piece_picker.go:393).
THEOREM RarestPicked == PickerSpec => []PicksTheRarest
<1>1. PickerInit => PickerInv
  BY PickerStarts
<1>2. PickerInv /\ [PickerNext]_pickerVars => PickerInv'
  BY PickerSteps
<1>3. PickerInv => PicksTheRarest
  BY InvPicks
<1> QED
  BY <1>1, <1>2, <1>3, PTL DEF PickerSpec

\* And a connection that trusts its last, empty pick has nothing to claim:
\* what it could claim since has moved pickGen or cleared its noPick
\* (peer_conn.go:2040).
THEOREM EmptyPicksStand == PickerSpec => []EmptyPickStands
<1>1. PickerInit => PickerInv
  BY PickerStarts
<1>2. PickerInv /\ [PickerNext]_pickerVars => PickerInv'
  BY PickerSteps
<1>3. PickerInv => EmptyPickStands
  BY InvEmpty
<1> QED
  BY <1>1, <1>2, <1>3, PTL DEF PickerSpec
=============================================================================
