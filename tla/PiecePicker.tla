------------------------------ MODULE PiecePicker ------------------------------
(***************************************************************************)
(* How a peer loop chooses its next piece (pkg/downloader/piece_picker.go, *)
(* and pump and openNewPiece of peer_conn.go).                             *)
(*                                                                         *)
(* The session indexes the needed pieces, the empty wanted ones, in one    *)
(* bucket per file priority and swarm availability, and every change of a  *)
(* piece state, a peer's pieces or a file's priority keeps the index       *)
(* current.  A connection that found nothing to pick remembers it          *)
(* (noPick) and skips the picker until pickGen moves or its own side       *)
(* changes.                                                                *)
(*                                                                         *)
(* One action per critical section of Session.mu.  A bucket is the set of  *)
(* the pieces under one <<priority, availability>>; the heap inside it and *)
(* its lazy removals only make its least piece cheap to find.              *)
(***************************************************************************)
EXTENDS Integers, FiniteSets, FiniteSetsExt

CONSTANTS
  PeerLoops,    \* the connections of a session
  Files,
  FilesOf,      \* FilesOf[i]: the files piece i overlaps
  PieceCap,     \* pieces a connection may hold open
  CopyLimit,    \* endgameCopyLimit
  PickerPlans   \* bounds, of Pickings

PieceIndex == DOMAIN FilesOf
Skip == 0
High == 3
None == -1

\* Who may act, the bitfields sent and the priorities set, and how many events of each kind.
Pickings ==
  [conns : SUBSET PeerLoops, bitfields : SUBSET SUBSET PieceIndex, priorities : SUBSET (Skip .. High),
   budget : [announce : Nat, choke : Nat, reject : Nat, disconnect : Nat, priority : Nat,
             fail : Nat, repair : Nat]]

ASSUME PickerAssumption ==
  /\ IsFiniteSet(PeerLoops) /\ IsFiniteSet(PieceIndex) /\ PieceIndex \subseteq Nat
  /\ FilesOf \in [PieceIndex -> (SUBSET Files) \ {{}}]
  /\ PieceCap \in Nat /\ CopyLimit \in Nat
  /\ PickerPlans \subseteq Pickings

VARIABLES
  \* Session
  pieceStates, filePriority, piecePriorityCache,
  neededPieces, neededBuckets, pieceAvailability,
  jobs,         \* <<c, i>>: piece i from c is with the write pool
  \* peer loops
  peerBitfield, peerIsSeed, announced,
  choked, peerAllowedFast, peerRejectedPieces,
  owned, copies,      \* activeDownloads: pieces claimed, and endgame copies
  noPick, noPickRestricted,
  up,           \* connections whose loop runs
  moved,        \* connections whose noPickGen is no longer pickGen
  \* bounds
  pickerPlan, pickerBudget

pickSession == <<pieceStates, filePriority, piecePriorityCache, neededPieces, neededBuckets,
                 pieceAvailability>>
wire == <<peerBitfield, peerIsSeed, announced, choked, peerAllowedFast,
          peerRejectedPieces>>
pickerVars == <<pickSession, jobs, wire, owned, copies, noPick, noPickRestricted, up, moved,
                pickerPlan, pickerBudget>>

\* Bounds: a run does each kind of event at most as often as its plan allows.
Spend(kind) ==
  /\ pickerBudget[kind] > 0
  /\ pickerBudget' = [pickerBudget EXCEPT ![kind] = @ - 1]
  /\ UNCHANGED pickerPlan

-----------------------------------------------------------------------------
\* The buckets.  refs[i] is the bucket piece i is filed under; add, remove and
\* move are the code's for each piece of S, filed by these priorities and counts.

add(b, S, cache, counts) ==
  LET filed == {i \in S : b.refs[i] = <<>> /\ cache[i] \in Skip + 1 .. High}
  IN [refs |-> [i \in PieceIndex |-> IF i \in filed THEN <<cache[i], counts[i]>> ELSE b.refs[i]],
      members |-> b.members \cup {<<cache[i], counts[i], i>> : i \in filed},
      total |-> b.total + Cardinality(filed)]

remove(b, S) ==
  LET gone == {i \in S : b.refs[i] # <<>>}
  IN [refs |-> [i \in PieceIndex |-> IF i \in gone THEN <<>> ELSE b.refs[i]],
      members |-> b.members \ {<<b.refs[i][1], b.refs[i][2], i>> : i \in gone},
      total |-> b.total - Cardinality(gone)]

move(b, S, cache, counts) ==
  LET valid == {i \in S : cache[i] \in Skip + 1 .. High}
  IN add(remove(b, valid), valid, cache, counts)

\* Highest priority first, then the rarest, then the lowest index.
Before(s, t) ==
  \/ s[1] > t[1]
  \/ s[1] = t[1] /\ s[2] < t[2]
  \/ s[1] = t[1] /\ s[2] = t[2] /\ s[3] < t[3]

isPieceWanted(i) == piecePriorityCache[i] # Skip
Candidate(i) == pieceStates[i] = "empty" /\ isPieceWanted(i)

\* The walk over the buckets: what is no candidate any more is dropped on the
\* way, the first piece in has ends it.
firstMatch(has) ==
  LET fits == {t \in neededBuckets.members : Candidate(t[3]) /\ t[3] \in has}
      best == CHOOSE t \in fits : \A u \in fits \ {t} : Before(t, u)
      stale == {t \in neededBuckets.members :
                  ~Candidate(t[3]) /\ (fits = {} \/ Before(t, best))}
  IN [piece |-> IF fits = {} THEN None ELSE best[3],
      dropped |-> {t[3] : t \in stale}]

\* rebuildPieceCachesLocked: the highest priority of a file the piece overlaps.
PriorityOf(priorities, i) == Max({priorities[f] : f \in FilesOf[i]})

-----------------------------------------------------------------------------
\* Session.mu: the index and what keeps it current.

\* recomputeNeededLocked, over the states and the cached priorities it finds.
Recompute(states, cache) ==
  LET needed == {i \in PieceIndex : states[i] = "empty" /\ cache[i] # Skip}
  IN /\ neededPieces' = needed
     /\ neededBuckets' =
          [refs |-> [i \in PieceIndex |-> IF i \in needed
                                      THEN <<cache[i], pieceAvailability[i]>>
                                      ELSE <<>>],
           members |-> {<<cache[i], pieceAvailability[i], i>> : i \in needed},
           total |-> Cardinality(needed)]
     /\ moved' = PeerLoops

\* setPieceStateLocked for each piece of D: addNeededLocked where it becomes
\* empty, removeNeededLocked where it stops being so.
\* A piece that is needed again ends every empty pick; a variant forgets it.
NobodyMoves(joins) == moved
MovedBy(joins) == IF joins # {} THEN PeerLoops ELSE moved

SetPieceStates(D, state) ==
  LET changed == {i \in D : pieceStates[i] # state}
      joins == {i \in changed : isPieceWanted(i)} \ neededPieces
      leaves == changed \cap neededPieces
  IN /\ pieceStates' = [i \in PieceIndex |-> IF i \in D THEN state ELSE pieceStates[i]]
     /\ IF state = "empty"
        THEN /\ neededPieces' = neededPieces \cup joins
             /\ neededBuckets' = add(neededBuckets, joins, piecePriorityCache, pieceAvailability)
             /\ moved' = MovedBy(joins)
        ELSE /\ neededPieces' = neededPieces \ leaves
             /\ neededBuckets' = remove(neededBuckets, leaves)
             /\ moved' = IF leaves # {} /\ neededPieces \subseteq leaves
                         THEN PeerLoops ELSE moved
     /\ UNCHANGED <<filePriority, piecePriorityCache, pieceAvailability>>

\* changePieceAvailabilityLocked: one more for the pieces of more, one less for
\* those of fewer.
\* A variant: the counts change and the index is left behind.
CountsOnly(more, fewer) ==
  /\ pieceAvailability' = [i \in PieceIndex |->
        Max({0, pieceAvailability[i] + (IF i \in more THEN 1 ELSE 0)
                                     - (IF i \in fewer THEN 1 ELSE 0)})]
  /\ UNCHANGED <<pieceStates, filePriority, piecePriorityCache, neededPieces, neededBuckets>>

ChangeAvailability(more, fewer) ==
  LET count == [i \in PieceIndex |->
        Max({0, pieceAvailability[i] + (IF i \in more THEN 1 ELSE 0)
                                     - (IF i \in fewer THEN 1 ELSE 0)})]
  IN /\ pieceAvailability' = count
     /\ neededBuckets' = move(neededBuckets, (more \cup fewer) \cap neededPieces,
                               piecePriorityCache, count)
     /\ UNCHANGED <<pieceStates, filePriority, piecePriorityCache, neededPieces>>

setFilePriority(f, priority) ==
  LET priorities == [filePriority EXCEPT ![f] = priority]
      cache == [i \in PieceIndex |-> PriorityOf(priorities, i)]
  IN /\ filePriority[f] # priority
     /\ Spend("priority")
     /\ filePriority' = priorities
     /\ piecePriorityCache' = cache
     /\ Recompute(pieceStates, cache)
     /\ UNCHANGED <<pieceStates, pieceAvailability, jobs, wire, owned, copies,
                    noPick, noPickRestricted, up>>

\* resetProgressAfterStorageRepair: only the piece just written survives.
resetProgressAfterStorageRepair(i) ==
  LET states == [j \in PieceIndex |-> IF j = i THEN "completed" ELSE "empty"]
  IN /\ Spend("repair")
     /\ pieceStates' = states
     /\ Recompute(states, piecePriorityCache)
     /\ UNCHANGED <<filePriority, piecePriorityCache, pieceAvailability, wire,
                    owned, copies, noPick, noPickRestricted, up>>

-----------------------------------------------------------------------------
\* The peer loop.

Mine(c) == owned[c] \cup copies[c]

\* canRequestPiece.
CanRequest(c) ==
  {i \in peerBitfield[c] \ peerRejectedPieces[c] :
     choked[c] => i \in peerAllowedFast[c]}

Endgame == neededPieces = {}

hasAllowedFastWork(c) ==
  \E i \in (peerAllowedFast[c] \cap peerBitfield[c]) \ peerRejectedPieces[c] :
    /\ isPieceWanted(i)
    /\ pieceStates[i] = "empty" \/ (pieceStates[i] = "downloading" /\ Endgame)

\* The copy selectEndgamePieceLocked takes among those it may take.
Copyable(c) ==
  IF Cardinality(copies[c]) >= CopyLimit THEN {}
  ELSE {i \in CanRequest(c) \ Mine(c) :
          pieceStates[i] = "downloading" /\ isPieceWanted(i)}
BestCopy(c) ==
  CHOOSE i \in Copyable(c) : \A j \in Copyable(c) \ {i} :
    Before(<<piecePriorityCache[i], pieceAvailability[i], i>>,
           <<piecePriorityCache[j], pieceAvailability[j], j>>)

\* openNewPiece: a needed piece, an endgame copy, or nothing, which is
\* remembered.
openNewPiece(c) ==
  LET m == firstMatch(CanRequest(c))
      needed == neededPieces \ m.dropped
      buckets == remove(neededBuckets, m.dropped)
      shrunk == m.dropped # {} /\ needed = {}
  IN /\ IF m.piece # None
        THEN /\ neededPieces' = needed \ {m.piece}
             /\ neededBuckets' = remove(buckets, {m.piece})
             /\ pieceStates' = [pieceStates EXCEPT ![m.piece] = "downloading"]
             /\ owned' = [owned EXCEPT ![c] = @ \cup {m.piece}]
             /\ moved' = IF needed = {m.piece} THEN PeerLoops ELSE moved
             /\ UNCHANGED <<copies, noPick, noPickRestricted>>
        ELSE /\ neededPieces' = needed
             /\ neededBuckets' = buckets
             /\ UNCHANGED <<pieceStates, owned>>
             /\ IF needed = {} /\ Copyable(c) # {}
                THEN /\ copies' = [copies EXCEPT ![c] = @ \cup {BestCopy(c)}]
                     /\ moved' = IF shrunk THEN PeerLoops ELSE moved
                     /\ UNCHANGED <<noPick, noPickRestricted>>
                ELSE /\ noPick' = [noPick EXCEPT ![c] = TRUE]
                     /\ noPickRestricted' = [noPickRestricted EXCEPT ![c] =
                          choked[c] \/ peerRejectedPieces[c] # {}]
                     /\ moved' = (IF shrunk THEN PeerLoops ELSE moved) \ {c}
                     /\ UNCHANGED copies
     /\ UNCHANGED <<filePriority, piecePriorityCache, pieceAvailability>>

Pumps(c) ==
  /\ c \in up
  /\ Cardinality(Mine(c)) < PieceCap
  /\ choked[c] => owned[c] # {} \/ hasAllowedFastWork(c)

\* pump reaching for another piece, unless the last empty pick still stands.
Pick(c) ==
  /\ Pumps(c)
  /\ ~(noPick[c] /\ c \notin moved)
  /\ openNewPiece(c)
  /\ UNCHANGED <<jobs, wire, up, pickerPlan, pickerBudget>>

\* The backstop: after pickRetryInterval the empty pick is tried again.
PickRetry(c) ==
  /\ Pumps(c)
  /\ noPick[c] /\ c \notin moved
  /\ openNewPiece(c)
  /\ UNCHANGED <<jobs, wire, up, pickerPlan, pickerBudget>>

\* The peer announces one more piece.
TakeHave(c, i) ==
  /\ c \in up
  /\ i \notin peerBitfield[c]
  /\ Spend("announce")
  /\ peerBitfield' = [peerBitfield EXCEPT ![c] = @ \cup {i}]
  /\ IF peerIsSeed[c] THEN UNCHANGED pickSession ELSE ChangeAvailability({i}, {})
  /\ noPick' = [noPick EXCEPT ![c] = FALSE]
  /\ UNCHANGED <<jobs, peerIsSeed, announced, choked, peerAllowedFast,
                 peerRejectedPieces, owned, copies, noPickRestricted, up, moved>>

\* Its bitfield, counted only once; a seed leaves the counts.
TakeBitfield(c, S) ==
  /\ c \in up
  /\ ~announced[c]
  /\ Spend("announce")
  /\ announced' = [announced EXCEPT ![c] = TRUE]
  /\ peerIsSeed' = [peerIsSeed EXCEPT ![c] = S = PieceIndex]
  /\ peerBitfield' = [peerBitfield EXCEPT ![c] = S]
  /\ IF S = PieceIndex THEN ChangeAvailability({}, peerBitfield[c])
     ELSE ChangeAvailability(S \ peerBitfield[c], peerBitfield[c] \ S)
  /\ noPick' = [noPick EXCEPT ![c] = FALSE]
  /\ UNCHANGED <<jobs, choked, peerAllowedFast, peerRejectedPieces, owned,
                 copies, noPickRestricted, up, moved>>

TakeAllowedFast(c, i) ==
  /\ c \in up
  /\ i \notin peerAllowedFast[c]
  /\ Spend("announce")
  /\ peerAllowedFast' = [peerAllowedFast EXCEPT ![c] = @ \cup {i}]
  /\ noPick' = [noPick EXCEPT ![c] = FALSE]
  /\ UNCHANGED <<pickSession, jobs, peerBitfield, peerIsSeed, announced, choked,
                 peerRejectedPieces, owned, copies, noPickRestricted, up,
                 moved>>

\* releaseDownloads: claimed pieces go back, copies are just given up.
Release(S) ==
  SetPieceStates({i \in S : pieceStates[i] = "downloading"}, "empty")

TakeChoke(c) ==
  /\ c \in up
  /\ ~choked[c]
  /\ Spend("choke")
  /\ choked' = [choked EXCEPT ![c] = TRUE]
  /\ owned' = [owned EXCEPT ![c] = @ \cap peerAllowedFast[c]]
  /\ copies' = [copies EXCEPT ![c] = {}]
  /\ Release(owned[c] \ peerAllowedFast[c])
  /\ UNCHANGED <<jobs, peerBitfield, peerIsSeed, announced, peerAllowedFast,
                 peerRejectedPieces, noPick, noPickRestricted, up>>

TakeUnchoke(c) ==
  /\ c \in up
  /\ choked[c]
  /\ choked' = [choked EXCEPT ![c] = FALSE]
  /\ peerRejectedPieces' = [peerRejectedPieces EXCEPT ![c] = {}]
  /\ noPick' = [noPick EXCEPT ![c] = @ /\ ~noPickRestricted[c]]
  /\ UNCHANGED <<pickSession, jobs, peerBitfield, peerIsSeed, announced,
                 peerAllowedFast, owned, copies, noPickRestricted, up, moved, pickerPlan,
                 pickerBudget>>

\* removeDownload.
Drop(c, S) ==
  /\ owned' = [owned EXCEPT ![c] = @ \ S]
  /\ copies' = [copies EXCEPT ![c] = @ \ S]
  /\ noPick' = [noPick EXCEPT ![c] = FALSE]

\* abandonRejectedDownload.
TakeReject(c, i) ==
  /\ i \in Mine(c)
  /\ Spend("reject")
  /\ peerRejectedPieces' = [peerRejectedPieces EXCEPT ![c] = @ \cup {i}]
  /\ Release(owned[c] \cap {i})
  /\ Drop(c, {i})
  /\ UNCHANGED <<jobs, peerBitfield, peerIsSeed, announced, choked,
                 peerAllowedFast, noPickRestricted, up>>

\* The last block: the piece goes to the write pool.
Assemble(c, i) ==
  /\ i \in Mine(c)
  /\ pieceStates[i] = "downloading"
  /\ Drop(c, {i})
  /\ jobs' = jobs \cup {<<c, i>>}
  /\ UNCHANGED <<pickSession, wire, noPickRestricted, up, moved, pickerPlan, pickerBudget>>

dropCompletedElsewhere(c) ==
  /\ \E i \in Mine(c) : pieceStates[i] # "downloading"
  /\ Drop(c, {i \in Mine(c) : pieceStates[i] # "downloading"})
  /\ UNCHANGED <<pickSession, jobs, wire, noPickRestricted, up, moved, pickerPlan,
                 pickerBudget>>

\* The write pool's verdicts: written, handed back, or written over a file the
\* storage had to repair.
Written(c, i) ==
  /\ <<c, i>> \in jobs
  /\ jobs' = jobs \ {<<c, i>>}
  /\ SetPieceStates({i}, "completed")
  /\ UNCHANGED <<wire, owned, copies, noPick, noPickRestricted, up, pickerPlan, pickerBudget>>

HandedBack(c, i) ==
  /\ <<c, i>> \in jobs
  /\ Spend("fail")
  /\ jobs' = jobs \ {<<c, i>>}
  /\ Release({i})
  /\ UNCHANGED <<wire, owned, copies, noPick, noPickRestricted, up>>

Repaired(c, i) ==
  /\ <<c, i>> \in jobs
  /\ jobs' = jobs \ {<<c, i>>}
  /\ resetProgressAfterStorageRepair(i)

\* The loop ends and its pieces go back ...
Disconnect(c) ==
  /\ c \in up
  /\ Spend("disconnect")
  /\ up' = up \ {c}
  /\ Release(owned[c])
  /\ owned' = [owned EXCEPT ![c] = {}]
  /\ copies' = [copies EXCEPT ![c] = {}]
  /\ UNCHANGED <<jobs, wire, noPick, noPickRestricted>>

\* ... then it leaves the counts; another connection may take its place.
Leave(c) ==
  /\ c \notin up
  /\ up' = up \cup {c}
  /\ ChangeAvailability({}, IF peerIsSeed[c] THEN {} ELSE peerBitfield[c])
  /\ peerBitfield' = [peerBitfield EXCEPT ![c] = {}]
  /\ peerIsSeed' = [peerIsSeed EXCEPT ![c] = FALSE]
  /\ announced' = [announced EXCEPT ![c] = FALSE]
  /\ choked' = [choked EXCEPT ![c] = TRUE]
  /\ peerAllowedFast' = [peerAllowedFast EXCEPT ![c] = {}]
  /\ peerRejectedPieces' = [peerRejectedPieces EXCEPT ![c] = {}]
  /\ noPick' = [noPick EXCEPT ![c] = FALSE]
  /\ noPickRestricted' = [noPickRestricted EXCEPT ![c] = FALSE]
  /\ UNCHANGED <<jobs, owned, copies, moved, pickerPlan, pickerBudget>>

PickerInit ==
  /\ pickerPlan \in PickerPlans
  /\ pickerBudget = pickerPlan.budget
  /\ pieceStates = [i \in PieceIndex |-> "empty"]
  /\ filePriority = [f \in Files |-> 2]
  /\ piecePriorityCache = [i \in PieceIndex |-> 2]
  /\ neededPieces = PieceIndex
  /\ neededBuckets = [refs |-> [i \in PieceIndex |-> <<2, 0>>],
                      members |-> {<<2, 0, i>> : i \in PieceIndex},
                      total |-> Cardinality(PieceIndex)]
  /\ pieceAvailability = [i \in PieceIndex |-> 0]
  /\ jobs = {}
  /\ peerBitfield = [c \in PeerLoops |-> {}]
  /\ peerIsSeed = [c \in PeerLoops |-> FALSE]
  /\ announced = [c \in PeerLoops |-> FALSE]
  /\ choked = [c \in PeerLoops |-> TRUE]
  /\ peerAllowedFast = [c \in PeerLoops |-> {}]
  /\ peerRejectedPieces = [c \in PeerLoops |-> {}]
  /\ owned = [c \in PeerLoops |-> {}]
  /\ copies = [c \in PeerLoops |-> {}]
  /\ noPick = [c \in PeerLoops |-> FALSE]
  /\ noPickRestricted = [c \in PeerLoops |-> FALSE]
  /\ up = PeerLoops
  /\ moved = {}

PickerNext ==
  \/ \E c \in pickerPlan.conns :
       \/ Pick(c) \/ PickRetry(c) \/ TakeChoke(c) \/ TakeUnchoke(c)
       \/ dropCompletedElsewhere(c) \/ Disconnect(c)
       \/ Leave(c)
       \/ \E i \in PieceIndex :
            \/ TakeHave(c, i) \/ TakeAllowedFast(c, i) \/ TakeReject(c, i)
            \/ Assemble(c, i) \/ Written(c, i) \/ HandedBack(c, i)
            \/ Repaired(c, i)
       \/ \E S \in pickerPlan.bitfields : TakeBitfield(c, S)
  \/ \E f \in Files, priority \in pickerPlan.priorities : setFilePriority(f, priority)

PickerSpec == PickerInit /\ [][PickerNext]_pickerVars

-----------------------------------------------------------------------------
(***************************************************************************)
(* Properties                                                              *)
(***************************************************************************)

\* Sets of pieces, the index and its counters are what the code declares.
PickerTypeOK ==
  /\ pieceStates \in [PieceIndex -> {"empty", "downloading", "completed"}]
  /\ neededPieces \subseteq PieceIndex
  /\ neededBuckets.total \in 0 .. Cardinality(PieceIndex)
  /\ pieceAvailability \in [PieceIndex -> 0 .. Cardinality(PeerLoops)]
  /\ \A c \in PeerLoops : Mine(c) \cup peerRejectedPieces[c] \subseteq PieceIndex

\* What selectNeededPieceLocked documents, from the states themselves: the
\* empty wanted piece of the highest file priority, then held by the fewest
\* counted peers, then the lowest.
Holders(i) == Cardinality({c \in PeerLoops : ~peerIsSeed[c] /\ i \in peerBitfield[c]})
Rank(i) == <<PriorityOf(filePriority, i), Holders(i), i>>
Pickable(c) ==
  {i \in CanRequest(c) :
     pieceStates[i] = "empty" /\ PriorityOf(filePriority, i) # Skip}

\* The types hold, and whatever haves, disconnects, deselections, hand-backs and repairs came
\* before, the walk over the buckets finds exactly the piece the documentation
\* promises, for every connection: no piece is lost from the index, none stays
\* under a priority or a rarity it no longer has.
PicksTheRarest ==
  /\ PickerTypeOK
  /\ neededBuckets.total = Cardinality(neededPieces)
  /\ \A c \in up :
    LET piece == firstMatch(CanRequest(c)).piece
    IN IF Pickable(c) = {} THEN piece = None
       ELSE /\ piece \in Pickable(c)
            /\ \A j \in Pickable(c) \ {piece} : Before(Rank(piece), Rank(j))

Trusts(c) == noPick[c] /\ c \notin moved

\* A connection that skips the picker because its last pick was empty really
\* has no needed piece to claim: every way a piece becomes claimable for it
\* moved pickGen or cleared its noPick.
EmptyPickStands == \A c \in up : Trusts(c) => Pickable(c) = {}
=============================================================================
