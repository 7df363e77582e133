-------------------------- MODULE Advertising_proofs --------------------------
(***************************************************************************)
(* PiecesAreAnnounced, from an inductive invariant in two parts.           *)
(*                                                                         *)
(* Ours: what a peer may still miss is in its queue of Haves or with a     *)
(* worker, and whoever has something to send has a wakeup or a worker on   *)
(* its way to it.  Theirs: a connection that has not started its loop has  *)
(* heard nothing; an announcement kept from before the piece count was     *)
(* known waits for initAfterMetadata, and it or the bitfield is what the   *)
(* peer claims, but for the Haves that came early; and the                 *)
(* availability of a piece is the size of the set of connections that it   *)
(* is counted for, which one message changes by one connection.            *)
(***************************************************************************)
EXTENDS Advertising, FiniteSetTheorems, TLAPS

Has == [known : BOOLEAN, has : SUBSET AnnouncePieces]
Kept == [some : BOOLEAN, has : SUBSET AnnouncePieces]

AnnounceTyped ==
    /\ mode \in {"fetching", "installed", "ready"} /\ completed \subseteq AnnouncePieces
    /\ lost \subseteq AnnouncePieces /\ shut \in BOOLEAN
    /\ worker \in [Writers -> {"idle", "completed", "queued"}] /\ job \in [Writers -> SUBSET AnnouncePieces]
    /\ at \in [Conns -> {"gone", "registered", "greeting", "top", "select"}]
    /\ inited \in [Conns -> BOOLEAN] /\ wake \subseteq Conns
    /\ queuedHaves \in [Conns -> SUBSET AnnouncePieces] /\ told \in [Conns -> SUBSET AnnouncePieces]
    /\ bitfield \in [Conns -> Has] /\ isSeed \in [Conns -> BOOLEAN]
    /\ availabilityReceived \in [Conns -> BOOLEAN] /\ haveAllPending \in [Conns -> BOOLEAN]
    /\ pendingBitfield \in [Conns -> Kept]
    /\ claims \in [Conns -> SUBSET AnnouncePieces] /\ early \in [Conns -> SUBSET AnnouncePieces]
    /\ availability \in [AnnouncePieces -> Int] /\ left \in [Conns -> Int]
    /\ pendingFast \in [Conns -> SUBSET AnnouncePieces] /\ peerFast \in [Conns -> SUBSET AnnouncePieces]

\* What connection c was told and what it has yet to send.
Told(c) ==
    /\ told[c] \subseteq completed \cup lost /\ queuedHaves[c] \subseteq completed \cup lost
    /\ inited[c] \/ at[c] = "greeting" => mode = "ready"
    /\ at[c] = "gone" => queuedHaves[c] = {}
    /\ inited[c] /\ at[c] # "gone" /\ ~shut =>
         \A i \in completed : i \in told[c] \/ i \in queuedHaves[c] \/ i \in AtStep("completed")
    /\ \A i \in queuedHaves[c] : c \in wake \/ i \in AtStep("queued")
    /\ at[c] = "select" /\ mode = "ready" /\ ~inited[c] => c \in wake

Ours ==
    /\ mode # "ready" => completed = {} /\ lost = {}
    /\ \A w \in Writers : job[w] \subseteq completed \cup lost /\ (job[w] = {} <=> worker[w] = "idle")
    /\ \A c \in Conns : Told(c)

\* What connection c has heard.
Waits(c) == haveAllPending[c] \/ pendingBitfield[c].some
Fresh(c) ==
    ~inited[c] /\ bitfield[c].has = {} /\ ~isSeed[c] /\ claims[c] = {} /\ early[c] = {} /\ ~availabilityReceived[c] /\ ~Waits(c)
ClaimsAreKept(c) ==
    claims[c] \ early[c] = IF haveAllPending[c] THEN AnnouncePieces
                           ELSE IF pendingBitfield[c].some THEN pendingBitfield[c].has ELSE bitfield[c].has
NotStarted(c) == at[c] \in {"registered", "greeting"} \/ (at[c] = "gone" /\ left[c] >= 0)
Heard(c) ==
    /\ ~bitfield[c].known \/ at[c] = "gone" => bitfield[c].has = {}
    /\ mode = "fetching" => ~bitfield[c].known
    /\ NotStarted(c) => Fresh(c)
    /\ Waits(c) => availabilityReceived[c] /\ ~inited[c]
    /\ at[c] # "gone" => /\ isSeed[c] => bitfield[c].has = AnnouncePieces
                         /\ Waits(c) => ~bitfield[c].known
                         /\ ClaimsAreKept(c)

Having(i) == {c \in Conns : i \in Counted(c)}
CountsAgree == \A i \in AnnouncePieces : availability[i] = Cardinality(Having(i))
Theirs == CountsAgree /\ \A c \in Conns : Heard(c)

AnnounceInv == AnnounceTyped /\ Ours /\ Theirs

----------------------------------------------------------------------------
(* Counting *)

\* The pieces counted for one connection change, and the counts with them.
LEMMA OneConnectionCounts ==
    ASSUME AnnounceAssumption, AnnounceTyped, AnnounceTyped', CountsAgree, NEW c \in Conns,
           \A d \in Conns \ {c} : bitfield'[d] = bitfield[d] /\ isSeed'[d] = isSeed[d],
           NEW New, New = Counted(c)',
           \A i \in AnnouncePieces : availability'[i] = availability[i] - (IF i \in Counted(c) THEN 1 ELSE 0)
                                                  + (IF i \in New THEN 1 ELSE 0)
    PROVE  CountsAgree'
<1> SUFFICES ASSUME NEW i \in AnnouncePieces PROVE availability'[i] = Cardinality(Having(i)')
  BY DEF CountsAgree
<1> DEFINE H == Having(i)
           J == Having(i)'
<1>1. \A d \in Conns \ {c} : d \in H <=> d \in J
  BY DEF Having, Counted
<1>2. (c \in H <=> i \in Counted(c)) /\ (c \in J <=> i \in New)
  BY DEF Having
<1>3. H \subseteq Conns /\ J \subseteq Conns /\ IsFiniteSet(H) /\ availability[i] = Cardinality(H)
  BY FS_Subset DEF Having, AnnounceAssumption, CountsAgree
<1>4. Cardinality(H) \in Nat
  BY <1>3, FS_CardinalityType
<1>5. availability'[i] = availability[i] - (IF i \in Counted(c) THEN 1 ELSE 0) + (IF i \in New THEN 1 ELSE 0)
  OBVIOUS
<1> HIDE DEF H, J
<1>6. CASE i \in Counted(c) /\ i \in New
  <2>1. H = J
    BY <1>1, <1>2, <1>3, <1>6
  <2> QED
    BY <1>3, <1>4, <1>5, <1>6, <2>1 DEF J
<1>7. CASE i \notin Counted(c) /\ i \notin New
  <2>1. H = J
    BY <1>1, <1>2, <1>3, <1>7
  <2> QED
    BY <1>3, <1>4, <1>5, <1>7, <2>1 DEF J
<1>8. CASE i \notin Counted(c) /\ i \in New
  <2>1. J = H \cup {c} /\ c \notin H
    BY <1>1, <1>2, <1>3, <1>8
  <2>2. Cardinality(J) = Cardinality(H) + 1
    BY <1>3, <2>1, FS_AddElement
  <2> QED
    BY <1>3, <1>4, <1>5, <1>8, <2>2 DEF J
<1>9. CASE i \in Counted(c) /\ i \notin New
  <2>1. J = H \ {c} /\ c \in H
    BY <1>1, <1>2, <1>3, <1>9
  <2>2. Cardinality(J) = Cardinality(H) - 1
    BY <1>3, <2>1, FS_RemoveElement
  <2> QED
    BY <1>3, <1>4, <1>5, <1>9, <2>2 DEF J
<1> QED
  BY <1>6, <1>7, <1>8, <1>9

\* Nothing that is counted changes.
LEMMA CountsStay ==
    ASSUME CountsAgree, UNCHANGED <<bitfield, isSeed, availability>>
    PROVE  CountsAgree'
<1>1. \A i : Having(i)' = Having(i)
  BY DEF Having, Counted
<1> QED
  BY <1>1 DEF CountsAgree

\* A set counted as ones and zeros.
LEMMA CountOf ==
    ASSUME NEW S, NEW i \in AnnouncePieces
    PROVE  Count(S)[i] = IF i \in S THEN 1 ELSE 0
BY DEF Count

\* What a bitfield does to the counts.
LEMMA BitfieldCounts ==
    ASSUME AnnounceAssumption, AnnounceTyped, CountsAgree, NEW c \in Conns, NEW S \in SUBSET AnnouncePieces,
           ApplyBitfield(c, S), AnnounceTyped'
    PROVE  CountsAgree' /\ bitfield'[c] = Bitfield(S) /\ (isSeed'[c] <=> S = AnnouncePieces)
<1>1. /\ \A d \in Conns \ {c} : bitfield'[d] = bitfield[d] /\ isSeed'[d] = isSeed[d]
      /\ bitfield'[c] = Bitfield(S) /\ (isSeed'[c] <=> S = AnnouncePieces)
  BY DEF ApplyBitfield, AnnounceTyped
<1>2. Counted(c)' = IF S = AnnouncePieces THEN {} ELSE S
  BY <1>1 DEF Counted, Bitfield
<1>3. ASSUME NEW i \in AnnouncePieces
      PROVE  availability'[i] = availability[i] - (IF i \in Counted(c) THEN 1 ELSE 0)
                                  + (IF i \in Counted(c)' THEN 1 ELSE 0)
  <2>1. availability'[i] = availability[i] - Count(Counted(c))[i] + (IF S = AnnouncePieces THEN 0 ELSE Count(S)[i])
    BY DEF ApplyBitfield
  <2> QED
    BY <1>2, <2>1, CountOf
<1> QED
  BY <1>1, <1>3, OneConnectionCounts

----------------------------------------------------------------------------
(* The initial states *)

LEMMA AnnounceInitially ==
    ASSUME AnnounceAssumption, AnnounceInit
    PROVE  AnnounceInv
<1>1. AnnounceTyped
  <2>1. left \in [Conns -> Nat \cup {-1}]
    BY DEF AnnounceAssumption, AnnounceInit
  <2>2. left \in [Conns -> Int]
    BY <2>1
  <2>3. NoBitfield \in Has /\ Nothing \in Kept
    BY DEF NoBitfield, Nothing, Has, Kept
  <2>4. /\ bitfield \in [Conns -> Has] /\ pendingBitfield \in [Conns -> Kept]
        /\ mode \in {"fetching", "installed", "ready"} /\ completed \subseteq AnnouncePieces
    BY <2>3 DEF AnnounceAssumption, AnnounceInit
  <2>5. /\ inited \in [Conns -> BOOLEAN] /\ isSeed \in [Conns -> BOOLEAN]
        /\ availabilityReceived \in [Conns -> BOOLEAN] /\ haveAllPending \in [Conns -> BOOLEAN]
    BY DEF AnnounceInit
  <2>6. /\ queuedHaves \in [Conns -> SUBSET AnnouncePieces] /\ told \in [Conns -> SUBSET AnnouncePieces]
        /\ claims \in [Conns -> SUBSET AnnouncePieces] /\ early \in [Conns -> SUBSET AnnouncePieces]
        /\ pendingFast \in [Conns -> SUBSET AnnouncePieces] /\ peerFast \in [Conns -> SUBSET AnnouncePieces]
    BY DEF AnnounceInit
  <2>7. lost \subseteq AnnouncePieces /\ shut \in BOOLEAN /\ wake \subseteq Conns
    BY DEF AnnounceInit
  <2>8. /\ worker \in [Writers -> {"idle", "completed", "queued"}] /\ job \in [Writers -> SUBSET AnnouncePieces]
    BY DEF AnnounceInit
  <2>9. /\ at \in [Conns -> {"gone", "registered", "greeting", "top", "select"}]
        /\ availability \in [AnnouncePieces -> Int]
    BY DEF AnnounceInit
  <2> QED
    BY <2>2, <2>4, <2>5, <2>6, <2>7, <2>8, <2>9 DEF AnnounceTyped
<1>2. Ours
  BY DEF AnnounceInit, Ours, Told
<1>3. \A c \in Conns : Heard(c)
  BY DEF AnnounceInit, Heard, Fresh, Waits, NotStarted, NoBitfield, Nothing
<1>4. CountsAgree
  <2> SUFFICES ASSUME NEW i \in AnnouncePieces PROVE availability[i] = Cardinality(Having(i))
    BY DEF CountsAgree
  <2>1. Having(i) = {}
    BY DEF AnnounceInit, Having, Counted, NoBitfield
  <2> QED
    BY <2>1, FS_EmptySet DEF AnnounceInit
<1> QED
  BY <1>1, <1>2, <1>3, <1>4 DEF AnnounceInv, Theirs

----------------------------------------------------------------------------
(* Types *)

LEMMA BitfieldTyped ==
    ASSUME AnnounceTyped, NEW c \in Conns, NEW S \in SUBSET AnnouncePieces, ApplyBitfield(c, S)
    PROVE  bitfield' \in [Conns -> Has] /\ isSeed' \in [Conns -> BOOLEAN] /\ availability' \in [AnnouncePieces -> Int]
<1>1. ASSUME NEW i \in AnnouncePieces
      PROVE  availability[i] - Count(Counted(c))[i] + (IF S = AnnouncePieces THEN 0 ELSE Count(S)[i]) \in Int
  BY CountOf DEF AnnounceTyped
<1>2. availability' \in [AnnouncePieces -> Int]
  BY <1>1 DEF ApplyBitfield
<1>3. Bitfield(S) \in Has
  BY DEF Bitfield, Has
<1>4. bitfield' \in [Conns -> Has]
  <2>1. bitfield \in [Conns -> Has] /\ bitfield' = [bitfield EXCEPT ![c] = Bitfield(S)]
    BY DEF ApplyBitfield, AnnounceTyped
  <2> QED
    BY <1>3, <2>1
<1>5. isSeed' \in [Conns -> BOOLEAN]
  BY DEF ApplyBitfield, AnnounceTyped
<1> QED
  BY <1>2, <1>4, <1>5

LEMMA SwitchTyped ==
    ASSUME AnnounceTyped, NEW c \in Conns, initAfterMetadata(c)
    PROVE  /\ told' \in [Conns -> SUBSET AnnouncePieces] /\ inited' \in [Conns -> BOOLEAN]
           /\ bitfield' \in [Conns -> Has] /\ isSeed' \in [Conns -> BOOLEAN] /\ availability' \in [AnnouncePieces -> Int]
           /\ haveAllPending' \in [Conns -> BOOLEAN] /\ pendingBitfield' \in [Conns -> Kept]
           /\ peerFast' \in [Conns -> SUBSET AnnouncePieces] /\ pendingFast' \in [Conns -> SUBSET AnnouncePieces]
<1>1. bitfield' \in [Conns -> Has] /\ isSeed' \in [Conns -> BOOLEAN] /\ availability' \in [AnnouncePieces -> Int]
  <2>1. CASE haveAllPending[c]
    BY <2>1, BitfieldTyped DEF initAfterMetadata
  <2>2. CASE ~haveAllPending[c] /\ pendingBitfield[c].some
    <3>1. pendingBitfield[c].has \in SUBSET AnnouncePieces
      BY DEF AnnounceTyped, Kept
    <3> QED
      BY <2>2, <3>1, BitfieldTyped DEF initAfterMetadata
  <2>3. CASE ~haveAllPending[c] /\ ~pendingBitfield[c].some
    <3>1. /\ bitfield' = [bitfield EXCEPT ![c] = IF @.known THEN @ ELSE Bitfield({})]
          /\ UNCHANGED <<isSeed, availability>>
      BY <2>3 DEF initAfterMetadata
    <3>2. Bitfield({}) \in Has
      BY DEF Bitfield, Has
    <3> QED
      BY <3>1, <3>2 DEF AnnounceTyped
  <2> QED
    BY <2>1, <2>2, <2>3
<1>2. Nothing \in Kept
  BY DEF Nothing, Kept
<1> QED
  BY <1>1, <1>2 DEF initAfterMetadata, sendInitialPeerState, completedPieceBitfield, AnnounceTyped

LEMMA SessionTypes ==
    ASSUME AnnounceAssumption, AnnounceTyped, SessionSteps
    PROVE  AnnounceTyped'
<1>1. CASE Install
  BY <1>1 DEF Install, AnnounceTyped, ourVars, pieceVars
<1>2. CASE Publish
  BY <1>2 DEF Publish, AnnounceTyped, theirVars, Active, AnnounceAssumption
<1>3. CASE Shut
  BY <1>3 DEF Shut, AnnounceTyped, theirVars
<1>4. ASSUME NEW w \in Writers, NEW i \in AnnouncePieces, Complete(w, i) \/ RepairResets(w, i)
      PROVE  AnnounceTyped'
  BY <1>4 DEF Complete, RepairResets, Takes, AnnounceTyped, theirVars
<1>5. ASSUME NEW w \in Writers, broadcastHave(w) PROVE AnnounceTyped'
  BY <1>5 DEF broadcastHave, JobDone, AnnounceTyped, theirVars, pieceVars
<1>6. ASSUME NEW w \in Writers, Notify(w) PROVE AnnounceTyped'
  BY <1>6 DEF Notify, JobDone, AnnounceTyped, theirVars, pieceVars, Active
<1> QED
  BY <1>1, <1>2, <1>3, <1>4, <1>5, <1>6 DEF SessionSteps

LEMMA ConnectionTypes ==
    ASSUME AnnounceAssumption, AnnounceTyped, NEW c \in Conns,
           Register(c) \/ Start(c) \/ Greet(c) \/ DropPeer(c) \/ Top(c) \/ Notified(c) \/ Switch(c)
    PROVE  AnnounceTyped'
<1>1. CASE Register(c)
  BY <1>1 DEF Register, AnnounceTyped, ourVars, theirVars, pieceVars
<1>2. CASE Start(c)
  <2>1. Bitfield({}) \in Has /\ NoBitfield \in Has
    BY DEF Bitfield, NoBitfield, Has
  <2> QED
    BY <1>2, <2>1 DEF Start, AnnounceTyped, ourVars, pieceVars
<1>3. CASE Greet(c)
  BY <1>3 DEF Greet, sendInitialPeerState, completedPieceBitfield, AnnounceTyped, theirVars, pieceVars
<1>4. CASE DropPeer(c)
  <2>1. NoBitfield \in Has
    BY DEF NoBitfield, Has
  <2>2. \A i \in AnnouncePieces : availability[i] - Count(Counted(c))[i] \in Int
    BY CountOf DEF AnnounceTyped
  <2>3. availability' \in [AnnouncePieces -> Int]
    BY <1>4, <2>2 DEF DropPeer
  <2> QED
    BY <1>4, <2>1, <2>3 DEF DropPeer, AnnounceTyped, pieceVars
<1>5. CASE Top(c)
  <2>1. CASE ~inited[c] /\ mode = "ready"
    BY <1>5, <2>1, SwitchTyped DEF Top, AnnounceTyped, pieceVars
  <2>2. CASE ~(~inited[c] /\ mode = "ready")
    BY <1>5, <2>2 DEF Top, AnnounceTyped, pieceVars
  <2> QED
    BY <2>1, <2>2
<1>6. CASE Notified(c)
  BY <1>6 DEF Notified, AnnounceTyped, theirVars, pieceVars
<1>7. CASE Switch(c)
  BY <1>7, SwitchTyped DEF Switch, AnnounceTyped, pieceVars
<1> QED
  BY <1>1, <1>2, <1>3, <1>4, <1>5, <1>6, <1>7

\* What a message of the peer says of its pieces.
Announced(m) == IF m.kind = "bitfield" THEN m.of ELSE IF m.kind = "have_all" THEN AnnouncePieces ELSE {}
AvailabilityMessages == {x \in Announces : x.kind \in {"bitfield", "have_all", "have_none"}}

LEMMA AnnouncedPieces ==
    ASSUME NEW m \in AvailabilityMessages
    PROVE  Announced(m) \in SUBSET AnnouncePieces
BY DEF AvailabilityMessages, Announces, Announced

\* The four ways a message on availability is taken.
LEMMA AvailabilityTaken ==
    ASSUME NEW c \in Conns, HandleAvailability(c)
    PROVE  \E m \in AvailabilityMessages :
             \/ /\ availabilityReceived[c]
                /\ UNCHANGED <<bitfield, isSeed, availability, availabilityReceived, pendingBitfield,
                               haveAllPending, claims, early>>
             \/ /\ ~availabilityReceived[c]
                /\ availabilityReceived' = [availabilityReceived EXCEPT ![c] = TRUE]
                /\ claims' = [claims EXCEPT ![c] = Announced(m)] /\ early' = [early EXCEPT ![c] = {}]
                /\ \/ /\ TableKnown /\ UNCHANGED <<pendingBitfield, haveAllPending>>
                      /\ m.kind = "have_none" /\ bitfield[c].has = {} /\ UNCHANGED <<bitfield, isSeed, availability>>
                   \/ TableKnown /\ UNCHANGED <<pendingBitfield, haveAllPending>> /\ ApplyBitfield(c, Announced(m))
                   \/ /\ ~TableKnown /\ UNCHANGED <<bitfield, isSeed, availability>>
                      /\ haveAllPending' = [haveAllPending EXCEPT ![c] = m.kind = "have_all"]
                      /\ pendingBitfield' = [pendingBitfield EXCEPT ![c] =
                            [some |-> m.kind = "bitfield", has |-> IF m.kind = "bitfield" THEN Announced(m) ELSE {}]]
<1>1. PICK m \in AvailabilityMessages :
         LET S == Announced(m)
         IN IF availabilityReceived[c]
            THEN UNCHANGED <<bitfield, isSeed, availability, availabilityReceived, pendingBitfield, haveAllPending, claims, early>>
            ELSE /\ availabilityReceived' = [availabilityReceived EXCEPT ![c] = TRUE]
                 /\ claims' = [claims EXCEPT ![c] = S] /\ early' = [early EXCEPT ![c] = {}]
                 /\ IF TableKnown
                    THEN /\ UNCHANGED <<pendingBitfield, haveAllPending>>
                         /\ IF m.kind = "have_none" /\ bitfield[c].has = {}
                            THEN UNCHANGED <<bitfield, isSeed, availability>> ELSE ApplyBitfield(c, S)
                    ELSE /\ haveAllPending' = [haveAllPending EXCEPT ![c] = m.kind = "have_all"]
                         /\ pendingBitfield' = [pendingBitfield EXCEPT ![c] = [some |-> m.kind = "bitfield", has |-> IF m.kind = "bitfield" THEN S ELSE {}]]
                         /\ UNCHANGED <<bitfield, isSeed, availability>>
  BY DEF HandleAvailability, Announced, AvailabilityMessages
<1> WITNESS m \in AvailabilityMessages
<1> HIDE DEF Announced
<1>2. CASE availabilityReceived[c]
  BY <1>1, <1>2
<1>3. CASE ~availabilityReceived[c]
  BY <1>1, <1>3
<1> QED
  BY <1>2, <1>3

LEMMA MessageTypes ==
    ASSUME AnnounceTyped, NEW c \in Conns,
           HandleAvailability(c) \/ HandleMisfit(c) \/ HandleHave(c) \/ HandleAllowedFast(c)
    PROVE  AnnounceTyped'
<1>0. ASSUME Reads(c)
      PROVE  /\ mode' \in {"fetching", "installed", "ready"} /\ completed' \subseteq AnnouncePieces
             /\ lost' \subseteq AnnouncePieces /\ shut' \in BOOLEAN
             /\ worker' \in [Writers -> {"idle", "completed", "queued"}] /\ job' \in [Writers -> SUBSET AnnouncePieces]
             /\ at' \in [Conns -> {"gone", "registered", "greeting", "top", "select"}]
             /\ inited' \in [Conns -> BOOLEAN] /\ wake' \subseteq Conns
             /\ queuedHaves' \in [Conns -> SUBSET AnnouncePieces] /\ told' \in [Conns -> SUBSET AnnouncePieces]
             /\ left' \in [Conns -> Int]
  BY <1>0 DEF Reads, AnnounceTyped, ourVars, pieceVars
<1>1. CASE HandleAvailability(c)
  <2>1. Reads(c) /\ UNCHANGED <<pendingFast, peerFast>>
    BY <1>1 DEF HandleAvailability
  <2>2. PICK m \in AvailabilityMessages :
             \/ /\ availabilityReceived[c]
                /\ UNCHANGED <<bitfield, isSeed, availability, availabilityReceived, pendingBitfield,
                               haveAllPending, claims, early>>
             \/ /\ ~availabilityReceived[c]
                /\ availabilityReceived' = [availabilityReceived EXCEPT ![c] = TRUE]
                /\ claims' = [claims EXCEPT ![c] = Announced(m)] /\ early' = [early EXCEPT ![c] = {}]
                /\ \/ /\ TableKnown /\ UNCHANGED <<pendingBitfield, haveAllPending>>
                      /\ m.kind = "have_none" /\ bitfield[c].has = {} /\ UNCHANGED <<bitfield, isSeed, availability>>
                   \/ TableKnown /\ UNCHANGED <<pendingBitfield, haveAllPending>> /\ ApplyBitfield(c, Announced(m))
                   \/ /\ ~TableKnown /\ UNCHANGED <<bitfield, isSeed, availability>>
                      /\ haveAllPending' = [haveAllPending EXCEPT ![c] = m.kind = "have_all"]
                      /\ pendingBitfield' = [pendingBitfield EXCEPT ![c] =
                            [some |-> m.kind = "bitfield", has |-> IF m.kind = "bitfield" THEN Announced(m) ELSE {}]]
    BY <1>1, AvailabilityTaken
  <2>3. Announced(m) \in SUBSET AnnouncePieces
    BY AnnouncedPieces
  <2>4. bitfield' \in [Conns -> Has] /\ isSeed' \in [Conns -> BOOLEAN] /\ availability' \in [AnnouncePieces -> Int]
    BY <2>2, <2>3, BitfieldTyped DEF AnnounceTyped
  <2>5. [some |-> m.kind = "bitfield", has |-> IF m.kind = "bitfield" THEN Announced(m) ELSE {}] \in Kept
    BY <2>3 DEF Kept
  <2>6. /\ UNCHANGED availabilityReceived \/ availabilityReceived' = [availabilityReceived EXCEPT ![c] = TRUE]
        /\ UNCHANGED haveAllPending \/ haveAllPending' = [haveAllPending EXCEPT ![c] = m.kind = "have_all"]
        /\ UNCHANGED pendingBitfield \/ pendingBitfield' = [pendingBitfield EXCEPT ![c] =
              [some |-> m.kind = "bitfield", has |-> IF m.kind = "bitfield" THEN Announced(m) ELSE {}]]
        /\ UNCHANGED claims \/ claims' = [claims EXCEPT ![c] = Announced(m)]
        /\ UNCHANGED early \/ early' = [early EXCEPT ![c] = {}]
    BY <2>2
  <2>7. availabilityReceived' \in [Conns -> BOOLEAN] /\ haveAllPending' \in [Conns -> BOOLEAN]
    BY <2>6 DEF AnnounceTyped
  <2>8. pendingBitfield' \in [Conns -> Kept]
    <3> DEFINE k == [some |-> m.kind = "bitfield", has |-> IF m.kind = "bitfield" THEN Announced(m) ELSE {}]
    <3>1. k \in Kept /\ (UNCHANGED pendingBitfield \/ pendingBitfield' = [pendingBitfield EXCEPT ![c] = k])
      BY <2>5, <2>6
    <3> HIDE DEF k
    <3> QED
      BY <3>1 DEF AnnounceTyped
  <2>9. claims' \in [Conns -> SUBSET AnnouncePieces] /\ early' \in [Conns -> SUBSET AnnouncePieces]
    BY <2>3, <2>6 DEF AnnounceTyped
  <2> QED
    BY <1>0, <2>1, <2>4, <2>7, <2>8, <2>9 DEF AnnounceTyped
<1>2. CASE HandleMisfit(c)
  BY <1>0, <1>2 DEF HandleMisfit, AnnounceTyped
<1>3. CASE HandleHave(c)
  <2>1. PICK i \in AnnouncePieces :
         /\ claims' = [claims EXCEPT ![c] = @ \cup {i}]
         /\ early' = [early EXCEPT ![c] =
                         IF TableKnown /\ bitfield[c].known THEN @ \ {i} ELSE @ \cup ({i} \ claims[c])]
         /\ IF TableKnown /\ bitfield[c].known /\ i \notin bitfield[c].has
            THEN /\ bitfield' = [bitfield EXCEPT ![c] = Bitfield(@.has \cup {i})]
                 /\ availability' = [availability EXCEPT ![i] = @ + 1]
            ELSE UNCHANGED <<bitfield, availability>>
    BY <1>3 DEF HandleHave
  <2>2. Bitfield(bitfield[c].has \cup {i}) \in Has
    BY DEF AnnounceTyped, Bitfield, Has
  <2>3. bitfield' \in [Conns -> Has] /\ availability' \in [AnnouncePieces -> Int]
    BY <2>1, <2>2 DEF AnnounceTyped
  <2>4. claims' \in [Conns -> SUBSET AnnouncePieces] /\ early' \in [Conns -> SUBSET AnnouncePieces]
    BY <2>1 DEF AnnounceTyped
  <2> QED
    BY <1>0, <1>3, <2>3, <2>4 DEF HandleHave, AnnounceTyped
<1>4. CASE HandleAllowedFast(c)
  <2>1. pendingFast' \in [Conns -> SUBSET AnnouncePieces] /\ peerFast' \in [Conns -> SUBSET AnnouncePieces]
    BY <1>4 DEF HandleAllowedFast, AnnounceTyped
  <2> QED
    BY <1>0, <1>4, <2>1 DEF HandleAllowedFast, AnnounceTyped
<1> QED
  BY <1>1, <1>2, <1>3, <1>4

----------------------------------------------------------------------------
(* What a peer is told *)

LEMMA OursAfterSession ==
    ASSUME AnnounceAssumption, AnnounceTyped, Ours, SessionSteps
    PROVE  Ours'
<1> USE DEF Ours, Told, theirVars, pieceVars
<1>1. CASE Install
  <2>1. UNCHANGED <<ourVars, wake, at, inited>> /\ mode = "fetching" /\ mode' = "installed"
    BY <1>1 DEF Install
  <2>2. \A t : AtStep(t)' = AtStep(t)
    BY <2>1 DEF AtStep, ourVars
  <2> QED
    BY <2>1, <2>2 DEF ourVars
<1>2. CASE Publish
  <2>1. \A c \in Conns : told[c] = {} /\ queuedHaves[c] = {} /\ ~inited[c]
    BY <1>2 DEF Publish
  <2>2. \A w \in Writers : job[w] = {}
    BY <1>2 DEF Publish
  <2>3. \A c \in Conns : at[c] = "select" => c \in wake'
    BY <1>2 DEF Publish, Active
  <2> QED
    BY <1>2, <2>1, <2>2, <2>3 DEF Publish
<1>3. CASE Shut
  <2>1. UNCHANGED <<mode, completed, lost, worker, job, queuedHaves, told, wake, at, inited>> /\ shut'
    BY <1>3 DEF Shut
  <2>2. \A t : AtStep(t)' = AtStep(t)
    BY <2>1 DEF AtStep
  <2> QED
    BY <2>1, <2>2
<1>4. ASSUME NEW w \in Writers, NEW i \in AnnouncePieces, Complete(w, i) \/ RepairResets(w, i) PROVE Ours'
  <2>1. /\ mode = "ready" /\ worker[w] = "idle" /\ UNCHANGED <<mode, shut, queuedHaves, told, wake, at, inited>>
        /\ worker'[w] = "completed" /\ job'[w] = {i}
        /\ \A v \in Writers \ {w} : worker'[v] = worker[v] /\ job'[v] = job[v]
    BY <1>4 DEF Complete, RepairResets, Takes, AnnounceTyped
  <2>2. /\ completed' \cup lost' = completed \cup lost \cup {i}
        /\ completed' \subseteq completed \cup {i}
    BY <1>4 DEF Complete, RepairResets
  <2>3. AtStep("completed")' = AtStep("completed") \cup {i} /\ AtStep("queued")' = AtStep("queued")
    BY <2>1 DEF AtStep
  <2>4. ASSUME NEW c \in Conns PROVE Told(c)'
    <3>1. Told(c)
      BY DEF Ours
    <3>2. inited[c] /\ at[c] # "gone" /\ ~shut =>
            \A j \in completed' : j \in told[c] \/ j \in queuedHaves[c] \/ j \in AtStep("completed")'
      BY <2>2, <2>3, <3>1
    <3> QED
      BY <2>1, <2>2, <2>3, <3>1, <3>2
  <2>5. \A v \in Writers : job'[v] \subseteq completed' \cup lost' /\ (job'[v] = {} <=> worker'[v] = "idle")
    BY <2>1, <2>2
  <2> QED
    BY <2>1, <2>4, <2>5
<1>5. ASSUME NEW w \in Writers, broadcastHave(w) PROVE Ours'
  <2>1. /\ worker[w] = "completed" /\ UNCHANGED <<mode, completed, lost, shut, told, wake, at, inited>>
        /\ \A v \in Writers \ {w} : worker'[v] = worker[v] /\ job'[v] = job[v]
    BY <1>5 DEF broadcastHave, JobDone, AnnounceTyped
  <2>2. CASE shut
    <3>1. worker'[w] = "idle" /\ job'[w] = {} /\ UNCHANGED queuedHaves
      BY <1>5, <2>2 DEF broadcastHave, JobDone, AnnounceTyped
    <3>2. AtStep("queued")' = AtStep("queued")
      BY <2>1, <3>1 DEF AtStep
    <3>3. ASSUME NEW c \in Conns PROVE Told(c)'
      BY <2>1, <2>2, <3>1, <3>2
    <3> QED
      BY <2>1, <3>1, <3>3
  <2>3. CASE ~shut
    <3>1. /\ worker'[w] = "queued" /\ job'[w] = job[w]
          /\ \A c \in Conns : queuedHaves'[c] = IF at[c] # "gone" THEN queuedHaves[c] \cup job[w] ELSE queuedHaves[c]
      BY <1>5, <2>3 DEF broadcastHave, AnnounceTyped, Active
    <3>2. /\ AtStep("completed") \subseteq AtStep("completed")' \cup job[w]
          /\ AtStep("queued")' = AtStep("queued") \cup job[w]
      BY <2>1, <3>1 DEF AtStep
    <3>3. ASSUME NEW c \in Conns PROVE Told(c)'
      <4>1. Told(c) /\ job[w] \subseteq completed \cup lost
        BY DEF Ours
      <4>2. CASE at[c] = "gone"
        BY <2>1, <3>1, <4>1, <4>2
      <4>3. CASE at[c] # "gone"
        <5>1. queuedHaves'[c] = queuedHaves[c] \cup job[w]
          BY <3>1, <4>3
        <5>2. \A j \in queuedHaves'[c] : c \in wake \/ j \in AtStep("queued")'
          BY <3>2, <4>1, <5>1
        <5>3. inited[c] /\ ~shut =>
                \A j \in completed : j \in told[c] \/ j \in queuedHaves'[c] \/ j \in AtStep("completed")'
          BY <3>2, <4>1, <4>3, <5>1
        <5>4. queuedHaves'[c] \subseteq completed \cup lost
          BY <4>1, <5>1
        <5> QED
          BY <2>1, <4>1, <4>3, <5>2, <5>3, <5>4
      <4> QED
        BY <4>2, <4>3
    <3>4. \A v \in Writers : job'[v] \subseteq completed \cup lost /\ (job'[v] = {} <=> worker'[v] = "idle")
      BY <2>1, <3>1
    <3> QED
      BY <2>1, <3>3, <3>4
  <2> QED
    BY <2>2, <2>3 DEF AnnounceTyped
<1>6. ASSUME NEW w \in Writers, Notify(w) PROVE Ours'
  <2>1. /\ worker[w] = "queued" /\ worker'[w] = "idle" /\ job'[w] = {}
        /\ \A v \in Writers \ {w} : worker'[v] = worker[v] /\ job'[v] = job[v]
        /\ UNCHANGED <<mode, completed, lost, shut, queuedHaves, told, at, inited>>
        /\ \A c \in Conns : c \in wake' <=> c \in wake \/ (at[c] # "gone" /\ job[w] \cap queuedHaves[c] # {})
    BY <1>6 DEF Notify, JobDone, AnnounceTyped, Active
  <2>2. AtStep("completed")' = AtStep("completed") /\ AtStep("queued") \subseteq AtStep("queued")' \cup job[w]
    BY <2>1 DEF AtStep
  <2>3. ASSUME NEW c \in Conns PROVE Told(c)'
    <3>1. Told(c)
      BY DEF Ours
    <3>2. ASSUME NEW j \in queuedHaves[c] PROVE c \in wake' \/ j \in AtStep("queued")'
      <4>1. at[c] # "gone"
        BY <3>1
      <4>2. j \in job[w] => job[w] \cap queuedHaves[c] # {}
        BY <3>2
      <4> QED
        BY <2>1, <2>2, <3>1, <3>2, <4>1, <4>2
    <3> QED
      BY <2>1, <2>2, <3>1, <3>2
  <2> QED
    BY <2>1, <2>3
<1> QED
  BY <1>1, <1>2, <1>3, <1>4, <1>5, <1>6 DEF SessionSteps

\* A step of one connection leaves the books of the others alone.
LEMMA OursByConnection ==
    ASSUME AnnounceTyped, Ours, NEW c \in Conns, UNCHANGED <<mode, pieceVars, worker, job>>, Told(c)',
           \A d \in Conns \ {c} : UNCHANGED <<told[d], queuedHaves[d], inited[d], at[d]>> /\ (d \in wake => d \in wake')
    PROVE  Ours'
<1>1. ASSUME NEW d \in Conns \ {c} PROVE Told(d)'
  <2>1. Told(d)
    BY DEF Ours
  <2> QED
    BY <2>1 DEF Told, AtStep, pieceVars
<1> QED
  BY <1>1 DEF Ours, pieceVars

\* The books of initAfterMetadata: everything is told.
LEMMA SwitchTells ==
    ASSUME AnnounceTyped, Ours, NEW c \in Conns, initAfterMetadata(c), mode = "ready"
    PROVE  /\ told'[c] = completed /\ inited'[c] /\ (\A d \in Conns \ {c} : told'[d] = told[d] /\ inited'[d] = inited[d])
BY DEF initAfterMetadata, sendInitialPeerState, completedPieceBitfield, AnnounceTyped

LEMMA OursAfterConnection ==
    ASSUME AnnounceTyped, Ours, Theirs, NEW c \in Conns,
           Register(c) \/ Start(c) \/ Greet(c) \/ DropPeer(c) \/ Top(c) \/ Notified(c) \/ Switch(c)
    PROVE  Ours'
<1>0. Told(c) /\ Heard(c) /\ queuedHaves[c] \subseteq AnnouncePieces /\ completed \subseteq AnnouncePieces
  BY DEF Ours, Theirs, AnnounceTyped
<1>1. CASE Register(c)
  <2>1. /\ UNCHANGED <<mode, pieceVars, worker, job, queuedHaves, told, wake, inited>>
        /\ at'[c] = "registered" /\ at[c] = "gone" /\ \A d \in Conns \ {c} : at'[d] = at[d]
    BY <1>1 DEF Register, ourVars, AnnounceTyped
  <2>2. ~inited[c]
    BY <1>0, <1>1 DEF Register, Heard, NotStarted, Fresh
  <2>3. Told(c)'
    BY <1>0, <2>1, <2>2 DEF Told, AtStep, pieceVars
  <2> QED
    BY <2>1, <2>3, OursByConnection
<1>2. CASE Start(c)
  <2>1. /\ UNCHANGED <<mode, pieceVars, worker, job, queuedHaves, told, wake, inited>>
        /\ at'[c] = (IF mode = "ready" THEN "greeting" ELSE "top") /\ at[c] = "registered"
        /\ \A d \in Conns \ {c} : at'[d] = at[d]
    BY <1>2 DEF Start, ourVars, AnnounceTyped
  <2>2. ~inited[c]
    BY <1>0, <2>1 DEF Heard, NotStarted, Fresh
  <2>3. Told(c)'
    BY <1>0, <2>1, <2>2 DEF Told, AtStep, pieceVars
  <2> QED
    BY <2>1, <2>3, OursByConnection
<1>3. CASE Greet(c)
  <2>1. /\ UNCHANGED <<mode, pieceVars, worker, job, queuedHaves, wake>>
        /\ at'[c] = "top" /\ at[c] = "greeting" /\ told'[c] = completed /\ inited'[c]
        /\ \A d \in Conns \ {c} : at'[d] = at[d] /\ told'[d] = told[d] /\ inited'[d] = inited[d]
    BY <1>3 DEF Greet, sendInitialPeerState, completedPieceBitfield, AnnounceTyped
  <2>2. Told(c)'
    BY <1>0, <2>1 DEF Told, AtStep, pieceVars
  <2> QED
    BY <2>1, <2>2, OursByConnection
<1>4. CASE DropPeer(c)
  <2>1. /\ UNCHANGED <<mode, pieceVars, worker, job, told, inited>>
        /\ at'[c] = "gone" /\ queuedHaves'[c] = {} /\ wake' = wake \ {c}
        /\ \A d \in Conns \ {c} : at'[d] = at[d] /\ queuedHaves'[d] = queuedHaves[d]
    BY <1>4 DEF DropPeer, AnnounceTyped
  <2>2. Told(c)'
    BY <1>0, <2>1 DEF Told, AtStep, pieceVars
  <2> QED
    BY <2>1, <2>2, OursByConnection
<1>5. CASE Top(c)
  <2>1. /\ UNCHANGED <<mode, pieceVars, worker, job, queuedHaves, wake>>
        /\ at'[c] = "select" /\ at[c] = "top" /\ \A d \in Conns \ {c} : at'[d] = at[d]
    BY <1>5 DEF Top, AnnounceTyped
  <2>2. CASE ~inited[c] /\ mode = "ready"
    <3>1. told'[c] = completed /\ inited'[c] /\ (\A d \in Conns \ {c} : told'[d] = told[d] /\ inited'[d] = inited[d])
      BY <1>5, <2>2, SwitchTells DEF Top
    <3>2. Told(c)'
      BY <1>0, <2>1, <2>2, <3>1 DEF Told, AtStep, pieceVars
    <3> QED
      BY <2>1, <3>1, <3>2, OursByConnection
  <2>3. CASE ~(~inited[c] /\ mode = "ready")
    <3>1. UNCHANGED <<told, inited>>
      BY <1>5, <2>3 DEF Top
    <3>2. Told(c)'
      BY <1>0, <2>1, <2>3, <3>1 DEF Told, AtStep, pieceVars
    <3> QED
      BY <2>1, <3>1, <3>2, OursByConnection
  <2> QED
    BY <2>2, <2>3
<1>6. CASE Notified(c)
  <2>1. /\ UNCHANGED <<mode, pieceVars, worker, job, inited>>
        /\ at'[c] = "top" /\ at[c] = "select" /\ queuedHaves'[c] = {} /\ wake' = wake \ {c}
        /\ told'[c] = IF inited[c] THEN told[c] \cup queuedHaves[c] ELSE told[c]
        /\ \A d \in Conns \ {c} : at'[d] = at[d] /\ queuedHaves'[d] = queuedHaves[d] /\ told'[d] = told[d]
    BY <1>6 DEF Notified, AnnounceTyped
  <2>2. Told(c)'
    BY <1>0, <2>1 DEF Told, AtStep, pieceVars
  <2> QED
    BY <2>1, <2>2, OursByConnection
<1>7. CASE Switch(c)
  <2>1. UNCHANGED <<mode, pieceVars, worker, job, queuedHaves, wake, at>> /\ at[c] = "select" /\ mode = "ready"
    BY <1>7 DEF Switch
  <2>2. told'[c] = completed /\ inited'[c] /\ (\A d \in Conns \ {c} : told'[d] = told[d] /\ inited'[d] = inited[d])
    BY <1>7, <2>1, SwitchTells DEF Switch
  <2>3. Told(c)'
    BY <1>0, <2>1, <2>2 DEF Told, AtStep, pieceVars
  <2> QED
    BY <2>1, <2>2, <2>3, OursByConnection
<1> QED
  BY <1>1, <1>2, <1>3, <1>4, <1>5, <1>6, <1>7

LEMMA OursAfterMessage ==
    ASSUME AnnounceTyped, Ours, NEW c \in Conns, Reads(c)
    PROVE  Ours'
<1>1. /\ UNCHANGED <<mode, pieceVars, worker, job, queuedHaves, told, wake, inited>>
      /\ at'[c] = "top" /\ at[c] = "select" /\ \A d \in Conns \ {c} : at'[d] = at[d]
  BY DEF Reads, ourVars, AnnounceTyped
<1>2. Told(c)
  BY DEF Ours
<1>3. Told(c)'
  BY <1>1, <1>2 DEF Told, AtStep, pieceVars
<1> QED
  BY <1>1, <1>3, OursByConnection

----------------------------------------------------------------------------
(* What a peer has told *)

LEMMA TheirsAfterSession ==
    ASSUME AnnounceAssumption, AnnounceTyped, Theirs, SessionSteps
    PROVE  Theirs'
<1> USE DEF Heard, Fresh, Waits, ClaimsAreKept, NotStarted
<1>1. CASE Install
  <2>1. \A c \in Conns : Heard(c)'
    BY <1>1 DEF Install, Theirs
  <2>2. \A c \in Conns : Counted(c) = {} /\ Counted(c)' = {}
    BY <1>1 DEF Install, Theirs, Counted
  <2>3. ASSUME NEW i \in AnnouncePieces PROVE availability'[i] = Cardinality(Having(i)')
    <3>1. Having(i)' = {}
      BY <2>2 DEF Having
    <3> QED
      BY <1>1, <3>1, FS_EmptySet DEF Install
  <2> QED
    BY <2>1, <2>3 DEF Theirs, CountsAgree
<1>2. CASE SessionSteps /\ ~Install
  <2>1. UNCHANGED <<theirVars, at, inited>>
    BY <1>2 DEF SessionSteps, Publish, Shut, Complete, RepairResets, broadcastHave, Notify
  <2>2. mode' = "fetching" => mode = "fetching"
    BY <1>2 DEF SessionSteps, Publish, Shut, Complete, RepairResets, broadcastHave, Notify
  <2>3. \A c \in Conns : Heard(c)'
    BY <2>1, <2>2 DEF Theirs, theirVars
  <2> QED
    BY <2>1, <2>3, CountsStay DEF Theirs, theirVars
<1> QED
  BY <1>1, <1>2

\* A step of one connection leaves what was heard from the others alone.
LEMMA TheirsByConnection ==
    ASSUME Theirs, CountsAgree', NEW c \in Conns, UNCHANGED mode, Heard(c)',
           \A d \in Conns \ {c} :
              UNCHANGED <<at[d], inited[d], bitfield[d], isSeed[d], availabilityReceived[d], pendingBitfield[d],
                          haveAllPending[d], claims[d], early[d], left[d]>>
    PROVE  Theirs'
<1>1. ASSUME NEW d \in Conns \ {c} PROVE Heard(d)'
  <2>1. Heard(d)
    BY DEF Theirs
  <2> QED
    BY <2>1 DEF Heard, Fresh, Waits, ClaimsAreKept, NotStarted
<1> QED
  BY <1>1 DEF Theirs

\* initAfterMetadata: the first announcement is in the bitfield now.
LEMMA SwitchHears ==
    ASSUME AnnounceAssumption, AnnounceTyped, AnnounceTyped', Theirs, NEW c \in Conns,
           initAfterMetadata(c), mode = "ready", mode' = "ready", at[c] \in {"top", "select"}, at'[c] = "select",
           \A d \in Conns \ {c} : at'[d] = at[d], UNCHANGED <<claims, early, left, availabilityReceived>>
    PROVE  Theirs'
<1>1. Heard(c) /\ CountsAgree
  BY DEF Theirs
<1>2. /\ inited'[c] /\ ~haveAllPending'[c] /\ ~pendingBitfield'[c].some
      /\ \A d \in Conns \ {c} : UNCHANGED <<inited[d], haveAllPending[d], pendingBitfield[d]>>
  BY DEF initAfterMetadata, AnnounceTyped, Nothing
<1>3. pendingBitfield[c].has \in SUBSET AnnouncePieces
  BY DEF AnnounceTyped, Kept
<1>4. /\ CountsAgree' /\ \A d \in Conns \ {c} : UNCHANGED <<bitfield[d], isSeed[d]>>
      /\ ~bitfield'[c].known => bitfield'[c].has = {}
      /\ isSeed'[c] => bitfield'[c].has = AnnouncePieces
      /\ claims[c] \ early[c] = bitfield'[c].has
  <2>1. CASE haveAllPending[c]
    <3>1. ApplyBitfield(c, AnnouncePieces)
      BY <2>1 DEF initAfterMetadata
    <3>2. CountsAgree' /\ bitfield'[c] = Bitfield(AnnouncePieces) /\ (isSeed'[c] <=> AnnouncePieces = AnnouncePieces)
      BY <1>1, <3>1, BitfieldCounts
    <3>3. claims[c] \ early[c] = AnnouncePieces
      BY <1>1, <2>1 DEF Heard, ClaimsAreKept
    <3> QED
      BY <1>3, <3>1, <3>2, <3>3 DEF ApplyBitfield, Bitfield, AnnounceTyped
  <2>2. CASE ~haveAllPending[c] /\ pendingBitfield[c].some
    <3> DEFINE S == pendingBitfield[c].has
    <3>1. ApplyBitfield(c, S)
      BY <2>2 DEF initAfterMetadata
    <3>2. CountsAgree' /\ bitfield'[c] = Bitfield(S) /\ (isSeed'[c] <=> S = AnnouncePieces)
      BY <1>1, <1>3, <3>1, BitfieldCounts
    <3>3. claims[c] \ early[c] = S
      BY <1>1, <2>2 DEF Heard, ClaimsAreKept
    <3> QED
      BY <1>3, <3>1, <3>2, <3>3 DEF ApplyBitfield, Bitfield, AnnounceTyped
  <2>3. CASE ~haveAllPending[c] /\ ~pendingBitfield[c].some
    <3>1. /\ bitfield' = [bitfield EXCEPT ![c] = IF @.known THEN @ ELSE Bitfield({})]
          /\ UNCHANGED <<isSeed, availability>>
      BY <2>3 DEF initAfterMetadata
    <3>2. bitfield'[c].has = bitfield[c].has /\ bitfield'[c].known
      BY <1>1, <3>1 DEF AnnounceTyped, Has, Bitfield, Heard
    <3>3. \A d \in Conns \ {c} : UNCHANGED <<bitfield[d], isSeed[d]>>
      BY <3>1 DEF AnnounceTyped
    <3>4. \A i \in AnnouncePieces : availability'[i] = availability[i] /\ availability[i] \in Int
      BY <3>1 DEF AnnounceTyped
    <3>5. Counted(c)' = Counted(c)
      BY <3>1, <3>2 DEF Counted
    <3>6. CountsAgree'
      BY <1>1, <3>3, <3>4, <3>5, OneConnectionCounts
    <3>7. claims[c] \ early[c] = bitfield[c].has
      BY <1>1, <2>3 DEF Heard, ClaimsAreKept
    <3> QED
      BY <1>1, <3>1, <3>2, <3>3, <3>6, <3>7 DEF Heard
  <2> QED
    BY <2>1, <2>2, <2>3
<1>5. Heard(c)'
  BY <1>1, <1>2, <1>4 DEF Heard, Waits, NotStarted, ClaimsAreKept
<1> QED
  BY <1>2, <1>4, <1>5, TheirsByConnection

LEMMA TheirsAfterConnection ==
    ASSUME AnnounceAssumption, AnnounceTyped, AnnounceTyped', Ours, Theirs, NEW c \in Conns,
           Register(c) \/ Start(c) \/ Greet(c) \/ DropPeer(c) \/ Top(c) \/ Notified(c) \/ Switch(c)
    PROVE  Theirs'
<1>0. Heard(c) /\ CountsAgree
  BY DEF Theirs
<1>1. CASE Register(c)
  <2>1. UNCHANGED <<theirVars, mode, inited>> /\ at[c] = "gone" /\ left[c] >= 0 /\ at'[c] = "registered"
        /\ \A d \in Conns \ {c} : at'[d] = at[d]
    BY <1>1 DEF Register, AnnounceTyped
  <2>2. Heard(c)'
    BY <1>0, <2>1 DEF theirVars, Heard, Fresh, Waits, ClaimsAreKept, NotStarted
  <2> QED
    BY <1>0, <2>1, <2>2, TheirsByConnection, CountsStay DEF theirVars
<1>2. CASE Start(c)
  <2>1. /\ UNCHANGED <<mode, inited, isSeed, availabilityReceived, pendingBitfield, haveAllPending, availability, claims, early, left>>
        /\ at[c] = "registered" /\ at'[c] \in {"greeting", "top"}
        /\ bitfield'[c] = (IF mode = "ready" THEN Bitfield({}) ELSE NoBitfield)
        /\ \A d \in Conns \ {c} : at'[d] = at[d] /\ bitfield'[d] = bitfield[d]
    BY <1>2 DEF Start, AnnounceTyped
  <2>2. bitfield[c].has = {} /\ bitfield'[c].has = {} /\ (mode = "fetching" => ~bitfield'[c].known) /\ Fresh(c)
    BY <1>0, <2>1 DEF Bitfield, NoBitfield, Heard, NotStarted, Fresh
  <2>3. Heard(c)'
    BY <1>0, <2>1, <2>2 DEF Heard, Fresh, Waits, ClaimsAreKept, NotStarted
  <2>4. Counted(c)' = Counted(c)
    BY <2>1, <2>2 DEF Counted
  <2>5. \A i \in AnnouncePieces : availability'[i] = availability[i] /\ availability[i] \in Int
    BY <2>1 DEF AnnounceTyped
  <2>6. CountsAgree'
    BY <1>0, <2>1, <2>4, <2>5, OneConnectionCounts
  <2> QED
    BY <2>1, <2>3, <2>6, TheirsByConnection
<1>3. CASE Greet(c)
  <2>1. /\ UNCHANGED <<mode, theirVars>> /\ at[c] = "greeting" /\ at'[c] = "top" /\ inited'[c]
        /\ \A d \in Conns \ {c} : at'[d] = at[d] /\ inited'[d] = inited[d]
    BY <1>3 DEF Greet, AnnounceTyped
  <2>2. Fresh(c)
    BY <1>0, <2>1 DEF Heard, NotStarted
  <2>3. Heard(c)'
    BY <1>0, <2>1, <2>2 DEF theirVars, Heard, Fresh, Waits, ClaimsAreKept, NotStarted
  <2> QED
    BY <1>0, <2>1, <2>3, TheirsByConnection, CountsStay DEF theirVars
<1>4. CASE DropPeer(c)
  <2>1. /\ UNCHANGED <<mode, inited, isSeed, availabilityReceived, pendingBitfield, haveAllPending, claims, early>>
        /\ at[c] \in {"top", "select"} /\ at'[c] = "gone" /\ bitfield'[c] = NoBitfield /\ left'[c] = -1
        /\ \A d \in Conns \ {c} : at'[d] = at[d] /\ bitfield'[d] = bitfield[d] /\ left'[d] = left[d]
    BY <1>4 DEF DropPeer, AnnounceTyped
  <2>2. Heard(c)'
    BY <1>0, <2>1 DEF Heard, NoBitfield, NotStarted, Waits
  <2>3. Counted(c)' = {}
    BY <2>1 DEF Counted, NoBitfield
  <2>4. ASSUME NEW i \in AnnouncePieces
        PROVE  availability'[i] = availability[i] - (IF i \in Counted(c) THEN 1 ELSE 0) + (IF i \in {} THEN 1 ELSE 0)
    <3>1. availability'[i] = availability[i] - Count(Counted(c))[i] /\ availability[i] \in Int
      BY <1>4 DEF DropPeer, AnnounceTyped
    <3> QED
      BY <3>1, CountOf
  <2>5. CountsAgree'
    BY <1>0, <2>1, <2>3, <2>4, OneConnectionCounts
  <2> QED
    BY <2>1, <2>2, <2>5, TheirsByConnection
<1>5. CASE Top(c)
  <2>1. /\ UNCHANGED <<mode, availabilityReceived, claims, early, left>>
        /\ at'[c] = "select" /\ at[c] = "top" /\ \A d \in Conns \ {c} : at'[d] = at[d]
    BY <1>5 DEF Top, AnnounceTyped
  <2>2. CASE ~inited[c] /\ mode = "ready"
    BY <1>5, <2>1, <2>2, SwitchHears DEF Top
  <2>3. CASE ~(~inited[c] /\ mode = "ready")
    <3>1. UNCHANGED <<inited, bitfield, isSeed, availability, haveAllPending, pendingBitfield>>
      BY <1>5, <2>3 DEF Top
    <3>2. Heard(c)'
      BY <1>0, <2>1, <3>1 DEF Heard, Waits, ClaimsAreKept, NotStarted
    <3> QED
      BY <1>0, <2>1, <3>1, <3>2, TheirsByConnection, CountsStay
  <2> QED
    BY <2>2, <2>3
<1>6. CASE Notified(c)
  <2>1. /\ UNCHANGED <<mode, inited, theirVars>> /\ at[c] = "select" /\ at'[c] = "top"
        /\ \A d \in Conns \ {c} : at'[d] = at[d]
    BY <1>6 DEF Notified, AnnounceTyped
  <2>2. Heard(c)'
    BY <1>0, <2>1 DEF theirVars, Heard, Fresh, Waits, ClaimsAreKept, NotStarted
  <2> QED
    BY <1>0, <2>1, <2>2, TheirsByConnection, CountsStay DEF theirVars
<1>7. CASE Switch(c)
  <2>1. /\ UNCHANGED <<mode, at, availabilityReceived, claims, early, left>> /\ at[c] = "select" /\ mode = "ready"
        /\ initAfterMetadata(c)
    BY <1>7 DEF Switch
  <2> QED
    BY <2>1, SwitchHears
<1> QED
  BY <1>1, <1>2, <1>3, <1>4, <1>5, <1>6, <1>7

LEMMA TheirsAfterMessage ==
    ASSUME AnnounceAssumption, AnnounceTyped, AnnounceTyped', Ours, Theirs, NEW c \in Conns,
           HandleAvailability(c) \/ HandleMisfit(c) \/ HandleHave(c) \/ HandleAllowedFast(c)
    PROVE  Theirs'
<1>0. Heard(c) /\ Told(c) /\ CountsAgree
  BY DEF Theirs, Ours
<1>1. Reads(c)
  BY DEF HandleAvailability, HandleMisfit, HandleHave, HandleAllowedFast
<1>2. /\ UNCHANGED <<mode, inited>> /\ at[c] = "select" /\ at'[c] = "top"
      /\ \A d \in Conns \ {c} : at'[d] = at[d] /\ left'[d] = left[d]
  BY <1>1 DEF Reads, AnnounceTyped
<1>3. CASE HandleAvailability(c)
  <2>1. PICK m \in AvailabilityMessages :
             \/ /\ availabilityReceived[c]
                /\ UNCHANGED <<bitfield, isSeed, availability, availabilityReceived, pendingBitfield,
                               haveAllPending, claims, early>>
             \/ /\ ~availabilityReceived[c]
                /\ availabilityReceived' = [availabilityReceived EXCEPT ![c] = TRUE]
                /\ claims' = [claims EXCEPT ![c] = Announced(m)] /\ early' = [early EXCEPT ![c] = {}]
                /\ \/ /\ TableKnown /\ UNCHANGED <<pendingBitfield, haveAllPending>>
                      /\ m.kind = "have_none" /\ bitfield[c].has = {} /\ UNCHANGED <<bitfield, isSeed, availability>>
                   \/ TableKnown /\ UNCHANGED <<pendingBitfield, haveAllPending>> /\ ApplyBitfield(c, Announced(m))
                   \/ /\ ~TableKnown /\ UNCHANGED <<bitfield, isSeed, availability>>
                      /\ haveAllPending' = [haveAllPending EXCEPT ![c] = m.kind = "have_all"]
                      /\ pendingBitfield' = [pendingBitfield EXCEPT ![c] =
                            [some |-> m.kind = "bitfield", has |-> IF m.kind = "bitfield" THEN Announced(m) ELSE {}]]
    BY <1>3, AvailabilityTaken
  <2>2. CASE availabilityReceived[c]
    <3>1. UNCHANGED <<bitfield, isSeed, availability, availabilityReceived, pendingBitfield, haveAllPending, claims, early>>
      BY <2>1, <2>2
    <3>2. Heard(c)'
      BY <1>0, <1>2, <3>1 DEF Heard, Waits, ClaimsAreKept, NotStarted
    <3> QED
      BY <1>0, <1>2, <3>1, <3>2, TheirsByConnection, CountsStay
  <2>3. CASE ~availabilityReceived[c]
    <3>1. /\ availabilityReceived'[c] /\ claims'[c] = Announced(m) /\ early'[c] = {}
          /\ \A d \in Conns \ {c} : UNCHANGED <<availabilityReceived[d], claims[d], early[d]>>
      BY <2>1, <2>3 DEF AnnounceTyped
    <3>2. ~Waits(c)
      BY <1>0, <2>3 DEF Heard
    <3>3. CASE TableKnown /\ UNCHANGED <<pendingBitfield, haveAllPending, bitfield, isSeed, availability>>
               /\ m.kind = "have_none" /\ bitfield[c].has = {}
      <4>1. Announced(m) = {}
        BY <3>3 DEF Announced
      <4>2. Heard(c)'
        BY <1>0, <1>2, <3>1, <3>2, <3>3, <4>1 DEF Heard, Waits, ClaimsAreKept, NotStarted
      <4> QED
        BY <1>0, <1>2, <3>1, <3>3, <4>2, TheirsByConnection, CountsStay
    <3>4. CASE TableKnown /\ UNCHANGED <<pendingBitfield, haveAllPending>> /\ ApplyBitfield(c, Announced(m))
      <4>1. CountsAgree' /\ bitfield'[c] = Bitfield(Announced(m)) /\ (isSeed'[c] <=> Announced(m) = AnnouncePieces)
        BY <1>0, <3>4, AnnouncedPieces, BitfieldCounts
      <4>2. bitfield'[c].has = Announced(m) /\ bitfield'[c].known
        BY <4>1 DEF Bitfield
      <4>3. \A d \in Conns \ {c} : bitfield'[d] = bitfield[d] /\ isSeed'[d] = isSeed[d]
        BY <3>4 DEF ApplyBitfield, AnnounceTyped
      <4>4. Heard(c)'
        BY <1>0, <1>2, <3>1, <3>2, <3>4, <4>1, <4>2 DEF Heard, Waits, ClaimsAreKept, NotStarted, TableKnown
      <4> QED
        BY <1>2, <3>1, <3>4, <4>1, <4>3, <4>4, TheirsByConnection
    <3>5. CASE /\ ~TableKnown /\ UNCHANGED <<bitfield, isSeed, availability>>
               /\ haveAllPending' = [haveAllPending EXCEPT ![c] = m.kind = "have_all"]
               /\ pendingBitfield' = [pendingBitfield EXCEPT ![c] =
                    [some |-> m.kind = "bitfield", has |-> IF m.kind = "bitfield" THEN Announced(m) ELSE {}]]
      <4>1. /\ (haveAllPending'[c] <=> m.kind = "have_all") /\ (pendingBitfield'[c].some <=> m.kind = "bitfield")
            /\ m.kind = "bitfield" => pendingBitfield'[c].has = Announced(m)
            /\ \A d \in Conns \ {c} : haveAllPending'[d] = haveAllPending[d] /\ pendingBitfield'[d] = pendingBitfield[d]
        BY <3>5 DEF AnnounceTyped
      <4>2. /\ m.kind = "have_all" => Announced(m) = AnnouncePieces
            /\ m.kind \notin {"bitfield", "have_all"} => Announced(m) = {}
        BY DEF Announced
      <4>3. mode = "fetching" /\ ~inited[c]
        BY <1>0, <3>5 DEF TableKnown, Told
      <4>4. Heard(c)'
        BY <1>0, <1>2, <3>1, <3>2, <3>5, <4>1, <4>2, <4>3 DEF Heard, Waits, ClaimsAreKept, NotStarted
      <4> QED
        BY <1>0, <1>2, <3>1, <3>5, <4>1, <4>4, TheirsByConnection, CountsStay
    <3> QED
      BY <2>1, <2>3, <3>3, <3>4, <3>5
  <2> QED
    BY <2>2, <2>3
<1>4. CASE HandleMisfit(c)
  <2>1. /\ UNCHANGED <<bitfield, isSeed, pendingBitfield, haveAllPending, availability, claims, early>>
        /\ availabilityReceived[c] => availabilityReceived'[c]
        /\ \A d \in Conns \ {c} : availabilityReceived'[d] = availabilityReceived[d]
    BY <1>4 DEF HandleMisfit, AnnounceTyped
  <2>2. Heard(c)'
    BY <1>0, <1>2, <2>1 DEF Heard, Waits, ClaimsAreKept, NotStarted
  <2> QED
    BY <1>0, <1>2, <2>1, <2>2, TheirsByConnection, CountsStay
<1>5. CASE HandleHave(c)
  <2>1. UNCHANGED <<isSeed, availabilityReceived, pendingBitfield, haveAllPending>>
    BY <1>5 DEF HandleHave
  <2>2. PICK i \in AnnouncePieces :
         /\ claims' = [claims EXCEPT ![c] = @ \cup {i}]
         /\ early' = [early EXCEPT ![c] =
                         IF TableKnown /\ bitfield[c].known THEN @ \ {i} ELSE @ \cup ({i} \ claims[c])]
         /\ IF TableKnown /\ bitfield[c].known /\ i \notin bitfield[c].has
            THEN /\ bitfield' = [bitfield EXCEPT ![c] = Bitfield(@.has \cup {i})]
                 /\ availability' = [availability EXCEPT ![i] = @ + 1]
            ELSE UNCHANGED <<bitfield, availability>>
    BY <1>5 DEF HandleHave
  <2>3. \A d \in Conns \ {c} : UNCHANGED <<claims[d], early[d]>>
    BY <2>2
  <2>4. claims'[c] \ early'[c] = IF TableKnown /\ bitfield[c].known THEN (claims[c] \ early[c]) \cup {i}
                                ELSE claims[c] \ early[c]
    BY <2>2 DEF AnnounceTyped
  <2>5. CASE ~(TableKnown /\ bitfield[c].known /\ i \notin bitfield[c].has)
    <3>1. UNCHANGED <<bitfield, availability>>
      BY <2>2, <2>5
    <3>2. Heard(c)'
      BY <1>0, <1>2, <2>1, <2>5, <2>4, <3>1 DEF Heard, Waits, ClaimsAreKept, NotStarted
    <3> QED
      BY <1>0, <1>2, <2>1, <2>3, <3>1, <3>2, TheirsByConnection, CountsStay
  <2>6. CASE TableKnown /\ bitfield[c].known /\ i \notin bitfield[c].has
    <3>1. /\ bitfield'[c].has = bitfield[c].has \cup {i} /\ bitfield'[c].known
          /\ \A d \in Conns \ {c} : bitfield'[d] = bitfield[d]
      BY <2>2, <2>6 DEF AnnounceTyped, Bitfield
    <3>2. ~isSeed[c]
      BY <1>0, <1>2, <2>6 DEF Heard
    <3>3. Heard(c)'
      BY <1>0, <1>2, <2>1, <2>6, <2>4, <3>1, <3>2 DEF Heard, Waits, ClaimsAreKept, NotStarted, TableKnown
    <3>4. Counted(c)' = Counted(c) \cup {i} /\ i \notin Counted(c)
      BY <2>1, <2>6, <3>1, <3>2 DEF Counted
    <3>5. ASSUME NEW j \in AnnouncePieces
          PROVE  availability'[j] = availability[j] - (IF j \in Counted(c) THEN 1 ELSE 0)
                                      + (IF j \in Counted(c)' THEN 1 ELSE 0)
      <4>1. availability[j] \in Int /\ availability'[j] = (IF j = i THEN availability[j] + 1 ELSE availability[j])
        BY <2>2, <2>6 DEF AnnounceTyped
      <4> QED
        BY <3>4, <4>1
    <3>6. CountsAgree'
      BY <1>0, <2>1, <3>1, <3>5, OneConnectionCounts
    <3> QED
      BY <1>2, <2>1, <2>3, <3>1, <3>3, <3>6, TheirsByConnection
  <2> QED
    BY <2>5, <2>6
<1>6. CASE HandleAllowedFast(c)
  <2>1. UNCHANGED <<bitfield, isSeed, availabilityReceived, pendingBitfield, haveAllPending, availability, claims, early>>
    BY <1>6 DEF HandleAllowedFast
  <2>2. Heard(c)'
    BY <1>0, <1>2, <2>1 DEF Heard, Waits, ClaimsAreKept, NotStarted
  <2> QED
    BY <1>0, <1>2, <2>1, <2>2, TheirsByConnection, CountsStay
<1> QED
  BY <1>3, <1>4, <1>5, <1>6

----------------------------------------------------------------------------
(* The theorem *)

LEMMA AnnounceStep ==
    ASSUME AnnounceAssumption, AnnounceInv, [AnnounceNext]_announceVars
    PROVE  AnnounceInv'
<1> USE DEF AnnounceInv
<1>1. CASE SessionSteps
  BY <1>1, SessionTypes, OursAfterSession, TheirsAfterSession
<1>2. ASSUME NEW c \in Conns,
             Register(c) \/ Start(c) \/ Greet(c) \/ DropPeer(c) \/ Top(c) \/ Notified(c) \/ Switch(c)
      PROVE  AnnounceInv'
  BY <1>2, ConnectionTypes, OursAfterConnection, TheirsAfterConnection
<1>3. ASSUME NEW c \in Conns, HandleAvailability(c) \/ HandleMisfit(c) \/ HandleHave(c) \/ HandleAllowedFast(c)
      PROVE  AnnounceInv'
  <2>1. Reads(c)
    BY <1>3 DEF HandleAvailability, HandleMisfit, HandleHave, HandleAllowedFast
  <2> QED
    BY <1>3, <2>1, MessageTypes, OursAfterMessage, TheirsAfterMessage
<1>4. CASE UNCHANGED announceVars
  <2>1. AnnounceTyped'
    BY <1>4 DEF announceVars, ourVars, pieceVars, theirVars, AnnounceTyped
  <2>2. Ours'
    BY <1>4 DEF announceVars, ourVars, pieceVars, theirVars, Ours, Told, AtStep
  <2>3. \A c \in Conns : Heard(c)'
    BY <1>4 DEF announceVars, theirVars, Theirs, Heard, Fresh, Waits, ClaimsAreKept, NotStarted
  <2>4. CountsAgree'
    BY <1>4, CountsStay DEF announceVars, theirVars, Theirs
  <2> QED
    BY <2>1, <2>2, <2>3, <2>4 DEF Theirs
<1> QED
  BY <1>1, <1>2, <1>3, <1>4 DEF AnnounceNext

LEMMA AnnouncedByInvariant ==
    ASSUME AnnounceInv
    PROVE  PiecesAreAnnounced
<1>1. NothingUnadvertised
  <2> SUFFICES ASSUME NEW c \in Active
               PROVE  /\ inited[c] /\ ~shut => completed \subseteq told[c] \cup queuedHaves[c] \cup AtStep("completed")
                      /\ told[c] \subseteq completed \cup lost
                      /\ at[c] = "select" =>
                           /\ mode = "ready" /\ ~inited[c] => c \in wake
                           /\ c \in wake \/ queuedHaves[c] \subseteq AtStep("queued")
    BY DEF NothingUnadvertised
  <2> QED
    BY DEF AnnounceInv, Ours, Told, Active, AnnounceTyped
<1>2. AvailabilityAgrees
  <2>1. ASSUME NEW i \in AnnouncePieces PROVE availability[i] = Cardinality({c \in Active : i \in Counted(c)})
    <3>1. {c \in Active : i \in Counted(c)} = Having(i)
      BY DEF AnnounceInv, Theirs, Heard, Active, Having, Counted
    <3> QED
      BY <3>1 DEF AnnounceInv, Theirs, CountsAgree
  <2>2. ASSUME NEW c \in Active
        PROVE  /\ isSeed[c] => bitfield[c].has = AnnouncePieces
               /\ inited[c] => bitfield[c].has = claims[c] \ early[c]
    BY DEF AnnounceInv, Theirs, Heard, Active, ClaimsAreKept, Waits
  <2> QED
    BY <2>1, <2>2 DEF AvailabilityAgrees
<1> QED
  BY <1>1, <1>2 DEF PiecesAreAnnounced

\* For any connections, pieces and messages, whatever order they come in around
\* the switch from metadata to download (peer_conn.go:342, 2916): what we complete
\* reaches every peer, and what peers announce is counted once and never lost, but
\* the Haves that come before the connection has a bitfield.
THEOREM AnnouncementsHold ==
    AnnounceAssumption => (AnnounceSpec => []PiecesAreAnnounced)
<1> SUFFICES ASSUME AnnounceAssumption PROVE AnnounceSpec => []PiecesAreAnnounced
  OBVIOUS
<1>1. AnnounceInit => AnnounceInv
  BY AnnounceInitially
<1>2. AnnounceInv /\ [AnnounceNext]_announceVars => AnnounceInv'
  BY AnnounceStep
<1>3. AnnounceInv => PiecesAreAnnounced
  BY AnnouncedByInvariant
<1> QED
  BY <1>1, <1>2, <1>3, PTL DEF AnnounceSpec
=============================================================================
