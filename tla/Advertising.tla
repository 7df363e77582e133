----------------------------- MODULE Advertising -----------------------------
(***************************************************************************)
(* What each end of a connection knows of the other's pieces: the first    *)
(* bitfield and the Haves that follow it, the switch from fetching a       *)
(* magnet's metadata to downloading, and the swarm availability counted    *)
(* from the announcements (pkg/downloader peer_conn.go, fast_extension.go, *)
(* piece_picker.go, pkg/peer client.go).                                   *)
(*                                                                         *)
(* A critical section of Session.mu is one action.  onMetadataDownloaded   *)
(* installs the piece table first ("installed") and leaves metadata mode   *)
(* in a second section ("ready").  The goroutine that completes a piece (a *)
(* write worker, the verifier or one that found the file gone and repaired *)
(* it) leaves Session.mu before it queues the Have on every connection and *)
(* wakes each; a wakeup is one token however many Haves are queued.        *)
(***************************************************************************)
EXTENDS Integers, FiniteSets, Sequences

CONSTANTS
    Conns,          \* connections of the session
    AnnouncePieces,
    Writers,        \* goroutines that complete pieces
    MaxOffers,      \* pendingAllowedFastCap
    FirstHeld,      \* pieces held when the table is installed
    AnnouncePlans   \* bounds: the connections and how many messages the peer of each sends, the goroutines
                    \* that complete pieces, how often the file is found gone, and whether the session closes

Announces == [kind : {"bitfield"}, of : SUBSET AnnouncePieces] \cup [kind : {"have_all", "have_none", "misfit"}]
               \cup [kind : {"have", "allowed_fast"}, piece : AnnouncePieces]

VARIABLES
    mode,           \* fetching, installed or ready
    completed,      \* pieces in PieceCompleted
    worker, job,    \* worker[w]: idle, completed (its piece is) or queued (its Haves are); job[w]: its piece
    shut,           \* Session.closed
    at,             \* where the loop of each connection is
    inited,         \* initializedPeersAndBitfield
    queuedHaves, wake, \* Client.queuedHaves, and the connections with a wakeup token
    told,           \* told[c]: the pieces the peer was told of
    bitfield,       \* bitfield[c]: peerBitfield, or no length yet (NoBitfield)
    isSeed, availabilityReceived, pendingBitfield, haveAllPending, \* of the loop
    pendingFast, peerFast, \* pendingAllowedFast, peerAllowedFast
    availability,   \* Session.pieceAvailability
    left,           \* bound: messages of each peer to come; -1 when it is gone for good
    spare,          \* what is left of the rest of the plan
    \* Of the history only:
    lost,           \* pieces that were completed and reset by a repair, and not completed since
    claims,         \* claims[c]: the pieces the peer says it has: its first announcement and its Haves
    early           \* early[c]: those the loop skipped because it had no bitfield to file them in

\* Finitely many connections; the pieces held are pieces; bounds are counts.
AnnounceAssumption ==
    /\ IsFiniteSet(Conns) /\ FirstHeld \subseteq AnnouncePieces
    /\ \A p \in AnnouncePlans : p.left \in [Conns -> Nat \cup {-1}]

pieceVars == <<completed, lost, spare, shut>>
ourVars == <<pieceVars, worker, job, queuedHaves, told>>
theirVars == <<bitfield, isSeed, availabilityReceived, pendingBitfield, haveAllPending, pendingFast, peerFast,
               availability, claims, early, left>>
announceVars == <<mode, ourVars, wake, at, inited, theirVars>>

NoBitfield == [known |-> FALSE, has |-> {}]
Bitfield(S) == [known |-> TRUE, has |-> S]
Nothing == [some |-> FALSE, has |-> {}]
Active == {c \in Conns : at[c] # "gone"}

AnnounceInit ==
    /\ mode \in {"fetching", "ready"} /\ completed = IF mode = "ready" THEN FirstHeld ELSE {}
    /\ worker = [w \in Writers |-> "idle"] /\ job = [w \in Writers |-> {}]
    /\ shut = FALSE /\ lost = {}
    /\ at = [c \in Conns |-> "gone"] /\ inited = [c \in Conns |-> FALSE]
    /\ queuedHaves = [c \in Conns |-> {}] /\ wake = {} /\ told = [c \in Conns |-> {}]
    /\ bitfield = [c \in Conns |-> NoBitfield] /\ isSeed = [c \in Conns |-> FALSE]
    /\ availabilityReceived = [c \in Conns |-> FALSE]
    /\ pendingBitfield = [c \in Conns |-> Nothing] /\ haveAllPending = [c \in Conns |-> FALSE]
    /\ pendingFast = [c \in Conns |-> {}] /\ peerFast = [c \in Conns |-> {}]
    /\ availability = [i \in AnnouncePieces |-> 0]
    /\ claims = [c \in Conns |-> {}] /\ early = [c \in Conns |-> {}]
    /\ \E p \in AnnouncePlans :
         left = p.left /\ spare = [writers |-> p.writers, repairs |-> p.repairs, closes |-> p.closes]

(***************************************************************************)
(* The session: metadata and completed pieces.                             *)
(***************************************************************************)
Install ==
    /\ mode = "fetching" /\ mode' = "installed"
    /\ availability' = [i \in AnnouncePieces |-> 0]
    /\ UNCHANGED <<ourVars, wake, at, inited, bitfield, isSeed, availabilityReceived, pendingBitfield,
                   haveAllPending, pendingFast, peerFast, claims, early, left>>

\* Resumed pieces count as completed from here on; every connection is woken.
Publish ==
    /\ mode = "installed" /\ mode' = "ready"
    /\ completed' = FirstHeld
    /\ wake' = Active
    /\ UNCHANGED <<lost, spare, shut, worker, job, queuedHaves, told, at, inited, theirVars>>

Takes(w, i) ==
    /\ mode = "ready" /\ worker[w] = "idle" /\ w \in spare.writers
    /\ worker' = [worker EXCEPT ![w] = "completed"] /\ job' = [job EXCEPT ![w] = {i}]

\* markPieceCompleted; a piece that is completed already is not announced again.
Complete(w, i) ==
    /\ Takes(w, i) /\ i \notin completed
    /\ completed' = completed \cup {i} /\ lost' = lost \ {i}
    /\ UNCHANGED <<mode, spare, shut, queuedHaves, told, wake, at, inited, theirVars>>

\* resetProgressAfterStorageRepair: the write of i recreated the file, i is all
\* there is, and what was announced of the others cannot be taken back.
RepairResets(w, i) ==
    /\ Takes(w, i)
    /\ spare.repairs > 0 /\ spare' = [spare EXCEPT !.repairs = @ - 1]
    /\ completed' = {i} /\ lost' = (lost \cup completed) \ {i}
    /\ UNCHANGED <<mode, shut, queuedHaves, told, wake, at, inited, theirVars>>

JobDone(w) == worker' = [worker EXCEPT ![w] = "idle"] /\ job' = [job EXCEPT ![w] = {}]

\* broadcastHave: one append per connection, then one wakeup; none once the
\* session is closed.
broadcastHave(w) ==
    /\ worker[w] = "completed"
    /\ IF shut THEN JobDone(w) /\ UNCHANGED queuedHaves
       ELSE /\ worker' = [worker EXCEPT ![w] = "queued"] /\ UNCHANGED job
            /\ queuedHaves' = [c \in Conns |-> IF c \in Active THEN queuedHaves[c] \cup job[w] ELSE queuedHaves[c]]
    /\ UNCHANGED <<mode, pieceVars, told, wake, at, inited, theirVars>>

\* A variant: the Haves wait for the connection to wake for something else.
NotifiesNobody(w) ==
    /\ worker[w] = "queued" /\ JobDone(w)
    /\ UNCHANGED <<wake, mode, pieceVars, queuedHaves, told, at, inited, theirVars>>
Notify(w) ==
    /\ worker[w] = "queued" /\ JobDone(w)
    /\ wake' = wake \cup {c \in Active : job[w] \cap queuedHaves[c] # {}}
    /\ UNCHANGED <<mode, pieceVars, queuedHaves, told, at, inited, theirVars>>

\* Close: the loops end one by one.
Shut ==
    /\ ~shut /\ spare.closes /\ shut' = TRUE
    /\ UNCHANGED <<mode, completed, lost, spare, worker, job, queuedHaves, told, wake, at, inited, theirVars>>

(***************************************************************************)
(* The start and the end of a connection.                                  *)
(***************************************************************************)
Register(c) ==
    /\ at[c] = "gone" /\ left[c] >= 0 /\ ~shut
    /\ at' = [at EXCEPT ![c] = "registered"]
    /\ UNCHANGED <<mode, ourVars, wake, inited, theirVars>>

\* Whether metadata is known is read before the pieces are.
Start(c) ==
    /\ at[c] = "registered"
    /\ at' = [at EXCEPT ![c] = IF mode = "ready" THEN "greeting" ELSE "top"]
    /\ bitfield' = [bitfield EXCEPT ![c] = IF mode = "ready" THEN Bitfield({}) ELSE NoBitfield]
    /\ UNCHANGED <<mode, ourVars, wake, inited, isSeed, availabilityReceived, pendingBitfield, haveAllPending,
                   pendingFast, peerFast, availability, claims, early, left>>

\* sendInitialPeerState: the pieces of this moment, as a bitfield, have_all or
\* have_none (nothing at all means the same as have_none).
completedPieceBitfield == completed
sendInitialPeerState(c) == told' = [told EXCEPT ![c] = completedPieceBitfield]

Greet(c) ==
    /\ at[c] = "greeting" /\ at' = [at EXCEPT ![c] = "top"]
    /\ sendInitialPeerState(c)
    /\ inited' = [inited EXCEPT ![c] = TRUE]
    /\ UNCHANGED <<mode, pieceVars, worker, job, queuedHaves, wake, theirVars>>

Count(S) == [i \in AnnouncePieces |-> IF i \in S THEN 1 ELSE 0]
Counted(c) == IF isSeed[c] THEN {} ELSE bitfield[c].has

\* removePeerAvailability, then the slot is released.
DropPeer(c) ==
    /\ at[c] \in {"top", "select"}
    /\ at' = [at EXCEPT ![c] = "gone"]
    /\ availability' = [i \in AnnouncePieces |-> availability[i] - Count(Counted(c))[i]]
    /\ bitfield' = [bitfield EXCEPT ![c] = NoBitfield]
    /\ queuedHaves' = [queuedHaves EXCEPT ![c] = {}] /\ wake' = wake \ {c}
    /\ left' = [left EXCEPT ![c] = -1]
    /\ UNCHANGED <<mode, pieceVars, worker, job, told, inited, isSeed, availabilityReceived, pendingBitfield,
                   haveAllPending, pendingFast, peerFast, claims, early>>

(***************************************************************************)
(* The peer's announcements.  A seed is left out of the counts.            *)
(***************************************************************************)
\* bitfieldComplete: a full bitfield makes the peer a seed (markPeerSeed);
\* any other one replaces what was counted for it (setPeerBitfield).
ApplyBitfield(c, S) ==
    /\ bitfield' = [bitfield EXCEPT ![c] = Bitfield(S)]
    /\ isSeed' = [isSeed EXCEPT ![c] = S = AnnouncePieces]
    /\ availability' = [i \in AnnouncePieces |->
          availability[i] - Count(Counted(c))[i] + (IF S = AnnouncePieces THEN 0 ELSE Count(S)[i])]

\* initAfterMetadata: our bitfield, then the announcements kept from before
\* the piece count was known.  A bitfield applied since then stays.
initAfterMetadata(c) ==
    /\ sendInitialPeerState(c)
    /\ inited' = [inited EXCEPT ![c] = TRUE]
    /\ IF haveAllPending[c] THEN ApplyBitfield(c, AnnouncePieces)
       ELSE IF pendingBitfield[c].some THEN ApplyBitfield(c, pendingBitfield[c].has)
       ELSE /\ bitfield' = [bitfield EXCEPT ![c] = IF @.known THEN @ ELSE Bitfield({})]
            /\ UNCHANGED <<isSeed, availability>>
    /\ haveAllPending' = [haveAllPending EXCEPT ![c] = FALSE]
    /\ pendingBitfield' = [pendingBitfield EXCEPT ![c] = Nothing]
    /\ peerFast' = [peerFast EXCEPT ![c] = @ \cup pendingFast[c]]
    /\ pendingFast' = [pendingFast EXCEPT ![c] = {}]

\* The top of the loop: a connection opened before metadata switches over.
Top(c) ==
    /\ at[c] = "top" /\ at' = [at EXCEPT ![c] = "select"]
    /\ IF ~inited[c] /\ mode = "ready" THEN initAfterMetadata(c)
       ELSE UNCHANGED <<told, inited, bitfield, isSeed, availability, haveAllPending, pendingBitfield,
                        peerFast, pendingFast>>
    /\ UNCHANGED <<mode, pieceVars, worker, job, queuedHaves, wake, availabilityReceived, claims, early, left>>

\* Nothing may precede the bitfield, which covers the Haves queued before it.
Notified(c) ==
    /\ at[c] = "select" /\ c \in wake
    /\ at' = [at EXCEPT ![c] = "top"]
    /\ wake' = wake \ {c}
    /\ told' = [told EXCEPT ![c] = IF inited[c] THEN @ \cup queuedHaves[c] ELSE @]
    /\ queuedHaves' = [queuedHaves EXCEPT ![c] = {}]
    /\ UNCHANGED <<mode, pieceVars, worker, job, inited, theirVars>>

\* A message that arrives after metadata is in, before the loop noticed,
\* switches the connection over first.
Switch(c) ==
    /\ at[c] = "select" /\ ~inited[c] /\ mode = "ready" /\ left[c] > 0
    /\ initAfterMetadata(c)
    /\ UNCHANGED <<mode, pieceVars, worker, job, queuedHaves, wake, at, availabilityReceived, claims, early, left>>

Reads(c) ==
    /\ at[c] = "select" /\ (mode = "ready" => inited[c])
    /\ left[c] > 0 /\ left' = [left EXCEPT ![c] = @ - 1]
    /\ at' = [at EXCEPT ![c] = "top"]
    /\ UNCHANGED <<mode, ourVars, wake, inited>>

TableKnown == mode # "fetching"

\* Only the first bitfield, have_all or have_none counts.  Before the piece
\* count is known it is kept; a bitfield that does not fit it is dropped.
HandleAvailability(c) ==
    /\ Reads(c)
    /\ \E m \in {x \in Announces : x.kind \in {"bitfield", "have_all", "have_none"}} :
         LET S == IF m.kind = "bitfield" THEN m.of ELSE IF m.kind = "have_all" THEN AnnouncePieces ELSE {}
         IN IF availabilityReceived[c]
            THEN UNCHANGED <<bitfield, isSeed, availability, availabilityReceived, pendingBitfield,
                             haveAllPending, claims, early>>
            ELSE /\ availabilityReceived' = [availabilityReceived EXCEPT ![c] = TRUE]
                 /\ claims' = [claims EXCEPT ![c] = S] /\ early' = [early EXCEPT ![c] = {}]
                 /\ IF TableKnown
                    THEN /\ UNCHANGED <<pendingBitfield, haveAllPending>>
                         /\ IF m.kind = "have_none" /\ bitfield[c].has = {}
                            THEN UNCHANGED <<bitfield, isSeed, availability>> ELSE ApplyBitfield(c, S)
                    ELSE /\ haveAllPending' = [haveAllPending EXCEPT ![c] = m.kind = "have_all"]
                         /\ pendingBitfield' = [pendingBitfield EXCEPT ![c] =
                              [some |-> m.kind = "bitfield", has |-> IF m.kind = "bitfield" THEN S ELSE {}]]
                         /\ UNCHANGED <<bitfield, isSeed, availability>>
    /\ UNCHANGED <<pendingFast, peerFast>>

\* A bitfield of another length: refused once the piece count is known, kept
\* until then and dropped by the replay.
HandleMisfit(c) ==
    /\ Reads(c)
    /\ availabilityReceived' = [availabilityReceived EXCEPT ![c] = @ \/ ~TableKnown]
    /\ UNCHANGED <<bitfield, isSeed, pendingBitfield, haveAllPending, pendingFast, peerFast, availability,
                   claims, early>>

\* A Have counts only once the bitfield has its length, which it gets with the
\* piece count; one that comes before is skipped, not kept for initAfterMetadata
\* as bitfields and allowed-fast offers are.
HandleHave(c) ==
    /\ Reads(c)
    /\ \E i \in AnnouncePieces :
         /\ claims' = [claims EXCEPT ![c] = @ \cup {i}]
         /\ early' = [early EXCEPT ![c] =
                         IF TableKnown /\ bitfield[c].known THEN @ \ {i} ELSE @ \cup ({i} \ claims[c])]
         /\ IF TableKnown /\ bitfield[c].known /\ i \notin bitfield[c].has
            THEN /\ bitfield' = [bitfield EXCEPT ![c] = Bitfield(@.has \cup {i})]
                 /\ availability' = [availability EXCEPT ![i] = @ + 1]
            ELSE UNCHANGED <<bitfield, availability>>
    /\ UNCHANGED <<isSeed, availabilityReceived, pendingBitfield, haveAllPending, pendingFast, peerFast>>

HandleAllowedFast(c) ==
    /\ Reads(c)
    /\ \E i \in AnnouncePieces :
         IF TableKnown
         THEN /\ peerFast' = [peerFast EXCEPT ![c] = IF Cardinality(@) < MaxOffers THEN @ \cup {i} ELSE @]
              /\ UNCHANGED pendingFast
         ELSE /\ pendingFast' = [pendingFast EXCEPT ![c] = IF Cardinality(@) < MaxOffers THEN @ \cup {i} ELSE @]
              /\ UNCHANGED peerFast
    /\ UNCHANGED <<bitfield, isSeed, availabilityReceived, pendingBitfield, haveAllPending, availability,
                   claims, early>>

SessionSteps ==
    \/ Install \/ Publish \/ Shut
    \/ \E w \in Writers, i \in AnnouncePieces : Complete(w, i) \/ RepairResets(w, i)
    \/ \E w \in Writers : broadcastHave(w) \/ Notify(w)

AnnounceNext ==
    \/ SessionSteps
    \/ \E c \in Conns :
         \/ Register(c) \/ Start(c) \/ Greet(c) \/ DropPeer(c)
         \/ Top(c) \/ Notified(c) \/ Switch(c)
         \/ HandleAvailability(c) \/ HandleMisfit(c) \/ HandleHave(c) \/ HandleAllowedFast(c)

AnnounceSpec == AnnounceInit /\ [][AnnounceNext]_announceVars
-----------------------------------------------------------------------------
\* The pieces whose goroutine is at step s.
AtStep(s) == UNION {job[w] : w \in {v \in Writers : worker[v] = s}}

\* A piece we complete is never hidden from a peer while the session is open: it
\* is in the bitfield or a Have the peer was sent, in a queued Have, or its
\* goroutine is still to queue it; a connection with something to send (queued
\* Haves, or a bitfield once metadata is in) never sleeps without a wakeup on its
\* way; and a peer is told of no piece that was never there.  A piece that a
\* repair took back stays announced, and its Have may even go out after that
\* (resume.go:991): there is no message that takes it back.
NothingUnadvertised ==
    \A c \in Active :
        /\ inited[c] /\ ~shut => completed \subseteq told[c] \cup queuedHaves[c] \cup AtStep("completed")
        /\ told[c] \subseteq completed \cup lost
        /\ at[c] = "select" =>
             /\ mode = "ready" /\ ~inited[c] => c \in wake
             /\ c \in wake \/ queuedHaves[c] \subseteq AtStep("queued")

\* The availability of a piece is the number of connected peers, seeds aside,
\* that have it by their record; and once a connection downloads, that record is
\* exactly what its peer announced: nothing is lost to the switch from metadata
\* to the download, but the Haves that came before the connection had a bitfield.
\* The comment of initAfterMetadata (peer_conn.go:2730) says that what the peer
\* announced before is replayed; of Haves that is not so.
AvailabilityAgrees ==
    /\ TableKnown => \A i \in AnnouncePieces : availability[i] = Cardinality({c \in Active : i \in Counted(c)})
    /\ \A c \in Active :
         /\ isSeed[c] => bitfield[c].has = AnnouncePieces
         /\ inited[c] => bitfield[c].has = claims[c] \ early[c]

\* No piece we complete is hidden from a peer, and the counts of who has which
\* piece are right, through the switch from metadata to download (peer_conn.go:342).
PiecesAreAnnounced == NothingUnadvertised /\ AvailabilityAgrees
=============================================================================
