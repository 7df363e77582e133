------------------------------- MODULE Uploads -------------------------------
(***************************************************************************)
(* The upload side of a session: interest, the choker, the choke state on  *)
(* the wire, the queue of block requests each connection's loop serves     *)
(* from the upload limiter, and the allowed-fast set a choked peer may     *)
(* fetch (pkg/downloader choking.go, peer_conn.go, ratelimiter.go).        *)
(*                                                                         *)
(* A critical section of Session.mu is one action, so the choker can act   *)
(* between a loop's reads of AmChoking and its use of them.  One turn of a *)
(* loop goes select -> handle -> serve -> select.  A request stands for a  *)
(* block of a piece (a piece has one block); `fits` says whether it lies   *)
(* within the piece and is no longer than a block.  Speeds only order the  *)
(* candidates of a choke round, so any order may occur.  The session's     *)
(* limiter and the global one are one bucket: a reservation that fails at  *)
(* the second is refunded to the first.                                    *)
(***************************************************************************)
EXTENDS Integers, FiniteSets, Sequences, SequencesExt

CONSTANTS
    Peers,          \* the peers of the torrent
    FastPeers,      \* those that negotiated the fast extension
    UploadPieces,
    FastSet,        \* localAllowedFast: the pieces of a peer's allowed-fast set
    Slots,          \* the 4 upload slots of a choke round
    MaxUploadQueue, \* maxUploadQueue
    ServeRounds,    \* allowedFastServeRounds
    BlockSize,      \* tokens a block costs
    Limits,         \* bytes per tick the upload limiter may be set to; 0 is unlimited
    UploadPlans     \* bounds: the peers that connect, the kinds of message they send, and how many
                    \* messages, connections and changes (pauses, limits, lost pieces) there are

Requests == [piece : UploadPieces, fits : BOOLEAN]
Messages == {[kind |-> k] : k \in {"interested", "not_interested", "keep_alive"}}
              \cup [kind : {"request", "cancel"}, of : Requests]

VARIABLES
    paused, uploadable,  \* Session.paused; the pieces in PieceCompleted
    active,             \* peers with a connection
    interested,         \* PeerState.Interested
    amChoking,          \* PeerState.AmChoking
    optimistic,         \* chokeLoop's optimisticPeer: {} or one peer
    limit, tokens,      \* RateLimiter.limit and tokens
    uploadWake,               \* connections whose Client.notify holds a token
    uploadAt, msg,            \* where each loop is in its turn, and the message in hand
    wireAmChoking,      \* choke state last sent to the peer
    uploadChoked,       \* the queue was dropped for the current choke
    uploadQueue,
    allowedFast,        \* allowedFastForPeer
    fastServed,         \* allowedFastServed
    rateRetry,          \* connections with their retry timer armed
    inbox,              \* messages on their way from each peer
    owed,               \* owed[p][r]: requests r of p neither served nor rejected
    uploadPlan                \* what is left of the plan

sessionVars == <<paused, uploadable, limit, tokens>>
chokeVars == <<active, interested, amChoking, optimistic, uploadWake>>
queueVars == <<wireAmChoking, uploadChoked, uploadQueue, owed>>
loopVars == <<uploadAt, msg, allowedFast, fastServed, rateRetry, inbox>>
uploadsVars == <<sessionVars, chokeVars, queueVars, loopVars, uploadPlan>>

\* What the constants are.
UploadAssumption == IsFiniteSet(Peers) /\ Slots \in Nat

\* The burst holds at least one block, or a small limit would never pass one.
burstFor(l) == IF l > 0 /\ l < BlockSize THEN BlockSize ELSE l

UploadsInit ==
    /\ paused = FALSE /\ uploadable = UploadPieces
    /\ active = {} /\ optimistic = {} /\ uploadWake = {}
    /\ interested = [p \in Peers |-> FALSE] /\ amChoking = [p \in Peers |-> TRUE]
    /\ limit \in Limits /\ tokens = burstFor(limit)
    /\ uploadAt = [p \in Peers |-> "gone"] /\ msg = [p \in Peers |-> [kind |-> "keep_alive"]]
    /\ wireAmChoking = [p \in Peers |-> TRUE] /\ uploadChoked = [p \in Peers |-> FALSE]
    /\ uploadQueue = [p \in Peers |-> <<>>]
    /\ allowedFast = [p \in Peers |-> {}] /\ fastServed = [p \in Peers |-> [i \in UploadPieces |-> 0]]
    /\ rateRetry = {}
    /\ inbox = [p \in Peers |-> <<>>]
    /\ owed = [p \in Peers |-> [r \in Requests |-> 0]]
    /\ uploadPlan \in UploadPlans

(***************************************************************************)
(* The limiter.                                                            *)
(***************************************************************************)
CanReserve == limit = 0 \/ tokens >= BlockSize
Charge == tokens' = IF limit = 0 THEN tokens ELSE tokens - BlockSize

\* refillLocked, a tick later.
Refill ==
    /\ limit > 0 /\ tokens < burstFor(limit)
    /\ tokens' = IF tokens + limit > burstFor(limit) THEN burstFor(limit) ELSE tokens + limit
    /\ UNCHANGED <<paused, uploadable, limit, chokeVars, queueVars, loopVars, uploadPlan>>

SetLimit(l) ==
    /\ uploadPlan.changes > 0 /\ uploadPlan' = [uploadPlan EXCEPT !.changes = @ - 1]
    /\ l # limit /\ limit' = l
    /\ tokens' = IF tokens > burstFor(l) THEN burstFor(l) ELSE tokens
    /\ UNCHANGED <<paused, uploadable, chokeVars, queueVars, loopVars>>

(***************************************************************************)
(* Connections.                                                            *)
(***************************************************************************)
\* Choke and interest start over on every connection.
Connect(p) ==
    /\ uploadAt[p] = "gone" /\ p \in uploadPlan.peers /\ ~paused
    /\ uploadPlan.conns > 0 /\ uploadPlan' = [uploadPlan EXCEPT !.conns = @ - 1]
    /\ active' = active \cup {p} /\ uploadWake' = uploadWake \ {p}
    /\ interested' = [interested EXCEPT ![p] = FALSE] /\ amChoking' = [amChoking EXCEPT ![p] = TRUE]
    /\ uploadAt' = [uploadAt EXCEPT ![p] = "select"]
    /\ wireAmChoking' = [wireAmChoking EXCEPT ![p] = TRUE]
    /\ uploadChoked' = [uploadChoked EXCEPT ![p] = FALSE]
    /\ uploadQueue' = [uploadQueue EXCEPT ![p] = <<>>]
    /\ allowedFast' = [allowedFast EXCEPT ![p] = IF p \in FastPeers THEN FastSet \cap uploadable ELSE {}]
    /\ fastServed' = [fastServed EXCEPT ![p] = [i \in UploadPieces |-> 0]]
    /\ rateRetry' = rateRetry \ {p}
    /\ inbox' = [inbox EXCEPT ![p] = <<>>]
    /\ owed' = [owed EXCEPT ![p] = [r \in Requests |-> 0]]
    /\ UNCHANGED <<sessionVars, optimistic, msg>>

\* The peer leaves, or the loop ends at its top because of a pause.
EndConnection(p) ==
    /\ uploadAt[p] = "select" /\ (paused \/ uploadPlan.conns > 0)
    /\ uploadAt' = [uploadAt EXCEPT ![p] = "gone"] /\ active' = active \ {p}
    /\ UNCHANGED <<sessionVars, interested, amChoking, optimistic, uploadWake, queueVars, msg, allowedFast,
                   fastServed, rateRetry, inbox, uploadPlan>>

PauseOrResume ==
    /\ uploadPlan.changes > 0 /\ uploadPlan' = [uploadPlan EXCEPT !.changes = @ - 1]
    /\ paused' = ~paused
    /\ UNCHANGED <<uploadable, limit, tokens, chokeVars, queueVars, loopVars>>

\* A piece turns out damaged and is downloaded again, or is completed.
Lose(i) ==
    /\ uploadPlan.changes > 0 /\ uploadPlan' = [uploadPlan EXCEPT !.changes = @ - 1]
    /\ uploadable' = IF i \in uploadable THEN uploadable \ {i} ELSE uploadable \cup {i}
    /\ UNCHANGED <<paused, limit, tokens, chokeVars, queueVars, loopVars>>

\* The peer sends a message; it cancels only what it asked for.
PeerSends(p, m) ==
    /\ uploadAt[p] # "gone" /\ m.kind \in uploadPlan.kinds
    /\ uploadPlan.messages > 0 /\ uploadPlan' = [uploadPlan EXCEPT !.messages = @ - 1]
    /\ inbox' = [inbox EXCEPT ![p] = Append(@, m)]
    /\ IF m.kind = "request" THEN owed' = [owed EXCEPT ![p][m.of] = @ + 1] ELSE UNCHANGED owed
    /\ m.kind = "cancel" => owed[p][m.of] > 0
    /\ UNCHANGED <<sessionVars, chokeVars, wireAmChoking, uploadChoked, uploadQueue, uploadAt, msg,
                   allowedFast, fastServed, rateRetry>>

(***************************************************************************)
(* The choke state of a connection.                                        *)
(***************************************************************************)
\* noteUploadChoke keeps the allowed-fast requests and rejects the others.
Kept(p) == SelectSeq(uploadQueue[p], LAMBDA r : r.piece \in allowedFast[p])
Dropped(p) == SelectSeq(uploadQueue[p], LAMBDA r : r.piece \notin allowedFast[p])
Occurs(r, s) == Cardinality({k \in DOMAIN s : s[k] = r})

\* applyChoke: the change goes on the wire, then a new choke drops the queue.
ApplyChoke(p, choking) ==
    /\ wireAmChoking' = [wireAmChoking EXCEPT ![p] = choking]
    /\ uploadChoked' = [uploadChoked EXCEPT ![p] = choking]
    /\ IF choking /\ ~uploadChoked[p]
       THEN /\ uploadQueue' = [uploadQueue EXCEPT ![p] = Kept(p)]
            /\ owed' = [owed EXCEPT ![p] = [r \in Requests |->
                          IF p \in FastPeers THEN @[r] - Occurs(r, Dropped(p)) ELSE @[r]]]
       ELSE UNCHANGED <<uploadQueue, owed>>

\* refreshUploadChoke looks only when there is a queue to drop.
RefreshChoke(p) ==
    IF uploadQueue[p] = <<>> THEN UNCHANGED queueVars ELSE ApplyChoke(p, amChoking[p])

(***************************************************************************)
(* A turn of the loop.                                                     *)
(***************************************************************************)
ChokeNotified(p) ==
    /\ uploadAt[p] = "select" /\ p \in uploadWake
    /\ uploadWake' = uploadWake \ {p}
    /\ ApplyChoke(p, amChoking[p])
    /\ UNCHANGED <<sessionVars, active, interested, amChoking, optimistic, loopVars, uploadPlan>>

RetryDue(p) ==
    /\ uploadAt[p] = "select" /\ p \in rateRetry
    /\ rateRetry' = rateRetry \ {p}
    /\ RefreshChoke(p)
    /\ uploadAt' = [uploadAt EXCEPT ![p] = "serve"]
    /\ UNCHANGED <<sessionVars, chokeVars, msg, allowedFast, fastServed, inbox, uploadPlan>>

Take(p) ==
    /\ uploadAt[p] = "select" /\ inbox[p] # <<>>
    /\ inbox' = [inbox EXCEPT ![p] = Tail(@)]
    /\ IF Head(inbox[p]).kind = "keep_alive"
       THEN RefreshChoke(p) /\ uploadAt' = [uploadAt EXCEPT ![p] = "serve"] /\ UNCHANGED msg
       ELSE /\ ApplyChoke(p, amChoking[p])
            /\ uploadAt' = [uploadAt EXCEPT ![p] = "handle"] /\ msg' = [msg EXCEPT ![p] = Head(inbox[p])]
    /\ UNCHANGED <<sessionVars, chokeVars, allowedFast, fastServed, rateRetry, uploadPlan>>

\* A newly interested peer is unchoked at once while fewer than Slots
\* interested peers are; scanning for that is rate limited.
Unchoked == {p \in active : interested[p] /\ ~amChoking[p]}
HandleInterested(p) ==
    /\ uploadAt[p] = "handle" /\ msg[p].kind = "interested"
    /\ uploadAt' = [uploadAt EXCEPT ![p] = "serve"]
    /\ IF interested[p] THEN UNCHANGED <<interested, amChoking, queueVars>>
       ELSE \E scan \in BOOLEAN :
              /\ interested' = [interested EXCEPT ![p] = TRUE]
              /\ amChoking' = [amChoking EXCEPT ![p] = @ /\ ~(scan /\ Cardinality(Unchoked) < Slots)]
              /\ ApplyChoke(p, amChoking'[p])
    /\ UNCHANGED <<sessionVars, active, optimistic, uploadWake, msg, allowedFast, fastServed, rateRetry,
                   inbox, uploadPlan>>

HandleNotInterested(p) ==
    /\ uploadAt[p] = "handle" /\ msg[p].kind = "not_interested"
    /\ uploadAt' = [uploadAt EXCEPT ![p] = "serve"]
    /\ interested' = [interested EXCEPT ![p] = FALSE]
    /\ UNCHANGED <<sessionVars, active, amChoking, optimistic, uploadWake, queueVars, msg, allowedFast,
                   fastServed, rateRetry, inbox, uploadPlan>>

\* A fast peer is told which request is not served.
Rejects(p, r) == IF p \in FastPeers THEN <<r>> ELSE <<>>

\* A request is read together with AmChoking.  Refused while paused or choked
\* (other than for an allowed-fast piece, and that only ServeRounds times);
\* the turn then ends without a pump.
HandleRequest(p) ==
    LET r == msg[p].of
        choking == amChoking[p]
        refused == paused \/ (choking /\ r.piece \notin allowedFast[p])
        servable == r.piece \in uploadable /\ r.fits
        spent == ~refused /\ servable /\ choking /\ fastServed[p][r.piece] >= ServeRounds
        base == IF choking /\ ~uploadChoked[p] THEN Kept(p) ELSE uploadQueue[p]
        queued == ~refused /\ servable /\ ~spent /\ Len(base) < MaxUploadQueue
        dropped == IF choking /\ ~uploadChoked[p] THEN Dropped(p) ELSE <<>>
        rejects == IF queued THEN <<>> ELSE Rejects(p, r)
    IN /\ uploadAt[p] = "handle" /\ msg[p].kind = "request"
       /\ wireAmChoking' = [wireAmChoking EXCEPT ![p] = choking]
       /\ uploadChoked' = [uploadChoked EXCEPT ![p] = choking]
       /\ uploadQueue' = [uploadQueue EXCEPT ![p] = IF queued THEN Append(base, r) ELSE base]
       /\ owed' = [owed EXCEPT ![p] = [x \in Requests |->
                     @[x] - IF p \in FastPeers THEN Occurs(x, dropped \o rejects) ELSE 0]]
       /\ fastServed' = [fastServed EXCEPT ![p][r.piece] = IF queued /\ choking THEN @ + 1 ELSE @]
       /\ uploadAt' = [uploadAt EXCEPT ![p] = IF refused \/ spent THEN "select" ELSE "serve"]
       /\ UNCHANGED <<sessionVars, chokeVars, msg, allowedFast, rateRetry, inbox, uploadPlan>>

\* A cancel takes the first such request out of the queue and, told to a fast
\* peer, is a reject; one that finds nothing came too late and is ignored.  A
\* variant rejects the request and still serves it.
StaysQueued(q, r) == q
Cancelled(q, r) == RemoveFirst(q, r)

HandleCancel(p) ==
    LET r == msg[p].of
        found == Contains(uploadQueue[p], r)
    IN /\ uploadAt[p] = "handle" /\ msg[p].kind = "cancel"
       /\ uploadAt' = [uploadAt EXCEPT ![p] = "serve"]
       /\ uploadQueue' = [uploadQueue EXCEPT ![p] = Cancelled(@, r)]
       /\ owed' = [owed EXCEPT ![p][r] = IF found THEN @ - Len(Rejects(p, r)) ELSE @]
       /\ UNCHANGED <<sessionVars, chokeVars, wireAmChoking, uploadChoked, msg, allowedFast, fastServed,
                      rateRetry, inbox, uploadPlan>>

\* pump offers the allowed-fast pieces completed since the last turn.
Offered(p) ==
    IF p \in FastPeers /\ ~paused THEN allowedFast[p] \cup (FastSet \cap uploadable) ELSE allowedFast[p]

\* uploadPump: serve the head of the queue, reject it if it cannot be read, or
\* end the turn with the retry timer armed if tokens are short.  The storage is
\* read whatever has become of the piece since it was asked for, so a block of a
\* piece that was reset may be served; a failed read gives its tokens back.
ServeBlock(p) ==
    LET r == Head(uploadQueue[p])
    IN /\ uploadAt[p] = "serve" /\ uploadQueue[p] # <<>> /\ CanReserve
       /\ uploadQueue' = [uploadQueue EXCEPT ![p] = Tail(@)]
       /\ \E read \in BOOLEAN :
            /\ IF read THEN Charge ELSE UNCHANGED tokens
            /\ owed' = [owed EXCEPT ![p][r] = @ - IF read THEN 1 ELSE Len(Rejects(p, r))]
       /\ UNCHANGED <<paused, uploadable, limit, chokeVars, wireAmChoking, uploadChoked, loopVars,
                      uploadPlan>>

EndTurn(p) ==
    /\ uploadAt[p] = "serve" /\ (uploadQueue[p] = <<>> \/ ~CanReserve)
    /\ uploadAt' = [uploadAt EXCEPT ![p] = "select"]
    /\ allowedFast' = [allowedFast EXCEPT ![p] = Offered(p)]
    /\ rateRetry' = IF uploadQueue[p] = <<>> THEN rateRetry \ {p} ELSE rateRetry \cup {p}
    /\ UNCHANGED <<sessionVars, chokeVars, queueVars, msg, fastServed, inbox, uploadPlan>>

(***************************************************************************)
(* The choker.                                                             *)
(***************************************************************************)
Candidates == {p \in active : interested[p]}

\* The optimistic peer is passed over while it is interested, and unchoked if a
\* slot is left; a variant keeps any interested peer it finds unchoked.
KeepsAnyInterested(p, top) == interested[p] /\ (~amChoking[p] \/ Cardinality(top) < Slots)
KeepsOptimistic(p, top) == p \in optimistic /\ interested[p] /\ (~amChoking[p] \/ Cardinality(top) < Slots)

\* Every peer outside the fastest Slots is choked.
recalculateChoking ==
    /\ ~paused
    /\ \E top \in SUBSET Candidates :
         /\ Cardinality(top) = IF Cardinality(Candidates) < Slots THEN Cardinality(Candidates) ELSE Slots
         /\ amChoking' = [p \in Peers |-> IF p \in active THEN p \notin top /\ ~KeepsOptimistic(p, top)
                                          ELSE amChoking[p]]
    /\ uploadWake' = uploadWake \cup {p \in active : amChoking'[p] # amChoking[p]}
    /\ UNCHANGED <<sessionVars, active, interested, optimistic, queueVars, loopVars, uploadPlan>>

recalculateOptimistic(p) ==
    /\ ~paused /\ p \in Candidates /\ amChoking[p]
    /\ optimistic' = {p}
    /\ amChoking' = [amChoking EXCEPT ![p] = FALSE]
    /\ uploadWake' = uploadWake \cup {p}
    /\ UNCHANGED <<sessionVars, active, interested, queueVars, loopVars, uploadPlan>>

Loop(p) ==
    \/ ChokeNotified(p) \/ RetryDue(p) \/ Take(p) \/ HandleInterested(p) \/ HandleNotInterested(p)
    \/ HandleRequest(p) \/ HandleCancel(p) \/ ServeBlock(p) \/ EndTurn(p)

UploadsNext ==
    \/ \E p \in Peers : Loop(p) \/ Connect(p) \/ EndConnection(p) \/ recalculateOptimistic(p)
    \/ \E p \in Peers, m \in Messages : PeerSends(p, m)
    \/ recalculateChoking \/ Refill \/ PauseOrResume
    \/ \E l \in Limits : SetLimit(l)
    \/ \E i \in UploadPieces : Lose(i)

UploadsSpec == UploadsInit /\ [][UploadsNext]_uploadsVars
-----------------------------------------------------------------------------
Live(p) == uploadAt[p] # "gone"
Pending(p, r) ==
    Occurs(r, uploadQueue[p]) + Occurs([kind |-> "request", of |-> r], inbox[p])
    + (IF uploadAt[p] = "handle" /\ msg[p] = [kind |-> "request", of |-> r] THEN 1 ELSE 0)

\* Types, and the queue and the bucket within their bounds.
UploadsTypeOK ==
    /\ active \subseteq Peers /\ uploadWake \subseteq Peers /\ rateRetry \subseteq Peers
    /\ optimistic \subseteq Peers /\ Cardinality(optimistic) <= 1
    /\ tokens \in 0 .. burstFor(limit)
    /\ \A p \in Peers : uploadQueue[p] \in Seq(Requests) /\ Len(uploadQueue[p]) <= MaxUploadQueue

\* A request of a fast peer is answered exactly once, by its block or a
\* reject, whatever choke, cancel, lost piece, full queue or pause it meets:
\* what is not answered is still in the connection.
AnsweredOnce ==
    \A p \in Peers : Live(p) => \A r \in Requests :
        IF p \in FastPeers THEN owed[p][r] = Pending(p, r) ELSE owed[p][r] >= Pending(p, r)

\* What a connection may still serve agrees with the choke state the peer was
\* last told: after a choke only allowed-fast blocks follow.
ChokedGetsOnlyFast ==
    \A p \in Peers : Live(p) /\ wireAmChoking[p] =>
        \A k \in DOMAIN uploadQueue[p] : uploadQueue[p][k].piece \in allowedFast[p]

\* A request is answered exactly once, and a peer that was told it is choked
\* gets only allowed-fast blocks (peer_conn.go:1865).
RequestsAreAnswered == UploadsTypeOK /\ AnsweredOnce /\ ChokedGetsOnlyFast

\* A choke round leaves at most one peer unchoked beyond its slots, however
\* many lost and regained interest, reconnected or were unchoked since.
RoundIsBounded == recalculateChoking => Cardinality({p \in active : ~amChoking'[p]}) <= Slots + 1
ChokeRoundBounds == [][RoundIsBounded]_uploadsVars

=============================================================================
