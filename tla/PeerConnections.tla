--------------------------- MODULE PeerConnections ---------------------------
(***************************************************************************)
(* The connections between sessions of one torrent: known peers, dialling  *)
(* and redialling, admission, simultaneous open, pausing, bans and the     *)
(* private flag (pkg/downloader peer_conn.go, peer_admission.go,           *)
(* peer_source.go, session.go).                                            *)
(*                                                                         *)
(* Both ends of a connection are sessions of the model.  The n-th dial of  *)
(* session s is the connection <<s, n>>.  An address key is <<host         *)
(* session, port>>: port 0 is the listen port, and port n the ephemeral    *)
(* source port of that session's n-th connection over TCP; over uTP the    *)
(* source port is the listen port.  A critical section of Session.mu is    *)
(* one action.  The session's and the manager's outbound slots are one     *)
(* pool.  Times are classes: a peer last tried never ("zero"), within its  *)
(* backoff ("recent") or before it ("old"); how many attempts have failed  *)
(* (noteDialFailed) says how long a backoff is, and is left out.           *)
(***************************************************************************)
EXTENDS Integers, FiniteSets

CONSTANTS
    Swarm,          \* the sessions of the swarm
    IdRank,         \* IdRank[s]: the order of the peer IDs
    HostOf,         \* HostOf[s]: the admission host key of s's address
    MaxDials,       \* bound: dials a session starts
    MaxOutbound,    \* maxOutboundPeers
    MaxPerHost,     \* maxConnectionsPerIP
    StrikesToBan,   \* hashFailStrikesToBan
    Scenarios       \* bounds, of Troubles

\* Who is listed to whom, over which transports, and how many troubles of each kind.
Troubles == [lists : SUBSET (Swarm \X Swarm \X {"tracker", "discovery"}), via : SUBSET {"tcp", "utp"},
             calm : BOOLEAN, failures : Nat, backoffs : Nat, pauses : Nat, drops : Nat, strikes : Nat,
             reveals : Nat]

ASSUME PeerConnectionsAssumption ==
    /\ IsFiniteSet(Swarm) /\ IdRank \in [Swarm -> Int]
    /\ \A s, t \in Swarm : s # t => IdRank[s] # IdRank[t]
    /\ MaxDials \in Nat /\ MaxOutbound \in Nat \ {0}
    /\ MaxPerHost \in Nat \ {0} /\ StrikesToBan \in Nat \ {0}
    /\ Scenarios \subseteq Troubles

Hosts == {HostOf[s] : s \in Swarm}
Conns == Swarm \X (1 .. MaxDials)
Keys == Swarm \X (0 .. MaxDials)
ListenKey(s) == <<s, 0>>
NoConn == <<>>
NoOwner == [key |-> <<>>, out |-> FALSE]

VARIABLES
    known,      \* known[s]: the entries of Session.Peers, by key
    active,     \* active[s]: activePeers, from key to connection
    perHost,    \* perHost[s][h]: connections counted against host h
    owner,      \* owner[s][p]: the connection p's peer ID is admitted under
    listens,    \* listens[s]: listenAddrs, from listen endpoint to the key that holds it
    strikes,    \* strikes[s][h]: hash failures charged to h
    banned,     \* banned[s]: hosts under a ban
    struck,     \* struck[s]: connections already charged
    paused,     \* paused[s]
    pauseEpoch, \* pauseEpoch[s]
    private,    \* private[s]: the metadata has shown the torrent to be private
    dials,      \* dials[s]: connections s has dialled
    conn,       \* conn[c]: target key, transport, still open, answered by the other end
    pc,         \* pc[s][c]: where the goroutine of s that serves c is
    since,      \* since[s][c]: the pauseEpoch when its dial and when its connection began
    scenario    \* what is left of the Scenario

connVars == <<known, active, perHost, owner, listens, strikes, banned, struck, paused,
            pauseEpoch, private, dials, conn, pc, since, scenario>>
admission == <<perHost, owner, listens, strikes, banned, struck>>
control == <<paused, pauseEpoch, private>>

----------------------------------------------------------------------------
(* Keys, ends and entries *)

Remote(s, c) == IF c[1] = s THEN conn[c].to[1] ELSE c[1]
Outbound(s, c) == c[1] = s
KeyAt(s, c) == IF Outbound(s, c) THEN conn[c].to
               ELSE IF conn[c].via = "utp" THEN ListenKey(c[1]) ELSE c
\* A dial to a port nobody listens on reaches no session.
Reaches(c) == conn[c].to[2] = 0

Put(f, k, v) == [x \in DOMAIN f \cup {k} |-> IF x = k THEN v ELSE f[x]]
Drop(f, k) == [x \in DOMAIN f \ {k} |-> f[x]]
NewEntry(dialable, source, last) ==
    [active |-> FALSE, dialing |-> FALSE, dialable |-> dialable, source |-> source,
     last |-> last, epoch |-> 0, freed |-> FALSE]
\* LastAttempt = time.Now(), for an attempt or a connection of pause epoch e.
\* (The code keeps neither the epoch nor whether releaseListenPortLocked set the
\* time: only ResumeRedials reads them.)
Tried(entry, e) == [entry EXCEPT !.last = "recent", !.epoch = e, !.freed = FALSE]

\* The connections whose dialling goroutine of s holds an outbound slot.
SlotHolders(s) == {c \in Conns : c[1] = s
                     /\ pc[s][c] \in {"dialing", "greeting", "shaken", "looping", "redial", "closing"}}

bannedLocked(s, h) == h \in banned[s]
refusesDialLocked(s, k) == bannedLocked(s, HostOf[k[1]])
untrackedDiscovery(entry) == "discovery" \in entry.source /\ "tracker" \notin entry.source
privateRefusesDialLocked(s, k) ==
    private[s] /\ (k \notin DOMAIN known[s] \/ untrackedDiscovery(known[s][k]))
heldByInboundLocked(s, k) == k \in DOMAIN listens[s]

\* forgetRefusedPeerLocked, on the table peers.
forgetRefusedPeer(s, peers, k) ==
    IF /\ k \in DOMAIN peers /\ private[s] /\ untrackedDiscovery(peers[k])
       /\ ~peers[k].active /\ ~peers[k].dialing
    THEN Drop(peers, k) ELSE peers

ConnTypeOK ==
    \A s \in Swarm :
        /\ \A k \in DOMAIN known[s] : known[s][k].epoch <= pauseEpoch[s]
        /\ \A h \in DOMAIN strikes[s] : strikes[s][h] < StrikesToBan
        /\ dials[s] <= MaxDials

ConnInit ==
    /\ known = [s \in Swarm |-> <<>>] /\ active = [s \in Swarm |-> <<>>]
    /\ perHost = [s \in Swarm |-> [h \in Hosts |-> 0]]
    /\ owner = [s \in Swarm |-> [p \in Swarm |-> NoOwner]]
    /\ listens = [s \in Swarm |-> <<>>]
    /\ strikes = [s \in Swarm |-> [h \in Hosts |-> 0]]
    /\ banned = [s \in Swarm |-> {}] /\ struck = [s \in Swarm |-> {}]
    /\ paused = [s \in Swarm |-> FALSE] /\ pauseEpoch = [s \in Swarm |-> 0]
    /\ private = [s \in Swarm |-> FALSE]
    /\ dials = [s \in Swarm |-> 0]
    /\ conn = [c \in Conns |-> [to |-> NoConn, via |-> "none", open |-> FALSE, answered |-> FALSE]]
    /\ pc = [s \in Swarm |-> [c \in Conns |-> "none"]]
    /\ since = [s \in Swarm |-> [c \in Conns |-> [dial |-> 0, reg |-> 0]]]
    /\ scenario \in Scenarios

Move(s, c, where) == pc' = [pc EXCEPT ![s][c] = where]
SetEntry(s, k, entry) == known' = [known EXCEPT ![s] = Put(known[s], k, entry)]
SpendTrouble(trouble) == scenario[trouble] > 0 /\ scenario' = [scenario EXCEPT ![trouble] = @ - 1]

----------------------------------------------------------------------------
(* Who is dialled *)

\* The connections of s that the goroutines started for the keys todo will dial.
StartDials(s, todo) ==
    \E order \in [1 .. Cardinality(todo) -> todo] :
        /\ \A k \in todo : \E i \in DOMAIN order : order[i] = k
        /\ dials[s] + Cardinality(todo) <= MaxDials
        /\ dials' = [dials EXCEPT ![s] = @ + Cardinality(todo)]
        /\ conn' = [c \in Conns |->
               IF c[1] = s /\ c[2] - dials[s] \in DOMAIN order
               THEN [conn[c] EXCEPT !.to = order[c[2] - dials[s]]] ELSE conn[c]]
        /\ pc' = [pc EXCEPT ![s] = [c \in Conns |->
               IF c[1] = s /\ c[2] - dials[s] \in DOMAIN order THEN "start" ELSE pc[s][c]]]

\* What addPeer and connectTrackerPeers do with one endpoint.  A tracker's
\* peers are dialled without asking refusesDialLocked: connectToPeer asks.
\* The redial of a known peer (source "none") comes from the session itself.
AddPeer(s, k, source) ==
    LET exists == k \in DOMAIN known[s]
        entry == IF exists THEN known[s][k] ELSE NewEntry(TRUE, {}, "zero")
        listed == [entry EXCEPT !.dialable = TRUE, !.source = @ \cup ({source} \ {"none"})]
        idle == ~exists \/ (~entry.active /\ ~entry.dialing /\ entry.last # "recent")
        refused == source # "tracker" /\ refusesDialLocked(s, k)
        full == Cardinality(SlotHolders(s)) >= MaxOutbound \/ heldByInboundLocked(s, k)
        ignored == paused[s] \/ (source = "discovery" /\ private[s])
                   \/ (source # "tracker" /\ exists /\ privateRefusesDialLocked(s, k))
        dial == ~ignored /\ idle /\ ~refused /\ ~full
    IN [dial |-> dial,
        peers |-> IF ignored \/ (~exists /\ refused) THEN known[s]
                  ELSE IF dial THEN Put(known[s], k, [Tried(listed, pauseEpoch[s]) EXCEPT !.dialing = TRUE])
                  ELSE Put(known[s], k, listed)]

\* A tracker, or the DHT or PEX, lists the listen endpoint of p to s.
Listed(s, p, source) ==
    LET add == AddPeer(s, ListenKey(p), source)
    IN /\ <<s, p, source>> \in scenario.lists
       /\ scenario' = [scenario EXCEPT !.lists = @ \ {<<s, p, source>>}]
       /\ known' = [known EXCEPT ![s] = add.peers]
       /\ IF add.dial THEN StartDials(s, {ListenKey(p)}) ELSE UNCHANGED <<dials, conn, pc>>
       /\ UNCHANGED <<active, admission, control, since>>

DialEligible(s) == {k \in DOMAIN known[s] :
    /\ known[s][k].dialable /\ ~known[s][k].active /\ ~known[s][k].dialing
    /\ ~heldByInboundLocked(s, k) /\ ~refusesDialLocked(s, k) /\ ~privateRefusesDialLocked(s, k)
    /\ known[s][k].last # "recent"}

\* One tick: as many eligible peers as there are slots, in map order.
maintainPeerConnections(s) ==
    LET room == MaxOutbound - Cardinality(SlotHolders(s))
    IN /\ ~paused[s]
       /\ \E todo \in SUBSET DialEligible(s) :
            /\ todo # {} /\ Cardinality(todo) <= room
            /\ Cardinality(todo) = room \/ todo = DialEligible(s)
            /\ StartDials(s, todo)
            /\ known' = [known EXCEPT ![s] = [k \in DOMAIN known[s] |->
                 IF k \in todo THEN [Tried(known[s][k], pauseEpoch[s]) EXCEPT !.dialing = TRUE]
                 ELSE known[s][k]]]
       /\ UNCHANGED <<active, admission, control, since, scenario>>

\* The redial backoff of an entry runs out: a minute, which is longer than a
\* dial and its handshakes may take.
BackoffEnds(s, k) ==
    /\ SpendTrouble("backoffs")
    /\ k \in DOMAIN known[s] /\ known[s][k].last = "recent"
    /\ \A c \in Conns : c[1] = s /\ conn[c].to = k => pc[s][c] \in {"none", "looping", "done"}
    /\ SetEntry(s, k, [known[s][k] EXCEPT !.last = "old"])
    /\ UNCHANGED <<active, admission, control, dials, conn, pc, since>>

----------------------------------------------------------------------------
(* connectToPeer: the dialling goroutine *)

\* It notes the pause epoch, asks whether the address is refused, and takes a
\* slot or gives up.
TakeSlot(s, c) ==
    LET k == conn[c].to
    IN /\ pc[s][c] = "start"
       /\ since' = [since EXCEPT ![s][c].dial = pauseEpoch[s]]
       /\ Move(s, c, IF refusesDialLocked(s, k) \/ privateRefusesDialLocked(s, k) THEN "refused"
                     ELSE IF Cardinality(SlotHolders(s)) >= MaxOutbound THEN "slotless" ELSE "dialing")
       /\ UNCHANGED <<known, active, admission, control, dials, conn, scenario>>

markPeerAttemptFailed(s, c) ==
    LET k == conn[c].to
    IN IF k \notin DOMAIN known[s] THEN UNCHANGED known
       ELSE SetEntry(s, k, [Tried(known[s][k], since[s][c].dial)
                               EXCEPT !.active = @ /\ k \in DOMAIN active[s]])

DialFails(s, c) ==
    /\ pc[s][c] = "dialing"
    /\ IF Reaches(c) THEN SpendTrouble("failures") ELSE UNCHANGED scenario
    /\ markPeerAttemptFailed(s, c)
    /\ Move(s, c, "closing")
    /\ UNCHANGED <<active, admission, control, dials, conn, since>>

\* The transport connection is up, over TCP or uTP, and the other end has
\* accepted it; it is now the business of both goroutines.
DialConnects(s, c, via) ==
    /\ pc[s][c] = "dialing" /\ Reaches(c) /\ via \in scenario.via
    /\ conn' = [conn EXCEPT ![c].via = via, ![c].open = TRUE]
    /\ pc' = [pc EXCEPT ![s][c] = "greeting", ![conn[c].to[1]][c] = "accepted"]
    /\ UNCHANGED <<known, active, admission, control, dials, since, scenario>>

\* serveIncomingConnection: refuse, or answer the handshake.
ServeIncoming(s, c) ==
    /\ pc[s][c] = "accepted"
    /\ IF paused[s] \/ bannedLocked(s, HostOf[c[1]])
       THEN conn' = [conn EXCEPT ![c].open = FALSE] /\ Move(s, c, "done")
       ELSE conn' = [conn EXCEPT ![c].answered = TRUE] /\ Move(s, c, "shaken")
    /\ UNCHANGED <<known, active, admission, control, dials, since, scenario>>

HandshakeFails(s, c) ==
    /\ pc[s][c] = "greeting" /\ ~conn[c].open
    /\ markPeerAttemptFailed(s, c)
    /\ Move(s, c, "closing")
    /\ UNCHANGED <<active, admission, control, dials, conn, since, scenario>>

HandshakeDone(s, c) ==
    LET k == conn[c].to
    IN /\ pc[s][c] = "greeting" /\ conn[c].answered
       /\ IF k \notin DOMAIN known[s] THEN UNCHANGED known
          ELSE SetEntry(s, k, [Tried(known[s][k], pauseEpoch[s])
                                  EXCEPT !.dialable = TRUE, !.dialing = FALSE])
       /\ Move(s, c, "shaken")
       /\ UNCHANGED <<active, admission, control, dials, conn, since, scenario>>

\* The deferred cleanup of connectToPeer: the slot is given back, and an
\* attempt that was none, or that a pause ended, leaves no backoff.
Cleanup(s, c) ==
    LET k == conn[c].to
        resumed == pauseEpoch[s] # since[s][c].dial /\ ~paused[s]
        entry == known[s][k]
        again == (pc[s][c] = "slotless" \/ (pc[s][c] = "closing" /\ resumed)) /\ ~entry.active
    IN /\ c[1] = s /\ pc[s][c] \in {"refused", "slotless", "closing"}
       /\ known' = IF k \notin DOMAIN known[s] \/ ~known[s][k].dialing THEN known
                   ELSE [known EXCEPT ![s] = forgetRefusedPeer(s,
                           Put(known[s], k, [entry EXCEPT !.dialing = FALSE,
                                                          !.last = IF again THEN "zero" ELSE @]), k)]
       /\ Move(s, c, "done")
       /\ UNCHANGED <<active, admission, control, dials, conn, since, scenario>>

----------------------------------------------------------------------------
(* runPeerMessageLoop: admission, the connection's life, its end *)

crossedOpenLocked(s, k, p, out) ==
    /\ k \in DOMAIN active[s] /\ Remote(s, active[s][k]) = p
    /\ owner[s][p].key = k /\ owner[s][p].out # out

\* A variant: each end keeps the connection it opened itself.
KeepsOwnDial(s, p) == TRUE
\* The connection opened by the side with the greater peer ID is kept.
KeepsOurOutbound(s, p) == IdRank[s] > IdRank[p]

DuplicateId(s, p, out) ==
    owner[s][p] # NoOwner /\ (owner[s][p].out = out \/ out # KeepsOurOutbound(s, p))

\* What admitPeerLocked answers, "" to admit.
Refusal(s, k, p, out) ==
    IF k \in DOMAIN active[s] /\ ~crossedOpenLocked(s, k, p, out) THEN "duplicate_address"
    ELSE IF bannedLocked(s, HostOf[p]) THEN "banned"
    ELSE IF DuplicateId(s, p, out) THEN "duplicate_peer_id"
    ELSE IF owner[s][p] = NoOwner /\ perHost[s][HostOf[p]] >= MaxPerHost THEN "per_ip_limit"
    ELSE ""

\* The connections admitPeerLocked closes: the one this one replaces.
Replaced(s, p) == IF owner[s][p] # NoOwner /\ owner[s][p].key \in DOMAIN active[s]
                  THEN {active[s][owner[s][p].key]} ELSE {}

\* A variant: a connection that takes over a key is counted again.
CountsAnew(s, k, h) == perHost[s][h] + 1
\* The count of its host: a connection whose key is taken over releases nothing itself.
CountWith(s, k, h) == IF k \in DOMAIN active[s] THEN perHost[s][h] ELSE perHost[s][h] + 1

AfterLoop(s, c) == IF Outbound(s, c) THEN "closing" ELSE "done"

TurnAway(s, c, peers) ==
    /\ known' = [known EXCEPT ![s] = peers]
    /\ conn' = [conn EXCEPT ![c].open = FALSE]
    /\ Move(s, c, AfterLoop(s, c))
    /\ UNCHANGED <<active, perHost, owner, since>>

Admit(s, c) ==
    LET k == KeyAt(s, c)
        p == Remote(s, c)
        h == HostOf[p]
        out == Outbound(s, c)
        entry == IF k \in DOMAIN known[s] THEN known[s][k]
                 ELSE Tried(NewEntry(FALSE, {}, "zero"), pauseEpoch[s])
    IN /\ perHost' = [perHost EXCEPT ![s][h] = CountWith(s, k, h)]
       /\ owner' = [owner EXCEPT ![s][p] = [key |-> k, out |-> out]]
       /\ conn' = [d \in Conns |-> IF d \in Replaced(s, p) THEN [conn[d] EXCEPT !.open = FALSE]
                                   ELSE conn[d]]
       /\ active' = [active EXCEPT ![s] = Put(active[s], k, c)]
       /\ SetEntry(s, k, [entry EXCEPT !.active = TRUE, !.dialable = @ \/ out,
                                       !.source = IF out THEN @ ELSE @ \cup {"incoming"}])
       /\ since' = [since EXCEPT ![s][c].reg = pauseEpoch[s]]
       /\ Move(s, c, "looping")

\* The table after admitPeerLocked has refused c: an outbound connection that
\* cannot be used counts as a failed attempt of now.
RefusedPeers(s, c) ==
    LET k == KeyAt(s, c)
    IN IF /\ Outbound(s, c) /\ k \in DOMAIN known[s]
          /\ Refusal(s, k, Remote(s, c), TRUE) \in {"per_ip_limit", "duplicate_peer_id"}
       THEN Put(known[s], k, Tried(known[s][k], pauseEpoch[s])) ELSE known[s]

Register(s, c) ==
    LET k == KeyAt(s, c)
        private1 == Outbound(s, c) /\ privateRefusesDialLocked(s, k)
    IN /\ pc[s][c] = "shaken"
       /\ IF paused[s] THEN TurnAway(s, c, known[s])
          ELSE IF private1 THEN TurnAway(s, c, forgetRefusedPeer(s, known[s], k))
          ELSE IF Refusal(s, k, Remote(s, c), Outbound(s, c)) # "" THEN TurnAway(s, c, RefusedPeers(s, c))
          ELSE Admit(s, c)
       /\ UNCHANGED <<listens, strikes, banned, struck, control, dials, scenario>>

\* An inbound peer over TCP names its listen port in the extension handshake.
noteListenPortLocked(s, c) ==
    LET k == KeyAt(s, c)
        l == ListenKey(c[1])
    IN /\ pc[s][c] = "looping" /\ ~Outbound(s, c) /\ conn[c].open
       /\ l # k /\ l \notin DOMAIN active[s] /\ l \notin DOMAIN listens[s]
       /\ listens' = [listens EXCEPT ![s] = Put(listens[s], l, k)]
       /\ UNCHANGED <<known, active, perHost, owner, strikes, banned, struck, control, dials, conn,
                      pc, since, scenario>>

\* The table after releaseListenPortLocked for connection c at key k: the endpoint
\* backs off, whatever has become of the pause that closed c.
ReleasedEndpoints(s, c, k) ==
    [l \in DOMAIN known[s] |->
        IF l \in DOMAIN listens[s] /\ listens[s][l] = k /\ ~known[s][l].active /\ ~known[s][l].dialing
        THEN [Tried(known[s][l], since[s][c].reg) EXCEPT !.freed = TRUE] ELSE known[s][l]]

\* A variant: the end of a connection always starts the backoff.
NeverReconnects(s, c) == FALSE
\* The pause that closed the connection is over already: the peer is dialled at once.
ReconnectsAfterResume(s, c) == pauseEpoch[s] # since[s][c].reg /\ ~paused[s]

\* The entry of key k once its connection c is over.
EndedEntry(s, c, peers, k) ==
    LET again == ReconnectsAfterResume(s, c)
        entry == peers[k]
        idle == [entry EXCEPT !.active = FALSE]
        refused == private[s] /\ untrackedDiscovery(entry)
    IN IF k \notin DOMAIN peers THEN peers
       ELSE IF refused \/ (~entry.dialable /\ ~again) THEN Drop(peers, k)
       ELSE Put(peers, k, IF again THEN [idle EXCEPT !.last = "zero"]
                          ELSE Tried(idle, since[s][c].reg))

\* The loop has found its connection closed and cleans up.
Disconnect(s, c) ==
    LET k == KeyAt(s, c)
        p == Remote(s, c)
        h == HostOf[p]
        mine == k \in DOMAIN active[s] /\ active[s][k] = c
        peers == ReleasedEndpoints(s, c, k)
        after == EndedEntry(s, c, peers, k)
    IN /\ pc[s][c] = "looping" /\ ~conn[c].open
       /\ listens' = [listens EXCEPT ![s] = [l \in {l \in DOMAIN @ : @[l] # k} |-> @[l]]]
       /\ IF mine
          THEN /\ perHost' = [perHost EXCEPT ![s][h] = IF @ = 0 THEN 0 ELSE @ - 1]
               /\ owner' = IF owner[s][p].key = k THEN [owner EXCEPT ![s][p] = NoOwner] ELSE owner
               /\ active' = [active EXCEPT ![s] = Drop(@, k)]
               /\ known' = [known EXCEPT ![s] = after]
               /\ Move(s, c, IF k \in DOMAIN after /\ ReconnectsAfterResume(s, c) THEN "redial"
                             ELSE AfterLoop(s, c))
          ELSE /\ known' = [known EXCEPT ![s] = peers]
               /\ UNCHANGED <<perHost, owner, active>>
               /\ Move(s, c, AfterLoop(s, c))
       /\ UNCHANGED <<strikes, banned, struck, control, dials, conn, since, scenario>>

\* Its last act, if a pause closed it and is over: addPeer of the same key.
Redial(s, c) ==
    LET k == KeyAt(s, c)
        add == AddPeer(s, k, "none")
        from(d) == d[1] = s /\ d[2] = dials[s] + 1
    IN /\ pc[s][c] = "redial"
       /\ add.dial => dials[s] < MaxDials
       /\ known' = [known EXCEPT ![s] = add.peers]
       /\ dials' = IF add.dial THEN [dials EXCEPT ![s] = @ + 1] ELSE dials
       /\ conn' = [d \in Conns |-> IF add.dial /\ from(d) THEN [conn[d] EXCEPT !.to = k] ELSE conn[d]]
       /\ pc' = [pc EXCEPT ![s] = [d \in Conns |-> IF d = c THEN AfterLoop(s, c)
                     ELSE IF add.dial /\ from(d) THEN "start" ELSE pc[s][d]]]
       /\ UNCHANGED <<active, admission, control, since, scenario>>

----------------------------------------------------------------------------
(* What ends connections *)

CloseAll(conns) == conn' = [d \in Conns |-> IF d \in conns THEN [conn[d] EXCEPT !.open = FALSE]
                                            ELSE conn[d]]
ActiveConns(s) == {active[s][k] : k \in DOMAIN active[s]}

Pause(s) ==
    /\ SpendTrouble("pauses") /\ ~paused[s]
    /\ paused' = [paused EXCEPT ![s] = TRUE]
    /\ pauseEpoch' = [pauseEpoch EXCEPT ![s] = @ + 1]
    /\ CloseAll(ActiveConns(s))
    /\ UNCHANGED <<known, active, admission, private, dials, pc, since>>

Resume(s) ==
    /\ paused[s]
    /\ paused' = [paused EXCEPT ![s] = FALSE]
    /\ known' = [known EXCEPT ![s] = [k \in DOMAIN @ |->
                    IF @[k].active THEN @[k] ELSE [@[k] EXCEPT !.last = "zero"]]]
    /\ UNCHANGED <<active, admission, pauseEpoch, private, dials, conn, pc, since, scenario>>

\* closeHostConnsLocked
HostConns(s, h) == {active[s][k] : k \in {k \in DOMAIN active[s] :
                        k \in DOMAIN known[s] /\ HostOf[k[1]] = h}}

\* A piece that came over c fails its hash check; c may be closed by then.
strikePieceSourceLocked(s, c) ==
    LET h == HostOf[Remote(s, c)]
        ban == strikes[s][h] + 1 >= StrikesToBan
    IN /\ SpendTrouble("strikes")
       /\ pc[s][c] = "looping" /\ c \notin struck[s]
       /\ struck' = [struck EXCEPT ![s] = @ \cup {c}]
       /\ strikes' = [strikes EXCEPT ![s][h] = IF ban THEN 0 ELSE @ + 1]
       /\ banned' = IF ban THEN [banned EXCEPT ![s] = @ \cup {h}] ELSE banned
       /\ IF ban THEN CloseAll(HostConns(s, h)) ELSE UNCHANGED conn
       /\ UNCHANGED <<known, active, perHost, owner, listens, control, dials, pc, since>>

\* The metadata arrives and says private: purgeDiscoveryPeersLocked.
LearnPrivate(s) ==
    LET refused == {k \in DOMAIN known[s] : untrackedDiscovery(known[s][k])}
        live == refused \cap DOMAIN active[s]
    IN /\ SpendTrouble("reveals") /\ ~private[s]
       /\ private' = [private EXCEPT ![s] = TRUE]
       /\ CloseAll({active[s][k] : k \in live})
       /\ known' = [known EXCEPT ![s] = [k \in {k \in DOMAIN @ :
                        k \notin refused \/ k \in live \/ @[k].dialing} |-> @[k]]]
       /\ UNCHANGED <<active, admission, paused, pauseEpoch, dials, pc, since>>

\* The network or the remote peer ends a connection.
ConnectionDrops(c) ==
    /\ SpendTrouble("drops") /\ conn[c].open
    /\ CloseAll({c})
    /\ UNCHANGED <<known, active, admission, control, dials, pc, since>>

ConnNext ==
    \/ \E s, p \in Swarm, source \in {"tracker", "discovery"} : s # p /\ Listed(s, p, source)
    \/ \E s \in Swarm : \/ maintainPeerConnections(s)
                           \/ Pause(s)
                           \/ Resume(s)
                           \/ LearnPrivate(s)
                           \/ \E k \in Keys : BackoffEnds(s, k)
    \/ \E s \in Swarm, c \in Conns :
        \/ TakeSlot(s, c)
        \/ DialFails(s, c)
        \/ \E via \in {"tcp", "utp"} : DialConnects(s, c, via)
        \/ ServeIncoming(s, c)
        \/ HandshakeFails(s, c)
        \/ HandshakeDone(s, c)
        \/ Register(s, c)
        \/ noteListenPortLocked(s, c)
        \/ Disconnect(s, c)
        \/ Redial(s, c)
        \/ Cleanup(s, c)
        \/ strikePieceSourceLocked(s, c)
    \/ \E c \in Conns : ConnectionDrops(c)

ConnSpec == ConnInit /\ [][ConnNext]_connVars

----------------------------------------------------------------------------
(* Properties *)

OpenAt(s, p) == {c \in ActiveConns(s) : conn[c].open /\ Remote(s, c) = p}

\* What admission remembers agrees with the connections there are, through
\* takeovers of an address key and of a peer ID: every host is charged for
\* its connections and no more, an ID belongs to a connection of that peer in
\* that direction, an open connection owns its ID, an entry is marked active
\* exactly while a connection holds its key, and a listen endpoint is held
\* back only while the connection that named it lasts (admitPeerLocked,
\* releasePeerLocked, markPeerAttemptFailed, releaseListenPortLocked).
AdmissionConsistent ==
    \A s \in Swarm :
        /\ \A h \in Hosts : perHost[s][h] = Cardinality({k \in DOMAIN active[s] : HostOf[k[1]] = h})
        /\ \A p \in Swarm : LET o == owner[s][p] IN
            /\ o # NoOwner => /\ o.key \in DOMAIN active[s]
                              /\ Remote(s, active[s][o.key]) = p
                              /\ Outbound(s, active[s][o.key]) = o.out
            /\ \A c \in OpenAt(s, p) : o.key = KeyAt(s, c)
        /\ {k \in DOMAIN known[s] : known[s][k].active} = DOMAIN active[s]
        /\ \A l \in DOMAIN listens[s] : listens[s][l] \in DOMAIN active[s]

Quiet ==
    \A s \in Swarm, c \in Conns :
        pc[s][c] \in {"none", "done"} \/ (pc[s][c] = "looping" /\ conn[c].open)

\* A session never trades with one peer over two connections (admitPeerLocked).
OneConnectionEach == \A s, p \in Swarm : Cardinality(OpenAt(s, p)) <= 1

\* Two sessions that dial each other, over whatever transports and however the
\* handshakes interleave, end up with one connection that both kept: neither
\* both close the other's choice nor keep one each (admitPeerLocked).
CrossedOpenKeepsOne ==
    scenario.calm /\ Quiet =>
        \A c \in Conns : conn[c].answered =>
            LET s == c[1]
                p == conn[c].to[1]
            IN \E d \in OpenAt(s, p) : d \in OpenAt(p, s)

\* After a first pause and its resume no peer waits out a backoff that stems from
\* before the resume: not one whose connection the pause closed but whose loop
\* noticed only afterwards, and not one whose dial spanned it (runPeerMessageLoop's
\* cleanup, connectToPeer's cleanup, Resume).  Three things are not claimed.  An
\* attempt refused after the resume backs off anew, even if what refuses it is a
\* connection the pause has closed.  The listen endpoint of an inbound TCP peer
\* backs off whenever its connection is cleaned up, so a late cleanup keeps it
\* waiting (releaseListenPortLocked).  And from the second pause on, a cleanup may
\* find the mark of another dial to its address, take it away and leave that dial's
\* time behind (connectToPeer: Dialing is cleared once a handshake is done).
ResumeRedials ==
    \A s \in Swarm : \A k \in DOMAIN known[s] :
        LET entry == known[s][k] IN
        /\ pauseEpoch[s] = 1 /\ ~paused[s]
        /\ ~entry.active /\ ~entry.dialing /\ ~entry.freed /\ entry.last = "recent"
        => entry.epoch = pauseEpoch[s]

\* No open connection survives or slips past a refusal: a host under a ban
\* has none, and once the torrent is known to be private no connection we
\* dialled goes to an address only DHT or PEX supplied, whatever dials and
\* handshakes were under way at that moment (closeHostConnsLocked,
\* purgeDiscoveryPeersLocked, admitPeerLocked, privateRefusesDialLocked).
RefusedStayOut ==
    \A s \in Swarm : \A k \in DOMAIN active[s] :
        LET c == active[s][k] IN
        conn[c].open =>
            /\ HostOf[Remote(s, c)] \notin banned[s]
            /\ ~(private[s] /\ Outbound(s, c) /\ untrackedDiscovery(known[s][k]))

\* The books of admission are right through takeovers, a session has at most
\* one connection with a peer, and nobody banned or refused as private is
\* connected (peer_admission.go, peer_source.go).
AdmissionIsSound == ConnTypeOK /\ AdmissionConsistent /\ OneConnectionEach /\ RefusedStayOut

=============================================================================
