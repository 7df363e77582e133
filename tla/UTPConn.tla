------------------------------- MODULE UTPConn -------------------------------
(***************************************************************************)
(* One uTP connection of pkg/utp: the socket that dials ("d"), the socket  *)
(* that accepts ("a"), and between them a network that loses, repeats and  *)
(* reorders datagrams.                                                     *)
(*                                                                         *)
(* A payload is the number of the chunk it carries; a chunk fills one      *)
(* packet, so windows count packets.  Sequence numbers are uint16 in the   *)
(* code and SeqMod values here, with the wrap-around at the start of the   *)
(* stream.  Connection ids: the SYN carries 0, the dialler's other packets *)
(* 1, the acceptor's packets 0, as base and base+1 in the code.  A         *)
(* handler runs in the socket's read loop under Conn.mu and is one action; *)
(* a Write, a dial, Listener.Close and Socket.Close are several.           *)
(***************************************************************************)
EXTENDS Integers, Sequences, FiniteSets

CONSTANTS
    SeqMod,             \* number of sequence numbers (65536 in the code)
    AckNrSlack,         \* ackNrSlack
    MaxReorderDistance, \* maxReorderDistance
    ReceiveWindow,      \* receiveWindowSize, in packets
    SendWindow,         \* sendWindowSize, in packets
    AckCoalesceCount,   \* ackCoalesceCount
    SynSeq,             \* the dialler's random first seq_nr
    AcceptSeqs,         \* the acceptor's random seq_nrs, in the order drawn
    MaxInFlight,        \* a Write adds no packet to this many in flight
    Scenarios           \* what a behaviour may contain: chunks the applications at "d" and "a"
                        \* write, datagrams the network loses or repeats, and troubles: deadlines,
                        \* refusals, a close during a Write, of a listener or of a socket

ASSUME UTPAssumption ==
    /\ SeqMod \in Nat /\ AckNrSlack \in Nat /\ MaxReorderDistance \in Nat
    /\ 2 * (AckNrSlack + MaxReorderDistance + SendWindow + 1) < SeqMod
    /\ SendWindow <= ReceiveWindow      \* else a parked packet could take the room of the one it waits for
    /\ SynSeq \in 0 .. SeqMod - 1
    /\ \A i \in DOMAIN AcceptSeqs : AcceptSeqs[i] \in 0 .. SeqMod - 1

End == {"d", "a"}
Peer(e) == IF e = "d" THEN "a" ELSE "d"
NoSeq == -1

VARIABLES
    conn,       \* conn[e]: the Conn of end e
    table,      \* table[e]: Socket.conns has e's Conn
    halfOpen,   \* the acceptor's half-open entry: [synSeq, seq] or NoEntry
    drawn,      \* how many of AcceptSeqs were used
    refuse,     \* refuseIncoming of the acceptor
    listener,   \* "open", then "closed", "drained" as Listener.Close goes on
    handing,    \* the acceptor's read loop has promoted a Conn and not yet enqueued it
    accept,     \* where the promoted Conn is: "no", "queued", "taken", "refused"
    sock,       \* sock[e]: "open", "closing" (Close has emptied conns), "closed"
    dialing,    \* the dialler: "no", "dial", then "ok" or "err"
    wr,         \* wr[e]: the Write call under way at e
    written,    \* written[e]: chunks given a sequence number at e
    confirmed,  \* confirmed[e]: chunks covered by Writes that returned nil
    got,        \* got[e]: the chunks e has read
    eof,        \* eof[e]: a Read at e returned io.EOF
    net,        \* datagrams in flight
    left        \* what is left of the Scenario: writes, losses, repeats, troubles

utpVars == <<conn, table, halfOpen, drawn, refuse, listener, handing, accept,
             sock, dialing, wr, written, confirmed, got, eof, net, left>>

----------------------------------------------------------------------------
(* uint16 arithmetic *)

Plus(a, n) == (a + n) % SeqMod
Dist(a, b) == (b - a) % SeqMod
seqLTE(a, b) == Dist(a, b) < SeqMod \div 2
seqLT(a, b) == a # b /\ seqLTE(a, b)

(* Packets.  A lost field of the header has no meaning for the properties. *)

Packet(to, typ, id, seq, ack, payload) ==
    [to |-> to, typ |-> typ, id |-> id, seq |-> seq, ack |-> ack, payload |-> payload]

\* What e's Conn sends: packetLocked.  The id is the SYN's own (recvID) or sendID.
packetLocked(e, c, typ, seq, payload) ==
    Packet(Peer(e), typ, IF e = "d" /\ typ # "SYN" THEN 1 ELSE 0, seq, c.remoteSeq, payload)

\* A STATE carries localSeq without consuming it.
statePacketLocked(e, c) == packetLocked(e, c, "STATE", c.localSeq, 0)

\* The RESET answering p: its own id or the SYN's, and p's numbers swapped.
writeReset(id, p) == Packet(Peer(p.to), "RESET", id, p.ack, p.seq, 0)

(* A Conn *)

NewConn(inbound, localSeq, remoteSeq, lastAck) ==
    [made |-> TRUE, inbound |-> inbound, localSeq |-> localSeq, remoteSeq |-> remoteSeq,
     lastAck |-> lastAck, established |-> inbound, failed |-> FALSE,
     pending |-> << >>, pendingFin |-> NoSeq, readBuf |-> << >>,
     remoteClosed |-> FALSE, closed |-> FALSE,
     waiters |-> {}, waiterBase |-> 0, unsentAcks |-> 0]

newOutboundConn == NewConn(FALSE, Plus(SynSeq, 1), 0, Plus(SynSeq, -1))
newInboundConn(synSeq, localSeq) == NewConn(TRUE, localSeq, synSeq, Plus(localSeq, -1))
NoConn == [NewConn(FALSE, 0, 0, 0) EXCEPT !.made = FALSE]
NoEntry == [synSeq |-> NoSeq, seq |-> NoSeq]
IdleWrite == [pc |-> "idle", todo |-> 0, out |-> << >>]

UTPInit ==
    /\ conn = [e \in End |-> NoConn] /\ table = [e \in End |-> FALSE]
    /\ halfOpen = NoEntry /\ drawn = 0
    /\ refuse = FALSE
    /\ listener = "open" /\ handing = FALSE /\ accept = "no"
    /\ sock = [e \in End |-> "open"]
    /\ dialing = "no"
    /\ wr = [e \in End |-> IdleWrite]
    /\ written = [e \in End |-> 0] /\ confirmed = [e \in End |-> 0]
    /\ got = [e \in End |-> << >>] /\ eof = [e \in End |-> FALSE]
    /\ net = {}
    /\ left \in Scenarios

\* One more of the bounded troubles.
Trouble == left.troubles > 0 /\ left' = [left EXCEPT !.troubles = @ - 1]

----------------------------------------------------------------------------
(* Acks *)

\* ack lies in [lastAck - ackNrSlack, hi].
ackInRangeLocked(c, ack, hi) ==
    LET lo == Plus(c.lastAck, -AckNrSlack) IN Dist(lo, ack) <= Dist(lo, hi)

\* The seq_nrs from waiterBase up to ack, but below localSeq.
CoveredTo(c, ack) == {s \in 0 .. SeqMod - 1 : /\ seqLTE(c.waiterBase, ack)
                                              /\ Dist(c.waiterBase, s) <= Dist(c.waiterBase, ack)
                                              /\ Dist(c.waiterBase, s) < Dist(c.waiterBase, c.localSeq)}
\* A variant counts the packet after the acknowledged one.
CoveredPast(c, ack) == CoveredTo(c, Plus(ack, 1))
Covered(c, ack) == CoveredTo(c, ack)

\* The waiters ack covers are woken.
processAckLocked(c, ack) ==
    LET covered == Covered(c, ack)
        c1 == [c EXCEPT !.lastAck = IF seqLT(@, ack) THEN ack ELSE @]
    IN IF c.waiters = {} THEN c1
       ELSE [c1 EXCEPT !.waiters = @ \ covered,
                       !.waiterBase = Plus(@, Cardinality(covered))]

\* The result of a handler: the Conn it leaves and the datagrams it sends.
Result(c, out) == [c |-> c, out |-> out]

flushAck(e, c) ==
    IF c.closed THEN Result(c, {})
    ELSE Result([c EXCEPT !.unsentAcks = 0], {statePacketLocked(e, c)})

\* The second in-order packet is acknowledged at once, a lone one by the timer.
scheduleAck(e, c) ==
    IF c.closed THEN Result(c, {})
    ELSE IF c.unsentAcks + 1 >= AckCoalesceCount THEN flushAck(e, c)
    ELSE Result([c EXCEPT !.unsentAcks = @ + 1], {})

----------------------------------------------------------------------------
(* Closing: at most once, FIN only on an established stream the peer has not ended *)

closeWithError(e, c, sendFin) ==
    LET fin == sendFin /\ c.established /\ ~c.remoteClosed
    IN IF c.closed THEN Result(c, {})
       ELSE Result([c EXCEPT !.closed = TRUE, !.waiters = {},
                             !.failed = ~c.established, !.established = TRUE,
                             !.localSeq = IF fin THEN Plus(@, 1) ELSE @],
                   IF fin THEN {packetLocked(e, c, "FIN", c.localSeq, 0)} ELSE {})

----------------------------------------------------------------------------
(* handlePacket *)

\* Only a STATE acking the SYN's own seq_nr establishes an outbound Conn.
handleState(e, c, p) ==
    IF c.closed \/ c.established \/ p.ack # Plus(c.localSeq, -1) THEN Result(c, {})
    ELSE flushAck(e, [c EXCEPT !.remoteSeq = Plus(p.seq, -1), !.established = TRUE])

inReorderWindowLocked(c, seq) == Dist(c.remoteSeq, seq) \in 2 .. MaxReorderDistance

\* The receive window.
Buffered(c) == Len(c.readBuf) + Cardinality(DOMAIN c.pending)
canBufferLocked(c) ==
    Buffered(c) + 1 <= ReceiveWindow

applyPendingFinLocked(c) ==
    IF c.pendingFin = Plus(c.remoteSeq, 1)
    THEN [c EXCEPT !.remoteSeq = c.pendingFin, !.pendingFin = NoSeq, !.remoteClosed = TRUE]
    ELSE c

\* Deliver p and every parked packet that now follows it without a gap.
AcceptInOrder(c, p) ==
    LET run == CHOOSE n \in 0 .. SeqMod - 1 :
                   /\ \A k \in 1 .. n : Plus(p.seq, k) \in DOMAIN c.pending
                   /\ Plus(p.seq, n + 1) \notin DOMAIN c.pending
        next == {Plus(p.seq, k) : k \in 1 .. run}
    IN applyPendingFinLocked(
         [c EXCEPT !.readBuf = @ \o <<p.payload>> \o [k \in 1 .. run |-> c.pending[Plus(p.seq, k)]],
                   !.remoteSeq = Plus(p.seq, run),
                   !.pending = [s \in DOMAIN @ \ next |-> @[s]]])

\* Park a packet that is ahead of a gap, once, while there is room.
Park(c, p) ==
    IF p.seq \in DOMAIN c.pending \/ ~canBufferLocked(c) THEN c
    ELSE [c EXCEPT !.pending = [s \in DOMAIN @ \cup {p.seq} |->
                                    IF s = p.seq THEN p.payload ELSE @[s]]]

\* A variant takes the last packet again.
LastOrNext(c, p) == p.seq \in {c.remoteSeq, Plus(c.remoteSeq, 1)}
InOrder(c, p) == p.seq = Plus(c.remoteSeq, 1)

\* An old packet is acknowledged again: the earlier ack may be lost.  A variant
\* ignores it.
IgnoreOld(e, c) == Result(c, {})
AckOld(e, c) == flushAck(e, c)

handleData(e, c, p) ==
    LET next == Plus(c.remoteSeq, 1)
    IN IF c.closed \/ ~c.established THEN Result(c, {})
       ELSE IF InOrder(c, p)
            THEN IF canBufferLocked(c) THEN scheduleAck(e, AcceptInOrder(c, p)) ELSE Result(c, {})
       ELSE IF seqLT(next, p.seq)
            THEN IF inReorderWindowLocked(c, p.seq) THEN flushAck(e, Park(c, p)) ELSE Result(c, {})
       ELSE AckOld(e, c)


\* The FIN in order ends the stream, the one applied before is acknowledged
\* again, one that is ahead is parked, any other is dropped.
handleFin(e, c, p) ==
    IF c.closed \/ ~c.established THEN Result(c, {})
    ELSE IF p.seq = Plus(c.remoteSeq, 1)
         THEN flushAck(e, [c EXCEPT !.remoteSeq = p.seq, !.remoteClosed = TRUE])
    ELSE IF p.seq = c.remoteSeq /\ c.remoteClosed THEN flushAck(e, c)
    ELSE IF inReorderWindowLocked(c, p.seq)
         THEN flushAck(e, IF c.pendingFin = NoSeq \/ seqLT(p.seq, c.pendingFin)
                          THEN [c EXCEPT !.pendingFin = p.seq] ELSE c)
    ELSE Result(c, {})

\* An implausible ack is ignored, and so is a STATE, FIN or RESET that carries
\* one; the payload of a DATA packet is still taken.
handlePacket(e, c, p) ==
    LET ackOK == ackInRangeLocked(c, p.ack, Plus(c.localSeq, -1))
        c1 == IF ackOK THEN processAckLocked(c, p.ack) ELSE c
    IN CASE p.typ = "SYN"   -> IF c.closed \/ ~c.inbound THEN Result(c, {}) ELSE flushAck(e, c)
         [] p.typ = "RESET" -> IF ackInRangeLocked(c, p.ack, c.localSeq)
                               THEN closeWithError(e, c, FALSE) ELSE Result(c, {})
         [] p.typ = "STATE" -> IF ackOK THEN handleState(e, c1, p) ELSE Result(c1, {})
         [] p.typ = "DATA"  -> handleData(e, c1, p)
         [] p.typ = "FIN"   -> IF ackOK THEN handleFin(e, c1, p) ELSE Result(c1, {})

----------------------------------------------------------------------------
(* The read loops *)

KeyOf(e) == IF e = "d" THEN 0 ELSE 1            \* recv id, the key in Socket.conns
SendId(e) == IF e = "d" THEN 1 ELSE 0

\* A datagram to a closed socket is gone.
Sent(out) == {q \in out : sock[q.to] # "closed"}

\* The read loop takes p from the network, which may keep a second copy of it.
Taken(p, out) ==
    /\ sock[p.to] # "closed"
    /\ p.to = "a" => ~handing
    /\ \/ net' = (net \ {p}) \cup Sent(out) /\ UNCHANGED left
       \/ left.repeats > 0 /\ left' = [left EXCEPT !.repeats = @ - 1] /\ net' = net \cup Sent(out)

\* A packet of no connection is answered by a RESET; one that the budget of
\* maxResetsPerSecond withholds is a RESET the network loses.
StrayReset(p) == Taken(p, {writeReset(p.id, p)})

connRest == <<refuse, listener, sock, dialing, wr, written, confirmed, got, eof>>

\* A packet keyed to the end's Conn.
ReceiveForConn(p) ==
    LET e == p.to
        r == handlePacket(e, conn[e], p)
    IN /\ p.typ # "SYN" /\ table[e] /\ p.id = KeyOf(e)
       /\ Taken(p, r.out)
       /\ conn' = [conn EXCEPT ![e] = r.c]
       /\ UNCHANGED <<table, halfOpen, drawn, handing, accept, connRest>>

synAck(h) == Packet("d", "STATE", 0, h.seq, h.synSeq, 0)

\* A retransmitted SYN is answered by its Conn or by the SYN-ACK it got before;
\* a refused one by a RESET; a new one takes a half-open entry.
handleSyn(p) ==
    LET r == handlePacket("a", conn["a"], p)
        h == [synSeq |-> p.seq, seq |-> AcceptSeqs[drawn + 1]]
        fresh == halfOpen.synSeq # p.seq
    IN /\ p.typ = "SYN"
       /\ UNCHANGED <<table, handing, accept, connRest>>
       /\ IF sock["a"] # "open" THEN Taken(p, {}) /\ UNCHANGED <<conn, halfOpen, drawn>>
          ELSE IF table["a"]
               THEN Taken(p, r.out) /\ conn' = [conn EXCEPT !["a"] = r.c] /\ UNCHANGED <<halfOpen, drawn>>
          ELSE IF refuse /\ listener = "open"
               THEN Taken(p, {writeReset(p.id, p)}) /\ halfOpen' = NoEntry /\ UNCHANGED <<conn, drawn>>
          ELSE IF ~fresh
               THEN Taken(p, {synAck(halfOpen)}) /\ UNCHANGED <<conn, halfOpen, drawn>>
          ELSE IF listener # "open"
               THEN StrayReset(p) /\ UNCHANGED <<conn, halfOpen, drawn>>
          ELSE /\ drawn < Len(AcceptSeqs)
               /\ Taken(p, {synAck(h)})
               /\ halfOpen' = h /\ drawn' = drawn + 1 /\ UNCHANGED conn

acknowledgedBy(h, p) == p.typ \in {"DATA", "STATE"} /\ p.ack \in {Plus(h.seq, -1), h.seq}


\* The Conn of an acknowledged entry; an initiator acking seq itself is one
\* that lets the SYN-ACK consume its number.
promoteLocked(h, p) == newInboundConn(h.synSeq, IF p.ack = h.seq THEN Plus(h.seq, 1) ELSE h.seq)

ForHalfOpen(p) == p.to = "a" /\ p.id = KeyOf("a") /\ halfOpen # NoEntry

\* A packet for a half-open entry: it completes the handshake, is refused
\* although it would, or is dropped without a reply.
ReceiveForHalfOpen(p) ==
    LET r == handlePacket("a", promoteLocked(halfOpen, p), p)
        answered == IF p.typ = "STATE" THEN [p EXCEPT !.seq = Plus(@, -1)] ELSE p
    IN /\ p.typ # "SYN" /\ ~(table[p.to] /\ p.id = KeyOf(p.to)) /\ ForHalfOpen(p)
       /\ UNCHANGED <<drawn, connRest>>
       /\ IF ~acknowledgedBy(halfOpen, p)
          THEN Taken(p, {}) /\ UNCHANGED <<conn, table, halfOpen, handing, accept>>
          ELSE /\ halfOpen' = NoEntry
               /\ IF refuse
                  THEN Taken(p, {writeReset(0, answered)}) /\ UNCHANGED <<conn, table, handing, accept>>
                  ELSE /\ Taken(p, r.out)
                       /\ conn' = [conn EXCEPT !["a"] = r.c]
                       /\ table' = [table EXCEPT !["a"] = TRUE]
                       /\ handing' = TRUE /\ UNCHANGED accept

\* A packet for nobody: a RESET is routed by send id, anything else answered by one.
ReceiveStray(p) ==
    LET e == p.to
        r == handlePacket(e, conn[e], p)
    IN /\ p.typ # "SYN" /\ ~(table[e] /\ p.id = KeyOf(e)) /\ ~ForHalfOpen(p)
       /\ UNCHANGED <<table, halfOpen, drawn, handing, accept, connRest>>
       /\ IF p.typ # "RESET"
          THEN StrayReset(p) /\ UNCHANGED conn
          ELSE IF table[e] /\ p.id = SendId(e)
          THEN Taken(p, r.out) /\ conn' = [conn EXCEPT ![e] = r.c]
          ELSE Taken(p, {}) /\ UNCHANGED <<conn>>

Receive(p) == ReceiveForConn(p) \/ handleSyn(p) \/ ReceiveForHalfOpen(p) \/ ReceiveStray(p)

ListenerTakes == listener = "open"

\* The promoted Conn goes to the listener unless that is closed or its queue full.
enqueue ==
    LET r == closeWithError("a", conn["a"], TRUE)
    IN /\ handing /\ handing' = FALSE
       /\ \/ /\ ListenerTakes /\ accept' = "queued" /\ UNCHANGED <<conn, net, left>>
          \/ /\ IF ListenerTakes THEN Trouble ELSE UNCHANGED left
             /\ accept' = "refused"
             /\ conn' = [conn EXCEPT !["a"] = r.c] /\ net' = net \cup Sent(r.out)
       /\ UNCHANGED <<table, halfOpen, drawn, refuse, listener, sock, dialing, wr,
                      written, confirmed, got, eof>>

----------------------------------------------------------------------------
(* Time, the network and the sockets' owner *)

Lose(p) ==
    /\ p \in net /\ left.losses > 0
    /\ left' = [left EXCEPT !.losses = @ - 1] /\ net' = net \ {p}
    /\ UNCHANGED <<conn, table, halfOpen, drawn, handing, accept, connRest>>

connTime == <<conn, table, handing, accept, net, listener, sock, dialing, wr,
              written, confirmed, got, eof>>

\* halfOpenTimeout, or a full table, forgets the entry without a word.
liveHalfOpenLocked ==
    /\ halfOpen # NoEntry /\ halfOpen' = NoEntry
    /\ UNCHANGED <<drawn, refuse, left, connTime>>

SetRefuseIncoming ==
    /\ Trouble /\ refuse' = TRUE
    /\ UNCHANGED <<halfOpen, drawn, connTime>>

\* The held ack of a lone packet goes out.
flushDelayedAck(e) ==
    LET r == flushAck(e, conn[e])
    IN /\ conn[e].unsentAcks > 0 /\ ~conn[e].closed
       /\ conn' = [conn EXCEPT ![e] = r.c] /\ net' = net \cup Sent(r.out)
       /\ UNCHANGED <<table, halfOpen, drawn, handing, accept, left, connRest>>

unregister(e) ==
    /\ conn[e].closed /\ table[e] /\ table' = [table EXCEPT ![e] = FALSE]
    /\ UNCHANGED <<conn, halfOpen, drawn, handing, accept, net, left, connRest>>

\* Listener.Close: take nothing more and leave the socket, then drain what nobody accepted.
ListenerClose ==
    LET r == closeWithError("a", conn["a"], TRUE)
    IN /\ \/ /\ listener = "open" /\ listener' = "closed"
             /\ IF sock["a"] = "closing" THEN UNCHANGED left ELSE Trouble
             /\ UNCHANGED <<conn, accept, net>>
          \/ /\ listener = "closed" /\ accept = "queued"
             /\ conn' = [conn EXCEPT !["a"] = r.c] /\ net' = net \cup Sent(r.out)
             /\ accept' = "refused" /\ UNCHANGED <<listener, left>>
          \/ /\ listener = "closed" /\ accept # "queued"
             /\ listener' = "drained" /\ UNCHANGED <<conn, accept, net, left>>
       /\ UNCHANGED <<table, halfOpen, drawn, refuse, handing, sock, dialing, wr,
                      written, confirmed, got, eof>>

\* Socket.Close empties the tables, closes the listener and the Conns it held,
\* without a FIN, and then the UDP socket.
SocketClose(e) ==
    LET r == closeWithError(e, conn[e], FALSE)
    IN /\ \/ /\ sock[e] = "open" /\ Trouble
             /\ sock' = [sock EXCEPT ![e] = "closing"]
             /\ table' = [table EXCEPT ![e] = FALSE]
             /\ halfOpen' = IF e = "a" THEN NoEntry ELSE halfOpen
             /\ UNCHANGED <<conn, net>>
          \/ /\ sock[e] = "closing" /\ (e = "a" => listener = "drained")
             /\ sock' = [sock EXCEPT ![e] = "closed"]
             /\ conn' = [conn EXCEPT ![e] = IF @.made THEN r.c ELSE @]
             /\ net' = {q \in net : q.to # e}
             /\ UNCHANGED <<table, halfOpen, left>>
       /\ UNCHANGED <<drawn, refuse, listener, handing, accept, dialing, wr, written,
                      confirmed, got, eof>>

----------------------------------------------------------------------------
(* The applications *)

ends == <<halfOpen, drawn, refuse, listener, handing, sock>>

\* A retransmit timer of e fires when neither the packet nor an answer is in
\* flight; one that fires earlier is a repeat, which MaxRepeats bounds.
TimerFires(e, typ) == ~\E q \in net : q.to = e \/ q.typ = typ

\* A dial registers its Conn, unless the socket is closed,
Dial ==
    /\ dialing = "no" /\ sock["d"] = "open" /\ dialing' = "dial"
    /\ conn' = [conn EXCEPT !["d"] = newOutboundConn] /\ table' = [table EXCEPT !["d"] = TRUE]
    /\ UNCHANGED <<accept, wr, written, confirmed, got, eof, net, left, ends>>

\* sends the SYN again until it is answered ...
SendSyn ==
    /\ dialing = "dial" /\ ~conn["d"].closed /\ sock["d"] # "closed"
    /\ ~conn["d"].established /\ TimerFires("d", "SYN")
    /\ net' = net \cup Sent({Packet("a", "SYN", 0, Plus(conn["d"].localSeq, -1), 0, 0)})
    /\ UNCHANGED <<conn, table, accept, dialing, wr, written, confirmed, got, eof, left, ends>>

\* ... and returns when the Conn is established or closed; its select may see
\* either if both, and a context that ends wins over a Conn just established.
DialReturn ==
    LET r == closeWithError("d", conn["d"], FALSE)
    IN /\ dialing = "dial"
       /\ \/ /\ conn["d"].established /\ ~conn["d"].failed /\ dialing' = "ok"
             /\ UNCHANGED <<conn, table, left>>
          \/ /\ IF conn["d"].closed THEN UNCHANGED left ELSE Trouble
             /\ dialing' = "err"
             /\ conn' = [conn EXCEPT !["d"] = r.c]
             /\ table' = [table EXCEPT !["d"] = FALSE]
       /\ UNCHANGED <<accept, wr, written, confirmed, got, eof, net, ends>>

Accept ==
    /\ accept = "queued" /\ accept' = "taken"
    /\ UNCHANGED <<conn, table, dialing, wr, written, confirmed, got, eof, net, left, ends>>

Held(e) == IF e = "d" THEN dialing = "ok" ELSE accept = "taken"

appRest == <<table, accept, dialing, left, ends>>

Write(e, n) ==
    /\ Held(e) /\ wr[e].pc = "idle" /\ n <= left[e]
    /\ left' = [left EXCEPT ![e] = @ - n]
    /\ wr' = [wr EXCEPT ![e] = [pc |-> "busy", todo |-> n, out |-> << >>]]
    /\ UNCHANGED <<conn, written, confirmed, got, eof, net, table, accept, dialing, ends>>

\* A Write that fails forgets the waiters of what it had outstanding.
FailWrite(e) ==
    /\ wr' = [wr EXCEPT ![e] = [pc |-> "failed", todo |-> 0, out |-> << >>]]
    /\ conn' = [conn EXCEPT ![e].waiters = @ \ {wr[e].out[i].seq : i \in DOMAIN wr[e].out}]

\* The next chunk takes a sequence number and goes out, while the window has room.
queueWritePacket(e) ==
    LET c == conn[e]
        first == c.waiters = {}
        chunk == written[e] + 1
    IN /\ wr[e].pc = "busy" /\ wr[e].todo > 0 /\ Len(wr[e].out) < SendWindow
       /\ Cardinality(net) < MaxInFlight
       /\ IF c.closed THEN FailWrite(e) /\ UNCHANGED <<written, net>>
          ELSE /\ written' = [written EXCEPT ![e] = chunk]
               /\ wr' = [wr EXCEPT ![e].todo = @ - 1,
                                   ![e].out = Append(@, [seq |-> c.localSeq, chunk |-> chunk])]
               /\ conn' = [conn EXCEPT ![e] =
                     [c EXCEPT !.localSeq = Plus(@, 1), !.waiters = @ \cup {c.localSeq},
                               !.waiterBase = IF first THEN c.localSeq ELSE @]]
               /\ net' = net \cup Sent({packetLocked(e, c, "DATA", c.localSeq, chunk)})
       /\ UNCHANGED <<confirmed, got, eof, appRest>>

Waiting(e) ==
    /\ wr[e].pc = "busy" /\ Len(wr[e].out) > 0
    /\ wr[e].todo = 0 \/ Len(wr[e].out) = SendWindow

\* The oldest outstanding packet was acknowledged, or the Conn closed.
waitAck(e) ==
    LET first == Head(wr[e].out)
    IN /\ Waiting(e) /\ first.seq \notin conn[e].waiters
       /\ IF conn[e].closed THEN FailWrite(e) /\ UNCHANGED confirmed
          ELSE /\ wr' = [wr EXCEPT ![e].out = Tail(@)]
               /\ UNCHANGED <<conn, confirmed>>
       /\ UNCHANGED <<written, got, eof, net, appRest>>

\* Only the oldest outstanding packet is sent again, with a current ack.
Retransmit(e) ==
    LET first == Head(wr[e].out)
    IN /\ Waiting(e) /\ first.seq \in conn[e].waiters /\ TimerFires(e, "DATA")
       /\ net' = net \cup Sent({packetLocked(e, conn[e], "DATA", first.seq, first.chunk)})
       /\ UNCHANGED <<conn, wr, written, confirmed, got, eof, appRest>>

\* Write returns nil once nothing is outstanding.
WriteReturn(e) ==
    /\ wr[e].pc = "busy" /\ wr[e].todo = 0 /\ wr[e].out = << >>
    /\ wr' = [wr EXCEPT ![e] = IdleWrite]
    /\ confirmed' = [confirmed EXCEPT ![e] = written[e]]
    /\ UNCHANGED <<conn, written, got, eof, net, appRest>>

WriteDeadline(e) ==
    /\ wr[e].pc = "busy" /\ Trouble /\ FailWrite(e)
    /\ UNCHANGED <<written, confirmed, got, eof, net, table, accept, dialing, ends>>

\* What is buffered is read first, also from a closed Conn; a window that was
\* shut and opens is advertised at once.
Read(e) ==
    LET c == conn[e]
        c1 == [c EXCEPT !.readBuf = Tail(@)]
        r == IF ~canBufferLocked(c) THEN flushAck(e, c1) ELSE Result(c1, {})
    IN /\ Held(e)
       /\ \/ /\ c.readBuf # << >>
             /\ got' = [got EXCEPT ![e] = Append(@, Head(c.readBuf))]
             /\ conn' = [conn EXCEPT ![e] = r.c] /\ net' = net \cup Sent(r.out)
             /\ UNCHANGED eof
          \/ /\ c.readBuf = << >> /\ c.remoteClosed
             /\ eof' = [eof EXCEPT ![e] = TRUE] /\ UNCHANGED <<got, conn, net>>
       /\ UNCHANGED <<wr, written, confirmed, appRest>>

\* An application closes when a Write failed, it has written everything or read
\* the end; any other moment is a trouble.
closeConn(e) ==
    LET done == \/ wr[e].pc = "failed" \/ eof[e]
                \/ wr[e].pc = "idle" /\ left[e] = 0 /\ written[e] > 0
        r == closeWithError(e, conn[e], TRUE)
    IN /\ Held(e) /\ ~conn[e].closed
       /\ IF done THEN UNCHANGED left ELSE Trouble
       /\ conn' = [conn EXCEPT ![e] = r.c] /\ net' = net \cup Sent(r.out)
       /\ UNCHANGED <<table, wr, written, confirmed, got, eof, accept, dialing, ends>>

----------------------------------------------------------------------------
UTPNext ==
    \/ \E p \in net : Receive(p) \/ Lose(p)
    \/ enqueue \/ liveHalfOpenLocked \/ SetRefuseIncoming \/ ListenerClose
    \/ Dial \/ SendSyn \/ DialReturn \/ Accept
    \/ \E e \in End : \/ flushDelayedAck(e) \/ unregister(e) \/ SocketClose(e)
                      \/ \E n \in 1 .. left[e] : Write(e, n)
                      \/ queueWritePacket(e) \/ waitAck(e) \/ Retransmit(e) \/ WriteReturn(e)
                      \/ WriteDeadline(e) \/ Read(e) \/ closeConn(e)

ReadLoop(e) == \E p \in net : p.to = e /\ Receive(p)
WriterStep(e) == queueWritePacket(e) \/ waitAck(e) \/ Retransmit(e) \/ WriteReturn(e)
DialerStep == SendSyn \/ (conn["d"].established /\ dialing' = "ok" /\ DialReturn)

\* Goroutines run, timers fire, applications accept and read.  What is in flight
\* is lost or arrives, and losses are bounded: a datagram sent again and again
\* arrives.  Nobody has to write, close or refuse.
UTPFairness ==
    /\ WF_utpVars(enqueue) /\ WF_utpVars(liveHalfOpenLocked)
    /\ WF_utpVars(DialerStep) /\ WF_utpVars(Accept)
    /\ \A e \in End : /\ WF_utpVars(ReadLoop(e)) /\ WF_utpVars(WriterStep(e))
                      /\ WF_utpVars(Read(e)) /\ WF_utpVars(flushDelayedAck(e))

UTPSpec == UTPInit /\ [][UTPNext]_utpVars /\ UTPFairness
----------------------------------------------------------------------------
(* Properties *)

UTPTypeOK ==
    /\ \A e \in End : /\ conn[e].localSeq \in 0 .. SeqMod - 1 /\ conn[e].remoteSeq \in 0 .. SeqMod - 1
                      /\ conn[e].waiters \subseteq 0 .. SeqMod - 1
                      /\ DOMAIN conn[e].pending \subseteq 0 .. SeqMod - 1
                      /\ conn[e].unsentAcks \in 0 .. AckCoalesceCount - 1
                      /\ Len(conn[e].readBuf) + Cardinality(DOMAIN conn[e].pending) <= ReceiveWindow
                      /\ wr[e].pc \in {"idle", "busy", "failed"} /\ Len(wr[e].out) <= SendWindow
    /\ listener \in {"open", "closed", "drained"}
    /\ accept \in {"no", "queued", "taken", "refused"}
    /\ \A e \in End : sock[e] \in {"open", "closing", "closed"}

\* The pair of Conns implements the byte stream: losses, repeats, reordering,
\* retransmits and wrap-around never show in what an application reads.
Stream == INSTANCE ByteStream WITH Ends <- End, Other <- Peer
StreamInOrder == Stream!StreamSpec

EOFIsComplete == \A e \in End : eof[e] => Len(got[e]) = written[Peer(e)]

ConfirmedIsDelivered ==
    \A e \in End : confirmed[e] <= Len(got[Peer(e)]) + Len(conn[Peer(e)].readBuf)

PositionsAgree ==
    conn["d"].established /\ ~conn["d"].failed /\ conn["a"].made =>
        \A e \in End :
            LET c == conn[e]
                count == Len(got[e]) + Len(c.readBuf)
                lag == Dist(c.remoteSeq, Plus(conn[Peer(e)].localSeq, -1))
            IN lag - (written[Peer(e)] - count)
                   \in IF c.remoteClosed THEN {0} ELSE IF conn[Peer(e)].closed THEN {0, 1} ELSE {0}

NoStrandedConn ==
    /\ listener = "drained" => accept # "queued"
    /\ accept = "refused" => conn["a"].closed

\* Both ends agree on the position in each direction: the receiver lags the
\* sender by exactly the chunks it has not taken in (and the FIN), also after
\* SYN-ACKs that were repeated, forgotten and drawn again.  A Read returns
\* io.EOF only after everything the peer gave a sequence number to, before its
\* FIN, has been read; what a Write that returned nil wrote is at the other
\* end, read or readable, whatever happens to the connection afterwards.  And a
\* closed listener leaves no Conn in its queue, and one it refused is closed:
\* enqueue on the read loop and Listener.Close may interleave in any way.
EndsAgree ==
    /\ UTPTypeOK /\ PositionsAgree
    /\ EOFIsComplete /\ ConfirmedIsDelivered
    /\ NoStrandedConn

\* A chunk that was sent arrives and its Write returns nil, unless the Write
\* fails or an end is closed: a lost ack is replaced.
Gone(e) == conn[e].closed \/ sock[e] # "open"
Arrives ==
    \A e \in End : \A k \in 1 .. SendWindow :
        []<>(written[e] >= k => \/ Len(got[Peer(e)]) >= k /\ confirmed[e] >= k
                                \/ wr[e].pc = "failed" \/ Gone(e) \/ Gone(Peer(e)))
=============================================================================
