------------------------------- MODULE PeerDial -------------------------------
(***************************************************************************)
(* One outbound connection, from the dial to the BitTorrent handshake, and *)
(* the peer that answers it: the TCP and uTP dials that race, the MSE      *)
(* handshake each end's encryption policy asks for, the plaintext fallback *)
(* on a second connection, the retry over TCP, and the monitor that closes *)
(* the connection with the session.  (pkg/downloader/peer_conn.go,         *)
(* encryption.go, pkg/mse/mse.go)                                          *)
(*                                                                         *)
(* Keys, pads and ciphers are left out: a flight of the MSE handshake is   *)
(* one message, and the stream after it has the mode it was made with.  A  *)
(* connection is the attempt it was dialled for and its transport: 1, the  *)
(* dial; 2, its plaintext fallback; 3, the retry over TCP; 4, its fallback.*)
(***************************************************************************)
EXTENDS Naturals, Sequences, FiniteSets

CONSTANTS
    Torrents,
    DialPlans       \* bound: [a, b, offers, payload, selects,
                    \* transports, reach, wanted, calm, budget]

VARIABLES
    live,           \* the session's context
    served,         \* the torrents of the answering end, and its secret keys
    dial,           \* connection -> its dialling goroutine
    open,           \* connections the dialling end has open
    late,           \* connections closeLateDialSuccesses waits for
    a,              \* the dialling goroutine
    monitor,        \* monitoredPeerConn
    talk,           \* the conversation on the connection in use
    dialPlan

dialVars == <<live, served, dial, open, late, a, monitor, talk, dialPlan>>

Conns == (1 .. 4) \X {"tcp", "utp"}
NoConn == <<0, "none">>
Quiet == [toA |-> <<>>, toB |-> <<>>, b |-> "away", mode |-> "plain", secret |-> "none", names |-> "none"]
Awaiting == {"awaitKey", "awaitSelect", "awaitHandshake"}
Spend(kind) == dialPlan.budget[kind] > 0 /\ dialPlan' = [dialPlan EXCEPT !.budget[kind] = @ - 1]

Transports(try) == IF try \in {1, 2} THEN dialPlan.transports ELSE {"tcp"}
Dialling(try) == [c \in Conns |-> IF c[1] = try /\ c[2] \in Transports(try) THEN "dialing" ELSE dial[c]]

DialInit ==
    /\ dialPlan \in DialPlans /\ live = TRUE /\ served = Torrents
    /\ dial = [c \in Conns |-> IF c[1] = 1 /\ c[2] \in dialPlan.transports THEN "dialing" ELSE "none"]
    /\ open = {} /\ late = {} /\ talk = Quiet
    /\ a = [at |-> "dial", try |-> 1, conn |-> NoConn, utp |-> NoConn, mode |-> "plain",
            timedOut |-> FALSE]
    /\ monitor = [conn |-> NoConn, closed |-> FALSE]

----------------------------------------------------------------------------
(* dialPeer, pickDialResult *)

\* Both dials end when they will, after a pick too: a cancelled one may have
\* connected already.
DialSucceeds(c) ==
    /\ dial[c] = "dialing" /\ c[2] \in dialPlan.reach
    /\ dial' = [dial EXCEPT ![c] = "up"] /\ open' = open \cup {c}
    /\ UNCHANGED <<live, served, late, a, monitor, talk, dialPlan>>

DialFails(c) ==
    /\ dial[c] = "dialing" /\ dial' = [dial EXCEPT ![c] = "error"]
    /\ IF c[2] \in dialPlan.reach /\ live /\ c \notin late THEN Spend("fail") ELSE UNCHANGED dialPlan
    /\ UNCHANGED <<live, served, open, late, a, monitor, talk>>

Pending == {c \in Conns : c[1] = a.try /\ dial[c] \in {"dialing", "up", "error"}}
Use(c) == [a EXCEPT !.at = "dialed", !.conn = c, !.utp = NoConn]

\* The handshake failed: over uTP and in time for one more try, over TCP only.
Ends(timedOut, conn) ==
    IF a.try <= 2 /\ conn[2] = "utp" /\ timedOut /\ live
    THEN [a EXCEPT !.at = "dial", !.try = 3, !.timedOut = FALSE]
    ELSE [a EXCEPT !.at = "failed"]
DialsFor(next) == dial' = IF next.at = "dial" THEN Dialling(next.try) ELSE dial

\* TCP connected: the uTP connection that waited for it is closed.
ClosesTheLoser(c) == open \ {a.utp}

\* A fallback that fails may have timed out, as the handshake before it may.
TakeResult(c) ==
    /\ a.at = "dial" /\ c \in Pending /\ dial[c] # "dialing"
    /\ IF dial[c] = "error"
       THEN /\ \E dialTimedOut \in BOOLEAN :
                 a' = IF a.utp # NoConn THEN Use(a.utp)
                      ELSE IF Pending = {c} THEN Ends(a.timedOut \/ dialTimedOut, a.conn) ELSE a
            /\ dial' = [(IF a'.at = "dial" /\ a'.try # a.try THEN Dialling(3) ELSE dial) EXCEPT ![c] = "done"]
            /\ UNCHANGED <<open, late>>
       ELSE /\ dial' = [dial EXCEPT ![c] = "done"]
            /\ IF c[2] = "tcp"
               THEN a' = Use(c) /\ open' = ClosesTheLoser(c) /\ late' = late \cup (Pending \ {c})
               ELSE /\ a' = IF Pending = {c} THEN Use(c) ELSE [a EXCEPT !.utp = c]
                    /\ UNCHANGED <<open, late>>
    /\ UNCHANGED <<live, served, monitor, talk, dialPlan>>

GraceEnds ==
    /\ a.at = "dial" /\ a.utp # NoConn
    /\ a' = Use(a.utp) /\ late' = late \cup Pending
    /\ UNCHANGED <<live, served, dial, open, monitor, talk, dialPlan>>

closeLateDialSuccesses(c) ==
    /\ c \in late /\ dial[c] # "dialing"
    /\ late' = late \ {c} /\ dial' = [dial EXCEPT ![c] = "done"] /\ open' = open \ {c}
    /\ UNCHANGED <<live, served, a, monitor, talk, dialPlan>>

----------------------------------------------------------------------------
(* The dialling end *)

Key == [m |-> "key"]
Flight(t) == [m |-> "flight", t |-> t, methods |-> dialPlan.offers, payload |-> dialPlan.payload]
Select(method) == [m |-> "select", method |-> method]
Handshake(mode, t) == [m |-> "handshake", mode |-> mode, t |-> t]
ToB(x, msg) == [x EXCEPT !.toB = Append(@, msg)]
ToA(x, msg) == [x EXCEPT !.toA = Append(@, msg)]

\* monitoredPeerConn.set
setMonitor(c) ==
    IF monitor.closed THEN open' = open \ {c} /\ UNCHANGED monitor
    ELSE monitor' = [monitor EXCEPT !.conn = c] /\ UNCHANGED open

Shake(mode) ==
    /\ a' = [a EXCEPT !.at = "awaitHandshake", !.mode = mode]
    /\ talk' = ToB([Quiet EXCEPT !.b = "accepted"], Handshake(mode, dialPlan.wanted))

\* handshakeOutgoingPeer on a fresh connection: MSE first, or plaintext.
Negotiate ==
    /\ a.at = "dialed" /\ a.try \in {1, 3} /\ setMonitor(a.conn)
    /\ IF dialPlan.a = "disable" THEN Shake("plain")
       ELSE /\ a' = [a EXCEPT !.at = "awaitKey"]
            /\ talk' = ToB([Quiet EXCEPT !.b = "accepted"], Key)
    /\ UNCHANGED <<live, served, dial, late, dialPlan>>

\* negotiateOutgoingPeerConn with the fallback connection.
Fallback ==
    /\ a.at = "dialed" /\ a.try \in {2, 4}
    /\ IF live THEN setMonitor(a.conn) /\ Shake("plain") /\ UNCHANGED dial
       ELSE /\ open' = open \ {a.conn} /\ a' = [a EXCEPT !.at = "failed"]
            /\ UNCHANGED <<dial, monitor, talk>>
    /\ UNCHANGED <<live, served, late, dialPlan>>

\* A variant: the fallback is tried whatever the policy.
AlwaysFallsBack == TRUE
MayFallBack == dialPlan.a # "require"

\* A failed MSE handshake closes the connection; under prefer another is dialled.
MSEFails(timedOut) ==
    /\ open' = open \ {a.conn}
    /\ monitor' = [monitor EXCEPT !.conn = NoConn]
    /\ LET next == IF MayFallBack
                   THEN [a EXCEPT !.at = "dial", !.try = @ + 1, !.timedOut = timedOut]
                   ELSE Ends(timedOut, a.conn)
       IN a' = next /\ DialsFor(next)
    /\ talk' = [Quiet EXCEPT !.b = "gone"]

ShakeFails(timedOut) ==
    /\ open' = open \ {a.conn}
    /\ LET next == Ends(timedOut, a.conn) IN a' = next /\ DialsFor(next)
    /\ talk' = [Quiet EXCEPT !.b = "gone"] /\ UNCHANGED monitor

Fails(timedOut) == IF a.at = "awaitHandshake" THEN ShakeFails(timedOut) ELSE MSEFails(timedOut)

Accepts(method) == method \in {"rc4", "plain"} \cap dialPlan.offers

\* doInitiator's reads, and the handshake's.
ReadA ==
    /\ a.at \in Awaiting /\ a.conn \in open /\ talk.toA # <<>>
    /\ LET msg == Head(talk.toA)
           rest == [talk EXCEPT !.toA = Tail(@)]
       IN IF a.at = "awaitKey" /\ msg.m = "key"
          THEN /\ a' = [a EXCEPT !.at = "awaitSelect"]
               /\ talk' = ToB(rest, Flight(dialPlan.wanted)) /\ UNCHANGED <<dial, open, monitor>>
          ELSE IF a.at = "awaitSelect" /\ msg.m = "select" /\ Accepts(msg.method)
          THEN /\ a' = [a EXCEPT !.at = "awaitHandshake", !.mode = msg.method]
               /\ talk' = IF dialPlan.payload THEN rest
                          ELSE ToB(rest, Handshake(msg.method, dialPlan.wanted))
               /\ setMonitor(a.conn) /\ UNCHANGED dial
          ELSE IF a.at = "awaitHandshake" /\ msg.m = "handshake" /\ msg.mode = a.mode /\ msg.t = dialPlan.wanted
          THEN a' = [a EXCEPT !.at = "up"] /\ talk' = rest /\ UNCHANGED <<dial, open, monitor>>
          ELSE Fails(FALSE)
    /\ UNCHANGED <<live, served, late, dialPlan>>

\* The connection was closed under it, by the peer or the monitor.
EOFA ==
    /\ a.at \in Awaiting /\ (a.conn \notin open \/ (talk.toA = <<>> /\ talk.b = "gone"))
    /\ Fails(FALSE) /\ UNCHANGED <<live, served, late, dialPlan>>

DeadlineA ==
    /\ a.at \in Awaiting /\ Spend("timeout") /\ Fails(TRUE)
    /\ UNCHANGED <<live, served, late>>

\* The peer message loop (module PeerConnections) ends.
Hangup ==
    /\ a.at = "up" /\ (a.conn \in open => talk.b = "gone")
    /\ a' = [a EXCEPT !.at = "failed"] /\ open' = open \ {a.conn}
    /\ UNCHANGED <<live, served, dial, late, monitor, talk, dialPlan>>

CloseSession ==
    /\ live /\ Spend("close") /\ live' = FALSE
    /\ UNCHANGED <<served, dial, open, late, a, monitor, talk>>

Monitored == a.at # "failed" /\ (a.at # "dial" \/ a.try > 1)
MonitorCloses ==
    /\ ~live /\ Monitored /\ ~monitor.closed
    /\ monitor' = [conn |-> NoConn, closed |-> TRUE] /\ open' = open \ {monitor.conn}
    /\ UNCHANGED <<live, served, dial, late, a, talk, dialPlan>>

----------------------------------------------------------------------------
(* The answering end: the shared listener (module InboundListener), or the *)
(* one of a session on its own; or another client, which may select what   *)
(* it likes.                                                               *)

ServesPlaintext == dialPlan.b # "require"

Gone == [talk EXCEPT !.b = "gone", !.toB = <<>>]
\* parseIncomingHandshake, readRoutedHandshake: the torrent named inside must be
\* the one the MSE handshake was made for, and one that is served.
Answer(rest, msg) ==
    IF /\ msg.mode = rest.mode /\ rest.secret \in {"none", msg.t} /\ msg.t \in served
    THEN ToA([rest EXCEPT !.b = "up", !.names = msg.t], Handshake(msg.mode, msg.t))
    ELSE Gone

\* negotiateIncomingPeerConn: the first bytes decide.
ReadFirst ==
    /\ talk.b = "accepted" /\ talk.toB # <<>>
    /\ LET msg == Head(talk.toB)
           rest == [talk EXCEPT !.toB = Tail(@)]
       IN talk' = IF msg.m = "handshake"
                  THEN IF ServesPlaintext THEN Answer(rest, msg) ELSE Gone
                  ELSE IF dialPlan.b = "disable" THEN Gone
                  ELSE ToA([rest EXCEPT !.b = "awaitFlight"], Key)
    /\ UNCHANGED <<live, served, dial, open, late, a, monitor, dialPlan>>

\* doReceiver: the secret key, then the method.
ReadFlight ==
    /\ talk.b = "awaitFlight" /\ talk.toB # <<>>
    /\ LET msg == Head(talk.toB)
           rest == [talk EXCEPT !.toB = Tail(@)]
       IN IF msg.t \notin served \/ dialPlan.selects \cap {"rc4", "plain"} = {}
          THEN talk' = Gone
          ELSE \E method \in dialPlan.selects :
                  LET made == [rest EXCEPT !.b = "awaitHandshake", !.mode = method, !.secret = msg.t]
                  IN talk' = IF dialPlan.b # "foreign" /\ method \notin msg.methods THEN Gone
                             ELSE LET said == ToA(made, Select(method))
                                  IN IF msg.payload THEN Answer(said, Handshake(method, msg.t)) ELSE said
    /\ UNCHANGED <<live, served, dial, open, late, a, monitor, dialPlan>>

ReadHandshakeB ==
    /\ talk.b = "awaitHandshake" /\ talk.toB # <<>>
    /\ talk' = Answer([talk EXCEPT !.toB = Tail(@)], Head(talk.toB))
    /\ UNCHANGED <<live, served, dial, open, late, a, monitor, dialPlan>>

\* Its own deadline, or it hangs up.
DropB ==
    /\ talk.b \notin {"away", "gone"} /\ Spend("drop") /\ talk' = Gone
    /\ UNCHANGED <<live, served, dial, open, late, a, monitor>>

RemoveTorrent(t) ==
    /\ t \in served /\ Spend("remove") /\ served' = served \ {t}
    /\ UNCHANGED <<live, dial, open, late, a, monitor, talk>>

DialNext ==
    \/ \E c \in Conns : \/ DialSucceeds(c) \/ DialFails(c) \/ TakeResult(c) \/ closeLateDialSuccesses(c)
    \/ GraceEnds \/ Negotiate \/ Fallback \/ ReadA \/ EOFA \/ DeadlineA \/ Hangup \/ CloseSession
    \/ MonitorCloses \/ ReadFirst \/ ReadFlight \/ ReadHandshakeB \/ DropB
    \/ \E t \in Torrents : RemoveTorrent(t)

DialSpec == DialInit /\ [][DialNext]_dialVars

----------------------------------------------------------------------------
DialTypeOK ==
    /\ dial \in [Conns -> {"none", "dialing", "up", "error", "done"}] /\ open \subseteq Conns
    /\ a.at \in {"dial", "dialed", "up", "failed"} \cup Awaiting /\ a.conn \in Conns \cup {NoConn}
    /\ talk.b \in {"away", "accepted", "awaitFlight", "awaitHandshake", "up", "gone"}

Settled == late = {} /\ \A c \in Conns : dial[c] \in {"none", "done"}

\* Every connection dialled is closed unless it is the one in use, whichever
\* transport won and whenever the other one came up (peer_conn.go:741 "Every
\* connection that loses is closed"); and none outlives its session: once the
\* monitor has run, a connection set later is closed as well (encryption.go:33).
NoStrayConnection ==
    /\ Settled /\ a.at \in {"up", "failed"} \cup Awaiting =>
          open \subseteq (IF a.at = "failed" THEN {} ELSE {a.conn})
    /\ monitor.closed /\ a.at \in Awaiting \cup {"up"} => a.conn \notin open

\* mse.go PolicyRequire "permits only MSE-encrypted peer connections": an end
\* that requires encryption has none in plaintext, whatever the other offers,
\* selects or names; and two ends that are connected run the same stream for
\* the same torrent.
RequireIsEncrypted ==
    /\ a.at = "up" /\ dialPlan.a = "require" => a.mode = "rc4"
    /\ talk.b = "up" /\ dialPlan.b = "require" => talk.mode = "rc4"
    /\ a.at = "up" /\ talk.b = "up" => a.mode = talk.mode /\ talk.names = dialPlan.wanted

Calm == dialPlan.calm /\ "foreign" \notin {dialPlan.a, dialPlan.b} /\ dialPlan.reach \cap dialPlan.transports # {}
Compatible(p, q) == {p, q} # {"require", "disable"}

\* Two of these clients connect whenever their policies allow it: when nothing
\* goes wrong on the way, a dial fails only between require and disable, so the
\* policies differ in what they accept and not in what they can reach.
CompatibleEndsConnect ==
    a.at = "failed" /\ Calm => ~Compatible(dialPlan.a, dialPlan.b)
==============================================================================
