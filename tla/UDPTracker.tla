----------------------------- MODULE UDPTracker -----------------------------
(***************************************************************************)
(* One UDP announce or scrape (pkg/tracker/udptracker.go): a connect round *)
(* trip for a connection id, then the request under that id, both on one   *)
(* socket, each resent with the same transaction id until its answer or    *)
(* the deadline arrives.                                                   *)
(*                                                                         *)
(* Datagrams are a set: any of them may be lost (never delivered), late,   *)
(* delivered twice or out of order.  Transaction ids are random; here the  *)
(* two of an operation differ.  Time is counted in base timeouts (15 s).   *)
(***************************************************************************)
EXTENDS Integers, FiniteSets

CONSTANTS
    UdpMaxRetries,      \* udpMaxRetries
    Deadlines,          \* the deadlines the caller's context may set, in base timeouts
    DefaultUDPTimeout,  \* defaultUDPTimeout, for a caller without one
    ConnectionIds,      \* connection ids the tracker may give
    Hashes,             \* info hashes a scrape asks for: a count
    MaxReplies          \* bound: different datagrams the tracker sends

ASSUME UDPAssumption ==
    /\ UdpMaxRetries \in Nat /\ DefaultUDPTimeout \in Nat \ {0} /\ Hashes \in Nat \ {0}
    /\ Deadlines \subseteq Nat /\ 0 \notin ConnectionIds

VARIABLES
    op,         \* "announce" or "scrape"
    phase,      \* "dial", "connect", "request" or "done"
    attempt,    \* n of udpRoundTrip
    timeOut,    \* udpTimeout(n): it doubles with every attempt
    reading,    \* the request is written and its answer awaited
    deadline,   \* time until this attempt ends
    budget,     \* time until the context ends
    connId,     \* connectionID, 0 before there is one
    sent,       \* datagrams the tracker may receive: its phase and connection id
    replies,    \* datagrams the socket may receive
    taken,      \* the reply the operation ended with
    missed,     \* a matching answer was read and not taken
    result      \* "none" yet, "answer", "error", "malformed", "timeout" or "failed"

udpVars == <<op, phase, attempt, timeOut, reading, deadline, budget, connId, sent, replies, taken, missed, result>>

NoReply == [action |-> "none", txn |-> "none", id |-> 0, size |-> 0]
Txn == phase    \* each phase draws a transaction id of its own
Expected == IF phase = "connect" THEN "connect" ELSE op     \* expectedAction

Requests == [phase : {"connect", "request"}, id : ConnectionIds \cup {0}]
IsReply(r) == DOMAIN r = {"action", "txn", "id", "size"}

UdpTypeOK ==
    /\ op \in {"announce", "scrape"} /\ phase \in {"dial", "connect", "request", "done"}
    /\ attempt \in 0 .. UdpMaxRetries /\ timeOut \in Nat \ {0} /\ reading \in BOOLEAN
    /\ deadline \in Nat /\ budget \in Nat /\ connId \in ConnectionIds \cup {0}
    /\ sent \subseteq Requests
    /\ \A r \in replies \cup {taken} : IsReply(r)
    /\ missed \in BOOLEAN
    /\ result \in {"none", "answer", "error", "malformed", "timeout", "failed"}

\* ensureUDPDeadline: a caller without a deadline (0) gets the default one.
ensureUDPDeadline(d) == IF d = 0 THEN DefaultUDPTimeout ELSE d

\* udpTimeout: the time-out of the attempt after one of `before`, 0 for the first.
udpTimeout(before) == IF before = 0 THEN 1 ELSE 2 * before

UdpInit ==
    /\ op \in {"announce", "scrape"}
    /\ phase = "dial" /\ attempt = 0 /\ timeOut = udpTimeout(0) /\ reading = FALSE /\ deadline = 0
    /\ \E d \in Deadlines : budget = ensureUDPDeadline(d)
    /\ connId = 0 /\ sent = {} /\ replies = {} /\ taken = NoReply /\ missed = FALSE /\ result = "none"

End(how) == phase' = "done" /\ result' = how /\ reading' = FALSE

\* udpDial: the socket is connected, or the URL, the address rules or the dial refuse.
udpDial ==
    /\ phase = "dial"
    /\ IF budget = 0 THEN End("timeout")
       ELSE \/ phase' = "connect" /\ UNCHANGED <<result, reading>>
            \/ End("failed")
    /\ UNCHANGED <<op, attempt, timeOut, deadline, budget, connId, sent, replies, taken, missed>>

\* udpRoundTrip, one attempt: the deadline is set and the request written,
\* unless the attempts or the context have run out.
Write ==
    /\ phase \in {"connect", "request"} /\ ~reading
    /\ IF budget = 0 THEN End("timeout") /\ UNCHANGED <<deadline, sent>>
       ELSE /\ deadline' = IF budget < timeOut THEN budget ELSE timeOut
            /\ sent' = sent \cup {[phase |-> phase, id |-> connId]}
            /\ reading' = TRUE /\ UNCHANGED <<phase, result>>
    /\ UNCHANGED <<op, attempt, timeOut, budget, connId, replies, taken, missed>>

\* Time passes; at the deadline of the attempt the request is sent again, as
\* long as retries and time are left.
UdpTick ==
    /\ reading
    /\ deadline' = deadline - 1 /\ budget' = budget - 1
    /\ IF deadline > 1 THEN UNCHANGED <<phase, attempt, timeOut, reading, result>>
       ELSE IF budget > 1 /\ attempt < UdpMaxRetries
       THEN /\ attempt' = attempt + 1 /\ timeOut' = udpTimeout(timeOut) /\ reading' = FALSE
            /\ UNCHANGED <<phase, result>>
       ELSE End("timeout") /\ UNCHANGED <<attempt, timeOut>>
    /\ UNCHANGED <<op, connId, sent, replies, taken, missed>>

\* A variant: any datagram large enough is taken for the answer.
AnyTxn(r) == r.size # 0
\* Whether the datagram answers the pending request: it is no runt and carries
\* its transaction id.
Matches(r) == r.size # 0 /\ r.txn = Txn

\* udpConnect's answer holds the connection id; announce and scrape answers are
\* parsed, a scrape only with exactly one triple per hash.
WellFormed(r) == phase = "connect" \/ op = "announce" \/ r.size = Hashes + 1
Accept(r) ==
    IF r.action = "error" THEN taken' = r /\ End("error") /\ UNCHANGED <<attempt, timeOut, connId>>
    ELSE IF r.action # Expected \/ ~WellFormed(r)
    THEN taken' = r /\ End("malformed") /\ UNCHANGED <<attempt, timeOut, connId>>
    ELSE IF phase = "connect"
    THEN /\ phase' = "request" /\ attempt' = 0 /\ timeOut' = udpTimeout(0) /\ reading' = FALSE
         /\ connId' = r.id
         /\ UNCHANGED <<taken, result>>
    ELSE taken' = r /\ End("answer") /\ UNCHANGED <<attempt, timeOut, connId>>

\* The read loop of udpRoundTrip: a datagram that does not match is skipped.
Read(r) ==
    /\ reading /\ r \in replies
    /\ IF Matches(r) THEN Accept(r) /\ UNCHANGED missed
       ELSE /\ missed' = (missed \/ (r.size # 0 /\ r.txn = Txn))
            /\ UNCHANGED <<phase, attempt, timeOut, reading, connId, taken, result>>
    /\ UNCHANGED <<op, deadline, budget, sent, replies>>

\* The context is cancelled: the watchdog closes the socket.
Cancel ==
    /\ phase # "done"
    /\ End("failed")
    /\ UNCHANGED <<op, attempt, timeOut, deadline, budget, connId, sent, replies, taken, missed>>

\* The tracker answers a request it received, with an error or nonsense if it
\* likes; it refuses an id it never gave.
TrackerAnswers(q) ==
    /\ q \in sent /\ Cardinality(replies) < MaxReplies
    /\ \E r \in [action : {"connect", "announce", "scrape", "error"}, txn : {q.phase},
                 id : IF q.phase = "connect" THEN ConnectionIds ELSE {q.id}, size : {0, 1, Hashes + 1}] :
         /\ q.phase = "request" /\ q.id = 0 => r.action = "error"
         /\ q.phase = "connect" => r.action \in {"connect", "error"}
         /\ replies' = replies \cup {r}
    /\ UNCHANGED <<op, phase, attempt, timeOut, reading, deadline, budget, connId, sent, taken, missed, result>>

UdpNext ==
    \/ udpDial \/ Write \/ UdpTick \/ Cancel
    \/ \E r \in replies : Read(r)
    \/ \E q \in sent : TrackerAnswers(q)

UdpSpec == UdpInit /\ [][UdpNext]_udpVars

----------------------------------------------------------------------------
(* Properties *)

\* A late or repeated datagram never passes for the answer: what a finished
\* operation returns, and the error it reports, are the tracker's words on the
\* request that was pending, under the connection id of this operation.  And an
\* answer to any attempt counts: none is skipped because the request has been
\* sent again since.
AnswerIsOurs ==
    /\ result = "answer" => /\ taken.txn = "request" /\ taken.action = op
                            /\ taken.id = connId /\ connId # 0
    /\ result \in {"error", "malformed"} => taken.txn = (IF connId = 0 THEN "connect" ELSE "request")
    /\ ~missed

\* A UDP tracker operation ends with the answer to its own request, whatever
\* late or repeated datagrams arrive (udptracker.go:204).
UdpAnswersFit == UdpTypeOK /\ AnswerIsOurs
=============================================================================
