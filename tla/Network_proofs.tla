--------------------------- MODULE Network_proofs ---------------------------
(***************************************************************************)
(* What MCNetwork checks of its parts, for every value of their constants. *)
(*                                                                         *)
(* AnnounceInv strengthens AnnouncesAreKept by what makes it inductive: an *)
(* event is in flight only in a round, the delivered events are a prefix   *)
(* of those asked for, the time a round and a scrape have taken, and, for  *)
(* each place of the loop, how long a tracker can have been due there      *)
(* (WaitsAt).  A tracker counts as late only while it is due and not being *)
(* asked, so the next round takes every late tracker.                      *)
(*                                                                         *)
(* UdpInv strengthens UdpAnswersFit by where connection ids come from: what *)
(* is sent after the connect carries the id of this operation, so whatever *)
(* the tracker answers to the request does too.                            *)
(*                                                                         *)
(* RoutingInv, for ContactsKept, adds to what the table promises what the  *)
(* goroutines carry: a newcomer of a challenge has answered, an ID has one *)
(* verification at most and its cooldowns are not armed, and what is still *)
(* in the nodes file has its address to itself.                            *)
(*                                                                         *)
(* InboundInv restates HandshakesAreShared as the three books the listener *)
(* keeps: below half the budget no block can be over half, for it counts   *)
(* only some of the handshakes that are counted at all.                    *)
(*                                                                         *)
(* PortInv, for PortsAreTrue, adds what each place of the NAT loop knows:  *)
(* from a granted TCP request to the next round the gateway maps the port  *)
(* or has forgotten it, and every mapping the gateway holds is one the     *)
(* loop still has in hand or has already booked as lost.                   *)
(*                                                                         *)
(* ServerInv, for ServerKeepsBooks, says of the peer store taken as one    *)
(* value that its counts and its order are those of its lists, which every *)
(* operation on that value keeps; a refused sender holds its slot, blocked *)
(* for what is left of its block; and a token no older than its secret's   *)
(* generation allows is still good.                                        *)
(***************************************************************************)
EXTENDS UDPTracker, TrackerAnnounce, RoutingTable, InboundListener, PortMapping, DHTServer,
        TLAPS, SequenceTheorems, FiniteSetTheorems, WellFoundedInduction

----------------------------------------------------------------------------
(* A UDP announce or scrape *)

PendingPhases == {"connect", "request"}

\* An answer is awaited only while time is left, and the result is open till the end.
TimeIsLeft ==
    /\ reading => phase \in PendingPhases /\ deadline >= 1 /\ deadline <= budget
    /\ phase # "done" => result = "none"

\* The connection id: none before the connect is answered, and what was sent as
\* a request carries the one there is.
IdIsOurs ==
    /\ phase \in {"dial", "connect"} => connId = 0
    /\ phase = "request" => connId # 0
    /\ \A q \in sent : q.phase = "request" => q.id = connId /\ connId # 0

\* A reply to the connect offers an id, one to the request carries ours.
RepliesFit ==
    \A r \in replies : /\ r.txn = "connect" => r.id \in ConnectionIds
                       /\ r.txn = "request" => r.id = connId /\ connId # 0

\* The inductive invariant of a UDP operation.
UdpInv == UdpTypeOK /\ TimeIsLeft /\ IdIsOurs /\ RepliesFit /\ AnswerIsOurs

\* Before the dial nothing has been sent.
LEMMA UdpInitInv == UdpInit => UdpInv
<1> SUFFICES ASSUME UdpInit PROVE UdpInv
  OBVIOUS
<1>1. budget \in Nat
  BY UDPAssumption DEF UdpInit, ensureUDPDeadline
<1>2. /\ UdpMaxRetries \in Nat /\ 0 \in 0 .. UdpMaxRetries /\ 1 \in Nat \ {0} /\ 0 \in Nat
      /\ udpTimeout(0) = 1 /\ IsReply(NoReply)
  BY UDPAssumption DEF udpTimeout, IsReply, NoReply
<1>3. UdpTypeOK
  BY <1>1, <1>2 DEF UdpInit, UdpTypeOK
<1> QED
  BY <1>3 DEF UdpInit, UdpInv, TimeIsLeft, IdIsOurs, RepliesFit, AnswerIsOurs

\* The dial: the socket is connected, or the operation ends.
LEMMA DialKeeps == UdpInv /\ udpDial => UdpInv'
<1> SUFFICES ASSUME UdpInv, udpDial PROVE UdpInv'
  OBVIOUS
<1>1. UdpTypeOK'
  BY DEF UdpInv, UdpTypeOK, udpDial, End
<1>2. TimeIsLeft'
  BY DEF UdpInv, TimeIsLeft, udpDial, End, PendingPhases
<1>3. IdIsOurs' /\ RepliesFit' /\ AnswerIsOurs'
  BY DEF UdpInv, IdIsOurs, RepliesFit, AnswerIsOurs, TimeIsLeft, udpDial, End
<1> QED
  BY <1>1, <1>2, <1>3 DEF UdpInv

\* A write records its connection id and starts an attempt within the budget.
LEMMA WriteKeeps == UdpInv /\ Write => UdpInv'
<1> SUFFICES ASSUME UdpInv, Write PROVE UdpInv'
  OBVIOUS
<1>1. /\ phase \in PendingPhases /\ result = "none" /\ deadline \in Nat
      /\ budget \in Nat /\ timeOut \in Nat \ {0} /\ [phase |-> phase, id |-> connId] \in Requests
  BY DEF UdpInv, UdpTypeOK, TimeIsLeft, Write, PendingPhases, Requests
<1>2. CASE budget = 0
  <2>1. /\ phase' = "done" /\ result' = "timeout" /\ reading' = FALSE
        /\ UNCHANGED <<op, attempt, timeOut, deadline, budget, connId, sent, replies, taken, missed>>
    BY <1>2 DEF Write, End
  <2>2. UdpTypeOK'
    BY <2>1 DEF UdpInv, UdpTypeOK
  <2> QED
    BY <2>1, <2>2 DEF UdpInv, TimeIsLeft, IdIsOurs, RepliesFit, AnswerIsOurs
<1>3. CASE budget # 0
  <2>1. /\ deadline' = IF budget < timeOut THEN budget ELSE timeOut
        /\ sent' = sent \cup {[phase |-> phase, id |-> connId]} /\ reading' = TRUE
        /\ UNCHANGED <<op, phase, attempt, timeOut, budget, connId, replies, taken, missed, result>>
    BY <1>3 DEF Write
  <2>2. deadline' \in Nat /\ deadline' >= 1 /\ deadline' <= budget
    <3>1. deadline' = IF budget < timeOut THEN budget ELSE timeOut
      BY <2>1
    <3> QED
      BY <3>1, <1>1, <1>3
  <2>3. UdpTypeOK'
    BY <1>1, <2>1, <2>2 DEF UdpInv, UdpTypeOK
  <2>4. TimeIsLeft'
    BY <1>1, <2>1, <2>2 DEF TimeIsLeft
  <2>5. IdIsOurs'
    BY <2>1 DEF UdpInv, IdIsOurs
  <2> QED
    BY <2>1, <2>3, <2>4, <2>5 DEF UdpInv, RepliesFit, AnswerIsOurs
<1> QED
  BY <1>2, <1>3

\* Time passes: the next attempt, or the end.
LEMMA TickKeeps == UdpInv /\ UdpTick => UdpInv'
<1> SUFFICES ASSUME UdpInv, UdpTick PROVE UdpInv'
  OBVIOUS
<1>1. /\ deadline \in Nat /\ budget \in Nat /\ deadline >= 1 /\ deadline <= budget
      /\ attempt \in 0 .. UdpMaxRetries /\ timeOut \in Nat \ {0} /\ phase \in PendingPhases
      /\ result = "none"
  BY DEF UdpInv, UdpTypeOK, TimeIsLeft, UdpTick, PendingPhases
<1>2. deadline' = deadline - 1 /\ budget' = budget - 1
      /\ UNCHANGED <<op, connId, sent, replies, taken, missed>>
  BY DEF UdpTick
<1>3. deadline' \in Nat /\ budget' \in Nat /\ deadline' <= budget'
  <2>1. deadline' = deadline - 1 /\ budget' = budget - 1
    BY <1>2
  <2> QED
    BY <1>1, <2>1
<1>4. CASE deadline > 1
  <2>1. UNCHANGED <<phase, attempt, timeOut, reading, result>>
    BY <1>4 DEF UdpTick
  <2>2. deadline' >= 1
    BY <1>1, <1>2, <1>4
  <2>3. UdpTypeOK'
    BY <1>2, <1>3, <2>1 DEF UdpInv, UdpTypeOK
  <2>4. TimeIsLeft'
    BY <1>1, <1>3, <2>1, <2>2 DEF TimeIsLeft
  <2> QED
    BY <1>2, <2>1, <2>3, <2>4 DEF UdpInv, IdIsOurs, RepliesFit, AnswerIsOurs
<1>5. CASE ~(deadline > 1) /\ budget > 1 /\ attempt < UdpMaxRetries
  <2>1. /\ attempt' = attempt + 1 /\ timeOut' = udpTimeout(timeOut) /\ reading' = FALSE
        /\ UNCHANGED <<phase, result>>
    BY <1>5 DEF UdpTick
  <2>2. attempt' \in 0 .. UdpMaxRetries /\ timeOut' \in Nat \ {0}
    <3>1. attempt' = attempt + 1 /\ timeOut' = udpTimeout(timeOut)
      BY <2>1
    <3> QED
      BY <1>1, <1>5, <3>1, UDPAssumption DEF udpTimeout
  <2>3. UdpTypeOK'
    BY <1>2, <1>3, <2>1, <2>2 DEF UdpInv, UdpTypeOK
  <2> QED
    BY <1>1, <1>2, <2>1, <2>3 DEF UdpInv, TimeIsLeft, IdIsOurs, RepliesFit, AnswerIsOurs
<1>6. CASE ~(deadline > 1) /\ ~(budget > 1 /\ attempt < UdpMaxRetries)
  <2>1. /\ phase' = "done" /\ result' = "timeout" /\ reading' = FALSE
        /\ UNCHANGED <<attempt, timeOut>>
    BY <1>6 DEF UdpTick, End
  <2>2. UdpTypeOK'
    BY <1>2, <1>3, <2>1 DEF UdpInv, UdpTypeOK
  <2> QED
    BY <1>2, <2>1, <2>2 DEF UdpInv, TimeIsLeft, IdIsOurs, RepliesFit, AnswerIsOurs
<1> QED
  BY <1>4, <1>5, <1>6

\* A cancelled operation reports no answer.
LEMMA CancelKeeps == UdpInv /\ Cancel => UdpInv'
<1> SUFFICES ASSUME UdpInv, Cancel PROVE UdpInv'
  OBVIOUS
<1>1. UdpTypeOK'
  BY DEF UdpInv, UdpTypeOK, Cancel, End
<1> QED
  BY <1>1 DEF UdpInv, TimeIsLeft, IdIsOurs, RepliesFit, AnswerIsOurs, Cancel, End

\* A datagram that matches: an error, nonsense, the connection id, or the
\* answer.
LEMMA AcceptKeeps ==
    ASSUME UdpInv, NEW r \in replies, reading, Matches(r), Accept(r), UNCHANGED missed,
           UNCHANGED <<op, deadline, budget, sent, replies>>
    PROVE  UdpInv'
<1>1. CASE r.action = "error" \/ r.action # Expected \/ ~WellFormed(r)
  <2>1. /\ phase' = "done" /\ reading' = FALSE /\ taken' = r
        /\ result' \in {"error", "malformed"} /\ UNCHANGED <<attempt, timeOut, connId>>
    BY <1>1 DEF Accept, End
  <2>2. UdpTypeOK'
    BY <2>1 DEF UdpInv, UdpTypeOK
  <2>3. r.txn = phase /\ phase \in PendingPhases
    BY DEF Matches, Txn, UdpInv, TimeIsLeft
  <2>4. AnswerIsOurs'
    BY <2>1, <2>3 DEF UdpInv, AnswerIsOurs, IdIsOurs, PendingPhases
  <2> QED
    BY <2>1, <2>2, <2>4 DEF UdpInv, TimeIsLeft, IdIsOurs, RepliesFit
<1>2. CASE r.action = Expected /\ r.action # "error" /\ WellFormed(r) /\ phase = "connect"
  <2>1. /\ phase' = "request" /\ attempt' = 0 /\ timeOut' = 1 /\ reading' = FALSE /\ connId' = r.id
        /\ UNCHANGED <<taken, result>>
    BY <1>2 DEF Accept, udpTimeout
  <2>2. r.txn = "connect"
    BY <1>2 DEF Matches, Txn
  <2>3. r.id \in ConnectionIds /\ r.id # 0
    BY <2>2, UDPAssumption DEF UdpInv, RepliesFit
  <2>4. UdpTypeOK'
    <3>1. 0 \in 0 .. UdpMaxRetries /\ 1 \in Nat \ {0}
      BY UDPAssumption
    <3> QED
      BY <2>1, <2>3, <3>1 DEF UdpInv, UdpTypeOK
  <2>5. connId = 0 /\ (\A q \in sent : q.phase # "request") /\ (\A s \in replies : s.txn # "request")
    BY <1>2 DEF UdpInv, IdIsOurs, RepliesFit
  <2>6. result \notin {"answer", "error", "malformed"}
    BY <1>2 DEF UdpInv, TimeIsLeft
  <2>7. TimeIsLeft' /\ AnswerIsOurs'
    BY <1>2, <2>1, <2>6 DEF UdpInv, TimeIsLeft, AnswerIsOurs
  <2>8. IdIsOurs'
    BY <2>1, <2>3, <2>5 DEF IdIsOurs
  <2>9. RepliesFit'
    BY <2>1, <2>5 DEF UdpInv, RepliesFit
  <2> QED
    BY <2>4, <2>7, <2>8, <2>9 DEF UdpInv
<1>3. CASE r.action = Expected /\ r.action # "error" /\ WellFormed(r) /\ phase # "connect"
  <2>1. /\ phase' = "done" /\ reading' = FALSE /\ taken' = r /\ result' = "answer"
        /\ UNCHANGED <<attempt, timeOut, connId>>
    BY <1>3 DEF Accept, End
  <2>2. phase = "request" /\ r.txn = "request" /\ r.action = op
    BY <1>3 DEF Matches, Txn, Expected, UdpInv, TimeIsLeft, PendingPhases
  <2>3. UdpTypeOK'
    BY <2>1 DEF UdpInv, UdpTypeOK
  <2>4. r.id = connId /\ connId # 0
    BY <2>2 DEF UdpInv, RepliesFit
  <2> QED
    BY <2>1, <2>2, <2>3, <2>4 DEF UdpInv, TimeIsLeft, IdIsOurs, RepliesFit, AnswerIsOurs
<1> QED
  BY <1>1, <1>2, <1>3

\* A datagram is read: it matches, or it is skipped.
LEMMA ReadKeeps == ASSUME UdpInv, NEW r, Read(r) PROVE UdpInv'
<1>1. CASE Matches(r)
  BY <1>1, AcceptKeeps DEF Read
<1>2. CASE ~Matches(r)
  <2>1. missed' = FALSE /\ UNCHANGED <<op, phase, attempt, timeOut, reading, deadline, budget, connId,
                                       sent, replies, taken, result>>
    BY <1>2 DEF Read, Matches, UdpInv, AnswerIsOurs
  <2> QED
    BY <2>1 DEF UdpInv, UdpTypeOK, TimeIsLeft, IdIsOurs, RepliesFit, AnswerIsOurs
<1> QED
  BY <1>1, <1>2

\* What the tracker sends carries the id and transaction of what it received.
LEMMA TrackerAnswersKeeps == ASSUME UdpInv, NEW q, TrackerAnswers(q) PROVE UdpInv'
<1> DEFINE Ids == IF q.phase = "connect" THEN ConnectionIds ELSE {q.id}
<1>1. PICK r \in [action : {"connect", "announce", "scrape", "error"}, txn : {q.phase},
                  id : Ids, size : {0, 1, Hashes + 1}] :
        replies' = replies \cup {r}
  BY DEF TrackerAnswers
<1>2. IsReply(r) /\ r.txn = q.phase /\ r.id \in Ids
  BY DEF IsReply
<1>3. q \in sent
  BY DEF TrackerAnswers
<1>4. UNCHANGED <<op, phase, attempt, timeOut, reading, deadline, budget, connId, sent, taken, missed, result>>
  BY DEF TrackerAnswers
<1>5. UdpTypeOK'
  BY <1>1, <1>2, <1>4 DEF UdpInv, UdpTypeOK
<1>6. RepliesFit'
  BY <1>1, <1>2, <1>3, <1>4 DEF UdpInv, RepliesFit, IdIsOurs
<1> QED
  BY <1>4, <1>5, <1>6 DEF UdpInv, TimeIsLeft, IdIsOurs, AnswerIsOurs

\* Whatever datagrams are lost, late, repeated or reordered, a UDP announce or
\* scrape ends with the tracker's words on its own pending request, under its own
\* connection id, and skips no answer (udptracker.go, udpRoundTrip).
THEOREM UdpAnswersAreOurs == UdpSpec => []UdpAnswersFit
<1>1. UdpInv /\ [UdpNext]_udpVars => UdpInv'
  <2> SUFFICES ASSUME UdpInv, [UdpNext]_udpVars PROVE UdpInv'
    OBVIOUS
  <2>1. CASE UNCHANGED udpVars
    BY <2>1 DEF UdpInv, UdpTypeOK, TimeIsLeft, IdIsOurs, RepliesFit, AnswerIsOurs, udpVars
  <2> QED
    BY <2>1, DialKeeps, WriteKeeps, TickKeeps, CancelKeeps, ReadKeeps,
       TrackerAnswersKeeps DEF UdpNext
<1>2. UdpInv => UdpAnswersFit
  BY DEF UdpInv, UdpAnswersFit
<1> QED
  BY UdpInitInv, <1>1, <1>2, PTL DEF UdpSpec

----------------------------------------------------------------------------
(* The events of a session: sequences *)

Events == {"started", "stopped", "completed"}

\* A prefix of a sequence of events: its type, its length, its elements.
LEMMA PrefixFacts ==
    ASSUME NEW a \in Seq(Events), NEW d \in 0 .. Len(a)
    PROVE  /\ SubSeq(a, 1, d) \in Seq(Events) /\ Len(SubSeq(a, 1, d)) = d
           /\ \A i \in 1 .. d : SubSeq(a, 1, d)[i] = a[i]
<1>1. Len(a) \in Nat
  BY LenProperties
<1>2. \A i \in 1 .. d : a[i] \in Events
  BY <1>1, ElementOfSeq
<1>3. d \in Int /\ 1 \in Int
  BY <1>1
<1>4. /\ SubSeq(a, 1, d) \in Seq(Events) /\ Len(SubSeq(a, 1, d)) = IF 1 <= d THEN d - 1 + 1 ELSE 0
      /\ \A i \in 1 .. d - 1 + 1 : SubSeq(a, 1, d)[i] = a[1 + i - 1]
  BY <1>2, <1>3, SubSeqProperties
<1> QED
  BY <1>1, <1>4

\* An event put behind a queue is put behind what the queue ends.
LEMMA LastEvent ==
    ASSUME NEW r \in Seq(Events), NEW q \in Seq(Events), NEW e \in Events
    PROVE  (r \o q) \o <<e>> = r \o (q \o <<e>>)
<1>1. <<e>> \in Seq(Events)
  OBVIOUS
<1> QED
  BY <1>1, ConcatAssociative

\* An event asked for is an event queued: both sequences grow by it.
LEMMA QueueOne ==
    ASSUME NEW a \in Seq(Events), NEW d \in 0 .. Len(a), NEW f \in Seq(Events), NEW q \in Seq(Events),
           NEW e \in Events, a = SubSeq(a, 1, d) \o f \o q
    PROVE  Append(a, e) = SubSeq(Append(a, e), 1, d) \o f \o Append(q, e)
<1> DEFINE p == SubSeq(a, 1, d)
           b == Append(a, e)
<1>1. p \in Seq(Events) /\ Len(p) = d /\ \A i \in 1 .. d : p[i] = a[i]
  BY PrefixFacts
<1>2. Len(a) \in Nat /\ b \in Seq(Events) /\ Len(b) = Len(a) + 1 /\ \A i \in 1 .. Len(a) : b[i] = a[i]
  BY LenProperties, AppendProperties
<1>3. d \in 0 .. Len(b)
  BY <1>2
<1>4. SubSeq(b, 1, d) \in Seq(Events) /\ Len(SubSeq(b, 1, d)) = d
      /\ \A i \in 1 .. d : SubSeq(b, 1, d)[i] = b[i]
  BY <1>2, <1>3, PrefixFacts
<1>5. \A i \in 1 .. d : SubSeq(b, 1, d)[i] = p[i]
  BY <1>1, <1>2, <1>4
<1>6. SubSeq(b, 1, d) = p
  BY <1>1, <1>4, <1>5, SeqEqual
<1>7. b = a \o <<e>> /\ Append(q, e) = q \o <<e>> /\ <<e>> \in Seq(Events)
  BY AppendIsConcat
<1>8. p \o f \in Seq(Events)
  BY <1>1, ConcatProperties
<1>9. b = (p \o f) \o (q \o <<e>>)
  <2>1. ((p \o f) \o q) \o <<e>> = (p \o f) \o (q \o <<e>>)
    BY <1>8, LastEvent
  <2>2. b = ((p \o f) \o q) \o <<e>>
    BY <1>7, Zenon
  <2> QED
    BY <2>1, <2>2, Zenon
<1> QED
  BY <1>6, <1>7, <1>9

\* Taking the head of the queue as the event in flight loses nothing.
LEMMA TakeOne ==
    ASSUME NEW p \in Seq(Events), NEW q \in Seq(Events), q # << >>
    PROVE  /\ p \o << >> \o q = p \o <<Head(q)>> \o Tail(q)
           /\ Head(q) \in Events /\ Tail(q) \in Seq(Events)
<1>1. /\ Head(q) \in Events /\ Tail(q) \in Seq(Events) /\ Len(Tail(q)) = Len(q) - 1
      /\ \A i \in 1 .. Len(Tail(q)) : Tail(q)[i] = q[i + 1]
  BY HeadTailProperties
<1> DEFINE h == <<Head(q)>>
<1>2. h \in Seq(Events) /\ Len(h) = 1 /\ h[1] = q[1] /\ Len(q) \in Nat /\ Len(q) >= 1
  BY <1>1, LenProperties, EmptySeq
<1>3. /\ h \o Tail(q) \in Seq(Events) /\ Len(h \o Tail(q)) = Len(q)
      /\ \A i \in 1 .. Len(q) : (h \o Tail(q))[i] = IF i <= 1 THEN h[i] ELSE Tail(q)[i - 1]
  BY <1>1, <1>2, ConcatProperties
<1>4. \A i \in 1 .. Len(q) : (h \o Tail(q))[i] = q[i]
  BY <1>1, <1>2, <1>3
<1>5. h \o Tail(q) = q
  BY <1>2, <1>3, <1>4, SeqEqual
<1>6. p \o << >> = p /\ (p \o h) \o Tail(q) = p \o (h \o Tail(q))
  BY <1>1, <1>2, ConcatEmptySeq, ConcatAssociative
<1> QED
  BY <1>1, <1>5, <1>6

\* Neither does putting the event in flight back to the head.
LEMMA PutBack ==
    ASSUME NEW p \in Seq(Events), NEW q \in Seq(Events), NEW e \in Events
    PROVE  p \o <<e>> \o q = p \o << >> \o (<<e>> \o q) /\ <<e>> \o q \in Seq(Events)
<1>1. <<e>> \in Seq(Events) /\ p \o << >> = p
  BY ConcatEmptySeq
<1> QED
  BY <1>1, ConcatAssociative, ConcatProperties

\* A delivered event is the next of those asked for.
LEMMA DeliverOne ==
    ASSUME NEW a \in Seq(Events), NEW d \in 0 .. Len(a), NEW q \in Seq(Events), NEW e \in Events,
           a = SubSeq(a, 1, d) \o <<e>> \o q
    PROVE  d + 1 \in 0 .. Len(a) /\ a = SubSeq(a, 1, d + 1) \o << >> \o q
<1> DEFINE p == SubSeq(a, 1, d)
           r == p \o <<e>>
<1>1. p \in Seq(Events) /\ Len(p) = d /\ (\A i \in 1 .. d : p[i] = a[i]) /\ Len(a) \in Nat /\ Len(q) \in Nat
  BY PrefixFacts, LenProperties
<1>2. <<e>> \in Seq(Events) /\ Len(<<e>>) = 1
  OBVIOUS
<1>3. r \in Seq(Events) /\ Len(r) = d + 1
  BY <1>1, <1>2, ConcatProperties
<1>4. /\ Len(a) = d + 1 + Len(q)
      /\ \A i \in 1 .. d + 1 + Len(q) : a[i] = IF i <= d + 1 THEN r[i] ELSE q[i - (d + 1)]
  BY <1>3, ConcatProperties
<1>5. d + 1 \in 0 .. Len(a)
  BY <1>1, <1>4
<1>6. /\ SubSeq(a, 1, d + 1) \in Seq(Events) /\ Len(SubSeq(a, 1, d + 1)) = d + 1
      /\ \A i \in 1 .. d + 1 : SubSeq(a, 1, d + 1)[i] = a[i]
  BY <1>5, PrefixFacts
<1>7. \A i \in 1 .. d + 1 : SubSeq(a, 1, d + 1)[i] = r[i]
  BY <1>1, <1>4, <1>6
<1>8. SubSeq(a, 1, d + 1) = r
  BY <1>3, <1>6, <1>7, SeqEqual
<1> QED
  BY <1>3, <1>5, <1>8, ConcatEmptySeq

\* When every queued event counts as delivered, all that were asked for do.
LEMMA DeliverAll ==
    ASSUME NEW a \in Seq(Events), NEW d \in 0 .. Len(a), NEW q \in Seq(Events),
           a = SubSeq(a, 1, d) \o << >> \o q
    PROVE  d + Len(q) \in 0 .. Len(a) /\ a = SubSeq(a, 1, d + Len(q)) \o << >> \o << >>
<1>1. SubSeq(a, 1, d) \in Seq(Events) /\ Len(SubSeq(a, 1, d)) = d /\ Len(a) \in Nat /\ Len(q) \in Nat
  BY PrefixFacts, LenProperties
<1>2. a = SubSeq(a, 1, d) \o q
  BY <1>1, ConcatEmptySeq
<1>3. Len(a) = d + Len(q)
  BY <1>1, <1>2, ConcatProperties
<1>4. SubSeq(a, 1, d + Len(q)) = a
  BY <1>3, SubSeqFull
<1> QED
  BY <1>1, <1>3, <1>4, ConcatEmptySeq

\* A set of naturals that is not empty has a least element: < is well-founded.
LEMMA LeastIsIn ==
    ASSUME NEW S \in SUBSET Nat, S # {}
    PROVE  Least(S) \in S
<1>1. PICK x \in S : \A y \in S : <<y, x>> \notin OpToRel(<, Nat)
  BY NatLessThanWellFounded, WFMin, Zenon
<1>2. \A y \in S : ~ (y < x)
  <2>1. ASSUME NEW y \in S, y < x PROVE FALSE
    <3>1. <<y, x>> \in Nat \X Nat /\ <<y, x>>[1] = y /\ <<y, x>>[2] = x
      OBVIOUS
    <3> QED
      BY <1>1, <2>1, <3>1, Zenon DEF OpToRel
  <2> QED
    BY <2>1
<1>3. \A y \in S : x <= y
  BY <1>2
<1> QED
  BY <1>3 DEF Least

\* The longest round is a natural number: there are finitely many trackers.
LEMMA LongestRoundIsNat == LongestRound \in Nat
<1> DEFINE share == (Cardinality(Trackers) + AnnounceWorkers - 1) \div AnnounceWorkers
<1>1. Cardinality(Trackers) \in Nat
  BY TrackerAssumption, FS_CardinalityType DEF TrackerAssumption
<1>2. AnnounceWorkers \in Nat \ {0} /\ AnnounceTimeout \in Nat
  BY TrackerAssumption DEF TrackerAssumption
<1>3. share \in Nat
  BY <1>1, <1>2
<1> HIDE DEF share
<1>4. AnnounceTimeout * share \in Nat
  BY <1>2, <1>3
<1> QED
  BY <1>4 DEF LongestRound, share

----------------------------------------------------------------------------
(* The events of a session: every step *)

\* What was asked for is what was delivered, the event of the round, and the queue.
QueueInv ==
    /\ queue \in Seq(Events) /\ asked \in Seq(Events) /\ event \in Events \cup {"none"}
    /\ done \in 0 .. Len(asked)
    /\ event # "none" => loop = "round"
    /\ asked = SubSeq(asked, 1, done) \o InFlight \o queue

\* At first the started event is queued.
LEMMA QueueInitInv == TrackerInit => QueueInv
<1> SUFFICES ASSUME TrackerInit PROVE QueueInv
  OBVIOUS
<1> DEFINE s == <<"started">>
<1>1. queue = s /\ asked = s /\ done = 0 /\ event = "none" /\ s \in Seq(Events) /\ Len(s) = 1
  BY DEF TrackerInit, Events
<1> HIDE DEF s
<1>2. SubSeq(s, 1, 0) = << >> /\ << >> \o << >> = << >> /\ << >> \o s = s
  BY <1>1, SubSeqEmpty, ConcatEmptySeq, EmptySeq
<1>3. 0 \in 0 .. 1
  OBVIOUS
<1> QED
  BY <1>1, <1>2, <1>3 DEF QueueInv, InFlight

\* A step that touches no event keeps the books, unless it leaves a round.
LEMMA QueueFrame ==
    ASSUME QueueInv, UNCHANGED <<queue, asked, done, event>>, loop' = loop \/ loop # "round"
    PROVE  QueueInv'
BY DEF QueueInv, InFlight

\* queueTrackerEventLocked: the event is queued and asked for, or is there
\* already.
LEMMA EventQueued ==
    ASSUME QueueInv, NEW e \in Events, queueTrackerEventLocked(e), UNCHANGED <<done, event, loop>>
    PROVE  QueueInv'
<1>1. CASE Coalesced(e)
  <2>1. UNCHANGED <<queue, asked>>
    BY <1>1 DEF queueTrackerEventLocked
  <2> QED
    BY <2>1, QueueFrame
<1>2. CASE ~Coalesced(e)
  <2>1. queue' = Append(queue, e) /\ asked' = Append(asked, e)
    BY <1>2 DEF queueTrackerEventLocked
  <2>2. InFlight \in Seq(Events) /\ InFlight' = InFlight
    BY DEF QueueInv, InFlight
  <2>3. asked' = SubSeq(asked', 1, done) \o InFlight \o queue'
    BY <2>1, <2>2, QueueOne DEF QueueInv
  <2>4. /\ queue' \in Seq(Events) /\ asked' \in Seq(Events) /\ Len(asked') = Len(asked) + 1
        /\ Len(asked) \in Nat
    BY <2>1, AppendProperties, LenProperties DEF QueueInv
  <2>5. done' \in 0 .. Len(asked')
    BY <2>4 DEF QueueInv
  <2> QED
    BY <2>2, <2>3, <2>4, <2>5 DEF QueueInv
<1> QED
  BY <1>1, <1>2

\* The top of a round takes the head of the queue.
LEMMA AnnounceKeepsQueue == QueueInv /\ announceDue => QueueInv'
<1> SUFFICES ASSUME QueueInv, announceDue PROVE QueueInv'
  OBVIOUS
<1>1. /\ event = "none" /\ InFlight = << >> /\ asked' = asked /\ done' = done /\ loop' = "round"
      /\ event' = IF queue = << >> THEN "none" ELSE Head(queue)
      /\ queue' = IF queue = << >> THEN queue ELSE Tail(queue)
  BY DEF announceDue, QueueInv, InFlight
<1>2. CASE queue = << >>
  BY <1>1, <1>2 DEF QueueInv, InFlight
<1>3. CASE queue # << >>
  <2> DEFINE p == SubSeq(asked, 1, done)
  <2>1. p \in Seq(Events)
    BY PrefixFacts DEF QueueInv
  <2>2. queue \in Seq(Events) /\ asked = p \o << >> \o queue
    BY <1>1 DEF QueueInv
  <2> HIDE DEF p
  <2>3. /\ asked = p \o <<Head(queue)>> \o Tail(queue)
        /\ Head(queue) \in Events /\ Tail(queue) \in Seq(Events)
    BY <1>3, <2>1, <2>2, TakeOne
  <2>4. event' = Head(queue) /\ queue' = Tail(queue) /\ event' # "none"
    BY <1>1, <1>3, <2>3 DEF Events
  <2>5. InFlight' = <<Head(queue)>>
    BY <2>4 DEF InFlight
  <2> QED
    BY <1>1, <2>3, <2>4, <2>5 DEF QueueInv, p
<1> QED
  BY <1>2, <1>3

\* Without a usable tracker the event of the round and the queue are delivered.
LEMMA FlushKeepsQueue ==
    ASSUME QueueInv, Flushed, asked' = asked, event' = "none"
    PROVE  QueueInv'
<1> DEFINE p == SubSeq(asked, 1, done)
           heard == InFlight \o queue
<1>1. /\ p \in Seq(Events) /\ InFlight \in Seq(Events) /\ queue \in Seq(Events)
      /\ asked \in Seq(Events) /\ done \in 0 .. Len(asked) /\ asked = p \o InFlight \o queue
  BY PrefixFacts DEF QueueInv, InFlight
<1>2. queue' = << >> /\ done' = done + Len(heard)
  BY DEF Flushed
<1>3. InFlight' = << >> /\ << >> \in Seq(Events)
  BY EmptySeq DEF InFlight
<1>4. heard \in Seq(Events)
  BY <1>1, ConcatProperties
<1>5. asked = p \o << >> \o heard
  <2> HIDE DEF p
  <2>1. p \o << >> = p /\ (p \o InFlight) \o queue = p \o (InFlight \o queue)
    BY <1>1, ConcatEmptySeq, ConcatAssociative
  <2> QED
    BY <1>1, <2>1
<1> HIDE DEF heard
<1>6. done' \in 0 .. Len(asked) /\ asked = SubSeq(asked, 1, done') \o << >> \o << >>
  BY <1>1, <1>2, <1>4, <1>5, DeliverAll
<1> QED
  BY <1>1, <1>2, <1>3, <1>6 DEF QueueInv

\* A round ends: its event was delivered, or goes back to the head.
LEMMA RoundEndsKeepsQueue == QueueInv /\ RoundEnds => QueueInv'
<1> SUFFICES ASSUME QueueInv, RoundEnds PROVE QueueInv'
  OBVIOUS
<1> DEFINE p == SubSeq(asked, 1, done)
<1>0. CASE Trackers = {}
  BY <1>0, FlushKeepsQueue DEF RoundEnds
<1> SUFFICES ASSUME Trackers # {} PROVE QueueInv'
  BY <1>0
<1>1. /\ queue' = Requeued(event, delivered) /\ asked' = asked /\ event' = "none"
      /\ done' = IF event # "none" /\ delivered THEN done + 1 ELSE done
  BY DEF RoundEnds, finishTrackerEventLocked
<1>2. /\ p \in Seq(Events) /\ queue \in Seq(Events) /\ asked \in Seq(Events) /\ done \in 0 .. Len(asked)
      /\ asked = p \o InFlight \o queue
  BY PrefixFacts DEF QueueInv
<1>3. InFlight' = << >>
  BY <1>1 DEF InFlight
<1>4. CASE event = "none"
  <2>1. queue' = queue /\ done' = done
    BY <1>1, <1>4 DEF Requeued
  <2> QED
    BY <1>1, <1>3, <1>4, <2>1 DEF QueueInv, InFlight
<1>5. CASE event # "none" /\ delivered
  <2>1. queue' = queue /\ done' = done + 1 /\ event \in Events /\ InFlight = <<event>>
    BY <1>1, <1>5 DEF Requeued, QueueInv, InFlight
  <2>2. done + 1 \in 0 .. Len(asked) /\ asked = SubSeq(asked, 1, done + 1) \o << >> \o queue
    BY <1>2, <2>1, DeliverOne
  <2> QED
    BY <1>1, <1>2, <1>3, <2>1, <2>2 DEF QueueInv
<1>6. CASE event # "none" /\ ~delivered
  <2>1. queue' = <<event>> \o queue /\ done' = done /\ event \in Events /\ InFlight = <<event>>
    BY <1>1, <1>6 DEF Requeued, QueueInv, InFlight
  <2> HIDE DEF p
  <2>2. p \o <<event>> \o queue = p \o << >> \o queue' /\ queue' \in Seq(Events)
    BY <1>2, <2>1, PutBack
  <2> QED
    BY <1>1, <1>2, <1>3, <2>1, <2>2 DEF QueueInv, p
<1> QED
  BY <1>4, <1>5, <1>6

\* Every step keeps the books of the events.
LEMMA QueueStep == QueueInv /\ [TrackerNext]_trackerVars => QueueInv'
<1> SUFFICES ASSUME QueueInv, [TrackerNext]_trackerVars PROVE QueueInv'
  OBVIOUS
<1>1. CASE PauseOrResume
  BY <1>1, EventQueued DEF PauseOrResume, Events, round
<1>2. CASE Completes
  BY <1>2, EventQueued DEF Completes, Events, round
<1>3. CASE setAdvertisedPort
  BY <1>3, EventQueued DEF setAdvertisedPort, Events, round
<1>4. CASE CloseAnnounces
  <2>1. queue' = << >> /\ asked' = << >> /\ done' = 0 /\ event' = "none"
    BY <1>4 DEF CloseAnnounces
  <2>2. << >> \in Seq(Events) /\ Len(<< >>) = 0 /\ SubSeq(<< >>, 1, 0) = << >> /\ << >> \o << >> = << >>
    BY EmptySeq, SubSeqEmpty, ConcatEmptySeq
  <2>3. 0 \in 0 .. 0
    OBVIOUS
  <2> QED
    BY <2>1, <2>2, <2>3 DEF QueueInv, InFlight
<1>5. CASE PeersChange \/ Tick
  BY <1>5, QueueFrame DEF PeersChange, Tick, round
<1>6. CASE LoopTop \/ ScrapeEnds \/ Settle \/ Wake
  BY <1>6, QueueFrame DEF LoopTop, ScrapeEnds, Settle, Wake, round
<1>7. CASE UNCHANGED trackerVars
  BY <1>7, QueueFrame DEF trackerVars, round
<1>8. ASSUME NEW i \in Trackers, Ask(i) \/ acquireTrackerSlot(i) \/ Answer(i) \/ ScrapeAnswer(i)
      PROVE  QueueInv'
  BY <1>8, QueueFrame DEF Ask, acquireTrackerSlot, Answer, ScrapeAnswer
<1> QED
  BY <1>1, <1>2, <1>3, <1>4, <1>5, <1>6, <1>7, <1>8, AnnounceKeepsQueue, RoundEndsKeepsQueue
     DEF TrackerNext

----------------------------------------------------------------------------
(* The types of the tracker loop *)

Loops == {"top", "announce", "round", "scrape", "settle", "sleep", "ended"}
LongestWait == Larger(Larger(MaxInterval, DefaultInterval), RetryMaxDelay)
LongestEarly == Larger(EarlyReannounce, MaxInterval)

\* The types of each tracker's schedule.
ScheduleTyped ==
    /\ next \in [Trackers -> 0 .. LongestWait]
    /\ early \in [Trackers -> NotEarly .. LongestEarly]
    /\ retry \in [Trackers -> 0 .. RetryMaxDelay]

\* The types of a round, and the time that it or the scrape has taken.
RoundTyped ==
    /\ waiting \subseteq Trackers /\ asking \subseteq Trackers \ waiting /\ holding \subseteq asking
    /\ delivered \in BOOLEAN /\ spent \in 0 .. LongestRound
    /\ loop \notin {"round", "scrape"} => spent = 0 /\ waiting = {} /\ asking = {}

\* The types of the loop's own variables.
LoopTyped ==
    /\ loop \in Loops /\ wake \in 0 .. IdlePoll /\ lastScrape \in 0 .. ScrapeMinInterval
    /\ signal \in BOOLEAN /\ stopped \in BOOLEAN /\ trackerPaused \in BOOLEAN /\ needPeers \in BOOLEAN
    /\ pausedAtTop \in BOOLEAN

TypeInv == ScheduleTyped /\ RoundTyped /\ LoopTyped

\* What the assumption says of the constants.
LEMMA ConstantsAreNat ==
    /\ LongestRound \in Nat /\ AnnounceTimeout \in Nat /\ IdlePoll \in Nat /\ ScrapeMinInterval \in Nat
    /\ RetryBaseDelay \in Nat \ {0} /\ RetryMaxDelay \in Nat /\ RetryBaseDelay <= RetryMaxDelay
    /\ MinInterval \in Nat /\ MaxInterval \in Nat /\ MinInterval <= MaxInterval /\ DefaultInterval \in Nat
    /\ EarlyReannounce \in Nat /\ EventFlushDelay \in Nat /\ EventFlushDelay <= IdlePoll
    /\ Intervals \subseteq Int /\ MinIntervals \subseteq Int
BY LongestRoundIsNat, TrackerAssumption DEF TrackerAssumption

\* The bounds of the types bound what they are made of.
LEMMA BoundsAreNat ==
    /\ LongestWait \in Nat /\ MaxInterval <= LongestWait /\ DefaultInterval <= LongestWait
    /\ RetryMaxDelay <= LongestWait
    /\ LongestEarly \in Nat /\ EarlyReannounce <= LongestEarly /\ MaxInterval <= LongestEarly
BY ConstantsAreNat DEF LongestWait, LongestEarly, Larger

\* The types hold at first.
LEMMA TypeInitInv == TrackerInit => TypeInv
<1> SUFFICES ASSUME TrackerInit PROVE TypeInv
  OBVIOUS
<1>1. 0 \in 0 .. LongestWait /\ NotEarly \in NotEarly .. LongestEarly /\ 0 \in 0 .. RetryMaxDelay
      /\ 0 \in 0 .. LongestRound /\ 0 \in 0 .. IdlePoll /\ ScrapeMinInterval \in 0 .. ScrapeMinInterval
  BY ConstantsAreNat, BoundsAreNat DEF NotEarly
<1>2. ScheduleTyped
  BY <1>1 DEF TrackerInit, ScheduleTyped
<1>3. RoundTyped
  BY <1>1 DEF TrackerInit, RoundTyped
<1>4. LoopTyped
  BY <1>1 DEF TrackerInit, LoopTyped, Loops
<1> QED
  BY <1>2, <1>3, <1>4 DEF TypeInv

\* trackerRetryDelay stays within its maximum.
LEMMA RetryIsBounded ==
    ASSUME NEW before \in 0 .. RetryMaxDelay
    PROVE  RetryDelay(before) \in 0 .. RetryMaxDelay /\ RetryDelay(before) \in 0 .. LongestWait
<1>1. RetryDelay(before) \in 0 .. RetryMaxDelay
  BY ConstantsAreNat DEF RetryDelay, Smaller
<1> QED
  BY <1>1, ConstantsAreNat, BoundsAreNat

\* clampTrackerSeconds returns a value between its bounds.
LEMMA ClampIsBetween ==
    ASSUME NEW n \in Int, NEW lo \in Nat, NEW hi \in Nat, lo <= hi
    PROVE  Clamp(n, lo, hi) \in lo .. hi
BY DEF Clamp, Larger

\* An answer or a failure leaves a schedule of the right type.
LEMMA AnswerIsTyped ==
    ASSUME ScheduleTyped, NEW i \in Trackers, Answer(i)
    PROVE  ScheduleTyped'
<1>1. CASE RecordFailure(i)
  <2>1. retry[i] \in 0 .. RetryMaxDelay
    BY DEF ScheduleTyped
  <2>2. RetryDelay(retry[i]) \in 0 .. RetryMaxDelay /\ RetryDelay(retry[i]) \in 0 .. LongestWait
    BY <2>1, RetryIsBounded
  <2>3. NotEarly \in NotEarly .. LongestEarly
    BY BoundsAreNat DEF NotEarly
  <2> QED
    BY <1>1, <2>2, <2>3 DEF ScheduleTyped, RecordFailure
<1>2. ASSUME NEW interval \in Intervals, NEW minInterval \in MinIntervals,
             RecordSuccess(i, interval, minInterval)
      PROVE  ScheduleTyped'
  <2> DEFINE least == Clamp(minInterval, 0, MaxInterval)
             usual == IF interval > 0 THEN Clamp(interval, MinInterval, MaxInterval) ELSE DefaultInterval
  <2>1. interval \in Int /\ minInterval \in Int
    BY ConstantsAreNat
  <2>2. least \in 0 .. MaxInterval
    BY <2>1, ConstantsAreNat, ClampIsBetween
  <2>3. Clamp(interval, MinInterval, MaxInterval) \in MinInterval .. MaxInterval
    BY <2>1, ConstantsAreNat, ClampIsBetween
  <2>4. usual \in 0 .. LongestWait
    BY <2>3, ConstantsAreNat, BoundsAreNat
  <2>5. /\ retry' = [retry EXCEPT ![i] = 0]
        /\ next' = [next EXCEPT ![i] = Larger(usual, least)]
        /\ early' = [early EXCEPT ![i] = Larger(EarlyReannounce, least)]
    BY <1>2 DEF RecordSuccess
  <2> HIDE DEF least, usual
  <2>6. Larger(usual, least) \in 0 .. LongestWait
    BY <2>2, <2>4, ConstantsAreNat, BoundsAreNat DEF Larger
  <2>7. Larger(EarlyReannounce, least) \in NotEarly .. LongestEarly
    BY <2>2, ConstantsAreNat, BoundsAreNat DEF Larger, NotEarly
  <2>8. 0 \in 0 .. RetryMaxDelay
    BY ConstantsAreNat
  <2> QED
    BY <2>5, <2>6, <2>7, <2>8 DEF ScheduleTyped
<1> QED
  BY <1>1, <1>2 DEF Answer

\* Counting down leaves the delays within their types.
LEMMA TickIsTyped == ScheduleTyped /\ Tick => ScheduleTyped'
<1> SUFFICES ASSUME ScheduleTyped, Tick PROVE ScheduleTyped'
  OBVIOUS
<1>1. next' = LessOne(next, 0) /\ early' = LessOne(early, 0) /\ retry' = retry
  BY DEF Tick
<1>2. ASSUME NEW i \in Trackers
      PROVE  /\ (IF next[i] <= 0 THEN next[i] ELSE next[i] - 1) \in 0 .. LongestWait
             /\ (IF early[i] <= 0 THEN early[i] ELSE early[i] - 1) \in NotEarly .. LongestEarly
  <2>1. next[i] \in 0 .. LongestWait /\ early[i] \in NotEarly .. LongestEarly
    BY DEF ScheduleTyped
  <2> QED
    BY <2>1, BoundsAreNat DEF NotEarly
<1> QED
  BY <1>1, <1>2 DEF ScheduleTyped, LessOne

\* Every step keeps the types of the schedule.
LEMMA ScheduleStep == ScheduleTyped /\ [TrackerNext]_trackerVars => ScheduleTyped'
<1> SUFFICES ASSUME ScheduleTyped, [TrackerNext]_trackerVars PROVE ScheduleTyped'
  OBVIOUS
<1>1. CASE UNCHANGED schedule
  BY <1>1 DEF ScheduleTyped, schedule
<1>2. CASE UNCHANGED trackerVars
  BY <1>1, <1>2 DEF trackerVars
<1>3. CASE PauseOrResume \/ Completes \/ setAdvertisedPort \/ PeersChange
  BY <1>1, <1>3 DEF PauseOrResume, Completes, setAdvertisedPort, PeersChange
<1>4. CASE LoopTop \/ announceDue \/ RoundEnds \/ ScrapeEnds \/ Settle \/ Wake \/ CloseAnnounces
  BY <1>1, <1>4 DEF LoopTop, announceDue, RoundEnds, ScrapeEnds, Settle, Wake, CloseAnnounces
<1>5. ASSUME NEW i \in Trackers, Ask(i) \/ acquireTrackerSlot(i) \/ ScrapeAnswer(i)
      PROVE  ScheduleTyped'
  BY <1>1, <1>5 DEF Ask, acquireTrackerSlot, ScrapeAnswer
<1> QED
  BY <1>2, <1>3, <1>4, <1>5, AnswerIsTyped, TickIsTyped DEF TrackerNext

\* The time a tracker lets the loop sleep is a natural number.
LEMMA WakesIsNat ==
    ASSUME ScheduleTyped, NEW i \in Trackers, NEW events \in BOOLEAN
    PROVE  Wakes(i, events) \in Nat
<1>1. next[i] \in Nat /\ retry[i] \in Nat
  BY ConstantsAreNat, BoundsAreNat DEF ScheduleTyped
<1>2. early[i] \in 0 .. next[i] - 1 => early[i] \in Nat
  BY <1>1
<1> QED
  BY <1>1, <1>2 DEF Wakes

\* The loop never sleeps for longer than the poll.
LEMMA SleepIsShort == ScheduleTyped => Sleep \in 0 .. IdlePoll
<1> SUFFICES ASSUME ScheduleTyped PROVE Sleep \in 0 .. IdlePoll
  OBVIOUS
<1> DEFINE times == {Wakes(i, queue # << >>) : i \in Trackers}
<1>1. CASE Trackers = {} \/ (trackerPaused /\ queue = << >>)
  <2>1. Sleep = IdlePoll
    BY <1>1 DEF Sleep
  <2> QED
    BY <2>1, ConstantsAreNat
<1>2. CASE ~ (Trackers = {} \/ (trackerPaused /\ queue = << >>))
  <2>1. (queue # << >>) \in BOOLEAN
    OBVIOUS
  <2>2. times \in SUBSET Nat /\ times # {}
    BY <1>2, <2>1, WakesIsNat
  <2>3. Sleep = Smaller(Larger(Least(times), EventFlushDelay), IdlePoll)
    BY <1>2 DEF Sleep
  <2> HIDE DEF times
  <2>4. Least(times) \in Nat
    BY <2>2, LeastIsIn
  <2> QED
    BY <2>3, <2>4, ConstantsAreNat DEF Smaller, Larger
<1> QED
  BY <1>1, <1>2

\* A step that touches no round, and starts none, keeps its types.
LEMMA RoundFrame ==
    ASSUME RoundTyped, UNCHANGED <<waiting, asking, holding, delivered, spent>>,
           loop' = loop \/ loop \notin {"round", "scrape"}
    PROVE  RoundTyped'
BY DEF RoundTyped

\* Every step keeps the types of the round and the bounds of its time.
LEMMA RoundStep == RoundTyped /\ [TrackerNext]_trackerVars => RoundTyped'
<1> SUFFICES ASSUME RoundTyped, [TrackerNext]_trackerVars PROVE RoundTyped'
  OBVIOUS
<1>0. 0 \in 0 .. LongestRound
  BY ConstantsAreNat
<1>1. CASE UNCHANGED trackerVars
  BY <1>1, RoundFrame DEF trackerVars, round
<1>2. CASE PauseOrResume \/ Completes \/ setAdvertisedPort \/ PeersChange
  BY <1>2, RoundFrame DEF PauseOrResume, Completes, setAdvertisedPort, PeersChange, round
<1>3. CASE LoopTop \/ Settle \/ Wake
  BY <1>3, RoundFrame DEF LoopTop, Settle, Wake, round
<1>4. CASE announceDue
  <2>1. /\ waiting' \subseteq Trackers /\ loop = "announce" /\ loop' = "round"
        /\ UNCHANGED <<asking, holding, delivered, spent>>
    BY <1>4 DEF announceDue
  <2> QED
    BY <2>1 DEF RoundTyped
<1>5. ASSUME NEW i \in Trackers, Ask(i) \/ acquireTrackerSlot(i) PROVE RoundTyped'
  BY <1>5 DEF Ask, acquireTrackerSlot, RoundTyped
<1>6. ASSUME NEW i \in Trackers, Answer(i) \/ ScrapeAnswer(i) PROVE RoundTyped'
  <2>1. /\ UNCHANGED <<loop, waiting, spent>> /\ asking' = asking \ {i} /\ holding' = holding \ {i}
        /\ delivered' \in {TRUE, delivered} /\ loop \in {"round", "scrape"}
    BY <1>6 DEF Answer, ScrapeAnswer
  <2> QED
    BY <2>1 DEF RoundTyped
<1>7. CASE RoundEnds
  <2>1. /\ delivered' = FALSE /\ spent' = 0 /\ UNCHANGED <<asking, holding>> /\ asking = {}
        /\ waiting' = IF ScrapeDue THEN healthyTargets ELSE {}
        /\ loop' = IF ScrapeDue THEN "scrape" ELSE "settle"
    BY <1>7 DEF RoundEnds
  <2>2. healthyTargets \subseteq Trackers
    BY DEF healthyTargets
  <2> QED
    BY <1>0, <2>1, <2>2 DEF RoundTyped
<1>8. CASE ScrapeEnds
  <2>1. /\ spent' = 0 /\ UNCHANGED <<waiting, asking, holding, delivered>>
        /\ waiting = {} /\ asking = {}
    BY <1>8 DEF ScrapeEnds
  <2> QED
    BY <1>0, <2>1 DEF RoundTyped
<1>9. CASE CloseAnnounces
  <2>1. waiting' = {} /\ asking' = {} /\ holding' = {} /\ delivered' = FALSE /\ spent' = 0
    BY <1>9 DEF CloseAnnounces
  <2> QED
    BY <1>0, <2>1 DEF RoundTyped
<1>10. CASE Tick
  <2>1. UNCHANGED <<loop, waiting, asking, holding, delivered>>
    BY <1>10 DEF Tick
  <2>2. CASE spent' = spent
    BY <2>1, <2>2 DEF RoundTyped
  <2>3. CASE spent' # spent
    <3>1. spent' = spent + 1 /\ loop \in {"round", "scrape"} /\ spent < LongestRound
      BY <1>10, <2>3 DEF Tick
    <3>2. spent' \in 0 .. LongestRound
      BY <3>1, ConstantsAreNat DEF RoundTyped
    <3> QED
      BY <2>1, <3>1, <3>2 DEF RoundTyped
  <2> QED
    BY <2>2, <2>3
<1> QED
  BY <1>1, <1>2, <1>3, <1>4, <1>5, <1>6, <1>7, <1>8, <1>9, <1>10 DEF TrackerNext

\* Every step keeps the types of the loop.
LEMMA LoopTypedStep == TypeInv /\ QueueInv /\ [TrackerNext]_trackerVars => LoopTyped'
<1> SUFFICES ASSUME TypeInv, QueueInv, [TrackerNext]_trackerVars PROVE LoopTyped'
  OBVIOUS
<1> USE DEF LoopTyped, Loops
<1>0. LoopTyped /\ 0 \in 0 .. IdlePoll /\ 0 \in 0 .. ScrapeMinInterval
  BY ConstantsAreNat DEF TypeInv
<1>1. CASE UNCHANGED trackerVars
  BY <1>0, <1>1 DEF trackerVars, round
<1>2. CASE PauseOrResume \/ Completes \/ setAdvertisedPort \/ PeersChange
  BY <1>0, <1>2 DEF PauseOrResume, Completes, setAdvertisedPort, PeersChange, round
<1>3. CASE LoopTop \/ announceDue
  BY <1>0, <1>3 DEF LoopTop, announceDue
<1>4. ASSUME NEW i \in Trackers, Ask(i) \/ acquireTrackerSlot(i) \/ Answer(i) \/ ScrapeAnswer(i)
      PROVE  LoopTyped'
  BY <1>0, <1>4 DEF Ask, acquireTrackerSlot, Answer, ScrapeAnswer
<1>5. CASE RoundEnds
  <2>1. /\ loop' \in {"scrape", "settle"}
        /\ UNCHANGED <<wake, signal, lastScrape, trackerPaused, needPeers, pausedAtTop>>
        /\ Flushed \/ stopped' = StoppedAfter(event, delivered)
    BY <1>5 DEF RoundEnds, finishTrackerEventLocked
  <2>2. delivered \in BOOLEAN
    BY DEF TypeInv, RoundTyped
  <2>3. StoppedAfter(event, delivered) \in BOOLEAN
    BY <1>0, <2>2 DEF StoppedAfter
  <2>4. Flushed => stopped' \in BOOLEAN
    BY <1>0 DEF Flushed
  <2> QED
    BY <1>0, <2>1, <2>3, <2>4
<1>6. CASE ScrapeEnds
  BY <1>0, <1>6 DEF ScrapeEnds
<1>7. CASE Settle
  BY <1>0, <1>7, SleepIsShort DEF Settle, TypeInv, round
<1>8. CASE Wake
  BY <1>0, <1>8 DEF Wake, round
<1>9. CASE CloseAnnounces
  BY <1>0, <1>9 DEF CloseAnnounces
<1>10. CASE Tick
  <2>1. UNCHANGED <<loop, signal, stopped, trackerPaused, needPeers, pausedAtTop>>
    BY <1>10 DEF Tick
  <2>2. wake' \in 0 .. IdlePoll
    <3>1. \/ wake' = wake
          \/ wake > 0 /\ wake' = wake - 1
      BY <1>10 DEF Tick
    <3>2. wake \in 0 .. IdlePoll
      BY <1>0
    <3> QED
      BY <3>1, <3>2, ConstantsAreNat
  <2>3. lastScrape' \in 0 .. ScrapeMinInterval
    <3>1. lastScrape' = Smaller(lastScrape + 1, ScrapeMinInterval)
      BY <1>10 DEF Tick
    <3>2. lastScrape \in 0 .. ScrapeMinInterval
      BY <1>0
    <3> QED
      BY <3>1, <3>2, ConstantsAreNat DEF Smaller
  <2> QED
    BY <1>0, <2>1, <2>2, <2>3
<1> QED
  BY <1>1, <1>2, <1>3, <1>4, <1>5, <1>6, <1>7, <1>8, <1>9, <1>10 DEF TrackerNext

----------------------------------------------------------------------------
(* How long a tracker can have been due *)

\* ... at place l of the loop, s ticks into a round or a scrape, w ticks before it wakes.
WaitsAt(l, s, w) ==
    IF l = "round" THEN s
    ELSE IF l = "scrape" THEN LongestRound + s
    ELSE IF l = "settle" THEN LongestRound + LongestRound
    ELSE IF l = "sleep" THEN LongestRound + LongestRound + (IdlePoll - w)
    ELSE LateAtMost

\* A tracker counts as late only while it is due and nobody asks it, and never
\* for longer than the loop can take to come back to it.
LateInv ==
    /\ late \in [Trackers -> Nat]
    /\ \A i \in Trackers : late[i] > 0 => Overdue(i)
    /\ \A i \in Trackers : late[i] <= WaitsAt(loop, spent, wake)

\* At no place can a tracker have been due for longer than LateAtMost.
LEMMA WaitsIsBounded ==
    ASSUME NEW l \in Loops, NEW s \in Nat, NEW w \in 0 .. IdlePoll,
           l \in {"round", "scrape"} => s <= LongestRound
    PROVE  WaitsAt(l, s, w) \in Nat /\ WaitsAt(l, s, w) <= LateAtMost
<1>1. CASE l = "round"
  BY <1>1, ConstantsAreNat DEF WaitsAt, LateAtMost
<1>2. CASE l = "scrape"
  BY <1>2, ConstantsAreNat DEF WaitsAt, LateAtMost
<1>3. CASE l = "settle"
  BY <1>3, ConstantsAreNat DEF WaitsAt, LateAtMost
<1>4. CASE l = "sleep"
  BY <1>4, ConstantsAreNat DEF WaitsAt, LateAtMost
<1>5. CASE l \notin {"round", "scrape", "settle", "sleep"}
  BY <1>5, ConstantsAreNat DEF WaitsAt, LateAtMost
<1> QED
  BY <1>1, <1>2, <1>3, <1>4, <1>5

\* A step after which no tracker is late keeps the invariant.
LEMMA NobodyLate ==
    ASSUME RoundTyped', LoopTyped', late' = [i \in Trackers |-> 0]
    PROVE  LateInv'
<1>1. /\ loop' \in Loops /\ spent' \in Nat /\ wake' \in 0 .. IdlePoll
      /\ loop' \in {"round", "scrape"} => spent' <= LongestRound
  BY BoundsAreNat DEF RoundTyped, LoopTyped
<1>2. WaitsAt(loop', spent', wake') \in Nat
  BY <1>1, WaitsIsBounded
<1> QED
  BY <1>2 DEF LateInv

\* A due tracker stays due while its schedule stands and no other is asked.
LEMMA OverdueStays ==
    ASSUME NEW i \in Trackers, Overdue(i), trackerPaused' = trackerPaused,
           BeingAsked' \subseteq BeingAsked,
           UNCHANGED <<next[i], early[i], retry[i]>>, needPeers' = needPeers \/ next[i] = 0
    PROVE  Overdue(i)'
<1>1. ~trackerPaused /\ Due(i, FALSE) /\ i \notin BeingAsked'
  BY DEF Overdue
<1>2. Due(i, FALSE)'
  <2>1. CASE next[i] = 0
    <3>1. next'[i] <= 0
      BY <2>1
    <3> QED
      BY <3>1 DEF Due
  <2>2. CASE needPeers' = needPeers
    BY <1>1, <2>2 DEF Due, trackerNeedsPeers
  <2> QED
    BY <2>1, <2>2
<1> QED
  BY <1>1, <1>2 DEF Overdue

\* A due tracker stays due while time passes.
LEMMA OverdueLasts ==
    ASSUME ScheduleTyped, NEW i \in Trackers, Overdue(i), Tick
    PROVE  Overdue(i)'
<1>1. /\ next' = LessOne(next, 0) /\ early' = LessOne(early, 0) /\ retry' = retry
      /\ UNCHANGED <<loop, waiting, asking, trackerPaused, needPeers>> /\ BeingAsked' = BeingAsked
  BY DEF Tick, BeingAsked
<1>2. /\ next'[i] = IF next[i] <= 0 THEN next[i] ELSE next[i] - 1
      /\ early'[i] = IF early[i] <= 0 THEN early[i] ELSE early[i] - 1
      /\ retry'[i] = retry[i]
  BY <1>1 DEF LessOne
<1>3. next[i] \in Nat
  BY BoundsAreNat DEF ScheduleTyped
<1>4. next[i] <= 0 => next'[i] <= 0
  BY <1>2, <1>3
<1>5. early[i] = 0 => early'[i] = 0
  BY <1>2
<1>6. ~trackerPaused /\ i \notin BeingAsked /\ Due(i, FALSE)
  BY DEF Overdue
<1>7. Due(i, FALSE)'
  <2>1. CASE retry[i] > 0
    <3>1. next[i] <= 0
      BY <1>6, <2>1 DEF Due
    <3>2. next'[i] <= 0
      BY <1>4, <3>1
    <3> QED
      BY <1>2, <2>1, <3>2 DEF Due
  <2>2. CASE ~ (retry[i] > 0)
    <3>1. next[i] <= 0 \/ (trackerNeedsPeers /\ early[i] = 0)
      BY <1>6, <2>2 DEF Due
    <3>2. trackerNeedsPeers' = trackerNeedsPeers
      BY <1>1 DEF trackerNeedsPeers
    <3> QED
      BY <1>2, <1>4, <1>5, <2>2, <3>1, <3>2 DEF Due
  <2> QED
    BY <2>1, <2>2
<1> QED
  BY <1>1, <1>6, <1>7 DEF Overdue

\* A step that leaves due trackers due and gives them no less time keeps the
\* invariant.
LEMMA LateStays ==
    ASSUME LateInv, NEW now, now = WaitsAt(loop', spent', wake'),
           now \in Nat, now >= WaitsAt(loop, spent, wake), WaitsAt(loop, spent, wake) \in Nat,
           \A i \in Trackers : Overdue(i) => Overdue(i)', late' = late
    PROVE  LateInv'
<1>1. \A i \in Trackers : late[i] <= now
  <2>1. ASSUME NEW i \in Trackers PROVE late[i] <= now
    <3>1. late[i] \in Nat /\ late[i] <= WaitsAt(loop, spent, wake)
      BY DEF LateInv
    <3> HIDE DEF WaitsAt
    <3> QED
      BY <3>1
  <2> QED
    BY <2>1
<1> QED
  BY <1>1 DEF LateInv

\* How long a tracker may have been due now.
LEMMA WaitsNow ==
    ASSUME RoundTyped, LoopTyped
    PROVE  /\ spent \in Nat /\ wake \in 0 .. IdlePoll /\ WaitsAt(loop, spent, wake) \in Nat
           /\ WaitsAt(loop, spent, wake) <= LateAtMost
<1>1. /\ loop \in Loops /\ spent \in Nat /\ wake \in 0 .. IdlePoll
      /\ loop \in {"round", "scrape"} => spent <= LongestRound
  BY BoundsAreNat DEF RoundTyped, LoopTyped
<1> QED
  BY <1>1, WaitsIsBounded

\* The top of the loop goes on to announce, unless the session is paused: then
\* no tracker is late.
LEMMA LoopTopKeepsLate == ASSUME TypeInv, TypeInv', LateInv, LoopTop PROVE LateInv'
<1>1. /\ UNCHANGED <<next, early, retry, waiting, asking, trackerPaused, needPeers, late, spent, wake>>
      /\ loop = "top" /\ loop' \in {"announce", "settle"}
      /\ loop' = "settle" => trackerPaused
  BY DEF LoopTop, schedule
<1>2. CASE loop' = "announce"
  <2>1. BeingAsked' \subseteq BeingAsked
    BY <1>2 DEF BeingAsked
  <2>2. \A j \in Trackers : Overdue(j) => Overdue(j)'
    BY <1>1, <2>1, OverdueStays
  <2>3. WaitsAt(loop, spent, wake)' = WaitsAt(loop, spent, wake)
    BY <1>1, <1>2 DEF WaitsAt
  <2> QED
    BY <1>1, <2>2, <2>3 DEF LateInv
<1>3. CASE loop' = "settle"
  <2>1. \A i \in Trackers : late[i] = 0
    BY <1>1, <1>3 DEF LateInv, Overdue
  <2>2. late' = [i \in Trackers |-> 0]
    BY <1>1, <2>1 DEF LateInv
  <2> QED
    BY <2>2, NobodyLate DEF TypeInv
<1> QED
  BY <1>1, <1>2, <1>3

\* announceDue takes every late tracker into the round.
LEMMA AnnounceKeepsLate == ASSUME TypeInv, TypeInv', LateInv, announceDue PROVE LateInv'
<1> DEFINE due == {i \in Trackers : Due(i, queue # << >>)}
<1>1. ASSUME NEW i \in Trackers, i \notin due PROVE late[i] = 0
  <2>1. ~Due(i, FALSE)
    BY <1>1 DEF Due
  <2>2. late[i] \in Nat /\ ~ (late[i] > 0)
    BY <2>1 DEF LateInv, Overdue
  <2> QED
    BY <2>2
<1>2. late' = [i \in Trackers |-> IF i \in due THEN 0 ELSE late[i]]
  BY DEF announceDue
<1>3. late' = [i \in Trackers |-> 0]
  <2> HIDE DEF due
  <2> QED
    BY <1>1, <1>2
<1> QED
  BY <1>3, NobodyLate DEF TypeInv

\* A change of the need for peers spares only those due by the clock.
LEMMA NeedsChangeKeepsLate ==
    ASSUME TypeInv, LateInv,
           late' = [i \in Trackers |-> IF next[i] = 0 THEN late[i] ELSE 0],
           UNCHANGED <<schedule, loop, round, wake, trackerPaused>>
    PROVE  LateInv'
<1>1. UNCHANGED <<next, early, retry, waiting, asking, spent>> /\ BeingAsked' \subseteq BeingAsked
  BY DEF schedule, round, BeingAsked
<1>2. WaitsAt(loop, spent, wake) \in Nat /\ late \in [Trackers -> Nat]
  BY WaitsNow DEF TypeInv, LateInv
<1>3. ASSUME NEW i \in Trackers PROVE /\ late'[i] > 0 => Overdue(i)'
                                      /\ late'[i] <= WaitsAt(loop, spent, wake) /\ late'[i] \in Nat
  <2>1. CASE next[i] = 0
    <3>1. late'[i] = late[i]
      BY <2>1
    <3>2. late[i] > 0 => Overdue(i)'
      BY <1>1, <2>1, OverdueStays DEF LateInv
    <3> QED
      BY <1>2, <3>1, <3>2 DEF LateInv
  <2>2. CASE next[i] # 0
    <3>1. late'[i] = 0
      BY <2>2
    <3> QED
      BY <1>2, <3>1
  <2> QED
    BY <2>1, <2>2
<1>4. WaitsAt(loop, spent, wake)' = WaitsAt(loop, spent, wake)
  BY <1>1
<1>5. late' \in [Trackers -> Nat]
  BY <1>2
<1> QED
  BY <1>3, <1>4, <1>5 DEF LateInv

\* An answer changes the schedule of a tracker that was being asked.
LEMMA AnswerKeepsLate == ASSUME TypeInv, LateInv, NEW i \in Trackers, Answer(i) PROVE LateInv'
<1>1. /\ BeingAsked' \subseteq BeingAsked /\ i \in BeingAsked
      /\ UNCHANGED <<loop, waiting, spent, wake, trackerPaused, needPeers, late>>
  BY DEF Answer, BeingAsked, TypeInv, RoundTyped
<1>2. \A j \in Trackers \ {i} : UNCHANGED <<next[j], early[j], retry[j]>>
  <2>1. CASE RecordFailure(i)
    BY <2>1 DEF RecordFailure, TypeInv, ScheduleTyped
  <2>2. ASSUME NEW interval, NEW minInterval, RecordSuccess(i, interval, minInterval)
        PROVE  \A j \in Trackers \ {i} : UNCHANGED <<next[j], early[j], retry[j]>>
    BY <2>2 DEF RecordSuccess, TypeInv, ScheduleTyped
  <2> QED
    BY <2>1, <2>2 DEF Answer
<1>3. ASSUME NEW j \in Trackers, late[j] > 0 PROVE Overdue(j)'
  <2>1. Overdue(j)
    BY <1>3 DEF LateInv
  <2>2. j # i
    BY <1>1, <2>1 DEF Overdue
  <2> QED
    BY <1>1, <1>2, <2>1, <2>2, OverdueStays
<1>4. WaitsAt(loop, spent, wake)' = WaitsAt(loop, spent, wake)
  BY <1>1
<1> QED
  BY <1>1, <1>3, <1>4 DEF LateInv

\* A tick adds one to what is late, and one to what may be; one that passes while
\* a worker waits for a slot adds to neither.
LEMMA TickKeepsLate == ASSUME TypeInv, TypeInv', LateInv, Tick PROVE LateInv'
<1> DEFINE was == WaitsAt(loop, spent, wake)
           now == WaitsAt(loop', spent', wake')
<1>0. CASE SlotWait
  <2>1. UNCHANGED <<loop, spent, late>> /\ loop # "sleep"
    BY <1>0 DEF Tick, SlotWait, TypeInv, RoundTyped
  <2>2. wake' = wake
    BY <2>1 DEF Tick
  <2>3. was = now
    BY <2>1, <2>2
  <2>4. \A i \in Trackers : Overdue(i) => Overdue(i)'
    BY OverdueLasts DEF TypeInv
  <2> QED
    BY <2>1, <2>3, <2>4 DEF LateInv
<1> SUFFICES ASSUME ~SlotWait PROVE LateInv'
  BY <1>0
<1>1. late' = [i \in Trackers |-> IF Overdue(i) THEN Smaller(late[i] + 1, LateAtMost + 1) ELSE 0]
  BY DEF Tick
<1>2. was \in Nat /\ was <= LateAtMost /\ late \in [Trackers -> Nat] /\ LateAtMost \in Nat
  BY WaitsNow, ConstantsAreNat DEF TypeInv, LateInv, LateAtMost
<1>3. now = was + 1
  <2>1. spent \in Nat /\ wake \in 0 .. IdlePoll /\ loop' = loop
    BY WaitsNow DEF TypeInv, Tick
  <2>2. CASE loop = "round"
    <3>1. spent' = spent + 1
      BY <2>2 DEF Tick
    <3> QED
      BY <2>1, <2>2, <3>1 DEF WaitsAt
  <2>3. CASE loop = "scrape"
    <3>1. spent' = spent + 1
      BY <2>3 DEF Tick
    <3> QED
      BY <2>1, <2>3, <3>1, ConstantsAreNat DEF WaitsAt
  <2>4. CASE loop = "sleep"
    <3>1. wake' = wake - 1
      BY <2>4 DEF Tick
    <3> QED
      BY <2>1, <2>4, <3>1, ConstantsAreNat DEF WaitsAt
  <2> QED
    BY <2>2, <2>3, <2>4 DEF Tick
<1> HIDE DEF was, now
<1>4. ASSUME NEW i \in Trackers
      PROVE  late'[i] \in Nat /\ late'[i] <= now /\ (late'[i] > 0 => Overdue(i)')
  <2>1. late[i] \in Nat /\ late[i] <= was
    BY DEF LateInv, was
  <2>2. CASE Overdue(i)
    <3>1. late'[i] = Smaller(late[i] + 1, LateAtMost + 1)
      BY <1>1, <2>2
    <3>2. late'[i] \in Nat /\ late'[i] <= now
      BY <1>2, <1>3, <2>1, <3>1 DEF Smaller
    <3> QED
      BY <2>2, <3>2, OverdueLasts DEF TypeInv
  <2>3. CASE ~Overdue(i)
    <3>1. late'[i] = 0
      BY <1>1, <2>3
    <3> QED
      BY <1>2, <1>3, <3>1
  <2> QED
    BY <2>2, <2>3
<1>5. late' \in [Trackers -> Nat]
  BY <1>1, <1>4
<1> QED
  BY <1>4, <1>5 DEF LateInv, now

\* Every step keeps late trackers within their bound.
LEMMA LateStep == TypeInv /\ TypeInv' /\ LateInv /\ [TrackerNext]_trackerVars => LateInv'
<1> SUFFICES ASSUME TypeInv, TypeInv', LateInv, [TrackerNext]_trackerVars PROVE LateInv'
  OBVIOUS
<1> DEFINE was == WaitsAt(loop, spent, wake)
           now == WaitsAt(loop', spent', wake')
<1>0. /\ was \in Nat /\ spent \in Nat /\ wake \in 0 .. IdlePoll
      /\ now \in Nat /\ spent' \in Nat /\ wake' \in 0 .. IdlePoll
  <2>1. ASSUME NEW l \in Loops, NEW s \in Nat, NEW w \in 0 .. IdlePoll,
               l \in {"round", "scrape"} => s <= LongestRound
        PROVE  WaitsAt(l, s, w) \in Nat
    BY <2>1, WaitsIsBounded
  <2>2. /\ loop' \in Loops /\ spent' \in Nat /\ wake' \in 0 .. IdlePoll
        /\ loop' \in {"round", "scrape"} => spent' <= LongestRound
    BY BoundsAreNat DEF TypeInv, RoundTyped, LoopTyped
  <2> QED
    BY <2>1, <2>2, WaitsNow DEF TypeInv
<1>1. CASE UNCHANGED trackerVars
  BY <1>1 DEF trackerVars, schedule, round, LateInv, Overdue, Due, trackerNeedsPeers, BeingAsked
<1>2. CASE PauseOrResume \/ CloseAnnounces
  BY <1>2, NobodyLate DEF PauseOrResume, CloseAnnounces, TypeInv
<1>3. CASE Completes \/ PeersChange
  BY <1>3, NeedsChangeKeepsLate DEF Completes, PeersChange
<1>4. CASE setAdvertisedPort
  <2>1. UNCHANGED <<next, early, retry, waiting, asking, trackerPaused, needPeers, late, loop, spent, wake>>
    BY <1>4 DEF setAdvertisedPort, schedule, round
  <2> QED
    BY <2>1 DEF LateInv, Overdue, Due, trackerNeedsPeers, BeingAsked
<1>5. ASSUME NEW i \in Trackers, Ask(i) \/ acquireTrackerSlot(i) \/ ScrapeAnswer(i) PROVE LateInv'
  <2>1. /\ BeingAsked' \subseteq BeingAsked
        /\ UNCHANGED <<next, early, retry, trackerPaused, needPeers, late, loop, spent, wake>>
    BY <1>5 DEF Ask, acquireTrackerSlot, ScrapeAnswer, schedule, BeingAsked
  <2>2. \A j \in Trackers : Overdue(j) => Overdue(j)'
    BY <2>1, OverdueStays
  <2> QED
    BY <1>0, <2>1, <2>2, LateStays
<1>6. CASE RoundEnds \/ ScrapeEnds \/ Settle \/ Wake
  <2>1. /\ UNCHANGED <<next, early, retry, trackerPaused, needPeers, late>>
        /\ BeingAsked' \subseteq BeingAsked
    BY <1>6 DEF RoundEnds, ScrapeEnds, Settle, Wake, schedule, round, BeingAsked
  <2>2. \A j \in Trackers : Overdue(j) => Overdue(j)'
    BY <2>1, OverdueStays
  <2>3. now >= was
    <3>1. CASE RoundEnds
      <4>1. loop = "round" /\ spent <= LongestRound /\ loop' \in {"scrape", "settle"} /\ spent' = 0
        BY <3>1 DEF RoundEnds, TypeInv, RoundTyped
      <4>2. was = spent /\ (now = LongestRound + spent' \/ now = LongestRound + LongestRound)
        BY <4>1 DEF WaitsAt
      <4> HIDE DEF was, now
      <4> QED
        BY <1>0, <4>1, <4>2, ConstantsAreNat
    <3>2. CASE ScrapeEnds
      <4>1. loop = "scrape" /\ spent <= LongestRound /\ loop' = "settle"
        BY <3>2 DEF ScrapeEnds, TypeInv, RoundTyped
      <4>2. was = LongestRound + spent /\ now = LongestRound + LongestRound
        BY <4>1 DEF WaitsAt
      <4> HIDE DEF was, now
      <4> QED
        BY <1>0, <4>1, <4>2, ConstantsAreNat
    <3>3. CASE Settle
      <4>1. loop = "settle" /\ loop' = "sleep"
        BY <3>3 DEF Settle
      <4>2. /\ was = LongestRound + LongestRound
            /\ now = LongestRound + LongestRound + (IdlePoll - wake')
        BY <4>1 DEF WaitsAt
      <4>3. wake' \in 0 .. IdlePoll /\ LongestRound + LongestRound \in Nat
        BY <1>0, ConstantsAreNat
      <4>4. IdlePoll \in Nat
        BY ConstantsAreNat
      <4>5. \A d \in Nat : \A t \in Nat : \A w \in 0 .. d : t + (d - w) >= t
        OBVIOUS
      <4>6. LongestRound + LongestRound + (IdlePoll - wake') >= LongestRound + LongestRound
        BY <4>3, <4>4, <4>5
      <4> QED
        BY <4>2, <4>6, Zenon
    <3>4. CASE Wake
      <4>1. loop = "sleep" /\ loop' = "top"
        BY <3>4 DEF Wake
      <4>2. /\ was = LongestRound + LongestRound + (IdlePoll - wake)
            /\ now = LongestRound + LongestRound + IdlePoll
        BY <4>1 DEF WaitsAt, LateAtMost
      <4>3. wake \in 0 .. IdlePoll
        BY <1>0
      <4>4. LongestRound + LongestRound \in Nat
        BY ConstantsAreNat
      <4>5. \A t, d, w \in Nat : w <= d => t + d >= t + (d - w)
        OBVIOUS
      <4> HIDE DEF was, now
      <4> QED
        BY <4>2, <4>3, <4>4, <4>5, ConstantsAreNat
    <3> QED
      BY <1>6, <3>1, <3>2, <3>3, <3>4
  <2> HIDE DEF was, now
  <2> QED
    BY <1>0, <2>1, <2>2, <2>3, LateStays DEF was, now
<1>7. ASSUME NEW i \in Trackers, Answer(i) PROVE LateInv'
  BY <1>7, AnswerKeepsLate
<1> QED
  BY <1>1, <1>2, <1>3, <1>4, <1>5, <1>6, <1>7, LoopTopKeepsLate, AnnounceKeepsLate, TickKeepsLate
     DEF TrackerNext

\* The inductive invariant of the tracker loop.
AnnounceInv == QueueInv /\ TypeInv /\ LateInv

\* Tracker events are delivered in order, each once, or still queued; and no due
\* tracker waits for longer than a round, a scrape and the poll, however many
\* trackers there are and whatever their intervals, not counting the time in which
\* a worker waits for one of the slots the process shares (tracker_loop.go).
THEOREM AnnouncesHold == TrackerSpec => []AnnouncesAreKept
<1>1. TrackerInit => AnnounceInv
  <2>1. TrackerInit => LateInv
    <3> SUFFICES ASSUME TrackerInit PROVE LateInv
      OBVIOUS
    <3>1. late = [i \in Trackers |-> 0] /\ loop = "top"
      BY DEF TrackerInit
    <3>2. 0 <= WaitsAt(loop, spent, wake)
      BY <3>1, ConstantsAreNat DEF WaitsAt, LateAtMost
    <3> QED
      BY <3>1, <3>2 DEF LateInv
  <2> QED
    BY <2>1, QueueInitInv, TypeInitInv DEF AnnounceInv
<1>2. AnnounceInv /\ [TrackerNext]_trackerVars => AnnounceInv'
  BY QueueStep, ScheduleStep, RoundStep, LoopTypedStep, LateStep DEF AnnounceInv, TypeInv
<1>3. AnnounceInv => AnnouncesAreKept
  <2> SUFFICES ASSUME AnnounceInv PROVE AnnouncesAreKept
    OBVIOUS
  <2>1. TrackerTypeOK
    BY DEF AnnounceInv, QueueInv, TypeInv, ScheduleTyped, RoundTyped, LoopTyped,
       TrackerTypeOK, Events, Loops, LongestWait, LongestEarly
  <2>2. EventsKept
    BY DEF AnnounceInv, QueueInv, EventsKept
  <2>3. NoTrackerOverdue
    <3>1. WaitsAt(loop, spent, wake) \in Nat /\ WaitsAt(loop, spent, wake) <= LateAtMost
      BY WaitsNow DEF AnnounceInv, TypeInv
    <3>2. ASSUME NEW i \in Trackers PROVE late[i] <= LateAtMost
      <4>1. late[i] \in Nat /\ late[i] <= WaitsAt(loop, spent, wake) /\ LateAtMost \in Nat
        BY ConstantsAreNat DEF AnnounceInv, LateInv, LateAtMost
      <4> QED
        BY <3>1, <4>1
    <3> QED
      BY <3>2 DEF NoTrackerOverdue
  <2> QED
    BY <2>1, <2>2, <2>3 DEF AnnouncesAreKept
<1> QED
  BY <1>1, <1>2, <1>3, PTL DEF TrackerSpec

----------------------------------------------------------------------------
(* The routing table of a DHT node: its buckets and indexes                *)

\* What RemoveAt of the community modules returns: the elements after i one
\* place forward.
LEMMA RemoveAtFacts ==
    ASSUME NEW S, NEW s \in Seq(S), NEW i \in 1 .. Len(s)
    PROVE  /\ RemoveAt(s, i) \in Seq(S) /\ Len(RemoveAt(s, i)) = Len(s) - 1
           /\ \A j \in 1 .. Len(s) - 1 : RemoveAt(s, i)[j] = IF j < i THEN s[j] ELSE s[j + 1]
<1>1. Len(s) \in Nat
  BY LenProperties
<1>2. \A j \in 1 .. Len(s) : s[j] \in S
  BY ElementOfSeq
<1> DEFINE l == SubSeq(s, 1, i - 1)
           r == SubSeq(s, i + 1, Len(s))
<1>3. l \in Seq(S) /\ Len(l) = i - 1 /\ \A j \in 1 .. i - 1 : l[j] = s[j]
  <2>1. \A j \in 1 .. i - 1 : s[j] \in S
    BY <1>1, <1>2
  <2>2. 1 \in Int /\ i - 1 \in Int
    BY <1>1
  <2>3. /\ l \in Seq(S) /\ Len(l) = IF 1 <= i - 1 THEN i - 1 - 1 + 1 ELSE 0
        /\ \A j \in 1 .. i - 1 - 1 + 1 : l[j] = s[1 + j - 1]
    BY <2>1, <2>2, SubSeqProperties
  <2> QED
    BY <1>1, <2>3
<1>4. r \in Seq(S) /\ Len(r) = Len(s) - i /\ \A j \in 1 .. Len(s) - i : r[j] = s[i + j]
  <2>1. \A j \in i + 1 .. Len(s) : s[j] \in S
    BY <1>1, <1>2
  <2>2. i + 1 \in Int /\ Len(s) \in Int
    BY <1>1
  <2>3. /\ r \in Seq(S) /\ Len(r) = IF i + 1 <= Len(s) THEN Len(s) - (i + 1) + 1 ELSE 0
        /\ \A j \in 1 .. Len(s) - (i + 1) + 1 : r[j] = s[i + 1 + j - 1]
    BY <2>1, <2>2, SubSeqProperties
  <2> QED
    BY <1>1, <2>3
<1>5. RemoveAt(s, i) = l \o r
  BY DEF RemoveAt
<1> HIDE DEF l, r
<1>6. /\ l \o r \in Seq(S) /\ Len(l \o r) = Len(l) + Len(r)
      /\ \A j \in 1 .. Len(l) + Len(r) : (l \o r)[j] = IF j <= Len(l) THEN l[j] ELSE r[j - Len(l)]
  BY <1>3, <1>4, ConcatProperties
<1>7. ASSUME NEW j \in 1 .. Len(s) - 1
      PROVE  (l \o r)[j] = IF j < i THEN s[j] ELSE s[j + 1]
  <2>1. CASE j < i
    BY <1>1, <1>3, <1>4, <1>6, <2>1
  <2>2. CASE ~ (j < i)
    <3>1. j - (i - 1) \in 1 .. Len(s) - i /\ ~ (j <= i - 1) /\ j \in 1 .. Len(l) + Len(r)
      BY <1>1, <1>3, <1>4, <2>2
    <3>2. (l \o r)[j] = r[j - (i - 1)]
      BY <1>3, <1>6, <3>1
    <3>3. r[j - (i - 1)] = s[i + (j - (i - 1))]
      BY <1>4, <3>1
    <3>4. i + (j - (i - 1)) = j + 1
      BY <1>1
    <3> QED
      BY <2>2, <3>2, <3>3, <3>4
  <2> QED
    BY <2>1, <2>2
<1> QED
  BY <1>1, <1>3, <1>4, <1>5, <1>6, <1>7

----------------------------------------------------------------------------
\* The contacts of a table, and a table whose buckets are as they should be.
Contents(T) == UNION {ToSet(T[b]) : b \in Buckets}

\* A table of contacts, each in the bucket of its ID and no ID twice.
TableOK(T) ==
    /\ T \in [Buckets -> Seq(Contacts)]
    /\ \A b \in Buckets : Len(T[b]) <= BucketSize
    /\ \A b \in Buckets : \A i, j \in 1 .. Len(T[b]) : i # j => T[b][i].id # T[b][j].id
    /\ \A b \in Buckets : \A i \in 1 .. Len(T[b]) : BucketIndex[T[b][i].id] = b

\* The elements of a bucket and its length.
LEMMA BucketFacts ==
    ASSUME NEW T, TableOK(T), NEW b \in Buckets
    PROVE  /\ T[b] \in Seq(Contacts) /\ Len(T[b]) \in Nat /\ DOMAIN T[b] = 1 .. Len(T[b])
           /\ \A i \in 1 .. Len(T[b]) : T[b][i] \in Contacts
<1>1. T[b] \in Seq(Contacts)
  BY DEF TableOK
<1> QED
  BY <1>1, LenProperties, ElementOfSeq

\* A contact of the table stands in some bucket.
LEMMA ContentsFacts ==
    ASSUME NEW T, TableOK(T)
    PROVE  /\ \A c : c \in Contents(T) <=> \E b \in Buckets : \E i \in 1 .. Len(T[b]) : T[b][i] = c
           /\ Contents(T) \subseteq Contacts
<1>1. ASSUME NEW c PROVE c \in Contents(T) <=> \E b \in Buckets : \E i \in 1 .. Len(T[b]) : T[b][i] = c
  <2>1. \A b \in Buckets : c \in ToSet(T[b]) <=> \E i \in 1 .. Len(T[b]) : T[b][i] = c
    <3>1. ASSUME NEW b \in Buckets PROVE c \in ToSet(T[b]) <=> \E i \in 1 .. Len(T[b]) : T[b][i] = c
      <4>1. DOMAIN T[b] = 1 .. Len(T[b])
        BY BucketFacts
      <4> QED
        BY <4>1 DEF ToSet
    <3> QED
      BY <3>1
  <2> QED
    BY <2>1 DEF Contents
<1>2. \A c \in Contents(T) : c \in Contacts
  BY <1>1, BucketFacts
<1> QED
  BY <1>1, <1>2

\* In terms of the contents: who is in a bucket is in the bucket of its ID.
LEMMA InBucket ==
    ASSUME NEW T, TableOK(T), NEW c
    PROVE  c \in Contents(T) <=> /\ c \in Contacts
                                 /\ \E i \in 1 .. Len(T[BucketIndex[c.id]]) : T[BucketIndex[c.id]][i] = c
<1>1. ASSUME c \in Contents(T)
      PROVE  c \in Contacts /\ \E i \in 1 .. Len(T[BucketIndex[c.id]]) : T[BucketIndex[c.id]][i] = c
  <2>1. PICK b \in Buckets : \E i \in 1 .. Len(T[b]) : T[b][i] = c
    BY <1>1, ContentsFacts
  <2>2. BucketIndex[c.id] = b
    BY <2>1 DEF TableOK
  <2> QED
    BY <1>1, <2>1, <2>2, ContentsFacts
<1>2. ASSUME c \in Contacts, \E i \in 1 .. Len(T[BucketIndex[c.id]]) : T[BucketIndex[c.id]][i] = c
      PROVE  c \in Contents(T)
  <2>1. BucketIndex[c.id] \in Buckets
    BY <1>2, RoutingAssumption DEF Contacts, RoutingAssumption
  <2> QED
    BY <1>2, <2>1, ContentsFacts
<1> QED
  BY <1>1, <1>2

\* No two contacts of the table have the same ID.
LEMMA IdsAreUnique ==
    ASSUME NEW T, TableOK(T), NEW c \in Contents(T), NEW d \in Contents(T), c.id = d.id
    PROVE  c = d
<1>1. PICK i \in 1 .. Len(T[BucketIndex[c.id]]) : T[BucketIndex[c.id]][i] = c
  BY InBucket
<1>2. PICK j \in 1 .. Len(T[BucketIndex[c.id]]) : T[BucketIndex[c.id]][j] = d
  BY InBucket
<1>3. BucketIndex[c.id] \in Buckets
  BY InBucket, RoutingAssumption DEF Contacts
<1>4. i = j
  BY <1>1, <1>2, <1>3 DEF TableOK
<1> QED
  BY <1>1, <1>2, <1>4

\* Held, indexOf and Stored in terms of the contacts of the table.
LEMMA HeldFacts ==
    ASSUME NEW T, TableOK(T), NEW id \in Nodes
    PROVE  /\ Held(T, id) <=> \E c \in Contents(T) : c.id = id
           /\ Held(T, id) => /\ indexOf(T, id) \in 1 .. Len(T[BucketIndex[id]])
                             /\ Stored(T, id) \in Contents(T) /\ Stored(T, id).id = id
                             /\ \A c \in Contents(T) : c.id = id => c = Stored(T, id)
<1>1. BucketIndex[id] \in Buckets
  BY RoutingAssumption
<1>2. DOMAIN T[BucketIndex[id]] = 1 .. Len(T[BucketIndex[id]])
  BY <1>1, BucketFacts
<1>3. ASSUME Held(T, id)
      PROVE  /\ indexOf(T, id) \in 1 .. Len(T[BucketIndex[id]])
             /\ Stored(T, id) \in Contents(T) /\ Stored(T, id).id = id
             /\ \A c \in Contents(T) : c.id = id => c = Stored(T, id)
  <2>1. indexOf(T, id) \in 1 .. Len(T[BucketIndex[id]]) /\ T[BucketIndex[id]][indexOf(T, id)].id = id
    BY <1>2, <1>3 DEF Held, indexOf
  <2>2. Stored(T, id) \in Contents(T) /\ Stored(T, id).id = id
    BY <1>1, <2>1, ContentsFacts DEF Stored
  <2> QED
    BY <2>1, <2>2, IdsAreUnique
<1>4. ASSUME NEW c \in Contents(T), c.id = id PROVE Held(T, id)
  <2>1. PICK i \in 1 .. Len(T[BucketIndex[id]]) : T[BucketIndex[id]][i] = c
    BY <1>4, InBucket
  <2> QED
    BY <1>2, <1>4, <2>1 DEF Held
<1> QED
  BY <1>3, <1>4

----------------------------------------------------------------------------
(* One bucket                                                              *)

\* The same of one bucket.
BucketOK(s, b) ==
    /\ s \in Seq(Contacts) /\ Len(s) <= BucketSize
    /\ \A i, j \in 1 .. Len(s) : i # j => s[i].id # s[j].id
    /\ \A i \in 1 .. Len(s) : BucketIndex[s[i].id] = b

\* U is T with another bucket b.
Replaces(U, T, b, s) ==
    /\ U \in [Buckets -> Seq(Contacts)]
    /\ U[b] = s /\ \A d \in Buckets : d # b => U[d] = T[d]

\* The table with another bucket b holds the contacts of the other buckets and
\* those of the new one.
LEMMA BucketReplaced ==
    ASSUME NEW T, TableOK(T), NEW b \in Buckets, NEW s, BucketOK(s, b), NEW U, Replaces(U, T, b, s)
    PROVE  /\ TableOK(U)
           /\ \A c : c \in Contents(U) <=> (c \in Contents(T) /\ BucketIndex[c.id] # b) \/ c \in ToSet(s)
<1>1. /\ T \in [Buckets -> Seq(Contacts)] /\ s \in Seq(Contacts) /\ U[b] = s
      /\ \A d \in Buckets : d # b => U[d] = T[d]
  BY DEF TableOK, BucketOK, Replaces
<1>2. TableOK(U)
  <2>1. \A d \in Buckets : BucketOK(U[d], d)
    BY <1>1 DEF TableOK, BucketOK
  <2> QED
    BY <2>1 DEF TableOK, BucketOK, Replaces
<1>3. ToSet(s) = {s[i] : i \in 1 .. Len(s)}
  BY <1>1, LenProperties DEF ToSet
<1>4. ASSUME NEW c
      PROVE  c \in Contents(U) <=> (c \in Contents(T) /\ BucketIndex[c.id] # b) \/ c \in ToSet(s)
  <2>1. c \in Contents(U) <=> \E d \in Buckets : \E i \in 1 .. Len(U[d]) : U[d][i] = c
    BY <1>2, ContentsFacts
  <2>2. c \in Contents(T) <=> \E d \in Buckets : \E i \in 1 .. Len(T[d]) : T[d][i] = c
    BY ContentsFacts
  <2>3. ASSUME NEW d \in Buckets, d # b, NEW i \in 1 .. Len(U[d]), U[d][i] = c
        PROVE  c \in Contents(T) /\ BucketIndex[c.id] # b
    BY <1>1, <2>2, <2>3 DEF TableOK
  <2>4. ASSUME c \in Contents(T), BucketIndex[c.id] # b
        PROVE  c \in Contents(U)
    <3>1. PICK d \in Buckets : \E i \in 1 .. Len(T[d]) : T[d][i] = c
      BY <2>2, <2>4
    <3>2. d # b
      BY <2>4, <3>1 DEF TableOK
    <3>3. U[d] = T[d]
      BY <1>1, <3>2
    <3>4. \E i \in 1 .. Len(U[d]) : U[d][i] = c
      BY <3>1, <3>3
    <3> QED
      BY <2>1, <3>4
  <2>5. c \in ToSet(s) <=> \E i \in 1 .. Len(U[b]) : U[b][i] = c
    BY <1>1, <1>3
  <2> QED
    BY <2>1, <2>3, <2>4, <2>5
<1> QED
  BY <1>2, <1>4

\* A contact with a new ID can be appended to a bucket with room.
LEMMA AppendBucket ==
    ASSUME NEW s, NEW b, BucketOK(s, b), Len(s) < BucketSize, NEW c \in Contacts,
           BucketIndex[c.id] = b, \A i \in 1 .. Len(s) : s[i].id # c.id
    PROVE  BucketOK(Append(s, c), b) /\ ToSet(Append(s, c)) = ToSet(s) \cup {c}
<1>1. /\ s \in Seq(Contacts) /\ Len(s) \in Nat
      /\ DOMAIN s = 1 .. Len(s)
  BY LenProperties DEF BucketOK
<1>2. /\ Append(s, c) \in Seq(Contacts) /\ Len(Append(s, c)) = Len(s) + 1
      /\ \A i \in 1 .. Len(s) : Append(s, c)[i] = s[i]
      /\ Append(s, c)[Len(s) + 1] = c /\ DOMAIN Append(s, c) = 1 .. Len(s) + 1
  BY <1>1, AppendProperties, LenProperties
<1>3. \A i \in 1 .. Len(s) + 1 : i \in 1 .. Len(s) \/ i = Len(s) + 1
  BY <1>1
<1>4. BucketOK(Append(s, c), b)
  BY <1>1, <1>2, <1>3, RoutingAssumption DEF BucketOK
<1>5. \A x : x \in ToSet(Append(s, c)) <=> x \in ToSet(s) \cup {c}
  <2>1. 1 .. Len(s) \subseteq 1 .. Len(s) + 1 /\ Len(s) + 1 \in 1 .. Len(s) + 1
    BY <1>1
  <2> QED
    BY <1>1, <1>2, <1>3, <2>1 DEF ToSet
<1> QED
  BY <1>4, <1>5

\* A contact can be removed from a bucket.
LEMMA RemoveBucket ==
    ASSUME NEW s, NEW b, BucketOK(s, b), NEW i \in 1 .. Len(s)
    PROVE  /\ BucketOK(RemoveAt(s, i), b) /\ Len(RemoveAt(s, i)) = Len(s) - 1
           /\ ToSet(RemoveAt(s, i)) = ToSet(s) \ {s[i]}
<1>1. /\ s \in Seq(Contacts) /\ Len(s) \in Nat /\ Len(s) <= BucketSize
      /\ DOMAIN s = 1 .. Len(s)
  BY LenProperties DEF BucketOK
<1> DEFINE r == RemoveAt(s, i)
           From(j) == IF j < i THEN j ELSE j + 1
<1>2. /\ r \in Seq(Contacts) /\ Len(r) = Len(s) - 1
      /\ \A j \in 1 .. Len(s) - 1 : r[j] = s[From(j)]
  BY <1>1, RemoveAtFacts
<1>3. DOMAIN r = 1 .. Len(s) - 1
  BY <1>2, LenProperties
<1>4. /\ \A j \in 1 .. Len(s) - 1 : From(j) \in 1 .. Len(s) /\ From(j) # i
      /\ \A j, k \in 1 .. Len(s) - 1 : j # k => From(j) # From(k)
      /\ \A k \in 1 .. Len(s) : k # i => \E j \in 1 .. Len(s) - 1 : From(j) = k
  <2>1. \A j \in 1 .. Len(s) - 1 : From(j) \in 1 .. Len(s) /\ From(j) # i
    BY <1>1
  <2>2. \A j, k \in 1 .. Len(s) - 1 : j # k => From(j) # From(k)
    BY <1>1
  <2>3. ASSUME NEW k \in 1 .. Len(s), k # i PROVE \E j \in 1 .. Len(s) - 1 : From(j) = k
    <3>1. CASE k < i
      BY <1>1, <3>1
    <3>2. CASE k > i
      <4>1. k - 1 \in 1 .. Len(s) - 1 /\ From(k - 1) = k
        BY <1>1, <3>2
      <4> QED
        BY <4>1
    <3> QED
      BY <1>1, <2>3, <3>1, <3>2
  <2> QED
    BY <2>1, <2>2, <2>3
<1> HIDE DEF r, From
<1>5. BucketOK(r, b)
  <2>1. \A j, k \in 1 .. Len(r) : j # k => r[j].id # r[k].id
    <3> SUFFICES ASSUME NEW j \in 1 .. Len(s) - 1, NEW k \in 1 .. Len(s) - 1, j # k
                 PROVE  r[j].id # r[k].id
      BY <1>2
    <3>1. /\ From(j) \in 1 .. Len(s) /\ From(k) \in 1 .. Len(s) /\ From(j) # From(k)
          /\ r[j] = s[From(j)] /\ r[k] = s[From(k)]
      BY <1>2, <1>4
    <3>2. \A m, n \in 1 .. Len(s) : m # n => s[m].id # s[n].id
      BY DEF BucketOK
    <3> QED
      BY <3>1, <3>2
  <2>2. \A j \in 1 .. Len(r) : BucketIndex[r[j].id] = b
    <3>1. \A k \in 1 .. Len(s) : BucketIndex[s[k].id] = b
      BY DEF BucketOK
    <3> QED
      BY <1>2, <1>4, <3>1
  <2>3. Len(r) <= BucketSize
    BY <1>1, <1>2, RoutingAssumption
  <2> QED
    BY <1>2, <2>1, <2>2, <2>3 DEF BucketOK
<1>6. \A x : x \in ToSet(r) <=> x \in ToSet(s) \ {s[i]}
  <2>1. \A x : x \in ToSet(r) <=> \E j \in 1 .. Len(s) - 1 : s[From(j)] = x
    BY <1>2, <1>3 DEF ToSet
  <2>2. \A x : x \in ToSet(s) <=> \E k \in 1 .. Len(s) : s[k] = x
    BY <1>1 DEF ToSet
  <2>3. \A k \in 1 .. Len(s) : k # i => s[k] # s[i]
    BY DEF BucketOK
  <2> QED
    BY <1>4, <2>1, <2>2, <2>3
<1> QED
  BY <1>2, <1>5, <1>6 DEF r

----------------------------------------------------------------------------
(* The table                                                               *)

\* A bucket holds the contacts of the table whose IDs belong there.
LEMMA BucketIs ==
    ASSUME NEW T, TableOK(T), NEW b \in Buckets
    PROVE  /\ BucketOK(T[b], b) /\ Len(T[b]) \in Nat
           /\ ToSet(T[b]) = {c \in Contents(T) : BucketIndex[c.id] = b}
           /\ \A c : c \in ToSet(T[b]) <=> \E i \in 1 .. Len(T[b]) : T[b][i] = c
<1>1. BucketOK(T[b], b) /\ Len(T[b]) \in Nat /\ DOMAIN T[b] = 1 .. Len(T[b])
  BY BucketFacts DEF TableOK, BucketOK
<1>2. \A c : c \in ToSet(T[b]) <=> \E i \in 1 .. Len(T[b]) : T[b][i] = c
  BY <1>1 DEF ToSet
<1>3. \A c : c \in ToSet(T[b]) <=> c \in {d \in Contents(T) : BucketIndex[d.id] = b}
  <2>1. \A c : c \in ToSet(T[b]) => c \in Contents(T)
    BY DEF Contents
  <2>2. \A c : c \in ToSet(T[b]) => BucketIndex[c.id] = b
    BY <1>1, <1>2 DEF BucketOK
  <2>3. \A c : c \in Contents(T) /\ BucketIndex[c.id] = b => c \in ToSet(T[b])
    BY <1>2, InBucket
  <2> QED
    BY <2>1, <2>2, <2>3
<1> QED
  BY <1>1, <1>2, <1>3

\* A table with a contact appended.
LEMMA TableAppend ==
    ASSUME NEW T, TableOK(T), NEW c \in Contacts, ~ Held(T, c.id),
           Len(T[BucketIndex[c.id]]) < BucketSize,
           NEW U, Replaces(U, T, BucketIndex[c.id], Append(T[BucketIndex[c.id]], c))
    PROVE  TableOK(U) /\ Contents(U) = Contents(T) \cup {c}
<1> DEFINE b == BucketIndex[c.id]
<1>1. b \in Buckets /\ c.id \in Nodes
  BY RoutingAssumption DEF Contacts
<1>2. BucketOK(T[b], b) /\ ToSet(T[b]) = {d \in Contents(T) : BucketIndex[d.id] = b}
  BY <1>1, BucketIs
<1>3. \A i \in 1 .. Len(T[b]) : T[b][i].id # c.id
  BY <1>1, BucketFacts DEF Held
<1>4. /\ BucketOK(Append(T[b], c), b)
      /\ ToSet(Append(T[b], c)) = ToSet(T[b]) \cup {c}
  BY <1>2, <1>3, AppendBucket
<1>5. Replaces(U, T, b, Append(T[b], c))
  OBVIOUS
<1> HIDE DEF b
<1>6. /\ TableOK(U)
      /\ \A d : d \in Contents(U) <=> (d \in Contents(T) /\ BucketIndex[d.id] # b)
                                   \/ d \in ToSet(Append(T[b], c))
  BY <1>1, <1>4, <1>5, BucketReplaced
<1>7. \A d : d \in Contents(U) <=> d \in Contents(T) \cup {c}
  BY <1>2, <1>4, <1>6
<1> QED
  BY <1>6, <1>7

\* A table with a contact removed.
LEMMA TableRemove ==
    ASSUME NEW T, TableOK(T), NEW id \in Nodes, Held(T, id),
           NEW U, Replaces(U, T, BucketIndex[id], RemoveAt(T[BucketIndex[id]], indexOf(T, id)))
    PROVE  /\ TableOK(U) /\ Contents(U) = Contents(T) \ {Stored(T, id)}
           /\ Len(U[BucketIndex[id]]) < BucketSize
<1> DEFINE b == BucketIndex[id]
           i == indexOf(T, id)
<1>1. b \in Buckets /\ i \in 1 .. Len(T[b]) /\ T[b][i] = Stored(T, id)
  BY HeldFacts, RoutingAssumption DEF Stored
<1>4. Replaces(U, T, b, RemoveAt(T[b], i))
  OBVIOUS
<1> HIDE DEF b, i
<1>2. /\ BucketOK(T[b], b) /\ ToSet(T[b]) = {d \in Contents(T) : BucketIndex[d.id] = b}
      /\ Len(T[b]) \in Nat /\ Stored(T, id) \in ToSet(T[b])
  <2>1. /\ BucketOK(T[b], b) /\ ToSet(T[b]) = {d \in Contents(T) : BucketIndex[d.id] = b}
        /\ Len(T[b]) \in Nat
    BY <1>1, BucketIs
  <2>2. Stored(T, id) \in ToSet(T[b])
    BY <1>1, BucketIs
  <2> QED
    BY <2>1, <2>2
<1>3. /\ BucketOK(RemoveAt(T[b], i), b) /\ Len(RemoveAt(T[b], i)) = Len(T[b]) - 1
      /\ ToSet(RemoveAt(T[b], i)) = ToSet(T[b]) \ {Stored(T, id)}
  BY <1>1, <1>2, RemoveBucket
<1>5. /\ TableOK(U)
      /\ \A d : d \in Contents(U) <=> (d \in Contents(T) /\ BucketIndex[d.id] # b)
                                   \/ d \in ToSet(RemoveAt(T[b], i))
  BY <1>1, <1>3, <1>4, BucketReplaced
<1>6. Len(U[b]) < BucketSize
  BY <1>2, <1>3, <1>4, RoutingAssumption DEF BucketOK, Replaces
<1>7. /\ \A c \in Contents(T) : BucketIndex[c.id] # b \/ c \in ToSet(T[b])
      /\ BucketIndex[Stored(T, id).id] = b
  BY <1>2
<1>8. \A c : c \in Contents(U) <=> c \in Contents(T) \ {Stored(T, id)}
  BY <1>2, <1>3, <1>5, <1>7
<1> QED
  BY <1>5, <1>6, <1>8 DEF b

\* A table in which one contact went to the fresh end, with another time.
LEMMA TableTouch ==
    ASSUME NEW T, TableOK(T), NEW n \in Contacts, Held(T, n.id), NEW U,
           Replaces(U, T, BucketIndex[n.id], Append(RemoveAt(T[BucketIndex[n.id]], indexOf(T, n.id)), n))
    PROVE  TableOK(U) /\ Contents(U) = (Contents(T) \ {Stored(T, n.id)}) \cup {n}
<1> DEFINE b == BucketIndex[n.id]
           i == indexOf(T, n.id)
           r == RemoveAt(T[b], i)
<1>1. /\ b \in Buckets /\ i \in 1 .. Len(T[b]) /\ T[b][i] = Stored(T, n.id)
      /\ n.id \in Nodes /\ Stored(T, n.id).id = n.id
      /\ \A c \in Contents(T) : c.id = n.id => c = Stored(T, n.id)
  <2>1. n.id \in Nodes
    BY DEF Contacts
  <2> QED
    BY <2>1, HeldFacts, RoutingAssumption DEF Stored
<1>2. Replaces(U, T, b, Append(r, n))
  OBVIOUS
<1> HIDE DEF b, i
<1>3. /\ BucketOK(T[b], b) /\ ToSet(T[b]) = {d \in Contents(T) : BucketIndex[d.id] = b}
      /\ Len(T[b]) \in Nat
  BY <1>1, BucketIs
<1>4. BucketOK(r, b) /\ Len(r) = Len(T[b]) - 1 /\ ToSet(r) = ToSet(T[b]) \ {Stored(T, n.id)}
  BY <1>1, <1>3, RemoveBucket
<1> HIDE DEF r
<1>5. Len(r) < BucketSize
  BY <1>3, <1>4, RoutingAssumption DEF BucketOK
<1>6. \A j \in 1 .. Len(r) : r[j].id # n.id
  <2> SUFFICES ASSUME NEW j \in 1 .. Len(r), r[j].id = n.id PROVE FALSE
    OBVIOUS
  <2>1. r[j] \in ToSet(r)
    <3>1. r \in Seq(Contacts)
      BY <1>4 DEF BucketOK
    <3> QED
      BY <3>1, LenProperties DEF ToSet
  <2>2. r[j] \in Contents(T) /\ r[j] # Stored(T, n.id)
    BY <1>3, <1>4, <2>1
  <2> QED
    BY <1>1, <2>2
<1>7. BucketOK(Append(r, n), b) /\ ToSet(Append(r, n)) = ToSet(r) \cup {n}
  <2>1. BucketIndex[n.id] = b
    BY DEF b
  <2> QED
    BY <1>4, <1>5, <1>6, <2>1, AppendBucket
<1>8. /\ TableOK(U)
      /\ \A d : d \in Contents(U) <=> (d \in Contents(T) /\ BucketIndex[d.id] # b)
                                   \/ d \in ToSet(Append(r, n))
  BY <1>1, <1>2, <1>7, BucketReplaced
<1>9. BucketIndex[Stored(T, n.id).id] = b
  BY <1>1 DEF b
<1>10. \A d : d \in Contents(U) <=> d \in (Contents(T) \ {Stored(T, n.id)}) \cup {n}
  BY <1>3, <1>4, <1>7, <1>8, <1>9
<1> QED
  BY <1>8, <1>10

\* Contacts that turn questionable.
Aged(c) == IF c.seen = "fresh" THEN [c EXCEPT !.seen = "old"] ELSE c

\* Aging keeps the ID and the address.
LEMMA AgedFacts ==
    ASSUME NEW c \in Contacts
    PROVE  /\ Aged(c) \in Contacts /\ Aged(c).id = c.id /\ Aged(c).at = c.at
           /\ Aged(c).seen = "never" <=> c.seen = "never"
    BY DEF Aged, Contacts

\* U is T with every contact aged.
AgedTable(U, T) == U = [b \in Buckets |-> [i \in DOMAIN T[b] |-> Aged(T[b][i])]]

\* A table all of whose contacts aged.
LEMMA TableAge ==
    ASSUME NEW T, TableOK(T), NEW U, AgedTable(U, T)
    PROVE  TableOK(U) /\ Contents(U) = {Aged(c) : c \in Contents(T)}
<1>1. ASSUME NEW b \in Buckets
      PROVE  /\ U[b] \in Seq(Contacts) /\ Len(U[b]) = Len(T[b]) /\ Len(T[b]) \in Nat
             /\ \A i \in 1 .. Len(T[b]) : T[b][i] \in Contacts /\ U[b][i] = Aged(T[b][i])
  <2>1. /\ T[b] \in Seq(Contacts) /\ Len(T[b]) \in Nat /\ DOMAIN T[b] = 1 .. Len(T[b])
        /\ \A i \in 1 .. Len(T[b]) : T[b][i] \in Contacts
    BY BucketFacts
  <2>2. U[b] = [i \in 1 .. Len(T[b]) |-> Aged(T[b][i])]
    BY <2>1 DEF AgedTable
  <2>3. \A i \in 1 .. Len(T[b]) : Aged(T[b][i]) \in Contacts
    BY <2>1, AgedFacts
  <2>4. U[b] \in Seq(Contacts) /\ Len(U[b]) = Len(T[b])
    <3> DEFINE n == Len(T[b])
               e(i) == Aged(T[b][i])
    <3>1. n \in Nat /\ \A i \in 1 .. n : e(i) \in Contacts
      BY <2>1, <2>3
    <3>2. U[b] = [i \in 1 .. n |-> e(i)]
      BY <2>2
    <3> HIDE DEF n, e
    <3>3. U[b] \in [1 .. n -> Contacts]
      BY <3>1, <3>2
    <3>4. U[b] \in Seq(Contacts) /\ Len(U[b]) = n
      BY <3>1, <3>3
    <3> QED
      BY <3>4 DEF n
  <2> QED
    BY <2>1, <2>2, <2>4
<1>2. DOMAIN U = Buckets /\ U = [b \in Buckets |-> U[b]]
  BY DEF AgedTable
<1>3. U \in [Buckets -> Seq(Contacts)]
  BY <1>1, <1>2
<1>4. TableOK(U)
  <2>1. \A b \in Buckets : Len(U[b]) <= BucketSize
    BY <1>1 DEF TableOK
  <2>2. ASSUME NEW b \in Buckets, NEW i \in 1 .. Len(U[b])
        PROVE  BucketIndex[U[b][i].id] = b /\ U[b][i].id = T[b][i].id
    <3>1. BucketIndex[T[b][i].id] = b
      BY <1>1 DEF TableOK
    <3> QED
      BY <1>1, <3>1, AgedFacts
  <2>3. ASSUME NEW b \in Buckets, NEW i \in 1 .. Len(U[b]), NEW j \in 1 .. Len(U[b]), i # j
        PROVE  U[b][i].id # U[b][j].id
    <3>1. T[b][i].id # T[b][j].id
      BY <1>1, <2>3 DEF TableOK
    <3> QED
      BY <2>2, <3>1
  <2>4. \A b \in Buckets : \A i, j \in 1 .. Len(U[b]) : i # j => U[b][i].id # U[b][j].id
    BY <2>3
  <2>5. \A b \in Buckets : \A i \in 1 .. Len(U[b]) : BucketIndex[U[b][i].id] = b
    BY <2>2
  <2> QED
    BY <1>3, <2>1, <2>4, <2>5 DEF TableOK
<1>5. ASSUME NEW c PROVE c \in Contents(U) <=> \E d \in Contents(T) : c = Aged(d)
  <2>1. c \in Contents(U) <=> \E b \in Buckets : \E i \in 1 .. Len(U[b]) : U[b][i] = c
    BY <1>4, ContentsFacts
  <2>2. \A d : d \in Contents(T) <=> \E b \in Buckets : \E i \in 1 .. Len(T[b]) : T[b][i] = d
    BY ContentsFacts
  <2>3. ASSUME NEW b \in Buckets, NEW i \in 1 .. Len(U[b]), U[b][i] = c
        PROVE  \E d \in Contents(T) : c = Aged(d)
    <3>1. T[b][i] \in Contents(T) /\ c = Aged(T[b][i])
      BY <1>1, <2>2, <2>3
    <3> QED
      BY <3>1
  <2>4. ASSUME NEW d \in Contents(T), c = Aged(d) PROVE c \in Contents(U)
    <3>1. PICK b \in Buckets : \E i \in 1 .. Len(T[b]) : T[b][i] = d
      BY <2>2
    <3>2. \E i \in 1 .. Len(U[b]) : U[b][i] = c
      BY <1>1, <2>4, <3>1
    <3> QED
      BY <2>1, <3>2
  <2> QED
    BY <2>1, <2>3, <2>4
<1> QED
  BY <1>4, <1>5

----------------------------------------------------------------------------
(* The indexes                                                             *)

\* The contacts of S on an IP; the indexes A and P describe the contacts S.
OnIP(S, ip) == {c \in S : c.at.ip = ip}
IndexOK(S, A, P) ==
    /\ IsFiniteSet(S) /\ S \subseteq Contacts
    /\ \A c, d \in S : c.id = d.id => c = d
    /\ \A c \in S : c.at \in DOMAIN A /\ A[c.at] = c.id
    /\ \A a \in DOMAIN A : \E c \in S : c.at = a
    /\ P \in [IPs -> Nat]
    /\ \A ip \in IPs : P[ip] = Cardinality(OnIP(S, ip))

\* What the two indexes say of a set of contacts.
LEMMA IndexFacts ==
    ASSUME NEW S, NEW A, NEW P, IndexOK(S, A, P)
    PROVE  /\ DOMAIN A \subseteq Addresses /\ \A a \in DOMAIN A : A[a] \in Nodes
           /\ \A c, d \in S : c.at = d.at => c = d
           /\ \A ip : IsFiniteSet(OnIP(S, ip)) /\ Cardinality(OnIP(S, ip)) \in Nat
           /\ \A c \in S : c.at.ip \in IPs
<1>1. DOMAIN A \subseteq Addresses /\ \A a \in DOMAIN A : A[a] \in Nodes
  BY DEF IndexOK, Contacts
<1>2. \A c, d \in S : c.at = d.at => c = d
  BY DEF IndexOK
<1>3. \A ip : IsFiniteSet(OnIP(S, ip)) /\ Cardinality(OnIP(S, ip)) \in Nat
  <2>1. \A ip : OnIP(S, ip) \subseteq S
    BY DEF OnIP
  <2> QED
    BY <2>1, FS_Subset, FS_CardinalityType DEF IndexOK
<1>4. \A c \in S : c.at.ip \in IPs
  BY DEF IndexOK, Contacts, IPs
<1> QED
  BY <1>1, <1>2, <1>3, <1>4

\* One address of the index changes: c is stored there, or nobody.
Entered(B, A, c) ==
    /\ DOMAIN B = DOMAIN A \cup {c.at} /\ B[c.at] = c.id
    /\ \A a \in DOMAIN A : a # c.at => B[a] = A[a]
\* The index by address without c; the counts by IP with n more on that of c.
Left(B, A, c) ==
    /\ DOMAIN B = DOMAIN A \ {c.at} /\ \A a \in DOMAIN B : B[a] = A[a]
IsCounted(Q, P, c, n) ==
    /\ Q \in [IPs -> Int] /\ \A ip \in IPs : Q[ip] = P[ip] + (IF ip = c.at.ip THEN n ELSE 0)

\* The indexes after a contact entered.
LEMMA IndexAdd ==
    ASSUME NEW S, NEW A, NEW P, IndexOK(S, A, P), NEW c \in Contacts, c.at \notin DOMAIN A,
           \A d \in S : d.id # c.id,
           NEW B, Entered(B, A, c), NEW Q, IsCounted(Q, P, c, 1)
    PROVE  IndexOK(S \cup {c}, B, Q)
<1>1. c \notin S
  OBVIOUS
<1>2. IsFiniteSet(S \cup {c}) /\ S \cup {c} \subseteq Contacts
  BY FS_AddElement DEF IndexOK
<1>3. \A d, e \in S \cup {c} : d.id = e.id => d = e
  BY DEF IndexOK
<1>4. \A d \in S \cup {c} : d.at \in DOMAIN B /\ B[d.at] = d.id
  BY DEF IndexOK, Entered
<1>5. \A a \in DOMAIN B : \E d \in S \cup {c} : d.at = a
  BY DEF IndexOK, Entered
<1>6. ASSUME NEW ip \in IPs
      PROVE  Q[ip] \in Nat /\ Q[ip] = Cardinality(OnIP(S \cup {c}, ip))
  <2>1. P[ip] = Cardinality(OnIP(S, ip)) /\ P[ip] \in Nat /\ IsFiniteSet(OnIP(S, ip))
    BY IndexFacts DEF IndexOK
  <2>2. CASE ip = c.at.ip
    <3>1. OnIP(S \cup {c}, ip) = OnIP(S, ip) \cup {c} /\ c \notin OnIP(S, ip)
      BY <1>1, <2>2 DEF OnIP
    <3>2. Cardinality(OnIP(S, ip) \cup {c}) = Cardinality(OnIP(S, ip)) + 1
      BY <2>1, <3>1, FS_AddElement
    <3>3. Q[ip] = P[ip] + 1
      BY <2>2 DEF IsCounted
    <3>4. Cardinality(OnIP(S \cup {c}, ip)) = P[ip] + 1
      BY <2>1, <3>1, <3>2
    <3> QED
      BY <2>1, <3>3, <3>4
  <2>3. CASE ip # c.at.ip
    <3>1. OnIP(S \cup {c}, ip) = OnIP(S, ip)
      BY <2>3 DEF OnIP
    <3>2. Q[ip] = P[ip] + 0
      BY <2>3 DEF IsCounted
    <3> QED
      BY <2>1, <3>1, <3>2
  <2> QED
    BY <2>2, <2>3
<1>7. Q \in [IPs -> Nat]
  BY <1>6 DEF IsCounted
<1> QED
  BY <1>2, <1>3, <1>4, <1>5, <1>6, <1>7 DEF IndexOK

\* The indexes after a contact left.
LEMMA IndexDel ==
    ASSUME NEW S, NEW A, NEW P, IndexOK(S, A, P), NEW c \in S,
           NEW B, Left(B, A, c), NEW Q, IsCounted(Q, P, c, -1)
    PROVE  IndexOK(S \ {c}, B, Q)
<1>1. \A d \in S : d.at = c.at => d = c
  BY IndexFacts
<1>2. IsFiniteSet(S \ {c}) /\ S \ {c} \subseteq Contacts
  BY FS_RemoveElement DEF IndexOK
<1>3. \A d, e \in S \ {c} : d.id = e.id => d = e
  BY DEF IndexOK
<1>4. \A d \in S \ {c} : d.at \in DOMAIN B /\ B[d.at] = d.id
  BY <1>1 DEF IndexOK, Left
<1>5. \A a \in DOMAIN B : \E d \in S \ {c} : d.at = a
  BY DEF IndexOK, Left
<1>6. ASSUME NEW ip \in IPs
      PROVE  Q[ip] \in Nat /\ Q[ip] = Cardinality(OnIP(S \ {c}, ip))
  <2>1. P[ip] = Cardinality(OnIP(S, ip)) /\ P[ip] \in Nat /\ IsFiniteSet(OnIP(S, ip))
    BY IndexFacts DEF IndexOK
  <2>2. CASE ip = c.at.ip
    <3>1. OnIP(S \ {c}, ip) = OnIP(S, ip) \ {c} /\ c \in OnIP(S, ip)
      BY <2>2 DEF OnIP
    <3>2. /\ Cardinality(OnIP(S, ip) \ {c}) = Cardinality(OnIP(S, ip)) - 1
          /\ IsFiniteSet(OnIP(S, ip) \ {c})
      BY <2>1, <3>1, FS_RemoveElement
    <3>3. Cardinality(OnIP(S, ip) \ {c}) \in Nat
      BY <3>2, FS_CardinalityType
    <3>4. Q[ip] = P[ip] + (-1)
      BY <2>2 DEF IsCounted
    <3> QED
      BY <2>1, <3>1, <3>2, <3>3, <3>4
  <2>3. CASE ip # c.at.ip
    <3>1. OnIP(S \ {c}, ip) = OnIP(S, ip)
      BY <2>3 DEF OnIP
    <3>2. Q[ip] = P[ip] + 0
      BY <2>3 DEF IsCounted
    <3> QED
      BY <2>1, <3>1, <3>2
  <2> QED
    BY <2>2, <2>3
<1>7. Q \in [IPs -> Nat]
  BY <1>6 DEF IsCounted
<1> QED
  BY <1>2, <1>3, <1>4, <1>5, <1>6, <1>7 DEF IndexOK

\* Contacts may change their seen, and nothing else, in place.
LEMMA IndexSame ==
    ASSUME NEW S, NEW A, NEW P, IndexOK(S, A, P), NEW f \in [S -> Contacts],
           \A c \in S : f[c].id = c.id /\ f[c].at = c.at
    PROVE  IndexOK({f[c] : c \in S}, A, P)
<1> DEFINE U == {f[c] : c \in S}
<1>1. \A c, d \in S : f[c] = f[d] => c = d
  BY DEF IndexOK
<1>2. IsFiniteSet(U) /\ U \subseteq Contacts
  <2>1. IsFiniteSet(U)
    <3>1. f \in Surjection(S, U)
      BY DEF Surjection
    <3> QED
      BY <3>1, FS_Surjection DEF IndexOK
  <2> QED
    BY <2>1
<1>3. \A c, d \in U : c.id = d.id => c = d
  BY DEF IndexOK
<1>4. \A c \in U : c.at \in DOMAIN A /\ A[c.at] = c.id
  BY DEF IndexOK
<1>5. \A a \in DOMAIN A : \E c \in U : c.at = a
  <2> SUFFICES ASSUME NEW a \in DOMAIN A PROVE \E c \in U : c.at = a
    OBVIOUS
  <2>1. PICK c \in S : c.at = a
    BY DEF IndexOK
  <2>2. f[c] \in U /\ f[c].at = a
    BY <2>1
  <2> QED
    BY <2>2
<1>6. ASSUME NEW ip \in IPs
      PROVE  P[ip] = Cardinality(OnIP(U, ip))
  <2>1. P[ip] = Cardinality(OnIP(S, ip)) /\ IsFiniteSet(OnIP(S, ip))
    BY IndexFacts DEF IndexOK
  <2> DEFINE g == [c \in OnIP(S, ip) |-> f[c]]
  <2>2. g \in Surjection(OnIP(S, ip), OnIP(U, ip)) /\ g \in Injection(OnIP(S, ip), OnIP(U, ip))
    <3>1. g \in [OnIP(S, ip) -> OnIP(U, ip)]
      BY DEF OnIP
    <3>2. \A c, d \in OnIP(S, ip) : g[c] = g[d] => c = d
      BY <1>1 DEF OnIP
    <3>3. \A d \in OnIP(U, ip) : \E c \in OnIP(S, ip) : g[c] = d
      BY DEF OnIP
    <3> HIDE DEF g
    <3> QED
      BY <3>1, <3>2, <3>3 DEF Injection, IsInjective, Surjection
  <2> QED
    BY <2>1, <2>2, FS_Surjection
<1> QED
  BY <1>2, <1>3, <1>4, <1>5, <1>6 DEF IndexOK

----------------------------------------------------------------------------
(* The table with its indexes, and the operators on them                   *)

\* One contact per IP, and per bucket and /24, where that is required; N are the
\* pairs of an ID and an address that have answered.
Rules(S, P, N) ==
    /\ \A ip \in IPs \ Loopback : P[ip] <= 1
    /\ \A c, d \in S : /\ c.at.net = d.at.net /\ c.at.net \notin LocalNets
                       /\ BucketIndex[c.id] = BucketIndex[d.id]
                       => c = d
    /\ \A c \in S : c.seen # "never" => <<c.id, c.at>> \in N
\* A value of the routes that agrees with itself and obeys the rules.
RouteOK(R, N) ==
    /\ DOMAIN R = 1 .. 3
    /\ TableOK(R[1]) /\ IndexOK(Contents(R[1]), R[2], R[3]) /\ Rules(Contents(R[1]), R[3], N)
In(R) == Contents(R[1])

\* What the operators on routes write.
LEMMA AppendIs ==
    ASSUME NEW R, NEW N, RouteOK(R, N), NEW c \in Contacts, NEW Q, Q = appendNodeLocked(R, c)
    PROVE  /\ DOMAIN Q = 1 .. 3
           /\ Replaces(Q[1], R[1], BucketIndex[c.id], Append(R[1][BucketIndex[c.id]], c))
           /\ Entered(Q[2], R[2], c) /\ IsCounted(Q[3], R[3], c, 1)
<1> DEFINE b == BucketIndex[c.id]
<1>1. /\ R[1] \in [Buckets -> Seq(Contacts)] /\ R[3] \in [IPs -> Nat]
      /\ b \in Buckets /\ c.at.ip \in IPs /\ R[1][b] \in Seq(Contacts)
  BY RoutingAssumption DEF RouteOK, TableOK, IndexOK, Contacts, IPs
<1>2. /\ DOMAIN Q = 1 .. 3
      /\ Q[1] = [R[1] EXCEPT ![b] = Append(@, c)]
      /\ Q[2] = [a \in DOMAIN R[2] \cup {c.at} |-> IF a = c.at THEN c.id ELSE R[2][a]]
      /\ Q[3] = [R[3] EXCEPT ![c.at.ip] = @ + 1]
  BY DEF appendNodeLocked
<1>3. Append(R[1][b], c) \in Seq(Contacts)
  BY <1>1, AppendProperties
<1>4. Replaces(Q[1], R[1], b, Append(R[1][b], c))
  BY <1>1, <1>2, <1>3 DEF Replaces
<1>5. Entered(Q[2], R[2], c)
  BY <1>2 DEF Entered
<1>6. IsCounted(Q[3], R[3], c, 1)
  BY <1>1, <1>2 DEF IsCounted
<1> QED
  BY <1>2, <1>4, <1>5, <1>6

\* What removeNodeAtLocked writes.
LEMMA RemoveIs ==
    ASSUME NEW R, NEW N, RouteOK(R, N), NEW id \in Nodes, Held(R[1], id),
           NEW Q, Q = removeNodeAtLocked(R, id)
    PROVE  /\ DOMAIN Q = 1 .. 3
           /\ Replaces(Q[1], R[1], BucketIndex[id], RemoveAt(R[1][BucketIndex[id]], indexOf(R[1], id)))
           /\ Left(Q[2], R[2], Stored(R[1], id)) /\ IsCounted(Q[3], R[3], Stored(R[1], id), -1)
<1> DEFINE b == BucketIndex[id]
           c == Stored(R[1], id)
           i == indexOf(R[1], id)
<1>1. /\ R[1] \in [Buckets -> Seq(Contacts)] /\ R[3] \in [IPs -> Nat]
      /\ b \in Buckets /\ R[1][b] \in Seq(Contacts)
  BY RoutingAssumption DEF RouteOK, TableOK, IndexOK, Contacts, IPs
<1>2. c \in In(R) /\ c.id = id /\ i \in 1 .. Len(R[1][b])
  BY HeldFacts DEF RouteOK, In
<1>3. c.at.ip \in IPs /\ R[2][c.at] = id
  BY <1>2, IndexFacts DEF RouteOK, IndexOK, In
<1>4. /\ DOMAIN Q = 1 .. 3
      /\ Q[1] = [R[1] EXCEPT ![b] = RemoveAt(@, i)]
      /\ Q[2] = IF R[2][c.at] = id THEN Restrict(R[2], DOMAIN R[2] \ {c.at}) ELSE R[2]
      /\ Q[3] = [R[3] EXCEPT ![c.at.ip] = @ - 1]
  BY DEF removeNodeAtLocked
<1>5. RemoveAt(R[1][b], i) \in Seq(Contacts)
  BY <1>1, <1>2, RemoveAtFacts
<1> HIDE DEF b, c, i
<1>6. Replaces(Q[1], R[1], b, RemoveAt(R[1][b], i))
  BY <1>1, <1>4, <1>5 DEF Replaces
<1>7. Left(Q[2], R[2], c)
  BY <1>3, <1>4 DEF Left, Restrict
<1>8. IsCounted(Q[3], R[3], c, -1)
  BY <1>1, <1>3, <1>4 DEF IsCounted
<1> QED
  BY <1>4, <1>6, <1>7, <1>8 DEF b, c, i

\* A contact enters: nobody of its ID, IP, address, or /24 is in its way.
Admissible(R, c) ==
    /\ ~ Held(R[1], c.id) /\ ~ Full(R, BucketIndex[c.id]) /\ c.at \notin DOMAIN R[2]
    /\ ~ IPTaken(R, c.at) /\ ~ slash24Taken(R, BucketIndex[c.id], c.at, Nobody)

\* Appending an admissible contact keeps the table, its indexes and the rules.
LEMMA AppendOK ==
    ASSUME NEW R, NEW N, RouteOK(R, N), NEW c \in Contacts, Admissible(R, c),
           c.seen # "never" => <<c.id, c.at>> \in N,
           NEW Q, Q = appendNodeLocked(R, c)
    PROVE  RouteOK(Q, N) /\ In(Q) = In(R) \cup {c}
<1> DEFINE b == BucketIndex[c.id]
<1>1. c.id \in Nodes /\ b \in Buckets /\ c.at \in Addresses /\ c.at.ip \in IPs
  BY RoutingAssumption DEF Contacts, IPs
<1>2. TableOK(R[1]) /\ Len(R[1][b]) < BucketSize
  <2>1. TableOK(R[1]) /\ Len(R[1][b]) \in Nat
    BY <1>1, BucketFacts DEF RouteOK
  <2> QED
    BY <2>1, RoutingAssumption DEF Admissible, Full
<1>3. /\ DOMAIN Q = 1 .. 3
      /\ Replaces(Q[1], R[1], b, Append(R[1][b], c))
      /\ Entered(Q[2], R[2], c) /\ IsCounted(Q[3], R[3], c, 1)
  BY AppendIs
<1>4. TableOK(Q[1]) /\ Contents(Q[1]) = Contents(R[1]) \cup {c}
  BY <1>2, <1>3, TableAppend DEF Admissible
<1>5. \A d \in In(R) : d.id # c.id
  BY <1>1, <1>2, HeldFacts DEF Admissible, In
<1>6. IndexOK(In(R) \cup {c}, Q[2], Q[3])
  BY <1>3, <1>5, IndexAdd DEF Admissible, RouteOK, In
<1>7. Rules(In(R) \cup {c}, Q[3], N)
  <2>1. ASSUME NEW ip \in IPs \ Loopback PROVE Q[3][ip] <= 1
    <3>1. R[3][ip] \in Nat /\ R[3][ip] <= 1 /\ Q[3][ip] = R[3][ip] + (IF ip = c.at.ip THEN 1 ELSE 0)
      BY <1>3 DEF IsCounted, RouteOK, Rules, IndexOK
    <3>2. ip = c.at.ip => R[3][ip] = 0
      BY <3>1 DEF Admissible, IPTaken, onePerIP
    <3> QED
      BY <3>1, <3>2
  <2>2. ASSUME NEW d \in In(R), d.at.net = c.at.net, c.at.net \notin LocalNets, BucketIndex[d.id] = b
        PROVE  FALSE
    <3>1. PICK i \in 1 .. Len(R[1][b]) : R[1][b][i] = d
      BY <1>2, <2>2, InBucket DEF In
    <3>2. d.at # c.at /\ d.id # Nobody
      BY <2>2, RoutingAssumption DEF Admissible, RouteOK, IndexOK, In, Contacts
    <3>3. i \in DOMAIN R[1][b]
      BY <1>1, <1>2, <3>1, BucketFacts
    <3> QED
      BY <2>2, <3>1, <3>2, <3>3 DEF Admissible, slash24Taken
  <2>3. Rules(In(R), R[3], N)
    BY DEF RouteOK, In
  <2> QED
    BY <2>1, <2>2, <2>3 DEF Rules
<1> QED
  BY <1>3, <1>4, <1>6, <1>7 DEF RouteOK, In

\* Removing a contact keeps the table, its indexes and the rules.
LEMMA RemoveOK ==
    ASSUME NEW R, NEW N, RouteOK(R, N), NEW id \in Nodes, Held(R[1], id),
           NEW Q, Q = removeNodeAtLocked(R, id)
    PROVE  /\ RouteOK(Q, N) /\ In(Q) = In(R) \ {Stored(R[1], id)}
           /\ ~ Full(Q, BucketIndex[id]) /\ Stored(R[1], id) \in In(R)
           /\ DOMAIN Q[2] = DOMAIN R[2] \ {Stored(R[1], id).at}
           /\ IsCounted(Q[3], R[3], Stored(R[1], id), -1)
<1> DEFINE b == BucketIndex[id]
           c == Stored(R[1], id)
<1>1. /\ DOMAIN Q = 1 .. 3
      /\ Replaces(Q[1], R[1], b, RemoveAt(R[1][b], indexOf(R[1], id)))
      /\ Left(Q[2], R[2], c) /\ IsCounted(Q[3], R[3], c, -1)
  BY RemoveIs
<1>2. TableOK(R[1]) /\ c \in In(R) /\ b \in Buckets
  BY HeldFacts, RoutingAssumption DEF RouteOK, In
<1>3. TableOK(Q[1]) /\ Contents(Q[1]) = Contents(R[1]) \ {c} /\ Len(Q[1][b]) < BucketSize
  BY <1>1, <1>2, TableRemove
<1>4. IndexOK(In(R) \ {c}, Q[2], Q[3])
  BY <1>1, <1>2, IndexDel DEF RouteOK, In
<1>5. Rules(In(R) \ {c}, Q[3], N)
  <2>1. ASSUME NEW ip \in IPs \ Loopback PROVE Q[3][ip] <= 1
    <3>1. R[3][ip] \in Nat /\ R[3][ip] <= 1 /\ Q[3][ip] = R[3][ip] + (IF ip = c.at.ip THEN -1 ELSE 0)
      BY <1>1 DEF IsCounted, RouteOK, Rules, IndexOK
    <3> QED
      BY <3>1
  <2>2. Rules(In(R), R[3], N)
    BY DEF RouteOK, In
  <2> QED
    BY <2>1, <2>2 DEF Rules
<1>6. ~ Full(Q, b)
  <2>1. Len(Q[1][b]) \in Nat
    BY <1>2, <1>3, BucketFacts
  <2> QED
    BY <1>3, <2>1, RoutingAssumption DEF Full
<1>7. DOMAIN Q[2] = DOMAIN R[2] \ {c.at}
  BY <1>1 DEF Left
<1> QED
  BY <1>1, <1>2, <1>3, <1>4, <1>5, <1>6, <1>7 DEF RouteOK, In

\* removeNodeByIDLocked takes out who is stored under that ID at that address.
LEMMA RemoveIfAtOK ==
    ASSUME NEW R, NEW N, RouteOK(R, N), NEW id \in Nodes, NEW at,
           NEW Q, Q = RemoveIfAt(R, id, at)
    PROVE  /\ RouteOK(Q, N) /\ In(Q) = {c \in In(R) : ~ (c.id = id /\ c.at = at)}
           /\ DOMAIN Q[2] \subseteq DOMAIN R[2]
<1>1. CASE HeldAt(R[1], id, at)
  <2>1. Held(R[1], id) /\ Stored(R[1], id).at = at /\ Q = removeNodeAtLocked(R, id)
    BY <1>1 DEF HeldAt, RemoveIfAt
  <2>2. /\ RouteOK(Q, N) /\ In(Q) = In(R) \ {Stored(R[1], id)}
        /\ DOMAIN Q[2] = DOMAIN R[2] \ {Stored(R[1], id).at}
    BY <2>1, RemoveOK
  <2>3. /\ Stored(R[1], id).id = id
        /\ \A c \in In(R) : c.id = id => c = Stored(R[1], id)
    BY <2>1, HeldFacts DEF RouteOK, In
  <2>4. In(R) \ {Stored(R[1], id)} = {c \in In(R) : ~ (c.id = id /\ c.at = at)}
    BY <2>1, <2>3
  <2> QED
    BY <2>2, <2>4
<1>2. CASE ~ HeldAt(R[1], id, at)
  <2>1. Q = R
    BY <1>2 DEF RemoveIfAt
  <2>2. \A c \in In(R) : ~ (c.id = id /\ c.at = at)
    BY <1>2, HeldFacts DEF HeldAt, RouteOK, In
  <2>3. In(R) = {c \in In(R) : ~ (c.id = id /\ c.at = at)}
    BY <2>2
  <2> QED
    BY <2>1, <2>3
<1> QED
  BY <1>1, <1>2

\* Contacts change their seen in place.
LEMMA InPlace ==
    ASSUME NEW R, NEW N, RouteOK(R, N), NEW f \in [In(R) -> Contacts],
           \A c \in In(R) : /\ f[c].id = c.id /\ f[c].at = c.at
                            /\ f[c].seen # "never" => <<c.id, c.at>> \in N,
           NEW Q, DOMAIN Q = 1 .. 3, TableOK(Q[1]), In(Q) = {f[c] : c \in In(R)},
           Q[2] = R[2], Q[3] = R[3]
    PROVE  RouteOK(Q, N)
<1>0. /\ IndexOK(In(R), R[2], R[3])
      /\ \A c \in In(R) : f[c].id = c.id /\ f[c].at = c.at
  BY DEF RouteOK, In
<1>1. IndexOK(In(Q), Q[2], Q[3])
  <2>1. IndexOK({f[c] : c \in In(R)}, R[2], R[3])
    BY <1>0, IndexSame
  <2> QED
    BY <2>1
<1>2. \A ip \in IPs \ Loopback : Q[3][ip] <= 1
  BY DEF RouteOK, Rules
<1>3. ASSUME NEW c \in In(R), NEW d \in In(R), f[c].at.net = f[d].at.net,
             f[c].at.net \notin LocalNets, BucketIndex[f[c].id] = BucketIndex[f[d].id]
      PROVE  f[c] = f[d]
  <2>1. c = d
    BY <1>3 DEF RouteOK, Rules, In
  <2> QED
    BY <2>1
<1>4. Rules(In(Q), Q[3], N)
  <2>1. \A e \in In(Q) : \E c \in In(R) : e = f[c]
    OBVIOUS
  <2>2. \A c, d \in In(Q) : /\ c.at.net = d.at.net /\ c.at.net \notin LocalNets
                            /\ BucketIndex[c.id] = BucketIndex[d.id]
                            => c = d
    BY <1>3, <2>1
  <2>3. \A e \in In(Q) : e.seen # "never" => <<e.id, e.at>> \in N
    BY <2>1
  <2> QED
    BY <1>2, <2>2, <2>3 DEF Rules
<1> QED
  BY <1>1, <1>4 DEF RouteOK, In

\* What touchLocked writes.
LEMMA TouchIs ==
    ASSUME NEW R, NEW N, RouteOK(R, N), NEW id \in Nodes, Held(R[1], id),
           NEW seen \in {"never", "old", "fresh"}, NEW Q, Q = Touch(R, id, seen)
    PROVE  \E n \in Contacts :
             /\ n.id = id /\ n.at = Stored(R[1], id).at
             /\ n.seen \in {seen, Stored(R[1], id).seen}
             /\ Stored(R[1], id).seen = "fresh" => n.seen = "fresh"
             /\ DOMAIN Q = 1 .. 3 /\ Q[2] = R[2] /\ Q[3] = R[3]
             /\ Replaces(Q[1], R[1], BucketIndex[n.id],
                         Append(RemoveAt(R[1][BucketIndex[n.id]], indexOf(R[1], n.id)), n))
<1> DEFINE b == BucketIndex[id]
           c == Stored(R[1], id)
           i == indexOf(R[1], id)
           newer == IF Rank(seen) > Rank(c.seen) THEN seen ELSE c.seen
           n == [c EXCEPT !.seen = newer]
           s == Append(RemoveAt(R[1][b], i), n)
<1>1. /\ R[1] \in [Buckets -> Seq(Contacts)] /\ b \in Buckets /\ R[1][b] \in Seq(Contacts)
      /\ c \in Contacts /\ c.id = id /\ i \in 1 .. Len(R[1][b]) /\ DOMAIN R = 1 .. 3
  BY HeldFacts, ContentsFacts, RoutingAssumption DEF RouteOK, TableOK
<1>2. /\ n \in Contacts /\ n.id = id /\ n.at = c.at /\ n.seen = newer
  BY <1>1 DEF Contacts
<1>3. newer \in {seen, c.seen} /\ (c.seen = "fresh" => newer = "fresh")
  <2>1. Rank("fresh") = 2 /\ Rank("old") = 1 /\ Rank("never") = 0
    BY DEF Rank
  <2>2. c.seen = "fresh" => ~ (Rank(seen) > Rank(c.seen))
    <3>1. Rank(seen) \in {0, 1, 2}
      BY <2>1
    <3> QED
      BY <2>1, <3>1
  <2> QED
    BY <2>2
<1>4. Q = [R EXCEPT ![1] = [R[1] EXCEPT ![b] = s]]
  BY <1>1 DEF Touch
<1>5. s \in Seq(Contacts)
  <2>1. RemoveAt(R[1][b], i) \in Seq(Contacts)
    BY <1>1, RemoveAtFacts
  <2> QED
    BY <1>2, <2>1, AppendProperties
<1> HIDE DEF n, s, newer, i
<1>6. /\ DOMAIN Q = 1 .. 3 /\ Q[1] = [R[1] EXCEPT ![b] = s] /\ Q[2] = R[2] /\ Q[3] = R[3]
  BY <1>1, <1>4
<1>7. Replaces(Q[1], R[1], b, s)
  BY <1>1, <1>5, <1>6 DEF Replaces
<1>8. BucketIndex[n.id] = b /\ indexOf(R[1], n.id) = i
  BY <1>2 DEF i
<1>9. Replaces(Q[1], R[1], BucketIndex[n.id], Append(RemoveAt(R[1][BucketIndex[n.id]], indexOf(R[1], n.id)), n))
  BY <1>7, <1>8 DEF s
<1> QED
  BY <1>2, <1>3, <1>6, <1>9

\* A contact that is touched keeps its ID and its address.
LEMMA TouchOK ==
    ASSUME NEW R, NEW N, RouteOK(R, N), NEW id \in Nodes, Held(R[1], id),
           NEW seen \in {"never", "old", "fresh"},
           seen # "never" => <<id, Stored(R[1], id).at>> \in N,
           NEW Q, Q = Touch(R, id, seen)
    PROVE  /\ RouteOK(Q, N)
           /\ \A c \in In(Q) : \E d \in In(R) : d.id = c.id /\ d.at = c.at
           /\ \A d \in In(R) : \E c \in In(Q) : c.id = d.id
<1> DEFINE c == Stored(R[1], id)
<1>1. PICK n \in Contacts :
             /\ n.id = id /\ n.at = c.at /\ n.seen \in {seen, c.seen}
             /\ DOMAIN Q = 1 .. 3 /\ Q[2] = R[2] /\ Q[3] = R[3]
             /\ Replaces(Q[1], R[1], BucketIndex[n.id],
                         Append(RemoveAt(R[1][BucketIndex[n.id]], indexOf(R[1], n.id)), n))
  BY TouchIs
<1>2. TableOK(Q[1]) /\ Contents(Q[1]) = (Contents(R[1]) \ {Stored(R[1], n.id)}) \cup {n}
  BY <1>1, TableTouch DEF RouteOK
<1>3. c \in In(R) /\ c.id = id /\ In(R) \subseteq Contacts
  BY HeldFacts, ContentsFacts DEF RouteOK, In
<1>4. In(Q) = (In(R) \ {c}) \cup {n}
  BY <1>1, <1>2 DEF In
<1> HIDE DEF c
<1> DEFINE f == [d \in In(R) |-> IF d = c THEN n ELSE d]
<1>5. f \in [In(R) -> Contacts]
  BY <1>3
<1>6. \A d \in In(R) : f[d] = IF d = c THEN n ELSE d
  OBVIOUS
<1> HIDE DEF f
<1>7. In(Q) = {f[d] : d \in In(R)}
  BY <1>3, <1>4, <1>6
<1>8. \A d \in In(R) : d.seen # "never" => <<d.id, d.at>> \in N
  BY DEF RouteOK, Rules, In
<1>9. seen # "never" => <<id, c.at>> \in N
  BY DEF c
<1>10. \A d \in In(R) : /\ f[d].id = d.id /\ f[d].at = d.at
                        /\ f[d].seen # "never" => <<d.id, d.at>> \in N
  BY <1>1, <1>3, <1>6, <1>8, <1>9
<1>11. RouteOK(Q, N)
  BY <1>1, <1>2, <1>5, <1>7, <1>10, InPlace
<1> QED
  BY <1>7, <1>10, <1>11

\* A contact that answered a ping is touched.
LEMMA RefreshOK ==
    ASSUME NEW R, NEW N, RouteOK(R, N), NEW id \in Nodes, NEW at, <<id, at>> \in N,
           NEW Q, Q = refreshNode(R, id, at)
    PROVE  /\ RouteOK(Q, N)
           /\ \A c \in In(Q) : \E d \in In(R) : d.id = c.id /\ d.at = c.at
           /\ \A d \in In(R) : \E c \in In(Q) : c.id = d.id
<1>1. CASE HeldAt(R[1], id, at)
  <2>1. Held(R[1], id) /\ Stored(R[1], id).at = at /\ Q = Touch(R, id, "fresh")
    BY <1>1 DEF HeldAt, refreshNode
  <2> QED
    BY <2>1, TouchOK
<1>2. CASE ~ HeldAt(R[1], id, at)
  BY <1>2 DEF refreshNode
<1> QED
  BY <1>1, <1>2

\* A contact whose new address has answered in its name moves there.
LEMMA RepointOK ==
    ASSUME NEW R, NEW N, RouteOK(R, N), NEW id \in Nodes, NEW from, NEW to \in Addresses,
           MayRepoint(R, id, from, to), <<id, to>> \in N,
           NEW Q, Q = repointNode(R, id, to)
    PROVE  /\ RouteOK(Q, N)
           /\ \A c \in In(Q) : c.at = to \/ c \in In(R)
           /\ \A d \in In(R) : \E c \in In(Q) : c.id = d.id
<1> DEFINE b == BucketIndex[id]
           M == removeNodeAtLocked(R, id)
           c == Contact(id, to, "fresh")
<1>1. Held(R[1], id) /\ Stored(R[1], id).at = from /\ to \notin DOMAIN R[2]
  BY DEF MayRepoint, HeldAt
<1>2. /\ RouteOK(M, N) /\ In(M) = In(R) \ {Stored(R[1], id)}
      /\ ~ Full(M, b) /\ Stored(R[1], id) \in In(R)
      /\ DOMAIN M[2] \subseteq DOMAIN R[2] /\ IsCounted(M[3], R[3], Stored(R[1], id), -1)
  BY <1>1, RemoveOK
<1>3. c \in Contacts /\ c.id = id /\ c.at = to /\ c.seen = "fresh" /\ to.ip \in IPs /\ b \in Buckets
  BY RoutingAssumption DEF Contacts, Contact, IPs
<1>4. /\ Stored(R[1], id).id = id
      /\ \A d \in In(R) : d.id = id => d = Stored(R[1], id)
  BY <1>1, HeldFacts DEF RouteOK, In
<1>5. Q = appendNodeLocked(M, c)
  BY DEF repointNode
<1> HIDE DEF M, c
<1>6. ~ Held(M[1], id)
  BY <1>2, <1>4, HeldFacts DEF RouteOK, In
<1>7. ~ IPTaken(M, to)
  <2> SUFFICES ASSUME onePerIP(to) PROVE ~ (M[3][to.ip] > 0)
    BY DEF IPTaken
  <2>1. ~ (R[3][to.ip] > (IF from.ip = to.ip THEN 1 ELSE 0))
    BY DEF MayRepoint
  <2>2. M[3][to.ip] = R[3][to.ip] + (IF to.ip = from.ip THEN -1 ELSE 0)
    BY <1>1, <1>2, <1>3 DEF IsCounted
  <2>3. R[3][to.ip] \in Nat
    BY <1>3 DEF RouteOK, IndexOK
  <2> QED
    BY <2>1, <2>2, <2>3
<1>8. ~ slash24Taken(M, b, to, Nobody)
  <2> SUFFICES ASSUME to.net \notin LocalNets, NEW i \in DOMAIN M[1][b],
                      M[1][b][i].at.net = to.net, M[1][b][i].at # to
               PROVE  FALSE
    BY DEF slash24Taken
  <2>1. TableOK(M[1]) /\ TableOK(R[1])
    BY <1>2 DEF RouteOK
  <2>2. i \in 1 .. Len(M[1][b]) /\ BucketIndex[M[1][b][i].id] = b
    BY <1>3, <2>1, BucketFacts DEF TableOK
  <2>3. M[1][b][i] \in In(M)
    BY <1>3, <2>1, <2>2, ContentsFacts DEF In
  <2>4. M[1][b][i] \in In(R) /\ M[1][b][i].id # id
    BY <1>2, <1>4, <2>3
  <2>5. PICK j \in 1 .. Len(R[1][b]) : R[1][b][j] = M[1][b][i]
    BY <2>1, <2>2, <2>4, InBucket DEF In
  <2>6. j \in DOMAIN R[1][b]
    BY <1>3, <2>1, <2>5, BucketFacts
  <2> QED
    BY <2>4, <2>5, <2>6 DEF MayRepoint, slash24Taken
<1>9. Admissible(M, c)
  BY <1>1, <1>2, <1>3, <1>6, <1>7, <1>8 DEF Admissible
<1>10. RouteOK(Q, N) /\ In(Q) = In(M) \cup {c}
  BY <1>2, <1>3, <1>5, <1>9, AppendOK
<1>11. ASSUME NEW d \in In(R) PROVE \E e \in In(Q) : e.id = d.id
  <2>1. CASE d \in In(M)
    BY <1>10, <2>1
  <2>2. CASE d \notin In(M)
    <3>1. d.id = id
      BY <1>2, <1>4, <2>2
    <3>2. c \in In(Q)
      BY <1>10
    <3> QED
      BY <1>3, <3>1, <3>2
  <2> QED
    BY <2>1, <2>2
<1> QED
  BY <1>2, <1>3, <1>10, <1>11

\* A slot is given to a newcomer only when its contact was not heard from.
LEMMA ReplaceOK ==
    ASSUME NEW R, NEW N, RouteOK(R, N), NEW old \in Contacts, NEW c \in Contacts,
           c.seen # "never" => <<c.id, c.at>> \in N,
           NEW Q, Q = replaceNode(R, old, c)
    PROVE  /\ RouteOK(Q, N) /\ In(Q) \subseteq In(R) \cup {c}
           /\ \A d \in In(R) : d \in In(Q) \/ d.seen # "fresh"
<1> DEFINE M == RemoveIfAt(R, old.id, old.at)
<1>0. old.id \in Nodes
  BY DEF Contacts
<1>1. CASE HeldAt(R[1], old.id, old.at) /\ ~ questionable(Stored(R[1], old.id))
  BY <1>1 DEF replaceNode
<1>2. CASE ~ (HeldAt(R[1], old.id, old.at) /\ ~ questionable(Stored(R[1], old.id)))
  <2>1. RouteOK(M, N) /\ In(M) = {d \in In(R) : ~ (d.id = old.id /\ d.at = old.at)}
    BY <1>0, RemoveIfAtOK
  <2>2. ASSUME NEW d \in In(R), d \notin In(M) PROVE d.seen # "fresh"
    <3>1. d.id = old.id /\ d.at = old.at
      BY <2>1, <2>2
    <3>2. Held(R[1], old.id) /\ Stored(R[1], old.id) = d
      BY <1>0, <3>1, HeldFacts DEF RouteOK, In
    <3> QED
      BY <1>2, <3>1, <3>2 DEF HeldAt, questionable
  <2>3. \/ Q = M
        \/ Admissible(M, c) /\ Q = appendNodeLocked(M, c)
    BY <1>2 DEF replaceNode, Admissible
  <2> HIDE DEF M
  <2>4. CASE Q = M
    BY <2>1, <2>2, <2>4
  <2>5. CASE Admissible(M, c) /\ Q = appendNodeLocked(M, c)
    <3>1. RouteOK(Q, N) /\ In(Q) = In(M) \cup {c}
      BY <2>1, <2>5, AppendOK
    <3> QED
      BY <2>1, <2>2, <3>1
  <2> QED
    BY <2>3, <2>4, <2>5
<1> QED
  BY <1>1, <1>2

----------------------------------------------------------------------------
(* The goroutines                                                          *)

\* The three kinds of goroutines.
ProbeTasks == [kind : {"probe"}, at : Addresses, fromQuery : BOOLEAN]
ChallengeTasks == [kind : {"challenge"}, old : Contacts, newcomer : Contacts, failures : Nat]
VerifyTasks == [kind : {"verify"}, id : Nodes, from : Addresses, to : Addresses,
                stage : {"old", "new"}]

\* The goroutines ts, when N have answered and C are the cooldowns: a newcomer
\* that counts as heard from has answered, and an ID has one verification at
\* most, whose cooldowns are not armed.
TasksOK(ts, N, C) ==
    /\ ts \subseteq ProbeTasks \cup ChallengeTasks \cup VerifyTasks
    /\ \A t \in ts : t.kind = "challenge" /\ t.newcomer.seen # "never" =>
                       <<t.newcomer.id, t.newcomer.at>> \in N
    /\ \A t \in ts : t.kind = "verify" =>
                       /\ [id |-> t.id, at |-> NoAddress] \notin C
                       /\ [id |-> t.id, at |-> t.to] \notin C
    /\ \A t, u \in ts : t.kind = "verify" /\ u.kind = "verify" /\ t.id = u.id => t = u

\* A contact of the nodes file that is still to be loaded has its address to
\* itself: among the file, the contacts S and the goroutines ts.
FileApart(F, S, ts) ==
    /\ F \subseteq Nodes \X Addresses
    /\ \A x, y \in F : x[2] = y[2] => x = y
    /\ \A x \in F : /\ \A c \in S : c.at # x[2]
                    /\ \A t \in ts : /\ t.kind # "probe"
                                     /\ t.kind = "challenge" => t.newcomer.at # x[2]
                                     /\ t.kind = "verify" => t.to # x[2]

\* The kinds of goroutines and what each of them carries.
LEMMA TaskFacts ==
    ASSUME NEW ts, NEW N, NEW C, TasksOK(ts, N, C), NEW t \in ts
    PROVE  /\ t.kind \in {"probe", "challenge", "verify"}
           /\ t.kind = "probe" => t \in ProbeTasks /\ t.at \in Addresses
           /\ t.kind = "challenge" => /\ t \in ChallengeTasks /\ t.old \in Contacts
                                      /\ t.newcomer \in Contacts
           /\ t.kind = "verify" => /\ t \in VerifyTasks /\ t.id \in Nodes
                                   /\ t.from \in Addresses /\ t.to \in Addresses
<1>1. t \in ProbeTasks \/ t \in ChallengeTasks \/ t \in VerifyTasks
  BY DEF TasksOK
<1>2. t \in ProbeTasks => t.kind = "probe" /\ t.at \in Addresses
  BY DEF ProbeTasks
<1>3. t \in ChallengeTasks => t.kind = "challenge" /\ t.old \in Contacts /\ t.newcomer \in Contacts
  BY DEF ChallengeTasks
<1>4. t \in VerifyTasks => /\ t.kind = "verify" /\ t.id \in Nodes
                           /\ t.from \in Addresses /\ t.to \in Addresses
  BY DEF VerifyTasks
<1> QED
  BY <1>1, <1>2, <1>3, <1>4

\* Fewer goroutines, more answers or fewer cooldowns do no harm.
LEMMA FewerTasks ==
    ASSUME NEW ts, NEW N, NEW C, TasksOK(ts, N, C), NEW us \in SUBSET ts, NEW M, N \subseteq M,
           NEW D \in SUBSET C
    PROVE  TasksOK(us, M, D)
    BY DEF TasksOK

\* A goroutine can start: a verification only of an ID that has none and no
\* cooldown.
LEMMA MoreTasks ==
    ASSUME NEW ts, NEW N, NEW C, TasksOK(ts, N, C), NEW t,
           \/ t \in ProbeTasks
           \/ /\ t \in ChallengeTasks
              /\ t.newcomer.seen # "never" => <<t.newcomer.id, t.newcomer.at>> \in N
           \/ /\ t \in VerifyTasks /\ \A u \in ts : u.kind = "verify" => u.id # t.id
              /\ [id |-> t.id, at |-> NoAddress] \notin C
              /\ [id |-> t.id, at |-> t.to] \notin C
    PROVE  TasksOK(ts \cup {t}, N, C)
<1>1. /\ t \in ProbeTasks => t.kind = "probe"
      /\ t \in ChallengeTasks => t.kind = "challenge"
      /\ t \in VerifyTasks => t.kind = "verify"
  BY DEF ProbeTasks, ChallengeTasks, VerifyTasks
<1>2. ts \cup {t} \subseteq ProbeTasks \cup ChallengeTasks \cup VerifyTasks
  BY DEF TasksOK
<1>3. \A u \in ts \cup {t} : u.kind = "challenge" /\ u.newcomer.seen # "never" =>
                               <<u.newcomer.id, u.newcomer.at>> \in N
  BY <1>1 DEF TasksOK
<1>4. \A u \in ts \cup {t} : u.kind = "verify" =>
                               /\ [id |-> u.id, at |-> NoAddress] \notin C
                               /\ [id |-> u.id, at |-> u.to] \notin C
  BY <1>1 DEF TasksOK
<1>5. \A u, v \in ts \cup {t} : u.kind = "verify" /\ v.kind = "verify" /\ u.id = v.id => u = v
  BY <1>1 DEF TasksOK
<1> QED
  BY <1>2, <1>3, <1>4, <1>5 DEF TasksOK

\* More answers do no harm to the table.
LEMMA AnsweredGrows ==
    ASSUME NEW R, NEW N, RouteOK(R, N), NEW M, N \subseteq M
    PROVE  RouteOK(R, M)
    BY DEF RouteOK, Rules

\* The goroutines ts are those of now and perhaps a verification of an address.
Considered(ts, now, to, N, C) ==
    /\ TasksOK(ts, N, C)
    /\ \A u \in ts : u \in now \/ (u.kind = "verify" /\ u.to = to)

\* considerAddressChange starts at most one verification, of that address.
LEMMA ConsiderOK ==
    ASSUME TasksOK(tasks, answered, addrCooldowns), NEW now, now \subseteq tasks, NEW id \in Nodes,
           NEW from \in Addresses, NEW to \in Addresses
    PROVE  Considered(considerAddressChange(id, from, to, now), now, to, answered, addrCooldowns)
<1> DEFINE ts == considerAddressChange(id, from, to, now)
<1> SUFFICES /\ TasksOK(ts, answered, addrCooldowns)
             /\ \A u \in ts : u \in now \/ (u.kind = "verify" /\ u.to = to)
  BY DEF Considered
<1>1. TasksOK(now, answered, addrCooldowns)
  BY FewerTasks
<1>2. CASE MayVerify(id, to) /\ ~dhtClosed
  <2> DEFINE t == [kind |-> "verify", id |-> id, from |-> from, to |-> to, stage |-> "old"]
  <2>1. t \in VerifyTasks /\ t.kind = "verify" /\ t.id = id /\ t.to = to /\ ts = now \cup {t}
    BY <1>2 DEF VerifyTasks, considerAddressChange
  <2> HIDE DEF t
  <2>2. \A u \in now : u.kind = "verify" => u.id # id
    BY <1>2 DEF MayVerify, Verifying
  <2>3. [id |-> id, at |-> NoAddress] \notin addrCooldowns /\ [id |-> id, at |-> to] \notin addrCooldowns
    BY <1>2 DEF MayVerify
  <2>4. TasksOK(now \cup {t}, answered, addrCooldowns)
    BY <1>1, <2>1, <2>2, <2>3, MoreTasks
  <2> QED
    BY <2>1, <2>4
<1>3. CASE ~ (MayVerify(id, to) /\ ~dhtClosed)
  BY <1>1, <1>3 DEF considerAddressChange
<1> QED
  BY <1>2, <1>3

\* Cooldowns stay within their limit: those of the oldest make room.
LEMMA CooledOK ==
    ASSUME NEW C, C = addrCooldowns, IsFiniteSet(C), Cardinality(C) <= MaxAddrChangeCooldowns,
           NEW id, NEW to, [id |-> id, at |-> NoAddress] \notin C, [id |-> id, at |-> to] \notin C,
           NEW adopted \in BOOLEAN, NEW D \in Cooled(id, to, adopted)
    PROVE  /\ IsFiniteSet(D) /\ Cardinality(D) <= MaxAddrChangeCooldowns
           /\ \A c \in D : c \in C \/ c.id = id
<1> DEFINE armed == {[id |-> id, at |-> NoAddress], [id |-> id, at |-> to]}
           wanted == Cardinality(armed)
           excess == Cardinality(C) + wanted - MaxAddrChangeCooldowns
<1>1. /\ IsFiniteSet(armed) /\ wanted \in Nat /\ armed \cap C = {} /\ armed \ C = armed
      /\ \A c \in armed : c.id = id
  <2>1. IsFiniteSet({[id |-> id, at |-> NoAddress]})
    BY FS_Singleton
  <2>2. IsFiniteSet({[id |-> id, at |-> NoAddress]} \cup {[id |-> id, at |-> to]})
    BY <2>1, FS_AddElement
  <2>3. armed = {[id |-> id, at |-> NoAddress]} \cup {[id |-> id, at |-> to]}
    OBVIOUS
  <2>4. IsFiniteSet(armed)
    BY <2>2, <2>3
  <2> QED
    BY <2>4, FS_CardinalityType
<1>2. Cardinality(C) \in Nat /\ MaxAddrChangeCooldowns \in Nat
  BY FS_CardinalityType, RoutingAssumption
<1>3. CASE adopted
  <2>1. D = {c \in C : c.id # id}
    BY <1>3 DEF Cooled
  <2>2. D \subseteq C
    BY <2>1
  <2>3. IsFiniteSet(D) /\ Cardinality(D) <= Cardinality(C) /\ Cardinality(D) \in Nat
    BY <2>2, FS_Subset, FS_CardinalityType
  <2> QED
    BY <1>2, <2>2, <2>3
<1>4. ASSUME NEW V \in SUBSET C, IsFiniteSet(V),
             Cardinality(C) - Cardinality(V) + wanted <= MaxAddrChangeCooldowns,
             D = (C \ V) \cup armed
      PROVE  /\ IsFiniteSet(D) /\ Cardinality(D) <= MaxAddrChangeCooldowns
             /\ \A c \in D : c \in C \/ c.id = id
  <2>1. /\ IsFiniteSet(C \ V)
        /\ Cardinality(C \ V) = Cardinality(C) - Cardinality(C \cap V)
    BY FS_Difference
  <2>2. C \cap V = V
    OBVIOUS
  <2>3. /\ IsFiniteSet((C \ V) \cup armed)
        /\ Cardinality((C \ V) \cup armed)
             = Cardinality(C \ V) + Cardinality(armed) - Cardinality((C \ V) \cap armed)
    BY <1>1, <2>1, FS_Union
  <2>4. (C \ V) \cap armed = {}
    BY <1>1
  <2>5. Cardinality((C \ V) \cap armed) = 0
    BY <2>4, FS_EmptySet
  <2>6. Cardinality(C \ V) \in Nat /\ Cardinality(V) \in Nat
    BY <1>4, <2>1, FS_CardinalityType
  <2> HIDE DEF armed
  <2>7. Cardinality(D) <= MaxAddrChangeCooldowns
    <3>1. Cardinality(C \ V) = Cardinality(C) - Cardinality(V)
      BY <2>1, <2>2
    <3>2. Cardinality(D) = Cardinality(C \ V) + wanted - 0
      BY <1>4, <2>3, <2>5
    <3> HIDE DEF wanted
    <3> QED
      BY <1>1, <1>2, <1>4, <2>6, <3>1, <3>2
  <2> QED
    BY <1>1, <1>4, <2>3, <2>7
<1>5. CASE ~adopted
  <2> HIDE DEF excess
  <2>1. CASE excess <= 0
    <3>1. D = C \cup armed
      BY <1>1, <1>5, <2>1 DEF Cooled, excess
    <3>2. D = (C \ {}) \cup armed /\ IsFiniteSet({}) /\ Cardinality({}) = 0
      BY <3>1, FS_EmptySet
    <3>3. Cardinality(C) - Cardinality({}) + wanted <= MaxAddrChangeCooldowns
      BY <1>1, <1>2, <2>1, <3>2 DEF excess
    <3> QED
      BY <1>4, <3>2, <3>3
  <2>2. CASE ~ (excess <= 0)
    <3>1. PICK V \in SUBSET C : Cardinality(V) = excess /\ D = (C \ V) \cup armed
      BY <1>1, <1>5, <2>2 DEF Cooled, excess
    <3>2. IsFiniteSet(V)
      BY FS_Subset
    <3>3. Cardinality(C) - Cardinality(V) + wanted <= MaxAddrChangeCooldowns
      BY <1>1, <1>2, <3>1 DEF excess
    <3> QED
      BY <1>4, <3>1, <3>2, <3>3
  <2> QED
    BY <2>1, <2>2
<1> QED
  BY <1>3, <1>5

----------------------------------------------------------------------------
(* Admission                                                               *)

\* The contacts U and the goroutines us bring no address to those of S and ts,
\* that address apart.
NewContacts(U, S, at) == \A c \in U : c.at = at \/ \E d \in S : d.at = c.at
NewTasks(us, ts, at) ==
    \A u \in us : \/ u \in ts \/ (u.kind = "challenge" /\ u.newcomer.at = at)
                  \/ (u.kind = "verify" /\ u.to = at)

\* What an admission of id at that address leaves, N having answered by then.
AdmitsOne(id, at, rest, N) ==
    /\ RouteOK(<<table', nodeAddrs', nodeIPs'>>, N)
    /\ TasksOK(tasks', N, addrCooldowns)
    /\ pingInProgress' \subseteq Buckets
    /\ NewContacts(Contents(table'), Contents(table), at) /\ NewTasks(tasks', rest, at)
    /\ \A d \in Contents(table) : Held(table', d.id) \/ (d.at = at /\ d.id # id)

\* Three variables that hold a good value R of the routes are good routes.
LEMMA Stores ==
    ASSUME NEW Q, NEW N, RouteOK(Q, N), NEW T, NEW A, NEW P, T = Q[1], A = Q[2], P = Q[3]
    PROVE  RouteOK(<<T, A, P>>, N) /\ Contents(T) = In(Q)
    BY DEF RouteOK, In

\* The routes as they stand.
LEMMA HereFacts ==
    ASSUME NEW N, RouteOK(<<table, nodeAddrs, nodeIPs>>, N)
    PROVE  /\ RouteOK(Here, N) /\ In(Here) = Contents(table) /\ TableOK(table)
           /\ Here[1] = table /\ Here[2] = nodeAddrs /\ Here[3] = nodeIPs
           /\ IndexOK(Contents(table), nodeAddrs, nodeIPs)
           /\ Contents(table) \subseteq Contacts
<1>1. Here = <<table, nodeAddrs, nodeIPs>>
  BY DEF Here
<1>2. Here[1] = table /\ Here[2] = nodeAddrs /\ Here[3] = nodeIPs
  BY <1>1
<1>3. RouteOK(Here, N) /\ TableOK(table) /\ IndexOK(Contents(table), nodeAddrs, nodeIPs)
  BY <1>1, <1>2 DEF RouteOK
<1> QED
  BY <1>2, <1>3 DEF In, IndexOK

\* addNodeSeen, whichever way it goes, admits: the contact, a touch, a
\* verification, a challenge or nothing.
LEMMA AdmitOK ==
    ASSUME RouteOK(<<table, nodeAddrs, nodeIPs>>, answered),
           TasksOK(tasks, answered, addrCooldowns), pingInProgress \subseteq Buckets,
           NEW id \in Nodes, NEW at \in Addresses, NEW seen \in {"never", "old", "fresh"},
           NEW rest \in SUBSET tasks, NEW N, answered \subseteq N, seen # "never" => <<id, at>> \in N,
           addNodeSeen(id, at, seen, rest)
    PROVE  AdmitsOne(id, at, rest, N)
<1> DEFINE b == BucketIndex[id]
           R == IF at \in DOMAIN nodeAddrs THEN RemoveIfAt(Here, nodeAddrs[at], at) ELSE Here
           c == Contact(id, at, seen)
<1>1. /\ RouteOK(Here, N) /\ In(Here) = Contents(table) /\ TableOK(table)
      /\ Here[1] = table /\ Here[2] = nodeAddrs /\ Here[3] = nodeIPs
      /\ IndexOK(Contents(table), nodeAddrs, nodeIPs) /\ Contents(table) \subseteq Contacts
      /\ b \in Buckets /\ c \in Contacts /\ c.id = id /\ c.at = at /\ c.seen = seen
  <2>1. RouteOK(<<table, nodeAddrs, nodeIPs>>, N)
    BY AnsweredGrows
  <2> QED
    BY <2>1, HereFacts, RoutingAssumption DEF Contact, Contacts
<1>2. TasksOK(rest, answered, addrCooldowns) /\ TasksOK(rest, N, addrCooldowns)
  BY FewerTasks
<1>s. ASSUME NEW Q, RouteOK(Q, N), Store(Q)
      PROVE  RouteOK(<<table', nodeAddrs', nodeIPs'>>, N) /\ Contents(table') = In(Q) /\ TableOK(table')
  <2>1. table' = Q[1] /\ nodeAddrs' = Q[2] /\ nodeIPs' = Q[3]
    BY <1>s DEF Store
  <2> QED
    BY <1>s, <2>1, Stores DEF RouteOK
<1>h. ASSUME NEW d \in Contents(table), TableOK(table'), \E e \in Contents(table') : e.id = d.id
      PROVE  Held(table', d.id)
  <2>1. d.id \in Nodes
    BY <1>1 DEF Contacts
  <2> QED
    BY <1>h, <2>1, HeldFacts
<1>3. CASE Held(table, id)
  <2>1. /\ Stored(table, id) \in Contents(table) /\ Stored(table, id) \in Contacts
        /\ Stored(table, id).at \in Addresses
    <3>1. Stored(table, id) \in Contents(table)
      BY <1>1, <1>3, HeldFacts
    <3> QED
      BY <1>1, <3>1 DEF Contacts
  <2>2. CASE Stored(table, id).at = at
    <3>1. Store(Touch(Here, id, seen)) /\ tasks' = rest /\ pingInProgress' = pingInProgress
      BY <1>3, <2>2 DEF addNodeSeen
    <3> DEFINE Q == Touch(Here, id, seen)
    <3>2. /\ RouteOK(Q, N)
          /\ \A e \in In(Q) : \E d \in In(Here) : d.id = e.id /\ d.at = e.at
          /\ \A d \in In(Here) : \E e \in In(Q) : e.id = d.id
      BY <1>1, <1>3, <2>2, TouchOK
    <3> HIDE DEF Q
    <3>3. RouteOK(<<table', nodeAddrs', nodeIPs'>>, N) /\ Contents(table') = In(Q) /\ TableOK(table')
      BY <1>s, <3>1, <3>2 DEF Q
    <3>4. \A d \in Contents(table) : Held(table', d.id)
      BY <1>1, <1>h, <3>2, <3>3
    <3>5. \A e \in Contents(table') : \E d \in Contents(table) : d.at = e.at
      BY <1>1, <3>2, <3>3
    <3> QED
      BY <1>2, <3>1, <3>3, <3>4, <3>5 DEF AdmitsOne, NewContacts, NewTasks
  <2>3. CASE Stored(table, id).at # at
    <3>1. /\ tasks' = considerAddressChange(id, Stored(table, id).at, at, rest)
          /\ UNCHANGED <<table, nodeAddrs, nodeIPs>> /\ pingInProgress' = pingInProgress
      BY <1>3, <2>3 DEF addNodeSeen, routes
    <3>2. /\ TasksOK(tasks', answered, addrCooldowns)
          /\ \A u \in tasks' : u \in rest \/ (u.kind = "verify" /\ u.to = at)
      <4>1. Considered(considerAddressChange(id, Stored(table, id).at, at, rest), rest, at,
                       answered, addrCooldowns)
        BY <2>1, ConsiderOK
      <4>2. Considered(tasks', rest, at, answered, addrCooldowns)
        BY <3>1, <4>1
      <4> QED
        BY <4>2 DEF Considered
    <3>3. TasksOK(tasks', N, addrCooldowns)
      BY <3>2, FewerTasks
    <3>4. \A d \in Contents(table) : Held(table', d.id)
      BY <1>1, <1>h, <3>1
    <3>5. RouteOK(<<table', nodeAddrs', nodeIPs'>>, N)
      BY <3>1, AnsweredGrows
    <3> QED
      BY <3>1, <3>2, <3>3, <3>4, <3>5 DEF AdmitsOne, NewContacts, NewTasks
  <2> QED
    BY <2>2, <2>3
<1>4. CASE ~ Held(table, id)
  <2>1. /\ RouteOK(R, N) /\ In(R) \subseteq Contents(table) /\ at \notin DOMAIN R[2]
        /\ \A d \in Contents(table) : d \in In(R) \/ d.at = at
        /\ ~ Held(R[1], id)
    <3>1. /\ RouteOK(R, N) /\ In(R) \subseteq Contents(table)
          /\ \A d \in Contents(table) : d \in In(R) \/ d.at = at
          /\ \A d \in In(R) : d.at # at
      <4>1. CASE at \in DOMAIN nodeAddrs
        <5>1. nodeAddrs[at] \in Nodes
          BY <1>1, <4>1, IndexFacts
        <5>2. /\ RouteOK(R, N)
              /\ In(R) = {d \in In(Here) : ~ (d.id = nodeAddrs[at] /\ d.at = at)}
          BY <1>1, <4>1, <5>1, RemoveIfAtOK
        <5>3. \A d \in Contents(table) : d.at = at => d.id = nodeAddrs[at]
          BY <1>1 DEF IndexOK
        <5> HIDE DEF R
        <5> QED
          BY <1>1, <5>2, <5>3
      <4>2. CASE at \notin DOMAIN nodeAddrs
        <5>1. R = Here
          BY <4>2
        <5>2. \A d \in Contents(table) : d.at # at
          BY <1>1, <4>2 DEF IndexOK
        <5> HIDE DEF R
        <5> QED
          BY <1>1, <5>1, <5>2
      <4> QED
        BY <4>1, <4>2
    <3> HIDE DEF R
    <3>2. at \notin DOMAIN R[2]
      BY <3>1 DEF RouteOK, IndexOK, In
    <3>3. ~ Held(R[1], id)
      <4>1. \A d \in Contents(table) : d.id # id
        BY <1>1, <1>4, HeldFacts
      <4> QED
        BY <3>1, <4>1, HeldFacts DEF RouteOK, In
    <3> QED
      BY <3>1, <3>2, <3>3
  <2>2. \A d \in Contents(table) : d.id # id
    BY <1>1, <1>4, HeldFacts
  <2>a. addNodeSeen(id, at, seen, rest) =>
          \/ Store(R) /\ tasks' = rest /\ pingInProgress' = pingInProgress
          \/ /\ ~ IPTaken(R, at) /\ ~ Full(R, b)
             /\ Store(IF slash24Taken(R, b, at, Nobody) THEN R ELSE appendNodeLocked(R, c))
             /\ tasks' = rest /\ pingInProgress' = pingInProgress
          \/ /\ Store(R)
             /\ \E stale \in Oldest(R, b) :
                  /\ pingInProgress' = pingInProgress \cup {b}
                  /\ tasks' = rest \cup {[kind |-> "challenge", old |-> stale, newcomer |-> c, failures |-> 0]}
    BY <1>4 DEF addNodeSeen
  <2> HIDE DEF R, c
  <2>3. ASSUME Store(R)
        PROVE  /\ RouteOK(<<table', nodeAddrs', nodeIPs'>>, N)
               /\ \A e \in Contents(table') : \E d \in Contents(table) : d.at = e.at
               /\ \A d \in Contents(table) : Held(table', d.id) \/ (d.at = at /\ d.id # id)
    <3>1. RouteOK(<<table', nodeAddrs', nodeIPs'>>, N) /\ Contents(table') = In(R) /\ TableOK(table')
      BY <1>s, <2>1, <2>3
    <3>2. \A d \in Contents(table) : Held(table', d.id) \/ (d.at = at /\ d.id # id)
      BY <1>h, <2>1, <2>2, <3>1
    <3> QED
      BY <2>1, <3>1, <3>2
  <2>4. CASE Store(R) /\ tasks' = rest /\ pingInProgress' = pingInProgress
    BY <1>2, <2>3, <2>4 DEF AdmitsOne, NewContacts, NewTasks
  <2>5. CASE /\ ~ IPTaken(R, at) /\ ~ Full(R, b)
             /\ Store(IF slash24Taken(R, b, at, Nobody) THEN R ELSE appendNodeLocked(R, c))
             /\ tasks' = rest /\ pingInProgress' = pingInProgress
    <3>1. CASE slash24Taken(R, b, at, Nobody)
      <4>1. Store(R)
        BY <2>5, <3>1
      <4> QED
        BY <2>4, <2>5, <4>1
    <3>2. CASE ~ slash24Taken(R, b, at, Nobody)
      <4> DEFINE Q == appendNodeLocked(R, c)
      <4>1. Store(Q)
        BY <2>5, <3>2
      <4>2. Admissible(R, c)
        BY <1>1, <2>1, <2>5, <3>2 DEF Admissible
      <4>3. RouteOK(Q, N) /\ In(Q) = In(R) \cup {c}
        BY <1>1, <2>1, <4>2, AppendOK
      <4> HIDE DEF Q
      <4>4. RouteOK(<<table', nodeAddrs', nodeIPs'>>, N) /\ Contents(table') = In(Q) /\ TableOK(table')
        BY <1>s, <4>1, <4>3
      <4>5. \A d \in Contents(table) : Held(table', d.id) \/ (d.at = at /\ d.id # id)
        BY <1>h, <2>1, <2>2, <4>3, <4>4
      <4>6. \A e \in Contents(table') : e.at = at \/ \E d \in Contents(table) : d.at = e.at
        BY <1>1, <2>1, <4>3, <4>4
      <4> QED
        BY <1>2, <2>5, <4>4, <4>5, <4>6 DEF AdmitsOne, NewContacts, NewTasks
    <3> QED
      BY <3>1, <3>2
  <2>6. CASE /\ Store(R)
             /\ \E stale \in Oldest(R, b) :
                  /\ pingInProgress' = pingInProgress \cup {b}
                  /\ tasks' = rest \cup {[kind |-> "challenge", old |-> stale, newcomer |-> c, failures |-> 0]}
    <3>1. PICK stale \in Oldest(R, b) :
                  /\ pingInProgress' = pingInProgress \cup {b}
                  /\ tasks' = rest \cup {[kind |-> "challenge", old |-> stale, newcomer |-> c, failures |-> 0]}
      BY <2>6
    <3>2. stale \in Contacts
      <4>1. TableOK(R[1])
        BY <2>1 DEF RouteOK
      <4>2. stale \in ToSet(R[1][b])
        BY DEF Oldest
      <4>3. stale \in Contents(R[1])
        BY <1>1, <4>1, <4>2, BucketIs
      <4> QED
        BY <4>1, <4>3, ContentsFacts
    <3> DEFINE t == [kind |-> "challenge", old |-> stale, newcomer |-> c, failures |-> 0]
    <3>3. t \in ChallengeTasks /\ t.kind = "challenge" /\ t.newcomer = c
      BY <1>1, <3>2 DEF ChallengeTasks
    <3>4. tasks' = rest \cup {t}
      BY <3>1
    <3> HIDE DEF t
    <3>5. TasksOK(tasks', N, addrCooldowns)
      BY <1>1, <1>2, <3>3, <3>4, MoreTasks
    <3>6. pingInProgress' \subseteq Buckets
      BY <1>1, <3>1
    <3>7. \A u \in tasks' : u \in rest \/ (u.kind = "challenge" /\ u.newcomer.at = at)
      BY <1>1, <3>3, <3>4
    <3> QED
      BY <2>3, <2>6, <3>5, <3>6, <3>7 DEF AdmitsOne, NewContacts, NewTasks
  <2> QED
    BY <2>a, <2>4, <2>5, <2>6
<1> QED
  BY <1>3, <1>4

----------------------------------------------------------------------------
(* The inductive invariant                                                 *)

\* The parts of the inductive invariant.
RoutesOK == RouteOK(<<table, nodeAddrs, nodeIPs>>, answered)
GoroutinesOK == TasksOK(tasks, answered, addrCooldowns)
CooldownsOK == IsFiniteSet(addrCooldowns) /\ Cardinality(addrCooldowns) <= MaxAddrChangeCooldowns
RestOK ==
    /\ pingInProgress \subseteq Buckets /\ answered \subseteq Nodes \X Addresses
    /\ dhtClosed \in BOOLEAN /\ occupant \in [Addresses -> Nodes \cup {Nobody}]
RoutingInv ==
    /\ RoutesOK /\ GoroutinesOK /\ FileApart(file, Contents(table), tasks)
    /\ CooldownsOK /\ RestOK

\* From the table T to the table U: no contact heard from recently is lost
\* unless another node answered at its address, M having answered by then.
KeptFrom(T, U, M) ==
    \A c \in Contents(T) : c.seen = "fresh" =>
        Held(U, c.id) \/ \E id \in Nodes \ {c.id} : <<id, c.at>> \in M

\* Storing a good value R of the routes.
LEMMA StoreOK ==
    ASSUME NEW Q, NEW N, RouteOK(Q, N), Store(Q)
    PROVE  RouteOK(<<table', nodeAddrs', nodeIPs'>>, N) /\ Contents(table') = In(Q) /\ TableOK(table')
<1>1. table' = Q[1] /\ nodeAddrs' = Q[2] /\ nodeIPs' = Q[3]
  BY DEF Store
<1> QED
  BY <1>1, Stores DEF RouteOK

\* A table that still has every ID has lost no contact.
LEMMA NoneLost ==
    ASSUME NEW T, TableOK(T), NEW U, TableOK(U), NEW M,
           \A d \in Contents(T) : \E c \in Contents(U) : c.id = d.id
    PROVE  KeptFrom(T, U, M)
<1>1. \A d \in Contents(T) : d.id \in Nodes
  BY ContentsFacts DEF Contacts
<1> QED
  BY <1>1, HeldFacts DEF KeptFrom

\* A contact still in the file keeps its address to itself when only another
\* address is new.
LEMMA ApartKept ==
    ASSUME NEW F, NEW S, NEW ts, FileApart(F, S, ts), NEW G, G \subseteq F, NEW at,
           \A x \in G : x[2] # at,
           NEW U, NewContacts(U, S, at), NEW us, NewTasks(us, ts, at)
    PROVE  FileApart(G, U, us)
    BY DEF FileApart, NewContacts, NewTasks

\* Once the file is loaded there is nothing to keep apart.
LEMMA NoFile ==
    ASSUME NEW S, NEW ts
    PROVE  FileApart({}, S, ts)
    BY DEF FileApart

\* Who answers a ping is a node, and its answer is recorded.
LEMMA Answers ==
    ASSUME RestOK, NEW at \in Addresses, NEW id \in PingAnswer(at), Heard(id, at)
    PROVE  /\ id \in Nodes \/ id = Nobody
           /\ answered \subseteq answered' /\ answered' \subseteq Nodes \X Addresses
           /\ id # Nobody => id \in Nodes /\ <<id, at>> \in answered'
           /\ id = Nobody => answered' = answered
<1>1. id \in Nodes \/ id = Nobody
  BY DEF RestOK, PingAnswer
<1> QED
  BY <1>1 DEF RestOK, Heard

\* A step that leaves the table, its indexes and what was answered alone.
LEMMA RoutesSame ==
    ASSUME RoutesOK, UNCHANGED <<table, nodeAddrs, nodeIPs>>, answered \subseteq answered'
    PROVE  RoutesOK' /\ KeptFrom(table, table', answered') /\ Contents(table') = Contents(table)
<1>1. RouteOK(<<table', nodeAddrs', nodeIPs'>>, answered')
  BY AnsweredGrows DEF RoutesOK
<1>2. TableOK(table) /\ TableOK(table')
  BY DEF RoutesOK, RouteOK
<1> QED
  BY <1>1, <1>2, NoneLost DEF RoutesOK

\* The invariant holds at first.
LEMMA InitOK ==
    ASSUME RoutingInit
    PROVE  RoutingInv
<1>1. \A b \in Buckets : table[b] = <<>>
  BY DEF RoutingInit
<1>2. Contents(table) = {}
  BY <1>1 DEF Contents, ToSet
<1>3. TableOK(table)
  BY <1>1, RoutingAssumption DEF TableOK, RoutingInit
<1>4. IndexOK({}, nodeAddrs, nodeIPs)
  <2>1. \A ip : OnIP({}, ip) = {}
    BY DEF OnIP
  <2>2. IsFiniteSet({}) /\ Cardinality({}) = 0
    BY FS_EmptySet
  <2>3. DOMAIN nodeAddrs = {}
    BY DEF RoutingInit
  <2>4. nodeIPs = [ip \in IPs |-> 0]
    BY DEF RoutingInit
  <2> QED
    BY <2>1, <2>2, <2>3, <2>4 DEF IndexOK
<1>5. Rules({}, nodeIPs, answered)
  BY DEF Rules, RoutingInit
<1>6. RoutesOK
  BY <1>2, <1>3, <1>4, <1>5 DEF RoutesOK, RouteOK
<1>7. GoroutinesOK
  BY DEF RoutingInit, GoroutinesOK, TasksOK
<1>8. FileApart(file, Contents(table), tasks)
  BY <1>2, RoutingAssumption DEF RoutingInit, FileApart
<1>9. CooldownsOK
  BY FS_EmptySet, RoutingAssumption DEF RoutingInit, CooldownsOK
<1>10. RestOK
  BY RoutingAssumption DEF RoutingInit, RestOK
<1> QED
  BY <1>6, <1>7, <1>8, <1>9, <1>10 DEF RoutingInv

\* A contact of the nodes file is loaded: nobody had its address.
LEMMA LoadNodeOK ==
    ASSUME RoutingInv, NEW id \in Nodes, NEW at \in Addresses, LoadNode(id, at)
    PROVE  RoutingInv' /\ KeptFrom(table, table', answered')
<1>1. /\ <<id, at>> \in file /\ file' = file \ {<<id, at>>}
      /\ addNodeSeen(id, at, "never", tasks)
      /\ UNCHANGED <<addrCooldowns, dhtClosed, occupant, answered>>
  BY DEF LoadNode
<1>2. /\ RouteOK(<<table, nodeAddrs, nodeIPs>>, answered) /\ TasksOK(tasks, answered, addrCooldowns)
      /\ pingInProgress \subseteq Buckets /\ FileApart(file, Contents(table), tasks)
  BY DEF RoutingInv, RoutesOK, GoroutinesOK, RestOK
<1>3. AdmitsOne(id, at, tasks, answered)
  BY <1>1, <1>2, AdmitOK
<1>4. RoutesOK' /\ GoroutinesOK'
  BY <1>1, <1>3 DEF AdmitsOne, RoutesOK, GoroutinesOK
<1>5. FileApart(file', Contents(table'), tasks')
  <2>1. \A x \in file' : x[2] # at
    BY <1>1, <1>2 DEF FileApart
  <2> QED
    BY <1>1, <1>2, <1>3, <2>1, ApartKept DEF AdmitsOne
<1>6. CooldownsOK' /\ RestOK'
  BY <1>1, <1>3 DEF RoutingInv, CooldownsOK, RestOK, AdmitsOne
<1>7. KeptFrom(table, table', answered')
  <2>1. \A d \in Contents(table) : d.at # at
    BY <1>1, <1>2 DEF FileApart
  <2> QED
    BY <1>3, <2>1 DEF AdmitsOne, KeptFrom
<1> QED
  BY <1>4, <1>5, <1>6, <1>7 DEF RoutingInv

\* probeNode starts a probe or nothing.
LEMMA ProbeNodeOK ==
    ASSUME GoroutinesOK, NEW at \in Addresses, NEW q \in BOOLEAN, probeNode(at, q)
    PROVE  TasksOK(tasks', answered, addrCooldowns)
<1> DEFINE t == [kind |-> "probe", at |-> at, fromQuery |-> q]
<1>1. t \in ProbeTasks
  BY DEF ProbeTasks
<1>2. tasks' = tasks \cup {t} \/ tasks' = tasks
  BY DEF probeNode
<1> HIDE DEF t
<1>3. TasksOK(tasks \cup {t}, answered, addrCooldowns)
  BY <1>1, MoreTasks DEF GoroutinesOK
<1> QED
  BY <1>2, <1>3 DEF GoroutinesOK

\* A query or a referral only starts goroutines.
LEMMA SightingOK ==
    ASSUME RoutingInv, file = {}, TasksOK(tasks', answered, addrCooldowns),
           UNCHANGED <<file, routes, pingInProgress, addrCooldowns, dhtClosed, occupant, answered>>
    PROVE  RoutingInv' /\ KeptFrom(table, table', answered')
<1>1. RoutesOK' /\ KeptFrom(table, table', answered')
  BY RoutesSame DEF RoutingInv, routes
<1>2. FileApart(file', Contents(table'), tasks')
  BY NoFile
<1>3. GoroutinesOK' /\ CooldownsOK' /\ RestOK'
  BY DEF RoutingInv, GoroutinesOK, CooldownsOK, RestOK
<1> QED
  BY <1>1, <1>2, <1>3 DEF RoutingInv

\* A query in the name of a node moves nothing.
LEMMA NoteOK ==
    ASSUME RoutingInv, NEW id \in Nodes, NEW at \in Addresses, noteQuerySender(id, at)
    PROVE  RoutingInv' /\ KeptFrom(table, table', answered')
<1>1. /\ file = {}
      /\ UNCHANGED <<file, routes, pingInProgress, addrCooldowns, dhtClosed, occupant, answered>>
  BY DEF noteQuerySender, Sighted
<1>2. TasksOK(tasks, answered, addrCooldowns)
  BY DEF RoutingInv, GoroutinesOK
<1>3. \/ Held(table, id) /\ tasks' = considerAddressChange(id, Stored(table, id).at, at, tasks)
      \/ probeNode(at, TRUE) \/ tasks' = tasks
  BY DEF noteQuerySender
<1>4. CASE Held(table, id) /\ tasks' = considerAddressChange(id, Stored(table, id).at, at, tasks)
  <2>1. TableOK(table)
    BY DEF RoutingInv, RoutesOK, RouteOK
  <2>2. Stored(table, id).at \in Addresses
    <3>1. Stored(table, id) \in Contacts
      BY <1>4, <2>1, HeldFacts, ContentsFacts
    <3> QED
      BY <3>1 DEF Contacts
  <2>3. Considered(considerAddressChange(id, Stored(table, id).at, at, tasks), tasks, at,
                   answered, addrCooldowns)
    BY <1>2, <2>2, ConsiderOK
  <2>4. TasksOK(tasks', answered, addrCooldowns)
    BY <1>4, <2>3 DEF Considered
  <2> QED
    BY <1>1, <2>4, SightingOK
<1>5. CASE probeNode(at, TRUE)
  <2>1. TasksOK(tasks', answered, addrCooldowns)
    BY <1>5, ProbeNodeOK DEF RoutingInv
  <2> QED
    BY <1>1, <2>1, SightingOK
<1>6. CASE tasks' = tasks
  BY <1>1, <1>2, <1>6, SightingOK
<1> QED
  BY <1>3, <1>4, <1>5, <1>6

\* A referral moves nothing.
LEMMA AddNodeOK ==
    ASSUME RoutingInv, NEW at \in Addresses, AddNode(at)
    PROVE  RoutingInv' /\ KeptFrom(table, table', answered')
<1>1. /\ file = {}
      /\ UNCHANGED <<file, routes, pingInProgress, addrCooldowns, dhtClosed, occupant, answered>>
      /\ probeNode(at, FALSE) \/ tasks' = tasks
  BY DEF AddNode, Sighted
<1>2. TasksOK(tasks', answered, addrCooldowns)
  BY <1>1, ProbeNodeOK DEF RoutingInv, GoroutinesOK
<1> QED
  BY <1>1, <1>2, SightingOK

\* A probe that is answered admits who answered.
LEMMA ProbeOK ==
    ASSUME RoutingInv, NEW t \in tasks, Probe(t)
    PROVE  RoutingInv' /\ KeptFrom(table, table', answered')
<1>1. t.kind = "probe" /\ UNCHANGED <<file, addrCooldowns, dhtClosed, occupant>>
  BY DEF Probe, Probes
<1>2. /\ RouteOK(<<table, nodeAddrs, nodeIPs>>, answered) /\ TasksOK(tasks, answered, addrCooldowns)
      /\ pingInProgress \subseteq Buckets /\ FileApart(file, Contents(table), tasks)
      /\ CooldownsOK /\ RestOK
  BY DEF RoutingInv, RoutesOK, GoroutinesOK, RestOK
<1>3. t.at \in Addresses
  BY <1>1, <1>2, TaskFacts
<1>4. file' = {}
  BY <1>1, <1>2 DEF FileApart
<1>5. PICK id \in PingAnswer(t.at) :
        /\ Heard(id, t.at)
        /\ IF id = Nobody THEN tasks' = tasks \ {t} /\ UNCHANGED <<routes, pingInProgress>>
           ELSE addNodeSeen(id, t.at, "fresh", tasks \ {t})
  BY DEF Probe
<1>6. PICK N : N = answered'
  OBVIOUS
<1>7. /\ answered \subseteq N /\ N \subseteq Nodes \X Addresses
      /\ id # Nobody => id \in Nodes /\ <<id, t.at>> \in N
  BY <1>2, <1>3, <1>5, <1>6, Answers
<1>8. CASE id = Nobody
  <2>1. tasks' = tasks \ {t} /\ UNCHANGED <<routes, pingInProgress>>
    BY <1>5, <1>8
  <2>2. RoutesOK' /\ KeptFrom(table, table', answered')
    BY <1>2, <1>6, <1>7, <2>1, RoutesSame DEF RoutesOK, routes
  <2>3. TasksOK(tasks \ {t}, N, addrCooldowns)
    BY <1>2, <1>7, FewerTasks
  <2>4. GoroutinesOK' /\ FileApart(file', Contents(table'), tasks')
    BY <1>1, <1>4, <1>6, <2>1, <2>3, NoFile DEF GoroutinesOK
  <2>5. CooldownsOK' /\ RestOK'
    BY <1>1, <1>2, <1>6, <1>7, <2>1 DEF CooldownsOK, RestOK
  <2> QED
    BY <2>2, <2>4, <2>5 DEF RoutingInv
<1>9. CASE id # Nobody
  <2>1. addNodeSeen(id, t.at, "fresh", tasks \ {t}) /\ id \in Nodes /\ <<id, t.at>> \in N
    BY <1>5, <1>7, <1>9
  <2>2. AdmitsOne(id, t.at, tasks \ {t}, N)
    <3>1. PICK rest \in SUBSET tasks : rest = tasks \ {t}
      OBVIOUS
    <3>2. addNodeSeen(id, t.at, "fresh", rest)
      BY <2>1, <3>1
    <3>3. AdmitsOne(id, t.at, rest, N)
      BY <1>2, <1>3, <1>7, <2>1, <3>2, AdmitOK
    <3> QED
      BY <3>1, <3>3
  <2>3. RoutesOK' /\ GoroutinesOK' /\ FileApart(file', Contents(table'), tasks')
    BY <1>1, <1>4, <1>6, <2>2, NoFile DEF AdmitsOne, RoutesOK, GoroutinesOK
  <2>4. CooldownsOK' /\ RestOK'
    BY <1>1, <1>2, <1>6, <1>7, <2>2 DEF CooldownsOK, RestOK, AdmitsOne
  <2>5. KeptFrom(table, table', answered')
    BY <1>6, <2>1, <2>2 DEF KeptFrom, AdmitsOne
  <2> QED
    BY <2>3, <2>4, <2>5 DEF RoutingInv
<1> QED
  BY <1>8, <1>9

\* A challenge ends with the old contact refreshed or, when it was not heard
\* from meanwhile, replaced.
LEMMA ChallengeOK ==
    ASSUME RoutingInv, NEW t \in tasks, challenge(t)
    PROVE  RoutingInv' /\ KeptFrom(table, table', answered')
<1>1. t.kind = "challenge" /\ UNCHANGED <<file, addrCooldowns, dhtClosed, occupant>>
  BY DEF challenge
<1>2. /\ RouteOK(<<table, nodeAddrs, nodeIPs>>, answered) /\ TasksOK(tasks, answered, addrCooldowns)
      /\ FileApart(file, Contents(table), tasks) /\ CooldownsOK /\ RestOK
  BY DEF RoutingInv, RoutesOK, GoroutinesOK
<1>3. /\ t \in ChallengeTasks /\ t.old \in Contacts /\ t.newcomer \in Contacts
      /\ t.old.id \in Nodes /\ t.old.at \in Addresses /\ t.newcomer.at \in Addresses
      /\ t.newcomer.seen # "never" => <<t.newcomer.id, t.newcomer.at>> \in answered
      /\ \A x \in file : x[2] # t.newcomer.at
  <2>1. t \in ChallengeTasks /\ t.old \in Contacts /\ t.newcomer \in Contacts
    BY <1>1, <1>2, TaskFacts
  <2>2. t.old.id \in Nodes /\ t.old.at \in Addresses /\ t.newcomer.at \in Addresses
    BY <2>1 DEF Contacts
  <2>3. t.newcomer.seen # "never" => <<t.newcomer.id, t.newcomer.at>> \in answered
    BY <1>1, <1>2 DEF TasksOK
  <2>4. \A x \in file : x[2] # t.newcomer.at
    BY <1>1, <1>2 DEF FileApart
  <2> QED
    BY <2>1, <2>2, <2>3, <2>4
<1>4. PICK id \in PingAnswer(t.old.at) :
        /\ Heard(id, t.old.at)
        /\ \/ /\ tasks' = tasks \ {t} /\ pingInProgress' \subseteq pingInProgress
              /\ \/ UNCHANGED routes
                 \/ id = t.old.id /\ Store(refreshNode(Here, t.old.id, t.old.at))
                 \/ Store(replaceNode(Here, t.old, t.newcomer))
           \/ /\ tasks' = (tasks \ {t}) \cup {[t EXCEPT !.failures = @ + 1]}
              /\ UNCHANGED <<routes, pingInProgress>>
  BY DEF challenge
<1>5. PICK N : N = answered'
  OBVIOUS
<1>6. /\ answered \subseteq N /\ N \subseteq Nodes \X Addresses
      /\ id = t.old.id => <<id, t.old.at>> \in N
  <2>1. /\ answered \subseteq N /\ N \subseteq Nodes \X Addresses
        /\ id # Nobody => <<id, t.old.at>> \in N
    BY <1>2, <1>3, <1>4, <1>5, Answers
  <2> QED
    BY <1>3, <2>1, RoutingAssumption
<1>7. /\ RouteOK(<<table, nodeAddrs, nodeIPs>>, N) /\ RouteOK(Here, N)
      /\ In(Here) = Contents(table) /\ TableOK(table)
  <2>1. RouteOK(<<table, nodeAddrs, nodeIPs>>, N)
    BY <1>2, <1>6, AnsweredGrows
  <2> QED
    BY <2>1, HereFacts
<1>8. CooldownsOK' /\ RestOK'
  BY <1>1, <1>2, <1>4, <1>5, <1>6 DEF CooldownsOK, RestOK
<1>9. /\ TasksOK(tasks', N, addrCooldowns) /\ NewTasks(tasks', tasks, t.newcomer.at)
  <2>1. TasksOK(tasks \ {t}, N, addrCooldowns)
    BY <1>2, <1>6, FewerTasks
  <2>2. CASE tasks' = tasks \ {t}
    BY <2>1, <2>2 DEF NewTasks
  <2>3. CASE tasks' = (tasks \ {t}) \cup {[t EXCEPT !.failures = @ + 1]}
    <3> DEFINE u == [t EXCEPT !.failures = @ + 1]
    <3>1. u \in ChallengeTasks /\ u.newcomer = t.newcomer /\ u.kind = "challenge"
      BY <1>3 DEF ChallengeTasks
    <3>2. tasks' = (tasks \ {t}) \cup {u}
      BY <2>3
    <3> HIDE DEF u
    <3>3. u.newcomer.seen # "never" => <<u.newcomer.id, u.newcomer.at>> \in N
      BY <1>3, <1>6, <3>1
    <3>4. TasksOK((tasks \ {t}) \cup {u}, N, addrCooldowns)
      BY <2>1, <3>1, <3>3, MoreTasks
    <3> QED
      BY <3>1, <3>2, <3>4 DEF NewTasks
  <2> QED
    BY <1>4, <2>2, <2>3
<1>10. ASSUME RouteOK(<<table', nodeAddrs', nodeIPs'>>, N),
              NewContacts(Contents(table'), Contents(table), t.newcomer.at),
              KeptFrom(table, table', N)
       PROVE  RoutingInv' /\ KeptFrom(table, table', answered')
  <2>1. FileApart(file', Contents(table'), tasks')
    BY <1>1, <1>2, <1>3, <1>9, <1>10, ApartKept
  <2>2. RoutesOK' /\ GoroutinesOK'
    BY <1>1, <1>5, <1>9, <1>10 DEF RoutesOK, GoroutinesOK
  <2> QED
    BY <1>5, <1>8, <1>10, <2>1, <2>2 DEF RoutingInv
<1>11. CASE UNCHANGED routes
  <2>1. RoutesOK' /\ KeptFrom(table, table', answered') /\ Contents(table') = Contents(table)
    BY <1>2, <1>5, <1>6, <1>11, RoutesSame DEF RoutesOK, routes
  <2>2. NewContacts(Contents(table'), Contents(table), t.newcomer.at)
    BY <2>1 DEF NewContacts
  <2> QED
    BY <1>5, <1>10, <2>1, <2>2 DEF RoutesOK
<1>12. CASE id = t.old.id /\ Store(refreshNode(Here, t.old.id, t.old.at))
  <2> DEFINE Q == refreshNode(Here, t.old.id, t.old.at)
  <2>1. /\ RouteOK(Q, N)
        /\ \A c \in In(Q) : \E d \in In(Here) : d.id = c.id /\ d.at = c.at
        /\ \A d \in In(Here) : \E c \in In(Q) : c.id = d.id
    BY <1>3, <1>6, <1>7, <1>12, RefreshOK
  <2>2. Store(Q)
    BY <1>12
  <2> HIDE DEF Q
  <2>3. RouteOK(<<table', nodeAddrs', nodeIPs'>>, N) /\ Contents(table') = In(Q) /\ TableOK(table')
    BY <2>1, <2>2, StoreOK
  <2>4. KeptFrom(table, table', N)
    BY <1>7, <2>1, <2>3, NoneLost
  <2>5. NewContacts(Contents(table'), Contents(table), t.newcomer.at)
    BY <1>7, <2>1, <2>3 DEF NewContacts
  <2> QED
    BY <1>10, <2>3, <2>4, <2>5
<1>13. CASE Store(replaceNode(Here, t.old, t.newcomer))
  <2> DEFINE Q == replaceNode(Here, t.old, t.newcomer)
  <2>1. t.newcomer.seen # "never" => <<t.newcomer.id, t.newcomer.at>> \in N
    BY <1>3, <1>6
  <2>2. /\ RouteOK(Q, N) /\ In(Q) \subseteq In(Here) \cup {t.newcomer}
        /\ \A d \in In(Here) : d \in In(Q) \/ d.seen # "fresh"
    BY <1>3, <1>7, <2>1, ReplaceOK
  <2>3. Store(Q)
    BY <1>13
  <2> HIDE DEF Q
  <2>4. RouteOK(<<table', nodeAddrs', nodeIPs'>>, N) /\ Contents(table') = In(Q) /\ TableOK(table')
    BY <2>2, <2>3, StoreOK
  <2>5. KeptFrom(table, table', N)
    <3>1. \A d \in Contents(table) : d.id \in Nodes
      BY <1>7, ContentsFacts DEF Contacts
    <3> QED
      BY <1>7, <2>2, <2>4, <3>1, HeldFacts DEF KeptFrom
  <2>6. NewContacts(Contents(table'), Contents(table), t.newcomer.at)
    BY <1>7, <2>2, <2>4 DEF NewContacts
  <2> QED
    BY <1>10, <2>4, <2>5, <2>6
<1> QED
  BY <1>4, <1>11, <1>12, <1>13

\* The end of a verification arms or clears the cooldowns of its ID alone.
LEMMA VerifyEndsOK ==
    ASSUME GoroutinesOK, CooldownsOK, NEW t \in tasks, t.kind = "verify", NEW adopted \in BOOLEAN,
           VerifyEnds(t, adopted), NEW N, answered \subseteq N
    PROVE  TasksOK(tasks', N, addrCooldowns') /\ CooldownsOK'
<1>1. PICK C : C = addrCooldowns
  OBVIOUS
<1>2. PICK D : D = addrCooldowns' /\ D \in Cooled(t.id, t.to, adopted)
  BY DEF VerifyEnds
<1>3. /\ tasks' = tasks \ {t} /\ TasksOK(tasks, answered, C)
      /\ [id |-> t.id, at |-> NoAddress] \notin C /\ [id |-> t.id, at |-> t.to] \notin C
  BY <1>1 DEF VerifyEnds, GoroutinesOK, TasksOK
<1>4. /\ IsFiniteSet(D) /\ Cardinality(D) <= MaxAddrChangeCooldowns
      /\ \A c \in D : c \in C \/ c.id = t.id
  <2>1. IsFiniteSet(C) /\ Cardinality(C) <= MaxAddrChangeCooldowns
    BY <1>1 DEF CooldownsOK
  <2> QED
    BY <1>1, <1>2, <1>3, <2>1, CooledOK
<1>5. TasksOK(tasks \ {t}, N, D)
  BY <1>3, <1>4 DEF TasksOK
<1> QED
  BY <1>2, <1>3, <1>4, <1>5 DEF CooldownsOK

\* The stored address is pinged: the contact stays, or another node answers
\* there.
LEMMA VerifyOldOK ==
    ASSUME RoutingInv, NEW t \in tasks, VerifyOld(t)
    PROVE  RoutingInv' /\ KeptFrom(table, table', answered')
<1>1. t.kind = "verify" /\ UNCHANGED <<file, pingInProgress, dhtClosed, occupant>>
  BY DEF VerifyOld
<1>2. /\ RouteOK(<<table, nodeAddrs, nodeIPs>>, answered) /\ TasksOK(tasks, answered, addrCooldowns)
      /\ FileApart(file, Contents(table), tasks) /\ GoroutinesOK /\ CooldownsOK /\ RestOK
  BY DEF RoutingInv, RoutesOK, GoroutinesOK
<1>3. /\ t \in VerifyTasks /\ t.id \in Nodes /\ t.from \in Addresses /\ t.to \in Addresses
      /\ \A x \in file : x[2] # t.to
      /\ [id |-> t.id, at |-> NoAddress] \notin addrCooldowns
      /\ [id |-> t.id, at |-> t.to] \notin addrCooldowns
      /\ \A u \in tasks \ {t} : u.kind = "verify" => u.id # t.id
  <2>1. t \in VerifyTasks /\ t.id \in Nodes /\ t.from \in Addresses /\ t.to \in Addresses
    BY <1>1, <1>2, TaskFacts
  <2>2. \A x \in file : x[2] # t.to
    BY <1>1, <1>2 DEF FileApart
  <2>3. /\ [id |-> t.id, at |-> NoAddress] \notin addrCooldowns
        /\ [id |-> t.id, at |-> t.to] \notin addrCooldowns
        /\ \A u \in tasks \ {t} : u.kind = "verify" => u.id # t.id
    BY <1>1, <1>2 DEF TasksOK
  <2> QED
    BY <2>1, <2>2, <2>3
<1>4. PICK id \in PingAnswer(t.from) :
        /\ Heard(id, t.from)
        /\ \/ /\ tasks' = (tasks \ {t}) \cup {[t EXCEPT !.stage = "new"]}
              /\ UNCHANGED <<routes, addrCooldowns>>
           \/ /\ id # Nobody /\ VerifyEnds(t, FALSE)
              /\ \/ id = t.id /\ Store(refreshNode(Here, t.id, t.from))
                 \/ id # t.id /\ Store(RemoveIfAt(Here, t.id, t.from))
  BY DEF VerifyOld
<1>5. PICK N : N = answered'
  OBVIOUS
<1>6. /\ answered \subseteq N /\ N \subseteq Nodes \X Addresses
      /\ id # Nobody => id \in Nodes /\ <<id, t.from>> \in N
  BY <1>2, <1>3, <1>4, <1>5, Answers
<1>7. /\ RouteOK(<<table, nodeAddrs, nodeIPs>>, N) /\ RouteOK(Here, N)
      /\ In(Here) = Contents(table) /\ TableOK(table)
  <2>1. RouteOK(<<table, nodeAddrs, nodeIPs>>, N)
    BY <1>2, <1>6, AnsweredGrows
  <2> QED
    BY <2>1, HereFacts
<1>8. RestOK'
  BY <1>1, <1>2, <1>5, <1>6 DEF RestOK
<1>9. ASSUME TasksOK(tasks', N, addrCooldowns'), CooldownsOK', NewTasks(tasks', tasks, t.to),
             RouteOK(<<table', nodeAddrs', nodeIPs'>>, N),
             NewContacts(Contents(table'), Contents(table), t.to), KeptFrom(table, table', N)
      PROVE  RoutingInv' /\ KeptFrom(table, table', answered')
  <2>1. FileApart(file', Contents(table'), tasks')
    BY <1>1, <1>2, <1>3, <1>9, ApartKept
  <2>2. RoutesOK' /\ GoroutinesOK'
    BY <1>5, <1>9 DEF RoutesOK, GoroutinesOK
  <2> QED
    BY <1>5, <1>8, <1>9, <2>1, <2>2 DEF RoutingInv
<1>10. CASE /\ tasks' = (tasks \ {t}) \cup {[t EXCEPT !.stage = "new"]}
            /\ UNCHANGED <<routes, addrCooldowns>>
  <2>1. RoutesOK' /\ KeptFrom(table, table', answered') /\ Contents(table') = Contents(table)
    BY <1>2, <1>5, <1>6, <1>10, RoutesSame DEF RoutesOK, routes
  <2>2. NewContacts(Contents(table'), Contents(table), t.to)
    BY <2>1 DEF NewContacts
  <2> DEFINE u == [t EXCEPT !.stage = "new"]
  <2>3. u \in VerifyTasks /\ u.kind = "verify" /\ u.id = t.id /\ u.to = t.to
    BY <1>3 DEF VerifyTasks
  <2>4. tasks' = (tasks \ {t}) \cup {u}
    BY <1>10
  <2> HIDE DEF u
  <2>5. TasksOK(tasks \ {t}, N, addrCooldowns)
    BY <1>2, <1>6, FewerTasks
  <2>6. TasksOK((tasks \ {t}) \cup {u}, N, addrCooldowns)
    BY <1>3, <2>3, <2>5, MoreTasks
  <2>7. TasksOK(tasks', N, addrCooldowns') /\ NewTasks(tasks', tasks, t.to) /\ CooldownsOK'
    BY <1>2, <1>10, <2>3, <2>4, <2>6 DEF NewTasks, CooldownsOK
  <2> QED
    BY <1>5, <1>9, <2>1, <2>2, <2>7 DEF RoutesOK
<1>11. CASE id # Nobody /\ VerifyEnds(t, FALSE)
  <2>1. TasksOK(tasks', N, addrCooldowns') /\ CooldownsOK'
    BY <1>1, <1>2, <1>6, <1>11, VerifyEndsOK
  <2>2. NewTasks(tasks', tasks, t.to)
    BY <1>11 DEF VerifyEnds, NewTasks
  <2>3. CASE id = t.id /\ Store(refreshNode(Here, t.id, t.from))
    <3> DEFINE Q == refreshNode(Here, t.id, t.from)
    <3>1. /\ RouteOK(Q, N)
          /\ \A c \in In(Q) : \E d \in In(Here) : d.id = c.id /\ d.at = c.at
          /\ \A d \in In(Here) : \E c \in In(Q) : c.id = d.id
      BY <1>3, <1>6, <1>7, <1>11, <2>3, RefreshOK
    <3>2. Store(Q)
      BY <2>3
    <3> HIDE DEF Q
    <3>3. RouteOK(<<table', nodeAddrs', nodeIPs'>>, N) /\ Contents(table') = In(Q) /\ TableOK(table')
      BY <3>1, <3>2, StoreOK
    <3>4. KeptFrom(table, table', N)
      BY <1>7, <3>1, <3>3, NoneLost
    <3>5. NewContacts(Contents(table'), Contents(table), t.to)
      BY <1>7, <3>1, <3>3 DEF NewContacts
    <3> QED
      BY <1>9, <2>1, <2>2, <3>3, <3>4, <3>5
  <2>4. CASE id # t.id /\ Store(RemoveIfAt(Here, t.id, t.from))
    <3> DEFINE Q == RemoveIfAt(Here, t.id, t.from)
    <3>1. RouteOK(Q, N) /\ In(Q) = {c \in In(Here) : ~ (c.id = t.id /\ c.at = t.from)}
      BY <1>3, <1>7, RemoveIfAtOK
    <3>2. Store(Q)
      BY <2>4
    <3> HIDE DEF Q
    <3>3. RouteOK(<<table', nodeAddrs', nodeIPs'>>, N) /\ Contents(table') = In(Q) /\ TableOK(table')
      BY <3>1, <3>2, StoreOK
    <3>4. KeptFrom(table, table', N)
      <4>1. \A d \in Contents(table) : d.id \in Nodes
        BY <1>7, ContentsFacts DEF Contacts
      <4>2. \A d \in Contents(table) : Held(table', d.id) \/ (d.id = t.id /\ d.at = t.from)
        BY <1>7, <3>1, <3>3, <4>1, HeldFacts
      <4> QED
        BY <1>6, <1>11, <2>4, <4>2 DEF KeptFrom
    <3>5. NewContacts(Contents(table'), Contents(table), t.to)
      BY <1>7, <3>1, <3>3 DEF NewContacts
    <3> QED
      BY <1>9, <2>1, <2>2, <3>3, <3>4, <3>5
  <2> QED
    BY <1>4, <1>10, <2>3, <2>4
<1> QED
  BY <1>4, <1>10, <1>11

\* The new address is pinged: the contact moves there when it answers.
LEMMA VerifyNewOK ==
    ASSUME RoutingInv, NEW t \in tasks, VerifyNew(t)
    PROVE  RoutingInv' /\ KeptFrom(table, table', answered')
<1>1. t.kind = "verify" /\ UNCHANGED <<file, pingInProgress, dhtClosed, occupant>>
  BY DEF VerifyNew
<1>2. /\ RouteOK(<<table, nodeAddrs, nodeIPs>>, answered) /\ TasksOK(tasks, answered, addrCooldowns)
      /\ FileApart(file, Contents(table), tasks) /\ GoroutinesOK /\ CooldownsOK /\ RestOK
  BY DEF RoutingInv, RoutesOK, GoroutinesOK
<1>3. /\ t.id \in Nodes /\ t.to \in Addresses /\ \A x \in file : x[2] # t.to
  <2>1. t.id \in Nodes /\ t.to \in Addresses
    BY <1>1, <1>2, TaskFacts
  <2>2. \A x \in file : x[2] # t.to
    BY <1>1, <1>2 DEF FileApart
  <2> QED
    BY <2>1, <2>2
<1>4. PICK id \in PingAnswer(t.to), adopted \in BOOLEAN :
        /\ Heard(id, t.to) /\ VerifyEnds(t, adopted)
        /\ adopted => id = t.id /\ MayRepoint(Here, t.id, t.from, t.to)
        /\ Store(IF adopted THEN repointNode(Here, t.id, t.to) ELSE Here)
  BY DEF VerifyNew
<1>5. PICK N : N = answered'
  OBVIOUS
<1>6. /\ answered \subseteq N /\ N \subseteq Nodes \X Addresses
      /\ adopted => <<t.id, t.to>> \in N
  <2>1. /\ answered \subseteq N /\ N \subseteq Nodes \X Addresses
        /\ id # Nobody => <<id, t.to>> \in N
    BY <1>2, <1>3, <1>4, <1>5, Answers
  <2> QED
    BY <1>3, <1>4, <2>1, RoutingAssumption
<1>7. /\ RouteOK(Here, N) /\ In(Here) = Contents(table) /\ TableOK(table)
  <2>1. RouteOK(<<table, nodeAddrs, nodeIPs>>, N)
    BY <1>2, <1>6, AnsweredGrows
  <2> QED
    BY <2>1, HereFacts
<1>8. RestOK'
  BY <1>1, <1>2, <1>5, <1>6 DEF RestOK
<1>9. TasksOK(tasks', N, addrCooldowns') /\ CooldownsOK' /\ NewTasks(tasks', tasks, t.to)
  <2>1. TasksOK(tasks', N, addrCooldowns') /\ CooldownsOK'
    BY <1>1, <1>2, <1>4, <1>6, VerifyEndsOK
  <2>2. NewTasks(tasks', tasks, t.to)
    BY <1>4 DEF VerifyEnds, NewTasks
  <2> QED
    BY <2>1, <2>2
<1>10. PICK Q : /\ RouteOK(Q, N) /\ Store(Q)
                /\ \A c \in In(Q) : c.at = t.to \/ c \in In(Here)
                /\ \A d \in In(Here) : \E c \in In(Q) : c.id = d.id
  <2>1. CASE adopted
    <3>1. Store(repointNode(Here, t.id, t.to)) /\ MayRepoint(Here, t.id, t.from, t.to)
      BY <1>4, <2>1
    <3>2. PICK from : from = t.from
      OBVIOUS
    <3>3. MayRepoint(Here, t.id, from, t.to)
      BY <3>1, <3>2
    <3>4. /\ RouteOK(repointNode(Here, t.id, t.to), N)
          /\ \A c \in In(repointNode(Here, t.id, t.to)) : c.at = t.to \/ c \in In(Here)
          /\ \A d \in In(Here) : \E c \in In(repointNode(Here, t.id, t.to)) : c.id = d.id
      BY <1>3, <1>6, <1>7, <2>1, <3>3, RepointOK
    <3> QED
      BY <3>1, <3>4
  <2>2. CASE ~ adopted
    <3>1. Store(Here)
      BY <1>4, <2>2
    <3> QED
      BY <1>7, <3>1
  <2> QED
    BY <2>1, <2>2
<1>11. RouteOK(<<table', nodeAddrs', nodeIPs'>>, N) /\ Contents(table') = In(Q) /\ TableOK(table')
  BY <1>10, StoreOK
<1>12. KeptFrom(table, table', N)
  BY <1>7, <1>10, <1>11, NoneLost
<1>13. FileApart(file', Contents(table'), tasks')
  <2>1. NewContacts(Contents(table'), Contents(table), t.to)
    BY <1>7, <1>10, <1>11 DEF NewContacts
  <2> QED
    BY <1>1, <1>2, <1>3, <1>9, <2>1, ApartKept
<1>14. RoutesOK' /\ GoroutinesOK'
  BY <1>5, <1>9, <1>11 DEF RoutesOK, GoroutinesOK
<1> QED
  BY <1>5, <1>8, <1>9, <1>12, <1>13, <1>14 DEF RoutingInv

\* Q is R with every contact aged.
AgedRoutes(Q, R) == DOMAIN Q = 1 .. 3 /\ AgedTable(Q[1], R[1]) /\ Q[2] = R[2] /\ Q[3] = R[3]

\* Aging changes neither IDs nor addresses.
LEMMA AgeRoutes ==
    ASSUME NEW R, NEW N, RouteOK(R, N), NEW Q, AgedRoutes(Q, R)
    PROVE  /\ RouteOK(Q, N)
           /\ \A c \in In(Q) : \E d \in In(R) : d.at = c.at
           /\ \A d \in In(R) : \E c \in In(Q) : c.id = d.id
<1>1. TableOK(R[1]) /\ In(R) \subseteq Contacts
  BY ContentsFacts DEF RouteOK, In
<1>2. TableOK(Q[1]) /\ In(Q) = {Aged(c) : c \in In(R)}
  BY <1>1, TableAge DEF In, AgedRoutes
<1> DEFINE f == [d \in In(R) |-> Aged(d)]
<1>3. f \in [In(R) -> Contacts]
  BY <1>1, AgedFacts
<1>4. \A d \in In(R) : f[d] = Aged(d)
  OBVIOUS
<1> HIDE DEF f
<1>5. In(Q) = {f[d] : d \in In(R)}
  BY <1>2, <1>4
<1>6. \A d \in In(R) : d.seen # "never" => <<d.id, d.at>> \in N
  BY DEF RouteOK, Rules, In
<1>7. \A d \in In(R) : f[d].id = d.id /\ f[d].at = d.at /\ (f[d].seen # "never" => d.seen # "never")
  BY <1>1, <1>4, AgedFacts
<1>a. \A d \in In(R) : f[d].seen # "never" => <<d.id, d.at>> \in N
  BY <1>6, <1>7
<1>8. RouteOK(Q, N)
  BY <1>2, <1>3, <1>5, <1>7, <1>a, InPlace DEF AgedRoutes
<1> QED
  BY <1>5, <1>7, <1>8

\* Contacts turn questionable.
LEMMA AgesOK ==
    ASSUME RoutingInv, Ages
    PROVE  RoutingInv' /\ KeptFrom(table, table', answered')
<1>1. /\ AgedTable(table', table)
      /\ UNCHANGED <<file, nodeAddrs, nodeIPs, pingInProgress, tasks, addrCooldowns, dhtClosed,
                     occupant, answered>>
  BY DEF Ages, AgedTable, Aged
<1>2. RouteOK(<<table, nodeAddrs, nodeIPs>>, answered) /\ FileApart(file, Contents(table), tasks)
  BY DEF RoutingInv, RoutesOK
<1>3. /\ RouteOK(Here, answered) /\ In(Here) = Contents(table)
      /\ Here[1] = table /\ Here[2] = nodeAddrs /\ Here[3] = nodeIPs
  BY <1>2, HereFacts
<1>4. PICK Q : AgedRoutes(Q, Here) /\ Store(Q)
  <2> DEFINE W == <<table', nodeAddrs, nodeIPs>>
  <2>1. AgedRoutes(W, Here) /\ Store(W)
    BY <1>1, <1>3 DEF AgedRoutes, Store
  <2> QED
    BY <2>1
<1>5. /\ RouteOK(Q, answered)
      /\ \A c \in In(Q) : \E d \in In(Here) : d.at = c.at
      /\ \A d \in In(Here) : \E c \in In(Q) : c.id = d.id
  BY <1>3, <1>4, AgeRoutes
<1>6. /\ RouteOK(<<table', nodeAddrs', nodeIPs'>>, answered)
      /\ In(Q) = Contents(table') /\ TableOK(table) /\ TableOK(table')
  BY <1>2, <1>4, <1>5, StoreOK DEF RouteOK
<1>7. RoutesOK'
  BY <1>1, <1>6 DEF RoutesOK
<1>8. KeptFrom(table, table', answered')
  BY <1>3, <1>5, <1>6, NoneLost
<1>9. FileApart(file', Contents(table'), tasks')
  <2>1. FileApart(file, Contents(table'), tasks)
    BY <1>2, <1>3, <1>5, <1>6 DEF FileApart
  <2> QED
    BY <1>1, <2>1
<1>10. GoroutinesOK' /\ CooldownsOK' /\ RestOK'
  BY <1>1 DEF RoutingInv, GoroutinesOK, CooldownsOK, RestOK
<1> QED
  BY <1>7, <1>8, <1>9, <1>10 DEF RoutingInv

\* Steps that leave the table, the goroutines and the file alone.
LEMMA AsideOK ==
    ASSUME RoutingInv, UNCHANGED <<file, routes, pingInProgress, tasks, answered>>,
           addrCooldowns' \subseteq addrCooldowns, dhtClosed' \in BOOLEAN,
           occupant' \in [Addresses -> Nodes \cup {Nobody}]
    PROVE  RoutingInv' /\ KeptFrom(table, table', answered')
<1>1. RoutesOK' /\ KeptFrom(table, table', answered') /\ Contents(table') = Contents(table)
  BY RoutesSame DEF RoutingInv, routes
<1>2. FileApart(file', Contents(table'), tasks') /\ RestOK'
  <2>1. FileApart(file, Contents(table), tasks) /\ RestOK
    BY DEF RoutingInv
  <2>2. RestOK'
    BY <2>1 DEF RestOK
  <2> QED
    BY <1>1, <2>1, <2>2
<1>3. PICK D \in SUBSET addrCooldowns : D = addrCooldowns'
  OBVIOUS
<1>4. GoroutinesOK'
  <2>1. TasksOK(tasks, answered, D)
    BY FewerTasks DEF RoutingInv, GoroutinesOK
  <2> QED
    BY <1>3, <2>1 DEF GoroutinesOK
<1>5. CooldownsOK'
  <2>1. IsFiniteSet(addrCooldowns) /\ Cardinality(addrCooldowns) <= MaxAddrChangeCooldowns
    BY DEF RoutingInv, CooldownsOK
  <2>2. IsFiniteSet(D) /\ Cardinality(D) <= Cardinality(addrCooldowns)
    BY <1>3, <2>1, FS_Subset
  <2>3. /\ Cardinality(D) \in Nat /\ Cardinality(addrCooldowns) \in Nat
        /\ MaxAddrChangeCooldowns \in Nat
    BY <2>1, <2>2, FS_CardinalityType, RoutingAssumption
  <2>4. Cardinality(D) <= MaxAddrChangeCooldowns
    BY <2>1, <2>2, <2>3
  <2> QED
    BY <1>3, <2>2, <2>4 DEF CooldownsOK
<1> QED
  BY <1>1, <1>2, <1>4, <1>5 DEF RoutingInv

\* Every step keeps the invariant and the contacts heard from.
LEMMA StepOK ==
    ASSUME RoutingInv, [RoutingNext]_routingVars
    PROVE  RoutingInv' /\ KeptFrom(table, table', answered')
<1>1. ASSUME NEW id \in Nodes, NEW at \in Addresses, LoadNode(id, at) \/ noteQuerySender(id, at)
      PROVE  RoutingInv' /\ KeptFrom(table, table', answered')
  BY <1>1, LoadNodeOK, NoteOK
<1>2. ASSUME NEW at \in Addresses, AddNode(at)
      PROVE  RoutingInv' /\ KeptFrom(table, table', answered')
  BY <1>2, AddNodeOK
<1>3. ASSUME NEW t \in tasks, Probe(t) \/ challenge(t) \/ VerifyOld(t) \/ VerifyNew(t)
      PROVE  RoutingInv' /\ KeptFrom(table, table', answered')
  BY <1>3, ProbeOK, ChallengeOK, VerifyOldOK, VerifyNewOK
<1>4. CASE Ages
  BY <1>4, AgesOK
<1>5. dhtClosed \in BOOLEAN /\ occupant \in [Addresses -> Nodes \cup {Nobody}]
  BY DEF RoutingInv, RestOK
<1>6. ASSUME NEW c \in addrCooldowns, CooldownEnds(c)
      PROVE  RoutingInv' /\ KeptFrom(table, table', answered')
  <2>1. /\ UNCHANGED <<file, routes, pingInProgress, tasks, answered>>
        /\ addrCooldowns' \subseteq addrCooldowns /\ dhtClosed' = dhtClosed /\ occupant' = occupant
    BY <1>6 DEF CooldownEnds
  <2> QED
    BY <1>5, <2>1, AsideOK
<1>7. ASSUME NEW at \in Addresses, NEW id \in Nodes \cup {Nobody}, Moves(at, id)
      PROVE  RoutingInv' /\ KeptFrom(table, table', answered')
  <2>1. /\ UNCHANGED <<file, routes, pingInProgress, tasks, answered>>
        /\ addrCooldowns' \subseteq addrCooldowns /\ dhtClosed' = dhtClosed
        /\ occupant' = [occupant EXCEPT ![at] = id]
    BY <1>7 DEF Moves
  <2>2. occupant' \in [Addresses -> Nodes \cup {Nobody}]
    BY <1>5, <2>1
  <2> QED
    BY <1>5, <2>1, <2>2, AsideOK
<1>8. CASE CloseDHT
  <2>1. /\ UNCHANGED <<file, routes, pingInProgress, tasks, answered>>
        /\ addrCooldowns' \subseteq addrCooldowns /\ dhtClosed' = TRUE /\ occupant' = occupant
    BY <1>8 DEF CloseDHT
  <2> QED
    BY <1>5, <2>1, AsideOK
<1>9. CASE UNCHANGED routingVars
  <2>1. /\ UNCHANGED <<file, routes, pingInProgress, tasks, answered>>
        /\ addrCooldowns' \subseteq addrCooldowns /\ dhtClosed' = dhtClosed /\ occupant' = occupant
    BY <1>9 DEF routingVars
  <2> QED
    BY <1>5, <2>1, AsideOK
<1> QED
  BY <1>1, <1>2, <1>3, <1>4, <1>6, <1>7, <1>8, <1>9 DEF RoutingNext

\* The invariant implies what the runs check of every state.
LEMMA InvShows ==
    ASSUME RoutingInv
    PROVE  RoutingTypeOK /\ RoutingConsistent
<1>1. /\ TableOK(table) /\ IndexOK(Contents(table), nodeAddrs, nodeIPs)
      /\ Rules(Contents(table), nodeIPs, answered)
  <2>1. RouteOK(<<table, nodeAddrs, nodeIPs>>, answered)
    BY DEF RoutingInv, RoutesOK
  <2> QED
    BY <2>1 DEF RouteOK
<1>2. All = Contents(table)
  BY DEF All, Contents
<1>3. RoutingTypeOK
  <2>1. \A b \in Buckets : table[b] \in Seq(Contacts) /\ Len(table[b]) <= BucketSize
    BY <1>1 DEF TableOK
  <2>2. DOMAIN nodeAddrs \subseteq Addresses /\ nodeIPs \in [IPs -> Nat]
    BY <1>1, IndexFacts DEF IndexOK
  <2>3. /\ pingInProgress \subseteq Buckets /\ answered \subseteq Nodes \X Addresses
        /\ Cardinality(addrCooldowns) <= MaxAddrChangeCooldowns /\ dhtClosed \in BOOLEAN
        /\ occupant \in [Addresses -> Nodes \cup {Nobody}]
    BY DEF RoutingInv, RestOK, CooldownsOK
  <2> QED
    BY <2>1, <2>2, <2>3 DEF RoutingTypeOK
<1>4. RoutingConsistent
  <2>1. \A b \in Buckets : DOMAIN table[b] = 1 .. Len(table[b])
    BY <1>1, BucketFacts
  <2>2. /\ \A b \in Buckets : \A i, j \in DOMAIN table[b] : i # j => table[b][i].id # table[b][j].id
        /\ \A b \in Buckets : \A i \in DOMAIN table[b] : BucketIndex[table[b][i].id] = b
    <3> SUFFICES ASSUME NEW b \in Buckets
                 PROVE  /\ \A i, j \in DOMAIN table[b] : i # j => table[b][i].id # table[b][j].id
                        /\ \A i \in DOMAIN table[b] : BucketIndex[table[b][i].id] = b
      OBVIOUS
    <3>1. /\ \A i, j \in 1 .. Len(table[b]) : i # j => table[b][i].id # table[b][j].id
          /\ \A i \in 1 .. Len(table[b]) : BucketIndex[table[b][i].id] = b
      BY <1>1 DEF TableOK
    <3>2. DOMAIN table[b] = 1 .. Len(table[b])
      BY <2>1
    <3> QED
      BY <3>1, <3>2
  <2>3. DOMAIN nodeAddrs = {c.at : c \in All} /\ \A c \in All : nodeAddrs[c.at] = c.id
    <3>1. \A c \in All : c.at \in DOMAIN nodeAddrs /\ nodeAddrs[c.at] = c.id
      BY <1>1, <1>2 DEF IndexOK
    <3>2. \A a \in DOMAIN nodeAddrs : \E c \in All : c.at = a
      BY <1>1, <1>2 DEF IndexOK
    <3> QED
      BY <3>1, <3>2
  <2>4. \A ip \in IPs : nodeIPs[ip] = Cardinality({c \in All : c.at.ip = ip})
    BY <1>1, <1>2 DEF IndexOK, OnIP
  <2>5. /\ \A ip \in IPs \ Loopback : nodeIPs[ip] <= 1
        /\ \A c, d \in All : /\ c.at.net = d.at.net /\ c.at.net \notin LocalNets
                             /\ BucketIndex[c.id] = BucketIndex[d.id]
                             => c = d
        /\ \A c \in All : c.seen # "never" => <<c.id, c.at>> \in answered
    BY <1>1, <1>2 DEF Rules
  <2> QED
    BY <2>2, <2>3, <2>4, <2>5 DEF RoutingConsistent
<1> QED
  BY <1>3, <1>4

\* The routing table's indexes agree with its buckets, its rules hold, and no
\* contact heard from recently is evicted unless another node answers at its
\* address, whatever probes, challenges, verifications, expiries and forged
\* queries run into each other (dht.go, addNodeSeen to repointNode).
THEOREM ContactsHold == RoutingSpec => ContactsKept
<1>1. RoutingInit => RoutingInv
  BY InitOK
<1>2. RoutingInv /\ [RoutingNext]_routingVars => RoutingInv'
  BY StepOK
<1>3. RoutingInv => RoutingTypeOK /\ RoutingConsistent
  BY InvShows
<1>4. RoutingInv /\ [RoutingNext]_routingVars
        => [\A c \in All : c.seen = "fresh" /\ ~ Held(table', c.id) =>
              \E id \in Nodes \ {c.id} : <<id, c.at>> \in answered']_routingVars
  <2> SUFFICES ASSUME RoutingInv, [RoutingNext]_routingVars
               PROVE  \A c \in All : c.seen = "fresh" /\ ~ Held(table', c.id) =>
                        \E id \in Nodes \ {c.id} : <<id, c.at>> \in answered'
    OBVIOUS
  <2>1. KeptFrom(table, table', answered')
    BY StepOK
  <2> QED
    BY <2>1 DEF KeptFrom, All, Contents
<1> QED
  BY <1>1, <1>2, <1>3, <1>4, PTL DEF RoutingSpec, ContactsKept, LiveContactsKept

----------------------------------------------------------------------------
(* Connections at the listener *)

Places == {"away", "accepted", "checked", "slotted", "reading", "read", "released", "named", "served", "gone"}

\* The arrivals at one of the places, of those in Q.
Standing(places, Q) == {c \in Q : arrival[c] \in places}
Handshaking == {"slotted", "reading", "read", "released"}
Reading == {"reading", "read"}
HasSource == {c \in Arrivals : BlocksOf[c] # {}}
OfBlock(b) == {c \in Arrivals : b \in BlocksOf[c]}
Allowed(b) == IF Half > ShareOf[b] THEN Half ELSE ShareOf[b]

\* The books, by those who are counted; no block is over what it is allowed.
HandshakeBook == handshakes \in 0 .. MaxHandshakes /\ handshakes = Cardinality(Standing(Handshaking, Arrivals))
EstablishedBook == established \in 0 .. MaxEstablished /\ established = Cardinality(Standing({"served"}, Arrivals))
SourceBook ==
    /\ sourced = Cardinality(Standing(Reading, HasSource))
    /\ sources \in [Blocks -> Nat]
    /\ \A b \in Blocks : /\ sources[b] = Cardinality(Standing(Reading, OfBlock(b)))
                         /\ sources[b] <= Allowed(b)
InboundInv == arrival \in [Arrivals -> Places] /\ HandshakeBook /\ EstablishedBook /\ SourceBook

\* A subset of the arrivals is finite, and what stands at some places is.
LEMMA StandingIsFinite ==
    ASSUME NEW Q \in SUBSET Arrivals, NEW places
    PROVE  IsFiniteSet(Standing(places, Q)) /\ Cardinality(Standing(places, Q)) \in Nat
<1>1. Standing(places, Q) \subseteq Arrivals /\ IsFiniteSet(Arrivals)
  BY InboundAssumption DEF InboundAssumption, Standing
<1> QED
  BY <1>1, FS_Subset, FS_CardinalityType

\* One arrival that moves into the places adds one to those there, and one
\* that leaves them takes one away; any other move changes nothing.
LEMMA MoveCounts ==
    ASSUME arrival \in [Arrivals -> Places], NEW c \in Arrivals, NEW place \in Places, Go(c, place),
           NEW Q \in SUBSET Arrivals, NEW places
    PROVE  LET before == Cardinality(Standing(places, Q))
               after == Cardinality(Standing(places, Q))'
           IN /\ c \in Q /\ place \in places /\ arrival[c] \notin places => after = before + 1
              /\ c \in Q /\ place \notin places /\ arrival[c] \in places => after = before - 1 /\ before >= 1
              /\ (c \notin Q \/ (place \in places <=> arrival[c] \in places)) => after = before
<1> DEFINE H == Standing(places, Q)
           J == Standing(places, Q)'
<1>1. \A x \in Arrivals : arrival'[x] = IF x = c THEN place ELSE arrival[x]
  BY DEF Go
<1>2. \A x : (x \in J <=> x \in Q /\ arrival'[x] \in places) /\ (x \in H <=> x \in Q /\ arrival[x] \in places)
  BY DEF Standing
<1>3. IsFiniteSet(H) /\ Cardinality(H) \in Nat
  BY StandingIsFinite
<1>4. Cardinality(Standing(places, Q))' = Cardinality(J)
  OBVIOUS
<1> HIDE DEF H, J
<1>5. ASSUME c \in Q, place \in places, arrival[c] \notin places PROVE Cardinality(J) = Cardinality(H) + 1
  <2>1. J = H \cup {c} /\ c \notin H
    BY <1>1, <1>2, <1>5
  <2> QED
    BY <1>3, <2>1, FS_AddElement
<1>6. ASSUME c \in Q, place \notin places, arrival[c] \in places
      PROVE  Cardinality(J) = Cardinality(H) - 1 /\ Cardinality(H) >= 1
  <2>1. J = H \ {c} /\ c \in H
    BY <1>1, <1>2, <1>6
  <2>2. Cardinality(J) = Cardinality(H) - 1
    BY <1>3, <2>1, FS_RemoveElement
  <2>3. Cardinality(H) # 0
    BY <1>3, <2>1, FS_EmptySet
  <2> QED
    BY <1>3, <2>2, <2>3
<1>7. ASSUME c \notin Q \/ (place \in places <=> arrival[c] \in places) PROVE J = H
  BY <1>1, <1>2, <1>7
<1> QED
  BY <1>4, <1>5, <1>6, <1>7 DEF H

\* The constants, and what the blocks are.
LEMMA InboundConstants ==
    /\ IsFiniteSet(Arrivals) /\ MaxHandshakes \in Nat /\ MaxEstablished \in Nat /\ Half \in Nat
    /\ \A b \in Blocks : /\ ShareOf[b] \in Nat /\ Allowed(b) \in Nat
                         /\ Half <= Allowed(b) /\ ShareOf[b] <= Allowed(b)
                         /\ OfBlock(b) \subseteq HasSource
    /\ HasSource \subseteq Arrivals
    /\ \A c \in Arrivals : BlocksOf[c] \subseteq Blocks
<1>1. IsFiniteSet(Arrivals) /\ MaxHandshakes \in Nat /\ MaxEstablished \in Nat
  BY InboundAssumption DEF InboundAssumption
<1>2. Half \in Nat
  BY <1>1 DEF Half
<1>3. \A c \in Arrivals : BlocksOf[c] \subseteq Blocks
  BY DEF Blocks
<1>4. ASSUME NEW b \in Blocks
      PROVE  ShareOf[b] \in Nat /\ Allowed(b) \in Nat /\ Half <= Allowed(b) /\ ShareOf[b] <= Allowed(b)
  <2>1. PICK c \in Arrivals : b \in BlocksOf[c]
    BY DEF Blocks
  <2>2. ShareOf[b] \in Nat
    BY <2>1, InboundAssumption DEF InboundAssumption
  <2> QED
    BY <1>2, <2>2 DEF Allowed
<1>5. \A b \in Blocks : OfBlock(b) \subseteq HasSource
  BY DEF OfBlock, HasSource
<1> QED
  BY <1>1, <1>2, <1>3, <1>4, <1>5 DEF HasSource

\* A move that stays in or out of the counted places leaves a book right.
LEMMA BooksStay ==
    ASSUME InboundInv, NEW c \in Arrivals, NEW place \in Places, Go(c, place)
    PROVE  /\ arrival' \in [Arrivals -> Places]
           /\ UNCHANGED handshakes /\ (place \in Handshaking <=> arrival[c] \in Handshaking) => HandshakeBook'
           /\ UNCHANGED established /\ (place = "served" <=> arrival[c] = "served") => EstablishedBook'
           /\ /\ UNCHANGED <<sourced, sources>>
              /\ BlocksOf[c] = {} \/ (place \in Reading <=> arrival[c] \in Reading)
              => SourceBook'
<1>1. arrival \in [Arrivals -> Places] /\ arrival' \in [Arrivals -> Places]
  BY DEF InboundInv, Go
<1>2. ASSUME UNCHANGED handshakes, place \in Handshaking <=> arrival[c] \in Handshaking PROVE HandshakeBook'
  <2>1. Cardinality(Standing(Handshaking, Arrivals))' = Cardinality(Standing(Handshaking, Arrivals))
    BY <1>1, <1>2, MoveCounts
  <2> QED
    BY <1>2, <2>1 DEF InboundInv, HandshakeBook
<1>3. ASSUME UNCHANGED established, place = "served" <=> arrival[c] = "served" PROVE EstablishedBook'
  <2>1. Cardinality(Standing({"served"}, Arrivals))' = Cardinality(Standing({"served"}, Arrivals))
    BY <1>1, <1>3, MoveCounts
  <2> QED
    BY <1>3, <2>1 DEF InboundInv, EstablishedBook
<1>4. ASSUME UNCHANGED <<sourced, sources>>, BlocksOf[c] = {} \/ (place \in Reading <=> arrival[c] \in Reading)
      PROVE  SourceBook'
  <2>1. Cardinality(Standing(Reading, HasSource))' = Cardinality(Standing(Reading, HasSource))
    <3>1. c \notin HasSource \/ (place \in Reading <=> arrival[c] \in Reading)
      BY <1>4 DEF HasSource
    <3>2. HasSource \in SUBSET Arrivals
      BY DEF HasSource
    <3> QED
      BY <1>1, <3>1, <3>2, MoveCounts
  <2>2. ASSUME NEW b \in Blocks
        PROVE  Cardinality(Standing(Reading, OfBlock(b)))' = Cardinality(Standing(Reading, OfBlock(b)))
    <3>1. c \notin OfBlock(b) \/ (place \in Reading <=> arrival[c] \in Reading)
      BY <1>4 DEF OfBlock
    <3>2. OfBlock(b) \in SUBSET Arrivals
      BY DEF OfBlock
    <3> QED
      BY <1>1, <3>1, <3>2, MoveCounts
  <2> QED
    BY <1>4, <2>1, <2>2 DEF InboundInv, SourceBook
<1> QED
  BY <1>1, <1>2, <1>3, <1>4

\* The handshake slot: one more in flight, or one less.
LEMMA HandshakeMoves ==
    ASSUME InboundInv, NEW c \in Arrivals, NEW place \in Places, Go(c, place)
    PROVE  /\ /\ place \in Handshaking /\ arrival[c] \notin Handshaking
              /\ handshakes < MaxHandshakes /\ handshakes' = handshakes + 1
              => HandshakeBook'
           /\ place \notin Handshaking /\ arrival[c] \in Handshaking /\ handshakes' = handshakes - 1
              => HandshakeBook'
<1> DEFINE n == Cardinality(Standing(Handshaking, Arrivals))
           m == Cardinality(Standing(Handshaking, Arrivals))'
<1>1. /\ place \in Handshaking /\ arrival[c] \notin Handshaking => m = n + 1
      /\ place \notin Handshaking /\ arrival[c] \in Handshaking => m = n - 1 /\ n >= 1
  BY MoveCounts DEF InboundInv
<1>2. handshakes = n /\ handshakes \in 0 .. MaxHandshakes /\ MaxHandshakes \in Nat
  BY InboundConstants DEF InboundInv, HandshakeBook
<1>3. HandshakeBook' <=> handshakes' \in 0 .. MaxHandshakes /\ handshakes' = m
  BY DEF HandshakeBook
<1> HIDE DEF n, m
<1> QED
  BY <1>1, <1>2, <1>3

\* The same of the slot of an established connection.
LEMMA EstablishedMoves ==
    ASSUME InboundInv, NEW c \in Arrivals, NEW place \in Places, Go(c, place)
    PROVE  /\ /\ place = "served" /\ arrival[c] # "served"
              /\ established < MaxEstablished /\ established' = established + 1
              => EstablishedBook'
           /\ place # "served" /\ arrival[c] = "served" /\ established' = established - 1
              => EstablishedBook'
<1> DEFINE n == Cardinality(Standing({"served"}, Arrivals))
           m == Cardinality(Standing({"served"}, Arrivals))'
<1>1. /\ place = "served" /\ arrival[c] # "served" => m = n + 1
      /\ place # "served" /\ arrival[c] = "served" => m = n - 1 /\ n >= 1
  BY MoveCounts DEF InboundInv
<1>2. established = n /\ established \in 0 .. MaxEstablished /\ MaxEstablished \in Nat
  BY InboundConstants DEF InboundInv, EstablishedBook
<1>3. EstablishedBook' <=> established' \in 0 .. MaxEstablished /\ established' = m
  BY DEF EstablishedBook
<1> HIDE DEF n, m
<1> QED
  BY <1>1, <1>2, <1>3

\* A source that is admitted: below half the budget no block can be over half,
\* for each counts only some of the handshakes; past it each is below its share.
LEMMA SourceIsAdmitted ==
    ASSUME InboundInv, NEW c \in Arrivals, arrival[c] = "slotted", Go(c, "reading"),
           BlocksOf[c] # {}, Admits(c), sourced' = sourced + 1,
           sources' = Counted(BlocksOf[c], [b \in Blocks |-> sources[b] + 1])
    PROVE  SourceBook'
<1>1. /\ sourced = Cardinality(Standing(Reading, HasSource)) /\ sourced \in Nat
      /\ arrival \in [Arrivals -> Places]
  BY InboundConstants, StandingIsFinite DEF InboundInv, SourceBook
<1>2. Cardinality(Standing(Reading, HasSource))' = sourced + 1
  BY <1>1, InboundConstants, MoveCounts DEF HasSource, Reading, Places
<1>3. sources' = [b \in Blocks |-> IF b \in BlocksOf[c] THEN sources[b] + 1 ELSE sources[b]]
  BY DEF Counted
<1>4. ASSUME NEW b \in Blocks
      PROVE  /\ sources'[b] \in Nat /\ sources'[b] = Cardinality(Standing(Reading, OfBlock(b)))'
             /\ sources'[b] <= Allowed(b)
  <2>1. OfBlock(b) \in SUBSET Arrivals /\ (c \in OfBlock(b) <=> b \in BlocksOf[c])
    BY DEF OfBlock
  <2>2. /\ sources[b] \in Nat /\ sources[b] = Cardinality(Standing(Reading, OfBlock(b)))
        /\ sources[b] <= Allowed(b)
    BY DEF InboundInv, SourceBook
  <2>3. CASE b \notin BlocksOf[c]
    <3>1. Cardinality(Standing(Reading, OfBlock(b)))' = sources[b]
      BY <1>1, <2>1, <2>2, <2>3, MoveCounts DEF Places
    <3> QED
      BY <1>3, <2>2, <2>3, <3>1
  <2>4. CASE b \in BlocksOf[c]
    <3>1. Cardinality(Standing(Reading, OfBlock(b)))' = sources[b] + 1
      BY <1>1, <2>1, <2>2, <2>4, MoveCounts DEF Reading, Places
    <3>2. sources[b] <= sourced
      <4>1. Standing(Reading, OfBlock(b)) \subseteq Standing(Reading, HasSource)
        BY InboundConstants DEF Standing
      <4>2. IsFiniteSet(Standing(Reading, HasSource))
        BY InboundConstants, StandingIsFinite
      <4> QED
        BY <1>1, <2>2, <4>1, <4>2, FS_Subset
    <3>3. sourced >= Half => sources[b] < ShareOf[b]
      BY <2>4 DEF Admits
    <3>4. sources[b] + 1 <= Allowed(b)
      BY <1>1, <2>2, <3>2, <3>3, InboundConstants
    <3> QED
      BY <1>3, <2>2, <2>4, <3>1, <3>4
  <2> QED
    BY <2>3, <2>4
<1> QED
  BY <1>2, <1>3, <1>4 DEF SourceBook

\* A source that is released takes one from each of its blocks.
LEMMA SourceIsReleased ==
    ASSUME InboundInv, NEW c \in Arrivals, arrival[c] = "read", Go(c, "released"),
           BlocksOf[c] # {}, sourced' = sourced - 1, sources' = Uncounted(c)
    PROVE  SourceBook'
<1>1. /\ sourced = Cardinality(Standing(Reading, HasSource)) /\ arrival \in [Arrivals -> Places]
  BY DEF InboundInv, SourceBook
<1>2. Cardinality(Standing(Reading, HasSource))' = sourced - 1
  BY <1>1, InboundConstants, MoveCounts DEF HasSource, Reading, Places
<1>3. sources' = [b \in Blocks |-> IF b \in BlocksOf[c] THEN IF sources[b] > 1 THEN sources[b] - 1 ELSE 0
                                   ELSE sources[b]]
  BY DEF Counted, Uncounted
<1>4. ASSUME NEW b \in Blocks
      PROVE  /\ sources'[b] \in Nat /\ sources'[b] = Cardinality(Standing(Reading, OfBlock(b)))'
             /\ sources'[b] <= Allowed(b)
  <2>1. OfBlock(b) \in SUBSET Arrivals /\ (c \in OfBlock(b) <=> b \in BlocksOf[c])
    BY DEF OfBlock
  <2>2. /\ sources[b] \in Nat /\ sources[b] = Cardinality(Standing(Reading, OfBlock(b)))
        /\ sources[b] <= Allowed(b) /\ Allowed(b) \in Nat
    BY InboundConstants DEF InboundInv, SourceBook
  <2>3. CASE b \notin BlocksOf[c]
    <3>1. Cardinality(Standing(Reading, OfBlock(b)))' = sources[b]
      BY <1>1, <2>1, <2>2, <2>3, MoveCounts DEF Places
    <3> QED
      BY <1>3, <2>2, <2>3, <3>1
  <2>4. CASE b \in BlocksOf[c]
    <3>1. Cardinality(Standing(Reading, OfBlock(b)))' = sources[b] - 1 /\ sources[b] >= 1
      BY <1>1, <2>1, <2>2, <2>4, MoveCounts DEF Reading, Places
    <3>2. sources'[b] = sources[b] - 1
      BY <1>3, <2>2, <2>4, <3>1
    <3> QED
      BY <2>2, <3>1, <3>2
  <2> QED
    BY <2>3, <2>4
<1> QED
  BY <1>2, <1>3, <1>4 DEF SourceBook

\* At first nothing is counted.
LEMMA InboundInitInv == InboundInit => InboundInv
<1> SUFFICES ASSUME InboundInit PROVE InboundInv
  OBVIOUS
<1>1. /\ arrival = [c \in Arrivals |-> "away"] /\ handshakes = 0 /\ established = 0 /\ sourced = 0
      /\ sources = [b \in Blocks |-> 0]
  BY DEF InboundInit
<1>2. ASSUME NEW Q \in SUBSET Arrivals, NEW places, "away" \notin places
      PROVE  Cardinality(Standing(places, Q)) = 0
  <2>1. Standing(places, Q) = {}
    BY <1>1, <1>2 DEF Standing
  <2> QED
    BY <2>1, FS_EmptySet
<1>3. HandshakeBook /\ EstablishedBook
  BY <1>1, <1>2, InboundConstants DEF HandshakeBook, EstablishedBook, Handshaking
<1>4. SourceBook
  <2>1. Cardinality(Standing(Reading, HasSource)) = 0
    BY <1>2, InboundConstants DEF Reading
  <2>2. ASSUME NEW b \in Blocks PROVE Cardinality(Standing(Reading, OfBlock(b))) = 0
    BY <1>2 DEF OfBlock, Reading
  <2> QED
    BY <1>1, <2>1, <2>2, InboundConstants DEF SourceBook
<1> QED
  BY <1>1, <1>3, <1>4 DEF InboundInv, Places

\* A connection up to its handshake slot.
LEMMA ArrivalSteps ==
    ASSUME InboundInv, NEW c \in Arrivals, acceptLoop(c) \/ TurnedAwayWhenFull(c) \/ TakeHandshakeSlot(c)
    PROVE  InboundInv'
<1>1. CASE acceptLoop(c) \/ TurnedAwayWhenFull(c)
  <2>1. PICK place \in {"accepted", "checked", "gone"} : Go(c, place)
    BY <1>1 DEF acceptLoop, TurnedAwayWhenFull
  <2>2. arrival[c] \in {"away", "accepted"} /\ UNCHANGED <<handshakes, established, sourced, sources>>
    BY <1>1 DEF acceptLoop, TurnedAwayWhenFull
  <2> QED
    BY <2>1, <2>2, BooksStay DEF InboundInv, Places, Handshaking, Reading
<1>2. CASE TakeHandshakeSlot(c)
  <2>1. arrival[c] = "checked" /\ UNCHANGED <<established, sourced, sources>>
    BY <1>2 DEF TakeHandshakeSlot
  <2>2. CASE handshakes < MaxHandshakes
    <3>1. Go(c, "slotted") /\ handshakes' = handshakes + 1
      BY <1>2, <2>2 DEF TakeHandshakeSlot
    <3> QED
      BY <2>1, <2>2, <3>1, BooksStay, HandshakeMoves DEF InboundInv, Places, Handshaking, Reading
  <2>3. CASE ~(handshakes < MaxHandshakes)
    <3>1. Go(c, "gone") /\ UNCHANGED handshakes
      BY <1>2, <2>3 DEF TakeHandshakeSlot
    <3> QED
      BY <2>1, <3>1, BooksStay DEF InboundInv, Places, Handshaking, Reading
  <2> QED
    BY <2>2, <2>3
<1> QED
  BY <1>1, <1>2

\* Its source is counted, or it is not admitted and gives its slot back.
LEMMA AdmitStep ==
    ASSUME InboundInv, NEW c \in Arrivals, admitHandshakeSource(c)
    PROVE  InboundInv'
<1>1. arrival[c] = "slotted" /\ UNCHANGED established
  BY DEF admitHandshakeSource
<1>2. CASE BlocksOf[c] = {}
  <2>1. Go(c, "reading") /\ UNCHANGED <<handshakes, sourced, sources>>
    BY <1>2 DEF admitHandshakeSource
  <2> QED
    BY <1>1, <1>2, <2>1, BooksStay DEF InboundInv, Places, Handshaking
<1>3. CASE BlocksOf[c] # {} /\ Admits(c)
  <2>1. /\ Go(c, "reading") /\ sourced' = sourced + 1 /\ UNCHANGED handshakes
        /\ sources' = Counted(BlocksOf[c], [b \in Blocks |-> sources[b] + 1])
    BY <1>3 DEF admitHandshakeSource
  <2> QED
    BY <1>1, <1>3, <2>1, BooksStay, SourceIsAdmitted DEF InboundInv, Places, Handshaking
<1>4. CASE BlocksOf[c] # {} /\ ~Admits(c)
  <2>1. Go(c, "gone") /\ handshakes' = handshakes - 1 /\ UNCHANGED <<sourced, sources>>
    BY <1>4 DEF admitHandshakeSource
  <2> QED
    BY <1>1, <2>1, BooksStay, HandshakeMoves DEF InboundInv, Places, Handshaking, Reading
<1> QED
  BY <1>2, <1>3, <1>4

\* Its handshake is read, and its source and its slot are given back.
LEMMA HandshakeSteps ==
    ASSUME InboundInv, NEW c \in Arrivals,
           readRoutedHandshake(c) \/ releaseHandshakeSource(c) \/ ReleaseHandshakeSlot(c)
    PROVE  InboundInv'
<1>1. CASE readRoutedHandshake(c)
  <2>1. /\ arrival[c] = "reading" /\ Go(c, "read")
        /\ UNCHANGED <<handshakes, established, sourced, sources>>
    BY <1>1 DEF readRoutedHandshake
  <2> QED
    BY <2>1, BooksStay DEF InboundInv, Places, Handshaking, Reading
<1>2. CASE releaseHandshakeSource(c)
  <2>1. arrival[c] = "read" /\ Go(c, "released") /\ UNCHANGED <<handshakes, established>>
    BY <1>2 DEF releaseHandshakeSource
  <2>2. arrival' \in [Arrivals -> Places] /\ HandshakeBook' /\ EstablishedBook'
    BY <2>1, BooksStay DEF Places, Handshaking
  <2>3. SourceBook'
    <3>1. CASE BlocksOf[c] = {}
      <4>1. UNCHANGED <<sourced, sources>>
        BY <1>2, <3>1 DEF releaseHandshakeSource
      <4> QED
        BY <2>1, <3>1, <4>1, BooksStay DEF Places
    <3>2. CASE BlocksOf[c] # {}
      <4>1. sourced' = sourced - 1 /\ sources' = Uncounted(c)
        BY <1>2, <3>2 DEF releaseHandshakeSource
      <4> QED
        BY <2>1, <3>2, <4>1, SourceIsReleased
    <3> QED
      BY <3>1, <3>2
  <2> QED
    BY <2>2, <2>3 DEF InboundInv
<1>3. CASE ReleaseHandshakeSlot(c)
  <2>1. PICK place \in {"gone", "named"} : Go(c, place)
    BY <1>3 DEF ReleaseHandshakeSlot
  <2>2. /\ arrival[c] = "released" /\ handshakes' = handshakes - 1
        /\ UNCHANGED <<established, sourced, sources>>
    BY <1>3 DEF ReleaseHandshakeSlot
  <2> QED
    BY <2>1, <2>2, BooksStay, HandshakeMoves DEF InboundInv, Places, Handshaking, Reading
<1> QED
  BY <1>1, <1>2, <1>3

\* The slot of an established connection, for as long as its session serves it.
LEMMA ServedSteps ==
    ASSUME InboundInv, NEW c \in Arrivals, TakeEstablishedSlot(c) \/ Leave(c)
    PROVE  InboundInv'
<1>1. CASE TakeEstablishedSlot(c)
  <2>1. arrival[c] = "named" /\ UNCHANGED <<handshakes, sourced, sources>>
    BY <1>1 DEF TakeEstablishedSlot
  <2>2. CASE established < MaxEstablished
    <3>1. Go(c, "served") /\ established' = established + 1
      BY <1>1, <2>2 DEF TakeEstablishedSlot
    <3> QED
      BY <2>1, <2>2, <3>1, BooksStay, EstablishedMoves DEF InboundInv, Places, Handshaking, Reading
  <2>3. CASE ~(established < MaxEstablished)
    <3>1. Go(c, "gone") /\ UNCHANGED established
      BY <1>1, <2>3 DEF TakeEstablishedSlot
    <3> QED
      BY <2>1, <3>1, BooksStay DEF InboundInv, Places, Handshaking, Reading
  <2> QED
    BY <2>2, <2>3
<1>2. CASE Leave(c)
  <2>1. /\ arrival[c] = "served" /\ Go(c, "gone") /\ established' = established - 1
        /\ UNCHANGED <<handshakes, sourced, sources>>
    BY <1>2 DEF Leave
  <2> QED
    BY <2>1, BooksStay, EstablishedMoves DEF InboundInv, Places, Handshaking, Reading
<1> QED
  BY <1>1, <1>2

\* Every step keeps the books.
LEMMA InboundNextInv == InboundInv /\ [InboundNext]_inboundVars => InboundInv'
<1> SUFFICES ASSUME InboundInv, [InboundNext]_inboundVars PROVE InboundInv'
  OBVIOUS
<1>1. ASSUME NEW c \in Arrivals,
             \/ acceptLoop(c) \/ TurnedAwayWhenFull(c) \/ TakeHandshakeSlot(c)
             \/ admitHandshakeSource(c) \/ readRoutedHandshake(c)
             \/ releaseHandshakeSource(c) \/ ReleaseHandshakeSlot(c)
             \/ TakeEstablishedSlot(c) \/ Leave(c)
      PROVE  InboundInv'
  BY <1>1, ArrivalSteps, AdmitStep, HandshakeSteps, ServedSteps
<1>2. CASE (\E t \in Torrents : RemoveTorrent(t)) \/ CloseManager \/ UNCHANGED inboundVars
  <2>1. UNCHANGED <<arrival, handshakes, established, sourced, sources>>
    BY <1>2 DEF RemoveTorrent, CloseManager, inboundVars
  <2>2. \A Q, places : Cardinality(Standing(places, Q))' = Cardinality(Standing(places, Q))
    BY <2>1 DEF Standing
  <2> QED
    BY <2>1, <2>2 DEF InboundInv, HandshakeBook, EstablishedBook, SourceBook
<1> QED
  BY <1>1, <1>2 DEF InboundNext

\* The books say what the property does.
LEMMA BooksAreShared == InboundInv => HandshakesAreShared
<1> SUFFICES ASSUME InboundInv PROVE HandshakesAreShared
  OBVIOUS
<1>1. /\ Among(Handshaking) = Standing(Handshaking, Arrivals) /\ Among({"served"}) = Standing({"served"}, Arrivals)
      /\ {c \in Among(Reading) : BlocksOf[c] # {}} = Standing(Reading, HasSource)
  BY DEF Among, Standing, HasSource
<1>2. \A b \in Blocks : CountedIn(b) = Standing(Reading, OfBlock(b))
  BY DEF CountedIn, Among, Standing, OfBlock, Reading
<1>3. InboundTypeOK
  BY DEF InboundInv, HandshakeBook, EstablishedBook, InboundTypeOK, Places
<1>4. HandshakesAreCounted
  BY <1>1, <1>2 DEF InboundInv, HandshakeBook, EstablishedBook, SourceBook, HandshakesAreCounted,
    Handshaking, Reading
<1>5. NoSourceTakesAll
  BY <1>2 DEF InboundInv, SourceBook, NoSourceTakesAll, Allowed
<1> QED
  BY <1>3, <1>4, <1>5 DEF HandshakesAreShared

\* Whoever connects, in whatever numbers and order: each handshake in flight
\* holds one slot, each block counts exactly its own, and no host or network
\* ever holds more than half the budget, or its share if that is larger
\* (admitHandshakeSource and releaseHandshakeSource of listener.go).
THEOREM HandshakesShared == InboundSpec => []HandshakesAreShared
<1>1. InboundSpec => []InboundInv
  BY InboundInitInv, InboundNextInv, PTL DEF InboundSpec
<1> QED
  BY <1>1, BooksAreShared, PTL

----------------------------------------------------------------------------
(* The listener's port *)

TheirPorts == External \cup {None}
ListenerPorts == TheirPorts \cup {Listen}
NatPhases == {"off", "discover", "retry", "ask", "publish", "advertise", "idle", "fail", "cleanup", "done"}

SessionStates == [in : BOOLEAN, started : BOOLEAN, shared : BOOLEAN, port : ListenerPorts,
                  pending : BOOLEAN, announced : ListenerPorts]
SessTyped == sess \in [Sessions -> SessionStates]
TellingTyped == /\ advertised \in ListenerPorts
                /\ telling \in [port : ListenerPorts, left : SUBSET Sessions]
NatStates == [at : NatPhases, kind : {"", "upnp", "pmp"}, tcp : TheirPorts, udp : TheirPorts,
              udpPort : BOOLEAN, proto : Protos, try : Nat, udpMapped : BOOLEAN, deleting : SUBSET Protos]
NatTyped == nat \in NatStates
GatewayTyped == gateway \in [mappings : SUBSET [proto : Protos, port : External], permanent : BOOLEAN]
PlanTyped == portPlan \in Bounds

PortTyped ==
    /\ closed \in BOOLEAN /\ listener \in BOOLEAN /\ utp \in {"none", "refusing", "accepting"}
    /\ SessTyped /\ TellingTyped
    /\ mapped \subseteq Protos /\ NatTyped /\ GatewayTyped /\ PlanTyped

\* Before the NAT loop runs nobody is being told, and it runs beside a listener.
LoopFollowsListener ==
    /\ nat.at = "off" /\ ~closed => /\ mapped = {} /\ telling.left = {}
                                    /\ listener => advertised = Listen
    /\ nat.at # "off" => listener \/ closed

\* Whoever has not been told yet will be, and will be told the port there is;
\* a session that has announced has announced the port it has.
EverybodyIsTold ==
    /\ ~closed /\ telling.left # {} => telling.port = advertised
    /\ \A s \in Managed :
          /\ sess[s].shared /\ ~closed /\ s \notin telling.left => sess[s].port = advertised
          /\ sess[s].started /\ ~sess[s].pending => sess[s].announced = sess[s].port

UTPMakesWay == (utp = "refusing" => listener) /\ (utp = "accepting" => ~listener)

\* The external TCP port is known, and the gateway maps it or has forgotten it.
TCPIsMapped == /\ nat.tcp # None
               /\ MappingOf("tcp", nat.tcp) \in gateway.mappings \cup lostByReboot

\* What each place of the loop knows.
LoopKnows ==
    /\ nat.at \in {"publish", "advertise", "idle"} \/ (nat.at = "ask" /\ nat.proto = "udp") => TCPIsMapped
    /\ nat.at \in {"advertise", "idle"} => "tcp" \in mapped
    /\ nat.at = "idle" /\ ~closed => advertised = nat.tcp
    /\ nat.at \in {"discover", "retry", "cleanup"} /\ ~closed => advertised = Listen /\ mapped = {}
    /\ nat.at \in {"off", "discover", "retry", "done"} => nat.tcp = None /\ nat.udp = None

\* The mappings still in the loop's hands.
InHand == {MappingOf(p, Known(p)) : p \in IF nat.at = "cleanup" THEN nat.deleting ELSE Protos}
EveryMappingIsBooked == gateway.mappings \subseteq undeleted \cup astray \cup InHand

PortInv ==
    /\ PortTyped
    /\ LoopFollowsListener
    /\ EverybodyIsTold
    /\ UTPMakesWay
    /\ LoopKnows
    /\ EveryMappingIsBooked

LEMMA PortInvImplies == PortInv => PortsAreTrue
<1> SUFFICES ASSUME PortInv PROVE PortsAreTrue
    OBVIOUS
<1>1. PortTypeOK
    BY DEF PortInv, PortTyped, TellingTyped, NatTyped, NatStates, GatewayTyped, PortTypeOK, ListenerPorts, TheirPorts, NatPhases
<1>2. PeersAreToldThePort
    BY DEF PortInv, EverybodyIsTold, UTPMakesWay, PeersAreToldThePort
<1>3. AdvertisedIsMapped
    BY DEF PortInv, LoopKnows, TCPIsMapped, AdvertisedIsMapped
<1>4. MappingsAreReleased
  <2> SUFFICES ASSUME nat.at = "done", NEW x \in gateway.mappings
               PROVE x \in undeleted \cup astray
    BY DEF MappingsAreReleased
  <2>1. x.port # None
    BY PortAssumption DEF PortInv, PortTyped, GatewayTyped
  <2>2. x \notin InHand
    BY <2>1 DEF PortInv, LoopKnows, InHand, MappingOf, Known, Protos
  <2> QED
    BY <2>2 DEF PortInv, EveryMappingIsBooked
<1> QED
    BY <1>1, <1>2, <1>3, <1>4 DEF PortsAreTrue

LEMMA PortInitInv == PortInit => PortInv
<1> SUFFICES ASSUME PortInit PROVE PortInv
    OBVIOUS
<1>1. PortTyped
  <2>1. SessTyped /\ TellingTyped
    BY DEF PortInit, SessTyped, SessionStates, TellingTyped, Absent, ListenerPorts, TheirPorts
  <2>2. NatTyped
    BY DEF PortInit, NatTyped, NatStates, OffNAT, TheirPorts, NatPhases, Protos
  <2>3. GatewayTyped /\ PlanTyped
    BY PortAssumption DEF PortInit, GatewayTyped, PlanTyped
  <2> QED
    BY <2>1, <2>2, <2>3 DEF PortInit, PortTyped
<1>2. LoopFollowsListener /\ EverybodyIsTold /\ UTPMakesWay
    BY DEF PortInit, LoopFollowsListener, EverybodyIsTold, UTPMakesWay, Managed, Absent, OffNAT
<1>3. LoopKnows /\ EveryMappingIsBooked
    BY DEF PortInit, LoopKnows, EveryMappingIsBooked, OffNAT
<1> QED
    BY <1>1, <1>2, <1>3 DEF PortInv

\* What the manager and its sessions do, and what the NAT loop and the gateway do.
OurStep == \/ StartPeerListener \/ StartDHT \/ Close \/ CloseSessions
           \/ \E s \in Sessions : AddSession(s) \/ StartSession(s) \/ AnnouncePort(s) \/ Tell(s)
LoopStep == \/ StartNATTraversal \/ Discover \/ Retry \/ Grant \/ Refuse \/ LoseAnswer \/ Cancelled
            \/ Publish \/ Renew \/ Stop \/ CleanedUp \/ Reboot
            \/ \E p \in Protos : Delete(p)

LEMMA OurStepLeaves == OurStep => UNCHANGED theirs
BY DEF OurStep, StartPeerListener, StartDHT, Close, CloseSessions, AddSession, StartSession, AnnouncePort, Tell

LEMMA LoopStepLeaves == LoopStep => UNCHANGED ours
BY DEF LoopStep, StartNATTraversal, Discover, Retry, Grant, Refuse, LoseAnswer, Cancelled, Publish, Renew,
       Stop, CleanedUp, Reboot, Delete

LEMMA PortSteps ==
    [PortNext]_portVars => OurStep \/ LoopStep \/ Advertise \/ Fail \/ UNCHANGED portVars
BY DEF PortNext, OurStep, LoopStep

LEMMA SessTypedStep ==
    listener \in BOOLEAN /\ SessTyped /\ TellingTyped /\ [PortNext]_portVars => SessTyped'
<1> SUFFICES ASSUME listener \in BOOLEAN, SessTyped, TellingTyped, [PortNext]_portVars
             PROVE SessTyped'
    OBVIOUS
<1> USE DEF ListenerPorts
<1>a. ASSUME NEW s \in Sessions PROVE sess[s] \in SessionStates
    BY DEF SessTyped
<1>1. CASE StartPeerListener
    BY <1>1 DEF StartPeerListener, SessTyped, SessionStates
<1>2. CASE StartDHT \/ Close
    BY <1>2 DEF StartDHT, Close, SessTyped
<1>3. CASE CloseSessions
    BY <1>3 DEF CloseSessions, Absent, SessTyped, SessionStates, TheirPorts
<1>4. ASSUME NEW s \in Sessions, AddSession(s) PROVE SessTyped'
  <2>1. [Absent EXCEPT !.in = TRUE, !.shared = listener,
                       !.port = IF listener THEN advertised ELSE None] \in SessionStates
    BY DEF Absent, SessionStates, TellingTyped, TheirPorts
  <2> QED
    BY <1>4, <2>1 DEF AddSession, SessTyped
<1>5. ASSUME NEW s \in Sessions, StartSession(s) PROVE SessTyped'
  <2>1. [sess[s] EXCEPT !.started = TRUE, !.pending = TRUE] \in SessionStates
    BY <1>a DEF SessionStates
  <2> QED
    BY <1>5, <2>1 DEF StartSession, SessTyped
<1>6. ASSUME NEW s \in Sessions, AnnouncePort(s) PROVE SessTyped'
  <2>1. [sess[s] EXCEPT !.pending = FALSE, !.announced = sess[s].port] \in SessionStates
    BY <1>a DEF SessionStates
  <2> QED
    BY <1>6, <2>1 DEF AnnouncePort, SessTyped
<1>7. ASSUME NEW s \in Sessions, Tell(s) PROVE SessTyped'
  <2>1. withAdvertisedPort(s, telling.port) \in SessionStates
    BY <1>a DEF withAdvertisedPort, SessionStates, TellingTyped
  <2> QED
    BY <1>7, <1>a, <2>1 DEF Tell, SessTyped
<1>8. CASE LoopStep
    BY <1>8, LoopStepLeaves DEF SessTyped, ours
<1>9. CASE Advertise \/ Fail \/ UNCHANGED portVars
    BY <1>9 DEF Advertise, Fail, portVars, ours, SessTyped
<1> QED
    BY <1>1, <1>2, <1>3, <1>4, <1>5, <1>6, <1>7, <1>8, <1>9, PortSteps DEF OurStep

LEMMA SetAdvertisedTyped ==
    ASSUME TellingTyped, NEW port \in ListenerPorts, setAdvertisedPeerPort(port)
    PROVE  TellingTyped'
BY DEF TellingTyped, setAdvertisedPeerPort, Managed

LEMMA TellingTypedStep ==
    TellingTyped /\ NatTyped /\ [PortNext]_portVars => TellingTyped'
<1> SUFFICES ASSUME TellingTyped, NatTyped, [PortNext]_portVars
             PROVE TellingTyped'
    OBVIOUS
<1> USE DEF ListenerPorts
<1>1. CASE StartPeerListener
    BY <1>1 DEF StartPeerListener, TellingTyped
<1>2. ASSUME NEW s \in Sessions, Tell(s) PROVE TellingTyped'
    BY <1>2 DEF Tell, TellingTyped
<1>3. CASE OurStep /\ UNCHANGED <<advertised, telling>>
    BY <1>3 DEF TellingTyped
<1>4. CASE Advertise
  <2>1. nat.tcp \in ListenerPorts
    BY DEF NatTyped, NatStates
  <2> QED
    BY <1>4, <2>1, SetAdvertisedTyped DEF Advertise
<1>5. CASE Fail
    BY <1>5, SetAdvertisedTyped DEF Fail, fallBack
<1>6. CASE LoopStep \/ UNCHANGED portVars
    BY <1>6, LoopStepLeaves DEF ours, portVars, TellingTyped
<1>7. OurStep => \/ StartPeerListener \/ \E s \in Sessions : Tell(s)
                 \/ UNCHANGED <<advertised, telling>>
    BY DEF OurStep, StartDHT, Close, CloseSessions, AddSession, StartSession, AnnouncePort
<1> QED
    BY <1>1, <1>2, <1>3, <1>4, <1>5, <1>6, <1>7, PortSteps

LEMMA PlanTypedStep == PlanTyped /\ [PortNext]_portVars => PlanTyped'
<1> SUFFICES ASSUME PlanTyped, [PortNext]_portVars
             PROVE PlanTyped'
    OBVIOUS
<1>1. ASSUME NEW kind \in {"renew", "refuse", "lose", "reboot", "keep"}, Spend(kind)
      PROVE PlanTyped'
    BY <1>1 DEF Spend, PlanTyped, Bounds
<1>2. CASE UNCHANGED portPlan
    BY <1>2 DEF PlanTyped
<1>3. \/ UNCHANGED portPlan
      \/ Spend("renew") \/ Spend("refuse") \/ Spend("lose") \/ Spend("reboot") \/ Spend("keep")
  <2>1. CASE LoopStep
      BY <2>1 DEF LoopStep, StartNATTraversal, Discover, Retry, Grant, Refuse, LoseAnswer, Cancelled, Publish,
                  Renew, Stop, CleanedUp, Reboot, Delete
  <2>2. CASE OurStep
      BY <2>2, OurStepLeaves DEF theirs
  <2>3. CASE Advertise \/ Fail \/ UNCHANGED portVars
      BY <2>3 DEF Advertise, Fail, portVars, theirs
  <2> QED
      BY <2>1, <2>2, <2>3, PortSteps
<1> QED
    BY <1>1, <1>2, <1>3

LEMMA TriesTyped ==
    ASSUME NatTyped, NEW proto \in Protos
    PROVE  Failed(proto) \in NatStates /\ AfterTry(proto) \in NatStates
<1>1. Failed(proto) \in NatStates
    BY DEF Failed, NatTyped, NatStates, NatPhases
<1>2. [nat EXCEPT !.try = @ + 1] \in NatStates
  <2>1. nat.try \in Nat
    BY DEF NatTyped, NatStates
  <2>2. nat.try + 1 \in Nat
    BY <2>1
  <2> QED
    BY <2>2 DEF NatTyped, NatStates
<1> QED
    BY <1>1, <1>2 DEF AfterTry

LEMMA GrantedTyped ==
    ASSUME NatTyped, NEW proto \in Protos, NEW port \in TheirPorts
    PROVE  Granted(proto, port) \in NatStates
<1>1. CASE proto = "tcp"
    BY <1>1 DEF Granted, NatTyped, NatStates, NatPhases, Protos
<1>2. CASE proto = "udp"
    BY <1>2 DEF Granted, NatTyped, NatStates, NatPhases, Protos
<1> QED
    BY <1>1, <1>2 DEF Protos

\* What a request may be granted is a port of the gateway.
LEMMA CandidatesTyped ==
    ASSUME NatTyped, NEW port \in Candidates(nat.proto)
    PROVE  port \in External
<1>1. nat.proto \in {"tcp", "udp"} /\ nat.tcp \in TheirPorts /\ nat.udp \in TheirPorts
    BY DEF NatTyped, NatStates, Protos
<1>2. preferred(nat.proto) \in TheirPorts
    BY <1>1 DEF preferred, Known
<1> QED
    BY <1>2 DEF Candidates, TheirPorts

LEMMA NatTypedStep ==
    NatTyped /\ PlanTyped /\ [PortNext]_portVars => NatTyped'
<1> SUFFICES ASSUME NatTyped, PlanTyped, [PortNext]_portVars
             PROVE NatTyped'
    OBVIOUS
<1>a. nat.proto \in Protos
    BY DEF NatTyped, NatStates
<1>b. None \in TheirPorts
    BY DEF TheirPorts
<1>1. CASE StartNATTraversal
    BY <1>1 DEF StartNATTraversal, NatTyped, NatStates, NatPhases
<1>2. CASE Retry \/ Publish \/ Advertise
    BY <1>2 DEF Retry, Publish, Advertise, NatTyped, NatStates, NatPhases
<1>3. CASE Renew
    BY <1>3 DEF Renew, NatTyped, NatStates, NatPhases, Protos
<1>4. CASE Discover
  <2>1. ASSUME NEW k \in portPlan.kinds
        PROVE  [nat EXCEPT !.at = "ask", !.kind = k, !.tcp = None, !.udp = None,
                           !.proto = "tcp", !.try = 0] \in NatStates
    BY <1>b DEF NatTyped, NatStates, NatPhases, PlanTyped, Bounds, Protos
  <2>2. [nat EXCEPT !.at = "retry"] \in NatStates
    BY DEF NatTyped, NatStates, NatPhases
  <2> QED
    BY <1>4, <2>1, <2>2 DEF Discover, NatTyped
<1>5. CASE Grant
    BY <1>5, <1>a, GrantedTyped, CandidatesTyped DEF Grant, NatTyped, TheirPorts
<1>6. CASE Refuse \/ LoseAnswer \/ Cancelled
    BY <1>6, <1>a, TriesTyped DEF Refuse, LoseAnswer, Cancelled, NatTyped
<1>7. CASE Fail \/ Stop
  <2>1. [nat EXCEPT !.at = "cleanup", !.deleting = {p \in Protos : Known(p) # None}] \in NatStates
    BY DEF NatTyped, NatStates, NatPhases
  <2> QED
    BY <1>7, <2>1 DEF Fail, Stop, NatTyped
<1>8. CASE CleanedUp
    BY <1>8, <1>b DEF CleanedUp, NatTyped, NatStates, NatPhases
<1>9. ASSUME NEW p \in Protos, Delete(p) PROVE NatTyped'
    BY <1>9 DEF Delete, NatTyped, NatStates
<1>10. CASE Reboot \/ UNCHANGED portVars \/ OurStep
    BY <1>10, OurStepLeaves DEF Reboot, portVars, theirs, NatTyped
<1> QED
    BY <1>1, <1>2, <1>3, <1>4, <1>5, <1>6, <1>7, <1>8, <1>9, <1>10, PortSteps DEF LoopStep

LEMMA GatewayTypedStep ==
    NatTyped /\ GatewayTyped /\ [PortNext]_portVars => GatewayTyped'
<1> SUFFICES ASSUME NatTyped, GatewayTyped, [PortNext]_portVars
             PROVE GatewayTyped'
    OBVIOUS
<1>1. ASSUME NEW port \in Candidates(nat.proto),
             gateway' = [gateway EXCEPT !.mappings = MappedWith(nat.proto, port)]
      PROVE  GatewayTyped'
  <2>1. port \in External /\ nat.proto \in Protos
    BY CandidatesTyped DEF NatTyped, NatStates
  <2> QED
    BY <1>1, <2>1 DEF GatewayTyped, MappedWith, MappingOf
<1>2. CASE Grant \/ LoseAnswer
    BY <1>1, <1>2 DEF Grant, LoseAnswer
<1>3. CASE Refuse \/ Reboot
    BY <1>3 DEF Refuse, Reboot, GatewayTyped
<1>4. ASSUME NEW p \in Protos, Delete(p) PROVE GatewayTyped'
    BY <1>4 DEF Delete, GatewayTyped
<1>5. CASE StartNATTraversal \/ Discover \/ Retry \/ Cancelled \/ Publish \/ Renew \/ Stop \/ CleanedUp
    BY <1>5 DEF StartNATTraversal, Discover, Retry, Cancelled, Publish, Renew, Stop, CleanedUp, GatewayTyped
<1>6. CASE Advertise \/ Fail \/ UNCHANGED portVars \/ OurStep
    BY <1>6, OurStepLeaves DEF Advertise, Fail, portVars, theirs, GatewayTyped
<1> QED
    BY <1>2, <1>3, <1>4, <1>5, <1>6, PortSteps DEF LoopStep

LEMMA PortTypedStep == PortTyped /\ [PortNext]_portVars => PortTyped'
<1> SUFFICES ASSUME PortTyped, [PortNext]_portVars
             PROVE PortTyped'
    OBVIOUS
<1>1. SessTyped' /\ TellingTyped' /\ NatTyped' /\ GatewayTyped' /\ PlanTyped'
    BY SessTypedStep, TellingTypedStep, NatTypedStep, GatewayTypedStep, PlanTypedStep DEF PortTyped
<1>2. /\ closed' \in BOOLEAN /\ listener' \in BOOLEAN /\ utp' \in {"none", "refusing", "accepting"}
  <2>1. CASE OurStep
    BY <2>1 DEF OurStep, StartPeerListener, StartDHT, Close, CloseSessions, AddSession, StartSession,
                AnnouncePort, Tell, PortTyped
  <2>2. CASE LoopStep
    BY <2>2, LoopStepLeaves DEF ours, PortTyped
  <2>3. CASE Advertise \/ Fail \/ UNCHANGED portVars
    BY <2>3 DEF Advertise, Fail, portVars, ours, PortTyped
  <2> QED
    BY <2>1, <2>2, <2>3, PortSteps
<1>3. mapped' \subseteq Protos
  <2>1. CASE LoopStep
    BY <2>1 DEF LoopStep, StartNATTraversal, Discover, Retry, Grant, Refuse, LoseAnswer, Cancelled, Publish,
                Renew, Stop, CleanedUp, Reboot, Delete, PortTyped, Protos
  <2>2. CASE OurStep
    BY <2>2, OurStepLeaves DEF theirs, PortTyped
  <2>3. CASE Advertise \/ Fail \/ UNCHANGED portVars
    BY <2>3 DEF Advertise, Fail, portVars, theirs, PortTyped
  <2> QED
    BY <2>1, <2>2, <2>3, PortSteps
<1> QED
    BY <1>1, <1>2, <1>3 DEF PortTyped

LEMMA LoopFollowsListenerStep ==
    PortTyped /\ LoopFollowsListener /\ [PortNext]_portVars => LoopFollowsListener'
<1> SUFFICES ASSUME PortTyped, LoopFollowsListener, [PortNext]_portVars
             PROVE LoopFollowsListener'
    OBVIOUS
<1> USE DEF LoopFollowsListener
<1>a. nat \in NatStates
    BY DEF PortTyped, NatTyped
<1>1. CASE OurStep
  <2>1. CASE StartPeerListener
    BY <1>1, <2>1, OurStepLeaves DEF StartPeerListener, theirs
  <2>2. ASSUME NEW s \in Sessions, Tell(s) PROVE LoopFollowsListener'
    BY <1>1, <2>2, OurStepLeaves DEF Tell, theirs
  <2>3. CASE Close
    BY <1>1, <2>3, OurStepLeaves DEF Close, theirs
  <2>4. CASE UNCHANGED <<closed, listener, advertised, telling>>
    BY <1>1, <2>4, OurStepLeaves DEF theirs
  <2>5. \/ StartPeerListener \/ Close \/ \E s \in Sessions : Tell(s)
        \/ UNCHANGED <<closed, listener, advertised, telling>>
    BY <1>1 DEF OurStep, StartDHT, CloseSessions, AddSession, StartSession, AnnouncePort
  <2> QED
    BY <2>1, <2>2, <2>3, <2>4, <2>5
<1>2. CASE LoopStep
  <2>1. UNCHANGED <<closed, listener, advertised, telling>>
    BY <1>2, LoopStepLeaves DEF ours
  <2>2. CASE nat.at = "off"
    <3>1. CASE StartNATTraversal
      BY <2>1, <2>2, <3>1, <1>a DEF StartNATTraversal, NatStates
    <3>2. CASE UNCHANGED <<nat, mapped>>
      BY <2>1, <2>2, <3>2
    <3>3. StartNATTraversal \/ UNCHANGED <<nat, mapped>>
      BY <1>2, <2>2 DEF LoopStep, Discover, Retry, Grant, Refuse, LoseAnswer, Cancelled, Publish, Renew,
                        Stop, CleanedUp, Reboot, Delete
    <3> QED
      BY <3>1, <3>2, <3>3
  <2>3. CASE nat.at # "off"
    <3>1. nat'.at # "off"
      BY <1>2, <2>3, <1>a DEF LoopStep, StartNATTraversal, Discover, Retry, Grant, Refuse, LoseAnswer,
             Cancelled, Publish, Renew, Stop, CleanedUp, Reboot, Delete, Granted, AfterTry, Failed, NatStates,
             Protos
    <3> QED
      BY <2>1, <2>3, <3>1
  <2> QED
    BY <2>2, <2>3
<1>3. CASE Advertise \/ Fail
    BY <1>3, <1>a DEF Advertise, Fail, NatStates
<1>4. CASE UNCHANGED portVars
    BY <1>4 DEF portVars, ours, theirs
<1> QED
    BY <1>1, <1>2, <1>3, <1>4, PortSteps

LEMMA UTPMakesWayStep ==
    listener \in BOOLEAN /\ UTPMakesWay /\ [PortNext]_portVars => UTPMakesWay'
<1> SUFFICES ASSUME listener \in BOOLEAN, UTPMakesWay, [PortNext]_portVars
             PROVE UTPMakesWay'
    OBVIOUS
<1>1. CASE StartPeerListener
    BY <1>1 DEF StartPeerListener, UTPMakesWay
<1>2. CASE StartDHT
    BY <1>2 DEF StartDHT, UTPMakesWay
<1>3. CASE Close
    BY <1>3 DEF Close, UTPMakesWay
<1>4. CASE UNCHANGED <<listener, utp>>
    BY <1>4 DEF UTPMakesWay
<1>5. OurStep => StartPeerListener \/ StartDHT \/ Close \/ UNCHANGED <<listener, utp>>
    BY DEF OurStep, CloseSessions, AddSession, StartSession, AnnouncePort, Tell
<1>6. Advertise \/ Fail \/ LoopStep \/ UNCHANGED portVars => UNCHANGED <<listener, utp>>
    BY LoopStepLeaves DEF Advertise, Fail, portVars, ours
<1> QED
    BY <1>1, <1>2, <1>3, <1>4, <1>5, <1>6, PortSteps

\* A new port: those who share the listener are told, and nobody was being told another.
LEMMA SetAdvertisedTells ==
    ASSUME PortTyped, EverybodyIsTold, telling.left = {}, NEW port \in ListenerPorts,
           setAdvertisedPeerPort(port), UNCHANGED <<closed, sess>>
    PROVE  EverybodyIsTold'
<1>1. CASE UNCHANGED <<advertised, telling>>
    BY <1>1 DEF EverybodyIsTold, Managed
<1>2. CASE advertised' = port /\ telling' = [port |-> port, left |-> Managed]
    BY <1>2 DEF EverybodyIsTold, Managed
<1> QED
    BY <1>1, <1>2 DEF setAdvertisedPeerPort

LEMMA EverybodyIsToldStep ==
    PortTyped /\ LoopFollowsListener /\ EverybodyIsTold /\ [PortNext]_portVars => EverybodyIsTold'
<1> SUFFICES ASSUME PortTyped, LoopFollowsListener, EverybodyIsTold, [PortNext]_portVars
             PROVE EverybodyIsTold'
    OBVIOUS
<1>a. \A s \in Sessions : sess[s] \in SessionStates
    BY DEF PortTyped, SessTyped
<1>b. DOMAIN sess = Sessions
    BY DEF PortTyped, SessTyped
<1>1. CASE StartPeerListener
  <2>1. telling.left = {}
    BY <1>1 DEF StartPeerListener, LoopFollowsListener
  <2>2. ASSUME NEW s \in Managed'
        PROVE  s \in Managed /\ ~sess[s].started /\ sess'[s] = [sess[s] EXCEPT !.shared = TRUE, !.port = Listen]
    BY <1>1, <1>a DEF StartPeerListener, Managed, SessionStates
  <2> QED
    BY <1>1, <2>1, <2>2, <1>a DEF StartPeerListener, EverybodyIsTold, Managed, SessionStates
<1>2. CASE StartDHT \/ UNCHANGED portVars
    BY <1>2 DEF StartDHT, portVars, ours, EverybodyIsTold, Managed
<1>3. CASE Close
    BY <1>3 DEF Close, EverybodyIsTold, Managed
<1>4. CASE CloseSessions
    BY <1>4 DEF CloseSessions, EverybodyIsTold, Managed, Absent
<1>5. ASSUME NEW s \in Sessions, AddSession(s) PROVE EverybodyIsTold'
  <2>1. /\ sess'[s].shared = listener /\ sess'[s].port = IF listener THEN advertised ELSE None
        /\ sess'[s].started = FALSE
    BY <1>5, <1>b DEF AddSession, Absent
  <2>2. \A t \in Sessions \ {s} : sess'[t] = sess[t]
    BY <1>5, <1>b DEF AddSession
  <2> QED
    BY <1>5, <2>1, <2>2 DEF AddSession, EverybodyIsTold, Managed
<1>6. ASSUME NEW s \in Sessions, StartSession(s) \/ AnnouncePort(s) PROVE EverybodyIsTold'
  <2>1. /\ sess'[s].shared = sess[s].shared /\ sess'[s].port = sess[s].port /\ s \in Managed
        /\ sess'[s].pending \/ sess'[s].announced = sess[s].port
    BY <1>6, <1>a, <1>b DEF StartSession, AnnouncePort, SessionStates, Managed
  <2>2. \A t \in Sessions \ {s} : sess'[t] = sess[t]
    BY <1>6, <1>b DEF StartSession, AnnouncePort
  <2>3. UNCHANGED <<closed, advertised, telling>>
    BY <1>6 DEF StartSession, AnnouncePort
  <2> QED
    BY <2>1, <2>2, <2>3 DEF EverybodyIsTold, Managed
<1>7. ASSUME NEW s \in Sessions, Tell(s) PROVE EverybodyIsTold'
  <2>1. telling'.port = telling.port /\ telling'.left = telling.left \ {s} /\ s \in telling.left
    BY <1>7 DEF Tell, PortTyped, TellingTyped
  <2>2. UNCHANGED <<closed, advertised>> /\ \A t \in Sessions \ {s} : sess'[t] = sess[t]
    BY <1>7, <1>b DEF Tell
  <2>3. s \in Managed => /\ sess'[s].port = telling.port
                         /\ sess'[s].started = sess[s].started
                         /\ sess'[s].announced = sess[s].announced
                         /\ sess'[s].pending = (sess[s].pending
                                                  \/ (sess[s].started /\ sess[s].port # telling.port))
    BY <1>7, <1>a, <1>b DEF Tell, withAdvertisedPort, SessionStates, Managed
  <2>4. s \notin Managed => sess'[s] = sess[s]
    BY <1>7, <1>b DEF Tell, Managed
  <2>5. s \in Managed' => s \in Managed
    BY <2>4 DEF Managed
  <2>6. ASSUME NEW t \in Managed', t # s
        PROVE  /\ sess'[t].shared /\ ~closed' /\ t \notin telling'.left => sess'[t].port = advertised'
               /\ sess'[t].started /\ ~sess'[t].pending => sess'[t].announced = sess'[t].port
    BY <2>1, <2>2, <2>6 DEF EverybodyIsTold, Managed
  <2>7. ASSUME s \in Managed'
        PROVE  /\ sess'[s].shared /\ ~closed' /\ s \notin telling'.left => sess'[s].port = advertised'
               /\ sess'[s].started /\ ~sess'[s].pending => sess'[s].announced = sess'[s].port
    BY <2>1, <2>2, <2>3, <2>5, <2>7 DEF EverybodyIsTold, Managed
  <2> QED
    BY <2>1, <2>2, <2>6, <2>7 DEF EverybodyIsTold, Managed
<1>8. CASE LoopStep
    BY <1>8, LoopStepLeaves DEF ours, EverybodyIsTold, Managed
<1>9. CASE Advertise
  <2>1. nat.tcp \in ListenerPorts
    BY DEF PortTyped, NatTyped, NatStates, ListenerPorts
  <2> QED
    BY <1>9, <2>1, SetAdvertisedTells DEF Advertise
<1>10. CASE Fail
    BY <1>10, SetAdvertisedTells DEF Fail, fallBack, ListenerPorts
<1> QED
    BY <1>1, <1>2, <1>3, <1>4, <1>5, <1>6, <1>7, <1>8, <1>9, <1>10, PortSteps DEF OurStep

LEMMA TCPStaysMapped ==
    ASSUME TCPIsMapped, UNCHANGED nat.tcp,
           gateway.mappings \cup lostByReboot \subseteq gateway'.mappings \cup lostByReboot'
    PROVE  TCPIsMapped'
BY DEF TCPIsMapped

\* A request: what the gateway maps for UDP leaves the TCP mapping, and a
\* granted TCP request makes one.
LEMMA LoopKnowsGrant ==
    PortTyped /\ LoopKnows /\ Grant => LoopKnows'
<1> SUFFICES ASSUME PortTyped, LoopKnows, Grant
             PROVE LoopKnows'
    OBVIOUS
<1>a. nat \in NatStates /\ nat.proto \in {"tcp", "udp"}
    BY DEF PortTyped, NatTyped, NatStates, Protos
<1>1. PICK port \in Candidates(nat.proto) :
          /\ gateway' = [gateway EXCEPT !.mappings = MappedWith(nat.proto, port)]
          /\ nat' = Granted(nat.proto, port)
          /\ lostByReboot' = lostByReboot \ {MappingOf(nat.proto, port)}
    BY DEF Grant
<1>2. port \in External /\ port # None
    BY <1>1, CandidatesTyped, PortAssumption DEF PortTyped
<1>3. gateway'.mappings = MappedWith(nat.proto, port)
    BY <1>1 DEF PortTyped, GatewayTyped
<1>4. nat'.at \in {"ask", "publish"} /\ nat'.proto = "udp"
    BY <1>1, <1>a DEF Granted, NatStates, Protos
<1>5. TCPIsMapped'
  <2>1. CASE nat.proto = "tcp"
    <3>1. nat'.tcp = port
      BY <1>1, <2>1, <1>a DEF Granted, NatStates
    <3> QED
      BY <1>2, <1>3, <2>1, <3>1 DEF TCPIsMapped, MappedWith
  <2>2. CASE nat.proto = "udp"
    <3>1. nat'.tcp = nat.tcp
      BY <1>1, <2>2, <1>a DEF Granted, NatStates
    <3>2. TCPIsMapped
      BY <2>2 DEF LoopKnows, Grant
    <3>3. MappingOf("tcp", nat.tcp) # MappingOf("udp", port) /\ MappingOf("tcp", nat.tcp).proto # "udp"
      BY DEF MappingOf
    <3> QED
      BY <1>1, <1>3, <2>2, <3>1, <3>2, <3>3 DEF TCPIsMapped, MappedWith
  <2> QED
    BY <1>a, <2>1, <2>2
<1> QED
    BY <1>4, <1>5 DEF LoopKnows

LEMMA LoopKnowsTry ==
    PortTyped /\ LoopKnows /\ (Refuse \/ LoseAnswer \/ Cancelled) => LoopKnows'
<1> SUFFICES ASSUME PortTyped, LoopKnows, Refuse \/ LoseAnswer \/ Cancelled
             PROVE LoopKnows'
    OBVIOUS
<1>a. nat \in NatStates /\ nat.proto \in {"tcp", "udp"} /\ nat.at = "ask"
    BY DEF PortTyped, NatTyped, NatStates, Protos, Refuse, LoseAnswer, Cancelled
<1>1. nat'.tcp = nat.tcp /\ nat'.udp = nat.udp /\ nat'.proto = nat.proto
    BY <1>a DEF Refuse, LoseAnswer, Cancelled, AfterTry, Failed, NatStates
<1>2. nat'.at \in {"ask", "fail", "publish"} /\ (nat'.at = "publish" => nat.proto = "udp")
    BY <1>a DEF Refuse, LoseAnswer, Cancelled, AfterTry, Failed, NatStates
<1>3. nat.proto = "udp" => TCPIsMapped'
  <2> SUFFICES ASSUME nat.proto = "udp" PROVE TCPIsMapped'
    OBVIOUS
  <2>1. TCPIsMapped
    BY <1>a DEF LoopKnows
  <2>2. CASE Refuse \/ Cancelled
    BY <2>1, <2>2, <1>1 DEF Refuse, Cancelled, TCPIsMapped, PortTyped, GatewayTyped
  <2>3. CASE LoseAnswer
    <3>1. PICK port \in Candidates(nat.proto) :
              gateway' = [gateway EXCEPT !.mappings = MappedWith(nat.proto, port)]
      BY <2>3 DEF LoseAnswer
    <3>2. gateway'.mappings = MappedWith("udp", port) /\ lostByReboot' = lostByReboot
      BY <2>3, <3>1 DEF LoseAnswer, PortTyped, GatewayTyped
    <3>3. MappingOf("tcp", nat.tcp).proto # "udp"
      BY DEF MappingOf
    <3> QED
      BY <1>1, <2>1, <3>2, <3>3 DEF TCPIsMapped, MappedWith
  <2> QED
    BY <2>2, <2>3
<1> QED
    BY <1>1, <1>2, <1>3 DEF LoopKnows

LEMMA LoopKnowsStep ==
    PortTyped /\ LoopFollowsListener /\ LoopKnows /\ [PortNext]_portVars => LoopKnows'
<1> SUFFICES ASSUME PortTyped, LoopFollowsListener, LoopKnows, [PortNext]_portVars
             PROVE LoopKnows'
    OBVIOUS
<1>a. nat \in NatStates
    BY DEF PortTyped, NatTyped
<1>b. /\ UNCHANGED <<nat, mapped, gateway, lostByReboot>>
      /\ closed' \/ (~closed /\ (UNCHANGED advertised \/ nat.at = "off"))
      => LoopKnows'
    BY DEF LoopKnows, TCPIsMapped
<1>1. CASE OurStep
  <2>1. UNCHANGED <<nat, mapped, gateway, lostByReboot>>
    BY <1>1, OurStepLeaves DEF theirs
  <2>2. CASE StartPeerListener
    BY <1>b, <2>1, <2>2 DEF StartPeerListener, LoopFollowsListener
  <2>3. CASE Close
    BY <1>b, <2>1, <2>3 DEF Close
  <2>4. CASE UNCHANGED <<closed, advertised>>
    BY <2>1, <2>4 DEF LoopKnows, TCPIsMapped
  <2>5. StartPeerListener \/ Close \/ UNCHANGED <<closed, advertised>>
    BY <1>1 DEF OurStep, StartDHT, CloseSessions, AddSession, StartSession, AnnouncePort, Tell
  <2> QED
    BY <2>2, <2>3, <2>4, <2>5
<1>2. CASE StartNATTraversal
    BY <1>2, <1>a DEF StartNATTraversal, LoopFollowsListener, LoopKnows, NatStates, ours
<1>3. CASE Discover
  <2>1. CASE nat'.at = "retry"
    BY <1>3, <2>1, <1>a DEF Discover, LoopKnows, NatStates, ours
  <2>2. CASE nat'.at # "retry"
    BY <1>3, <2>2, <1>a DEF Discover, LoopKnows, NatStates, ours
  <2> QED
    BY <2>1, <2>2
<1>4. CASE Retry
    BY <1>4, <1>a DEF Retry, LoopKnows, NatStates, ours
<1>5. CASE Grant
    BY <1>5, LoopKnowsGrant
<1>6. CASE Refuse \/ LoseAnswer \/ Cancelled
    BY <1>6, LoopKnowsTry
<1>7. CASE Publish
    BY <1>7, <1>a DEF Publish, LoopKnows, TCPIsMapped, NatStates, ours
<1>8. CASE Advertise
  <2>1. nat'.at = "idle" /\ nat'.tcp = nat.tcp /\ nat.at = "advertise"
    BY <1>8, <1>a DEF Advertise, NatStates
  <2>2. nat.tcp # None
    BY <2>1 DEF LoopKnows, TCPIsMapped
  <2>3. ~closed => advertised' = nat.tcp
    BY <1>8, <2>2 DEF Advertise, setAdvertisedPeerPort
  <2> QED
    BY <1>8, <2>1, <2>3 DEF Advertise, LoopKnows, TCPIsMapped
<1>9. CASE Renew
    BY <1>9, <1>a DEF Renew, LoopKnows, NatStates, ours
<1>10. CASE Fail
  <2>1. nat'.at = "cleanup"
    BY <1>10, <1>a DEF Fail, NatStates
  <2>2. ~closed => advertised' = Listen
    BY <1>10, PortAssumption DEF Fail, fallBack, setAdvertisedPeerPort
  <2> QED
    BY <1>10, <2>1, <2>2 DEF Fail, LoopKnows
<1>11. CASE Stop
    BY <1>11, <1>a DEF Stop, LoopKnows, NatStates, ours
<1>12. ASSUME NEW p \in Protos, Delete(p) PROVE LoopKnows'
  <2>1. nat'.at = "cleanup" /\ nat.at = "cleanup"
    BY <1>12, <1>a DEF Delete, NatStates
  <2>2. UNCHANGED <<closed, advertised, mapped>>
    BY <1>12 DEF Delete, ours
  <2> QED
    BY <2>1, <2>2 DEF LoopKnows
<1>13. CASE CleanedUp
    BY <1>13, <1>a DEF CleanedUp, LoopKnows, NatStates, ours
<1>14. CASE Reboot
  <2>1. gateway.mappings \cup lostByReboot \subseteq gateway'.mappings \cup lostByReboot'
    BY <1>14 DEF Reboot
  <2> QED
    BY <1>14, <2>1 DEF Reboot, LoopKnows, TCPIsMapped, ours
<1>15. CASE UNCHANGED portVars
    BY <1>15 DEF portVars, ours, theirs, LoopKnows, TCPIsMapped
<1> QED
    BY <1>1, <1>2, <1>3, <1>4, <1>5, <1>6, <1>7, <1>8, <1>9, <1>10, <1>11, <1>12, <1>13, <1>14, <1>15,
       PortSteps DEF LoopStep

\* A mapping the loop knows the port of, and has not asked the gateway to delete.
InTheLoop(x) ==
    /\ x.proto = "tcp" => x.port = nat.tcp
    /\ x.proto = "udp" => x.port = nat.udp
    /\ nat.at = "cleanup" => x.proto \in nat.deleting

HeldMeansInHand ==
    nat.deleting \subseteq Protos =>
        \A x \in [proto : Protos, port : External] : x \in InHand <=> InTheLoop(x)

LEMMA HeldIsInHand == HeldMeansInHand
<1> SUFFICES ASSUME nat.deleting \subseteq Protos, NEW x \in [proto : Protos, port : External]
             PROVE  x \in InHand <=> InTheLoop(x)
    BY DEF HeldMeansInHand
<1>1. x.proto \in {"tcp", "udp"} /\ x = MappingOf(x.proto, x.port)
    BY DEF Protos, MappingOf
<1>2. \A p \in Protos : Known(p) = IF p = "tcp" THEN nat.tcp ELSE nat.udp
    BY DEF Known, Protos
<1>3. ASSUME x \in InHand PROVE InTheLoop(x)
  <2>1. PICK p \in Protos : x = MappingOf(p, Known(p)) /\ (nat.at = "cleanup" => p \in nat.deleting)
    BY <1>3 DEF InHand
  <2>2. x.proto = p /\ x.port = Known(p)
    BY <2>1 DEF MappingOf
  <2> QED
    BY <1>2, <2>1, <2>2 DEF InTheLoop
<1>4. ASSUME InTheLoop(x) PROVE x \in InHand
  <2>1. x = MappingOf(x.proto, Known(x.proto))
    BY <1>1, <1>2, <1>4 DEF InTheLoop, Protos
  <2> QED
    BY <1>1, <1>4, <2>1 DEF InHand, InTheLoop, Protos
<1> QED
    BY <1>3, <1>4

LEMMA EveryMappingIsBookedStep ==
    PortTyped /\ LoopKnows /\ EveryMappingIsBooked /\ [PortNext]_portVars => EveryMappingIsBooked'
<1> SUFFICES ASSUME PortTyped, LoopKnows, EveryMappingIsBooked, [PortNext]_portVars,
                    NEW x \in gateway'.mappings
             PROVE  x \in undeleted' \cup astray' \cup InHand'
    BY DEF EveryMappingIsBooked
<1>a. nat \in NatStates /\ nat.proto \in {"tcp", "udp"} /\ nat.deleting \subseteq Protos
    BY DEF PortTyped, NatTyped, NatStates, Protos
<1>b. x \in [proto : Protos, port : External] /\ nat'.deleting \subseteq Protos
    BY PortTypedStep DEF PortTyped, NatTyped, NatStates, GatewayTyped
<1>c. x.proto \in {"tcp", "udp"} /\ x.port # None
    BY <1>b, PortAssumption DEF Protos
<1>d. x \in InHand' <=> InTheLoop(x)'
  <2>1. HeldMeansInHand'
    BY HeldIsInHand, PTL
  <2> QED
    BY <1>b, <2>1 DEF HeldMeansInHand
<1>e. x \in gateway.mappings => x \in undeleted \cup astray \/ InTheLoop(x)
    BY <1>a, <1>b, HeldIsInHand DEF EveryMappingIsBooked, HeldMeansInHand
<1>1. CASE OurStep \/ UNCHANGED portVars
  <2>1. UNCHANGED <<nat, gateway, undeleted, astray>>
    BY <1>1, OurStepLeaves DEF portVars, theirs
  <2> QED
    BY <1>d, <1>e, <2>1 DEF InTheLoop
<1>2. CASE StartNATTraversal \/ Publish \/ Advertise \/ Renew \/ Retry
  <2>1. UNCHANGED <<gateway, undeleted, astray>>
    BY <1>2 DEF StartNATTraversal, Publish, Advertise, Renew, Retry
  <2>2. nat'.tcp = nat.tcp /\ nat'.udp = nat.udp /\ nat'.at # "cleanup"
    BY <1>2, <1>a DEF StartNATTraversal, Publish, Advertise, Renew, Retry, NatStates
  <2> QED
    BY <1>d, <1>e, <2>1, <2>2 DEF InTheLoop
<1>3. CASE Discover
  <2>1. UNCHANGED <<gateway, undeleted, astray>>
    BY <1>3 DEF Discover
  <2>2. ~InTheLoop(x)
    BY <1>3, <1>c DEF Discover, LoopKnows, InTheLoop
  <2> QED
    BY <1>e, <2>1, <2>2
<1>4. CASE Grant
  <2>1. PICK port \in Candidates(nat.proto) :
            /\ gateway' = [gateway EXCEPT !.mappings = MappedWith(nat.proto, port)]
            /\ nat' = Granted(nat.proto, port)
            /\ astray' = (astray \cup Forgotten(nat.proto)) \ {MappingOf(nat.proto, port)}
            /\ undeleted' = undeleted \ {MappingOf(nat.proto, port)}
    BY <1>4 DEF Grant
  <2>2. nat'.at # "cleanup"
    BY <2>1, <1>a DEF Granted, NatStates
  <2>3. x = MappingOf(nat.proto, port) \/ x \in gateway.mappings
    BY <2>1 DEF PortTyped, GatewayTyped, MappedWith
  <2>4. CASE x = MappingOf(nat.proto, port)
    <3>1. x.proto = nat.proto /\ x.port = port
      BY <2>4 DEF MappingOf
    <3>2. InTheLoop(x)'
      BY <2>1, <2>2, <3>1, <1>a DEF InTheLoop, Granted, NatStates
    <3> QED
      BY <1>d, <3>2
  <2>5. CASE x \in gateway.mappings /\ x # MappingOf(nat.proto, port) /\ x \notin undeleted \cup astray
    <3>1. InTheLoop(x)
      BY <1>e, <2>5
    <3>2. CASE x.proto # nat.proto
      <4>1. InTheLoop(x)'
        BY <2>1, <2>2, <3>1, <3>2, <1>a, <1>c DEF InTheLoop, Granted, NatStates
      <4> QED
        BY <1>d, <4>1
    <3>3. CASE x.proto = nat.proto
      <4>1. Known(nat.proto) = x.port
        BY <3>1, <3>3, <1>a DEF InTheLoop, Known
      <4>2. x = MappingOf(nat.proto, Known(nat.proto))
        BY <1>b, <3>3, <4>1 DEF MappingOf
      <4> QED
        BY <2>1, <2>5, <4>2 DEF Forgotten
    <3> QED
      BY <3>2, <3>3
  <2> QED
    BY <2>1, <2>3, <2>4, <2>5
<1>5. CASE Refuse \/ LoseAnswer \/ Cancelled
  <2>1. nat'.tcp = nat.tcp /\ nat'.udp = nat.udp /\ nat'.at # "cleanup"
    BY <1>5, <1>a DEF Refuse, LoseAnswer, Cancelled, AfterTry, Failed, NatStates
  <2>2. undeleted' = undeleted /\ astray \subseteq astray'
    BY <1>5 DEF Refuse, LoseAnswer, Cancelled
  <2>3. x \in gateway.mappings \/ x \in astray' \/ InTheLoop(x)'
    <3>1. CASE Refuse \/ Cancelled
      BY <3>1 DEF Refuse, Cancelled, PortTyped, GatewayTyped
    <3>2. CASE LoseAnswer
      <4>1. PICK port \in Candidates(nat.proto) :
                /\ gateway' = [gateway EXCEPT !.mappings = MappedWith(nat.proto, port)]
                /\ astray' = IF port = Known(nat.proto) THEN astray
                             ELSE astray \cup {MappingOf(nat.proto, port)}
        BY <3>2 DEF LoseAnswer
      <4>2. x \in gateway.mappings \/ x = MappingOf(nat.proto, port)
        BY <4>1 DEF PortTyped, GatewayTyped, MappedWith
      <4>3. ASSUME x = MappingOf(nat.proto, port), port = Known(nat.proto) PROVE InTheLoop(x)'
        <5>1. x.proto = nat.proto /\ x.port = port
          BY <4>3 DEF MappingOf
        <5> QED
          BY <4>3, <5>1, <2>1, <1>a DEF InTheLoop, Known
      <4> QED
        BY <4>1, <4>2, <4>3
    <3> QED
      BY <1>5, <3>1, <3>2
  <2>4. InTheLoop(x) => InTheLoop(x)'
    BY <2>1 DEF InTheLoop
  <2> QED
    BY <1>d, <1>e, <2>2, <2>3, <2>4
<1>6. CASE Fail \/ Stop
  <2>1. UNCHANGED <<gateway, undeleted, astray>>
    BY <1>6 DEF Fail, Stop
  <2>2. /\ nat'.tcp = nat.tcp /\ nat'.udp = nat.udp
        /\ nat'.deleting = {p \in Protos : Known(p) # None}
    BY <1>6, <1>a DEF Fail, Stop, NatStates
  <2>3. InTheLoop(x) => InTheLoop(x)'
    BY <2>2, <1>c DEF InTheLoop, Known, Protos
  <2> QED
    BY <1>d, <1>e, <2>1, <2>3
<1>7. ASSUME NEW p \in Protos, Delete(p) PROVE x \in undeleted' \cup astray' \cup InHand'
  <2> DEFINE gone == {y \in gateway.mappings : y.proto = p /\ (nat.kind = "pmp" \/ y.port = Known(p))}
  <2>1. /\ nat' = [nat EXCEPT !.deleting = @ \ {p}] /\ astray' = astray
        /\ \/ gateway' = [gateway EXCEPT !.mappings = @ \ gone] /\ undeleted' = undeleted
           \/ undeleted' = undeleted \cup gone /\ gateway' = gateway
    BY <1>7 DEF Delete
  <2>2. nat'.tcp = nat.tcp /\ nat'.udp = nat.udp /\ nat'.deleting = nat.deleting \ {p} /\ nat'.at = nat.at
    BY <2>1, <1>a DEF NatStates
  <2>3. x \in gateway.mappings /\ (x \notin gone \/ x \in undeleted')
    BY <2>1 DEF PortTyped, GatewayTyped
  <2>4. InTheLoop(x) /\ x.proto = p => x \in gone
    BY <2>3, <1>c DEF InTheLoop, Known
  <2>5. InTheLoop(x) /\ x.proto # p => InTheLoop(x)'
    BY <2>2 DEF InTheLoop
  <2> QED
    BY <1>d, <1>e, <2>1, <2>3, <2>4, <2>5
<1>8. CASE CleanedUp
  <2>1. UNCHANGED <<gateway, undeleted, astray>> /\ nat.at = "cleanup" /\ nat.deleting = {}
    BY <1>8 DEF CleanedUp
  <2>2. ~InTheLoop(x)
    BY <2>1 DEF InTheLoop
  <2> QED
    BY <1>e, <2>1, <2>2
<1>9. CASE Reboot
    BY <1>9 DEF Reboot, PortTyped, GatewayTyped
<1> QED
    BY <1>1, <1>2, <1>3, <1>4, <1>5, <1>6, <1>7, <1>8, <1>9, PortSteps DEF LoopStep

\* What MCNetwork checks of the listener's port holds for every gateway, every
\* number of sessions and every set of ports: once told, the sessions have and
\* announce the port the manager advertises; between the NAT loop's rounds that
\* is the port the gateway maps, or the local one; and a loop that has ended
\* leaves only mappings it was refused to delete or did not know
\* (listener.go:343, nat.go:246).
THEOREM PortsHold == PortSpec => []PortsAreTrue
<1>1. PortInv /\ [PortNext]_portVars => PortInv'
    BY PortTypedStep, LoopFollowsListenerStep, EverybodyIsToldStep, UTPMakesWayStep, LoopKnowsStep,
       EveryMappingIsBookedStep DEF PortInv, PortTyped
<1> QED
    BY <1>1, PortInitInv, PortInvImplies, PTL DEF PortSpec

----------------------------------------------------------------------------
(* The DHT's server: its limiter, its tokens and the peers it stores       *)

LEMMA ServerConstants ==
    /\ QueryRateBurst \in Nat \ {0} /\ QueryBlockDuration \in Nat \ {0} /\ TokenRotation \in Nat \ {0}
    /\ PeerStoreTTL \in Nat /\ MaxStoredHashes \in Nat \ {0}
    /\ MaxPeersPerIPPerHash \in Nat \ {0} /\ MaxPeersPerHash \in Nat /\ MaxPeersPerHash >= MaxPeersPerIPPerHash
    /\ MaxHashesPerIP \in Nat \ {0} /\ IsFiniteSet(InfoHashes)
  BY ServerAssumption

\* A finite list of places has a first and a last one.
LEMMA FirstPlace ==
    ASSUME NEW S \in SUBSET Nat, S # {}
    PROVE  Min(S) \in S /\ \A y \in S : Min(S) <= y
<1>1. PICK x \in S : \A y \in S : <<y, x>> \notin OpToRel(<, Nat)
  BY NatLessThanWellFounded, WFMin, Zenon
<1>2. \A y \in S : ~ (y < x)
  <2>1. ASSUME NEW y \in S, y < x PROVE FALSE
    <3>1. <<y, x>> \in Nat \X Nat /\ <<y, x>>[1] = y /\ <<y, x>>[2] = x
      OBVIOUS
    <3> QED
      BY <1>1, <2>1, <3>1, Zenon DEF OpToRel
  <2> QED
    BY <2>1
<1>3. \A y \in S : x <= y
  BY <1>2
<1> QED
  BY <1>3 DEF Min

LEMMA LastPlace ==
    ASSUME NEW n \in Nat, NEW S \in SUBSET (1 .. n), S # {}
    PROVE  Max(S) \in S
<1> DEFINE R == {n - x : x \in S}
<1>1. R \in SUBSET Nat /\ R # {}
  <2>1. \A x \in S : x \in 1 .. n /\ n - x \in Nat
    OBVIOUS
  <2> QED
    BY <2>1
<1>2. Min(R) \in R /\ \A y \in R : Min(R) <= y
  BY <1>1, FirstPlace
<1>3. PICK x \in S : Min(R) = n - x
  BY <1>2
<1>4. \A y \in S : n - y \in R
  OBVIOUS
<1> HIDE DEF R
<1>5. \A y \in S : x >= y
  <2>1. \A y \in S : n - x <= n - y
    BY <1>2, <1>3, <1>4
  <2> QED
    BY <2>1
<1> QED
  BY <1>5 DEF Max

----------------------------------------------------------------------------
\* The list of a swarm's peers.
Peers == [ip : SourceIPs, port : Ports, age : 0 .. PeerStoreTTL + 1]
ListOK(l) ==
    /\ l \in Seq(Peers) /\ Len(l) <= MaxPeersPerHash
    /\ \A i, j \in 1 .. Len(l) : i < j => l[i].age >= l[j].age
    /\ \A i, j \in 1 .. Len(l) : l[i].ip = l[j].ip /\ l[i].port = l[j].port => i = j
    /\ \A ip \in SourceIPs : Cardinality(PortsIn(l, ip)) <= MaxPeersPerIPPerHash

LEMMA ListFacts ==
    ASSUME NEW l \in Seq(Peers)
    PROVE  /\ Len(l) \in Nat /\ DOMAIN l = 1 .. Len(l) /\ \A i \in 1 .. Len(l) : l[i] \in Peers
           /\ \A i \in 1 .. Len(l) : l[i].ip \in SourceIPs /\ l[i].port \in Ports /\ l[i].age \in 0 .. PeerStoreTTL + 1
           /\ \A ip : ip \in IPsIn(l) <=> \E i \in 1 .. Len(l) : l[i].ip = ip
           /\ \A ip, p : p \in PortsIn(l, ip) <=> \E i \in 1 .. Len(l) : l[i].ip = ip /\ l[i].port = p
<1>1. Len(l) \in Nat /\ DOMAIN l = 1 .. Len(l) /\ \A i \in 1 .. Len(l) : l[i] \in Peers
  BY LenProperties, ElementOfSeq
<1>2. \A i \in 1 .. Len(l) : l[i].ip \in SourceIPs /\ l[i].port \in Ports /\ l[i].age \in 0 .. PeerStoreTTL + 1
  BY <1>1 DEF Peers
<1> QED
  BY <1>1, <1>2 DEF IPsIn, PortsIn

\* An IP has at most as many ports as entries.
LEMMA PortsAreFew ==
    ASSUME NEW l \in Seq(Peers), NEW ip
    PROVE  /\ IsFiniteSet({i \in DOMAIN l : l[i].ip = ip}) /\ IsFiniteSet(PortsIn(l, ip))
           /\ Cardinality(PortsIn(l, ip)) \in Nat /\ Cardinality({i \in DOMAIN l : l[i].ip = ip}) \in Nat
           /\ Cardinality(PortsIn(l, ip)) <= Cardinality({i \in DOMAIN l : l[i].ip = ip})
<1> DEFINE mine == {i \in DOMAIN l : l[i].ip = ip}
           f == [i \in mine |-> l[i].port]
<1>1. Len(l) \in Nat /\ DOMAIN l = 1 .. Len(l)
  BY LenProperties
<1>2. IsFiniteSet(1 .. Len(l))
  BY <1>1, FS_Interval
<1>3. IsFiniteSet(mine)
  BY <1>1, <1>2, FS_Subset
<1>4. PortsIn(l, ip) = {l[i].port : i \in mine}
  BY DEF PortsIn
<1>5. f \in Surjection(mine, PortsIn(l, ip))
  BY <1>4 DEF Surjection
<1> HIDE DEF mine, f
<1>6. IsFiniteSet(PortsIn(l, ip)) /\ Cardinality(PortsIn(l, ip)) <= Cardinality(mine)
  BY <1>3, <1>5, FS_Surjection
<1> QED
  BY <1>3, <1>6, FS_CardinalityType DEF mine

LEMMA EmptyList == ListOK(<< >>) /\ IPsIn(<< >>) = {}
<1>1. << >> \in Seq(Peers) /\ Len(<< >>) = 0 /\ 1 .. 0 = {}
  BY EmptySeq
<1>2. IPsIn(<< >>) = {} /\ \A ip : PortsIn(<< >>, ip) = {}
  BY <1>1, ListFacts
<1> QED
  BY <1>1, <1>2, ServerConstants, FS_EmptySet DEF ListOK

\* What is left of a list from a place on.
LEMMA SuffixOK ==
    ASSUME NEW l, ListOK(l), NEW k \in 1 .. Len(l) + 1, NEW m \in Seq(Peers),
           Len(m) = Len(l) - k + 1, \A j \in 1 .. Len(m) : m[j] = l[k + j - 1]
    PROVE  ListOK(m) /\ IPsIn(m) \subseteq IPsIn(l)
<1>1. l \in Seq(Peers) /\ Len(l) \in Nat /\ Len(m) \in Nat /\ Len(m) <= Len(l)
  BY LenProperties DEF ListOK
<1>2. \A j \in 1 .. Len(m) : k + j - 1 \in 1 .. Len(l)
  BY <1>1
<1>3. IPsIn(m) \subseteq IPsIn(l) /\ \A ip : PortsIn(m, ip) \subseteq PortsIn(l, ip)
  <2>1. \A j \in 1 .. Len(m) : \E i \in 1 .. Len(l) : m[j] = l[i]
    BY <1>2
  <2>2. ASSUME NEW x \in IPsIn(m) PROVE x \in IPsIn(l)
    <3>1. PICK j \in 1 .. Len(m) : m[j].ip = x
      BY ListFacts
    <3>2. PICK i \in 1 .. Len(l) : m[j] = l[i]
      BY <2>1
    <3> QED
      BY <1>1, <3>1, <3>2, ListFacts
  <2>3. ASSUME NEW ip, NEW x \in PortsIn(m, ip) PROVE x \in PortsIn(l, ip)
    <3>1. PICK j \in 1 .. Len(m) : m[j].ip = ip /\ m[j].port = x
      BY ListFacts
    <3>2. PICK i \in 1 .. Len(l) : m[j] = l[i]
      BY <2>1
    <3> QED
      BY <1>1, <3>1, <3>2, ListFacts
  <2> QED
    BY <2>2, <2>3
<1>4. ASSUME NEW ip \in SourceIPs PROVE Cardinality(PortsIn(m, ip)) <= MaxPeersPerIPPerHash
  <2>1. /\ Cardinality(PortsIn(m, ip)) <= Cardinality(PortsIn(l, ip))
        /\ Cardinality(PortsIn(m, ip)) \in Nat /\ Cardinality(PortsIn(l, ip)) \in Nat
    BY <1>1, <1>3, PortsAreFew, FS_Subset
  <2>2. Cardinality(PortsIn(l, ip)) <= MaxPeersPerIPPerHash
    BY DEF ListOK
  <2> QED
    BY <2>1, <2>2, ServerConstants
<1>5. ASSUME NEW i \in 1 .. Len(m), NEW j \in 1 .. Len(m)
      PROVE  /\ i < j => m[i].age >= m[j].age
             /\ m[i].ip = m[j].ip /\ m[i].port = m[j].port => i = j
  <2> DEFINE a == k + i - 1
             b == k + j - 1
  <2>1. a \in 1 .. Len(l) /\ b \in 1 .. Len(l) /\ m[i] = l[a] /\ m[j] = l[b]
    BY <1>2
  <2>2. (i < j <=> a < b) /\ (i = j <=> a = b)
    BY <1>1
  <2> HIDE DEF a, b
  <2> QED
    BY <2>1, <2>2 DEF ListOK
<1>6. Len(m) <= MaxPeersPerHash
  BY <1>1, ServerConstants DEF ListOK
<1> QED
  BY <1>3, <1>4, <1>5, <1>6 DEF ListOK

LEMMA SuffixIs ==
    ASSUME NEW l \in Seq(Peers), NEW k \in 1 .. Len(l) + 1
    PROVE  /\ SubSeq(l, k, Len(l)) \in Seq(Peers) /\ Len(SubSeq(l, k, Len(l))) = Len(l) - k + 1
           /\ \A j \in 1 .. Len(l) - k + 1 : SubSeq(l, k, Len(l))[j] = l[k + j - 1]
<1>1. Len(l) \in Nat /\ \A i \in k .. Len(l) : l[i] \in Peers
  BY LenProperties, ElementOfSeq
<1>2. /\ SubSeq(l, k, Len(l)) \in Seq(Peers)
      /\ Len(SubSeq(l, k, Len(l))) = IF k <= Len(l) THEN Len(l) - k + 1 ELSE 0
      /\ \A j \in 1 .. Len(l) - k + 1 : SubSeq(l, k, Len(l))[j] = l[k + j - 1]
  BY <1>1, SubSeqProperties
<1> QED
  BY <1>1, <1>2

LEMMA FreshOK ==
    ASSUME NEW l, ListOK(l)
    PROVE  ListOK(Fresh(l)) /\ IPsIn(Fresh(l)) \subseteq IPsIn(l)
<1> DEFINE fresh == {i \in DOMAIN l : l[i].age <= PeerStoreTTL}
<1>1. l \in Seq(Peers) /\ Len(l) \in Nat /\ DOMAIN l = 1 .. Len(l)
  BY LenProperties DEF ListOK
<1>2. CASE fresh = {}
  BY <1>2, EmptyList DEF Fresh
<1>3. CASE fresh # {}
  <2> DEFINE k == Min(fresh)
  <2>1. fresh \in SUBSET (1 .. Len(l)) /\ Fresh(l) = SubSeq(l, k, Len(l))
    BY <1>1, <1>3 DEF Fresh
  <2> HIDE DEF fresh
  <2>2. fresh \in SUBSET Nat
    BY <2>1
  <2>3. k \in fresh
    BY <1>3, <2>2, FirstPlace
  <2> HIDE DEF k
  <2>4. k \in 1 .. Len(l) + 1
    <3>1. k \in 1 .. Len(l)
      BY <2>1, <2>3, Zenon
    <3> QED
      BY <1>1, <3>1
  <2>5. /\ Fresh(l) \in Seq(Peers) /\ Len(Fresh(l)) = Len(l) - k + 1
        /\ \A j \in 1 .. Len(l) - k + 1 : Fresh(l)[j] = l[k + j - 1]
    BY <1>1, <2>1, <2>4, SuffixIs
  <2> QED
    BY <2>4, <2>5, SuffixOK
<1> QED
  BY <1>2, <1>3

LEMMA TailOK ==
    ASSUME NEW l, ListOK(l), l # << >>
    PROVE  /\ ListOK(Tail(l)) /\ IPsIn(Tail(l)) \subseteq IPsIn(l)
           /\ Len(Tail(l)) = Len(l) - 1
           /\ \A j \in 1 .. Len(Tail(l)) : Tail(l)[j] = l[j + 1]
<1>1. l \in Seq(Peers) /\ Len(l) \in Nat \ {0}
  BY EmptySeq DEF ListOK
<1>2. Tail(l) = SubSeq(l, 2, Len(l)) /\ 2 \in 1 .. Len(l) + 1
  BY <1>1, TailIsSubSeq
<1>3. /\ Tail(l) \in Seq(Peers) /\ Len(Tail(l)) = Len(l) - 2 + 1
      /\ \A j \in 1 .. Len(Tail(l)) : Tail(l)[j] = l[2 + j - 1]
  BY <1>1, <1>2, SuffixIs
<1>4. ListOK(Tail(l)) /\ IPsIn(Tail(l)) \subseteq IPsIn(l)
  BY <1>2, <1>3, SuffixOK
<1>5. \A j \in 1 .. Len(Tail(l)) : 2 + j - 1 = j + 1
  OBVIOUS
<1> QED
  BY <1>1, <1>3, <1>4, <1>5

\* A new last entry, of an endpoint the list does not have.
LEMMA AppendedOK ==
    ASSUME NEW l, ListOK(l), Len(l) < MaxPeersPerHash, NEW ip \in SourceIPs, NEW port \in Ports,
           \A i \in 1 .. Len(l) : ~ (l[i].ip = ip /\ l[i].port = port),
           Cardinality(PortsIn(l, ip)) < MaxPeersPerIPPerHash
    PROVE  ListOK(Append(l, Peer(ip, port, 0))) /\ IPsIn(Append(l, Peer(ip, port, 0))) = IPsIn(l) \cup {ip}
<1> DEFINE new == Peer(ip, port, 0)
           m == Append(l, new)
<1>1. l \in Seq(Peers) /\ Len(l) \in Nat /\ new \in Peers
  BY LenProperties, ServerConstants DEF ListOK, Peer, Peers
<1>2. new.ip = ip /\ new.port = port /\ new.age = 0
  BY DEF Peer
<1> HIDE DEF new
<1>3. m \in Seq(Peers) /\ Len(m) = Len(l) + 1 /\ (\A j \in 1 .. Len(l) : m[j] = l[j]) /\ m[Len(l) + 1] = new
  BY <1>1
<1> HIDE DEF m
<1>4. \A j \in 1 .. Len(m) : j \in 1 .. Len(l) \/ j = Len(l) + 1
  BY <1>1, <1>3
<1>5. IPsIn(m) = IPsIn(l) \cup {ip}
  <2>1. \A x \in IPsIn(m) : x \in IPsIn(l) \cup {ip}
    BY <1>1, <1>2, <1>3, <1>4, ListFacts
  <2>2. \A x \in IPsIn(l) : x \in IPsIn(m)
    <3>1. \A j \in 1 .. Len(l) : j \in 1 .. Len(m)
      BY <1>1, <1>3
    <3> QED
      BY <1>1, <1>3, <3>1, ListFacts
  <2>3. ip \in IPsIn(m)
    BY <1>1, <1>2, <1>3, ListFacts
  <2> QED
    BY <2>1, <2>2, <2>3
<1>6. ASSUME NEW x \in SourceIPs PROVE Cardinality(PortsIn(m, x)) <= MaxPeersPerIPPerHash
  <2>1. PortsIn(m, x) \subseteq PortsIn(l, x) \cup (IF x = ip THEN {port} ELSE {})
    BY <1>1, <1>2, <1>3, <1>4, ListFacts
  <2>2. IsFiniteSet(PortsIn(l, x)) /\ Cardinality(PortsIn(l, x)) \in Nat
    BY <1>1, PortsAreFew
  <2>3. Cardinality(PortsIn(l, x)) <= MaxPeersPerIPPerHash
    BY DEF ListOK
  <2>4. CASE x = ip
    <3>0. /\ IsFiniteSet(PortsIn(l, x) \cup {port})
          /\ Cardinality(PortsIn(l, x) \cup {port}) =
               IF port \in PortsIn(l, x) THEN Cardinality(PortsIn(l, x)) ELSE Cardinality(PortsIn(l, x)) + 1
      BY <2>2, FS_AddElement
    <3>1. IsFiniteSet(PortsIn(l, x) \cup {port}) /\ Cardinality(PortsIn(l, x) \cup {port}) <= MaxPeersPerIPPerHash
      BY <2>2, <2>4, <3>0, ServerConstants
    <3>2. /\ Cardinality(PortsIn(m, x)) <= Cardinality(PortsIn(l, x) \cup {port})
          /\ Cardinality(PortsIn(m, x)) \in Nat /\ Cardinality(PortsIn(l, x) \cup {port}) \in Nat
      BY <2>1, <2>4, <3>1, FS_Subset, FS_CardinalityType
    <3> QED
      BY <3>1, <3>2, ServerConstants
  <2>5. CASE x # ip
    <3>1. Cardinality(PortsIn(m, x)) <= Cardinality(PortsIn(l, x)) /\ Cardinality(PortsIn(m, x)) \in Nat
      BY <2>1, <2>2, <2>5, FS_Subset, FS_CardinalityType
    <3> QED
      BY <2>2, <2>3, <3>1, ServerConstants
  <2> QED
    BY <2>4, <2>5
<1>7. ASSUME NEW i \in 1 .. Len(m), NEW j \in 1 .. Len(m)
      PROVE  /\ i < j => m[i].age >= m[j].age
             /\ m[i].ip = m[j].ip /\ m[i].port = m[j].port => i = j
  <2>1. \A a \in 1 .. Len(l) : l[a].age \in 0 .. PeerStoreTTL + 1
    BY <1>1, ListFacts
  <2>2. CASE i \in 1 .. Len(l) /\ j \in 1 .. Len(l)
    BY <1>3, <2>2 DEF ListOK
  <2>3. CASE i \in 1 .. Len(l) /\ j = Len(l) + 1
    BY <1>1, <1>2, <1>3, <2>1, <2>3
  <2>4. CASE i = Len(l) + 1 /\ j \in 1 .. Len(l)
    BY <1>1, <1>2, <1>3, <2>4
  <2> QED
    BY <1>1, <1>4, <2>2, <2>3, <2>4
<1>8. Len(m) <= MaxPeersPerHash
  BY <1>1, <1>3, ServerConstants
<1>9. ListOK(m)
  BY <1>3, <1>6, <1>7, <1>8 DEF ListOK
<1> QED
  BY <1>5, <1>9 DEF m, new

\* A list without one of its entries.
LEMMA RemovedOK ==
    ASSUME NEW l, ListOK(l), NEW i \in 1 .. Len(l)
    PROVE  /\ ListOK(RemoveAt(l, i)) /\ Len(RemoveAt(l, i)) = Len(l) - 1
           /\ IPsIn(RemoveAt(l, i)) \cup {l[i].ip} = IPsIn(l)
           /\ PortsIn(RemoveAt(l, i), l[i].ip) = PortsIn(l, l[i].ip) \ {l[i].port}
           /\ \A j \in 1 .. Len(RemoveAt(l, i)) : \E k \in 1 .. Len(l) : k # i /\ RemoveAt(l, i)[j] = l[k]
<1> DEFINE m == RemoveAt(l, i)
           At(j) == IF j < i THEN j ELSE j + 1
<1>1. l \in Seq(Peers) /\ Len(l) \in Nat
  BY LenProperties DEF ListOK
<1>2. m \in Seq(Peers) /\ Len(m) = Len(l) - 1 /\ \A j \in 1 .. Len(m) : m[j] = IF j < i THEN l[j] ELSE l[j + 1]
  BY <1>1, RemoveAtFacts
<1> HIDE DEF m
<1>3. \A j \in 1 .. Len(m) : At(j) \in 1 .. Len(l) /\ At(j) # i /\ m[j] = l[At(j)]
  BY <1>1, <1>2
<1>4. \A k \in 1 .. Len(l) : k # i => \E j \in 1 .. Len(m) : m[j] = l[k]
  <2> SUFFICES ASSUME NEW k \in 1 .. Len(l), k # i PROVE \E j \in 1 .. Len(m) : m[j] = l[k]
    OBVIOUS
  <2>1. CASE k < i
    BY <1>1, <1>2, <2>1
  <2>2. CASE ~ (k < i)
    <3>1. k - 1 \in 1 .. Len(m) /\ ~ (k - 1 < i) /\ (k - 1) + 1 = k
      BY <1>1, <1>2, <2>2
    <3>2. m[k - 1] = l[(k - 1) + 1]
      BY <1>2, <3>1
    <3> QED
      BY <3>1, <3>2
  <2> QED
    BY <2>1, <2>2
<1>5. IPsIn(m) \cup {l[i].ip} = IPsIn(l)
  <2>1. \A x : x \in IPsIn(m) => x \in IPsIn(l)
    BY <1>1, <1>2, <1>3, ListFacts
  <2>2. ASSUME NEW x \in IPsIn(l), x # l[i].ip PROVE x \in IPsIn(m)
    <3>1. PICK k \in 1 .. Len(l) : l[k].ip = x
      BY <1>1, ListFacts
    <3>2. PICK j \in 1 .. Len(m) : m[j] = l[k]
      BY <1>4, <2>2, <3>1
    <3> QED
      BY <1>2, <3>1, <3>2, ListFacts
  <2>3. l[i].ip \in IPsIn(l)
    BY <1>1, ListFacts
  <2> QED
    BY <2>1, <2>2, <2>3
<1>6. \A x : PortsIn(m, x) \subseteq PortsIn(l, x)
  BY <1>1, <1>2, <1>3, ListFacts
<1>7. PortsIn(m, l[i].ip) = PortsIn(l, l[i].ip) \ {l[i].port}
  <2>1. \A j \in 1 .. Len(m) : ~ (m[j].ip = l[i].ip /\ m[j].port = l[i].port)
    BY <1>3 DEF ListOK
  <2>2. \A p : p \in PortsIn(m, l[i].ip) => p # l[i].port
    BY <1>2, <2>1, ListFacts
  <2>3. ASSUME NEW p \in PortsIn(l, l[i].ip), p # l[i].port PROVE p \in PortsIn(m, l[i].ip)
    <3>1. PICK k \in 1 .. Len(l) : l[k].ip = l[i].ip /\ l[k].port = p
      BY <1>1, ListFacts
    <3>2. PICK j \in 1 .. Len(m) : m[j] = l[k]
      BY <1>4, <2>3, <3>1
    <3> QED
      BY <1>2, <3>1, <3>2, ListFacts
  <2> QED
    BY <1>6, <2>2, <2>3
<1>8. ASSUME NEW x \in SourceIPs PROVE Cardinality(PortsIn(m, x)) <= MaxPeersPerIPPerHash
  <2>1. /\ Cardinality(PortsIn(m, x)) <= Cardinality(PortsIn(l, x))
        /\ Cardinality(PortsIn(m, x)) \in Nat /\ Cardinality(PortsIn(l, x)) \in Nat
    BY <1>1, <1>2, <1>6, PortsAreFew, FS_Subset
  <2>2. Cardinality(PortsIn(l, x)) <= MaxPeersPerIPPerHash
    BY DEF ListOK
  <2> QED
    BY <2>1, <2>2, ServerConstants
<1>9. ASSUME NEW a \in 1 .. Len(m), NEW b \in 1 .. Len(m)
      PROVE  /\ a < b => m[a].age >= m[b].age
             /\ m[a].ip = m[b].ip /\ m[a].port = m[b].port => a = b
  <2> DEFINE p == At(a)
             q == At(b)
  <2>1. p \in 1 .. Len(l) /\ q \in 1 .. Len(l) /\ m[a] = l[p] /\ m[b] = l[q]
    BY <1>3
  <2>2. (a < b => p < q) /\ (p = q => a = b)
    BY <1>1, <1>2
  <2> HIDE DEF p, q
  <2> QED
    BY <2>1, <2>2 DEF ListOK
<1>10. Len(m) <= MaxPeersPerHash
  BY <1>1, <1>2, ServerConstants DEF ListOK
<1>11. ListOK(m)
  BY <1>2, <1>8, <1>9, <1>10 DEF ListOK
<1>12. \A j \in 1 .. Len(m) : \E k \in 1 .. Len(l) : k # i /\ m[j] = l[k]
  BY <1>3
<1> QED
  BY <1>2, <1>5, <1>7, <1>11, <1>12 DEF m

\* An entry of an IP makes room for another one of it.
LEMMA ReplacedOK ==
    ASSUME NEW l, ListOK(l), NEW i \in 1 .. Len(l), NEW port \in Ports,
           \A j \in 1 .. Len(l) : j # i => ~ (l[j].ip = l[i].ip /\ l[j].port = port)
    PROVE  /\ ListOK(Append(RemoveAt(l, i), Peer(l[i].ip, port, 0)))
           /\ IPsIn(Append(RemoveAt(l, i), Peer(l[i].ip, port, 0))) = IPsIn(l)
<1> DEFINE m == RemoveAt(l, i)
           ip == l[i].ip
           old == l[i].port
<1>1. l \in Seq(Peers) /\ Len(l) \in Nat /\ ip \in SourceIPs /\ old \in PortsIn(l, ip)
  BY ListFacts DEF ListOK
<1>2. ListOK(m) /\ Len(m) = Len(l) - 1
  BY RemovedOK
<1>3. IPsIn(m) \cup {ip} = IPsIn(l)
  BY RemovedOK
<1>4. PortsIn(m, ip) = PortsIn(l, ip) \ {old}
  BY RemovedOK
<1>5. \A j \in 1 .. Len(m) : ~ (m[j].ip = ip /\ m[j].port = port)
  <2>1. \A j \in 1 .. Len(m) : \E k \in 1 .. Len(l) : k # i /\ m[j] = l[k]
    BY RemovedOK
  <2> QED
    BY <2>1
<1> HIDE DEF m, ip, old
<1>6. Cardinality(PortsIn(m, ip)) < MaxPeersPerIPPerHash
  <2>1. IsFiniteSet(PortsIn(l, ip)) /\ Cardinality(PortsIn(l, ip)) \in Nat
    BY <1>1, PortsAreFew
  <2>2. Cardinality(PortsIn(l, ip) \ {old}) = Cardinality(PortsIn(l, ip)) - 1
    BY <1>1, <2>1, FS_RemoveElement
  <2>3. Cardinality(PortsIn(l, ip)) <= MaxPeersPerIPPerHash
    BY <1>1 DEF ListOK
  <2> QED
    BY <1>4, <2>1, <2>2, <2>3, ServerConstants
<1>7. Len(m) < MaxPeersPerHash
  BY <1>1, <1>2, ServerConstants DEF ListOK
<1>8. ListOK(Append(m, Peer(ip, port, 0)))
  BY <1>1, <1>2, <1>5, <1>6, <1>7, AppendedOK
<1>9. IPsIn(Append(m, Peer(ip, port, 0))) = IPsIn(m) \cup {ip}
  BY <1>1, <1>2, <1>5, <1>6, <1>7, AppendedOK
<1> QED
  BY <1>3, <1>8, <1>9 DEF m, ip

----------------------------------------------------------------------------
\* The swarms in the order of their last announce.
OrderOK(order, H) ==
    /\ order \in Seq(InfoHashes) /\ Len(order) <= MaxStoredHashes
    /\ \A i, j \in 1 .. Len(order) : order[i] = order[j] => i = j
    /\ \A h : h \in H <=> \E i \in 1 .. Len(order) : order[i] = h

LEMMA UnlinkOK ==
    ASSUME NEW order, NEW H, OrderOK(order, H), NEW h
    PROVE  /\ OrderOK(unlink(order, h), H \ {h}) /\ Len(unlink(order, h)) <= Len(order)
           /\ h \in H => Len(unlink(order, h)) = Len(order) - 1
<1> DEFINE at == {i \in DOMAIN order : order[i] = h}
           c == CHOOSE i \in at : TRUE
<1>1. order \in Seq(InfoHashes) /\ Len(order) \in Nat /\ DOMAIN order = 1 .. Len(order)
  BY LenProperties DEF OrderOK
<1>2. CASE at = {}
  <2>1. unlink(order, h) = order
    BY <1>2 DEF unlink
  <2>2. h \notin H
    BY <1>1, <1>2 DEF OrderOK
  <2>3. H \ {h} = H
    BY <2>2
  <2>4. Len(order) <= Len(order)
    BY <1>1
  <2> QED
    BY <2>1, <2>2, <2>3, <2>4
<1>3. CASE at # {}
  <2>1. c \in 1 .. Len(order) /\ order[c] = h
    BY <1>1, <1>3
  <2>2. unlink(order, h) = RemoveAt(order, c)
    BY <1>3 DEF unlink
  <2> HIDE DEF at, c
  <2> DEFINE m == RemoveAt(order, c)
             At(j) == IF j < c THEN j ELSE j + 1
  <2>3. m \in Seq(InfoHashes) /\ Len(m) = Len(order) - 1 /\ \A j \in 1 .. Len(m) : m[j] = IF j < c THEN order[j] ELSE order[j + 1]
    BY <1>1, <2>1, RemoveAtFacts
  <2> HIDE DEF m
  <2>4. \A j \in 1 .. Len(m) : At(j) \in 1 .. Len(order) /\ At(j) # c /\ m[j] = order[At(j)]
    BY <1>1, <2>1, <2>3
  <2>5. ASSUME NEW i \in 1 .. Len(m), NEW j \in 1 .. Len(m), m[i] = m[j] PROVE i = j
    <3>1. At(i) = At(j)
      BY <2>4, <2>5 DEF OrderOK
    <3> QED
      BY <1>1, <2>1, <2>3, <3>1
  <2>6. ASSUME NEW g \in H, g # h PROVE \E j \in 1 .. Len(m) : m[j] = g
    <3>1. PICK k \in 1 .. Len(order) : order[k] = g
      BY <2>6 DEF OrderOK
    <3>2. CASE k < c
      BY <1>1, <2>1, <2>3, <3>1, <3>2
    <3>3. CASE ~ (k < c)
      <4>1. k # c
        BY <2>1, <2>6, <3>1
      <4>2. k - 1 \in 1 .. Len(m) /\ ~ (k - 1 < c) /\ (k - 1) + 1 = k
        BY <1>1, <2>1, <2>3, <3>3, <4>1
      <4> QED
        BY <2>3, <3>1, <4>2
    <3> QED
      BY <3>2, <3>3
  <2>7. \A j \in 1 .. Len(m) : m[j] \in H /\ m[j] # h
    <3> SUFFICES ASSUME NEW j \in 1 .. Len(m) PROVE m[j] \in H /\ m[j] # h
      OBVIOUS
    <3>1. At(j) \in 1 .. Len(order) /\ At(j) # c /\ m[j] = order[At(j)]
      BY <2>4
    <3> HIDE DEF At
    <3> QED
      BY <2>1, <3>1 DEF OrderOK
  <2>8. Len(m) <= MaxStoredHashes
    BY <1>1, <2>3, ServerConstants DEF OrderOK
  <2>9. OrderOK(m, H \ {h})
    BY <2>3, <2>5, <2>6, <2>7, <2>8 DEF OrderOK
  <2> QED
    BY <1>1, <2>2, <2>3, <2>9 DEF m
<1> QED
  BY <1>2, <1>3

LEMMA FrontOK ==
    ASSUME NEW order, NEW H, OrderOK(order, H), NEW h \in InfoHashes, h \notin H, Len(order) < MaxStoredHashes
    PROVE  OrderOK(<<h>> \o order, H \cup {h})
<1> DEFINE m == <<h>> \o order
           one == <<h>>
<1>1. order \in Seq(InfoHashes) /\ Len(order) \in Nat /\ one \in Seq(InfoHashes) /\ Len(one) = 1 /\ one[1] = h
  BY LenProperties DEF OrderOK
<1>2. /\ m \in Seq(InfoHashes) /\ Len(m) = 1 + Len(order)
      /\ \A i \in 1 .. 1 + Len(order) : m[i] = IF i <= 1 THEN one[i] ELSE order[i - 1]
  <2> HIDE DEF one
  <2>1. /\ one \o order \in Seq(InfoHashes) /\ Len(one \o order) = Len(one) + Len(order)
        /\ \A i \in 1 .. Len(one) + Len(order) : (one \o order)[i] = IF i <= Len(one) THEN one[i] ELSE order[i - Len(one)]
    BY <1>1, ConcatProperties
  <2> QED
    BY <1>1, <2>1 DEF one
<1> HIDE DEF m, one
<1>3. m[1] = h /\ \A i \in 1 .. Len(order) : i + 1 \in 1 .. Len(m) /\ m[i + 1] = order[i]
  <2>1. ASSUME NEW i \in 1 .. Len(order) PROVE i + 1 \in 1 .. Len(m) /\ m[i + 1] = order[i]
    <3>1. i + 1 \in 1 .. 1 + Len(order) /\ ~ (i + 1 <= 1) /\ (i + 1) - 1 = i
      BY <1>1
    <3> QED
      BY <1>2, <3>1
  <2> QED
    BY <1>1, <1>2, <2>1
<1>4. \A j \in 1 .. Len(m) : j = 1 \/ (j - 1 \in 1 .. Len(order) /\ m[j] = order[j - 1])
  BY <1>1, <1>2
<1>5. \A i \in 1 .. Len(order) : order[i] # h
  BY DEF OrderOK
<1>6. ASSUME NEW i \in 1 .. Len(m), NEW j \in 1 .. Len(m), m[i] = m[j] PROVE i = j
  <2>1. CASE i = 1 \/ j = 1
    BY <1>3, <1>4, <1>5, <1>6, <2>1
  <2>2. CASE i # 1 /\ j # 1
    <3>1. i - 1 = j - 1
      BY <1>4, <1>6, <2>2 DEF OrderOK
    <3> QED
      BY <1>1, <1>2, <3>1
  <2> QED
    BY <2>1, <2>2
<1>7. ASSUME NEW g PROVE g \in H \cup {h} <=> \E j \in 1 .. Len(m) : m[j] = g
  <2>1. ASSUME g \in H PROVE \E j \in 1 .. Len(m) : m[j] = g
    <3>1. PICK i \in 1 .. Len(order) : order[i] = g
      BY <2>1 DEF OrderOK
    <3> QED
      BY <1>3, <3>1
  <2>2. ASSUME g = h PROVE \E j \in 1 .. Len(m) : m[j] = g
    BY <1>1, <1>2, <1>3, <2>2
  <2>3. ASSUME NEW j \in 1 .. Len(m), m[j] = g PROVE g \in H \cup {h}
    BY <1>3, <1>4, <2>3 DEF OrderOK
  <2> QED
    BY <2>1, <2>2, <2>3
<1>8. Len(m) <= MaxStoredHashes
  BY <1>1, <1>2, ServerConstants
<1>9. OrderOK(m, H \cup {h})
  BY <1>2, <1>6, <1>7, <1>8 DEF OrderOK
<1> QED
  BY <1>9 DEF m

LEMMA PrefixOK ==
    ASSUME NEW order, NEW H, OrderOK(order, H), NEW n \in 0 .. Len(order)
    PROVE  /\ OrderOK(SubSeq(order, 1, n), ToSet(SubSeq(order, 1, n)))
           /\ ToSet(SubSeq(order, 1, n)) \subseteq H
<1> DEFINE m == SubSeq(order, 1, n)
<1>1. order \in Seq(InfoHashes) /\ Len(order) \in Nat /\ \A i \in 1 .. Len(order) : order[i] \in InfoHashes
  BY LenProperties, ElementOfSeq DEF OrderOK
<1>2. n \in Int /\ 1 \in Int /\ \A i \in 1 .. n : i \in 1 .. Len(order)
  BY <1>1
<1>3. m \in Seq(InfoHashes) /\ Len(m) = n /\ \A i \in 1 .. n : m[i] = order[i]
  <2>1. \A i \in 1 .. n : order[i] \in InfoHashes
    BY <1>1, <1>2
  <2>2. /\ m \in Seq(InfoHashes) /\ Len(m) = IF 1 <= n THEN n - 1 + 1 ELSE 0
        /\ \A i \in 1 .. n - 1 + 1 : m[i] = order[1 + i - 1]
    BY <1>2, <2>1, SubSeqProperties
  <2> QED
    BY <1>1, <2>2
<1> HIDE DEF m
<1>4. DOMAIN m = 1 .. n
  BY <1>3, LenProperties
<1>5. \A h : h \in ToSet(m) <=> \E i \in 1 .. Len(m) : m[i] = h
  BY <1>3, <1>4 DEF ToSet
<1>6. \A i, j \in 1 .. Len(m) : m[i] = m[j] => i = j
  BY <1>2, <1>3 DEF OrderOK
<1>7. Len(m) <= MaxStoredHashes
  BY <1>1, <1>3, ServerConstants DEF OrderOK
<1>8. OrderOK(m, ToSet(m))
  BY <1>3, <1>5, <1>6, <1>7 DEF OrderOK
<1>9. \A h \in ToSet(m) : h \in H
  BY <1>2, <1>3, <1>5 DEF OrderOK
<1> QED
  BY <1>8, <1>9 DEF m

----------------------------------------------------------------------------
\* The store as one value: its lists, its order, and the swarms an IP is in.
Lists(peers) == peers \in [InfoHashes -> Seq(Peers)] /\ \A h \in InfoHashes : ListOK(peers[h])
Listed(peers) == {h \in InfoHashes : peers[h] # << >>}
Holding(peers, ip) == {h \in InfoHashes : ip \in IPsIn(peers[h])}
CountsOK(S) ==
    /\ S.counts = [ip \in SourceIPs |-> Cardinality(Holding(S.peers, ip))]
    /\ \A ip \in SourceIPs : Cardinality(Holding(S.peers, ip)) <= MaxHashesPerIP
BooksOK(S) ==
    /\ S = [order |-> S.order, peers |-> S.peers, counts |-> S.counts]
    /\ Lists(S.peers) /\ CountsOK(S) /\ OrderOK(S.order, Listed(S.peers))

LEMMA HoldingIsFinite ==
    ASSUME NEW peers, NEW ip
    PROVE  IsFiniteSet(Holding(peers, ip)) /\ Cardinality(Holding(peers, ip)) \in Nat
  BY ServerConstants, FS_Subset, FS_CardinalityType DEF Holding

LEMMA DifferenceCounts ==
    ASSUME NEW A, IsFiniteSet(A), NEW B \in SUBSET A
    PROVE  Cardinality(B) = Cardinality(A) - Cardinality(A \ B)
<1>1. IsFiniteSet(B) /\ IsFiniteSet(A \ B)
  BY FS_Subset
<1>2. B \cup (A \ B) = A /\ B \cap (A \ B) = {}
  OBVIOUS
<1>3. Cardinality(A) = Cardinality(B) + Cardinality(A \ B) - Cardinality({})
  BY <1>1, <1>2, FS_Union
<1> QED
  BY <1>1, <1>3, FS_EmptySet, FS_CardinalityType

\* dropPeer keeps the counts right when entries go and none come.
LEMMA ReducedCounts ==
    ASSUME NEW S, CountsOK(S), NEW order, NEW peers,
           \A h \in InfoHashes : IPsIn(peers[h]) \subseteq IPsIn(S.peers[h])
    PROVE  /\ CountsOK(Reduced(S, order, peers))
           /\ Reduced(S, order, peers) = [order |-> order, peers |-> peers, counts |-> Reduced(S, order, peers).counts]
           /\ \A ip : Holding(peers, ip) \subseteq Holding(S.peers, ip)
<1> DEFINE R == Reduced(S, order, peers)
<1>1. /\ R = [order |-> order, peers |-> peers, counts |-> R.counts] /\ R.peers = peers
      /\ R.counts = [ip \in SourceIPs |-> S.counts[ip] - Cardinality(Leaves(S, peers, ip))]
  BY DEF Reduced
<1> HIDE DEF R
<1>2. \A ip : Holding(peers, ip) \subseteq Holding(S.peers, ip)
  BY DEF Holding
<1>3. ASSUME NEW ip \in SourceIPs
      PROVE  /\ S.counts[ip] - Cardinality(Leaves(S, peers, ip)) = Cardinality(Holding(peers, ip))
             /\ Cardinality(Holding(peers, ip)) <= MaxHashesPerIP
  <2> DEFINE A == Holding(S.peers, ip)
             B == Holding(peers, ip)
  <2>1. Leaves(S, peers, ip) = A \ B
    BY DEF Leaves, Holding
  <2>2. IsFiniteSet(A) /\ B \in SUBSET A /\ Cardinality(A) \in Nat /\ Cardinality(B) \in Nat
    BY <1>2, HoldingIsFinite
  <2>3. S.counts[ip] = Cardinality(A) /\ Cardinality(A) <= MaxHashesPerIP
    BY DEF CountsOK
  <2> HIDE DEF A, B
  <2>4. Cardinality(B) = Cardinality(A) - Cardinality(A \ B)
    BY <2>2, DifferenceCounts
  <2>5. Cardinality(B) <= Cardinality(A)
    BY <2>2, FS_Subset
  <2>6. S.counts[ip] - Cardinality(Leaves(S, peers, ip)) = Cardinality(B)
    BY <2>1, <2>3, <2>4
  <2>7. Cardinality(B) <= MaxHashesPerIP
    BY <2>2, <2>3, <2>5, ServerConstants
  <2> QED
    BY <2>6, <2>7 DEF B
<1>4. CountsOK(R)
  BY <1>1, <1>3 DEF CountsOK
<1> QED
  BY <1>1, <1>2, <1>4 DEF R

\* One swarm's list replaced by what is left of it.
LEMMA ListingFacts ==
    ASSUME NEW S, Lists(S.peers), NEW h \in InfoHashes, NEW l, ListOK(l)
    PROVE  /\ Lists(Listing(S, h, l)) /\ Listing(S, h, l)[h] = l
           /\ \A g \in InfoHashes : g # h => Listing(S, h, l)[g] = S.peers[g]
           /\ Listed(Listing(S, h, l)) \ {h} = Listed(S.peers) \ {h}
<1>1. \A g \in InfoHashes : Listing(S, h, l)[g] = IF g = h THEN l ELSE S.peers[g]
  BY DEF Listing
<1>2. Listing(S, h, l) \in [InfoHashes -> Seq(Peers)]
  BY DEF Listing, Lists, ListOK
<1>3. \A g \in InfoHashes : ListOK(Listing(S, h, l)[g])
  BY <1>1 DEF Lists
<1>4. Lists(Listing(S, h, l))
  BY <1>2, <1>3 DEF Lists
<1>5. Listed(Listing(S, h, l)) \ {h} = Listed(S.peers) \ {h}
  BY <1>1 DEF Listed
<1> QED
  BY <1>1, <1>4, <1>5

LEMMA ReducedOK ==
    ASSUME NEW S, BooksOK(S), NEW order, NEW peers, Lists(peers), OrderOK(order, Listed(peers)),
           \A h \in InfoHashes : IPsIn(peers[h]) \subseteq IPsIn(S.peers[h])
    PROVE  BooksOK(Reduced(S, order, peers))
<1>1. CountsOK(S)
  BY DEF BooksOK
<1>2. CountsOK(Reduced(S, order, peers))
  BY <1>1, ReducedCounts
<1>3. Reduced(S, order, peers) = [order |-> order, peers |-> peers, counts |-> Reduced(S, order, peers).counts]
  BY <1>1, ReducedCounts
<1>4. Reduced(S, order, peers).order = order /\ Reduced(S, order, peers).peers = peers
  BY DEF Reduced
<1> QED
  BY <1>2, <1>3, <1>4 DEF BooksOK

LEMMA RemoveSwarmOK ==
    ASSUME NEW S, BooksOK(S), NEW h \in InfoHashes
    PROVE  /\ BooksOK(removeSwarm(S, h)) /\ removeSwarm(S, h).peers = Listing(S, h, << >>)
           /\ removeSwarm(S, h).order = unlink(S.order, h)
<1> DEFINE peers == Listing(S, h, << >>)
<1>1. Lists(S.peers) /\ OrderOK(S.order, Listed(S.peers))
  BY DEF BooksOK
<1>2. /\ Lists(peers) /\ peers[h] = << >> /\ (\A g \in InfoHashes : g # h => peers[g] = S.peers[g])
      /\ Listed(peers) \ {h} = Listed(S.peers) \ {h}
  BY <1>1, EmptyList, ListingFacts
<1> HIDE DEF peers
<1>3. Listed(peers) = Listed(S.peers) \ {h}
  BY <1>2 DEF Listed
<1>4. OrderOK(unlink(S.order, h), Listed(peers))
  BY <1>1, <1>3, UnlinkOK
<1>5. \A g \in InfoHashes : IPsIn(peers[g]) \subseteq IPsIn(S.peers[g])
  BY <1>2, EmptyList
<1>6. BooksOK(Reduced(S, unlink(S.order, h), peers))
  BY <1>2, <1>4, <1>5, ReducedOK
<1>7. removeSwarm(S, h) = Reduced(S, unlink(S.order, h), peers)
  BY DEF removeSwarm, peers
<1> QED
  BY <1>6, <1>7 DEF Reduced, peers

\* A swarm keeps a list that is not empty and holds no new IP.
LEMMA ShorterListOK ==
    ASSUME NEW S, BooksOK(S), NEW h \in InfoHashes, S.peers[h] # << >>,
           NEW l, ListOK(l), l # << >>, IPsIn(l) \subseteq IPsIn(S.peers[h])
    PROVE  BooksOK(Reduced(S, S.order, Listing(S, h, l)))
<1> DEFINE peers == Listing(S, h, l)
<1>1. Lists(S.peers) /\ OrderOK(S.order, Listed(S.peers))
  BY DEF BooksOK
<1>2. /\ Lists(peers) /\ peers[h] = l /\ (\A g \in InfoHashes : g # h => peers[g] = S.peers[g])
  BY <1>1, ListingFacts
<1> HIDE DEF peers
<1>3. Listed(peers) = Listed(S.peers)
  BY <1>2 DEF Listed
<1>4. \A g \in InfoHashes : IPsIn(peers[g]) \subseteq IPsIn(S.peers[g])
  BY <1>2
<1>5. OrderOK(S.order, Listed(peers))
  BY <1>1, <1>3
<1>6. BooksOK(Reduced(S, S.order, peers))
  BY <1>2, <1>4, <1>5, ReducedOK
<1> QED
  BY <1>6 DEF peers

LEMMA PruneSwarmOK ==
    ASSUME NEW S, BooksOK(S), NEW h \in InfoHashes
    PROVE  BooksOK(pruneSwarm(S, h))
<1> DEFINE l == S.peers[h]
<1>1. ListOK(l)
  BY DEF BooksOK, Lists
<1>2. CASE Fresh(l) = << >>
  BY <1>2, RemoveSwarmOK DEF pruneSwarm
<1>3. CASE Fresh(l) # << >>
  <2>1. ListOK(Fresh(l)) /\ IPsIn(Fresh(l)) \subseteq IPsIn(l)
    BY <1>1, FreshOK
  <2>2. l # << >>
    BY <1>3, EmptySeq DEF Fresh
  <2>3. BooksOK(Reduced(S, S.order, Listing(S, h, Fresh(l))))
    BY <1>3, <2>1, <2>2, ShorterListOK
  <2> QED
    BY <1>3, <2>3 DEF pruneSwarm
<1> QED
  BY <1>2, <1>3

LEMMA ExpireStaleOK ==
    ASSUME NEW S, BooksOK(S)
    PROVE  BooksOK(expireStale(S))
<1> DEFINE recent == {i \in DOMAIN S.order : Last(S.peers[S.order[i]]).age <= PeerStoreTTL}
           n == IF recent = {} THEN 0 ELSE Max(recent)
           kept == StillAnnounced(S)
           peers == [h \in InfoHashes |-> IF h \in ToSet(kept) THEN S.peers[h] ELSE << >>]
<1>1. Lists(S.peers) /\ OrderOK(S.order, Listed(S.peers))
  BY DEF BooksOK
<1>2. Len(S.order) \in Nat /\ DOMAIN S.order = 1 .. Len(S.order)
  BY <1>1, LenProperties DEF OrderOK
<1>3. recent \in SUBSET (1 .. Len(S.order))
  BY <1>2
<1>4. kept = SubSeq(S.order, 1, n)
  BY DEF StillAnnounced
<1> HIDE DEF recent, kept
<1>5. n \in 0 .. Len(S.order)
  <2>1. CASE recent = {}
    BY <1>2, <2>1
  <2>2. CASE recent # {}
    <3> DEFINE last == Max(recent)
    <3>1. last \in recent
      BY <1>2, <1>3, <2>2, LastPlace
    <3>2. n = last
      BY <2>2
    <3> HIDE DEF last, n
    <3>3. last \in 1 .. Len(S.order)
      BY <1>3, <3>1
    <3> QED
      BY <1>2, <3>2, <3>3
  <2> QED
    BY <2>1, <2>2
<1> HIDE DEF n
<1>6. OrderOK(kept, ToSet(kept)) /\ ToSet(kept) \subseteq Listed(S.peers)
  BY <1>1, <1>4, <1>5, PrefixOK
<1>7. Listed(peers) = ToSet(kept)
  BY <1>6 DEF Listed
<1>8. Lists(peers)
  <2>1. \A h \in InfoHashes : ListOK(peers[h])
    BY <1>1, EmptyList DEF Lists
  <2>2. \A h \in InfoHashes : peers[h] \in Seq(Peers)
    BY <2>1 DEF ListOK
  <2>3. peers \in [InfoHashes -> Seq(Peers)]
    BY <2>2
  <2> QED
    BY <2>1, <2>3 DEF Lists
<1>9. \A h \in InfoHashes : IPsIn(peers[h]) \subseteq IPsIn(S.peers[h])
  BY EmptyList
<1>10. expireStale(S) = Reduced(S, kept, peers)
  BY DEF expireStale, kept
<1> HIDE DEF peers
<1>11. OrderOK(kept, Listed(peers))
  BY <1>6, <1>7
<1> QED
  BY <1>8, <1>9, <1>10, <1>11, ReducedOK

----------------------------------------------------------------------------
\* A store whose order already lists h, and whose entry is still to come.
Awaiting(S, h) ==
    /\ S = [order |-> S.order, peers |-> S.peers, counts |-> S.counts]
    /\ Lists(S.peers) /\ CountsOK(S) /\ OrderOK(S.order, Listed(S.peers) \cup {h})

\* The list of h gets another form, its IPs stay.
LEMMA SameHoldersOK ==
    ASSUME NEW h \in InfoHashes, NEW S, Awaiting(S, h),
           NEW l, ListOK(l), l # << >>, IPsIn(l) = IPsIn(S.peers[h])
    PROVE  BooksOK([S EXCEPT !.peers = Listing(S, h, l)])
<1> DEFINE peers == Listing(S, h, l)
           R == [S EXCEPT !.peers = peers]
<1>1. S = [order |-> S.order, peers |-> S.peers, counts |-> S.counts] /\ Lists(S.peers)
  BY DEF Awaiting
<1>2. /\ Lists(peers) /\ peers[h] = l /\ (\A g \in InfoHashes : g # h => peers[g] = S.peers[g])
  BY <1>1, ListingFacts
<1> HIDE DEF peers
<1>3. R = [order |-> S.order, peers |-> peers, counts |-> S.counts]
  BY <1>1
<1>4. R.order = S.order /\ R.peers = peers /\ R.counts = S.counts
  BY <1>3
<1> HIDE DEF R
<1>5. \A ip : Holding(peers, ip) = Holding(S.peers, ip)
  BY <1>2 DEF Holding
<1>6. Listed(peers) = Listed(S.peers) \cup {h}
  BY <1>2 DEF Listed
<1>7. CountsOK(R)
  BY <1>4, <1>5 DEF CountsOK, Awaiting
<1>8. OrderOK(R.order, Listed(R.peers))
  BY <1>4, <1>6 DEF Awaiting
<1>9. BooksOK(R)
  BY <1>2, <1>3, <1>4, <1>7, <1>8 DEF BooksOK
<1> QED
  BY <1>9 DEF R, peers

\* The list of h gets an entry of ip.
LEMMA NewHolderOK ==
    ASSUME NEW h \in InfoHashes, NEW S, Awaiting(S, h), NEW ip \in SourceIPs,
           NEW l, ListOK(l), l # << >>, IPsIn(l) = IPsIn(S.peers[h]) \cup {ip},
           Cardinality(Holding(S.peers, ip) \cup {h}) <= MaxHashesPerIP
    PROVE  \A Q : BooksOK([S EXCEPT !.peers = Listing(S, h, l), !.counts = CountsWith(Q, S, h, ip)])
<1> DEFINE peers == Listing(S, h, l)
           counts == IF ip \notin IPsIn(S.peers[h]) THEN [S.counts EXCEPT ![ip] = @ + 1] ELSE S.counts
           R == [S EXCEPT !.peers = peers, !.counts = counts]
<1>1. S = [order |-> S.order, peers |-> S.peers, counts |-> S.counts] /\ Lists(S.peers) /\ CountsOK(S)
  BY DEF Awaiting
<1>2. /\ Lists(peers) /\ peers[h] = l /\ (\A g \in InfoHashes : g # h => peers[g] = S.peers[g])
  BY <1>1, ListingFacts
<1> HIDE DEF peers
<1>3. R = [order |-> S.order, peers |-> peers, counts |-> counts]
  <2> DEFINE T == [order |-> S.order, peers |-> S.peers, counts |-> S.counts]
  <2> HIDE DEF counts
  <2>1. R = [[T EXCEPT !.peers = peers] EXCEPT !.counts = counts]
    BY <1>1, Zenon
  <2>2. [T EXCEPT !.peers = peers] = [order |-> S.order, peers |-> peers, counts |-> S.counts]
    OBVIOUS
  <2>3. [[order |-> S.order, peers |-> peers, counts |-> S.counts] EXCEPT !.counts = counts] =
          [order |-> S.order, peers |-> peers, counts |-> counts]
    OBVIOUS
  <2> QED
    BY <2>1, <2>2, <2>3, Zenon
<1>4. R.order = S.order /\ R.peers = peers /\ R.counts = counts
  BY <1>3
<1> HIDE DEF R
<1>5. Listed(peers) = Listed(S.peers) \cup {h}
  BY <1>2 DEF Listed
<1>6. \A i : Holding(peers, i) = IF i = ip THEN Holding(S.peers, i) \cup {h} ELSE Holding(S.peers, i)
  BY <1>2 DEF Holding
<1>7. S.counts = [i \in SourceIPs |-> Cardinality(Holding(S.peers, i))]
  BY <1>1 DEF CountsOK
<1>8. /\ Cardinality(Holding(S.peers, ip) \cup {h}) =
            IF h \in Holding(S.peers, ip) THEN Cardinality(Holding(S.peers, ip)) ELSE Cardinality(Holding(S.peers, ip)) + 1
      /\ Cardinality(Holding(S.peers, ip)) \in Nat
  BY HoldingIsFinite, FS_AddElement
<1>9. h \in Holding(S.peers, ip) <=> ip \in IPsIn(S.peers[h])
  BY DEF Holding
<1>10. counts = [i \in SourceIPs |-> Cardinality(Holding(peers, i))]
  <2>1. CASE ip \in IPsIn(S.peers[h])
    <3>1. \A i \in SourceIPs : Cardinality(Holding(peers, i)) = Cardinality(Holding(S.peers, i))
      BY <1>6, <1>8, <1>9, <2>1
    <3> QED
      BY <1>7, <2>1, <3>1
  <2>2. CASE ip \notin IPsIn(S.peers[h])
    <3>1. counts = [i \in SourceIPs |-> IF i = ip THEN Cardinality(Holding(S.peers, i)) + 1
                                         ELSE Cardinality(Holding(S.peers, i))]
      BY <1>7, <2>2
    <3>2. \A i \in SourceIPs : Cardinality(Holding(peers, i)) =
            IF i = ip THEN Cardinality(Holding(S.peers, i)) + 1 ELSE Cardinality(Holding(S.peers, i))
      BY <1>6, <1>8, <1>9, <2>2
    <3> HIDE DEF counts
    <3> QED
      BY <3>1, <3>2
  <2> QED
    BY <2>1, <2>2
<1> HIDE DEF counts
<1>11. \A i \in SourceIPs : Cardinality(Holding(peers, i)) <= MaxHashesPerIP
  BY <1>1, <1>6 DEF CountsOK
<1>12. CountsOK(R)
  BY <1>4, <1>10, <1>11 DEF CountsOK
<1>13. OrderOK(R.order, Listed(R.peers))
  BY <1>4, <1>5 DEF Awaiting
<1>14. BooksOK(R)
  BY <1>2, <1>3, <1>4, <1>12, <1>13 DEF BooksOK
<1>15. \A Q : CountsWith(Q, S, h, ip) = counts
  BY DEF CountsWith, FirstEntry, counts
<1> QED
  BY <1>14, <1>15 DEF R, peers

\* The oldest entry of h makes room for the new one.
LEMMA RoomOK ==
    ASSUME NEW h \in InfoHashes, NEW S, Awaiting(S, h), S.peers[h] # << >>
    PROVE  /\ Awaiting(Reduced(S, S.order, Listing(S, h, Tail(S.peers[h]))), h)
           /\ Reduced(S, S.order, Listing(S, h, Tail(S.peers[h]))).peers[h] = Tail(S.peers[h])
           /\ \A ip : Holding(Reduced(S, S.order, Listing(S, h, Tail(S.peers[h]))).peers, ip) \subseteq Holding(S.peers, ip)
<1> DEFINE l == S.peers[h]
           peers == Listing(S, h, Tail(l))
           R == Reduced(S, S.order, peers)
<1>1. Lists(S.peers) /\ CountsOK(S) /\ ListOK(l)
  BY DEF Awaiting, Lists
<1>2. ListOK(Tail(l)) /\ IPsIn(Tail(l)) \subseteq IPsIn(l)
  BY <1>1, TailOK
<1>3. /\ Lists(peers) /\ peers[h] = Tail(l) /\ (\A g \in InfoHashes : g # h => peers[g] = S.peers[g])
  BY <1>1, <1>2, ListingFacts
<1> HIDE DEF peers
<1>4. \A g \in InfoHashes : IPsIn(peers[g]) \subseteq IPsIn(S.peers[g])
  BY <1>2, <1>3
<1>5. CountsOK(R)
  BY <1>1, <1>4, ReducedCounts
<1>6. R = [order |-> S.order, peers |-> peers, counts |-> R.counts]
  BY <1>1, <1>4, ReducedCounts
<1>7. \A ip : Holding(peers, ip) \subseteq Holding(S.peers, ip)
  BY <1>1, <1>4, ReducedCounts
<1> HIDE DEF R
<1>8. R.order = S.order /\ R.peers = peers
  BY <1>6
<1>9. Listed(peers) \cup {h} = Listed(S.peers) \cup {h}
  BY <1>3 DEF Listed
<1>10. OrderOK(R.order, Listed(R.peers) \cup {h})
  BY <1>8, <1>9 DEF Awaiting
<1>11. Awaiting(R, h)
  BY <1>3, <1>5, <1>6, <1>8, <1>10 DEF Awaiting
<1> QED
  BY <1>3, <1>7, <1>8, <1>11 DEF R, peers

LEMMA RefreshedOK ==
    ASSUME NEW h \in InfoHashes, NEW S, Awaiting(S, h), NEW i \in 1 .. Len(S.peers[h])
    PROVE  BooksOK(Refreshed(S, h, i))
<1> DEFINE l == S.peers[h]
           m == Append(RemoveAt(l, i), Peer(l[i].ip, l[i].port, 0))
<1>1. ListOK(l)
  BY DEF Awaiting, Lists
<1>2. l[i].port \in Ports
  BY <1>1, ListFacts DEF ListOK
<1>3. \A j \in 1 .. Len(l) : j # i => ~ (l[j].ip = l[i].ip /\ l[j].port = l[i].port)
  BY <1>1 DEF ListOK
<1>4. ListOK(m) /\ IPsIn(m) = IPsIn(l)
  BY <1>1, <1>2, <1>3, ReplacedOK
<1>5. m # << >>
  <2>1. l[i].ip \in IPsIn(l)
    BY <1>1, ListFacts DEF ListOK
  <2> QED
    BY <1>4, <2>1, EmptyList
<1>6. Refreshed(S, h, i) = [S EXCEPT !.peers = Listing(S, h, m)]
  BY DEF Refreshed
<1> HIDE DEF m
<1> QED
  BY <1>4, <1>5, <1>6, SameHoldersOK

LEMMA InsertedOK ==
    ASSUME NEW h \in InfoHashes, NEW S, Awaiting(S, h), NEW ip \in SourceIPs, NEW port \in Ports,
           \A j \in 1 .. Len(S.peers[h]) : ~ (S.peers[h][j].ip = ip /\ S.peers[h][j].port = port),
           ip \notin IPsIn(S.peers[h]) => S.counts[ip] < MaxHashesPerIP
    PROVE  BooksOK(Inserted(S, h, ip, port))
<1> DEFINE l == S.peers[h]
           mine == {i \in DOMAIN l : l[i].ip = ip}
           new == Peer(ip, port, 0)
           T == IF Len(l) >= MaxPeersPerHash THEN Reduced(S, S.order, Listing(S, h, Tail(l))) ELSE S
<1>1. ListOK(l) /\ l \in Seq(Peers) /\ Len(l) \in Nat /\ DOMAIN l = 1 .. Len(l)
  BY LenProperties DEF Awaiting, Lists, ListOK
<1>2. IsFiniteSet(mine) /\ Cardinality(mine) \in Nat /\ Cardinality(PortsIn(l, ip)) <= Cardinality(mine)
      /\ Cardinality(PortsIn(l, ip)) \in Nat /\ IsFiniteSet(PortsIn(l, ip))
  BY <1>1, PortsAreFew
<1>3. CASE Cardinality(mine) >= MaxPeersPerIPPerHash
  <2> DEFINE i == Min(mine)
             m == Append(RemoveAt(l, i), new)
  <2>1. Inserted(S, h, ip, port) = [S EXCEPT !.peers = Listing(S, h, m)]
    BY <1>3 DEF Inserted
  <2>2. mine # {}
    <3>1. Cardinality(mine) # 0
      <4> HIDE DEF mine
      <4> QED
        BY <1>3, ServerConstants
    <3> QED
      BY <3>1, FS_EmptySet, Zenon
  <2>3. mine \in SUBSET Nat
    BY <1>1
  <2>4. i \in mine
    BY <2>2, <2>3, FirstPlace
  <2>5. i \in 1 .. Len(l) /\ l[i].ip = ip
    <3> HIDE DEF i
    <3> QED
      BY <1>1, <2>4
  <2> HIDE DEF i, mine
  <2>6. ListOK(Append(RemoveAt(l, i), Peer(l[i].ip, port, 0)))
    BY <1>1, <2>5, ReplacedOK
  <2>7. IPsIn(Append(RemoveAt(l, i), Peer(l[i].ip, port, 0))) = IPsIn(l)
    BY <1>1, <2>5, ReplacedOK
  <2>8. ListOK(m) /\ IPsIn(m) = IPsIn(l)
    BY <2>5, <2>6, <2>7
  <2>9. ip \in IPsIn(l)
    BY <1>1, <2>5, ListFacts
  <2>10. m # << >>
    BY <2>8, <2>9, EmptyList
  <2> HIDE DEF m
  <2> QED
    BY <2>1, <2>8, <2>10, SameHoldersOK
<1>4. CASE ~ (Cardinality(mine) >= MaxPeersPerIPPerHash)
  <2> DEFINE t == T.peers[h]
             m == Append(t, new)
  <2>1. Inserted(S, h, ip, port) = [T EXCEPT !.peers = Listing(T, h, m), !.counts = CountsWith(S, T, h, ip)]
    BY <1>4 DEF Inserted
  <2>2. Cardinality(PortsIn(l, ip)) < MaxPeersPerIPPerHash
    BY <1>2, <1>4, ServerConstants
  <2>3. /\ Awaiting(T, h) /\ (\A x : Holding(T.peers, x) \subseteq Holding(S.peers, x))
        /\ Len(t) < MaxPeersPerHash
        /\ \A j \in 1 .. Len(t) : \E k \in 1 .. Len(l) : t[j] = l[k]
    <3>1. CASE Len(l) >= MaxPeersPerHash
      <4>1. l # << >>
        <5>1. Len(l) # 0
          BY <1>1, <3>1, ServerConstants
        <5> QED
          BY <5>1, EmptySeq
      <4>2. T = Reduced(S, S.order, Listing(S, h, Tail(l)))
        BY <3>1
      <4>3. Len(Tail(l)) = Len(l) - 1 /\ \A j \in 1 .. Len(Tail(l)) : Tail(l)[j] = l[j + 1]
        BY <1>1, <4>1, TailOK
      <4>4. Awaiting(T, h)
        BY <4>1, <4>2, RoomOK
      <4>5. T.peers[h] = Tail(l)
        BY <4>1, <4>2, RoomOK
      <4>6. \A x : Holding(T.peers, x) \subseteq Holding(S.peers, x)
        BY <4>1, <4>2, RoomOK
      <4> HIDE DEF T
      <4>7. Len(l) <= MaxPeersPerHash
        BY <1>1 DEF ListOK
      <4>8. Len(t) < MaxPeersPerHash
        BY <1>1, <4>3, <4>5, <4>7, ServerConstants
      <4>9. \A j \in 1 .. Len(t) : j + 1 \in 1 .. Len(l) /\ t[j] = l[j + 1]
        BY <1>1, <4>3, <4>5
      <4> QED
        BY <4>4, <4>6, <4>8, <4>9
    <3>2. CASE ~ (Len(l) >= MaxPeersPerHash)
      <4>1. T = S
        BY <3>2
      <4>2. Len(l) < MaxPeersPerHash
        BY <1>1, <3>2, ServerConstants
      <4> QED
        BY <4>1, <4>2
    <3> QED
      BY <3>1, <3>2
  <2> HIDE DEF T
  <2>4. ListOK(t) /\ t \in Seq(Peers)
    BY <2>3 DEF Awaiting, Lists, ListOK
  <2>5. \A j \in 1 .. Len(t) : ~ (t[j].ip = ip /\ t[j].port = port)
    BY <2>3
  <2>6. PortsIn(t, ip) \subseteq PortsIn(l, ip)
    <3> SUFFICES ASSUME NEW p \in PortsIn(t, ip) PROVE p \in PortsIn(l, ip)
      OBVIOUS
    <3>1. PICK j \in 1 .. Len(t) : t[j].ip = ip /\ t[j].port = p
      BY <2>4, ListFacts
    <3>2. PICK k \in 1 .. Len(l) : t[j] = l[k]
      BY <2>3
    <3> QED
      BY <1>1, <3>1, <3>2, ListFacts
  <2>7. Cardinality(PortsIn(t, ip)) < MaxPeersPerIPPerHash
    <3>1. Cardinality(PortsIn(t, ip)) <= Cardinality(PortsIn(l, ip)) /\ Cardinality(PortsIn(t, ip)) \in Nat
      BY <1>2, <2>6, FS_Subset, FS_CardinalityType
    <3> QED
      BY <1>2, <2>2, <3>1, ServerConstants
  <2>8. ListOK(m)
    BY <2>3, <2>4, <2>5, <2>7, AppendedOK
  <2>9. IPsIn(m) = IPsIn(t) \cup {ip}
    BY <2>3, <2>4, <2>5, <2>7, AppendedOK
  <2>10. m # << >>
    BY <2>9, EmptyList
  <2>11. Cardinality(Holding(T.peers, ip) \cup {h}) <= MaxHashesPerIP
    <3> DEFINE A == Holding(S.peers, ip)
               B == Holding(T.peers, ip)
    <3>1. /\ S.counts[ip] = Cardinality(A) /\ Cardinality(A) <= MaxHashesPerIP
          /\ IsFiniteSet(A) /\ Cardinality(A) \in Nat /\ B \subseteq A
      BY <2>3, HoldingIsFinite DEF Awaiting, CountsOK
    <3>2. h \in A <=> ip \in IPsIn(S.peers[h])
      BY DEF Holding
    <3> HIDE DEF A, B
    <3>3. /\ IsFiniteSet(A \cup {h})
          /\ Cardinality(A \cup {h}) = IF h \in A THEN Cardinality(A) ELSE Cardinality(A) + 1
      BY <3>1, FS_AddElement
    <3>4. Cardinality(A \cup {h}) <= MaxHashesPerIP
      BY <3>1, <3>2, <3>3, ServerConstants
    <3>5. Cardinality(B \cup {h}) <= Cardinality(A \cup {h}) /\ Cardinality(B \cup {h}) \in Nat
          /\ Cardinality(A \cup {h}) \in Nat
      <4>1. B \cup {h} \subseteq A \cup {h}
        BY <3>1
      <4> QED
        BY <3>3, <4>1, FS_Subset, FS_CardinalityType
    <3> QED
      BY <3>4, <3>5, ServerConstants DEF B
  <2> HIDE DEF m
  <2>12. \A Q : BooksOK([T EXCEPT !.peers = Listing(T, h, m), !.counts = CountsWith(Q, T, h, ip)])
    BY <2>3, <2>8, <2>9, <2>10, <2>11, NewHolderOK, Zenon
  <2> QED
    BY <2>1, <2>12, Zenon
<1> QED
  BY <1>3, <1>4

LEMMA RecordedOK ==
    ASSUME NEW h \in InfoHashes, NEW S, Awaiting(S, h), NEW ip \in SourceIPs, NEW port \in Ports,
           ip \notin IPsIn(S.peers[h]) => S.counts[ip] < MaxHashesPerIP
    PROVE  BooksOK(Recorded(S, h, ip, port))
<1> DEFINE l == S.peers[h]
           same == {i \in DOMAIN l : l[i].ip = ip /\ l[i].port = port}
           c == CHOOSE i \in same : TRUE
<1>1. DOMAIN l = 1 .. Len(l)
  BY LenProperties DEF Awaiting, Lists, ListOK
<1>2. CASE same # {}
  <2>1. Recorded(S, h, ip, port) = Refreshed(S, h, c)
    BY <1>2 DEF Recorded
  <2>2. c \in 1 .. Len(l)
    BY <1>1, <1>2
  <2> HIDE DEF c
  <2> QED
    BY <2>1, <2>2, RefreshedOK
<1>3. CASE same = {}
  <2>1. Recorded(S, h, ip, port) = Inserted(S, h, ip, port)
    BY <1>3 DEF Recorded
  <2>2. \A j \in 1 .. Len(l) : ~ (l[j].ip = ip /\ l[j].port = port)
    BY <1>1, <1>3
  <2> QED
    BY <2>1, <2>2, InsertedOK
<1> QED
  BY <1>2, <1>3

LEMMA InFrontOK ==
    ASSUME NEW R, BooksOK(R), NEW h \in InfoHashes, h \in Listed(R.peers) \/ Len(R.order) < MaxStoredHashes
    PROVE  Awaiting(InFront(R, h), h) /\ InFront(R, h).peers = R.peers /\ InFront(R, h).counts = R.counts
<1> DEFINE H == Listed(R.peers)
           o == unlink(R.order, h)
           Q == InFront(R, h)
<1>1. R = [order |-> R.order, peers |-> R.peers, counts |-> R.counts] /\ OrderOK(R.order, H)
  BY DEF BooksOK
<1>2. OrderOK(o, H \ {h})
  BY <1>1, UnlinkOK
<1>3. Len(o) <= Len(R.order) /\ (h \in H => Len(o) = Len(R.order) - 1)
  <2> HIDE DEF H
  <2>1. Len(o) <= Len(R.order)
    BY <1>1, UnlinkOK
  <2>2. h \in H => Len(o) = Len(R.order) - 1
    BY <1>1, UnlinkOK
  <2> QED
    BY <2>1, <2>2
<1>4. Len(R.order) <= MaxStoredHashes /\ Len(R.order) \in Nat /\ Len(o) \in Nat
  BY <1>1, <1>2, LenProperties DEF OrderOK
<1> DEFINE front == <<h>> \o o
<1>5. Q = [order |-> front, peers |-> R.peers, counts |-> R.counts]
  <2>1. Q = [R EXCEPT !.order = front]
    BY DEF InFront
  <2> HIDE DEF front, Q
  <2> QED
    BY <1>1, <2>1
<1>6. Q.order = front /\ Q.peers = R.peers /\ Q.counts = R.counts
  <2> HIDE DEF front, Q
  <2> QED
    BY <1>5
<1> HIDE DEF H, o, Q
<1>7. Len(o) < MaxStoredHashes
  <2>1. CASE h \in H
    BY <1>3, <1>4, <2>1, ServerConstants
  <2>2. CASE h \notin H
    <3>1. Len(R.order) < MaxStoredHashes
      BY <2>2 DEF H
    <3> QED
      BY <1>3, <1>4, <3>1, ServerConstants
  <2> QED
    BY <2>1, <2>2
<1>8. (H \ {h}) \cup {h} = H \cup {h} /\ h \notin H \ {h}
  OBVIOUS
<1>9. OrderOK(front, (H \ {h}) \cup {h})
  BY <1>2, <1>7, <1>8, FrontOK
<1>10. OrderOK(Q.order, Listed(Q.peers) \cup {h})
  BY <1>6, <1>8, <1>9 DEF H
<1>11. Lists(Q.peers) /\ CountsOK(Q)
  BY <1>6 DEF BooksOK, CountsOK
<1>12. Awaiting(Q, h)
  BY <1>5, <1>6, <1>10, <1>11 DEF Awaiting
<1> QED
  BY <1>6, <1>12 DEF Q

LEMMA FewerCounted ==
    ASSUME NEW S, BooksOK(S), NEW R, BooksOK(R), NEW ip \in SourceIPs,
           Holding(R.peers, ip) \subseteq Holding(S.peers, ip)
    PROVE  R.counts[ip] <= S.counts[ip] /\ R.counts[ip] \in Nat /\ S.counts[ip] \in Nat
<1>1. R.counts[ip] = Cardinality(Holding(R.peers, ip)) /\ S.counts[ip] = Cardinality(Holding(S.peers, ip))
  BY DEF BooksOK, CountsOK
<1>2. Cardinality(Holding(R.peers, ip)) <= Cardinality(Holding(S.peers, ip))
  BY HoldingIsFinite, FS_Subset
<1> QED
  BY <1>1, <1>2, HoldingIsFinite

\* Whatever is announced, the store's books stay right.
LEMMA AnnounceOK ==
    ASSUME BooksOK(StoreNow), NEW h \in InfoHashes, NEW ip \in SourceIPs, NEW port \in Ports
    PROVE  BooksOK(announce(h, ip, port))
<1> DEFINE S == pruneSwarm(expireStale(StoreNow), h)
           full == S.peers[h] = << >> /\ Len(S.order) >= MaxStoredHashes
           R == IF full THEN removeSwarm(S, Last(S.order)) ELSE S
           refused == ip \notin IPsIn(S.peers[h]) /\ S.counts[ip] >= MaxHashesPerIP
<1>1. announce(h, ip, port) = IF refused THEN S ELSE Recorded(InFront(R, h), h, ip, port)
  BY DEF announce
<1>2. BooksOK(S)
  BY ExpireStaleOK, PruneSwarmOK
<1> HIDE DEF S
<1>3. CASE refused
  BY <1>1, <1>2, <1>3
<1>4. CASE ~ refused
  <2>1. OrderOK(S.order, Listed(S.peers)) /\ Len(S.order) \in Nat /\ Len(S.order) <= MaxStoredHashes
        /\ S.order \in Seq(InfoHashes)
    BY <1>2, LenProperties DEF BooksOK, OrderOK
  <2>2. /\ BooksOK(R) /\ R.peers[h] = S.peers[h] /\ R.counts[ip] <= S.counts[ip]
        /\ R.counts[ip] \in Nat /\ S.counts[ip] \in Nat
        /\ h \in Listed(R.peers) \/ Len(R.order) < MaxStoredHashes
    <3>1. CASE full
      <4> DEFINE g == Last(S.order)
      <4>1. Len(S.order) \in 1 .. Len(S.order)
        BY <2>1, <3>1, ServerConstants
      <4>2. g = S.order[Len(S.order)]
        BY DEF Last
      <4>3. g \in Listed(S.peers) /\ g \in InfoHashes
        <5> HIDE DEF g
        <5> QED
          BY <2>1, <4>1, <4>2, ElementOfSeq DEF OrderOK
      <4> HIDE DEF g
      <4>4. g # h
        BY <3>1, <4>3 DEF Listed
      <4>5. R = removeSwarm(S, g)
        BY <3>1 DEF g
      <4> HIDE DEF R
      <4>6. BooksOK(R)
        BY <1>2, <4>3, <4>5, RemoveSwarmOK
      <4>7. R.peers = Listing(S, g, << >>)
        BY <1>2, <4>3, <4>5, RemoveSwarmOK
      <4>8. R.order = unlink(S.order, g)
        BY <1>2, <4>3, <4>5, RemoveSwarmOK
      <4>9. \A f \in InfoHashes : R.peers[f] = IF f = g THEN << >> ELSE S.peers[f]
        BY <4>7 DEF Listing
      <4>10. Holding(R.peers, ip) \subseteq Holding(S.peers, ip)
        BY <4>9, EmptyList DEF Holding
      <4>11. R.counts[ip] <= S.counts[ip] /\ R.counts[ip] \in Nat /\ S.counts[ip] \in Nat
        BY <1>2, <4>6, <4>10, FewerCounted
      <4>12. Len(R.order) = Len(S.order) - 1
        BY <2>1, <4>3, <4>8, UnlinkOK
      <4>13. Len(R.order) < MaxStoredHashes
        BY <2>1, <4>12, ServerConstants
      <4>14. R.peers[h] = S.peers[h]
        BY <4>4, <4>9
      <4> QED
        BY <4>6, <4>11, <4>13, <4>14
    <3>2. CASE ~ full
      <4>1. R = S
        BY <3>2
      <4>2. h \in Listed(S.peers) \/ Len(S.order) < MaxStoredHashes
        BY <2>1, <3>2, ServerConstants DEF Listed
      <4>3. S.counts[ip] <= S.counts[ip] /\ S.counts[ip] \in Nat
        BY <1>2, FewerCounted
      <4> HIDE DEF R
      <4> QED
        BY <1>2, <4>1, <4>2, <4>3
    <3> QED
      BY <3>1, <3>2
  <2> HIDE DEF R
  <2> DEFINE Q == InFront(R, h)
  <2>3. Awaiting(Q, h) /\ Q.peers = R.peers /\ Q.counts = R.counts
    BY <2>2, InFrontOK
  <2> HIDE DEF Q
  <2>4. ip \notin IPsIn(Q.peers[h]) => Q.counts[ip] < MaxHashesPerIP
    BY <1>4, <2>2, <2>3, ServerConstants
  <2>5. BooksOK(Recorded(Q, h, ip, port))
    BY <2>3, <2>4, RecordedOK
  <2> QED
    BY <1>1, <1>4, <2>5 DEF Q
<1> QED
  BY <1>3, <1>4

\* A tick later every entry is older, and the list is the same otherwise.
LEMMA AgedOK ==
    ASSUME NEW l, ListOK(l), NEW m,
           m = [i \in DOMAIN l |-> [l[i] EXCEPT !.age = Capped(@ + 1, PeerStoreTTL + 1)]]
    PROVE  ListOK(m) /\ IPsIn(m) = IPsIn(l) /\ (m = << >> <=> l = << >>)
<1>1. l \in Seq(Peers) /\ Len(l) \in Nat /\ DOMAIN l = 1 .. Len(l) /\ \A i \in 1 .. Len(l) : l[i] \in Peers
  BY ListFacts DEF ListOK
<1>2. ASSUME NEW i \in 1 .. Len(l)
      PROVE  /\ m[i] \in Peers /\ m[i].ip = l[i].ip /\ m[i].port = l[i].port
             /\ m[i].age = IF l[i].age + 1 > PeerStoreTTL + 1 THEN PeerStoreTTL + 1 ELSE l[i].age + 1
  <2>1. l[i] \in Peers /\ m[i] = [l[i] EXCEPT !.age = Capped(@ + 1, PeerStoreTTL + 1)]
    BY <1>1
  <2>2. Capped(l[i].age + 1, PeerStoreTTL + 1) \in 0 .. PeerStoreTTL + 1
    BY <2>1, ServerConstants DEF Capped, Peers
  <2> QED
    BY <2>1, <2>2 DEF Peers, Capped
<1>3. DOMAIN m = 1 .. Len(l)
  BY <1>1
<1>4. m \in Seq(Peers) /\ Len(m) = Len(l)
  <2>1. m = [i \in 1 .. Len(l) |-> m[i]]
    BY <1>1
  <2>2. m \in [1 .. Len(l) -> Peers]
    BY <1>2, <2>1
  <2>3. m \in Seq(Peers)
    BY <1>1, <2>2, SeqDef
  <2> QED
    BY <1>1, <1>3, <2>3, LenProperties
<1>5. IPsIn(m) = IPsIn(l) /\ \A ip : PortsIn(m, ip) = PortsIn(l, ip)
  BY <1>1, <1>2, <1>3 DEF IPsIn, PortsIn
<1>6. ASSUME NEW i \in 1 .. Len(m), NEW j \in 1 .. Len(m)
      PROVE  /\ i < j => m[i].age >= m[j].age
             /\ m[i].ip = m[j].ip /\ m[i].port = m[j].port => i = j
  <2>1. /\ l[i].age \in 0 .. PeerStoreTTL + 1 /\ l[j].age \in 0 .. PeerStoreTTL + 1
        /\ i < j => l[i].age >= l[j].age
    BY <1>1, <1>4 DEF ListOK, Peers
  <2>2. i < j => m[i].age >= m[j].age
    <3> DEFINE a == l[i].age
               b == l[j].age
    <3>1. /\ m[i].age = IF a + 1 > PeerStoreTTL + 1 THEN PeerStoreTTL + 1 ELSE a + 1
          /\ m[j].age = IF b + 1 > PeerStoreTTL + 1 THEN PeerStoreTTL + 1 ELSE b + 1
      BY <1>2, <1>4
    <3>2. a \in Nat /\ b \in Nat /\ PeerStoreTTL \in Nat /\ (i < j => a >= b)
      BY <2>1, ServerConstants
    <3> HIDE DEF a, b
    <3> QED
      BY <3>1, <3>2
  <2>3. m[i].ip = m[j].ip /\ m[i].port = m[j].port => i = j
    BY <1>2, <1>4 DEF ListOK
  <2> QED
    BY <2>2, <2>3
<1>7. ListOK(m)
  BY <1>4, <1>5, <1>6 DEF ListOK
<1>8. m = << >> <=> l = << >>
  BY <1>1, <1>4, EmptySeq
<1> QED
  BY <1>5, <1>7, <1>8

----------------------------------------------------------------------------
\* What the server's senders rely on: a refused IP holds its slot, blocked for
\* what is left of its block; a token outlives its secret's generation.
Secrets == {"current", "previous", "gone", "none"}
ServerTyped ==
    /\ slots \in [{LimiterSlot[ip] : ip \in SourceIPs} -> [ip : SourceIPs \cup {NoIP}, tat : Nat, blocked : Nat]]
    /\ secretAge \in 0 .. TokenRotation + 1
    /\ token \in [SourceIPs -> [secret : Secrets, age : 0 .. OldToken]]
    /\ refusedAge \in [SourceIPs -> 0 .. QueryBlockDuration]
BlocksLast ==
    \A ip \in SourceIPs : refusedAge[ip] < QueryBlockDuration =>
      /\ slots[LimiterSlot[ip]].ip = ip
      /\ slots[LimiterSlot[ip]].blocked >= QueryBlockDuration - refusedAge[ip]
TokensTurn ==
    \A ip \in SourceIPs : /\ token[ip].secret = "previous" => token[ip].age >= secretAge
                          /\ token[ip].secret = "gone" => token[ip].age > TokenRotation
ServerInv == ServerTyped /\ BooksOK(StoreNow) /\ BlocksLast /\ TokensTurn

LEMMA SaveOK ==
    ASSUME NEW S, BooksOK(S), Save(S)
    PROVE  BooksOK(StoreNow)'
<1>1. StoreNow' = [order |-> S.order, peers |-> S.peers, counts |-> S.counts]
  BY DEF Save, StoreNow
<1>2. S = [order |-> S.order, peers |-> S.peers, counts |-> S.counts]
  BY DEF BooksOK
<1>3. StoreNow' = S
  BY <1>1, <1>2
<1> QED
  BY <1>3

LEMMA StoreStays ==
    ASSUME BooksOK(StoreNow), UNCHANGED store
    PROVE  BooksOK(StoreNow)'
<1>1. StoreNow' = StoreNow
  BY DEF StoreNow, store
<1> QED
  BY <1>1

LEMMA ServerStarts == ServerInit => ServerInv
<1> SUFFICES ASSUME ServerInit PROVE ServerInv
  OBVIOUS
<1> USE ServerConstants DEF ServerInit
<1>1. ServerTyped
  <2>1. OldToken \in Nat
    BY DEF OldToken
  <2> QED
    BY <2>1 DEF ServerTyped, Secrets
<1>2. BlocksLast /\ TokensTurn
  BY DEF BlocksLast, TokensTurn
<1>3. Lists(peersOf)
  BY EmptyList DEF Lists, ListOK
<1>4. \A ip : Holding(peersOf, ip) = {}
  BY EmptyList DEF Holding
<1>5. Cardinality({}) = 0
  BY FS_EmptySet
<1>6. CountsOK(StoreNow)
  <2>1. StoreNow.peers = peersOf /\ StoreNow.counts = ipHashes
    BY DEF StoreNow
  <2>2. \A ip : Cardinality(Holding(StoreNow.peers, ip)) = 0
    BY <1>4, <1>5, <2>1, Zenon
  <2>3. StoreNow.counts = [ip \in SourceIPs |-> Cardinality(Holding(StoreNow.peers, ip))]
    BY <2>1, <2>2
  <2>4. \A ip \in SourceIPs : Cardinality(Holding(StoreNow.peers, ip)) <= MaxHashesPerIP
    BY <2>2
  <2> QED
    BY <2>3, <2>4 DEF CountsOK
<1>7. OrderOK(swarmOrder, Listed(peersOf))
  <2>1. Listed(peersOf) = {}
    BY DEF Listed
  <2>2. << >> \in Seq(InfoHashes) /\ Len(<< >>) = 0
    BY EmptySeq
  <2> QED
    BY <2>1, <2>2 DEF OrderOK
<1>8. BooksOK(StoreNow)
  <2>1. StoreNow.order = swarmOrder /\ StoreNow.peers = peersOf /\ StoreNow.counts = ipHashes
    BY DEF StoreNow
  <2>2. StoreNow = [order |-> StoreNow.order, peers |-> StoreNow.peers, counts |-> StoreNow.counts]
    BY <2>1 DEF StoreNow
  <2> QED
    BY <1>3, <1>6, <1>7, <2>1, <2>2 DEF BooksOK
<1> QED
  BY <1>1, <1>2, <1>8 DEF ServerInv

\* What a query does to its slot: whoever is blocked there keeps it, blocked.
LEMMA QueryCharges ==
    ASSUME ServerInv, NEW ip \in SourceIPs, Admitted(ip)
    PROVE  /\ slots' \in [{LimiterSlot[i] : i \in SourceIPs} -> [ip : SourceIPs \cup {NoIP}, tat : Nat, blocked : Nat]]
           /\ ~ allow(ip) => slots'[LimiterSlot[ip]].ip = ip /\ slots'[LimiterSlot[ip]].blocked = QueryBlockDuration
           /\ \A i \in SourceIPs : refusedAge[i] < QueryBlockDuration /\ (i # ip \/ allow(ip)) =>
                /\ slots'[LimiterSlot[i]].ip = i
                /\ slots'[LimiterSlot[i]].blocked >= QueryBlockDuration - refusedAge[i]
<1> DEFINE Slots == {LimiterSlot[i] : i \in SourceIPs}
           SlotRecord == [ip : SourceIPs \cup {NoIP}, tat : Nat, blocked : Nat]
           at == LimiterSlot[ip]
           s == SlotFor(ip)
           c == Charged(ip)
<1>1. /\ slots \in [Slots -> SlotRecord] /\ at \in Slots /\ slots' = [slots EXCEPT ![at] = c]
  BY DEF ServerInv, ServerTyped, Admitted
<1>2. s = IF slots[at].ip = ip \/ slots[at].blocked > 0 THEN slots[at] ELSE [ip |-> ip, tat |-> 0, blocked |-> 0]
  BY DEF SlotFor
<1>3. c = IF s.ip # ip THEN s ELSE IF Exceeds(s) THEN [s EXCEPT !.blocked = QueryBlockDuration] ELSE [s EXCEPT !.tat = @ + 1]
  BY DEF Charged
<1>4. allow(ip) <=> (s.ip # ip \/ ~ Exceeds(s))
  BY DEF allow
<1>5. s \in SlotRecord
  BY <1>1, <1>2
<1> HIDE DEF at, s
<1>6. c \in SlotRecord
  BY <1>3, <1>5, ServerConstants
<1>7. ~ allow(ip) => c.ip = ip /\ c.blocked = QueryBlockDuration
  BY <1>3, <1>4, <1>5
<1> HIDE DEF c
<1>8. slots' \in [Slots -> SlotRecord] /\ slots'[at] = c /\ \A x \in Slots : x # at => slots'[x] = slots[x]
  BY <1>1, <1>6
<1>9. ASSUME NEW i \in SourceIPs, refusedAge[i] < QueryBlockDuration, i # ip \/ allow(ip)
      PROVE  /\ slots'[LimiterSlot[i]].ip = i
             /\ slots'[LimiterSlot[i]].blocked >= QueryBlockDuration - refusedAge[i]
  <2>1. /\ slots[LimiterSlot[i]].ip = i /\ LimiterSlot[i] \in Slots
        /\ slots[LimiterSlot[i]].blocked >= QueryBlockDuration - refusedAge[i]
        /\ QueryBlockDuration - refusedAge[i] > 0
    BY <1>9, ServerConstants DEF ServerInv, ServerTyped, BlocksLast
  <2>2. CASE LimiterSlot[i] # at
    BY <1>8, <2>1, <2>2
  <2>3. CASE LimiterSlot[i] = at
    <3>1. slots[at].blocked > 0
      <4>1. slots[at].blocked \in Nat
        BY <1>1
      <4>2. refusedAge[i] \in Int
        BY DEF ServerInv, ServerTyped
      <4> QED
        BY <2>1, <2>3, <4>1, <4>2, ServerConstants
    <3>2. s = slots[at] /\ s.ip = i
      BY <1>2, <2>1, <2>3, <3>1
    <3>3. i # ip
      BY <1>4, <1>9, <3>1, <3>2 DEF Exceeds
    <3>4. c = slots[at]
      BY <1>3, <3>2, <3>3 DEF c
    <3> QED
      BY <1>8, <2>1, <2>3, <3>4
  <2> QED
    BY <2>2, <2>3
<1> QED
  BY <1>7, <1>8, <1>9 DEF at

\* Tokens through the replacement of the secret.
LEMMA TokensTurned ==
    ASSUME ServerInv, NEW kept \in SUBSET SourceIPs,
           secretAge' = IF Rotates THEN 0 ELSE secretAge,
           token' = [i \in SourceIPs |-> IF i \notin kept THEN [secret |-> "current", age |-> 0] ELSE Turned(token[i])]
    PROVE  /\ secretAge' \in 0 .. TokenRotation + 1
           /\ token' \in [SourceIPs -> [secret : Secrets, age : 0 .. OldToken]]
           /\ TokensTurn'
<1>1. /\ secretAge \in 0 .. TokenRotation + 1 /\ TokenRotation \in Nat \ {0} /\ OldToken = 3 * TokenRotation
      /\ \A i \in SourceIPs : token[i] \in [secret : Secrets, age : 0 .. OldToken]
  BY ServerConstants DEF ServerInv, ServerTyped, OldToken
<1>2. secretAge' \in 0 .. TokenRotation + 1
  BY <1>1
<1>3. ASSUME NEW i \in SourceIPs
      PROVE  /\ token'[i] \in [secret : Secrets, age : 0 .. OldToken]
             /\ token'[i].secret = "previous" => token'[i].age >= secretAge'
             /\ token'[i].secret = "gone" => token'[i].age > TokenRotation
  <2> DEFINE t == token[i]
  <2>1. /\ t \in [secret : Secrets, age : 0 .. OldToken]
        /\ t.secret = "previous" => t.age >= secretAge
        /\ t.secret = "gone" => t.age > TokenRotation
    BY <1>1 DEF ServerInv, TokensTurn
  <2>2. CASE i \notin kept
    <3>1. token'[i] = [secret |-> "current", age |-> 0]
      BY <2>2
    <3> QED
      BY <1>1, <3>1 DEF Secrets
  <2>3. CASE i \in kept
    <3>1. token'[i] = Turned(t)
      BY <2>3
    <3> HIDE DEF t
    <3>2. CASE ~ Rotates
      BY <2>1, <3>1, <3>2 DEF Turned
    <3>3. CASE Rotates
      <4> DEFINE n == CASE t.secret = "current" -> "previous" [] t.secret = "previous" -> "gone" [] OTHER -> t.secret
      <4>1. Turned(t) = [t EXCEPT !.secret = n]
        BY <3>3 DEF Turned
      <4>2. /\ n \in Secrets /\ (n = "previous" => t.secret = "current") /\ (n = "gone" => t.secret \in {"previous", "gone"})
        BY <2>1 DEF Secrets
      <4> HIDE DEF n
      <4>3. token'[i].secret = n /\ token'[i].age = t.age /\ token'[i] \in [secret : Secrets, age : 0 .. OldToken]
        BY <2>1, <3>1, <4>1, <4>2
      <4>4. secretAge' = 0 /\ secretAge > TokenRotation
        BY <3>3 DEF Rotates
      <4> QED
        BY <1>1, <2>1, <4>2, <4>3, <4>4
    <3> QED
      BY <3>2, <3>3
  <2> QED
    BY <2>2, <2>3
<1> QED
  BY <1>2, <1>3 DEF TokensTurn

\* Each step keeps the server's books.
LEMMA RefusedKeeps ==
    ASSUME ServerInv, NEW ip \in SourceIPs, Refused(ip)
    PROVE  ServerInv'
<1>1. /\ slots' \in [{LimiterSlot[i] : i \in SourceIPs} -> [ip : SourceIPs \cup {NoIP}, tat : Nat, blocked : Nat]]
      /\ slots'[LimiterSlot[ip]].ip = ip /\ slots'[LimiterSlot[ip]].blocked = QueryBlockDuration
      /\ \A i \in SourceIPs : refusedAge[i] < QueryBlockDuration /\ i # ip =>
           /\ slots'[LimiterSlot[i]].ip = i
           /\ slots'[LimiterSlot[i]].blocked >= QueryBlockDuration - refusedAge[i]
  BY QueryCharges DEF Refused
<1>2. refusedAge' = [refusedAge EXCEPT ![ip] = 0] /\ refusedAge \in [SourceIPs -> 0 .. QueryBlockDuration]
  BY DEF Refused, ServerInv, ServerTyped
<1>3. /\ refusedAge' \in [SourceIPs -> 0 .. QueryBlockDuration]
      /\ refusedAge'[ip] = 0 /\ \A i \in SourceIPs : i # ip => refusedAge'[i] = refusedAge[i]
  BY <1>2, ServerConstants
<1>4. BlocksLast'
  <2>1. ASSUME NEW i \in SourceIPs, refusedAge'[i] < QueryBlockDuration
        PROVE  /\ slots'[LimiterSlot[i]].ip = i
               /\ slots'[LimiterSlot[i]].blocked >= QueryBlockDuration - refusedAge'[i]
    <3>1. CASE i = ip
      BY <1>1, <1>3, <3>1, ServerConstants
    <3>2. CASE i # ip
      BY <1>1, <1>3, <2>1, <3>2
    <3> QED
      BY <3>1, <3>2
  <2> QED
    BY <2>1 DEF BlocksLast
<1>5. UNCHANGED <<secretAge, token>> /\ UNCHANGED store
  BY DEF Refused
<1>6. BooksOK(StoreNow)'
  BY <1>5, StoreStays DEF ServerInv
<1>7. ServerTyped' /\ TokensTurn'
  BY <1>1, <1>3, <1>5 DEF ServerInv, ServerTyped, TokensTurn
<1> QED
  BY <1>4, <1>6, <1>7 DEF ServerInv

\* A query that is let in leaves every block as it is.
LEMMA AdmittedKeeps ==
    ASSUME ServerInv, NEW ip \in SourceIPs, allow(ip), Admitted(ip), UNCHANGED refusedAge
    PROVE  /\ slots' \in [{LimiterSlot[i] : i \in SourceIPs} -> [ip : SourceIPs \cup {NoIP}, tat : Nat, blocked : Nat]]
           /\ BlocksLast'
<1>1. /\ slots' \in [{LimiterSlot[i] : i \in SourceIPs} -> [ip : SourceIPs \cup {NoIP}, tat : Nat, blocked : Nat]]
      /\ \A i \in SourceIPs : refusedAge[i] < QueryBlockDuration =>
           /\ slots'[LimiterSlot[i]].ip = i
           /\ slots'[LimiterSlot[i]].blocked >= QueryBlockDuration - refusedAge[i]
  BY QueryCharges
<1> QED
  BY <1>1 DEF BlocksLast

LEMMA GetPeersKeeps ==
    ASSUME ServerInv, NEW ip \in SourceIPs, GetPeers(ip)
    PROVE  ServerInv'
<1>1. /\ slots' \in [{LimiterSlot[i] : i \in SourceIPs} -> [ip : SourceIPs \cup {NoIP}, tat : Nat, blocked : Nat]]
      /\ BlocksLast'
  BY AdmittedKeeps DEF GetPeers
<1>2. token' = [i \in SourceIPs |-> IF i \notin SourceIPs \ {ip} THEN [secret |-> "current", age |-> 0] ELSE Turned(token[i])]
  BY DEF GetPeers
<1>3. secretAge' = IF Rotates THEN 0 ELSE secretAge
  BY DEF GetPeers
<1>4. /\ secretAge' \in 0 .. TokenRotation + 1
      /\ token' \in [SourceIPs -> [secret : Secrets, age : 0 .. OldToken]]
      /\ TokensTurn'
  BY <1>2, <1>3, TokensTurned
<1>5. BooksOK(StoreNow)'
  BY StoreStays DEF ServerInv, GetPeers
<1>6. ServerTyped'
  BY <1>1, <1>4 DEF ServerInv, ServerTyped, GetPeers
<1> QED
  BY <1>1, <1>4, <1>5, <1>6 DEF ServerInv

LEMMA AnnouncePeerKeeps ==
    ASSUME ServerInv, NEW ip \in SourceIPs, NEW h \in InfoHashes, NEW port \in Ports, AnnouncePeer(ip, h, port)
    PROVE  ServerInv'
<1>1. /\ slots' \in [{LimiterSlot[i] : i \in SourceIPs} -> [ip : SourceIPs \cup {NoIP}, tat : Nat, blocked : Nat]]
      /\ BlocksLast'
  BY AdmittedKeeps DEF AnnouncePeer
<1>2. token' = [i \in SourceIPs |-> IF i \notin SourceIPs THEN [secret |-> "current", age |-> 0] ELSE Turned(token[i])]
  BY DEF AnnouncePeer
<1>3. secretAge' = IF Rotates THEN 0 ELSE secretAge
  BY DEF AnnouncePeer
<1>4. /\ secretAge' \in 0 .. TokenRotation + 1
      /\ token' \in [SourceIPs -> [secret : Secrets, age : 0 .. OldToken]]
      /\ TokensTurn'
  BY <1>2, <1>3, TokensTurned
<1>5. BooksOK(StoreNow)'
  <2>1. CASE Valid(Turned(token[ip]))
    <3>1. Save(announce(h, ip, port))
      BY <2>1 DEF AnnouncePeer
    <3>2. BooksOK(announce(h, ip, port))
      BY AnnounceOK DEF ServerInv
    <3> QED
      BY <3>1, <3>2, SaveOK
  <2>2. CASE ~ Valid(Turned(token[ip]))
    BY <2>2, StoreStays DEF ServerInv, AnnouncePeer
  <2> QED
    BY <2>1, <2>2
<1>6. ServerTyped'
  BY <1>1, <1>4 DEF ServerInv, ServerTyped, AnnouncePeer
<1> QED
  BY <1>1, <1>4, <1>5, <1>6 DEF ServerInv

LEMMA GetFromKeeps ==
    ASSUME ServerInv, NEW h \in InfoHashes, GetFrom(h)
    PROVE  ServerInv'
<1>1. Save(pruneSwarm(StoreNow, h)) /\ UNCHANGED <<slots, secretAge, token, refusedAge>>
  BY DEF GetFrom
<1>2. BooksOK(pruneSwarm(StoreNow, h))
  BY PruneSwarmOK DEF ServerInv
<1>3. BooksOK(StoreNow)'
  BY <1>1, <1>2, SaveOK
<1>4. ServerTyped' /\ BlocksLast' /\ TokensTurn'
  BY <1>1 DEF ServerInv, ServerTyped, BlocksLast, TokensTurn
<1> QED
  BY <1>3, <1>4 DEF ServerInv

LEMMA ServerTickKeeps ==
    ASSUME ServerInv, ServerTick
    PROVE  ServerInv'
<1> USE ServerConstants
<1>1. BooksOK(StoreNow)'
  <2> DEFINE Older(l) == [i \in DOMAIN l |-> [l[i] EXCEPT !.age = Capped(@ + 1, PeerStoreTTL + 1)]]
  <2>1. /\ peersOf' = [h \in InfoHashes |-> Older(peersOf[h])]
        /\ swarmOrder' = swarmOrder /\ ipHashes' = ipHashes
    BY DEF ServerTick
  <2>2. /\ StoreNow.order = swarmOrder /\ StoreNow.peers = peersOf /\ StoreNow.counts = ipHashes
        /\ StoreNow' = [order |-> swarmOrder', peers |-> peersOf', counts |-> ipHashes']
    BY DEF StoreNow
  <2>3. Lists(peersOf) /\ CountsOK(StoreNow) /\ OrderOK(swarmOrder, Listed(peersOf))
    BY <2>2 DEF ServerInv, BooksOK
  <2>4. ASSUME NEW h \in InfoHashes
        PROVE  /\ ListOK(peersOf'[h]) /\ IPsIn(peersOf'[h]) = IPsIn(peersOf[h])
               /\ (peersOf'[h] = << >> <=> peersOf[h] = << >>)
    <3> DEFINE l == peersOf[h]
               m == peersOf'[h]
    <3>1. ListOK(l) /\ m = Older(l)
      BY <2>1, <2>3 DEF Lists
    <3> HIDE DEF l, m
    <3>2. ListOK(m)
      BY <3>1, AgedOK
    <3>3. IPsIn(m) = IPsIn(l)
      BY <3>1, AgedOK
    <3>4. m = << >> <=> l = << >>
      BY <3>1, AgedOK
    <3> QED
      BY <3>2, <3>3, <3>4 DEF l, m
  <2>5. Lists(peersOf')
    BY <2>1, <2>4 DEF Lists, ListOK
  <2>6. Listed(peersOf') = Listed(peersOf) /\ \A ip : Holding(peersOf', ip) = Holding(peersOf, ip)
    BY <2>4 DEF Listed, Holding
  <2>7. StoreNow'.order = swarmOrder /\ StoreNow'.peers = peersOf' /\ StoreNow'.counts = ipHashes
    BY <2>1, <2>2
  <2>8. CountsOK(StoreNow')
    BY <2>2, <2>3, <2>6, <2>7 DEF CountsOK
  <2>9. StoreNow' = [order |-> (StoreNow').order, peers |-> (StoreNow').peers, counts |-> (StoreNow').counts]
    BY <2>2
  <2>10. BooksOK(StoreNow')
    BY <2>3, <2>5, <2>6, <2>7, <2>8, <2>9 DEF BooksOK
  <2> QED
    BY <2>10
<1>2. /\ slots \in [{LimiterSlot[i] : i \in SourceIPs} -> [ip : SourceIPs \cup {NoIP}, tat : Nat, blocked : Nat]]
      /\ secretAge \in 0 .. TokenRotation + 1 /\ TokenRotation \in Nat \ {0} /\ OldToken = 3 * TokenRotation
      /\ token \in [SourceIPs -> [secret : Secrets, age : 0 .. OldToken]]
      /\ refusedAge \in [SourceIPs -> 0 .. QueryBlockDuration]
  BY DEF ServerInv, ServerTyped, OldToken
<1>3. ASSUME NEW s \in {LimiterSlot[i] : i \in SourceIPs}
      PROVE  /\ slots'[s] \in [ip : SourceIPs \cup {NoIP}, tat : Nat, blocked : Nat]
             /\ slots'[s].ip = slots[s].ip /\ slots[s].blocked \in Nat
             /\ slots'[s].blocked = IF slots[s].blocked > 0 THEN slots[s].blocked - 1 ELSE 0
  <2> DEFINE tat == IF slots[s].tat > 0 THEN slots[s].tat - 1 ELSE 0
             blocked == IF slots[s].blocked > 0 THEN slots[s].blocked - 1 ELSE 0
  <2>1. slots'[s] = [slots[s] EXCEPT !.tat = IF @ > 0 THEN @ - 1 ELSE 0, !.blocked = IF @ > 0 THEN @ - 1 ELSE 0]
    BY <1>2 DEF ServerTick
  <2>2. slots'[s] = [[slots[s] EXCEPT !.tat = tat] EXCEPT !.blocked = blocked]
    BY <2>1, Zenon
  <2>3. slots[s] \in [ip : SourceIPs \cup {NoIP}, tat : Nat, blocked : Nat] /\ tat \in Nat /\ blocked \in Nat
    BY <1>2
  <2> HIDE DEF tat, blocked
  <2>4. /\ slots'[s] \in [ip : SourceIPs \cup {NoIP}, tat : Nat, blocked : Nat]
        /\ slots'[s].ip = slots[s].ip /\ slots'[s].blocked = blocked
    BY <2>2, <2>3
  <2> QED
    BY <2>3, <2>4 DEF blocked
<1>4. slots' \in [{LimiterSlot[i] : i \in SourceIPs} -> [ip : SourceIPs \cup {NoIP}, tat : Nat, blocked : Nat]]
  BY <1>2, <1>3 DEF ServerTick
<1>5. /\ refusedAge' \in [SourceIPs -> 0 .. QueryBlockDuration]
      /\ \A i \in SourceIPs : refusedAge'[i] < QueryBlockDuration => refusedAge'[i] = refusedAge[i] + 1 /\ refusedAge[i] < QueryBlockDuration
  <2>1. \A i \in SourceIPs : refusedAge[i] \in 0 .. QueryBlockDuration /\ refusedAge'[i] = Capped(refusedAge[i] + 1, QueryBlockDuration)
    BY <1>2 DEF ServerTick
  <2>2. refusedAge' = [i \in SourceIPs |-> refusedAge'[i]]
    BY DEF ServerTick
  <2> QED
    BY <2>1, <2>2 DEF Capped
<1>6. BlocksLast'
  <2>1. ASSUME NEW i \in SourceIPs, refusedAge'[i] < QueryBlockDuration
        PROVE  /\ slots'[LimiterSlot[i]].ip = i
               /\ slots'[LimiterSlot[i]].blocked >= QueryBlockDuration - refusedAge'[i]
    <3>1. /\ refusedAge'[i] = refusedAge[i] + 1 /\ refusedAge[i] < QueryBlockDuration /\ refusedAge[i] \in Nat
      BY <1>2, <1>5, <2>1
    <3>2. slots[LimiterSlot[i]].ip = i /\ slots[LimiterSlot[i]].blocked >= QueryBlockDuration - refusedAge[i]
      BY <3>1 DEF ServerInv, BlocksLast
    <3>3. /\ slots'[LimiterSlot[i]].ip = i /\ slots[LimiterSlot[i]].blocked \in Nat
          /\ slots'[LimiterSlot[i]].blocked = IF slots[LimiterSlot[i]].blocked > 0 THEN slots[LimiterSlot[i]].blocked - 1 ELSE 0
      BY <1>3, <3>2
    <3> QED
      BY <3>1, <3>2, <3>3
  <2> QED
    BY <2>1 DEF BlocksLast
<1>7. secretAge' \in 0 .. TokenRotation + 1 /\ secretAge' <= secretAge + 1
  <2>1. secretAge' = IF secretAge + 1 > TokenRotation + 1 THEN TokenRotation + 1 ELSE secretAge + 1
    BY DEF ServerTick, Capped
  <2> QED
    BY <1>2, <2>1
<1>8. ASSUME NEW i \in SourceIPs
      PROVE  /\ token'[i] \in [secret : Secrets, age : 0 .. OldToken]
             /\ token'[i].secret = "previous" => token'[i].age >= secretAge'
             /\ token'[i].secret = "gone" => token'[i].age > TokenRotation
  <2>1. token'[i] = [token[i] EXCEPT !.age = Capped(@ + 1, OldToken)]
    BY DEF ServerTick
  <2>2. token[i] \in [secret : Secrets, age : 0 .. OldToken]
    BY <1>2
  <2>3. Capped(token[i].age + 1, OldToken) \in 0 .. OldToken
    BY <1>2, <2>2 DEF Capped
  <2>4. /\ token'[i] \in [secret : Secrets, age : 0 .. OldToken] /\ token'[i].secret = token[i].secret
        /\ token'[i].age = Capped(token[i].age + 1, OldToken)
    BY <2>1, <2>2, <2>3
  <2>5. /\ token[i].secret = "previous" => token[i].age >= secretAge
        /\ token[i].secret = "gone" => token[i].age > TokenRotation
    BY DEF ServerInv, TokensTurn
  <2>6. token[i].age \in Nat
    BY <1>2, <2>2
  <2> QED
    BY <1>2, <1>7, <2>4, <2>5, <2>6 DEF Capped
<1>9. token' \in [SourceIPs -> [secret : Secrets, age : 0 .. OldToken]]
  BY <1>8 DEF ServerTick
<1>10. TokensTurn'
  BY <1>8 DEF TokensTurn
<1>11. ServerTyped'
  BY <1>4, <1>5, <1>7, <1>9 DEF ServerTyped
<1> QED
  BY <1>1, <1>6, <1>10, <1>11 DEF ServerInv

LEMMA ServerInvariant == ServerSpec => []ServerInv
<1>1. ServerInit => ServerInv
  BY ServerStarts
<1>2. ServerInv /\ [ServerNext]_serverVars => ServerInv'
  <2> SUFFICES ASSUME ServerInv, [ServerNext]_serverVars PROVE ServerInv'
    OBVIOUS
  <2>1. CASE \E ip \in SourceIPs : Refused(ip)
    BY <2>1, RefusedKeeps
  <2>2. CASE \E ip \in SourceIPs : GetPeers(ip)
    BY <2>2, GetPeersKeeps
  <2>3. CASE \E ip \in SourceIPs, h \in InfoHashes, port \in Ports : AnnouncePeer(ip, h, port)
    BY <2>3, AnnouncePeerKeeps
  <2>4. CASE \E h \in InfoHashes : GetFrom(h)
    BY <2>4, GetFromKeeps
  <2>5. CASE ServerTick
    BY <2>5, ServerTickKeeps
  <2>6. CASE UNCHANGED serverVars
    <3>1. UNCHANGED <<slots, secretAge, token, refusedAge>> /\ UNCHANGED store
      BY <2>6 DEF serverVars, store
    <3>2. BooksOK(StoreNow)'
      BY <3>1, StoreStays DEF ServerInv
    <3> QED
      BY <3>1, <3>2 DEF ServerInv, ServerTyped, BlocksLast, TokensTurn
  <2> QED
    BY <2>1, <2>2, <2>3, <2>4, <2>5, <2>6 DEF ServerNext
<1> QED
  BY <1>1, <1>2, PTL DEF ServerSpec

\* ServerKeepsBooks (handleQuery, peerstore.go, ratelimit.go, validateToken): the
\* store's counts, its order and its caps agree through every announce,
\* eviction and expiry; a refused IP stays refused for its block whoever shares
\* its slot; a token is good for at least the life of a secret.
THEOREM ServerBooksKept == ServerSpec => []ServerKeepsBooks
<1>1. ASSUME ServerInv PROVE StoreConsistent
  <2>1. /\ CountsOK(StoreNow) /\ OrderOK(swarmOrder, Listed(peersOf)) /\ Lists(peersOf)
        /\ StoreNow.peers = peersOf /\ StoreNow.counts = ipHashes
    BY <1>1 DEF ServerInv, BooksOK, StoreNow
  <2>2. DOMAIN swarmOrder = 1 .. Len(swarmOrder) /\ Len(swarmOrder) <= MaxStoredHashes
    BY <2>1, LenProperties DEF OrderOK
  <2>3. ToSet(swarmOrder) = {h \in InfoHashes : peersOf[h] # << >>}
    BY <2>1, <2>2 DEF OrderOK, Listed, ToSet
  <2>4. \A ip \in SourceIPs :
          /\ ipHashes[ip] = Cardinality({h \in ToSet(swarmOrder) : ip \in IPsIn(peersOf[h])})
          /\ ipHashes[ip] <= MaxHashesPerIP
    <3>1. \A ip : {h \in ToSet(swarmOrder) : ip \in IPsIn(peersOf[h])} = Holding(peersOf, ip)
      BY <2>3, EmptyList DEF Holding
    <3> QED
      BY <2>1, <3>1 DEF CountsOK
  <2>5. IsInjective(swarmOrder)
    BY <2>1, <2>2 DEF OrderOK, IsInjective
  <2>6. ASSUME NEW h \in ToSet(swarmOrder)
        PROVE  /\ Len(peersOf[h]) <= MaxPeersPerHash
               /\ \A i, j \in DOMAIN peersOf[h] : i < j => peersOf[h][i].age >= peersOf[h][j].age
               /\ \A i, j \in DOMAIN peersOf[h] :
                    peersOf[h][i].ip = peersOf[h][j].ip /\ peersOf[h][i].port = peersOf[h][j].port => i = j
               /\ \A ip \in SourceIPs : Cardinality(PortsIn(peersOf[h], ip)) <= MaxPeersPerIPPerHash
    <3>1. ListOK(peersOf[h])
      BY <2>1, <2>3 DEF Lists
    <3>2. DOMAIN peersOf[h] = 1 .. Len(peersOf[h])
      BY <3>1, LenProperties DEF ListOK
    <3> QED
      BY <3>1, <3>2 DEF ListOK
  <2> QED
    BY <2>2, <2>3, <2>4, <2>5, <2>6 DEF StoreConsistent
<1>2. ASSUME ServerInv PROVE BlockHolds
  <2> SUFFICES ASSUME NEW ip \in SourceIPs, refusedAge[ip] < QueryBlockDuration PROVE ~ allow(ip)
    BY DEF BlockHolds
  <2> DEFINE s == slots[LimiterSlot[ip]]
  <2>1. s.ip = ip /\ s.blocked >= QueryBlockDuration - refusedAge[ip] /\ s.blocked \in Nat
        /\ refusedAge[ip] \in Nat
    BY <1>2, ServerConstants DEF ServerInv, ServerTyped, BlocksLast
  <2>2. s.blocked > 0
    <3> HIDE DEF s
    <3> QED
      BY <2>1, ServerConstants
  <2>3. SlotFor(ip) = s
    BY <2>1 DEF SlotFor
  <2> QED
    BY <2>1, <2>2, <2>3 DEF allow, Exceeds
<1>3. ASSUME ServerInv PROVE TokenLasts
  <2> SUFFICES ASSUME NEW ip \in SourceIPs, token[ip].secret # "none", token[ip].age <= TokenRotation
               PROVE  Valid(Turned(token[ip]))
    BY DEF TokenLasts
  <2> DEFINE t == token[ip]
  <2>1. /\ t \in [secret : Secrets, age : 0 .. OldToken] /\ OldToken \in Nat /\ TokenRotation \in Nat
        /\ secretAge \in Nat
        /\ (t.secret = "previous" => t.age >= secretAge) /\ (t.secret = "gone" => t.age > TokenRotation)
    BY <1>3, ServerConstants DEF ServerInv, ServerTyped, TokensTurn, OldToken
  <2>2. t.secret # "none" /\ t.age <= TokenRotation
    OBVIOUS
  <2> HIDE DEF t
  <2>3. t.age \in Nat /\ t.secret \in Secrets
    BY <2>1
  <2>4. t.secret \in {"current", "previous"}
    BY <2>1, <2>2, <2>3 DEF Secrets
  <2>5. CASE ~ Rotates
    BY <2>4, <2>5 DEF Turned, Valid, t
  <2>6. CASE Rotates
    <3>1. t.secret = "current"
      BY <2>1, <2>2, <2>3, <2>4, <2>6 DEF Rotates
    <3>2. Turned(t).secret = "previous"
      BY <2>1, <2>6, <3>1 DEF Turned
    <3> QED
      BY <3>2 DEF Valid, t
  <2> QED
    BY <2>5, <2>6
<1>4. ServerInv => ServerKeepsBooks
  BY <1>1, <1>2, <1>3 DEF ServerKeepsBooks
<1> QED
  BY <1>4, ServerInvariant, PTL
=============================================================================
