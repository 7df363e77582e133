---------------------------- MODULE Peers_proofs ----------------------------
(* Proofs about how a session finds its peers and holds on to them, each for *)
(* every value of the constants.                                             *)
(*                                                                           *)
(* The lookup scheduler (LookupScheduler.tla): the map of queued lookups and *)
(* the two queues agree, requests keep what was asked, and nothing runs once *)
(* Close has returned: SchedulerSafety.                                      *)
(*                                                                           *)
(* Admission (PeerConnections.tla): the connections a session has admitted,  *)
(* its entries, its count per host and its owner per peer agree, a peer has  *)
(* one open connection at most and a refused one none: AdmissionHolds.  The  *)
(* sessions' steps are taken one at a time for the session that takes it;    *)
(* what they need of the others is that a connection both ends know of is on *)
(* the path its dial took.                                                   *)
EXTENDS LookupScheduler, PeerConnections, FiniteSetTheorems, SequenceTheorems, TLAPS

-----------------------------------------------------------------------------
(* What the three queue operations do to the elements of a queue.            *)

\* A new element at the end.
LEMMA AppendElements ==
  ASSUME NEW S, NEW q \in Seq(S), NEW x \in S
  PROVE  /\ Append(q, x) \in Seq(S)
         /\ Elements(Append(q, x)) = Elements(q) \cup {x}
         /\ Distinct(q) /\ x \notin Elements(q) => Distinct(Append(q, x))
<1> DEFINE a == Append(q, x)
<1>1. /\ a \in Seq(S) /\ Len(a) = Len(q) + 1 /\ a[Len(q) + 1] = x
      /\ \A i \in 1..Len(q) : a[i] = q[i]
  OBVIOUS
<1>2. 1..Len(a) = (1..Len(q)) \cup {Len(q) + 1} /\ Len(q) \in Nat
  BY <1>1
<1> HIDE DEF a
<1>3. Elements(a) = Elements(q) \cup {x}
  BY <1>1, <1>2 DEF Elements
<1>4. ASSUME Distinct(q), x \notin Elements(q) PROVE Distinct(a)
  BY <1>1, <1>2, <1>4 DEF Elements, Distinct
<1> QED BY <1>1, <1>3, <1>4 DEF a

\* The queue without its last element.
LEMMA FrontElements ==
  ASSUME NEW S, NEW q \in Seq(S), q # <<>>, Distinct(q)
  PROVE  /\ SubSeq(q, 1, Len(q) - 1) \in Seq(S)
         /\ q[Len(q)] \in Elements(q)
         /\ Elements(SubSeq(q, 1, Len(q) - 1)) = Elements(q) \ {q[Len(q)]}
         /\ Distinct(SubSeq(q, 1, Len(q) - 1))
<1> DEFINE f == SubSeq(q, 1, Len(q) - 1)
<1>0. Len(q) \in Nat \ {0}
  OBVIOUS
<1>1. /\ f \in Seq(S) /\ Len(f) = Len(q) - 1
      /\ \A i \in 1..(Len(q) - 1) : f[i] = q[i]
  <2>1. \A i \in 1..(Len(q) - 1) : q[i] \in S
    BY <1>0
  <2>2. \A i \in 1..(Len(q) - 1) : 1 + i - 1 = i
    BY <1>0
  <2>3. /\ f \in Seq(S)
        /\ Len(f) = IF 1 <= Len(q) - 1 THEN Len(q) - 1 - 1 + 1 ELSE 0
        /\ \A i \in 1..(Len(q) - 1 - 1 + 1) : f[i] = q[1 + i - 1]
    BY <1>0, <2>1, SubSeqProperties
  <2>4. Len(q) - 1 - 1 + 1 = Len(q) - 1 /\ (1 <= Len(q) - 1 \/ Len(q) - 1 = 0)
    <3>1. \A n \in Nat : n # 0 => n - 1 - 1 + 1 = n - 1 /\ (1 <= n - 1 \/ n - 1 = 0)
      OBVIOUS
    <3> QED BY <1>0, <3>1
  <2> QED BY <2>2, <2>3, <2>4
<1>2. 1..Len(q) = (1..Len(f)) \cup {Len(q)} /\ Len(q) \notin 1..Len(f)
  BY <1>0, <1>1
<1> HIDE DEF f
<1>3. q[Len(q)] \in Elements(q)
  BY <1>2 DEF Elements
<1>4. Elements(f) = Elements(q) \ {q[Len(q)]}
  BY <1>1, <1>2 DEF Elements, Distinct
<1>5. Distinct(f)
  BY <1>1, <1>2 DEF Distinct
<1> QED BY <1>1, <1>3, <1>4, <1>5 DEF f

\* The queue without its first element.
LEMMA TailElements ==
  ASSUME NEW S, NEW q \in Seq(S), q # <<>>, Distinct(q)
  PROVE  /\ Tail(q) \in Seq(S)
         /\ q[1] \in Elements(q)
         /\ Elements(Tail(q)) = Elements(q) \ {q[1]}
         /\ Distinct(Tail(q))
<1> DEFINE t == Tail(q)
<1>0. Len(q) \in Nat \ {0}
  OBVIOUS
<1>1. /\ t \in Seq(S) /\ Len(t) = Len(q) - 1
      /\ \A i \in 1..Len(t) : t[i] = q[i + 1]
  BY <1>0
<1>2. /\ \A i \in 1..Len(t) : i + 1 \in 1..Len(q) /\ i + 1 # 1
      /\ \A j \in 1..Len(q) : j = 1 \/ (j - 1 \in 1..Len(t) /\ t[j - 1] = q[j])
      /\ 1 \in 1..Len(q)
  BY <1>0, <1>1
<1> HIDE DEF t
<1>3. q[1] \in Elements(q)
  BY <1>2 DEF Elements
<1>4. Elements(t) = Elements(q) \ {q[1]}
  <2>1. \A e \in Elements(t) : e \in Elements(q) /\ e # q[1]
    BY <1>1, <1>2 DEF Elements, Distinct
  <2>2. \A e \in Elements(q) : e = q[1] \/ e \in Elements(t)
    BY <1>2 DEF Elements
  <2>3. q[1] \notin Elements(t)
    BY <2>1
  <2> QED BY <2>1, <2>2, <2>3
<1>5. Distinct(t)
  BY <1>0, <1>1, <1>2 DEF Distinct
<1> QED BY <1>1, <1>3, <1>4, <1>5 DEF t

\* The empty queue, and that only it has no elements.
LEMMA EmptyQueue ==
  /\ Elements(<<>>) = {} /\ Distinct(<<>>)
  /\ \A S : <<>> \in Seq(S)
  /\ \A S : \A q \in Seq(S) : Elements(q) = {} => q = <<>>
<1>1. Elements(<<>>) = {} /\ Distinct(<<>>) /\ \A S : <<>> \in Seq(S)
  BY DEF Elements, Distinct
<1>2. ASSUME NEW S, NEW q \in Seq(S), Elements(q) = {} PROVE q = <<>>
  <2>1. Len(q) \in Nat /\ (Len(q) > 0 => q[1] \in Elements(q))
    BY DEF Elements
  <2>2. Len(q) = 0
    BY <2>1, <1>2
  <2> QED BY <2>2
<1> QED BY <1>1, <1>2

-----------------------------------------------------------------------------
(* The limits are over finite sets; adding one element to a set that is below *)
(* its limit keeps it within.                                                 *)

\* Below a limit there is room for one more.
LEMMA WithinAfterAdding ==
  ASSUME NEW S, IsFiniteSet(S), NEW x, NEW limit \in Nat,
         Cardinality(S) < limit
  PROVE  Cardinality(S \cup {x}) <= limit
<1>1. Cardinality(S) \in Nat
  BY FS_CardinalityType
<1>2. Cardinality(S \cup {x}) = IF x \in S THEN Cardinality(S) ELSE Cardinality(S) + 1
  BY FS_AddElement
<1> QED BY <1>1, <1>2

\* A subset is within the limits of its set.
LEMMA WithinSubset ==
  ASSUME NEW S, IsFiniteSet(S), NEW T \in SUBSET S, NEW limit \in Nat,
         Cardinality(S) <= limit
  PROVE  Cardinality(T) <= limit
BY FS_Subset, FS_CardinalityType

\* Subsets of InfoHash are finite.
LEMMA HashesFinite ==
  ASSUME NEW S \in SUBSET InfoHash
  PROVE  IsFiniteSet(S) /\ Cardinality(S) \in Nat
BY FS_Subset, FS_CardinalityType, LookupAssumption

-----------------------------------------------------------------------------
(* The inductive invariant: types and limits, and the agreement of the map   *)
(* with the queues, which is what makes take's indexing well typed.          *)
Inv == SchedulerTypeOK /\ QueuesMatchPending

\* Queued lookups are of info hashes.
LEMMA QueuedHashes == ASSUME SchedulerTypeOK PROVE Queued \subseteq InfoHash
BY DEF Queued

\* Empty queues agree with an empty map.
LEMMA InitInv == LookupInit => Inv
<1> SUFFICES ASSUME LookupInit PROVE Inv
  OBVIOUS
<1>1. Queued = {}
  BY DEF LookupInit, Queued, NotQueued
<1>2. NotQueued \in Entry
  BY LookupAssumption DEF NotQueued, Entry
<1>3. SchedulerTypeOK
  <2>1. Cardinality({}) = 0 /\ <<>> \in Seq(InfoHash)
    BY FS_EmptySet
  <2>2. running = {} /\ seen = {}
    BY DEF LookupInit
  <2>3. /\ Cardinality(running) <= MaxConcurrent
        /\ Cardinality(Queued) <= MaxQueued
        /\ Cardinality(seen) <= MaxRemembered
    BY <1>1, <2>1, <2>2, LookupAssumption
  <2> QED BY <1>2, <2>1, <2>3 DEF LookupInit, SchedulerTypeOK
<1>4. QueuesMatchPending
  BY <1>1, EmptyQueue DEF LookupInit, QueuesMatchPending
<1> QED BY <1>3, <1>4 DEF Inv

\* A step that leaves the map and the queues alone and adds nothing to running
\* keeps what the invariant says of them.
LEMMA QueuesUntouched ==
  ASSUME Inv, UNCHANGED queueVars, running' \subseteq running
  PROVE  /\ QueuesMatchPending' /\ Queued' = Queued
         /\ Cardinality(running') <= MaxConcurrent
<1>1. Queued' = Queued
  BY DEF queueVars, Queued
<1>2. QueuesMatchPending'
  BY <1>1 DEF Inv, QueuesMatchPending, queueVars
<1>3. Cardinality(running') <= MaxConcurrent
  BY HashesFinite, WithinSubset, LookupAssumption DEF Inv, SchedulerTypeOK
<1> QED BY <1>1, <1>2, <1>3

\* Merging changes the request of a queued lookup, and perhaps which queue it
\* waits in.
LEMMA MergeInv ==
  ASSUME Inv, NEW h \in InfoHash, NEW r \in Request, MergeRequest(h, r)
  PROVE  Inv'
<1> USE DEF Inv
<1>1. pending[h] \in Entry /\ pending[h].queued
  BY DEF MergeRequest, SchedulerTypeOK, Queued
<1>2. Merge(pending[h], r) \in Entry /\ Merge(pending[h], r).queued
  BY <1>1 DEF Merge, Entry, Request
<1>3. Queued' = Queued
  BY <1>1, <1>2 DEF MergeRequest, Queued, SchedulerTypeOK
<1>4. SchedulerTypeOK'
  BY <1>2, <1>3 DEF MergeRequest, SchedulerTypeOK, shutdownVars
<1>5. QueuesMatchPending'
  BY <1>3 DEF MergeRequest, QueuesMatchPending
<1> QED BY <1>4, <1>5

\* A new request enters one queue and the map.
LEMMA QueueInv ==
  ASSUME Inv, NEW h \in InfoHash, NEW r \in Request, QueueRequest(h, r)
  PROVE  Inv'
<1> USE DEF Inv
<1>1. Queue(r) \in Entry /\ Queue(r).queued
  BY DEF Queue, Entry, Request
<1>2. /\ Queued' = Queued \cup {h} /\ h \notin Queued /\ h \notin running
      /\ Cardinality(Queued) < MaxQueued
  BY <1>1 DEF QueueRequest, Accepts, Queued, SchedulerTypeOK
<1>3. Cardinality(Queued') <= MaxQueued
  BY <1>2, QueuedHashes, HashesFinite, WithinAfterAdding, LookupAssumption
<1>4. h \notin Elements(urgent) /\ h \notin Elements(routine)
  BY <1>2 DEF QueuesMatchPending
<1>5. urgent \in Seq(InfoHash) /\ routine \in Seq(InfoHash)
  BY DEF SchedulerTypeOK
<1>6. CASE IsUrgent(h)
  <2>1. urgent' = Append(urgent, h) /\ routine' = routine /\ running' = running
    BY <1>6 DEF QueueRequest
  <2>2. /\ urgent' \in Seq(InfoHash) /\ Distinct(urgent')
        /\ Elements(urgent') = Elements(urgent) \cup {h}
    BY <1>4, <1>5, <2>1, AppendElements DEF QueuesMatchPending
  <2>3. SchedulerTypeOK'
    BY <1>1, <1>3, <2>1, <2>2 DEF QueueRequest, SchedulerTypeOK, Signal, shutdownVars
  <2>4. QueuesMatchPending'
    BY <1>2, <1>4, <2>1, <2>2 DEF QueuesMatchPending
  <2> QED BY <2>3, <2>4
<1>7. CASE ~IsUrgent(h)
  <2>1. routine' = Append(routine, h) /\ urgent' = urgent /\ running' = running
    BY <1>7 DEF QueueRequest
  <2>2. /\ routine' \in Seq(InfoHash) /\ Distinct(routine')
        /\ Elements(routine') = Elements(routine) \cup {h}
    BY <1>4, <1>5, <2>1, AppendElements DEF QueuesMatchPending
  <2>3. SchedulerTypeOK'
    BY <1>1, <1>3, <2>1, <2>2 DEF QueueRequest, SchedulerTypeOK, Signal, shutdownVars
  <2>4. QueuesMatchPending'
    BY <1>2, <1>4, <2>1, <2>2 DEF QueuesMatchPending
  <2> QED BY <2>3, <2>4
<1> QED BY <1>6, <1>7

\* What take does to the queue it serves.
LEMMA TakeQueues ==
  ASSUME Inv, Take
  PROVE  /\ NextLookup \in Queued
         /\ urgent' \in Seq(InfoHash) /\ routine' \in Seq(InfoHash)
         /\ Distinct(urgent') /\ Distinct(routine')
         /\ Elements(urgent') = Elements(urgent) \ {NextLookup}
         /\ Elements(routine') = Elements(routine) \ {NextLookup}
<1> USE DEF Inv
<1>1. urgent \in Seq(InfoHash) /\ routine \in Seq(InfoHash)
  BY DEF SchedulerTypeOK
<1>2. Distinct(urgent) /\ Distinct(routine)
  BY DEF QueuesMatchPending
<1>3. CASE urgent # <<>>
  <2>1. /\ NextLookup = urgent[Len(urgent)] /\ routine' = routine
        /\ urgent' = SubSeq(urgent, 1, Len(urgent) - 1)
    BY <1>3 DEF Take, NextLookup
  <2>2. /\ urgent' \in Seq(InfoHash) /\ NextLookup \in Elements(urgent)
        /\ Elements(urgent') = Elements(urgent) \ {NextLookup}
        /\ Distinct(urgent')
    BY <1>1, <1>2, <1>3, <2>1, FrontElements
  <2> QED BY <1>1, <1>2, <2>1, <2>2 DEF QueuesMatchPending
<1>4. CASE urgent = <<>>
  <2>1. /\ NextLookup = routine[1] /\ urgent' = urgent /\ routine' = Tail(routine)
    BY <1>4 DEF Take, NextLookup
  <2>2. Elements(urgent) = {} /\ routine # <<>>
    BY <1>1, <1>4, EmptyQueue DEF Take, Startable, QueuesMatchPending
  <2>3. /\ routine' \in Seq(InfoHash) /\ NextLookup \in Elements(routine)
        /\ Elements(routine') = Elements(routine) \ {NextLookup}
        /\ Distinct(routine')
    BY <1>1, <1>2, <2>1, <2>2, TailElements
  <2> QED BY <1>1, <1>2, <2>1, <2>2, <2>3 DEF QueuesMatchPending
<1> QED BY <1>3, <1>4

\* The dispatcher takes the head of a queue out of both.
LEMMA TakeInv == ASSUME Inv, Take PROVE Inv'
<1> DEFINE h == NextLookup
<1>1. h \in Queued /\ h \in InfoHash
  BY TakeQueues, QueuedHashes DEF Inv
<1>2. /\ pending' = [pending EXCEPT ![h] = NotQueued]
      /\ running' = running \cup {h} /\ seen' = Remember(h)
      /\ taken' = {h} /\ asked' = [asked EXCEPT ![h] = {}]
      /\ Cardinality(running) < MaxConcurrent
  BY DEF Take, Startable
<1> HIDE DEF h
<1> USE DEF Inv
<1>3. NotQueued \in Entry /\ ~NotQueued.queued
  BY LookupAssumption DEF NotQueued, Entry
<1>4. Queued' = Queued \ {h}
  BY <1>1, <1>2, <1>3 DEF Queued, SchedulerTypeOK
<1>5. Cardinality(Queued') <= MaxQueued
  BY <1>4, QueuedHashes, HashesFinite, WithinSubset, LookupAssumption DEF SchedulerTypeOK
<1>6. Cardinality(running') <= MaxConcurrent
  BY <1>2, HashesFinite, WithinAfterAdding, LookupAssumption DEF SchedulerTypeOK
<1>7. seen' \subseteq InfoHash /\ Cardinality(seen') <= MaxRemembered
  BY <1>1, <1>2, HashesFinite, WithinAfterAdding, LookupAssumption
     DEF SchedulerTypeOK, Remember
<1>8. SchedulerTypeOK'
  <2>1. /\ pending' \in [InfoHash -> Entry] /\ asked' \in [InfoHash -> SUBSET Request]
        /\ running' \subseteq InfoHash /\ taken' \subseteq InfoHash
    BY <1>1, <1>2, <1>3 DEF SchedulerTypeOK
  <2>2. urgent' \in Seq(InfoHash) /\ routine' \in Seq(InfoHash)
    BY TakeQueues
  <2> QED BY <1>5, <1>6, <1>7, <2>1, <2>2 DEF Take, SchedulerTypeOK, shutdownVars
<1>9. QueuesMatchPending'
  BY <1>1, <1>2, <1>4, TakeQueues DEF QueuesMatchPending, h
<1> QED BY <1>8, <1>9

\* Closing empties the queues and the map.
LEMMA CloseSchedulerInv == ASSUME Inv, CloseScheduler PROVE Inv'
<1> USE DEF Inv
<1>1. Queued' = {} /\ NotQueued \in Entry
  BY LookupAssumption DEF CloseScheduler, Queued, NotQueued, Entry
<1>2. SchedulerTypeOK'
  BY <1>1, EmptyQueue, FS_EmptySet, LookupAssumption DEF CloseScheduler, SchedulerTypeOK
<1>3. QueuesMatchPending'
  BY <1>1, EmptyQueue DEF CloseScheduler, QueuesMatchPending
<1> QED BY <1>2, <1>3

\* The dispatcher's other steps, the end of a lookup and the rest of Close do
\* not touch the queues.
LEMMA OtherInv ==
  ASSUME Inv,
         \/ StartDispatcher \/ Spawn \/ NothingToStart \/ Wakes \/ DispatcherExits
         \/ IntervalPasses
         \/ \E h \in InfoHash : FinishLookup(h)
         \/ CancelContext \/ RefuseGoroutines \/ WaitReturns
  PROVE  Inv'
<1>1. UNCHANGED queueVars /\ running' \subseteq running /\ seen' = seen
  BY DEF StartDispatcher, Spawn, NothingToStart, Wakes, DispatcherExits,
         IntervalPasses, FinishLookup, CancelContext, RefuseGoroutines,
         WaitReturns, CloseStep
<1>2. /\ QueuesMatchPending' /\ Queued' = Queued
      /\ Cardinality(running') <= MaxConcurrent
  BY <1>1, QueuesUntouched
<1>3. /\ running' \subseteq InfoHash /\ taken' \subseteq InfoHash
      /\ live' \subseteq InfoHash
      /\ paced' \in BOOLEAN /\ wake' \in BOOLEAN /\ dispatching' \in BOOLEAN
  BY <1>1 DEF StartDispatcher, Spawn, NothingToStart, Wakes, DispatcherExits,
         IntervalPasses, FinishLookup, CancelContext, RefuseGoroutines,
         WaitReturns, CloseStep, Inv, SchedulerTypeOK, Signal
<1>4. /\ schedulerClosed' \in BOOLEAN
      /\ dpc' \in {"none", "ordered", "take", "wait", "waitDue", "spawn", "done"}
      /\ shutdown' \in {"open", "schedClosed", "cancelled", "goClosed", "finished"}
  BY DEF StartDispatcher, Spawn, NothingToStart, Wakes, DispatcherExits,
         IntervalPasses, FinishLookup, CancelContext, RefuseGoroutines,
         WaitReturns, CloseStep, Inv, SchedulerTypeOK, shutdownVars
<1>5. SchedulerTypeOK'
  BY <1>1, <1>2, <1>3, <1>4 DEF Inv, SchedulerTypeOK, queueVars
<1> QED BY <1>2, <1>5 DEF Inv

\* The map of queued lookups and the two queues agree, and the limits hold,
\* whatever the limits are and however many torrents ask.
THEOREM QueuesAgree == SchedulerSpec => [](SchedulerTypeOK /\ QueuesMatchPending)
<1>1. LookupInit => Inv
  BY InitInv
<1>2. Inv /\ [SchedulerNext]_schedulerVars => Inv'
  <2> SUFFICES ASSUME Inv, [SchedulerNext]_schedulerVars PROVE Inv'
    OBVIOUS
  <2>0. Requests \subseteq Request
    BY LookupAssumption DEF Request
  <2>1. ASSUME NEW h \in InfoHash, NEW r \in Requests, Enqueue(h, r) PROVE Inv'
    <3>1. CASE MergeRequest(h, r)
      BY <2>0, <3>1, MergeInv
    <3>2. CASE QueueRequest(h, r)
      BY <2>0, <3>2, QueueInv
    <3>3. CASE RefuseRequest(h)
      BY <3>3 DEF RefuseRequest, schedulerVars, Inv, SchedulerTypeOK, QueuesMatchPending, Queued
    <3> QED BY <2>1, <3>1, <3>2, <3>3 DEF Enqueue
  <2>2. CASE Take
    BY <2>2, TakeInv
  <2>3. CASE CloseScheduler
    BY <2>3, CloseSchedulerInv
  <2>4. CASE UNCHANGED schedulerVars
    BY <2>4 DEF schedulerVars, Inv, SchedulerTypeOK, QueuesMatchPending, Queued
  <2> QED
    BY <2>1, <2>2, <2>3, <2>4, OtherInv DEF SchedulerNext, Dispatch, Close
<1>3. Inv <=> SchedulerTypeOK /\ QueuesMatchPending
  BY DEF Inv
<1> QED BY <1>1, <1>2, <1>3, PTL DEF SchedulerSpec

\* When Close has returned, no lookup and no dispatcher is left to send on the
\* channel it closed, and none can start any more.
THEOREM ClosedIsQuiet == SchedulerSpec => []NoGoroutineAfterClose
<1>1. LookupInit => NoGoroutineAfterClose
  BY DEF LookupInit, NoGoroutineAfterClose, Finished
<1>2. NoGoroutineAfterClose /\ [SchedulerNext]_schedulerVars => NoGoroutineAfterClose'
  <2> SUFFICES ASSUME NoGoroutineAfterClose, [SchedulerNext]_schedulerVars
               PROVE  NoGoroutineAfterClose'
    OBVIOUS
  <2> USE DEF NoGoroutineAfterClose, Finished, DispatcherAlive
  <2>1. ASSUME NEW h \in InfoHash, NEW r \in Requests, Enqueue(h, r)
        PROVE  NoGoroutineAfterClose'
    BY <2>1 DEF Enqueue, MergeRequest, QueueRequest, RefuseRequest, schedulerVars,
                shutdownVars
  <2>2. CASE Dispatch
    BY <2>2 DEF Dispatch, StartDispatcher, Take, Spawn, NothingToStart, Wakes,
                DispatcherExits, shutdownVars, Tracks
  <2>3. CASE IntervalPasses
    BY <2>3 DEF IntervalPasses, shutdownVars
  <2>4. ASSUME NEW h \in InfoHash, FinishLookup(h)
        PROVE  NoGoroutineAfterClose'
    BY <2>4 DEF FinishLookup, shutdownVars
  <2>5. CASE Close
    BY <2>5 DEF Close, CloseScheduler, CancelContext, RefuseGoroutines,
                WaitReturns, CloseStep
  <2>6. CASE UNCHANGED schedulerVars
    BY <2>6 DEF schedulerVars
  <2> QED BY <2>1, <2>2, <2>3, <2>4, <2>5, <2>6 DEF SchedulerNext
<1> QED BY <1>1, <1>2, PTL DEF SchedulerSpec

\* Merged requests keep what each caller asked for: the map's types come from
\* QueuesAgree's invariant, the rest from the requests accepted since the last
\* start.
THEOREM MergingKeepsRequests == SchedulerSpec => []RequestsKept
<1>1. LookupInit => RequestsKept
  BY DEF LookupInit, RequestsKept, Queued, NotQueued
<1>2. SchedulerTypeOK /\ RequestsKept /\ [SchedulerNext]_schedulerVars => RequestsKept'
  <2> SUFFICES ASSUME SchedulerTypeOK, RequestsKept, [SchedulerNext]_schedulerVars PROVE RequestsKept'
    OBVIOUS
  <2>0. Requests \subseteq Request
    BY LookupAssumption DEF Request
  <2>1. ASSUME NEW h \in InfoHash, NEW r \in Requests, MergeRequest(h, r)
        PROVE  RequestsKept'
    <3>1. /\ h \in Queued /\ r \in Request /\ pending[h] \in Entry
          /\ pending' = [pending EXCEPT ![h] = Merge(pending[h], r)]
          /\ asked' = [asked EXCEPT ![h] = asked[h] \cup {r}]
      BY <2>0, <2>1 DEF MergeRequest, SchedulerTypeOK
    <3>2. /\ pending'[h].announce = (pending[h].announce \/ r.announce)
          /\ pending'[h].port = IF r.port # NoPort THEN r.port ELSE pending[h].port
          /\ pending'[h].queued = pending[h].queued
          /\ asked'[h] = asked[h] \cup {r}
      BY <3>1 DEF Merge, Entry, SchedulerTypeOK
    <3>3. /\ pending'[h].announce = \E x \in asked'[h] : x.announce
          /\ IF \E x \in asked'[h] : x.port # NoPort
             THEN \E x \in asked'[h] : x.port # NoPort /\ pending'[h].port = x.port
             ELSE pending'[h].port = NoPort
      BY <3>1, <3>2 DEF RequestsKept, Entry, Request
    <3>4. ASSUME NEW k \in Queued', k # h
          PROVE  k \in Queued /\ pending'[k] = pending[k] /\ asked'[k] = asked[k]
      BY <3>1, <3>4 DEF Queued, SchedulerTypeOK
    <3> QED BY <3>3, <3>4 DEF RequestsKept
  <2>2. ASSUME NEW h \in InfoHash, NEW r \in Requests, QueueRequest(h, r)
        PROVE  RequestsKept'
    <3>1. /\ pending' = [pending EXCEPT ![h] = Queue(r)]
          /\ asked' = [asked EXCEPT ![h] = {r}]
      BY <2>2 DEF QueueRequest
    <3>2. /\ pending'[h].announce = r.announce /\ pending'[h].port = r.port
          /\ asked'[h] = {r}
      BY <3>1 DEF Queue, SchedulerTypeOK
    <3>3. ASSUME NEW k \in Queued', k # h
          PROVE  k \in Queued /\ pending'[k] = pending[k] /\ asked'[k] = asked[k]
      BY <3>1, <3>3 DEF Queued, SchedulerTypeOK
    <3>4. /\ pending'[h].announce = \E x \in asked'[h] : x.announce
          /\ IF \E x \in asked'[h] : x.port # NoPort
             THEN \E x \in asked'[h] : x.port # NoPort /\ pending'[h].port = x.port
             ELSE pending'[h].port = NoPort
      BY <2>0, <3>2 DEF Request
    <3> QED BY <3>3, <3>4 DEF RequestsKept
  <2>3. CASE Take
    <3>1. ASSUME NEW k \in Queued'
          PROVE  k \in Queued /\ pending'[k] = pending[k] /\ asked'[k] = asked[k]
      BY <2>3, <3>1 DEF Take, Queued, SchedulerTypeOK, NotQueued
    <3> QED BY <3>1 DEF RequestsKept
  <2>4. CASE CloseScheduler
    BY <2>4 DEF CloseScheduler, RequestsKept, Queued, NotQueued
  <2>5. CASE UNCHANGED queueVars
    BY <2>5 DEF queueVars, RequestsKept, Queued
  <2>6. \/ \E h \in InfoHash, r \in Requests : MergeRequest(h, r) \/ QueueRequest(h, r)
        \/ Take \/ CloseScheduler \/ UNCHANGED queueVars
    BY DEF SchedulerNext, Enqueue, RefuseRequest, Dispatch, StartDispatcher, Spawn,
           NothingToStart, Wakes, DispatcherExits, IntervalPasses, FinishLookup,
           Close, CancelContext, RefuseGoroutines, WaitReturns, CloseStep,
           schedulerVars, queueVars
  <2> QED BY <2>1, <2>2, <2>3, <2>4, <2>5, <2>6
<1> QED BY <1>1, <1>2, QueuesAgree, PTL DEF SchedulerSpec

\* All of it together, as the run states it.
THEOREM SchedulerSafety == SchedulerSpec => []LookupsAreSafe
<1>1. SchedulerTypeOK /\ QueuesMatchPending /\ RequestsKept /\ NoGoroutineAfterClose
        => LookupsAreSafe
  BY DEF LookupsAreSafe
<1> QED BY <1>1, QueuesAgree, MergingKeepsRequests, ClosedIsQuiet, PTL

----------------------------------------------------------------------------
(* What the variables are *)

Early == {"none", "start", "refused", "slotless", "dialing"}
AcceptedPlaces == {"none", "accepted", "shaken", "looping", "redial", "done"}
Places == Early \cup AcceptedPlaces \cup {"greeting", "closing"}
Entries == [active : BOOLEAN, dialing : BOOLEAN, dialable : BOOLEAN,
            source : SUBSET {"tracker", "discovery", "incoming"}, last : {"zero", "recent", "old"}, epoch : Nat, freed : BOOLEAN]
ConnStates == [to : Keys \cup {NoConn}, via : {"none", "tcp", "utp"}, open : BOOLEAN, answered : BOOLEAN]

\* What s may keep under key k: another's address, tried no later than epoch e.
MayKeep(s, k, entry, e) == k \in Keys /\ k[1] # s /\ entry \in Entries /\ entry.epoch <= e
Table(s, f, e) == f = [k \in DOMAIN f |-> f[k]] /\ \A k \in DOMAIN f : MayKeep(s, k, f[k], e)

TablesTyped ==
    known = [s \in Swarm |-> known[s]] /\ \A s \in Swarm : Table(s, known[s], pauseEpoch[s])

AdmissionTyped ==
    /\ active = [s \in Swarm |-> active[s]] /\ listens = [s \in Swarm |-> listens[s]]
    /\ \A s \in Swarm : /\ DOMAIN active[s] \subseteq Keys
                        /\ active[s] \in [DOMAIN active[s] -> Conns]
                        /\ listens[s] = [l \in DOMAIN listens[s] |-> listens[s][l]]
    /\ perHost \in [Swarm -> [Hosts -> Nat]]
    /\ owner \in [Swarm -> [Swarm -> [key : Keys \cup {<<>>}, out : BOOLEAN]]]
    /\ banned \in [Swarm -> SUBSET Hosts]

StrikesTyped == strikes \in [Swarm -> [Hosts -> 0 .. StrikesToBan - 1]]

Epochs == [dial : Nat, reg : Nat]
ControlTyped ==
    /\ paused \in [Swarm -> BOOLEAN] /\ pauseEpoch \in [Swarm -> Nat] /\ private \in [Swarm -> BOOLEAN]
    /\ since \in [Swarm -> [Conns -> Epochs]]
    /\ \A s \in Swarm, c \in Conns : since[s][c].dial <= pauseEpoch[s] /\ since[s][c].reg <= pauseEpoch[s]
    /\ scenario \in Troubles

ConnsTyped ==
    /\ dials \in [Swarm -> 0 .. MaxDials]
    /\ conn \in [Conns -> ConnStates]
    /\ pc \in [Swarm -> [Conns -> Places]]

PeersTyped ==
    /\ TablesTyped /\ AdmissionTyped /\ StrikesTyped /\ ControlTyped /\ ConnsTyped

----------------------------------------------------------------------------
(* The inductive invariant *)

\* A connection exists once it is dialled; the session it reaches knows of it
\* from when the transport is up, and until then it is not open.
ConnPath(c) ==
    /\ c[2] > dials[c[1]] => pc[c[1]][c] = "none"
    /\ pc[c[1]][c] # "none" => conn[c].to \in Keys /\ conn[c].to[1] # c[1]
    /\ pc[c[1]][c] # "accepted"
    /\ pc[c[1]][c] \in Early => ~conn[c].open /\ \A t \in Swarm \ {c[1]} : pc[t][c] = "none"
    /\ \A t \in Swarm \ {c[1]} : pc[t][c] # "none" => conn[c].to = ListenKey(t) /\ pc[t][c] \in AcceptedPlaces

ConnPaths == \A c \in Conns : ConnPath(c)

Loops(s) == {c \in Conns : pc[s][c] = "looping"}

\* The connection under a key is in its loop, and an open one in its loop is under its key.
Registered(s) ==
    /\ \A k \in DOMAIN active[s] : active[s][k] \in Loops(s) /\ KeyAt(s, active[s][k]) = k
    /\ \A c \in Loops(s) : conn[c].open => KeyAt(s, c) \in DOMAIN active[s] /\ active[s][KeyAt(s, c)] = c

AtHost(s, h) == {k \in DOMAIN active[s] : HostOf[k[1]] = h}
Counted(s) == \A h \in Hosts : perHost[s][h] = Cardinality(AtHost(s, h))

OwnersRight(s) ==
    \A p \in Swarm :
        /\ owner[s][p] # NoOwner => /\ owner[s][p].key \in DOMAIN active[s]
                                    /\ owner[s][p].key[1] = p
                                    /\ Outbound(s, active[s][owner[s][p].key]) = owner[s][p].out
        /\ \A k \in DOMAIN active[s] : conn[active[s][k]].open /\ k[1] = p => owner[s][p].key = k

Marked(s) == \A k \in Keys : (k \in DOMAIN known[s] /\ known[s][k].active) <=> k \in DOMAIN active[s]
Listening(s) == \A l \in DOMAIN listens[s] : listens[s][l] \in DOMAIN active[s]
Refusing(s) ==
    \A k \in DOMAIN active[s] : conn[active[s][k]].open =>
        /\ HostOf[k[1]] \notin banned[s]
        /\ ~(private[s] /\ Outbound(s, active[s][k]) /\ untrackedDiscovery(known[s][k]))

Admitted(s) ==
    /\ Registered(s) /\ Counted(s) /\ OwnersRight(s) /\ Marked(s) /\ Listening(s) /\ Refusing(s)

PeerInv == PeersTyped /\ ConnPaths /\ \A s \in Swarm : Admitted(s)

----------------------------------------------------------------------------
(* Keys and connections *)

LEMMA SwarmFinite == IsFiniteSet(Keys) /\ MaxDials \in Nat /\ StrikesToBan \in Nat \ {0}
<1>1. IsFiniteSet(Swarm) /\ MaxDials \in Nat /\ StrikesToBan \in Nat \ {0}
  BY PeerConnectionsAssumption
<1>2. IsFiniteSet(0 .. MaxDials)
  BY <1>1, FS_Interval
<1> QED
  BY <1>1, <1>2, FS_Product DEF Keys

LEMMA KeysAreEnds ==
  ASSUME NEW k \in Keys
  PROVE  /\ k[1] \in Swarm /\ k[2] \in 0 .. MaxDials /\ k = <<k[1], k[2]>> /\ k # <<>>
         /\ HostOf[k[1]] \in Hosts
<1>1. k[1] \in Swarm /\ k[2] \in 0 .. MaxDials /\ k = <<k[1], k[2]>> /\ HostOf[k[1]] \in Hosts
  BY DEF Keys, Hosts
<1>2. k # <<>>
  <2>1. DOMAIN <<k[1], k[2]>> = 1 .. 2 /\ DOMAIN <<>> = 1 .. 0
    OBVIOUS
  <2>2. 1 \in 1 .. 2 /\ 1 \notin 1 .. 0
    OBVIOUS
  <2> QED
    BY <1>1, <2>1, <2>2
<1> QED
  BY <1>1, <1>2

LEMMA ConnsAreKeys ==
  ASSUME NEW c \in Conns
  PROVE  c \in Keys /\ c[1] \in Swarm /\ c[2] \in 1 .. MaxDials /\ c = <<c[1], c[2]>>
  BY SwarmFinite DEF Conns, Keys

\* The key of a connection that s serves is an address of the session at its other end.
LEMMA KeyIsOfRemote ==
  ASSUME PeerInv, NEW s \in Swarm, NEW c \in Conns, pc[s][c] # "none"
  PROVE  KeyAt(s, c) \in Keys /\ KeyAt(s, c)[1] = Remote(s, c) /\ Remote(s, c) \in Swarm \ {s}
<1>1. ConnPath(c) /\ c \in Keys /\ c[1] \in Swarm /\ MaxDials \in Nat
  BY ConnsAreKeys, SwarmFinite DEF PeerInv, ConnPaths
<1>2. CASE c[1] = s
  BY <1>1, <1>2, KeysAreEnds DEF ConnPath, KeyAt, Remote, Outbound
<1>3. CASE c[1] # s
  <2>1. ListenKey(c[1]) \in Keys /\ ListenKey(c[1])[1] = c[1]
    BY <1>1 DEF ListenKey, Keys
  <2> QED
    BY <1>1, <1>3, <2>1 DEF KeyAt, Remote, Outbound
<1> QED
  BY <1>2, <1>3

----------------------------------------------------------------------------
(* The tables of known peers *)

LEMMA FreshEntry ==
  ASSUME NEW dialable \in BOOLEAN
  PROVE  LET entry == NewEntry(dialable, {}, "zero")
         IN entry \in Entries /\ ~entry.active /\ entry.source = {} /\ entry.epoch = 0
  BY DEF NewEntry, Entries

LEMMA TriedEntry ==
  ASSUME NEW entry \in Entries, NEW e \in Nat
  PROVE  LET tried == Tried(entry, e)
         IN tried \in Entries /\ tried.active = entry.active /\ tried.source = entry.source /\ tried.epoch = e
  BY DEF Tried, Entries

\* g keeps the marks of f on the connected peers, and makes none of them one
\* a private torrent refuses.
Kept(f, g, guarded) ==
    \A k \in Keys :
        /\ (k \in DOMAIN f /\ f[k].active) <=> (k \in DOMAIN g /\ g[k].active)
        /\ guarded /\ k \in DOMAIN f /\ f[k].active /\ untrackedDiscovery(g[k]) => untrackedDiscovery(f[k])

Becomes(s, f, g, e, guarded) == Table(s, g, e) /\ Kept(f, g, guarded)

LEMMA SameTable ==
  ASSUME NEW s, NEW f, NEW e, NEW guarded, Table(s, f, e)
  PROVE  Becomes(s, f, f, e, guarded)
  BY DEF Becomes, Kept

LEMMA PutBecomes ==
  ASSUME NEW s, NEW f, NEW e, NEW guarded, Table(s, f, e), NEW k \in Keys, NEW v \in Entries,
         MayKeep(s, k, v, e), v.active <=> (k \in DOMAIN f /\ f[k].active),
         guarded /\ k \in DOMAIN f /\ v.active /\ untrackedDiscovery(v) => untrackedDiscovery(f[k])
  PROVE  Becomes(s, f, Put(f, k, v), e, guarded)
<1>1. /\ DOMAIN Put(f, k, v) = DOMAIN f \cup {k} /\ Put(f, k, v)[k] = v
      /\ \A x \in DOMAIN f : x # k => Put(f, k, v)[x] = f[x]
  BY DEF Put
<1>2. Table(s, Put(f, k, v), e)
  <2>1. \A x \in DOMAIN Put(f, k, v) : MayKeep(s, x, Put(f, k, v)[x], e)
    BY <1>1 DEF Table
  <2>2. Put(f, k, v) = [x \in DOMAIN Put(f, k, v) |-> Put(f, k, v)[x]]
    BY DEF Put
  <2> QED
    BY <2>1, <2>2 DEF Table
<1>3. Kept(f, Put(f, k, v), guarded)
  BY <1>1 DEF Kept
<1> QED
  BY <1>2, <1>3 DEF Becomes

\* A table made from f by dropping idle peers and changing entries in place.
LEMMA MapBecomes ==
  ASSUME NEW s, NEW f, NEW g, NEW e, NEW guarded, Table(s, f, e),
         g = [k \in DOMAIN g |-> g[k]], DOMAIN g \subseteq DOMAIN f,
         \A k \in DOMAIN f \ DOMAIN g : ~f[k].active,
         \A k \in DOMAIN g : MayKeep(s, k, g[k], e) /\ g[k].active = f[k].active /\ g[k].source = f[k].source
  PROVE  Becomes(s, f, g, e, guarded)
<1>1. Table(s, g, e)
  BY DEF Table
<1>2. Kept(f, g, guarded)
  BY DEF Kept, untrackedDiscovery
<1> QED
  BY <1>1, <1>2 DEF Becomes

LEMMA LaterTable ==
  ASSUME NEW s, NEW f, NEW e \in Nat, NEW d \in Nat, e <= d, Table(s, f, e)
  PROVE  Table(s, f, d)
  BY DEF Table, MayKeep, Entries

\* Every table becomes another that keeps its marks.
TablesKept ==
    /\ known' = [s \in Swarm |-> known'[s]]
    /\ \A s \in Swarm : Becomes(s, known[s], known'[s], pauseEpoch'[s], private[s])

LEMMA TablesUnchanged ==
  ASSUME PeerInv, known' = known, pauseEpoch' = pauseEpoch
  PROVE  TablesKept
  BY SameTable DEF TablesKept, PeerInv, PeersTyped, TablesTyped

LEMMA OneTableChanged ==
  ASSUME PeerInv, NEW s \in Swarm, NEW g, known' = [known EXCEPT ![s] = g], pauseEpoch' = pauseEpoch,
         Becomes(s, known[s], g, pauseEpoch[s], private[s])
  PROVE  TablesKept
<1>1. known = [t \in Swarm |-> known[t]] /\ \A t \in Swarm : Table(t, known[t], pauseEpoch[t])
  BY DEF PeerInv, PeersTyped, TablesTyped
<1>2. \A t \in Swarm : known'[t] = IF t = s THEN g ELSE known[t]
  BY <1>1
<1>3. known' = [t \in Swarm |-> known'[t]]
  BY <1>1
<1> QED
  BY <1>1, <1>2, <1>3, SameTable DEF TablesKept

----------------------------------------------------------------------------
(* Steps that leave admission alone *)

ConnsOnlyClose ==
    /\ conn' \in [Conns -> ConnStates]
    /\ \A c \in Conns : /\ conn'[c].to = conn[c].to /\ conn'[c].via = conn[c].via
                        /\ conn'[c].open => conn[c].open

\* The loops of t run on, over connections that are at most closed.
LoopsKept(t) ==
    \A c \in Conns :
        /\ pc'[t][c] = "looping" <=> pc[t][c] = "looping"
        /\ pc[t][c] = "looping" => /\ conn'[c].to = conn[c].to /\ conn'[c].via = conn[c].via
                                   /\ conn'[c].open => conn[c].open

LEMMA BooksKept ==
  ASSUME PeerInv, NEW t \in Swarm, LoopsKept(t), Kept(known[t], known'[t], private[t]),
         active'[t] = active[t], perHost'[t] = perHost[t], owner'[t] = owner[t]
  PROVE  Registered(t)' /\ Counted(t)' /\ OwnersRight(t)' /\ Marked(t)'
<1>1. Admitted(t) /\ DOMAIN active[t] \subseteq Keys
  BY DEF PeerInv, PeersTyped, AdmissionTyped
<1>2. \A c \in Loops(t) : KeyAt(t, c)' = KeyAt(t, c) /\ (conn'[c].open => conn[c].open)
  BY DEF LoopsKept, Loops, KeyAt, Outbound
<1>3. Loops(t)' = Loops(t)
  BY DEF LoopsKept, Loops
<1>4. Registered(t)'
  BY <1>1, <1>2, <1>3 DEF Admitted, Registered
<1>5. Counted(t)'
  BY <1>1 DEF Admitted, Counted, AtHost
<1>6. OwnersRight(t)'
  <2>1. \A k \in DOMAIN active[t] : active[t][k] \in Loops(t)
    BY <1>1 DEF Admitted, Registered
  <2> QED
    BY <1>1, <1>2, <2>1 DEF Admitted, OwnersRight, Outbound
<1>7. Marked(t)'
  BY <1>1 DEF Admitted, Marked, Kept
<1> QED
  BY <1>4, <1>5, <1>6, <1>7

LEMMA AdmissionKept ==
  ASSUME PeerInv, NEW t \in Swarm, LoopsKept(t), Kept(known[t], known'[t], private[t]),
         active'[t] = active[t], perHost'[t] = perHost[t], owner'[t] = owner[t],
         listens'[t] = listens[t], banned'[t] = banned[t], private'[t] = private[t]
  PROVE  Admitted(t)'
<1>1. Admitted(t) /\ DOMAIN active[t] \subseteq Keys
  BY DEF PeerInv, PeersTyped, AdmissionTyped
<1>2. Listening(t)'
  BY <1>1 DEF Admitted, Listening
<1>3. Refusing(t)'
  <2> SUFFICES ASSUME NEW k \in DOMAIN active[t], conn'[active[t][k]].open
               PROVE  /\ HostOf[k[1]] \notin banned[t]
                      /\ ~(private[t] /\ Outbound(t, active[t][k]) /\ untrackedDiscovery(known'[t][k]))
    BY DEF Refusing, Outbound, untrackedDiscovery
  <2>1. active[t][k] \in Loops(t) /\ conn[active[t][k]].open /\ k \in Keys
    BY <1>1 DEF Admitted, Registered, Loops, LoopsKept
  <2>2. k \in DOMAIN known[t] /\ known[t][k].active
    BY <1>1, <2>1 DEF Admitted, Marked
  <2> QED
    BY <1>1, <2>1, <2>2 DEF Admitted, Refusing, Kept
<1> QED
  BY <1>2, <1>3, BooksKept DEF Admitted

LEMMA Ordinary ==
  ASSUME PeerInv, TablesKept, ControlTyped', ConnsTyped', ConnPaths', \A t \in Swarm : LoopsKept(t),
         UNCHANGED <<active, admission, private>>
  PROVE  PeerInv'
<1>1. /\ active' = active /\ perHost' = perHost /\ owner' = owner /\ listens' = listens
      /\ strikes' = strikes /\ banned' = banned /\ private' = private
  BY DEF admission
<1>2. TablesTyped'
  BY DEF TablesKept, Becomes, TablesTyped
<1>3. AdmissionTyped' /\ StrikesTyped'
  BY <1>1 DEF PeerInv, PeersTyped, AdmissionTyped, StrikesTyped
<1>4. \A t \in Swarm : Admitted(t)'
  BY <1>1, AdmissionKept DEF TablesKept, Becomes
<1> QED
  BY <1>2, <1>3, <1>4 DEF PeerInv, PeersTyped

\* What a goroutine's step from one place to another keeps, the loop aside.
LEMMA PathsKept ==
  ASSUME PeerInv, ConnsOnlyClose, dials' = dials, pc' \in [Swarm -> [Conns -> Places]],
         \A t \in Swarm, c \in Conns :
            \/ pc'[t][c] = pc[t][c]
            \/ /\ pc[t][c] # "none" /\ pc'[t][c] # "none"
               /\ c[1] = t => pc'[t][c] # "accepted" /\ (pc'[t][c] \in Early => pc[t][c] \in Early)
               /\ c[1] # t => pc'[t][c] \in AcceptedPlaces
  PROVE  ConnsTyped' /\ ConnPaths'
<1>1. ConnsTyped'
  BY DEF ConnsOnlyClose, PeerInv, PeersTyped, ConnsTyped
<1>2. ASSUME NEW c \in Conns PROVE ConnPath(c)'
  <2>1. ConnPath(c) /\ c[1] \in Swarm
    BY ConnsAreKeys DEF PeerInv, ConnPaths
  <2>2. conn'[c].to = conn[c].to /\ (conn'[c].open => conn[c].open)
    BY DEF ConnsOnlyClose
  <2>3. \A t \in Swarm : pc'[t][c] = "none" <=> pc[t][c] = "none"
    OBVIOUS
  <2>4. pc'[c[1]][c] # "accepted" /\ (pc'[c[1]][c] \in Early => pc[c[1]][c] \in Early)
    BY <2>1 DEF ConnPath
  <2>5. \A t \in Swarm \ {c[1]} : pc'[t][c] # "none" => pc'[t][c] \in AcceptedPlaces
    BY <2>1, <2>3 DEF ConnPath
  <2> QED
    BY <2>1, <2>2, <2>3, <2>4, <2>5 DEF ConnPath, ListenKey
<1> QED
  BY <1>1, <1>2 DEF ConnPaths

\* A goroutine that is not in its loop goes to another place, not its loop either.
LEMMA Moved ==
  ASSUME PeerInv, ConnsOnlyClose, dials' = dials, NEW s \in Swarm, NEW c \in Conns,
         NEW where \in Places \ {"none", "looping"}, pc[s][c] \notin {"none", "looping"}, Move(s, c, where),
         c[1] = s => where # "accepted" /\ (where \in Early => pc[s][c] \in Early),
         c[1] # s => where \in AcceptedPlaces
  PROVE  ConnsTyped' /\ ConnPaths' /\ \A t \in Swarm : LoopsKept(t)
<1>1. pc \in [Swarm -> [Conns -> Places]]
  BY DEF PeerInv, PeersTyped, ConnsTyped
<1>2. /\ pc' \in [Swarm -> [Conns -> Places]] /\ pc'[s][c] = where
      /\ \A t \in Swarm, d \in Conns : t # s \/ d # c => pc'[t][d] = pc[t][d]
  BY <1>1 DEF Move
<1>3. ConnsTyped' /\ ConnPaths'
  <2>1. \A t \in Swarm, d \in Conns :
            \/ pc'[t][d] = pc[t][d]
            \/ /\ pc[t][d] # "none" /\ pc'[t][d] # "none"
               /\ d[1] = t => pc'[t][d] # "accepted" /\ (pc'[t][d] \in Early => pc[t][d] \in Early)
               /\ d[1] # t => pc'[t][d] \in AcceptedPlaces
    BY <1>2
  <2> QED
    BY <1>2, <2>1, PathsKept
<1>4. \A t \in Swarm : LoopsKept(t)
  BY <1>2 DEF LoopsKept, ConnsOnlyClose
<1> QED
  BY <1>3, <1>4

\* Connections close and no goroutine moves.
LEMMA Stayed ==
  ASSUME PeerInv, ConnsOnlyClose, dials' = dials, pc' = pc
  PROVE  ConnsTyped' /\ ConnPaths' /\ \A t \in Swarm : LoopsKept(t)
<1>1. pc \in [Swarm -> [Conns -> Places]]
  BY DEF PeerInv, PeersTyped, ConnsTyped
<1>2. ConnsTyped' /\ ConnPaths'
  BY <1>1, PathsKept
<1> QED
  BY <1>2 DEF LoopsKept, ConnsOnlyClose

LEMMA ConnsUnchanged ==
  ASSUME PeerInv, conn' = conn
  PROVE  ConnsOnlyClose
  BY DEF ConnsOnlyClose, PeerInv, PeersTyped, ConnsTyped

LEMMA Closing ==
  ASSUME PeerInv, NEW X,
         conn' = [d \in Conns |-> IF d \in X THEN [conn[d] EXCEPT !.open = FALSE] ELSE conn[d]]
  PROVE  ConnsOnlyClose /\ \A d \in X \cap Conns : ~conn'[d].open
<1>1. conn \in [Conns -> ConnStates]
  BY DEF PeerInv, PeersTyped, ConnsTyped
<1>2. \A d \in Conns : [conn[d] EXCEPT !.open = FALSE] \in ConnStates
  BY <1>1 DEF ConnStates
<1> QED
  BY <1>1, <1>2 DEF ConnsOnlyClose, ConnStates

LEMMA ControlUnchanged ==
  ASSUME PeerInv, UNCHANGED <<control, since>>, scenario' \in Troubles
  PROVE  ControlTyped'
<1>1. paused' = paused /\ pauseEpoch' = pauseEpoch /\ private' = private /\ since' = since
  BY DEF control
<1> QED
  BY <1>1 DEF PeerInv, PeersTyped, ControlTyped

LEMMA TroubleSpent ==
  ASSUME PeerInv, NEW trouble \in {"failures", "backoffs", "pauses", "drops", "strikes", "reveals"},
         SpendTrouble(trouble)
  PROVE  scenario' \in Troubles
<1>1. scenario \in Troubles
  BY DEF PeerInv, PeersTyped, ControlTyped
<1>2. scenario[trouble] \in Nat /\ scenario[trouble] > 0
  BY <1>1 DEF SpendTrouble, Troubles
<1>3. scenario[trouble] - 1 \in Nat
  BY <1>2
<1> QED
  BY <1>1, <1>3 DEF SpendTrouble, Troubles

----------------------------------------------------------------------------
(* Dialling *)

LEMMA AddPeerBecomes ==
  ASSUME PeerInv, NEW s \in Swarm, NEW k \in Keys, k[1] # s, NEW source \in {"tracker", "discovery", "none"}
  PROVE  Becomes(s, known[s], AddPeer(s, k, source).peers, pauseEpoch[s], private[s])
<1> DEFINE exists == k \in DOMAIN known[s]
           entry == IF exists THEN known[s][k] ELSE NewEntry(TRUE, {}, "zero")
           listed == [entry EXCEPT !.dialable = TRUE, !.source = @ \cup ({source} \ {"none"})]
           tried == [Tried(listed, pauseEpoch[s]) EXCEPT !.dialing = TRUE]
           peers == AddPeer(s, k, source).peers
<1>1. /\ peers \in {known[s], Put(known[s], k, listed), Put(known[s], k, tried)}
      /\ peers # known[s] => ~(source = "discovery" /\ private[s])
  BY DEF AddPeer
<1>2. Table(s, known[s], pauseEpoch[s]) /\ pauseEpoch[s] \in Nat /\ private[s] \in BOOLEAN
  BY DEF PeerInv, PeersTyped, TablesTyped, ControlTyped
<1>3. /\ entry \in Entries /\ entry.epoch <= pauseEpoch[s]
      /\ entry.active <=> (exists /\ known[s][k].active)
  <2>1. CASE exists
    BY <1>2, <2>1 DEF Table, MayKeep
  <2>2. CASE ~exists
    <3>1. entry = NewEntry(TRUE, {}, "zero")
      BY <2>2
    <3> HIDE DEF entry
    <3>2. entry \in Entries /\ ~entry.active /\ entry.epoch = 0
      BY <3>1, FreshEntry
    <3> QED
      BY <1>2, <2>2, <3>2
  <2> QED
    BY <2>1, <2>2
<1>4. \A v \in {listed, tried} :
         /\ v \in Entries /\ v.epoch <= pauseEpoch[s] /\ v.active = entry.active
         /\ v.source = entry.source \cup ({source} \ {"none"})
  <2> HIDE DEF entry
  <2>1. /\ listed \in Entries /\ listed.epoch <= pauseEpoch[s] /\ listed.active = entry.active
        /\ listed.source = entry.source \cup ({source} \ {"none"})
    BY <1>3 DEF Entries
  <2> HIDE DEF listed
  <2>2. /\ tried \in Entries /\ tried.epoch <= pauseEpoch[s] /\ tried.active = listed.active
        /\ tried.source = listed.source
    <3> DEFINE last == Tried(listed, pauseEpoch[s])
    <3>1. /\ last \in Entries /\ last.active = listed.active
          /\ last.source = listed.source /\ last.epoch = pauseEpoch[s]
      BY <1>2, <2>1, TriedEntry
    <3>2. tried = [last EXCEPT !.dialing = TRUE]
      OBVIOUS
    <3> HIDE DEF last, tried
    <3>3. tried \in Entries /\ tried.epoch = last.epoch /\ tried.active = last.active /\ tried.source = last.source
      BY <3>1, <3>2 DEF Entries
    <3> QED
      BY <1>2, <3>1, <3>3
  <2> QED
    BY <2>1, <2>2
<1>5. CASE peers = known[s]
  BY <1>2, <1>5, SameTable
<1>6. CASE peers # known[s]
  <2> HIDE DEF entry, listed, tried, peers
  <2>1. PICK v \in {listed, tried} : peers = Put(known[s], k, v)
    BY <1>1, <1>6
  <2>2. MayKeep(s, k, v, pauseEpoch[s]) /\ v \in Entries
    BY <1>4 DEF MayKeep
  <2>3. v.active <=> (k \in DOMAIN known[s] /\ known[s][k].active)
    BY <1>3, <1>4
  <2>4. private[s] /\ k \in DOMAIN known[s] /\ v.active /\ untrackedDiscovery(v)
           => untrackedDiscovery(known[s][k])
    <3> SUFFICES ASSUME private[s], k \in DOMAIN known[s], untrackedDiscovery(v)
                 PROVE  untrackedDiscovery(known[s][k])
      OBVIOUS
    <3>1. entry = known[s][k]
      BY DEF entry
    <3>2. v.source = known[s][k].source \cup ({source} \ {"none"}) /\ source # "discovery"
      BY <1>1, <1>4, <1>6, <3>1
    <3> QED
      BY <3>2 DEF untrackedDiscovery
  <2>5. Becomes(s, known[s], Put(known[s], k, v), pauseEpoch[s], private[s])
    BY <1>2, <2>2, <2>3, <2>4, PutBecomes
  <2> QED
    BY <2>1, <2>5 DEF peers
<1> QED
  BY <1>5, <1>6

\* Dials start for keys of others: connections nobody knew of.
LEMMA DialsStart ==
  ASSUME PeerInv, NEW s \in Swarm, NEW todo \in SUBSET Keys, \A k \in todo : k[1] # s, StartDials(s, todo)
  PROVE  ConnsTyped' /\ ConnPaths' /\ \A t \in Swarm : LoopsKept(t)
<1> DEFINE n == Cardinality(todo)
<1>1. n \in Nat
  BY SwarmFinite, FS_Subset, FS_CardinalityType
<1>2. PICK order \in [1 .. n -> todo] :
        /\ dials[s] + n <= MaxDials
        /\ dials' = [dials EXCEPT ![s] = @ + n]
        /\ conn' = [c \in Conns |-> IF c[1] = s /\ c[2] - dials[s] \in DOMAIN order
                                    THEN [conn[c] EXCEPT !.to = order[c[2] - dials[s]]] ELSE conn[c]]
        /\ pc' = [pc EXCEPT ![s] = [c \in Conns |->
               IF c[1] = s /\ c[2] - dials[s] \in DOMAIN order THEN "start" ELSE pc[s][c]]]
  BY DEF StartDials
<1> DEFINE New(c) == c[1] = s /\ c[2] - dials[s] \in 1 .. n
<1>3. /\ dials \in [Swarm -> 0 .. MaxDials] /\ conn \in [Conns -> ConnStates]
      /\ pc \in [Swarm -> [Conns -> Places]] /\ MaxDials \in Nat
  BY SwarmFinite DEF PeerInv, PeersTyped, ConnsTyped
<1>4. /\ dials'[s] = dials[s] + n /\ dials' \in [Swarm -> 0 .. MaxDials]
      /\ \A t \in Swarm : t # s => dials'[t] = dials[t]
  BY <1>1, <1>2, <1>3
<1>5. \A c \in Conns :
        /\ New(c) => \E k \in todo : conn'[c] = [conn[c] EXCEPT !.to = k]
        /\ ~New(c) => conn'[c] = conn[c]
  BY <1>2
<1>6. \A t \in Swarm, c \in Conns : pc'[t][c] = IF t = s /\ New(c) THEN "start" ELSE pc[t][c]
  BY <1>2, <1>3
<1>7. \A c \in Conns : New(c) => /\ pc[s][c] = "none" /\ ~conn[c].open /\ c[2] <= dials'[s]
                                 /\ \A t \in Swarm : pc[t][c] = "none"
  <2> SUFFICES ASSUME NEW c \in Conns, New(c)
               PROVE  /\ pc[s][c] = "none" /\ ~conn[c].open /\ c[2] <= dials'[s]
                      /\ \A t \in Swarm : pc[t][c] = "none"
    OBVIOUS
  <2>1. ConnPath(c) /\ c[2] \in 1 .. MaxDials
    BY ConnsAreKeys DEF PeerInv, ConnPaths
  <2>2. dials[s] \in Nat /\ c[2] > dials[s] /\ c[2] <= dials'[s]
    BY <1>1, <1>3, <1>4, <2>1
  <2> QED
    BY <2>1, <2>2 DEF ConnPath, Early
<1>8. conn' \in [Conns -> ConnStates]
  <2>1. \A c \in Conns : conn'[c] \in ConnStates
    <3> TAKE c \in Conns
    <3>1. CASE New(c)
      <4>1. PICK k \in todo : conn'[c] = [conn[c] EXCEPT !.to = k]
        BY <1>5, <3>1
      <4> QED
        BY <1>3, <4>1 DEF ConnStates
    <3>2. CASE ~New(c)
      BY <1>3, <1>5, <3>2
    <3> QED
      BY <3>1, <3>2
  <2>2. conn' = [c \in Conns |-> conn'[c]]
    BY <1>2
  <2> QED
    BY <2>1, <2>2
<1>9. pc' \in [Swarm -> [Conns -> Places]]
  BY <1>2, <1>3 DEF Places, Early
<1>10. ASSUME NEW c \in Conns PROVE ConnPath(c)'
  <2>1. ConnPath(c) /\ c[1] \in Swarm /\ c[2] \in Nat
    BY ConnsAreKeys, SwarmFinite DEF PeerInv, ConnPaths
  <2>2. CASE New(c)
    <3>1. c[1] = s /\ pc'[s][c] = "start" /\ c[2] <= dials'[s] /\ \A t \in Swarm \ {s} : pc'[t][c] = "none"
      BY <1>6, <1>7, <2>2
    <3>2. conn'[c].to \in todo /\ ~conn'[c].open
      <4>1. PICK k \in todo : conn'[c] = [conn[c] EXCEPT !.to = k]
        BY <1>5, <2>2
      <4>2. ~conn[c].open
        BY <1>7, <2>2
      <4> QED
        BY <1>3, <4>1, <4>2 DEF ConnStates
    <3>3. dials'[s] \in Nat
      BY <1>3, <1>4
    <3> QED
      BY <2>1, <3>1, <3>2, <3>3 DEF ConnPath
  <2>3. CASE ~New(c)
    <3>1. conn'[c] = conn[c] /\ \A t \in Swarm : pc'[t][c] = pc[t][c]
      BY <1>5, <1>6, <2>3
    <3>2. c[2] > dials'[c[1]] => c[2] > dials[c[1]]
      <4>1. dials[s] \in Nat
        BY <1>3
      <4> HIDE DEF n
      <4> QED
        BY <1>1, <1>4, <2>1, <4>1
    <3> QED
      BY <2>1, <3>1, <3>2 DEF ConnPath, ListenKey
  <2> QED
    BY <2>2, <2>3
<1>11. \A t \in Swarm : LoopsKept(t)
  BY <1>5, <1>6, <1>7 DEF LoopsKept
<1> QED
  BY <1>4, <1>8, <1>9, <1>10, <1>11 DEF ConnsTyped, ConnPaths

LEMMA ListedKeeps ==
  ASSUME PeerInv, NEW s \in Swarm, NEW p \in Swarm, s # p, NEW source \in {"tracker", "discovery"},
         Listed(s, p, source)
  PROVE  PeerInv'
<1> DEFINE k == ListenKey(p)
           add == AddPeer(s, k, source)
<1>1. k \in Keys /\ k[1] # s
  BY SwarmFinite DEF ListenKey, Keys
<1>2. TablesKept
  <2>1. Becomes(s, known[s], add.peers, pauseEpoch[s], private[s])
    BY <1>1, AddPeerBecomes
  <2> QED
    BY <2>1, OneTableChanged DEF Listed, control
<1>3. scenario' \in Troubles
  BY DEF Listed, PeerInv, PeersTyped, ControlTyped, Troubles
<1>4. ControlTyped'
  BY <1>3, ControlUnchanged DEF Listed
<1>5. ConnsTyped' /\ ConnPaths' /\ \A t \in Swarm : LoopsKept(t)
  <2>1. CASE add.dial
    <3>1. StartDials(s, {k}) /\ {k} \in SUBSET Keys /\ \A x \in {k} : x[1] # s
      BY <1>1, <2>1 DEF Listed
    <3> QED
      BY <3>1, DialsStart
  <2>2. CASE ~add.dial
    BY <2>2, ConnsUnchanged, Stayed DEF Listed
  <2> QED
    BY <2>1, <2>2
<1> QED
  BY <1>2, <1>4, <1>5, Ordinary DEF Listed, control

LEMMA MaintainKeeps ==
  ASSUME PeerInv, NEW s \in Swarm, maintainPeerConnections(s)
  PROVE  PeerInv'
<1>1. PICK todo \in SUBSET DialEligible(s) :
        /\ StartDials(s, todo)
        /\ known' = [known EXCEPT ![s] = [k \in DOMAIN known[s] |->
                 IF k \in todo THEN [Tried(known[s][k], pauseEpoch[s]) EXCEPT !.dialing = TRUE]
                 ELSE known[s][k]]]
  BY DEF maintainPeerConnections
<1>2. Table(s, known[s], pauseEpoch[s]) /\ pauseEpoch[s] \in Nat
  BY DEF PeerInv, PeersTyped, TablesTyped, ControlTyped
<1>3. TablesKept
  <2> DEFINE g == [k \in DOMAIN known[s] |->
                 IF k \in todo THEN [Tried(known[s][k], pauseEpoch[s]) EXCEPT !.dialing = TRUE]
                 ELSE known[s][k]]
  <2>1. \A k \in DOMAIN known[s] : MayKeep(s, k, g[k], pauseEpoch[s])
          /\ g[k].active = known[s][k].active /\ g[k].source = known[s][k].source
    <3> TAKE k \in DOMAIN known[s]
    <3>1. known[s][k] \in Entries /\ known[s][k].epoch <= pauseEpoch[s] /\ k \in Keys /\ k[1] # s
      BY <1>2 DEF Table, MayKeep
    <3> DEFINE tried == Tried(known[s][k], pauseEpoch[s])
    <3>2. /\ tried \in Entries /\ tried.active = known[s][k].active
          /\ tried.source = known[s][k].source /\ tried.epoch = pauseEpoch[s]
      BY <1>2, <3>1, TriedEntry
    <3>3. g[k] = [tried EXCEPT !.dialing = TRUE] \/ g[k] = known[s][k]
      OBVIOUS
    <3> HIDE DEF tried, g
    <3>4. g[k] \in Entries /\ g[k].active = known[s][k].active /\ g[k].source = known[s][k].source
      BY <3>1, <3>2, <3>3 DEF Entries
    <3>5. g[k].epoch = pauseEpoch[s] \/ g[k].epoch = known[s][k].epoch
      BY <3>2, <3>3 DEF Entries
    <3> QED
      BY <1>2, <3>1, <3>4, <3>5 DEF MayKeep
  <2>2. g = [k \in DOMAIN g |-> g[k]] /\ DOMAIN g = DOMAIN known[s]
    OBVIOUS
  <2> HIDE DEF g
  <2>3. Becomes(s, known[s], g, pauseEpoch[s], private[s])
    BY <1>2, <2>1, <2>2, MapBecomes
  <2> QED
    BY <1>1, <2>3, OneTableChanged DEF maintainPeerConnections, control, g
<1>4. ControlTyped'
  BY ControlUnchanged DEF maintainPeerConnections, PeerInv, PeersTyped, ControlTyped
<1>5. ConnsTyped' /\ ConnPaths' /\ \A t \in Swarm : LoopsKept(t)
  <2>1. todo \in SUBSET Keys /\ \A k \in todo : k[1] # s
    BY <1>2 DEF DialEligible, Table, MayKeep
  <2> QED
    BY <1>1, <2>1, DialsStart
<1> QED
  BY <1>3, <1>4, <1>5, Ordinary DEF maintainPeerConnections, control

LEMMA BackoffKeeps ==
  ASSUME PeerInv, NEW s \in Swarm, NEW k \in Keys, BackoffEnds(s, k)
  PROVE  PeerInv'
<1>1. /\ SpendTrouble("backoffs") /\ k \in DOMAIN known[s]
      /\ known' = [known EXCEPT ![s] = Put(known[s], k, [known[s][k] EXCEPT !.last = "old"])]
      /\ UNCHANGED <<active, admission, control, dials, conn, pc, since>>
  BY DEF BackoffEnds, SetEntry
<1>2. Becomes(s, known[s], Put(known[s], k, [known[s][k] EXCEPT !.last = "old"]), pauseEpoch[s], private[s])
  <2> DEFINE v == [known[s][k] EXCEPT !.last = "old"]
  <2>1. Table(s, known[s], pauseEpoch[s])
    BY DEF PeerInv, PeersTyped, TablesTyped
  <2>2. /\ v \in Entries /\ v.epoch <= pauseEpoch[s] /\ v.active = known[s][k].active
        /\ v.source = known[s][k].source /\ k[1] # s
    BY <1>1, <2>1 DEF Table, MayKeep, Entries
  <2> HIDE DEF v
  <2>3. MayKeep(s, k, v, pauseEpoch[s]) /\ (untrackedDiscovery(v) => untrackedDiscovery(known[s][k]))
    BY <2>2 DEF MayKeep, untrackedDiscovery
  <2>4. Becomes(s, known[s], Put(known[s], k, v), pauseEpoch[s], private[s])
    BY <1>1, <2>1, <2>2, <2>3, PutBecomes
  <2> QED
    BY <2>4 DEF v
<1>3. TablesKept
  BY <1>1, <1>2, OneTableChanged DEF control
<1>4. ControlTyped'
  BY <1>1, TroubleSpent, ControlUnchanged
<1>5. ConnsTyped' /\ ConnPaths' /\ \A t \in Swarm : LoopsKept(t)
  BY <1>1, ConnsUnchanged, Stayed
<1> QED
  BY <1>1, <1>3, <1>4, <1>5, Ordinary DEF control

----------------------------------------------------------------------------
(* The dialling goroutine *)

LEMMA TakeSlotKeeps ==
  ASSUME PeerInv, NEW s \in Swarm, NEW c \in Conns, TakeSlot(s, c)
  PROVE  PeerInv'
<1>1. /\ pc[s][c] = "start" /\ since' = [since EXCEPT ![s][c].dial = pauseEpoch[s]]
      /\ UNCHANGED <<known, active, admission, control, dials, conn, scenario>>
      /\ \E where \in {"refused", "slotless", "dialing"} : Move(s, c, where)
  BY DEF TakeSlot
<1>2. c[1] = s
  BY <1>1 DEF PeerInv, ConnPaths, ConnPath, AcceptedPlaces
<1>3. ConnsTyped' /\ ConnPaths' /\ \A t \in Swarm : LoopsKept(t)
  <2>1. PICK where \in {"refused", "slotless", "dialing"} : Move(s, c, where)
    BY <1>1
  <2>2. where \in Places \ {"none", "looping"} /\ where # "accepted" /\ pc[s][c] \in Early
    BY <1>1 DEF Places, Early
  <2> QED
    BY <1>1, <1>2, <2>1, <2>2, ConnsUnchanged, Moved
<1>4. ControlTyped'
  <2>1. /\ since \in [Swarm -> [Conns -> Epochs]] /\ pauseEpoch \in [Swarm -> Nat]
        /\ \A t \in Swarm, d \in Conns : since[t][d].dial <= pauseEpoch[t] /\ since[t][d].reg <= pauseEpoch[t]
    BY DEF PeerInv, PeersTyped, ControlTyped
  <2>2. /\ [since[s][c] EXCEPT !.dial = pauseEpoch[s]] \in Epochs
        /\ since' = [since EXCEPT ![s] = [since[s] EXCEPT ![c] = [since[s][c] EXCEPT !.dial = pauseEpoch[s]]]]
    BY <1>1, <2>1 DEF Epochs
  <2>3. since' \in [Swarm -> [Conns -> Epochs]]
    BY <2>1, <2>2
  <2>4. /\ \A t \in Swarm, d \in Conns : t # s \/ d # c => since'[t][d] = since[t][d]
        /\ since'[s][c].dial = pauseEpoch[s] /\ since'[s][c].reg = since[s][c].reg
    BY <2>1, <2>2 DEF Epochs
  <2>5. \A t \in Swarm, d \in Conns : since'[t][d].dial <= pauseEpoch[t] /\ since'[t][d].reg <= pauseEpoch[t]
    BY <2>1, <2>4
  <2> QED
    BY <1>1, <2>3, <2>5 DEF PeerInv, PeersTyped, ControlTyped, control
<1> QED
  BY <1>1, <1>3, <1>4, TablesUnchanged, Ordinary DEF control

\* Marking an attempt as failed keeps the table, for a dial of this session.
LEMMA FailedAttempt ==
  ASSUME PeerInv, NEW s \in Swarm, NEW c \in Conns, c[1] = s, pc[s][c] # "none",
         markPeerAttemptFailed(s, c), pauseEpoch' = pauseEpoch
  PROVE  TablesKept
<1> DEFINE k == conn[c].to
           v == [Tried(known[s][k], since[s][c].dial) EXCEPT !.active = @ /\ k \in DOMAIN active[s]]
<1>1. /\ Table(s, known[s], pauseEpoch[s]) /\ known = [t \in Swarm |-> known[t]]
      /\ known[s] = [x \in DOMAIN known[s] |-> known[s][x]]
      /\ pauseEpoch[s] \in Nat /\ since[s][c].dial \in Nat /\ since[s][c].dial <= pauseEpoch[s]
  BY DEF PeerInv, PeersTyped, TablesTyped, ControlTyped, Table, Epochs
<1>2. CASE k \notin DOMAIN known[s]
  BY <1>2, TablesUnchanged DEF markPeerAttemptFailed
<1>3. CASE k \in DOMAIN known[s]
  <2>1. known[s][k] \in Entries /\ k \in Keys /\ k[1] # s
    BY <1>1, <1>3 DEF Table, MayKeep
  <2>2. known[s][k].active => k \in DOMAIN active[s]
    BY <1>3, <2>1 DEF PeerInv, Admitted, Marked
  <2>3. /\ v \in Entries /\ v.epoch <= pauseEpoch[s] /\ v.active = known[s][k].active
        /\ v.source = known[s][k].source
    BY <1>1, <2>1, <2>2 DEF Entries, Tried
  <2>4. known' = [known EXCEPT ![s] = Put(known[s], k, v)]
    BY <1>3 DEF markPeerAttemptFailed, SetEntry
  <2> HIDE DEF v
  <2>5. MayKeep(s, k, v, pauseEpoch[s]) /\ (untrackedDiscovery(v) => untrackedDiscovery(known[s][k]))
    BY <2>1, <2>3 DEF MayKeep, untrackedDiscovery
  <2>6. Becomes(s, known[s], Put(known[s], k, v), pauseEpoch[s], private[s])
    BY <1>1, <1>3, <2>1, <2>3, <2>5, PutBecomes
  <2> QED
    BY <2>4, <2>6, OneTableChanged
<1> QED
  BY <1>2, <1>3

LEMMA DialFailsKeeps ==
  ASSUME PeerInv, NEW s \in Swarm, NEW c \in Conns, DialFails(s, c)
  PROVE  PeerInv'
<1>1. /\ pc[s][c] = "dialing" /\ markPeerAttemptFailed(s, c) /\ Move(s, c, "closing")
      /\ UNCHANGED <<active, admission, control, dials, conn, since>>
  BY DEF DialFails
<1>2. c[1] = s
  BY <1>1 DEF PeerInv, ConnPaths, ConnPath, AcceptedPlaces
<1>3. TablesKept
  BY <1>1, <1>2, FailedAttempt DEF control
<1>4. scenario' \in Troubles
  BY TroubleSpent DEF DialFails, PeerInv, PeersTyped, ControlTyped
<1>5. ControlTyped'
  BY <1>1, <1>4, ControlUnchanged
<1>6. ConnsTyped' /\ ConnPaths' /\ \A t \in Swarm : LoopsKept(t)
  BY <1>1, <1>2, ConnsUnchanged, Moved DEF Places, Early
<1> QED
  BY <1>1, <1>3, <1>5, <1>6, Ordinary DEF control

LEMMA HandshakeFailsKeeps ==
  ASSUME PeerInv, NEW s \in Swarm, NEW c \in Conns, HandshakeFails(s, c)
  PROVE  PeerInv'
<1>1. /\ pc[s][c] = "greeting" /\ markPeerAttemptFailed(s, c) /\ Move(s, c, "closing")
      /\ UNCHANGED <<active, admission, control, dials, conn, since, scenario>>
  BY DEF HandshakeFails
<1>2. c[1] = s
  BY <1>1 DEF PeerInv, ConnPaths, ConnPath, AcceptedPlaces
<1>3. TablesKept
  BY <1>1, <1>2, FailedAttempt DEF control
<1>4. ControlTyped'
  BY <1>1, ControlUnchanged DEF PeerInv, PeersTyped, ControlTyped
<1>5. ConnsTyped' /\ ConnPaths' /\ \A t \in Swarm : LoopsKept(t)
  BY <1>1, <1>2, ConnsUnchanged, Moved DEF Places, Early
<1> QED
  BY <1>1, <1>3, <1>4, <1>5, Ordinary DEF control

LEMMA DialConnectsKeeps ==
  ASSUME PeerInv, NEW s \in Swarm, NEW c \in Conns, NEW via \in {"tcp", "utp"}, DialConnects(s, c, via)
  PROVE  PeerInv'
<1> DEFINE p == conn[c].to[1]
<1>1. /\ pc[s][c] = "dialing" /\ conn[c].to[2] = 0
      /\ conn' = [conn EXCEPT ![c].via = via, ![c].open = TRUE]
      /\ pc' = [pc EXCEPT ![s][c] = "greeting", ![p][c] = "accepted"]
      /\ UNCHANGED <<known, active, admission, control, dials, since, scenario>>
  BY DEF DialConnects, Reaches
<1>2. ConnPath(c)
  BY DEF PeerInv, ConnPaths
<1>3. c[1] = s
  BY <1>1, <1>2 DEF ConnPath, AcceptedPlaces
<1>4. p \in Swarm \ {s} /\ conn[c].to = ListenKey(p) /\ \A t \in Swarm \ {s} : pc[t][c] = "none"
  BY <1>1, <1>2, <1>3, KeysAreEnds DEF ConnPath, Early, ListenKey
<1>5. conn \in [Conns -> ConnStates] /\ pc \in [Swarm -> [Conns -> Places]] /\ dials \in [Swarm -> 0 .. MaxDials]
  BY DEF PeerInv, PeersTyped, ConnsTyped
<1>6. /\ conn' = [conn EXCEPT ![c] = [conn[c] EXCEPT !.via = via, !.open = TRUE]]
      /\ [conn[c] EXCEPT !.via = via, !.open = TRUE] \in ConnStates
  BY <1>1, <1>5 DEF ConnStates
<1>7. /\ conn' \in [Conns -> ConnStates] /\ conn'[c].to = conn[c].to
      /\ \A d \in Conns : d # c => conn'[d] = conn[d]
  BY <1>5, <1>6 DEF ConnStates
<1>8. /\ pc' \in [Swarm -> [Conns -> Places]] /\ pc'[s][c] = "greeting" /\ pc'[p][c] = "accepted"
      /\ \A t \in Swarm, d \in Conns : d # c \/ t \notin {s, p} => pc'[t][d] = pc[t][d]
  <2> HIDE DEF p
  <2>1. pc' = [[pc EXCEPT ![s] = [pc[s] EXCEPT ![c] = "greeting"]]
                   EXCEPT ![p] = [pc[p] EXCEPT ![c] = "accepted"]]
    BY <1>1, <1>4, <1>5
  <2>2. "greeting" \in Places /\ "accepted" \in Places
    BY DEF Places, AcceptedPlaces
  <2> QED
    BY <1>4, <1>5, <2>1, <2>2
<1>9. ConnsTyped'
  BY <1>1, <1>5, <1>7, <1>8 DEF ConnsTyped
<1>10. ASSUME NEW d \in Conns PROVE ConnPath(d)'
  <2>1. ConnPath(d) /\ d[1] \in Swarm
    BY ConnsAreKeys DEF PeerInv, ConnPaths
  <2>2. CASE d = c
    <3>1. c[2] <= dials[s]
      <4>1. c[2] \in Nat /\ dials[s] \in Nat
        BY <1>5, ConnsAreKeys, SwarmFinite
      <4> QED
        BY <1>1, <1>2, <1>3, <4>1 DEF ConnPath
    <3>2. c[2] \in Nat /\ dials[s] \in Nat /\ dials'[s] = dials[s]
      BY <1>1, <1>5, ConnsAreKeys, SwarmFinite
    <3>3. conn'[c].to \in Keys /\ conn'[c].to[1] # s
      BY <1>1, <1>2, <1>3, <1>7 DEF ConnPath
    <3>4. \A t \in Swarm \ {s} : pc'[t][c] # "none" => t = p /\ pc'[t][c] = "accepted"
      BY <1>4, <1>8
    <3> QED
      BY <1>3, <1>4, <1>7, <1>8, <2>2, <3>1, <3>2, <3>3, <3>4 DEF ConnPath, Early, AcceptedPlaces, ListenKey
  <2>3. CASE d # c
    <3>1. conn'[d] = conn[d] /\ dials' = dials /\ \A t \in Swarm : pc'[t][d] = pc[t][d]
      BY <1>1, <1>7, <1>8, <2>3
    <3> QED
      BY <2>1, <3>1 DEF ConnPath, ListenKey
  <2> QED
    BY <2>2, <2>3
<1>11. \A t \in Swarm : LoopsKept(t)
  <2>1. \A t \in Swarm : pc[t][c] # "looping" /\ pc'[t][c] # "looping"
    BY <1>1, <1>4, <1>8
  <2> QED
    BY <1>7, <1>8, <2>1 DEF LoopsKept
<1>12. ControlTyped'
  BY <1>1, ControlUnchanged DEF PeerInv, PeersTyped, ControlTyped
<1> QED
  BY <1>1, <1>9, <1>10, <1>11, <1>12, TablesUnchanged, Ordinary DEF control, ConnPaths

LEMMA ServeIncomingKeeps ==
  ASSUME PeerInv, NEW s \in Swarm, NEW c \in Conns, ServeIncoming(s, c)
  PROVE  PeerInv'
<1>1. /\ pc[s][c] = "accepted"
      /\ \/ conn' = [conn EXCEPT ![c].open = FALSE] /\ Move(s, c, "done")
         \/ conn' = [conn EXCEPT ![c].answered = TRUE] /\ Move(s, c, "shaken")
      /\ UNCHANGED <<known, active, admission, control, dials, since, scenario>>
  BY DEF ServeIncoming
<1>2. c[1] # s
  BY <1>1 DEF PeerInv, ConnPaths, ConnPath
<1>3. ConnsOnlyClose
  <2>1. conn \in [Conns -> ConnStates]
    BY DEF PeerInv, PeersTyped, ConnsTyped
  <2>2. PICK v \in ConnStates : /\ v.to = conn[c].to /\ v.via = conn[c].via /\ (v.open => conn[c].open)
                                /\ conn' = [conn EXCEPT ![c] = v]
    <3>1. /\ [conn[c] EXCEPT !.open = FALSE] \in ConnStates
          /\ [conn[c] EXCEPT !.answered = TRUE] \in ConnStates
      BY <2>1 DEF ConnStates
    <3> QED
      BY <1>1, <2>1, <3>1 DEF ConnStates
  <2> QED
    BY <2>1, <2>2 DEF ConnsOnlyClose
<1>4. ConnsTyped' /\ ConnPaths' /\ \A t \in Swarm : LoopsKept(t)
  BY <1>1, <1>2, <1>3, Moved DEF Places, AcceptedPlaces
<1>5. ControlTyped'
  BY <1>1, ControlUnchanged DEF PeerInv, PeersTyped, ControlTyped
<1> QED
  BY <1>1, <1>4, <1>5, TablesUnchanged, Ordinary DEF control

LEMMA HandshakeDoneKeeps ==
  ASSUME PeerInv, NEW s \in Swarm, NEW c \in Conns, HandshakeDone(s, c)
  PROVE  PeerInv'
<1> DEFINE k == conn[c].to
           v == [Tried(known[s][k], pauseEpoch[s]) EXCEPT !.dialable = TRUE, !.dialing = FALSE]
<1>1. /\ pc[s][c] = "greeting" /\ Move(s, c, "shaken")
      /\ UNCHANGED <<active, admission, control, dials, conn, since, scenario>>
  BY DEF HandshakeDone
<1>2. c[1] = s
  BY <1>1 DEF PeerInv, ConnPaths, ConnPath, AcceptedPlaces
<1>3. TablesKept
  <2>1. /\ Table(s, known[s], pauseEpoch[s]) /\ known = [t \in Swarm |-> known[t]]
        /\ known[s] = [x \in DOMAIN known[s] |-> known[s][x]] /\ pauseEpoch[s] \in Nat
    BY DEF PeerInv, PeersTyped, TablesTyped, ControlTyped, Table
  <2>2. CASE k \notin DOMAIN known[s]
    BY <1>1, <2>2, TablesUnchanged DEF HandshakeDone, control
  <2>3. CASE k \in DOMAIN known[s]
    <3>1. known[s][k] \in Entries /\ k \in Keys /\ k[1] # s
      BY <2>1, <2>3 DEF Table, MayKeep
    <3>2. /\ v \in Entries /\ v.epoch <= pauseEpoch[s] /\ v.active = known[s][k].active
          /\ v.source = known[s][k].source
      <4> DEFINE tried == Tried(known[s][k], pauseEpoch[s])
      <4>1. /\ tried \in Entries /\ tried.active = known[s][k].active
            /\ tried.source = known[s][k].source /\ tried.epoch = pauseEpoch[s]
        BY <2>1, <3>1, TriedEntry
      <4>2. v = [tried EXCEPT !.dialable = TRUE, !.dialing = FALSE]
        OBVIOUS
      <4> HIDE DEF tried, v
      <4>3. v \in Entries /\ v.epoch = tried.epoch /\ v.active = tried.active /\ v.source = tried.source
        BY <4>1, <4>2 DEF Entries
      <4> QED
        BY <2>1, <4>1, <4>3
    <3>3. known' = [known EXCEPT ![s] = Put(known[s], k, v)]
      BY <2>3 DEF HandshakeDone, SetEntry
    <3> HIDE DEF v
    <3>4. MayKeep(s, k, v, pauseEpoch[s]) /\ (untrackedDiscovery(v) => untrackedDiscovery(known[s][k]))
      BY <3>1, <3>2 DEF MayKeep, untrackedDiscovery
    <3>5. Becomes(s, known[s], Put(known[s], k, v), pauseEpoch[s], private[s])
      BY <2>1, <2>3, <3>1, <3>2, <3>4, PutBecomes
    <3> QED
      BY <1>1, <3>3, <3>5, OneTableChanged DEF control
  <2> QED
    BY <2>2, <2>3
<1>4. ControlTyped'
  BY <1>1, ControlUnchanged DEF PeerInv, PeersTyped, ControlTyped
<1>5. ConnsTyped' /\ ConnPaths' /\ \A t \in Swarm : LoopsKept(t)
  BY <1>1, <1>2, ConnsUnchanged, Moved DEF Places, Early, AcceptedPlaces
<1> QED
  BY <1>1, <1>3, <1>4, <1>5, Ordinary DEF control

\* forgetRefusedPeerLocked drops none that is connected.
LEMMA ForgetBecomes ==
  ASSUME NEW s, NEW f, NEW g, NEW e, NEW guarded, NEW k, Becomes(s, f, g, e, guarded)
  PROVE  Becomes(s, f, forgetRefusedPeer(s, g, k), e, guarded)
<1>1. CASE forgetRefusedPeer(s, g, k) = g
  BY <1>1
<1>2. CASE forgetRefusedPeer(s, g, k) # g
  <2>1. k \in DOMAIN g /\ ~g[k].active /\ forgetRefusedPeer(s, g, k) = Drop(g, k)
    BY <1>2 DEF forgetRefusedPeer
  <2>2. /\ Drop(g, k) = [x \in DOMAIN Drop(g, k) |-> Drop(g, k)[x]] /\ DOMAIN Drop(g, k) = DOMAIN g \ {k}
        /\ \A x \in DOMAIN g \ {k} : Drop(g, k)[x] = g[x]
    BY DEF Drop
  <2>3. Table(s, Drop(g, k), e)
    BY <2>2 DEF Becomes, Table
  <2>4. Kept(f, Drop(g, k), guarded)
    BY <2>1, <2>2 DEF Becomes, Kept
  <2> QED
    BY <2>1, <2>3, <2>4 DEF Becomes
<1> QED
  BY <1>1, <1>2

LEMMA CleanupKeeps ==
  ASSUME PeerInv, NEW s \in Swarm, NEW c \in Conns, Cleanup(s, c)
  PROVE  PeerInv'
<1> DEFINE k == conn[c].to
<1>1. /\ pc[s][c] \in {"refused", "slotless", "closing"} /\ Move(s, c, "done") /\ c[1] = s
      /\ UNCHANGED <<active, admission, control, dials, conn, since, scenario>>
  BY DEF Cleanup
<1>2. TablesKept
  <2>1. Table(s, known[s], pauseEpoch[s])
    BY DEF PeerInv, PeersTyped, TablesTyped
  <2>2. CASE k \notin DOMAIN known[s] \/ ~known[s][k].dialing
    BY <1>1, <2>2, TablesUnchanged DEF Cleanup, control
  <2>3. CASE k \in DOMAIN known[s] /\ known[s][k].dialing
    <3>1. PICK last \in {"zero", known[s][k].last} :
            known' = [known EXCEPT ![s] = forgetRefusedPeer(s,
                         Put(known[s], k, [known[s][k] EXCEPT !.dialing = FALSE, !.last = last]), k)]
      BY <2>3 DEF Cleanup
    <3> DEFINE v == [known[s][k] EXCEPT !.dialing = FALSE, !.last = last]
    <3>2. known[s][k] \in Entries /\ k \in Keys /\ k[1] # s /\ known[s][k].epoch <= pauseEpoch[s]
      BY <2>1, <2>3 DEF Table, MayKeep
    <3>3. /\ v \in Entries /\ v.epoch <= pauseEpoch[s] /\ v.active = known[s][k].active
          /\ v.source = known[s][k].source
      BY <3>2 DEF Entries
    <3> HIDE DEF v
    <3>4. MayKeep(s, k, v, pauseEpoch[s]) /\ (untrackedDiscovery(v) => untrackedDiscovery(known[s][k]))
      BY <3>2, <3>3 DEF MayKeep, untrackedDiscovery
    <3>5. Becomes(s, known[s], Put(known[s], k, v), pauseEpoch[s], private[s])
      BY <2>1, <2>3, <3>2, <3>3, <3>4, PutBecomes
    <3>6. Becomes(s, known[s], forgetRefusedPeer(s, Put(known[s], k, v), k), pauseEpoch[s], private[s])
      BY <3>5, ForgetBecomes
    <3>7. known' = [known EXCEPT ![s] = forgetRefusedPeer(s, Put(known[s], k, v), k)]
      BY <3>1 DEF v
    <3> QED
      BY <1>1, <3>6, <3>7, OneTableChanged DEF control
  <2> QED
    BY <2>2, <2>3
<1>3. ControlTyped'
  BY <1>1, ControlUnchanged DEF PeerInv, PeersTyped, ControlTyped
<1>4. ConnsTyped' /\ ConnPaths' /\ \A t \in Swarm : LoopsKept(t)
  BY <1>1, ConnsUnchanged, Moved DEF Places, Early, AcceptedPlaces
<1> QED
  BY <1>1, <1>2, <1>3, <1>4, Ordinary DEF control

----------------------------------------------------------------------------
(* Admission *)

LEMMA TurnAwayKeeps ==
  ASSUME PeerInv, NEW s \in Swarm, NEW c \in Conns, NEW peers, pc[s][c] = "shaken",
         Becomes(s, known[s], peers, pauseEpoch[s], private[s]), TurnAway(s, c, peers),
         UNCHANGED <<listens, strikes, banned, struck, control, dials, scenario>>
  PROVE  PeerInv'
<1>1. /\ known' = [known EXCEPT ![s] = peers] /\ conn' = [conn EXCEPT ![c].open = FALSE]
      /\ Move(s, c, AfterLoop(s, c)) /\ UNCHANGED <<active, perHost, owner, since>>
  BY DEF TurnAway
<1>2. UNCHANGED <<active, admission, private>> /\ UNCHANGED <<control, since>> /\ pauseEpoch' = pauseEpoch
  BY <1>1 DEF admission, control
<1>3. TablesKept
  BY <1>1, <1>2, OneTableChanged
<1>4. ControlTyped'
  BY <1>2, ControlUnchanged DEF PeerInv, PeersTyped, ControlTyped
<1>5. ConnsOnlyClose
  <2>1. conn \in [Conns -> ConnStates]
    BY DEF PeerInv, PeersTyped, ConnsTyped
  <2>2. conn' = [conn EXCEPT ![c] = [conn[c] EXCEPT !.open = FALSE]] /\ [conn[c] EXCEPT !.open = FALSE] \in ConnStates
    BY <1>1, <2>1 DEF ConnStates
  <2> QED
    BY <2>1, <2>2 DEF ConnsOnlyClose, ConnStates
<1>6. ConnsTyped' /\ ConnPaths' /\ \A t \in Swarm : LoopsKept(t)
  BY <1>1, <1>5, Moved DEF AfterLoop, Outbound, Places, Early, AcceptedPlaces
<1> QED
  BY <1>2, <1>3, <1>4, <1>6, Ordinary

\* What a connection is admitted on.
Welcome(s, c) ==
    /\ ~(Outbound(s, c) /\ privateRefusesDialLocked(s, KeyAt(s, c)))
    /\ Refusal(s, KeyAt(s, c), Remote(s, c), Outbound(s, c)) = ""

LEMMA AdmitTypes ==
  ASSUME PeerInv, NEW s \in Swarm, NEW c \in Conns, pc[s][c] = "shaken", Admit(s, c),
         UNCHANGED <<listens, strikes, banned, struck, control, dials, scenario>>
  PROVE  /\ PeersTyped' /\ ConnPaths' /\ ConnsOnlyClose
         /\ \A t \in Swarm \ {s} : LoopsKept(t) /\ Kept(known[t], known'[t], private[t])
         /\ Loops(s)' = Loops(s) \cup {c}
<1> DEFINE k == KeyAt(s, c)
           p == Remote(s, c)
           h == HostOf[p]
<1>1. /\ perHost' = [perHost EXCEPT ![s][h] = CountWith(s, k, h)]
      /\ owner' = [owner EXCEPT ![s][p] = [key |-> k, out |-> Outbound(s, c)]]
      /\ active' = [active EXCEPT ![s] = Put(active[s], k, c)]
      /\ since' = [since EXCEPT ![s][c].reg = pauseEpoch[s]]
      /\ Move(s, c, "looping") /\ dials' = dials /\ scenario' = scenario /\ listens' = listens
      /\ strikes' = strikes /\ banned' = banned
      /\ paused' = paused /\ pauseEpoch' = pauseEpoch /\ private' = private
  BY DEF Admit, control
<1>2. k \in Keys /\ k[1] = p /\ p \in Swarm \ {s} /\ h \in Hosts
  BY KeyIsOfRemote, KeysAreEnds
<1>3. ConnsOnlyClose
  BY Closing DEF Admit
<1>4. /\ pc \in [Swarm -> [Conns -> Places]] /\ pc' \in [Swarm -> [Conns -> Places]] /\ pc'[s][c] = "looping"
      /\ \A t \in Swarm, d \in Conns : t # s \/ d # c => pc'[t][d] = pc[t][d]
  BY <1>1 DEF Move, PeerInv, PeersTyped, ConnsTyped, Places, AcceptedPlaces
<1>5. ConnsTyped' /\ ConnPaths'
  <2>1. \A t \in Swarm, d \in Conns :
            \/ pc'[t][d] = pc[t][d]
            \/ /\ pc[t][d] # "none" /\ pc'[t][d] # "none"
               /\ d[1] = t => pc'[t][d] # "accepted" /\ (pc'[t][d] \in Early => pc[t][d] \in Early)
               /\ d[1] # t => pc'[t][d] \in AcceptedPlaces
    BY <1>4 DEF Early, AcceptedPlaces
  <2> QED
    BY <1>1, <1>3, <1>4, <2>1, PathsKept
<1>6. /\ TablesTyped'
      /\ \A t \in Swarm \ {s} : Kept(known[t], known'[t], private[t])
  <2>1. /\ known = [t \in Swarm |-> known[t]] /\ \A t \in Swarm : Table(t, known[t], pauseEpoch[t])
        /\ pauseEpoch[s] \in Nat
    BY DEF PeerInv, PeersTyped, TablesTyped, ControlTyped
  <2> DEFINE entry == IF k \in DOMAIN known[s] THEN known[s][k]
                      ELSE Tried(NewEntry(FALSE, {}, "zero"), pauseEpoch[s])
             v == [entry EXCEPT !.active = TRUE, !.dialable = @ \/ Outbound(s, c),
                                !.source = IF Outbound(s, c) THEN @ ELSE @ \cup {"incoming"}]
  <2>2. known' = [known EXCEPT ![s] = Put(known[s], k, v)]
    BY DEF Admit, SetEntry
  <2>3. entry \in Entries /\ entry.epoch <= pauseEpoch[s]
    <3>1. CASE k \in DOMAIN known[s]
      BY <2>1, <3>1 DEF Table, MayKeep
    <3>2. CASE k \notin DOMAIN known[s]
      <4>1. NewEntry(FALSE, {}, "zero") \in Entries
        BY FreshEntry
      <4>2. entry = Tried(NewEntry(FALSE, {}, "zero"), pauseEpoch[s])
        BY <3>2
      <4> HIDE DEF entry
      <4>3. pauseEpoch[s] \in Nat
        BY <2>1
      <4>4. entry \in Entries /\ entry.epoch = pauseEpoch[s]
        BY <4>1, <4>2, <4>3, TriedEntry
      <4> QED
        BY <4>3, <4>4
    <3> QED
      BY <3>1, <3>2
  <2>4. v \in Entries /\ v.epoch <= pauseEpoch[s]
    <3> HIDE DEF entry
    <3>1. Outbound(s, c) \in BOOLEAN
      BY DEF Outbound
    <3> QED
      BY <2>3, <3>1 DEF Entries
  <2> HIDE DEF v
  <2>5. Table(s, Put(known[s], k, v), pauseEpoch[s])
    BY <1>2, <2>1, <2>4 DEF Put, Table, MayKeep
  <2>6. \A t \in Swarm : known'[t] = IF t = s THEN Put(known[s], k, v) ELSE known[t]
    BY <2>1, <2>2
  <2>7. known' = [t \in Swarm |-> known'[t]]
    BY <2>1, <2>2
  <2> QED
    BY <1>1, <2>1, <2>5, <2>6, <2>7 DEF TablesTyped, Kept
<1>7. AdmissionTyped'
  <2>1. AdmissionTyped
    BY DEF PeerInv, PeersTyped
  <2>2. /\ \A t \in Swarm : active'[t] = IF t = s THEN Put(active[s], k, c) ELSE active[t]
        /\ active' = [t \in Swarm |-> active'[t]]
    BY <1>1, <2>1 DEF AdmissionTyped
  <2>3. /\ DOMAIN Put(active[s], k, c) \subseteq Keys
        /\ Put(active[s], k, c) \in [DOMAIN Put(active[s], k, c) -> Conns]
    BY <1>2, <2>1 DEF AdmissionTyped, Put
  <2>4. perHost' \in [Swarm -> [Hosts -> Nat]]
    <3>1. CountWith(s, k, h) \in Nat
      BY <1>2, <2>1 DEF AdmissionTyped, CountWith
    <3> QED
      BY <1>1, <1>2, <2>1, <3>1 DEF AdmissionTyped
  <2>5. owner' \in [Swarm -> [Swarm -> [key : Keys \cup {<<>>}, out : BOOLEAN]]]
    <3>1. [key |-> k, out |-> Outbound(s, c)] \in [key : Keys \cup {<<>>}, out : BOOLEAN]
      BY <1>2 DEF Outbound
    <3> HIDE DEF k, p
    <3> QED
      BY <1>1, <1>2, <2>1, <3>1 DEF AdmissionTyped
  <2> QED
    BY <1>1, <2>1, <2>2, <2>3, <2>4, <2>5 DEF AdmissionTyped
<1>8. ControlTyped'
  <2>1. /\ since \in [Swarm -> [Conns -> Epochs]] /\ pauseEpoch \in [Swarm -> Nat]
        /\ \A t \in Swarm, d \in Conns : since[t][d].dial <= pauseEpoch[t] /\ since[t][d].reg <= pauseEpoch[t]
    BY DEF PeerInv, PeersTyped, ControlTyped
  <2>2. /\ [since[s][c] EXCEPT !.reg = pauseEpoch[s]] \in Epochs
        /\ since' = [since EXCEPT ![s] = [since[s] EXCEPT ![c] = [since[s][c] EXCEPT !.reg = pauseEpoch[s]]]]
    <3>1. [since[s][c] EXCEPT !.reg = pauseEpoch[s]] \in Epochs
      BY <2>1 DEF Epochs
    <3> QED
      BY <3>1 DEF Admit
  <2>3. since' \in [Swarm -> [Conns -> Epochs]]
    BY <2>1, <2>2
  <2>4. /\ \A t \in Swarm, d \in Conns : t # s \/ d # c => since'[t][d] = since[t][d]
        /\ since'[s][c].reg = pauseEpoch[s] /\ since'[s][c].dial = since[s][c].dial
    BY <2>1, <2>2 DEF Epochs
  <2>5. \A t \in Swarm, d \in Conns : since'[t][d].dial <= pauseEpoch[t] /\ since'[t][d].reg <= pauseEpoch[t]
    BY <2>1, <2>4
  <2> QED
    BY <1>1, <2>3, <2>5 DEF PeerInv, PeersTyped, ControlTyped
<1>9. StrikesTyped'
  BY <1>1 DEF PeerInv, PeersTyped, StrikesTyped
<1>10. \A t \in Swarm \ {s} : LoopsKept(t)
  BY <1>3, <1>4 DEF LoopsKept, ConnsOnlyClose
<1>11. Loops(s)' = Loops(s) \cup {c}
  BY <1>4 DEF Loops
<1> QED
  BY <1>3, <1>5, <1>6, <1>7, <1>8, <1>9, <1>10, <1>11 DEF PeersTyped

LEMMA AdmitKeeps ==
  ASSUME PeerInv, NEW s \in Swarm, NEW c \in Conns, pc[s][c] = "shaken", Welcome(s, c), Admit(s, c),
         UNCHANGED <<listens, strikes, banned, struck, control, dials, scenario>>
  PROVE  PeerInv'
<1> DEFINE k == KeyAt(s, c)
           p == Remote(s, c)
           h == HostOf[p]
           out == Outbound(s, c)
<1>1. /\ perHost' = [perHost EXCEPT ![s][h] = CountWith(s, k, h)]
      /\ owner' = [owner EXCEPT ![s][p] = [key |-> k, out |-> out]]
      /\ active' = [active EXCEPT ![s] = Put(active[s], k, c)]
      /\ listens' = listens /\ banned' = banned /\ private' = private
      /\ conn' = [d \in Conns |-> IF d \in Replaced(s, p) THEN [conn[d] EXCEPT !.open = FALSE] ELSE conn[d]]
  BY DEF Admit, control
<1>2. k \in Keys /\ k[1] = p /\ p \in Swarm \ {s} /\ h \in Hosts /\ k # <<>>
  BY KeyIsOfRemote, KeysAreEnds
<1>3. /\ PeersTyped' /\ ConnPaths' /\ ConnsOnlyClose
      /\ \A t \in Swarm \ {s} : LoopsKept(t) /\ Kept(known[t], known'[t], private[t])
      /\ Loops(s)' = Loops(s) \cup {c}
  BY AdmitTypes
<1>4. AdmissionTyped /\ Admitted(s) /\ TablesTyped
  BY DEF PeerInv, PeersTyped
<1>5. /\ k \in DOMAIN active[s] => owner[s][p].key = k
      /\ HostOf[p] \notin banned[s]
      /\ out /\ private[s] => k \in DOMAIN known[s] /\ ~untrackedDiscovery(known[s][k])
  BY DEF Welcome, Refusal, crossedOpenLocked, bannedLocked, privateRefusesDialLocked
<1>6. ASSUME NEW t \in Swarm \ {s} PROVE Admitted(t)'
  <2>1. active'[t] = active[t] /\ perHost'[t] = perHost[t] /\ owner'[t] = owner[t]
    BY <1>1, <1>4 DEF AdmissionTyped
  <2> QED
    BY <1>1, <1>3, <2>1, AdmissionKept
<1>7. /\ active'[s] = Put(active[s], k, c) /\ DOMAIN active'[s] = DOMAIN active[s] \cup {k}
      /\ active'[s][k] = c /\ \A x \in DOMAIN active[s] \ {k} : active'[s][x] = active[s][x]
      /\ DOMAIN active[s] \subseteq Keys /\ \A x \in DOMAIN active[s] : active[s][x] \in Conns
  BY <1>1, <1>4 DEF AdmissionTyped, Put
<1>8. \A d \in Conns : /\ KeyAt(s, d)' = KeyAt(s, d) /\ Outbound(s, d)' = Outbound(s, d)
                       /\ conn'[d].open => conn[d].open /\ d \notin Replaced(s, p)
  BY <1>1, <1>3, Closing DEF ConnsOnlyClose, KeyAt, Outbound
<1>9. \A d \in Loops(s) : d # c /\ d \in Conns
  BY DEF Loops
\* An open connection to the peer was the one its ID belonged to: it is replaced.
<1>10. \A x \in DOMAIN active[s] : x[1] = p => ~conn'[active[s][x]].open
  <2> SUFFICES ASSUME NEW x \in DOMAIN active[s], x[1] = p, conn'[active[s][x]].open
               PROVE  FALSE
    OBVIOUS
  <2>1. conn[active[s][x]].open /\ active[s][x] \notin Replaced(s, p)
    BY <1>7, <1>8
  <2>2. owner[s][p].key = x /\ x # <<>>
    BY <1>2, <1>4, <1>7, <2>1, KeysAreEnds DEF Admitted, OwnersRight
  <2>3. owner[s][p] # NoOwner
    BY <2>2 DEF NoOwner
  <2> QED
    BY <2>1, <2>2, <2>3 DEF Replaced
<1>11. Registered(s)'
  <2>1. ASSUME NEW x \in DOMAIN active'[s]
        PROVE  \E d \in Conns : d = active'[s][x] /\ d \in Loops(s)' /\ KeyAt(s, d)' = x
    <3>1. CASE x = k
      BY <1>3, <1>7, <1>8, <3>1
    <3>2. CASE x # k
      BY <1>3, <1>4, <1>7, <1>8, <3>2 DEF Admitted, Registered
    <3> QED
      BY <3>1, <3>2
  <2>2. ASSUME NEW d \in Conns, d \in Loops(s)', conn'[d].open
        PROVE  KeyAt(s, d)' \in DOMAIN active'[s] /\ active'[s][KeyAt(s, d)'] = d
    <3>1. CASE d = c
      BY <1>7, <1>8, <3>1
    <3>2. CASE d # c
      <4>1. d \in Loops(s) /\ d \in Conns /\ conn[d].open
        BY <1>3, <1>8, <1>9, <2>2, <3>2
      <4>2. KeyAt(s, d) \in DOMAIN active[s] /\ active[s][KeyAt(s, d)] = d
        BY <1>4, <4>1 DEF Admitted, Registered
      <4>3. KeyAt(s, d) # k
        BY <1>2, <1>10, <2>2, <4>2
      <4> QED
        BY <1>7, <1>8, <4>1, <4>2, <4>3
    <3> QED
      BY <3>1, <3>2
  <2> QED
    BY <2>1, <2>2 DEF Registered, Loops
<1>12. Counted(s)'
  <2> SUFFICES ASSUME NEW g \in Hosts PROVE perHost'[s][g] = Cardinality(AtHost(s, g)')
    BY DEF Counted
  <2>1. perHost[s][g] = Cardinality(AtHost(s, g)) /\ IsFiniteSet(AtHost(s, g))
    <3>1. AtHost(s, g) \subseteq Keys
      BY <1>7 DEF AtHost
    <3> QED
      BY <1>4, <3>1, SwarmFinite, FS_Subset DEF Admitted, Counted
  <2>2. perHost'[s][g] = IF g = h THEN CountWith(s, k, h) ELSE perHost[s][g]
    <3> HIDE DEF k, p, h
    <3> QED
      BY <1>1, <1>2, <1>4 DEF AdmissionTyped
  <2>3. AtHost(s, g)' = IF g = h THEN AtHost(s, g) \cup {k} ELSE AtHost(s, g)
    BY <1>2, <1>7 DEF AtHost
  <2>4. k \in AtHost(s, h) <=> k \in DOMAIN active[s]
    BY <1>2 DEF AtHost
  <2>5. CASE g = h
    <3>1. CASE k \in DOMAIN active[s]
      <4>1. AtHost(s, g)' = AtHost(s, g)
        BY <2>3, <2>4, <2>5, <3>1
      <4> QED
        BY <2>1, <2>2, <2>5, <3>1, <4>1 DEF CountWith
    <3>2. CASE k \notin DOMAIN active[s]
      <4>1. Cardinality(AtHost(s, g) \cup {k}) = Cardinality(AtHost(s, g)) + 1
        BY <2>1, <2>4, <2>5, <3>2, FS_AddElement
      <4> QED
        BY <2>1, <2>2, <2>3, <2>5, <3>2, <4>1 DEF CountWith
    <3> QED
      BY <3>1, <3>2
  <2>6. CASE g # h
    BY <2>1, <2>2, <2>3, <2>6
  <2> QED
    BY <2>5, <2>6
<1>13. OwnersRight(s)'
  <2>1. \A q \in Swarm : owner'[s][q] = IF q = p THEN [key |-> k, out |-> out] ELSE owner[s][q]
    <3> HIDE DEF k, p, out
    <3> QED
      BY <1>1, <1>2, <1>4 DEF AdmissionTyped
  <2>2. ASSUME NEW q \in Swarm
        PROVE  /\ owner'[s][q] # NoOwner => /\ owner'[s][q].key \in DOMAIN active'[s]
                                            /\ owner'[s][q].key[1] = q
                                            /\ Outbound(s, active'[s][owner'[s][q].key]) = owner'[s][q].out
               /\ \A x \in DOMAIN active'[s] : conn'[active'[s][x]].open /\ x[1] = q => owner'[s][q].key = x
    <3>1. CASE q = p
      BY <1>2, <1>7, <1>10, <2>1, <3>1
    <3>2. CASE q # p
      <4>1. owner'[s][q] = owner[s][q] /\ (owner[s][q] # NoOwner => owner[s][q].key # k)
        BY <1>2, <1>4, <2>1, <3>2 DEF Admitted, OwnersRight
      <4>2. \A x \in DOMAIN active'[s] : x[1] = q => x # k /\ x \in DOMAIN active[s]
        BY <1>2, <1>7, <3>2
      <4> QED
        BY <1>4, <1>7, <1>8, <4>1, <4>2 DEF Admitted, OwnersRight
    <3> QED
      BY <3>1, <3>2
  <2> QED
    BY <2>2 DEF OwnersRight, Outbound
<1>14. /\ DOMAIN known'[s] = DOMAIN known[s] \cup {k} /\ known'[s][k].active
       /\ \A x \in DOMAIN known[s] \ {k} : known'[s][x] = known[s][x]
       /\ out /\ k \in DOMAIN known[s] => known'[s][k].source = known[s][k].source
  <2> DEFINE entry == IF k \in DOMAIN known[s] THEN known[s][k]
                      ELSE Tried(NewEntry(FALSE, {}, "zero"), pauseEpoch[s])
             v == [entry EXCEPT !.active = TRUE, !.dialable = @ \/ out,
                                !.source = IF out THEN @ ELSE @ \cup {"incoming"}]
  <2>1. known' = [known EXCEPT ![s] = Put(known[s], k, v)]
    BY DEF Admit, SetEntry
  <2>2. entry \in Entries
    BY <1>4, FreshEntry, TriedEntry DEF TablesTyped, Table, MayKeep, PeerInv, PeersTyped, ControlTyped
  <2>3. v.active /\ (out => v.source = entry.source)
    <3> HIDE DEF entry
    <3> QED
      BY <2>2 DEF Entries
  <2> HIDE DEF v
  <2>4. known'[s] = Put(known[s], k, v)
    BY <1>4, <2>1 DEF TablesTyped
  <2> QED
    BY <2>3, <2>4 DEF Put
<1>15. Marked(s)'
  BY <1>2, <1>4, <1>7, <1>14 DEF Admitted, Marked
<1>16. Listening(s)'
  BY <1>1, <1>4, <1>7 DEF Admitted, Listening
<1>17. Refusing(s)'
  <2> SUFFICES ASSUME NEW x \in DOMAIN active'[s], conn'[active'[s][x]].open
               PROVE  /\ HostOf[x[1]] \notin banned[s]
                      /\ ~(private[s] /\ Outbound(s, active'[s][x]) /\ untrackedDiscovery(known'[s][x]))
    BY <1>1 DEF Refusing, Outbound, untrackedDiscovery
  <2>1. CASE x = k
    BY <1>2, <1>5, <1>7, <1>14, <2>1 DEF untrackedDiscovery
  <2>2. CASE x # k
    <3>1. x \in DOMAIN active[s] /\ active'[s][x] = active[s][x] /\ conn[active[s][x]].open /\ x \in Keys
      BY <1>7, <1>8, <2>2
    <3>2. x \in DOMAIN known[s]
      BY <1>4, <3>1 DEF Admitted, Marked
    <3> QED
      BY <1>4, <1>14, <2>2, <3>1, <3>2 DEF Admitted, Refusing
  <2> QED
    BY <2>1, <2>2
<1> QED
  BY <1>3, <1>6, <1>11, <1>12, <1>13, <1>15, <1>16, <1>17 DEF PeerInv, Admitted

\* A refused attempt restarts the backoff of its entry, no more.
LEMMA RefusedBecomes ==
  ASSUME PeerInv, NEW s \in Swarm, NEW c \in Conns
  PROVE  Becomes(s, known[s], RefusedPeers(s, c), pauseEpoch[s], private[s])
<1> DEFINE k == KeyAt(s, c)
           v == Tried(known[s][k], pauseEpoch[s])
<1>1. Table(s, known[s], pauseEpoch[s]) /\ pauseEpoch[s] \in Nat
  BY DEF PeerInv, PeersTyped, TablesTyped, ControlTyped
<1>2. \/ RefusedPeers(s, c) = known[s]
      \/ k \in DOMAIN known[s] /\ RefusedPeers(s, c) = Put(known[s], k, v)
  BY DEF RefusedPeers
<1>3. CASE k \in DOMAIN known[s] /\ RefusedPeers(s, c) = Put(known[s], k, v)
  <2>1. known[s][k] \in Entries /\ k \in Keys /\ k[1] # s
    BY <1>1, <1>3 DEF Table, MayKeep
  <2>2. /\ v \in Entries /\ v.active = known[s][k].active
        /\ v.source = known[s][k].source /\ v.epoch = pauseEpoch[s]
    BY <1>1, <2>1, TriedEntry
  <2> HIDE DEF v, k
  <2>3. MayKeep(s, k, v, pauseEpoch[s]) /\ (untrackedDiscovery(v) => untrackedDiscovery(known[s][k]))
    BY <1>1, <2>1, <2>2 DEF MayKeep, untrackedDiscovery
  <2> QED
    BY <1>1, <1>3, <2>1, <2>2, <2>3, PutBecomes
<1> QED
  BY <1>1, <1>2, <1>3, SameTable

LEMMA RegisterKeeps ==
  ASSUME PeerInv, NEW s \in Swarm, NEW c \in Conns, Register(s, c)
  PROVE  PeerInv'
<1> DEFINE k == KeyAt(s, c)
<1>1. pc[s][c] = "shaken" /\ UNCHANGED <<listens, strikes, banned, struck, control, dials, scenario>>
  BY DEF Register
<1>2. Becomes(s, known[s], known[s], pauseEpoch[s], private[s])
  BY SameTable DEF PeerInv, PeersTyped, TablesTyped
<1>3. \/ TurnAway(s, c, known[s])
      \/ TurnAway(s, c, forgetRefusedPeer(s, known[s], k))
      \/ TurnAway(s, c, RefusedPeers(s, c))
      \/ Welcome(s, c) /\ Admit(s, c)
  BY DEF Register, Welcome
<1> QED
  BY <1>1, <1>2, <1>3, ForgetBecomes, RefusedBecomes, TurnAwayKeeps, AdmitKeeps

LEMMA NoteKeeps ==
  ASSUME PeerInv, NEW s \in Swarm, NEW c \in Conns, noteListenPortLocked(s, c)
  PROVE  PeerInv'
<1> DEFINE k == KeyAt(s, c)
           l == ListenKey(c[1])
<1>1. /\ pc[s][c] = "looping" /\ conn[c].open /\ listens' = [listens EXCEPT ![s] = Put(listens[s], l, k)]
      /\ UNCHANGED <<known, active, perHost, owner, strikes, banned, struck, control, dials, conn, pc, since, scenario>>
  BY DEF noteListenPortLocked
<1>2. PeersTyped
  BY DEF PeerInv
<1>3. AdmissionTyped /\ AdmissionTyped'
  <2>1. AdmissionTyped
    BY <1>2 DEF PeersTyped
  <2>2. Put(listens[s], l, k) = [x \in DOMAIN Put(listens[s], l, k) |-> Put(listens[s], l, k)[x]]
    BY DEF Put
  <2> HIDE DEF k, l
  <2> QED
    BY <1>1, <2>1, <2>2 DEF AdmissionTyped
<1>4. TablesTyped' /\ StrikesTyped' /\ ControlTyped' /\ ConnsTyped'
  BY <1>1, <1>2 DEF PeersTyped, TablesTyped, StrikesTyped, ControlTyped, ConnsTyped, control
<1>5. ConnPaths'
  BY <1>1 DEF PeerInv, ConnPaths, ConnPath, ListenKey
<1>6. ASSUME NEW t \in Swarm PROVE Admitted(t)'
  <2>1. LoopsKept(t) /\ Kept(known[t], known'[t], private[t])
    BY <1>1 DEF LoopsKept, Kept
  <2>2. active'[t] = active[t] /\ perHost'[t] = perHost[t] /\ owner'[t] = owner[t]
        /\ banned'[t] = banned[t] /\ private'[t] = private[t]
    BY <1>1 DEF control
  <2>3. CASE t # s
    <3>1. listens'[t] = listens[t]
      BY <1>1, <1>3, <2>3 DEF AdmissionTyped
    <3> QED
      BY <2>1, <2>2, <3>1, AdmissionKept
  <2>4. CASE t = s
    <3>1. k \in DOMAIN active[s]
      BY <1>1 DEF PeerInv, Admitted, Registered, Loops
    <3>2. listens'[s] = Put(listens[s], l, k)
      BY <1>1, <1>3 DEF AdmissionTyped
    <3>3. Listening(s)'
      BY <2>2, <2>4, <3>1, <3>2 DEF PeerInv, Admitted, Listening, Put
    <3>4. Refusing(s)'
      BY <1>1, <2>2, <2>4 DEF PeerInv, Admitted, Refusing, Outbound, untrackedDiscovery
    <3> QED
      BY <2>1, <2>2, <2>4, <3>3, <3>4, BooksKept DEF Admitted
  <2> QED
    BY <2>3, <2>4
<1> QED
  BY <1>3, <1>4, <1>5, <1>6 DEF PeerInv, PeersTyped

----------------------------------------------------------------------------
(* The end of a connection *)

\* releaseListenPortLocked restarts backoffs, no more.
LEMMA ReleasedTable ==
  ASSUME PeerInv, NEW s \in Swarm, NEW c \in Conns, NEW k
  PROVE  LET peers == ReleasedEndpoints(s, c, k)
         IN /\ Table(s, peers, pauseEpoch[s]) /\ DOMAIN peers = DOMAIN known[s]
            /\ \A x \in DOMAIN known[s] : /\ peers[x].active = known[s][x].active
                                          /\ peers[x].source = known[s][x].source
<1> DEFINE peers == ReleasedEndpoints(s, c, k)
           d == since[s][c].reg
<1>1. /\ Table(s, known[s], pauseEpoch[s]) /\ pauseEpoch[s] \in Nat
      /\ d \in Nat /\ d <= pauseEpoch[s]
  BY DEF PeerInv, PeersTyped, TablesTyped, ControlTyped, Epochs
<1>2. DOMAIN peers = DOMAIN known[s] /\ peers = [x \in DOMAIN peers |-> peers[x]]
  BY DEF ReleasedEndpoints
<1>3. \A x \in DOMAIN known[s] : \/ peers[x] = [Tried(known[s][x], d) EXCEPT !.freed = TRUE]
                                  \/ peers[x] = known[s][x]
  BY DEF ReleasedEndpoints
<1> HIDE DEF peers, d
<1>4. ASSUME NEW x \in DOMAIN known[s]
      PROVE  /\ peers[x].active = known[s][x].active /\ peers[x].source = known[s][x].source
             /\ MayKeep(s, x, peers[x], pauseEpoch[s])
  <2>1. known[s][x] \in Entries /\ known[s][x].epoch <= pauseEpoch[s] /\ x \in Keys /\ x[1] # s
    BY <1>1 DEF Table, MayKeep
  <2> DEFINE tried == Tried(known[s][x], d)
             freed == [tried EXCEPT !.freed = TRUE]
  <2>2. /\ tried \in Entries /\ tried.active = known[s][x].active
        /\ tried.source = known[s][x].source /\ tried.epoch = d
    BY <1>1, <2>1, TriedEntry
  <2>3. peers[x] = freed \/ peers[x] = known[s][x]
    BY <1>3
  <2> HIDE DEF tried
  <2>4. /\ freed \in Entries /\ freed.active = known[s][x].active
        /\ freed.source = known[s][x].source /\ freed.epoch = d
    BY <2>2 DEF Entries
  <2> HIDE DEF freed
  <2> QED
    BY <1>1, <2>1, <2>3, <2>4 DEF MayKeep
<1> QED
  BY <1>2, <1>4 DEF Table, peers

\* The entry of an ended connection is idle.
LEMMA IdleEntry ==
  ASSUME NEW entry \in Entries, NEW d \in Nat
  PROVE  LET idle == [entry EXCEPT !.active = FALSE]
             fresh == [idle EXCEPT !.last = "zero"]
         IN /\ fresh \in Entries /\ ~fresh.active /\ fresh.epoch = entry.epoch
            /\ Tried(idle, d) \in Entries /\ ~Tried(idle, d).active /\ Tried(idle, d).epoch = d
<1> DEFINE idle == [entry EXCEPT !.active = FALSE]
           fresh == [idle EXCEPT !.last = "zero"]
<1>1. idle \in Entries /\ ~idle.active /\ idle.epoch = entry.epoch
  BY DEF Entries
<1> HIDE DEF idle
<1>2. fresh \in Entries /\ ~fresh.active /\ fresh.epoch = entry.epoch
  BY <1>1 DEF Entries
<1>3. Tried(idle, d) \in Entries /\ Tried(idle, d).active = idle.active /\ Tried(idle, d).epoch = d
  BY <1>1, TriedEntry
<1> QED
  BY <1>1, <1>2, <1>3 DEF idle

\* The tables once the loop of c has ended, and the frame of its step.
LEMMA DisconnectTypes ==
  ASSUME PeerInv, NEW s \in Swarm, NEW c \in Conns, Disconnect(s, c)
  PROVE  /\ PeersTyped' /\ ConnPaths'
         /\ \A t \in Swarm \ {s} : LoopsKept(t)
         /\ Loops(s)' = Loops(s) \ {c}
<1> DEFINE k == KeyAt(s, c)
           p == Remote(s, c)
           h == HostOf[p]
           mine == k \in DOMAIN active[s] /\ active[s][k] = c
           peers == ReleasedEndpoints(s, c, k)
           after == EndedEntry(s, c, peers, k)
<1>1. /\ pc[s][c] = "looping" /\ ~conn[c].open
      /\ listens' = [listens EXCEPT ![s] = [l \in {l \in DOMAIN @ : @[l] # k} |-> @[l]]]
      /\ known' = [known EXCEPT ![s] = IF mine THEN after ELSE peers]
      /\ UNCHANGED <<strikes, banned, struck, control, dials, conn, since, scenario>>
      /\ \E where \in {"redial", "closing", "done"} :
            Move(s, c, where) /\ (where = "closing" => c[1] = s)
  BY DEF Disconnect, AfterLoop, Outbound
<1>2. /\ mine => /\ perHost' = [perHost EXCEPT ![s][h] = IF @ = 0 THEN 0 ELSE @ - 1]
                 /\ owner' = IF owner[s][p].key = k THEN [owner EXCEPT ![s][p] = NoOwner] ELSE owner
                 /\ active' = [active EXCEPT ![s] = Drop(active[s], k)]
      /\ ~mine => UNCHANGED <<perHost, owner, active>>
  BY DEF Disconnect
<1>3. k \in Keys /\ k[1] = p /\ p \in Swarm \ {s} /\ h \in Hosts
  BY <1>1, KeyIsOfRemote, KeysAreEnds
<1>4. PICK where \in {"redial", "closing", "done"} :
        Move(s, c, where) /\ (where = "closing" => c[1] = s)
  BY <1>1
<1>5. /\ pc \in [Swarm -> [Conns -> Places]] /\ pc' \in [Swarm -> [Conns -> Places]] /\ pc'[s][c] = where
      /\ \A t \in Swarm, d \in Conns : t # s \/ d # c => pc'[t][d] = pc[t][d]
  BY <1>4 DEF Move, PeerInv, PeersTyped, ConnsTyped, Places, AcceptedPlaces
<1>6. ConnsTyped' /\ ConnPaths'
  <2>1. \A t \in Swarm, d \in Conns :
            \/ pc'[t][d] = pc[t][d]
            \/ /\ pc[t][d] # "none" /\ pc'[t][d] # "none"
               /\ d[1] = t => pc'[t][d] # "accepted" /\ (pc'[t][d] \in Early => pc[t][d] \in Early)
               /\ d[1] # t => pc'[t][d] \in AcceptedPlaces
    BY <1>1, <1>4, <1>5 DEF Early, AcceptedPlaces
  <2> QED
    BY <1>1, <1>5, <2>1, ConnsUnchanged, PathsKept
<1>7. TablesTyped'
  <2>1. /\ known = [t \in Swarm |-> known[t]] /\ \A t \in Swarm : Table(t, known[t], pauseEpoch[t])
        /\ pauseEpoch[s] \in Nat /\ since[s][c].reg \in Nat /\ since[s][c].reg <= pauseEpoch[s]
    BY DEF PeerInv, PeersTyped, TablesTyped, ControlTyped, Epochs
  <2>2. Table(s, peers, pauseEpoch[s])
    BY ReleasedTable
  <2> HIDE DEF peers
  <2>3. Table(s, after, pauseEpoch[s])
    <3>1. CASE after = peers
      BY <2>2, <3>1
    <3>2. CASE after = Drop(peers, k)
      BY <2>2, <3>2 DEF Drop, Table
    <3>3. CASE /\ k \in DOMAIN peers
               /\ \/ after = Put(peers, k, [[peers[k] EXCEPT !.active = FALSE] EXCEPT !.last = "zero"])
                  \/ after = Put(peers, k, Tried([peers[k] EXCEPT !.active = FALSE], since[s][c].reg))
      <4> DEFINE u == [[peers[k] EXCEPT !.active = FALSE] EXCEPT !.last = "zero"]
                 v == Tried([peers[k] EXCEPT !.active = FALSE], since[s][c].reg)
      <4>1. \A x \in {u, v} : MayKeep(s, k, x, pauseEpoch[s])
        <5>1. MayKeep(s, k, peers[k], pauseEpoch[s])
          BY <2>2, <3>3 DEF Table
        <5>2. /\ u \in Entries /\ u.epoch = peers[k].epoch
              /\ v \in Entries /\ v.epoch = since[s][c].reg
          BY <2>1, <5>1, IdleEntry DEF MayKeep
        <5> HIDE DEF u, v, k
        <5> QED
          BY <2>1, <5>1, <5>2 DEF MayKeep
      <4> HIDE DEF u, v, after
      <4>2. after = Put(peers, k, u) \/ after = Put(peers, k, v)
        BY <3>3 DEF u, v
      <4> QED
        BY <2>2, <4>1, <4>2 DEF Put, Table
    <3> QED
      BY <3>1, <3>2, <3>3 DEF EndedEntry
  <2> HIDE DEF after
  <2>4. Table(s, known'[s], pauseEpoch'[s]) /\ known' = [t \in Swarm |-> known'[t]]
    BY <1>1, <2>1, <2>2, <2>3 DEF control
  <2>5. \A t \in Swarm \ {s} : known'[t] = known[t] /\ pauseEpoch'[t] = pauseEpoch[t]
    BY <1>1, <2>1 DEF control
  <2> QED
    BY <2>1, <2>4, <2>5 DEF TablesTyped
<1>8. AdmissionTyped'
  <2>1. AdmissionTyped
    BY DEF PeerInv, PeersTyped
  <2>2. /\ listens' = [t \in Swarm |-> listens'[t]]
        /\ \A t \in Swarm : listens'[t] = [l \in DOMAIN listens'[t] |-> listens'[t][l]]
    BY <1>1, <2>1 DEF AdmissionTyped
  <2>3. /\ active' = [t \in Swarm |-> active'[t]]
        /\ \A t \in Swarm : DOMAIN active'[t] \subseteq Keys /\ active'[t] \in [DOMAIN active'[t] -> Conns]
    BY <1>2, <2>1 DEF AdmissionTyped, Drop
  <2>4. perHost' \in [Swarm -> [Hosts -> Nat]]
    <3> DEFINE n == IF perHost[s][h] = 0 THEN 0 ELSE perHost[s][h] - 1
    <3>1. n \in Nat
      BY <1>3, <2>1 DEF AdmissionTyped
    <3>2. perHost' = [perHost EXCEPT ![s] = [perHost[s] EXCEPT ![h] = n]] \/ perHost' = perHost
      BY <1>2
    <3>3. perHost \in [Swarm -> [Hosts -> Nat]]
      BY <2>1 DEF AdmissionTyped
    <3> HIDE DEF k, p, h, mine, n
    <3>4. [perHost[s] EXCEPT ![h] = n] \in [Hosts -> Nat]
      BY <1>3, <3>1, <3>3
    <3> QED
      BY <3>2, <3>3, <3>4
  <2>5. owner' \in [Swarm -> [Swarm -> [key : Keys \cup {<<>>}, out : BOOLEAN]]]
    <3>1. NoOwner \in [key : Keys \cup {<<>>}, out : BOOLEAN]
      BY DEF NoOwner
    <3>2. owner' = [owner EXCEPT ![s] = [owner[s] EXCEPT ![p] = NoOwner]] \/ owner' = owner
      BY <1>2
    <3>3. owner \in [Swarm -> [Swarm -> [key : Keys \cup {<<>>}, out : BOOLEAN]]]
      BY <2>1 DEF AdmissionTyped
    <3> HIDE DEF k, p, h, mine
    <3>4. [owner[s] EXCEPT ![p] = NoOwner] \in [Swarm -> [key : Keys \cup {<<>>}, out : BOOLEAN]]
      BY <1>3, <3>1, <3>3
    <3> QED
      BY <3>2, <3>3, <3>4
  <2> QED
    BY <1>1, <2>1, <2>2, <2>3, <2>4, <2>5 DEF AdmissionTyped
<1>9. ControlTyped' /\ StrikesTyped'
  BY <1>1, ControlUnchanged DEF PeerInv, PeersTyped, ControlTyped, StrikesTyped
<1>10. \A t \in Swarm \ {s} : LoopsKept(t)
  BY <1>1, <1>5 DEF LoopsKept
<1>11. Loops(s)' = Loops(s) \ {c}
  BY <1>4, <1>5 DEF Loops
<1> QED
  BY <1>6, <1>7, <1>8, <1>9, <1>10, <1>11 DEF PeersTyped

\* What the end of connection c under key k leaves of the table of s.
LEMMA EndedTable ==
  ASSUME PeerInv, NEW s \in Swarm, NEW c \in Conns, NEW k \in DOMAIN known[s]
  PROVE  LET peers == ReleasedEndpoints(s, c, k)
             after == EndedEntry(s, c, peers, k)
         IN /\ \A x \in Keys \ {k} : /\ x \in DOMAIN after <=> x \in DOMAIN known[s]
                                     /\ x \in DOMAIN known[s] => /\ after[x].active = known[s][x].active
                                                                 /\ after[x].source = known[s][x].source
            /\ k \in DOMAIN after => ~after[k].active
<1> DEFINE peers == ReleasedEndpoints(s, c, k)
           after == EndedEntry(s, c, peers, k)
<1>1. peers[k] \in Entries /\ since[s][c].reg \in Nat
  BY ReleasedTable DEF Table, MayKeep, PeerInv, PeersTyped, ControlTyped, Epochs
<1>2. /\ DOMAIN peers = DOMAIN known[s]
      /\ \A x \in DOMAIN known[s] : /\ peers[x].active = known[s][x].active
                                    /\ peers[x].source = known[s][x].source
  BY ReleasedTable
<1> HIDE DEF peers
<1>3. \/ after = Drop(peers, k)
      \/ after = Put(peers, k, [[peers[k] EXCEPT !.active = FALSE] EXCEPT !.last = "zero"])
      \/ after = Put(peers, k, Tried([peers[k] EXCEPT !.active = FALSE], since[s][c].reg))
  BY <1>2 DEF EndedEntry
<1>4. CASE after = Drop(peers, k)
  BY <1>2, <1>4 DEF Drop, peers
<1>5. CASE \/ after = Put(peers, k, [[peers[k] EXCEPT !.active = FALSE] EXCEPT !.last = "zero"])
           \/ after = Put(peers, k, Tried([peers[k] EXCEPT !.active = FALSE], since[s][c].reg))
  <2> DEFINE u == [[peers[k] EXCEPT !.active = FALSE] EXCEPT !.last = "zero"]
             v == Tried([peers[k] EXCEPT !.active = FALSE], since[s][c].reg)
  <2>1. ~u.active /\ ~v.active
    BY <1>1, IdleEntry
  <2> HIDE DEF u, v, after
  <2>2. after = Put(peers, k, u) \/ after = Put(peers, k, v)
    BY <1>5 DEF u, v
  <2>3. /\ DOMAIN after = DOMAIN known[s] /\ (after[k] = u \/ after[k] = v)
        /\ \A x \in DOMAIN known[s] \ {k} : after[x] = peers[x]
    BY <1>2, <2>2 DEF Put
  <2> QED
    BY <1>2, <2>1, <2>3 DEF peers, after
<1> QED
  BY <1>3, <1>4, <1>5

LEMMA DisconnectKeeps ==
  ASSUME PeerInv, NEW s \in Swarm, NEW c \in Conns, Disconnect(s, c)
  PROVE  PeerInv'
<1> DEFINE k == KeyAt(s, c)
           p == Remote(s, c)
           h == HostOf[p]
           mine == k \in DOMAIN active[s] /\ active[s][k] = c
           peers == ReleasedEndpoints(s, c, k)
           after == EndedEntry(s, c, peers, k)
<1>1. /\ pc[s][c] = "looping" /\ ~conn[c].open
      /\ listens' = [listens EXCEPT ![s] = [l \in {l \in DOMAIN @ : @[l] # k} |-> @[l]]]
      /\ known' = [known EXCEPT ![s] = IF mine THEN after ELSE peers]
      /\ banned' = banned /\ private' = private /\ conn' = conn
  BY DEF Disconnect, control
<1>2. /\ mine => /\ perHost' = [perHost EXCEPT ![s][h] = IF @ = 0 THEN 0 ELSE @ - 1]
                 /\ owner' = IF owner[s][p].key = k THEN [owner EXCEPT ![s][p] = NoOwner] ELSE owner
                 /\ active' = [active EXCEPT ![s] = Drop(active[s], k)]
      /\ ~mine => active' = active /\ perHost' = perHost /\ owner' = owner
  BY DEF Disconnect
<1>3. k \in Keys /\ k[1] = p /\ p \in Swarm \ {s} /\ h \in Hosts /\ k # <<>>
  BY <1>1, KeyIsOfRemote, KeysAreEnds
<1>4. PeersTyped' /\ ConnPaths' /\ (\A t \in Swarm \ {s} : LoopsKept(t)) /\ Loops(s)' = Loops(s) \ {c}
  BY DisconnectTypes
<1>5. AdmissionTyped /\ TablesTyped /\ Admitted(s) /\ Table(s, known[s], pauseEpoch[s])
  BY DEF PeerInv, PeersTyped, TablesTyped
<1>6. ASSUME NEW t \in Swarm \ {s} PROVE Admitted(t)'
  <2>1. /\ active'[t] = active[t] /\ perHost'[t] = perHost[t] /\ owner'[t] = owner[t]
        /\ listens'[t] = listens[t] /\ known'[t] = known[t]
    <3> HIDE DEF k, p, h, mine, peers, after
    <3> QED
      BY <1>1, <1>2, <1>5 DEF AdmissionTyped, TablesTyped
  <2>2. Kept(known[t], known'[t], private[t])
    BY <2>1 DEF Kept
  <2> QED
    BY <1>1, <1>4, <2>1, <2>2, AdmissionKept
<1>7. /\ DOMAIN active[s] \subseteq Keys
      /\ \A x \in DOMAIN active[s] : active[s][x] \in Loops(s) /\ KeyAt(s, active[s][x]) = x
      /\ \A d \in Loops(s) : conn[d].open => KeyAt(s, d) \in DOMAIN active[s] /\ active[s][KeyAt(s, d)] = d
      /\ \A d \in Conns : KeyAt(s, d)' = KeyAt(s, d) /\ Outbound(s, d)' = Outbound(s, d)
  BY <1>1, <1>5 DEF AdmissionTyped, Admitted, Registered, KeyAt, Outbound
<1>8. /\ DOMAIN listens'[s] = {l \in DOMAIN listens[s] : listens[s][l] # k}
      /\ \A l \in DOMAIN listens'[s] : listens'[s][l] = listens[s][l]
  BY <1>1, <1>5 DEF AdmissionTyped
<1>9. known'[s] = IF mine THEN after ELSE peers
  <2> HIDE DEF mine, after, peers
  <2> QED
    BY <1>1, <1>5 DEF TablesTyped
<1>10. CASE mine
  <2>1. /\ active'[s] = Drop(active[s], k) /\ DOMAIN active'[s] = DOMAIN active[s] \ {k}
        /\ \A x \in DOMAIN active'[s] : active'[s][x] = active[s][x]
        /\ k \in DOMAIN active[s] /\ active[s][k] = c
    BY <1>2, <1>5, <1>10 DEF AdmissionTyped, Drop
  <2>2. Registered(s)'
    <3>1. ASSUME NEW x \in DOMAIN active'[s]
          PROVE  \E d \in Conns : d = active'[s][x] /\ d \in Loops(s)' /\ KeyAt(s, d)' = x
      BY <1>4, <1>7, <2>1 DEF Loops
    <3>2. ASSUME NEW d \in Conns, d \in Loops(s)', conn'[d].open
          PROVE  KeyAt(s, d)' \in DOMAIN active'[s] /\ active'[s][KeyAt(s, d)'] = d
      BY <1>1, <1>4, <1>7, <2>1, <3>2 DEF Loops
    <3> QED
      BY <3>1, <3>2 DEF Registered, Loops
  <2>3. Counted(s)'
    <3> SUFFICES ASSUME NEW g \in Hosts PROVE perHost'[s][g] = Cardinality(AtHost(s, g)')
      BY DEF Counted
    <3>1. perHost[s][g] = Cardinality(AtHost(s, g)) /\ IsFiniteSet(AtHost(s, g))
      <4>1. AtHost(s, g) \subseteq Keys
        BY <1>7 DEF AtHost
      <4> QED
        BY <1>5, <4>1, SwarmFinite, FS_Subset DEF Admitted, Counted
    <3>2. perHost'[s][g] = IF g = h THEN IF perHost[s][h] = 0 THEN 0 ELSE perHost[s][h] - 1 ELSE perHost[s][g]
      <4> HIDE DEF k, p, h
      <4> QED
        BY <1>2, <1>3, <1>5, <1>10 DEF AdmissionTyped
    <3>3. AtHost(s, g)' = IF g = h THEN AtHost(s, g) \ {k} ELSE AtHost(s, g)
      BY <1>3, <2>1 DEF AtHost
    <3>4. CASE g = h
      <4>1. k \in AtHost(s, g)
        BY <1>3, <2>1, <3>4 DEF AtHost
      <4>2. Cardinality(AtHost(s, g) \ {k}) = Cardinality(AtHost(s, g)) - 1 /\ Cardinality(AtHost(s, g)) \in Nat
        BY <3>1, <4>1, FS_RemoveElement, FS_CardinalityType
      <4>3. Cardinality(AtHost(s, g)) # 0
        BY <3>1, <4>1, FS_EmptySet
      <4> QED
        BY <3>1, <3>2, <3>3, <3>4, <4>2, <4>3
    <3>5. CASE g # h
      BY <3>1, <3>2, <3>3, <3>5
    <3> QED
      BY <3>4, <3>5
  <2>4. OwnersRight(s)'
    <3>1. \A q \in Swarm : owner'[s][q] = IF q = p /\ owner[s][p].key = k THEN NoOwner ELSE owner[s][q]
      <4> HIDE DEF k, p
      <4> QED
        BY <1>2, <1>3, <1>5, <1>10 DEF AdmissionTyped
    <3>2. ASSUME NEW q \in Swarm
          PROVE  /\ owner'[s][q] # NoOwner => /\ owner'[s][q].key \in DOMAIN active'[s]
                                              /\ owner'[s][q].key[1] = q
                                              /\ Outbound(s, active'[s][owner'[s][q].key]) = owner'[s][q].out
                 /\ \A x \in DOMAIN active'[s] : conn'[active'[s][x]].open /\ x[1] = q => owner'[s][q].key = x
      <4>1. CASE q = p /\ owner[s][p].key = k
        BY <1>1, <1>3, <1>5, <2>1, <3>1, <4>1 DEF Admitted, OwnersRight
      <4>2. CASE ~(q = p /\ owner[s][p].key = k)
        <5>1. owner'[s][q] = owner[s][q] /\ (owner[s][q] # NoOwner => owner[s][q].key # k)
          BY <1>3, <1>5, <3>1, <4>2 DEF Admitted, OwnersRight
        <5> QED
          BY <1>1, <1>5, <2>1, <5>1 DEF Admitted, OwnersRight
      <4> QED
        BY <4>1, <4>2
    <3> QED
      BY <3>2 DEF OwnersRight, Outbound
  <2>5. k \in DOMAIN known[s]
    BY <1>3, <1>5, <2>1 DEF Admitted, Marked
  <2>6. /\ \A x \in Keys \ {k} : /\ x \in DOMAIN after <=> x \in DOMAIN known[s]
                                 /\ x \in DOMAIN known[s] => /\ after[x].active = known[s][x].active
                                                             /\ after[x].source = known[s][x].source
        /\ k \in DOMAIN after => ~after[k].active
    BY <2>5, EndedTable
  <2> HIDE DEF after
  <2>7. Marked(s)'
    BY <1>5, <1>9, <1>10, <2>1, <2>6 DEF Admitted, Marked
  <2>8. Listening(s)'
    BY <1>5, <1>8, <2>1 DEF Admitted, Listening
  <2>9. Refusing(s)'
    <3> SUFFICES ASSUME NEW x \in DOMAIN active'[s], conn[active[s][x]].open
                 PROVE  /\ HostOf[x[1]] \notin banned[s]
                        /\ ~(private[s] /\ Outbound(s, active[s][x]) /\ untrackedDiscovery(known'[s][x]))
      BY <1>1, <2>1 DEF Refusing, Outbound, untrackedDiscovery
    <3>1. x \in DOMAIN active[s] /\ x # k /\ x \in Keys
      BY <1>7, <2>1
    <3>2. x \in DOMAIN known[s]
      BY <1>5, <3>1 DEF Admitted, Marked
    <3> QED
      BY <1>5, <1>9, <1>10, <2>6, <3>1, <3>2 DEF Admitted, Refusing, untrackedDiscovery
  <2> QED
    BY <1>4, <1>6, <2>2, <2>3, <2>4, <2>7, <2>8, <2>9 DEF PeerInv, Admitted
<1>11. CASE ~mine
  <2>1. active' = active /\ perHost' = perHost /\ owner' = owner
    BY <1>2, <1>11
  <2>2. \A x \in DOMAIN active[s] : active[s][x] # c
    BY <1>7, <1>11
  <2>3. Registered(s)'
    BY <1>1, <1>4, <1>7, <2>1, <2>2 DEF Registered, Loops
  <2>4. Counted(s)' /\ OwnersRight(s)'
    BY <1>1, <1>5, <2>1 DEF Admitted, Counted, AtHost, OwnersRight, Outbound
  <2>5. /\ DOMAIN known'[s] = DOMAIN known[s]
        /\ \A x \in DOMAIN known[s] : known'[s][x].active = known[s][x].active
                                      /\ known'[s][x].source = known[s][x].source
    BY <1>9, <1>11, ReleasedTable
  <2>6. Marked(s)'
    BY <1>5, <2>1, <2>5 DEF Admitted, Marked
  <2>7. Listening(s)'
    BY <1>5, <1>8, <2>1 DEF Admitted, Listening
  <2>8. Refusing(s)'
    <3>1. \A x \in DOMAIN active[s] : x \in DOMAIN known[s]
      BY <1>5, <1>7 DEF Admitted, Marked
    <3> QED
      BY <1>1, <1>5, <2>1, <2>5, <3>1 DEF Admitted, Refusing, Outbound, untrackedDiscovery
  <2> QED
    BY <1>4, <1>6, <2>3, <2>4, <2>6, <2>7, <2>8 DEF PeerInv, Admitted
<1> QED
  BY <1>10, <1>11

LEMMA RedialKeeps ==
  ASSUME PeerInv, NEW s \in Swarm, NEW c \in Conns, Redial(s, c)
  PROVE  PeerInv'
<1> DEFINE k == KeyAt(s, c)
           add == AddPeer(s, k, "none")
           New(d) == add.dial /\ d[1] = s /\ d[2] = dials[s] + 1
<1>1. /\ pc[s][c] = "redial" /\ known' = [known EXCEPT ![s] = add.peers]
      /\ add.dial => dials[s] < MaxDials
      /\ dials' = IF add.dial THEN [dials EXCEPT ![s] = @ + 1] ELSE dials
      /\ conn' = [d \in Conns |-> IF New(d) THEN [conn[d] EXCEPT !.to = k] ELSE conn[d]]
      /\ pc' = [pc EXCEPT ![s] = [d \in Conns |-> IF d = c THEN AfterLoop(s, c)
                                                  ELSE IF New(d) THEN "start" ELSE pc[s][d]]]
      /\ UNCHANGED <<active, admission, control, since, scenario>>
  BY DEF Redial
<1>2. k \in Keys /\ k[1] # s
  BY <1>1, KeyIsOfRemote
<1>3. TablesKept
  <2>1. Becomes(s, known[s], add.peers, pauseEpoch[s], private[s])
    BY <1>2, AddPeerBecomes
  <2> QED
    BY <1>1, <2>1, OneTableChanged DEF control
<1>4. ControlTyped'
  BY <1>1, ControlUnchanged DEF PeerInv, PeersTyped, ControlTyped
<1>5. /\ dials \in [Swarm -> 0 .. MaxDials] /\ conn \in [Conns -> ConnStates]
      /\ pc \in [Swarm -> [Conns -> Places]] /\ MaxDials \in Nat
  BY SwarmFinite DEF PeerInv, PeersTyped, ConnsTyped
<1> HIDE DEF add
<1>6. /\ dials' \in [Swarm -> 0 .. MaxDials] /\ dials'[s] = (IF add.dial THEN dials[s] + 1 ELSE dials[s])
      /\ \A t \in Swarm : t # s => dials'[t] = dials[t]
  BY <1>1, <1>5
<1>7. \A d \in Conns : New(d) => /\ \A t \in Swarm : pc[t][d] = "none"
                                 /\ ~conn[d].open /\ d # c
  <2> SUFFICES ASSUME NEW d \in Conns, New(d)
               PROVE  (\A t \in Swarm : pc[t][d] = "none") /\ ~conn[d].open /\ d # c
    OBVIOUS
  <2>1. ConnPath(d)
    BY DEF PeerInv, ConnPaths
  <2>2. dials[s] \in Nat /\ d[2] > dials[s]
    BY <1>5
  <2> QED
    BY <1>1, <2>1, <2>2 DEF ConnPath, Early
<1>8. \A d \in Conns : /\ New(d) => conn'[d] = [conn[d] EXCEPT !.to = k]
                       /\ ~New(d) => conn'[d] = conn[d]
  BY <1>1
<1>9. /\ pc'[s][c] = AfterLoop(s, c)
      /\ \A d \in Conns : New(d) => pc'[s][d] = "start"
      /\ \A t \in Swarm, d \in Conns : ~(t = s /\ (d = c \/ New(d))) => pc'[t][d] = pc[t][d]
  BY <1>1, <1>5, <1>7
<1>10. conn' \in [Conns -> ConnStates]
  <2>1. \A d \in Conns : [conn[d] EXCEPT !.to = k] \in ConnStates
    BY <1>2, <1>5 DEF ConnStates
  <2> QED
    BY <1>1, <1>5, <2>1
<1>11. pc' \in [Swarm -> [Conns -> Places]]
  <2>1. AfterLoop(s, c) \in Places /\ "start" \in Places
    BY DEF AfterLoop, Places, Early, AcceptedPlaces
  <2> QED
    BY <1>1, <1>5, <2>1
<1>12. ASSUME NEW d \in Conns PROVE ConnPath(d)'
  <2>1. ConnPath(d) /\ d[1] \in Swarm /\ d[2] \in Nat
    BY ConnsAreKeys, SwarmFinite DEF PeerInv, ConnPaths
  <2>2. CASE New(d)
    <3>1. /\ d[1] = s /\ pc'[s][d] = "start" /\ d[2] <= dials'[s] /\ dials'[s] \in Nat
          /\ \A t \in Swarm \ {s} : pc'[t][d] = "none"
      BY <1>5, <1>6, <1>7, <1>9, <2>1, <2>2
    <3>2. conn'[d].to = k /\ ~conn'[d].open
      <4>1. conn'[d] = [conn[d] EXCEPT !.to = k] /\ ~conn[d].open
        BY <1>7, <1>8, <2>2
      <4> HIDE DEF k, New
      <4> QED
        BY <1>5, <4>1 DEF ConnStates
    <3> QED
      BY <1>2, <2>1, <3>1, <3>2 DEF ConnPath
  <2>3. CASE ~New(d)
    <3>1. conn'[d] = conn[d]
      BY <1>8, <2>3
    <3>2. d[2] > dials'[d[1]] => d[2] > dials[d[1]]
      BY <1>5, <1>6, <2>1
    <3>3. CASE d = c
      <4>1. \A t \in Swarm : t # s => pc'[t][d] = pc[t][d]
        BY <1>9
      <4>2. /\ c[1] = s => pc'[s][c] = "closing"
            /\ c[1] # s => pc'[s][c] = "done"
        BY <1>9 DEF AfterLoop, Outbound
      <4>3. CASE c[1] = s
        <5>1. pc'[d[1]][d] = "closing" /\ pc[d[1]][d] = "redial"
          BY <1>1, <3>3, <4>2, <4>3
        <5> QED
          BY <2>1, <3>1, <3>2, <3>3, <4>1, <4>3, <5>1 DEF ConnPath, ListenKey, Early
      <4>4. CASE c[1] # s
        <5>1. pc'[d[1]][d] = pc[d[1]][d] /\ pc'[s][d] = "done" /\ pc[s][d] = "redial"
          BY <1>1, <2>1, <3>3, <4>1, <4>2, <4>4
        <5> QED
          BY <2>1, <3>1, <3>2, <3>3, <4>1, <4>4, <5>1 DEF ConnPath, ListenKey, Early, AcceptedPlaces
      <4> QED
        BY <4>3, <4>4
    <3>4. CASE d # c
      <4>1. \A t \in Swarm : pc'[t][d] = pc[t][d]
        BY <1>9, <2>3, <3>4
      <4> QED
        BY <2>1, <3>1, <3>2, <4>1 DEF ConnPath, ListenKey
    <3> QED
      BY <3>3, <3>4
  <2> QED
    BY <2>2, <2>3
<1>13. \A t \in Swarm : LoopsKept(t)
  <2>1. pc[s][c] # "looping" /\ pc'[s][c] # "looping"
    BY <1>1, <1>9 DEF AfterLoop
  <2>2. \A t \in Swarm, d \in Conns : New(d) => pc[t][d] # "looping" /\ pc'[t][d] # "looping"
    BY <1>7, <1>9
  <2> QED
    BY <1>8, <1>9, <2>1, <2>2 DEF LoopsKept
<1> QED
  BY <1>1, <1>3, <1>4, <1>6, <1>10, <1>11, <1>12, <1>13, Ordinary DEF ConnsTyped, ConnPaths, control

----------------------------------------------------------------------------
(* What ends connections *)

LEMMA PauseKeeps ==
  ASSUME PeerInv, NEW s \in Swarm, Pause(s)
  PROVE  PeerInv'
<1>1. /\ SpendTrouble("pauses") /\ paused' = [paused EXCEPT ![s] = TRUE]
      /\ pauseEpoch' = [pauseEpoch EXCEPT ![s] = @ + 1] /\ CloseAll(ActiveConns(s))
      /\ UNCHANGED <<known, active, admission, private, dials, pc, since>>
  BY DEF Pause
<1>2. ControlTyped /\ TablesTyped
  BY DEF PeerInv, PeersTyped
<1>3. /\ pauseEpoch' \in [Swarm -> Nat] /\ paused' \in [Swarm -> BOOLEAN]
      /\ \A t \in Swarm : pauseEpoch[t] \in Nat /\ pauseEpoch'[t] \in Nat /\ pauseEpoch[t] <= pauseEpoch'[t]
  BY <1>1, <1>2 DEF ControlTyped
<1>4. TablesKept
  <2>1. \A t \in Swarm : Table(t, known[t], pauseEpoch'[t])
    BY <1>2, <1>3, LaterTable DEF TablesTyped
  <2> QED
    BY <1>1, <1>2, <2>1, SameTable DEF TablesKept, TablesTyped
<1>5. ControlTyped'
  <2>1. \A t \in Swarm, c \in Conns : since[t][c].dial <= pauseEpoch'[t] /\ since[t][c].reg <= pauseEpoch'[t]
    BY <1>2, <1>3 DEF ControlTyped, Epochs
  <2> QED
    BY <1>1, <1>2, <1>3, <2>1, TroubleSpent DEF ControlTyped
<1>6. ConnsTyped' /\ ConnPaths' /\ \A t \in Swarm : LoopsKept(t)
  BY <1>1, Closing, Stayed DEF CloseAll
<1> QED
  BY <1>1, <1>4, <1>5, <1>6, Ordinary

LEMMA ResumeKeeps ==
  ASSUME PeerInv, NEW s \in Swarm, Resume(s)
  PROVE  PeerInv'
<1> DEFINE g == [k \in DOMAIN known[s] |-> IF known[s][k].active THEN known[s][k]
                                           ELSE [known[s][k] EXCEPT !.last = "zero"]]
<1>1. /\ known' = [known EXCEPT ![s] = g] /\ paused' = [paused EXCEPT ![s] = FALSE]
      /\ UNCHANGED <<active, admission, pauseEpoch, private, dials, conn, pc, since, scenario>>
  BY DEF Resume
<1>2. Becomes(s, known[s], g, pauseEpoch[s], private[s])
  <2>1. Table(s, known[s], pauseEpoch[s])
    BY DEF PeerInv, PeersTyped, TablesTyped
  <2>2. \A k \in DOMAIN known[s] : MayKeep(s, k, g[k], pauseEpoch[s])
          /\ g[k].active = known[s][k].active /\ g[k].source = known[s][k].source
    BY <2>1 DEF Table, MayKeep, Entries
  <2>3. g = [k \in DOMAIN g |-> g[k]] /\ DOMAIN g = DOMAIN known[s]
    OBVIOUS
  <2> HIDE DEF g
  <2> QED
    BY <2>1, <2>2, <2>3, MapBecomes
<1> HIDE DEF g
<1>3. TablesKept
  BY <1>1, <1>2, OneTableChanged
<1>4. ControlTyped'
  BY <1>1 DEF PeerInv, PeersTyped, ControlTyped
<1>5. ConnsTyped' /\ ConnPaths' /\ \A t \in Swarm : LoopsKept(t)
  BY <1>1, ConnsUnchanged, Stayed
<1> QED
  BY <1>1, <1>3, <1>4, <1>5, Ordinary

LEMMA DropsKeep ==
  ASSUME PeerInv, NEW c \in Conns, ConnectionDrops(c)
  PROVE  PeerInv'
<1>1. /\ SpendTrouble("drops") /\ CloseAll({c})
      /\ UNCHANGED <<known, active, admission, control, dials, pc, since>>
  BY DEF ConnectionDrops
<1>2. TablesKept
  BY <1>1, TablesUnchanged DEF control
<1>3. ControlTyped'
  BY <1>1, TroubleSpent, ControlUnchanged
<1>4. ConnsTyped' /\ ConnPaths' /\ \A t \in Swarm : LoopsKept(t)
  BY <1>1, Closing, Stayed DEF CloseAll
<1> QED
  BY <1>1, <1>2, <1>3, <1>4, Ordinary DEF control

LEMMA StrikeKeeps ==
  ASSUME PeerInv, NEW s \in Swarm, NEW c \in Conns, strikePieceSourceLocked(s, c)
  PROVE  PeerInv'
<1> DEFINE h == HostOf[Remote(s, c)]
           ban == strikes[s][h] + 1 >= StrikesToBan
<1>1. /\ SpendTrouble("strikes") /\ pc[s][c] = "looping"
      /\ strikes' = [strikes EXCEPT ![s][h] = IF ban THEN 0 ELSE @ + 1]
      /\ banned' = IF ban THEN [banned EXCEPT ![s] = @ \cup {h}] ELSE banned
      /\ IF ban THEN CloseAll(HostConns(s, h)) ELSE conn' = conn
      /\ UNCHANGED <<known, active, perHost, owner, listens, control, dials, pc, since>>
  BY DEF strikePieceSourceLocked
<1>2. h \in Hosts
  BY <1>1, KeyIsOfRemote, KeysAreEnds
<1>3. ConnsOnlyClose
  BY <1>1, Closing, ConnsUnchanged DEF CloseAll
<1>4. ConnsTyped' /\ ConnPaths' /\ \A t \in Swarm : LoopsKept(t)
  BY <1>1, <1>3, Stayed
<1>5. AdmissionTyped /\ StrikesTyped /\ TablesTyped
  BY DEF PeerInv, PeersTyped
<1>6. StrikesTyped'
  <2>1. strikes[s][h] \in 0 .. StrikesToBan - 1 /\ StrikesToBan \in Nat \ {0}
    BY <1>2, <1>5, SwarmFinite DEF StrikesTyped
  <2>2. (IF ban THEN 0 ELSE strikes[s][h] + 1) \in 0 .. StrikesToBan - 1
    BY <2>1
  <2> HIDE DEF h, ban
  <2> QED
    BY <1>1, <1>2, <1>5, <2>2 DEF StrikesTyped
<1>7. banned' \in [Swarm -> SUBSET Hosts]
  <2> HIDE DEF h, ban
  <2> QED
    BY <1>1, <1>2, <1>5 DEF AdmissionTyped
<1>8. AdmissionTyped' /\ TablesTyped'
  BY <1>1, <1>5, <1>7 DEF AdmissionTyped, TablesTyped, control
<1>9. ControlTyped'
  BY <1>1, TroubleSpent, ControlUnchanged
<1>10. ASSUME NEW t \in Swarm PROVE Admitted(t)'
  <2>1. /\ LoopsKept(t) /\ Kept(known[t], known'[t], private[t])
        /\ active'[t] = active[t] /\ perHost'[t] = perHost[t] /\ owner'[t] = owner[t]
        /\ listens'[t] = listens[t] /\ private'[t] = private[t]
    BY <1>1, <1>4 DEF Kept, control
  <2>2. CASE t # s \/ ~ban
    <3>1. banned'[t] = banned[t]
      BY <1>1, <1>5, <2>2 DEF AdmissionTyped
    <3> QED
      BY <2>1, <3>1, AdmissionKept
  <2>3. CASE t = s /\ ban
    <3>1. Admitted(s) /\ DOMAIN active[s] \subseteq Keys /\ active[s] \in [DOMAIN active[s] -> Conns]
      BY <1>5 DEF AdmissionTyped, PeerInv
    <3>2. Registered(s)' /\ Counted(s)' /\ OwnersRight(s)' /\ Marked(s)'
      BY <2>1, <2>3, BooksKept
    <3>3. Listening(s)'
      BY <2>1, <2>3, <3>1 DEF Admitted, Listening
    <3>4. banned'[s] = banned[s] \cup {h}
      BY <1>1, <1>5, <2>3 DEF AdmissionTyped
    <3>5. \A k \in DOMAIN active[s] : /\ conn'[active[s][k]].open => conn[active[s][k]].open
                                      /\ HostOf[k[1]] = h => ~conn'[active[s][k]].open
      <4>1. \A k \in DOMAIN active[s] : k \in DOMAIN known[s] /\ active[s][k] \in Conns
        BY <3>1 DEF Admitted, Marked
      <4>2. \A k \in DOMAIN active[s] : HostOf[k[1]] = h => active[s][k] \in HostConns(s, h)
        BY <4>1 DEF HostConns
      <4>3. \A d \in HostConns(s, h) \cap Conns : ~conn'[d].open
        BY <1>1, <2>3, Closing DEF CloseAll
      <4> QED
        BY <1>3, <4>1, <4>2, <4>3 DEF ConnsOnlyClose
    <3>6. Refusing(s)'
      <4> HIDE DEF h
      <4> QED
        BY <1>1, <2>1, <2>3, <3>1, <3>4, <3>5 DEF Admitted, Refusing, Outbound, untrackedDiscovery
    <3> QED
      BY <2>3, <3>2, <3>3, <3>6 DEF Admitted
  <2> QED
    BY <2>2, <2>3
<1> QED
  BY <1>4, <1>6, <1>8, <1>9, <1>10 DEF PeerInv, PeersTyped

LEMMA LearnKeeps ==
  ASSUME PeerInv, NEW s \in Swarm, LearnPrivate(s)
  PROVE  PeerInv'
<1> DEFINE refused == {k \in DOMAIN known[s] : untrackedDiscovery(known[s][k])}
           cut == refused \cap DOMAIN active[s]
           staying == {k \in DOMAIN known[s] : k \notin refused \/ k \in cut \/ known[s][k].dialing}
           g == [k \in staying |-> known[s][k]]
<1>1. /\ SpendTrouble("reveals") /\ private' = [private EXCEPT ![s] = TRUE]
      /\ CloseAll({active[s][k] : k \in cut}) /\ known' = [known EXCEPT ![s] = g]
      /\ UNCHANGED <<active, admission, paused, pauseEpoch, dials, pc, since>>
  BY DEF LearnPrivate
<1>2. /\ active' = active /\ perHost' = perHost /\ owner' = owner /\ listens' = listens
      /\ strikes' = strikes /\ banned' = banned
  BY <1>1 DEF admission
<1>3. ConnsOnlyClose /\ \A d \in {active[s][k] : k \in cut} \cap Conns : ~conn'[d].open
  BY <1>1, Closing DEF CloseAll
<1>4. ConnsTyped' /\ ConnPaths' /\ \A t \in Swarm : LoopsKept(t)
  BY <1>1, <1>3, Stayed
<1>5. AdmissionTyped /\ StrikesTyped /\ TablesTyped /\ ControlTyped /\ Table(s, known[s], pauseEpoch[s]) /\ Admitted(s)
  BY DEF PeerInv, PeersTyped, TablesTyped
<1>6. Becomes(s, known[s], g, pauseEpoch[s], private[s])
  <2>1. DOMAIN g = staying /\ \A k \in staying : g[k] = known[s][k]
    OBVIOUS
  <2>2. \A k \in DOMAIN known[s] \ staying : ~known[s][k].active
    BY <1>5 DEF Admitted, Marked, Table, MayKeep
  <2>3. \A k \in staying : MayKeep(s, k, g[k], pauseEpoch[s])
    BY <1>5 DEF Table
  <2>4. staying \subseteq DOMAIN known[s] /\ g = [k \in DOMAIN g |-> g[k]]
    OBVIOUS
  <2> HIDE DEF g, staying
  <2> QED
    BY <1>5, <2>1, <2>2, <2>3, <2>4, MapBecomes
<1>7. TablesKept
  <2> HIDE DEF g
  <2> QED
    BY <1>1, <1>6, OneTableChanged
<1>8. TablesTyped'
  BY <1>7 DEF TablesKept, Becomes, TablesTyped
<1>9. AdmissionTyped' /\ StrikesTyped'
  BY <1>2, <1>5 DEF AdmissionTyped, StrikesTyped
<1>10. ControlTyped'
  BY <1>1, <1>5, TroubleSpent DEF ControlTyped
<1>11. \A t \in Swarm : LoopsKept(t) /\ Kept(known[t], known'[t], private[t])
  BY <1>4, <1>7 DEF TablesKept, Becomes
<1>12. ASSUME NEW t \in Swarm PROVE Admitted(t)'
  <2>1. CASE t # s
    <3>1. private'[t] = private[t]
      BY <1>1, <1>5, <2>1 DEF ControlTyped
    <3> QED
      BY <1>2, <1>11, <3>1, AdmissionKept
  <2>2. CASE t = s
    <3>1. Registered(s)' /\ Counted(s)' /\ OwnersRight(s)' /\ Marked(s)'
      BY <1>2, <1>11, BooksKept
    <3>2. Listening(s)'
      BY <1>2, <1>5 DEF Admitted, Listening
    <3>3. Refusing(s)'
      <4> SUFFICES ASSUME NEW k \in DOMAIN active[s], conn'[active[s][k]].open
                   PROVE  HostOf[k[1]] \notin banned[s] /\ ~untrackedDiscovery(known'[s][k])
        BY <1>2 DEF Refusing, Outbound, untrackedDiscovery
      <4>1. active[s][k] \in Conns /\ k \in DOMAIN known[s]
        BY <1>5 DEF AdmissionTyped, Admitted, Marked
      <4>2. conn[active[s][k]].open
        BY <1>3, <4>1 DEF ConnsOnlyClose
      <4>3. k \notin refused
        BY <1>3, <4>1
      <4>4. known'[s][k] = known[s][k]
        <5>1. known'[s] = g
          <6> HIDE DEF g
          <6> QED
            BY <1>1, <1>5 DEF TablesTyped
        <5> QED
          BY <4>1, <4>3, <5>1
      <4> QED
        BY <1>5, <4>1, <4>2, <4>3, <4>4 DEF Admitted, Refusing
    <3> QED
      BY <2>2, <3>1, <3>2, <3>3 DEF Admitted
  <2> QED
    BY <2>1, <2>2
<1> QED
  BY <1>4, <1>8, <1>9, <1>10, <1>12 DEF PeerInv, PeersTyped

----------------------------------------------------------------------------
(* The theorem *)

LEMMA PeersStart == ConnInit => PeerInv
<1> SUFFICES ASSUME ConnInit PROVE PeerInv
  OBVIOUS
<1>1. TablesTyped
  BY DEF ConnInit, TablesTyped, Table
<1>2. AdmissionTyped
  BY DEF ConnInit, AdmissionTyped, NoOwner
<1>3. StrikesTyped
  BY SwarmFinite DEF ConnInit, StrikesTyped
<1>4. ControlTyped
  BY PeerConnectionsAssumption DEF ConnInit, ControlTyped, Epochs
<1>5. ConnsTyped
  BY SwarmFinite DEF ConnInit, ConnsTyped, ConnStates, NoConn, Places, Early
<1>6. ConnPaths
  BY ConnsAreKeys DEF ConnInit, ConnPaths, ConnPath, Early
<1>7. ASSUME NEW s \in Swarm PROVE Admitted(s)
  <2>1. Registered(s) /\ OwnersRight(s) /\ Marked(s) /\ Listening(s) /\ Refusing(s)
    BY DEF ConnInit, Registered, OwnersRight, Marked, Listening, Refusing, Loops
  <2>2. Counted(s)
    <3>1. \A h \in Hosts : AtHost(s, h) = {}
      BY DEF ConnInit, AtHost
    <3> QED
      BY <3>1, FS_EmptySet DEF ConnInit, Counted
  <2> QED
    BY <2>1, <2>2 DEF Admitted
<1> QED
  BY <1>1, <1>2, <1>3, <1>4, <1>5, <1>6, <1>7 DEF PeerInv, PeersTyped

LEMMA PeersStep == PeerInv /\ [ConnNext]_connVars => PeerInv'
<1> SUFFICES ASSUME PeerInv, [ConnNext]_connVars PROVE PeerInv'
  OBVIOUS
<1>1. CASE \E s, p \in Swarm, source \in {"tracker", "discovery"} : s # p /\ Listed(s, p, source)
  BY <1>1, ListedKeeps
<1>2. CASE \E s \in Swarm : \/ maintainPeerConnections(s) \/ Pause(s) \/ Resume(s) \/ LearnPrivate(s)
                            \/ \E k \in Keys : BackoffEnds(s, k)
  BY <1>2, MaintainKeeps, PauseKeeps, ResumeKeeps, LearnKeeps, BackoffKeeps
<1>3. CASE \E s \in Swarm, c \in Conns :
              \/ TakeSlot(s, c) \/ DialFails(s, c) \/ \E via \in {"tcp", "utp"} : DialConnects(s, c, via)
              \/ ServeIncoming(s, c) \/ HandshakeFails(s, c) \/ HandshakeDone(s, c) \/ Cleanup(s, c)
  BY <1>3, TakeSlotKeeps, DialFailsKeeps, DialConnectsKeeps, ServeIncomingKeeps, HandshakeFailsKeeps,
     HandshakeDoneKeeps, CleanupKeeps
<1>4. CASE \E s \in Swarm, c \in Conns :
              \/ Register(s, c) \/ noteListenPortLocked(s, c) \/ Disconnect(s, c) \/ Redial(s, c)
              \/ strikePieceSourceLocked(s, c)
  BY <1>4, RegisterKeeps, NoteKeeps, DisconnectKeeps, RedialKeeps, StrikeKeeps
<1>5. CASE \E c \in Conns : ConnectionDrops(c)
  BY <1>5, DropsKeep
<1>6. CASE UNCHANGED connVars
  <2>1. TablesKept /\ ControlTyped'
    BY <1>6, TablesUnchanged DEF connVars, PeerInv, PeersTyped, ControlTyped
  <2>2. ConnsTyped' /\ ConnPaths' /\ \A t \in Swarm : LoopsKept(t)
    BY <1>6, ConnsUnchanged, Stayed DEF connVars
  <2> QED
    BY <1>6, <2>1, <2>2, Ordinary DEF connVars, admission
<1> QED
  BY <1>1, <1>2, <1>3, <1>4, <1>5, <1>6 DEF ConnNext

LEMMA PeerInvGivesAdmission == PeerInv => AdmissionIsSound
<1> SUFFICES ASSUME PeerInv PROVE AdmissionIsSound
  OBVIOUS
<1>1. ASSUME NEW s \in Swarm
      PROVE  /\ Admitted(s) /\ DOMAIN active[s] \subseteq Keys
             /\ \A k \in DOMAIN active[s] : /\ active[s][k] \in Loops(s) /\ KeyAt(s, active[s][k]) = k
                                            /\ Remote(s, active[s][k]) = k[1]
  <2>1. Admitted(s) /\ DOMAIN active[s] \subseteq Keys
    BY DEF PeerInv, PeersTyped, AdmissionTyped
  <2>2. \A k \in DOMAIN active[s] : active[s][k] \in Loops(s) /\ KeyAt(s, active[s][k]) = k
    BY <2>1 DEF Admitted, Registered
  <2> QED
    BY <2>1, <2>2, KeyIsOfRemote DEF Loops
<1>2. ConnTypeOK
  <2>1. PeersTyped /\ StrikesToBan \in Nat \ {0} /\ MaxDials \in Nat
    BY SwarmFinite DEF PeerInv
  <2>2. \A s \in Swarm : \A k \in DOMAIN known[s] : known[s][k].epoch <= pauseEpoch[s]
    BY <2>1 DEF PeersTyped, TablesTyped, Table, MayKeep
  <2>3. \A s \in Swarm : \A h \in DOMAIN strikes[s] : strikes[s][h] < StrikesToBan
    BY <2>1 DEF PeersTyped, StrikesTyped
  <2>4. \A s \in Swarm : dials[s] <= MaxDials
    BY <2>1 DEF PeersTyped, ConnsTyped
  <2> QED
    BY <2>2, <2>3, <2>4 DEF ConnTypeOK
<1>3. ASSUME NEW s \in Swarm, NEW p \in Swarm, NEW c \in OpenAt(s, p)
      PROVE  owner[s][p].key = KeyAt(s, c) /\ c = active[s][owner[s][p].key]
  <2>1. PICK k \in DOMAIN active[s] : c = active[s][k]
    BY DEF OpenAt, ActiveConns
  <2>2. k[1] = p /\ conn[active[s][k]].open
    BY <1>1, <2>1 DEF OpenAt
  <2> QED
    BY <1>1, <2>1, <2>2 DEF Admitted, OwnersRight
<1>4. AdmissionConsistent
  <2> SUFFICES ASSUME NEW s \in Swarm
               PROVE  /\ \A h \in Hosts : perHost[s][h] = Cardinality({k \in DOMAIN active[s] : HostOf[k[1]] = h})
                      /\ \A p \in Swarm : LET o == owner[s][p] IN
                          /\ o # NoOwner => /\ o.key \in DOMAIN active[s]
                                            /\ Remote(s, active[s][o.key]) = p
                                            /\ Outbound(s, active[s][o.key]) = o.out
                          /\ \A c \in OpenAt(s, p) : o.key = KeyAt(s, c)
                      /\ {k \in DOMAIN known[s] : known[s][k].active} = DOMAIN active[s]
                      /\ \A l \in DOMAIN listens[s] : listens[s][l] \in DOMAIN active[s]
    BY DEF AdmissionConsistent
  <2>1. \A h \in Hosts : perHost[s][h] = Cardinality({k \in DOMAIN active[s] : HostOf[k[1]] = h})
    BY <1>1 DEF Admitted, Counted, AtHost
  <2>2. ASSUME NEW p \in Swarm, owner[s][p] # NoOwner
        PROVE  /\ owner[s][p].key \in DOMAIN active[s]
               /\ Remote(s, active[s][owner[s][p].key]) = p
               /\ Outbound(s, active[s][owner[s][p].key]) = owner[s][p].out
    BY <1>1, <2>2 DEF Admitted, OwnersRight
  <2>3. {k \in DOMAIN known[s] : known[s][k].active} = DOMAIN active[s]
    <3>1. DOMAIN known[s] \subseteq Keys
      BY DEF PeerInv, PeersTyped, TablesTyped, Table, MayKeep
    <3> QED
      BY <1>1, <3>1 DEF Admitted, Marked
  <2>4. \A l \in DOMAIN listens[s] : listens[s][l] \in DOMAIN active[s]
    BY <1>1 DEF Admitted, Listening
  <2> QED
    BY <1>3, <2>1, <2>2, <2>3, <2>4
<1>5. OneConnectionEach
  <2> SUFFICES ASSUME NEW s \in Swarm, NEW p \in Swarm PROVE Cardinality(OpenAt(s, p)) <= 1
    BY DEF OneConnectionEach
  <2>1. OpenAt(s, p) \subseteq {active[s][owner[s][p].key]}
    BY <1>3
  <2>2. IsFiniteSet({active[s][owner[s][p].key]}) /\ Cardinality({active[s][owner[s][p].key]}) = 1
    BY FS_Singleton
  <2>3. Cardinality(OpenAt(s, p)) <= Cardinality({active[s][owner[s][p].key]})
    BY <2>1, <2>2, FS_Subset
  <2> QED
    BY <2>2, <2>3
<1>6. RefusedStayOut
  <2> SUFFICES ASSUME NEW s \in Swarm, NEW k \in DOMAIN active[s], conn[active[s][k]].open
               PROVE  /\ HostOf[Remote(s, active[s][k])] \notin banned[s]
                      /\ ~(private[s] /\ Outbound(s, active[s][k]) /\ untrackedDiscovery(known[s][k]))
    BY DEF RefusedStayOut
  <2> QED
    BY <1>1 DEF Admitted, Refusing
<1> QED
  BY <1>2, <1>4, <1>5, <1>6 DEF AdmissionIsSound

\* Whatever the sessions, their addresses, limits and troubles: admission
\* keeps its books through takeovers, a session has one open connection with
\* a peer at most, and none with one that is banned or, on a private torrent,
\* refused (peer_admission.go, peer_conn.go, peer_source.go).
THEOREM AdmissionHolds == ConnSpec => []AdmissionIsSound
<1>1. ConnInit => PeerInv
  BY PeersStart
<1>2. PeerInv /\ [ConnNext]_connVars => PeerInv'
  BY PeersStep
<1>3. PeerInv => AdmissionIsSound
  BY PeerInvGivesAdmission
<1> QED
  BY <1>1, <1>2, <1>3, PTL DEF ConnSpec
=============================================================================
