--------------------------- MODULE LookupScheduler ---------------------------
(***************************************************************************)
(* The DHT's queue of get_peers lookups (pkg/dht/lookup_scheduler.go), its *)
(* dispatcher goroutine, the lookup goroutines, and DHT.Close.  Each       *)
(* action is one critical section of lookupScheduler.mu or goMu, or one    *)
(* blocking wait.  Time is one bit: has the pacing interval passed since   *)
(* the last start?                                                         *)
(***************************************************************************)
EXTENDS Naturals, FiniteSets, Sequences

CONSTANTS InfoHash,
          Requests,        \* the requests callers make
          Port,            \* ports a request may carry; NoPort among them
          NoPort,          \* port zero: the request names none
          MaxConcurrent,   \* dhtMaxConcurrentLookups
          MaxQueued,       \* dhtMaxQueuedLookups
          MaxRemembered    \* dhtMaxRememberedLookups

ASSUME LookupAssumption ==
  /\ NoPort \in Port
  /\ Requests \subseteq [announce : BOOLEAN, port : Port]
  /\ MaxConcurrent \in Nat \ {0}
  /\ MaxQueued \in Nat \ {0}
  /\ MaxRemembered \in Nat
  /\ IsFiniteSet(InfoHash)

VARIABLES
  pending,      \* pending[h]: the queued request for h, or NotQueued
  urgent,       \* queue of hashes not looked up yet, served newest first
  routine,      \* queue of repeats, served oldest first
  running,      \* hashes whose lookup has started and not finished
  seen,         \* hashes started since the DHT started, while there is room
  paced,        \* the pacing interval since the last start has passed
  dispatching,  \* a dispatcher has been ordered
  schedulerClosed, \* lookupScheduler.closed
  wake,         \* the one-slot wake-up channel holds a signal
  dpc,          \* dispatcher: none, ordered, take, wait, waitDue, spawn, done
  taken,        \* the lookup the dispatcher took and is about to spawn
  live,         \* hashes whose lookup goroutine is alive
  shutdown,     \* DHT.Close: open, schedClosed, cancelled, goClosed, finished
  asked         \* history: requests accepted for h since its last start

queueVars == <<pending, urgent, routine, asked>>
shutdownVars == <<schedulerClosed, shutdown>>
schedulerVars == <<pending, urgent, routine, running, seen, paced, dispatching,
                   schedulerClosed, wake, dpc, taken, live, shutdown, asked>>

Request == [announce : BOOLEAN, port : Port]
NotQueued == [announce |-> FALSE, port |-> NoPort, queued |-> FALSE]
Queue(r) == [announce |-> r.announce, port |-> r.port, queued |-> TRUE]
Entry == [announce : BOOLEAN, port : Port, queued : BOOLEAN]

Queued == {h \in InfoHash : pending[h].queued}
Elements(q) == {q[i] : i \in 1..Len(q)}

Cancelled == shutdown \notin {"open", "schedClosed"}
Finished == shutdown = "finished"

LookupInit ==
  /\ pending = [h \in InfoHash |-> NotQueued]
  /\ urgent = <<>> /\ routine = <<>>
  /\ running = {} /\ seen = {}
  /\ paced = TRUE             \* lastStart is the zero time
  /\ dispatching = FALSE /\ schedulerClosed = FALSE /\ wake = FALSE
  /\ dpc = "none" /\ taken = {} /\ live = {}
  /\ shutdown = "open"
  /\ asked = [h \in InfoHash |-> {}]

-----------------------------------------------------------------------------
\* enqueue's merge: announcing is kept if either asked for it, the latest port
\* wins unless it is zero.  A variant lets the latest request decide both.
LatestWins(p, r) == Queue(r)
Merge(p, r) ==
  [p EXCEPT !.announce = @ \/ r.announce,
            !.port = IF r.port # NoPort THEN r.port ELSE @]

IsUrgent(h) == h \notin seen /\ Cardinality(seen) < MaxRemembered
\* A variant drops signals.
Ignored == wake' = wake
Signal == wake' = TRUE

MergeRequest(h, r) ==
  /\ ~schedulerClosed /\ h \in Queued
  /\ pending' = [pending EXCEPT ![h] = Merge(@, r)]
  /\ asked' = [asked EXCEPT ![h] = @ \cup {r}]
  /\ UNCHANGED <<urgent, routine, running, seen, paced, dispatching, wake, dpc,
                 taken, live, shutdownVars>>

Accepts(h) == h \notin Queued \cup running /\ Cardinality(Queued) < MaxQueued

QueueRequest(h, r) ==
  /\ ~schedulerClosed /\ Accepts(h)
  /\ pending' = [pending EXCEPT ![h] = Queue(r)]
  /\ IF IsUrgent(h)
     THEN urgent' = Append(urgent, h) /\ UNCHANGED routine
     ELSE routine' = Append(routine, h) /\ UNCHANGED urgent
  /\ asked' = [asked EXCEPT ![h] = {r}]
  /\ Signal
  /\ dispatching' = TRUE
  \* startDispatcher: the caller orders the goroutine after unlocking
  /\ dpc' = IF dispatching THEN dpc ELSE "ordered"
  /\ UNCHANGED <<running, seen, paced, taken, live, shutdownVars>>

\* closed, already running, or full: nothing is recorded.
RefuseRequest(h) ==
  /\ schedulerClosed \/ ~(h \in Queued \/ Accepts(h))
  /\ UNCHANGED schedulerVars

Enqueue(h, r) == MergeRequest(h, r) \/ QueueRequest(h, r) \/ RefuseRequest(h)

\* goTracked starts a goroutine unless Close has marked the DHT closed.
Tracks == shutdown \notin {"goClosed", "finished"}

StartDispatcher ==
  /\ dpc = "ordered"
  /\ dpc' = IF Tracks THEN "take" ELSE "done"
  /\ UNCHANGED <<queueVars, running, seen, paced, dispatching, wake, taken,
                 live, shutdownVars>>

-----------------------------------------------------------------------------
Startable == ~schedulerClosed /\ Cardinality(running) < MaxConcurrent /\ Queued # {}

\* The hash take starts, and what is left of the queues.
NextLookup == IF urgent # <<>> THEN urgent[Len(urgent)] ELSE routine[1]

\* Started hashes are remembered while there is room.
Remember(h) == IF Cardinality(seen) < MaxRemembered THEN seen \cup {h} ELSE seen

\* One turn of dispatchLookups: ctx, then take.
Take ==
  /\ dpc = "take" /\ ~Cancelled /\ Startable /\ paced
  /\ LET h == NextLookup
     IN /\ pending' = [pending EXCEPT ![h] = NotQueued]
        /\ running' = running \cup {h}
        /\ seen' = Remember(h)
        /\ taken' = {h}
        /\ asked' = [asked EXCEPT ![h] = {}]
  /\ IF urgent # <<>>
     THEN urgent' = SubSeq(urgent, 1, Len(urgent) - 1) /\ UNCHANGED routine
     ELSE routine' = Tail(routine) /\ UNCHANGED urgent
  /\ paced' = FALSE
  /\ dpc' = "spawn"
  /\ UNCHANGED <<dispatching, wake, live, shutdownVars>>

Spawn ==
  /\ dpc = "spawn"
  /\ live' = IF Tracks THEN live \cup taken ELSE live
  /\ taken' = {}
  /\ dpc' = "take"
  /\ UNCHANGED <<queueVars, running, seen, paced, dispatching, wake, shutdownVars>>

NothingToStart ==
  /\ dpc = "take" /\ ~Cancelled /\ ~(Startable /\ paced)
  /\ dpc' = IF Startable THEN "waitDue" ELSE "wait"
  /\ UNCHANGED <<queueVars, running, seen, paced, dispatching, wake, taken,
                 live, shutdownVars>>

\* The wait ends on cancellation too.
Interrupted == Cancelled

Wakes ==
  /\ \/ dpc \in {"wait", "waitDue"} /\ wake /\ wake' = FALSE
     \/ dpc \in {"wait", "waitDue"} /\ Interrupted /\ UNCHANGED wake
     \/ dpc = "waitDue" /\ paced /\ UNCHANGED wake
  /\ dpc' = "take"
  /\ UNCHANGED <<queueVars, running, seen, paced, dispatching, taken, live,
                 shutdownVars>>

DispatcherExits ==
  /\ dpc = "take" /\ Cancelled
  /\ dpc' = "done"
  /\ UNCHANGED <<queueVars, running, seen, paced, dispatching, wake, taken,
                 live, shutdownVars>>

IntervalPasses ==
  /\ ~paced
  /\ paced' = TRUE
  /\ UNCHANGED <<queueVars, running, seen, dispatching, wake, dpc, taken, live,
                 shutdownVars>>

\* A lookup goroutine returns; its deferred finish frees the slot.
FinishLookup(h) ==
  /\ h \in live
  /\ live' = live \ {h}
  /\ running' = running \ {h}
  /\ Signal
  /\ UNCHANGED <<queueVars, seen, paced, dispatching, dpc, taken, shutdownVars>>

-----------------------------------------------------------------------------
\* DHT.Close, once.
CloseScheduler ==
  /\ shutdown = "open"
  /\ shutdown' = "schedClosed"
  /\ schedulerClosed' = TRUE
  /\ pending' = [h \in InfoHash |-> NotQueued]
  /\ urgent' = <<>> /\ routine' = <<>>
  /\ asked' = [h \in InfoHash |-> {}]
  /\ UNCHANGED <<running, seen, paced, dispatching, wake, dpc, taken, live>>

CloseStep(from, to) ==
  /\ shutdown = from
  /\ shutdown' = to
  /\ UNCHANGED <<queueVars, running, seen, paced, dispatching, schedulerClosed, wake,
                 dpc, taken, live>>

CancelContext == CloseStep("schedClosed", "cancelled")
RefuseGoroutines == CloseStep("cancelled", "goClosed")

\* wg.Wait returns once every tracked goroutine has ended; then the channel
\* the lookups publish peers on is closed.
DispatcherAlive == dpc \notin {"none", "ordered", "done"}
WaitReturns ==
  /\ live = {} /\ ~DispatcherAlive
  /\ CloseStep("goClosed", "finished")

-----------------------------------------------------------------------------
Dispatch == StartDispatcher \/ Take \/ Spawn \/ NothingToStart \/ Wakes
            \/ DispatcherExits
Close == CloseScheduler \/ CancelContext \/ RefuseGoroutines \/ WaitReturns

SchedulerNext ==
  \/ \E h \in InfoHash, r \in Requests : Enqueue(h, r)
  \/ Dispatch
  \/ IntervalPasses
  \/ \E h \in InfoHash : FinishLookup(h)
  \/ Close

SchedulerSpec == LookupInit /\ [][SchedulerNext]_schedulerVars

\* The dispatcher runs, time passes, a lookup ends (its queries are bounded in
\* number and time out), and a Close that has begun goes on.
SchedulerFairness ==
  /\ WF_schedulerVars(Dispatch)
  /\ WF_schedulerVars(IntervalPasses)
  /\ \A h \in InfoHash : WF_schedulerVars(FinishLookup(h))
  /\ WF_schedulerVars(CancelContext \/ RefuseGoroutines \/ WaitReturns)

-----------------------------------------------------------------------------
(* Properties.                                                             *)

\* Types, and the three limits.
SchedulerTypeOK ==
  /\ pending \in [InfoHash -> Entry]
  /\ urgent \in Seq(InfoHash) /\ routine \in Seq(InfoHash)
  /\ running \subseteq InfoHash /\ seen \subseteq InfoHash
  /\ taken \subseteq InfoHash /\ live \subseteq InfoHash
  /\ paced \in BOOLEAN /\ dispatching \in BOOLEAN
  /\ schedulerClosed \in BOOLEAN /\ wake \in BOOLEAN
  /\ dpc \in {"none", "ordered", "take", "wait", "waitDue", "spawn", "done"}
  /\ shutdown \in {"open", "schedClosed", "cancelled", "goClosed", "finished"}
  /\ asked \in [InfoHash -> SUBSET Request]
  /\ Cardinality(running) <= MaxConcurrent
  /\ Cardinality(Queued) <= MaxQueued
  /\ Cardinality(seen) <= MaxRemembered

Distinct(q) == \A i, j \in 1..Len(q) : q[i] = q[j] => i = j

QueuesMatchPending ==
  /\ Elements(urgent) \cup Elements(routine) = Queued
  /\ Elements(urgent) \cap Elements(routine) = {}
  /\ Distinct(urgent) /\ Distinct(routine)
  /\ Queued \cap running = {}

RequestsKept ==
  \A h \in Queued :
    /\ pending[h].announce = \E r \in asked[h] : r.announce
    /\ IF \E r \in asked[h] : r.port # NoPort
       THEN \E r \in asked[h] : r.port # NoPort /\ pending[h].port = r.port
       ELSE pending[h].port = NoPort

NoGoroutineAfterClose == Finished => live = {} /\ ~DispatcherAlive

\* The map and the two queues always hold the same lookups, each once, and none
\* of them is running: take indexes a queue only because the map is not empty,
\* and a hash listed twice would be looked up twice at a time.  What a caller
\* asked of a queued lookup is not lost to the callers it was merged with
\* (GetPeers asks without announcing, the tracker loop with): the lookup
\* announces if anybody asked, on a port somebody gave.  And no lookup or
\* dispatcher is alive once Close has closed the channel they publish on: a
\* send to it would panic.
LookupsAreSafe ==
  SchedulerTypeOK /\ QueuesMatchPending /\ RequestsKept /\ NoGoroutineAfterClose

\* A lookup leaves the queue only to run, and does leave it.
QueuedIsStarted ==
  /\ [][\A h \in Queued : h \in Queued' \cup running' \/ schedulerClosed']_schedulerVars
  /\ \A h \in InfoHash : []<>(h \notin Queued \/ schedulerClosed)

DHTCloseReturns == []<>(schedulerClosed => Finished)

\* Every queued lookup is started, whatever else is queued after it and
\* whichever signals meet in the one-slot channel, unless the DHT closes; and
\* Close returns.
LookupsSettle == QueuedIsStarted /\ DHTCloseReturns
=============================================================================
