---------------------------- MODULE TrackerAnnounce ----------------------------
(***************************************************************************)
(* The announces of one session (pkg/downloader/tracker_loop.go): the      *)
(* queue of tracker events, the schedule each tracker keeps, the rounds of *)
(* trackerLoop and its sleeps.                                             *)
(*                                                                         *)
(* Times are countdowns in ticks, so no clock runs out of bounds: next[i]  *)
(* and early[i] say in how many ticks tracker i may be asked.  A request   *)
(* runs into AnnounceTimeout only once its worker has one of the slots all *)
(* sessions of the process share; how long a worker waits for a slot is up *)
(* to the other sessions, so the model lets it wait for any number of      *)
(* ticks.  The swarm counts a tracker returns are left out; its peers are  *)
(* the business of PeerConnections.                                        *)
(***************************************************************************)
EXTENDS Integers, Sequences, FiniteSets, SequencesExt

CONSTANTS
    Trackers,           \* trackers of the torrent, sanitized
    AnnounceWorkers,    \* trackerAnnounceWorkers
    AnnounceTimeout,    \* trackerAnnounceTimeout
    MinInterval, MaxInterval, DefaultInterval, \* bounds and default of a tracker's interval
    EarlyReannounce,    \* trackerEarlyReannounce
    RetryBaseDelay, RetryMaxDelay,             \* backoff after failures
    IdlePoll,           \* trackerIdlePoll
    EventFlushDelay,    \* trackerEventFlushDelay
    ScrapeMinInterval,  \* scrapeMinInterval
    Intervals,          \* intervals a tracker may answer, 0 for none
    MinIntervals,       \* min intervals a tracker may answer
    TrackerPlans        \* bounds: user actions, failing answers and changes of the peer count

ASSUME TrackerAssumption ==
    /\ IsFiniteSet(Trackers) /\ AnnounceWorkers \in Nat \ {0} /\ AnnounceTimeout \in Nat
    /\ MinInterval \in Nat \ {0} /\ MaxInterval \in Nat /\ MaxInterval >= MinInterval
    /\ DefaultInterval \in Nat \ {0} /\ EarlyReannounce \in Nat \ {0}
    /\ RetryBaseDelay \in Nat \ {0} /\ RetryMaxDelay \in Nat /\ RetryMaxDelay >= RetryBaseDelay
    /\ ScrapeMinInterval \in Nat /\ Intervals \subseteq Int /\ MinIntervals \subseteq Int
    /\ IdlePoll \in Nat \ {0} /\ EventFlushDelay \in 1 .. IdlePoll

VARIABLES
    queue,      \* trackerEvents
    next, early,
    retry,      \* ... the trackerState of each tracker: the delay its failures have led to,
                \* 0 after a success
    loop,       \* where trackerLoop is: "top", "announce", "round", "scrape", "settle", "sleep", "ended"
    pausedAtTop,    \* paused as the top of the loop has read it
    event,      \* the event of the round under way, "none" for none
    waiting, asking, holding, delivered, \* the round or the scrape: trackers no worker has taken,
                \* those a worker has taken, those of them whose worker has a slot; one accepted
    spent,      \* ticks the round or the scrape has taken, those spent waiting for a slot aside
    wake,       \* ticks until the sleep ends
    signal,     \* resumeCh holds a signal
    lastScrape, \* ticks since the last scrape, at most ScrapeMinInterval
    stopped,    \* stoppedAnnounced
    trackerPaused, needPeers,   \* paused; trackerNeedsPeersLocked of an unpaused session
    asked,      \* every event the queue has taken, in order
    done,       \* how many events were delivered
    late,       \* late[i]: ticks for which tracker i has been due, those in which a worker
                \* waited for a slot aside
    plan        \* what is left of the plan

schedule == <<next, early, retry>>
round == <<pausedAtTop, event, waiting, asking, holding, delivered, spent>>
trackerVars == <<queue, schedule, loop, round, wake, signal, lastScrape, stopped, trackerPaused,
                 needPeers, asked, done, late, plan>>

\* The longest round or scrape once slots are to be had: every worker has its
\* share of the trackers time out.
LongestRound == AnnounceTimeout * ((Cardinality(Trackers) + AnnounceWorkers - 1) \div AnnounceWorkers)
\* How long a due tracker may wait: a round, a scrape and the sleep after them.
LateAtMost == LongestRound + LongestRound + IdlePoll

NotEarly == -1      \* the zero early: no early re-announce
Least(S) == CHOOSE x \in S : \A y \in S : x <= y
Larger(a, b) == IF a > b THEN a ELSE b
Smaller(a, b) == IF a < b THEN a ELSE b

\* trackerRetryDelay: the delay after one failure more.
RetryDelay(before) == IF before = 0 THEN RetryBaseDelay ELSE Smaller(2 * before, RetryMaxDelay)

trackerNeedsPeers == ~trackerPaused /\ needPeers

\* The event of the round under way, as a sequence.
InFlight == IF event = "none" THEN <<>> ELSE <<event>>

\* trackerSchedule.due: whether tracker i is asked now.
Due(i, hasEvent) ==
    IF retry[i] > 0 THEN next[i] <= 0
    ELSE hasEvent \/ next[i] <= 0 \/ (trackerNeedsPeers /\ early[i] = 0)

TrackerTypeOK ==
    /\ queue \in Seq({"started", "stopped", "completed"})
    /\ next \in [Trackers -> 0 .. Larger(Larger(MaxInterval, DefaultInterval), RetryMaxDelay)]
    /\ early \in [Trackers -> NotEarly .. Larger(EarlyReannounce, MaxInterval)]
    /\ retry \in [Trackers -> 0 .. RetryMaxDelay]
    /\ loop \in {"top", "announce", "round", "scrape", "settle", "sleep", "ended"}
    /\ event \in {"none", "started", "stopped", "completed"}
    /\ waiting \subseteq Trackers /\ asking \subseteq Trackers \ waiting /\ holding \subseteq asking
    /\ spent \in 0 .. LongestRound /\ wake \in 0 .. IdlePoll
    /\ lastScrape \in 0 .. ScrapeMinInterval
    /\ {pausedAtTop, delivered, signal, stopped, trackerPaused, needPeers} \subseteq BOOLEAN

TrackerInit ==
    /\ queue = <<"started">> /\ asked = <<"started">> /\ done = 0
    /\ next = [i \in Trackers |-> 0] /\ early = [i \in Trackers |-> NotEarly]
    /\ retry = [i \in Trackers |-> 0]
    /\ loop = "top" /\ pausedAtTop = FALSE /\ event = "none"
    /\ waiting = {} /\ asking = {} /\ holding = {} /\ delivered = FALSE
    /\ spent = 0 /\ wake = 0 /\ signal = FALSE /\ lastScrape = ScrapeMinInterval
    /\ stopped = FALSE /\ trackerPaused = FALSE /\ needPeers = TRUE
    /\ late = [i \in Trackers |-> 0]
    /\ plan \in TrackerPlans

----------------------------------------------------------------------------
(* Events *)

\* queueTrackerEventLocked: the same event is not queued twice in a row.
Coalesced(e) == queue # <<>> /\ Last(queue) = e
queueTrackerEventLocked(e) ==
    /\ queue' = IF Coalesced(e) THEN queue ELSE Append(queue, e)
    /\ asked' = IF Coalesced(e) THEN asked ELSE Append(asked, e)

Use(what) == plan[what] > 0 /\ plan' = [plan EXCEPT ![what] = @ - 1]

\* Session.Pause and Session.Resume, as far as the trackers are told.
PauseOrResume ==
    /\ Use("toggles") /\ loop # "ended"
    /\ trackerPaused' = ~trackerPaused
    /\ queueTrackerEventLocked(IF trackerPaused THEN "started" ELSE "stopped")
    /\ signal' = TRUE
    /\ late' = [i \in Trackers |-> 0]
    /\ UNCHANGED <<schedule, loop, round, wake, lastScrape, stopped, needPeers, done>>

\* The last piece is verified (finishVerify, markPieceCompleted).
Completes ==
    /\ Use("completions") /\ loop # "ended"
    /\ queueTrackerEventLocked("completed")
    /\ signal' = TRUE
    /\ needPeers' = FALSE
    /\ late' = [i \in Trackers |-> IF next[i] = 0 THEN late[i] ELSE 0]
    /\ UNCHANGED <<schedule, loop, round, wake, lastScrape, stopped, trackerPaused, done>>

\* The router maps another port: setAdvertisedPort.
setAdvertisedPort ==
    /\ Use("ports") /\ loop # "ended"
    /\ queueTrackerEventLocked("started")
    /\ signal' = TRUE
    /\ UNCHANGED <<schedule, loop, round, wake, lastScrape, stopped, trackerPaused, needPeers, done, late>>

\* Connections come or go, and with them the need for peers.
PeersChange ==
    /\ Use("swings") /\ loop # "ended"
    /\ needPeers' = ~needPeers
    /\ late' = [i \in Trackers |-> IF next[i] = 0 THEN late[i] ELSE 0]
    /\ UNCHANGED <<queue, schedule, loop, round, wake, signal, lastScrape, stopped, trackerPaused,
                   asked, done>>

----------------------------------------------------------------------------
(* trackerLoop *)

\* A variant: an event that reached nobody is queued again behind the newer ones.
RequeuedLast(e, reached) == IF e # "none" /\ ~reached THEN Append(queue, e) ELSE queue
\* finishTrackerEventLocked: an event that reached nobody goes back to the head.
Requeued(e, reached) == IF e # "none" /\ ~reached THEN <<e>> \o queue ELSE queue
StoppedAfter(e, reached) ==
    IF e = "stopped" THEN reached ELSE IF e = "started" /\ reached THEN FALSE ELSE stopped

finishTrackerEventLocked(e, reached) ==
    /\ queue' = Requeued(e, reached)
    /\ stopped' = StoppedAfter(e, reached)
    /\ done' = IF e # "none" /\ reached THEN done + 1 ELSE done

\* announceDue without a usable tracker: its event and every queued one count as
\* delivered.
Flushed ==
    LET heard == InFlight \o queue
        told == {n \in DOMAIN heard : heard[n] # "completed"}
    IN /\ queue' = <<>> /\ done' = done + Len(heard)
       /\ stopped' = IF told = {} THEN stopped ELSE heard[Max(told)] = "stopped"

\* The top of the loop: unless the session is paused and has no event, it
\* announces.
LoopTop ==
    /\ loop = "top"
    /\ pausedAtTop' = trackerPaused
    /\ loop' = IF trackerPaused /\ queue = <<>> THEN "settle" ELSE "announce"
    /\ UNCHANGED <<queue, schedule, event, waiting, asking, holding, delivered, spent, wake, signal,
                   lastScrape, stopped, trackerPaused, needPeers, asked, done, late, plan>>

\* announceDue takes the first event, if there is one by now, and the trackers
\* that are due; with none of them the round is over at once.
announceDue ==
    /\ loop = "announce" /\ loop' = "round"
    /\ event' = IF queue = <<>> THEN "none" ELSE Head(queue)
    /\ queue' = IF queue = <<>> THEN queue ELSE Tail(queue)
    /\ waiting' = {i \in Trackers : Due(i, queue # <<>>)}
    /\ late' = [i \in Trackers |-> IF i \in waiting' THEN 0 ELSE late[i]]
    /\ UNCHANGED <<schedule, pausedAtTop, asking, holding, delivered, spent, wake, signal, lastScrape,
                   stopped, trackerPaused, needPeers, asked, done, plan>>

\* runBounded, for a round and for a scrape: a worker that is free takes the next
\* tracker, and waits for a slot of the process.
Ask(i) ==
    /\ loop \in {"round", "scrape"} /\ i \in waiting /\ Cardinality(asking) < AnnounceWorkers
    /\ waiting' = waiting \ {i} /\ asking' = asking \cup {i}
    /\ UNCHANGED <<queue, schedule, loop, pausedAtTop, event, holding, delivered, spent, wake, signal,
                   lastScrape, stopped, trackerPaused, needPeers, asked, done, late, plan>>

\* The worker gets its slot: when, is up to the other sessions of the process.
acquireTrackerSlot(i) ==
    /\ i \in asking \ holding
    /\ holding' = holding \cup {i}
    /\ UNCHANGED <<queue, schedule, loop, pausedAtTop, event, waiting, asking, delivered, spent, wake,
                   signal, lastScrape, stopped, trackerPaused, needPeers, asked, done, late, plan>>

\* clampTrackerSeconds
Clamp(n, lo, hi) == IF n >= hi THEN hi ELSE Larger(n, lo)

\* trackerSchedule.record for tracker i: its answer holds an interval and a min
\* interval, 0 for none.
RecordFailure(i) ==
    /\ retry' = [retry EXCEPT ![i] = RetryDelay(@)]
    /\ next' = [next EXCEPT ![i] = RetryDelay(retry[i])]
    /\ early' = [early EXCEPT ![i] = NotEarly]
RecordSuccess(i, interval, minInterval) ==
    LET least == Clamp(minInterval, 0, MaxInterval)
        usual == IF interval > 0 THEN Clamp(interval, MinInterval, MaxInterval) ELSE DefaultInterval
    IN /\ retry' = [retry EXCEPT ![i] = 0]
       /\ next' = [next EXCEPT ![i] = Larger(usual, least)]
       /\ early' = [early EXCEPT ![i] = Larger(EarlyReannounce, least)]

\* announceDue takes a result from the channel and records it; the slot is free.
Answer(i) ==
    /\ loop = "round" /\ i \in holding
    /\ asking' = asking \ {i} /\ holding' = holding \ {i}
    /\ \/ /\ \E interval \in Intervals, minInterval \in MinIntervals :
                RecordSuccess(i, interval, minInterval)
          /\ delivered' = TRUE
          /\ UNCHANGED plan
       \/ /\ Use("failures")
          /\ RecordFailure(i)
          /\ UNCHANGED delivered
    /\ UNCHANGED <<queue, loop, pausedAtTop, event, waiting, spent, wake, signal, lastScrape, stopped,
                   trackerPaused, needPeers, asked, done, late>>

\* healthyTargets: those whose last announce succeeded.
healthyTargets == {i \in Trackers : early[i] # NotEarly}
\* Whether the loop scrapes after announceDue; a pause since the top does not count.
ScrapeDue == ~pausedAtTop /\ lastScrape = ScrapeMinInterval

\* Every due tracker has answered or timed out.
RoundEnds ==
    /\ loop = "round" /\ waiting = {} /\ asking = {}
    /\ IF Trackers = {} THEN Flushed ELSE finishTrackerEventLocked(event, delivered)
    /\ loop' = IF ScrapeDue THEN "scrape" ELSE "settle"
    /\ waiting' = IF ScrapeDue THEN healthyTargets ELSE {}
    /\ event' = "none" /\ delivered' = FALSE /\ spent' = 0
    /\ UNCHANGED <<schedule, pausedAtTop, asking, holding, wake, signal, lastScrape, trackerPaused,
                   needPeers, asked, late, plan>>

\* scrapeTargets takes an answer, or a failure: neither changes the schedule.
ScrapeAnswer(i) ==
    /\ loop = "scrape" /\ i \in holding
    /\ asking' = asking \ {i} /\ holding' = holding \ {i}
    /\ UNCHANGED <<queue, schedule, loop, pausedAtTop, event, waiting, delivered, spent, wake, signal,
                   lastScrape, stopped, trackerPaused, needPeers, asked, done, late, plan>>

\* scrapeTargets returns, and the time of the scrape is kept.
ScrapeEnds ==
    /\ loop = "scrape" /\ waiting = {} /\ asking = {}
    /\ loop' = "settle" /\ lastScrape' = 0 /\ spent' = 0
    /\ UNCHANGED <<queue, schedule, pausedAtTop, event, waiting, asking, holding, delivered, wake, signal,
                   stopped, trackerPaused, needPeers, asked, done, late, plan>>

\* trackerSchedule.sleep: how long the loop sleeps, in ticks.
Wakes(i, events) ==
    IF retry[i] > 0 THEN next[i]
    ELSE IF events THEN 0
    ELSE IF trackerNeedsPeers /\ early[i] \in 0 .. next[i] - 1 THEN early[i]
    ELSE next[i]
Sleep ==
    IF Trackers = {} \/ (trackerPaused /\ queue = <<>>) THEN IdlePoll
    ELSE Smaller(Larger(Least({Wakes(i, queue # <<>>) : i \in Trackers}), EventFlushDelay), IdlePoll)

Settle ==
    /\ loop = "settle"
    /\ loop' = "sleep" /\ wake' = Sleep
    /\ UNCHANGED <<queue, schedule, round, signal, lastScrape, stopped, trackerPaused, needPeers, asked,
                   done, late, plan>>

\* The timer fires or a signal arrives.
Wake ==
    /\ loop = "sleep" /\ (wake = 0 \/ signal)
    /\ loop' = "top" /\ wake' = 0
    /\ signal' \in {s \in BOOLEAN : s = FALSE \/ (wake = 0 /\ signal)}
    /\ UNCHANGED <<queue, schedule, round, lastScrape, stopped, trackerPaused, needPeers, asked, done,
                   late, plan>>

\* Session.Close: the context is cancelled and trackerLoop returns from wherever
\* it is; announceStopped then tries every tracker for a moment, unless a
\* delivered "stopped" is the last thing they heard.
CloseAnnounces ==
    /\ Use("closes") /\ loop # "ended"
    /\ loop' = "ended"
    /\ stopped' \in IF stopped \/ Trackers = {} THEN {TRUE} ELSE BOOLEAN
    /\ event' = "none" /\ waiting' = {} /\ asking' = {} /\ holding' = {} /\ delivered' = FALSE
    /\ spent' = 0 /\ pausedAtTop' = FALSE /\ queue' = <<>> /\ asked' = <<>> /\ done' = 0
    /\ late' = [i \in Trackers |-> 0] /\ wake' = 0
    /\ UNCHANGED <<schedule, signal, lastScrape, trackerPaused, needPeers>>

\* A worker waits for a slot of the process.
SlotWait == asking # holding
\* The trackers the round under way announces to.
BeingAsked == IF loop = "round" THEN waiting \cup asking ELSE {}

\* A tick passes: not while the loop has something to do at once, nor beyond
\* the time-outs of the requests under way.  What passes while a worker waits for
\* a slot counts towards neither.
LessOne(f, floor) == [i \in Trackers |-> IF f[i] <= floor THEN f[i] ELSE f[i] - 1]
Overdue(i) == ~trackerPaused /\ Due(i, FALSE) /\ i \notin BeingAsked
Tick ==
    /\ \/ loop = "sleep" /\ wake > 0 /\ ~signal
       \/ loop \in {"round", "scrape"} /\ waiting \cup asking # {} /\ (SlotWait \/ spent < LongestRound)
    /\ next' = LessOne(next, 0)
    /\ early' = LessOne(early, 0)
    /\ spent' = IF loop = "sleep" \/ SlotWait THEN spent ELSE spent + 1
    /\ wake' = IF loop = "sleep" THEN wake - 1 ELSE wake
    /\ lastScrape' = Smaller(lastScrape + 1, ScrapeMinInterval)
    /\ late' = IF SlotWait THEN late
               ELSE [i \in Trackers |-> IF Overdue(i) THEN Smaller(late[i] + 1, LateAtMost + 1) ELSE 0]
    /\ UNCHANGED <<queue, retry, loop, pausedAtTop, event, waiting, asking, holding, delivered, signal,
                   stopped, trackerPaused, needPeers, asked, done, plan>>

TrackerNext ==
    \/ PauseOrResume \/ Completes \/ setAdvertisedPort \/ PeersChange
    \/ LoopTop \/ announceDue
    \/ \E i \in Trackers : Ask(i) \/ acquireTrackerSlot(i) \/ Answer(i) \/ ScrapeAnswer(i)
    \/ RoundEnds \/ ScrapeEnds \/ Settle \/ Wake \/ CloseAnnounces \/ Tick

TrackerSpec == TrackerInit /\ [][TrackerNext]_trackerVars

----------------------------------------------------------------------------
(* Properties *)

\* Tracker events are neither lost nor reordered by rounds that reach nobody:
\* those delivered, the one in flight and the queued ones are the ones asked for.
EventsKept == asked = SubSeq(asked, 1, done) \o InFlight \o queue

\* While a session runs, no tracker stays due for longer than the poll, plus the
\* round and the scrape that may be under way: a slow or dead tracker, and a
\* session that starts to need peers, delay the others by no more than that.  Not
\* counted is the time in which a worker waits for one of the slots that all
\* sessions share (acquireTrackerSlot): nothing in the code bounds it.
NoTrackerOverdue == loop # "ended" => \A i \in Trackers : late[i] <= LateAtMost

\* Every announce event is delivered, in order, or still queued, and no due
\* tracker is left waiting, but for the waits for a slot of the process
\* (tracker_loop.go).
AnnouncesAreKept == TrackerTypeOK /\ EventsKept /\ NoTrackerOverdue
=============================================================================
