----------------------------- MODULE MCLiveness -----------------------------
(***************************************************************************)
(* What must happen in the end: queued lookups start (LookupScheduler),    *)
(* what one end of a uTP connection writes arrives at the other (UTPConn), *)
(* and the manager's calls return (TorrentManager).  The three share no    *)
(* state, so a behaviour runs one of them and `part` says which; each has  *)
(* the fairness of its own module.                                         *)
(***************************************************************************)
EXTENDS LookupScheduler, UTPConn, TorrentManager, TLC

VARIABLE part   \* the component this behaviour is of

----------------------------------------------------------------------------
(* Lookups that ask for different things *)

MCRequests == {[announce |-> FALSE, port |-> 0], [announce |-> TRUE, port |-> 0],
               [announce |-> FALSE, port |-> 1]}

(* A connection with the wrap-around at the start of both streams *)

MCAcceptSeqs == <<15, 5>>
MCScenarios ==
    {[d |-> 2, a |-> 0, losses |-> 1, repeats |-> 0, troubles |-> 0],
     [d |-> 2, a |-> 0, losses |-> 0, repeats |-> 1, troubles |-> 0],
     [d |-> 1, a |-> 0, losses |-> 0, repeats |-> 0, troubles |-> 1],
     [d |-> 0, a |-> 3, losses |-> 0, repeats |-> 0, troubles |-> 0]}

(* Two calls that add one torrent, each waiting for the session it replaces. *)
(* There is no state directory: a save returns at once.                      *)

CONSTANTS h1, h2, h3, t1, f1, f2, x1, x2

MCPathsOf == [t \in Torrent |-> {f1, f2}]
MCLengthOf == [t \in Torrent |-> [p \in Path |-> 1]]
MCSetups == {[torrents |-> {t1}, kinds |-> {"file", "waiting"}, deletes |-> {TRUE},
              persistent |-> FALSE, unrestored |-> {}]}

----------------------------------------------------------------------------
livenessVars == <<part, schedulerVars, utpVars, vars>>

\* The parts a behaviour is not of start in one state.
LivenessInit ==
    /\ part \in {"lookups", "utp", "manager"}
    /\ LookupInit /\ UTPInit /\ ManagerInit
    /\ part # "utp" => left = CHOOSE s \in Scenarios : TRUE

LivenessNext ==
    \/ part = "lookups" /\ SchedulerNext /\ UNCHANGED <<part, utpVars, vars>>
    \/ part = "utp" /\ UTPNext /\ UNCHANGED <<part, schedulerVars, vars>>
    \/ part = "manager" /\ Next /\ UNCHANGED <<part, schedulerVars, utpVars>>

LivenessSpec ==
    /\ LivenessInit /\ [][LivenessNext]_livenessVars
    /\ \/ part = "lookups" /\ SchedulerFairness
       \/ part = "utp" /\ UTPFairness
       \/ part = "manager" /\ Fairness
=============================================================================
