------------------------------ MODULE MCState ------------------------------
(***************************************************************************)
(* What a manager keeps beyond a session: which torrent holds which path,  *)
(* session.json with the records of crashed runs, and the state file of a  *)
(* torrent with its resume checkpoint.  They share no state, so a          *)
(* behaviour runs one of them and `part` says which; the properties are    *)
(* those of the three modules.                                             *)
(***************************************************************************)
EXTENDS PathClaims, CrashContainment, ResumeCheckpoint, TLC

CONSTANT Explored   \* the parts explored

VARIABLE part       \* the component this behaviour is of

----------------------------------------------------------------------------
(* Three torrents over two paths: t1 and t2 cross-seed f1, t3 agrees with    *)
(* them on f1 and declares f2 with another length.                           *)

CONSTANTS t1, t2, t3, f1, f2,
          MaxHolds,          \* bound: outstanding claims, all torrents
          MaxReservations    \* bound: outstanding deletions and moves

MCLengthOf == [t \in Torrent |-> [f \in Path |-> IF t = t3 /\ f = f2 THEN 2 ELSE 1]]
MCFileLists == (t1 :> {{f1, f2}}) @@ (t2 :> {{f1}, {f2}}) @@ (t3 :> {{f1, f2}, {f1}})

Outstanding(count, owners) ==
  MapThenSumSet(LAMBDA o : MapThenSumSet(LAMBDA K : count[o][K], SUBSET Path),
                owners)

WithinBounds ==
    /\ Outstanding(holds, Torrent) <= MaxHolds
    /\ Outstanding(reservations, Torrent \cup {Nobody}) <= MaxReservations

----------------------------------------------------------------------------
(* A torrent of two files, the second piece across both *)

MCOverlaps == [p \in Pieces |-> IF p = 1 THEN {1} ELSE 1 .. NumFiles]
MCPlans == {[mmap |-> FALSE, wanted |-> {1, 2}, clock |-> 2],
            [mmap |-> FALSE, wanted |-> {2}, clock |-> 3],
            [mmap |-> TRUE, wanted |-> {2}, clock |-> 3]}

----------------------------------------------------------------------------
\* The parts a behaviour is not of start in one state.
StateInit ==
    /\ part \in Explored
    /\ ClaimsInit /\ CrashInit /\ ResumeInit
    /\ part # "resume" => plan = CHOOSE p \in Plans : TRUE

StateNext ==
    \/ part = "claims" /\ ClaimsNext /\ WithinBounds' /\ UNCHANGED <<part, crashVars, resumeVars>>
    \/ part = "crashes" /\ CrashNext /\ UNCHANGED <<part, claimVars, resumeVars>>
    \/ part = "resume" /\ ResumeNext /\ UNCHANGED <<part, claimVars, crashVars>>

StateSpec == StateInit /\ [][StateNext]_<<part, claimVars, crashVars, resumeVars>>
=============================================================================
