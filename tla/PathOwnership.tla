----------------------------- MODULE PathOwnership -----------------------------
(***************************************************************************)
(* What the manager promises about payload paths (pkg/downloader,          *)
(* path_claims.go), free of how it is stored: how often each torrent holds *)
(* a path, and how many deletions or moves have it reserved.               *)
(***************************************************************************)
EXTENDS Naturals, FiniteSets

CONSTANTS Torrent, Path,
          LengthOf   \* LengthOf[t][p]: the length torrent t declares for p

VARIABLES holders,   \* holders[p][t]: claims of t on p
          reserved   \* reserved[p]: deletions and moves that have p

vars == <<holders, reserved>>

Init ==
  /\ holders = [p \in Path |-> [t \in Torrent |-> 0]]
  /\ reserved = [p \in Path |-> 0]

Others(t, p) == {u \in Torrent \ {t} : holders[p][u] > 0}

\* Anybody may hold a path again; a newcomer only one that nobody is deleting
\* and that its holders declare with the same length.
MayClaim(t, p) ==
  \/ holders[p][t] > 0
  \/ reserved[p] = 0 /\ \A u \in Others(t, p) : LengthOf[u][p] = LengthOf[t][p]

Claim(t, paths) ==
  /\ \A p \in paths : MayClaim(t, p)
  /\ holders' = [p \in Path |-> IF p \in paths
                                THEN [holders[p] EXCEPT ![t] = @ + 1]
                                ELSE holders[p]]
  /\ UNCHANGED reserved

Release(t, paths) ==
  /\ \A p \in paths : holders[p][t] > 0
  /\ holders' = [p \in Path |-> IF p \in paths
                                THEN [holders[p] EXCEPT ![t] = @ - 1]
                                ELSE holders[p]]
  /\ UNCHANGED reserved

Reserved(paths) ==
  reserved' = [p \in Path |-> reserved[p] + (IF p \in paths THEN 1 ELSE 0)]

\* A deletion for t takes the paths nobody else holds.
ReserveForDeletion(t, paths) ==
  /\ Reserved({p \in paths : Others(t, p) = {}})
  /\ UNCHANGED holders

\* A move takes the paths nobody holds or has reserved.
ReserveForMove(paths) ==
  /\ Reserved({p \in paths : reserved[p] = 0
                             /\ \A t \in Torrent : holders[p][t] = 0})
  /\ UNCHANGED holders

Unreserve(paths) ==
  /\ \A p \in paths : reserved[p] > 0
  /\ reserved' = [p \in Path |-> reserved[p] - (IF p \in paths THEN 1 ELSE 0)]
  /\ UNCHANGED holders

Next ==
  \E paths \in SUBSET Path :
    \/ ReserveForMove(paths) \/ Unreserve(paths)
    \/ \E t \in Torrent :
         Claim(t, paths) \/ Release(t, paths) \/ ReserveForDeletion(t, paths)

Spec == Init /\ [][Next]_vars
=============================================================================
