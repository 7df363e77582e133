--------------------------- MODULE MCPieceLifecycle ---------------------------
(***************************************************************************)
(* PieceLifecycle on small instances: values for its function constants    *)
(* and the symmetry of the runs that check no liveness.                    *)
(***************************************************************************)
EXTENDS PieceLifecycle, TLC

CONSTANTS p1, p2

\* Every peer has every piece.
MCHas == [h \in Peer |-> Piece]

\* No allowed-fast sets, or p2 in everybody's.
MCNoFast == [h \in Peer |-> {}]
MCFast == [h \in Peer |-> {p2} \cap Piece]

\* Peers and workers are interchangeable, pieces without MCFast too.
MCSymmetry == Permutations(Peer) \cup Permutations(Worker)

\* A session that starts with nothing on disk and nothing to verify.
FreshInit == Init /\ vmode = "none" /\ content[1] = {}
FreshSpec == FreshInit /\ [][Next]_vars
FreshFairSpec == FreshSpec /\ Fairness

=============================================================================
