--------------------------- MODULE MCTorrentManager ---------------------------
(* Instances of TorrentManager for TLC: two torrents that share a file.      *)
EXTENDS TorrentManager, TLC

CONSTANTS t1, t2, f1, f2, x1, x2

MCPathsOf == [t \in Torrent |-> IF t = t1 THEN {f1, f2} ELSE {f1}]
MCLengthOf == [t \in Torrent |-> [p \in Path |-> 1]]

\* Two torrents and no state directory; one torrent and a state directory.
Files(kinds, deletes) ==
  [torrents |-> {t1, t2}, kinds |-> kinds, deletes |-> deletes,
   persistent |-> FALSE, unrestored |-> {}]
Saves(kind, unrestored) ==
  [torrents |-> {t1}, kinds |-> {kind}, deletes |-> {FALSE},
   persistent |-> TRUE, unrestored |-> unrestored]
AllSetups == {Files({"file", "waiting"}, {TRUE}), Files({"file"}, {TRUE, FALSE}),
              Saves("file", {t1}), Saves("waiting", {})}

Symmetry == Permutations(Adder)
=============================================================================
