----------------------------- MODULE ByteStream -----------------------------
(***************************************************************************)
(* What a connected pair of streams promises the two applications: the     *)
(* chunks one end writes are read by the other end in the order in which   *)
(* they were written, each at most once, none invented.  Chunk k is the    *)
(* k-th chunk an end hands to the stream.  Nothing is promised about how   *)
(* many of them arrive: a connection may die at any time.                  *)
(***************************************************************************)
EXTENDS Naturals, Sequences

CONSTANTS
    Ends,           \* the two applications
    Other(_)        \* the end at the other side

VARIABLES
    written,        \* written[e]: how many chunks e has handed to its stream
    got             \* got[e]: the chunks e has read

streamVars == <<written, got>>

StreamInit ==
    /\ written = [e \in Ends |-> 0]
    /\ got = [e \in Ends |-> << >>]

\* e hands one more chunk to its stream.
Put(e) ==
    /\ written' = [written EXCEPT ![e] = @ + 1]
    /\ UNCHANGED got

\* e reads the chunk that follows the ones it has read.
Take(e) ==
    /\ Len(got[e]) < written[Other(e)]
    /\ got' = [got EXCEPT ![e] = Append(@, Len(@) + 1)]
    /\ UNCHANGED written

StreamNext == \E e \in Ends : Put(e) \/ Take(e)

StreamSpec == StreamInit /\ [][StreamNext]_streamVars
=============================================================================
