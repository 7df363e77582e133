---------------------------- MODULE InboundListener ----------------------------
(***************************************************************************)
(* A connection at the shared listener, until it is handed to the session  *)
(* its handshake names: the slots of established connections, the budget   *)
(* of handshakes in flight, and the share of it each address block may     *)
(* hold (pkg/downloader/listener.go, from acceptLoop on).                  *)
(*                                                                         *)
(* A source is an IPv4 host or a /64; BlocksOf gives the blocks it counts  *)
(* under (handshakeBlocks), the source itself being the first.  Whether a  *)
(* connection's address can be told (hasSrc) is in BlocksOf too: {} if not.*)
(***************************************************************************)
EXTENDS Naturals, FiniteSets

CONSTANTS
    Arrivals,           \* connections that may arrive
    BlocksOf,           \* arrival -> the address blocks of its source
    ShareOf,            \* block -> the handshakes it may hold in a busy budget
    MaxHandshakes,      \* maxInboundHandshakes (256)
    MaxEstablished,     \* cap(globalInboundSlots)
    Torrents            \* the torrents a handshake may name

ASSUME InboundAssumption ==
    /\ IsFiniteSet(Arrivals)
    /\ MaxHandshakes \in Nat /\ MaxEstablished \in Nat
    /\ \A c \in Arrivals : \A b \in BlocksOf[c] : ShareOf[b] \in Nat

VARIABLES
    open,               \* the manager is not closed
    served,             \* its sessions
    arrival,            \* arrival -> where its goroutine is
    names,              \* arrival -> the torrent its handshake named
    handshakes,         \* len(inboundHandshakeSlots)
    established,        \* len(globalInboundSlots)
    sourced,            \* sourcedHandshakes
    sources             \* handshakeSources: block -> count

inboundVars == <<open, served, arrival, names, handshakes, established, sourced, sources>>

Blocks == UNION {BlocksOf[c] : c \in Arrivals}
Half == MaxHandshakes \div 2
Nothing == "nothing"
Among(places) == {c \in Arrivals : arrival[c] \in places}
Go(c, place) == arrival' = [arrival EXCEPT ![c] = place]

InboundInit ==
    /\ open = TRUE /\ served = Torrents
    /\ arrival = [c \in Arrivals |-> "away"] /\ names = [c \in Arrivals |-> Nothing]
    /\ handshakes = 0 /\ established = 0 /\ sourced = 0 /\ sources = [b \in Blocks |-> 0]

\* Every connection in a goroutine of its own, until the manager closes.
acceptLoop(c) ==
    /\ arrival[c] = "away"
    /\ Go(c, IF open THEN "accepted" ELSE "gone")
    /\ UNCHANGED <<open, served, names, handshakes, established, sourced, sources>>

TurnedAwayWhenFull(c) ==
    /\ arrival[c] = "accepted"
    /\ Go(c, IF established = MaxEstablished THEN "gone" ELSE "checked")
    /\ UNCHANGED <<open, served, names, handshakes, established, sourced, sources>>

TakeHandshakeSlot(c) ==
    /\ arrival[c] = "checked"
    /\ IF handshakes < MaxHandshakes
       THEN Go(c, "slotted") /\ handshakes' = handshakes + 1
       ELSE Go(c, "gone") /\ UNCHANGED handshakes
    /\ UNCHANGED <<open, served, names, established, sourced, sources>>

Counted(blocks, step) == [b \in Blocks |-> IF b \in blocks THEN step[b] ELSE sources[b]]

\* A variant: only the source's own share is looked at.
OwnShareOnly(c) ==
    sourced >= Half => \A b \in BlocksOf[c] :
        (\A x \in BlocksOf[c] : ShareOf[b] <= ShareOf[x]) => sources[b] < ShareOf[b]
\* admitHandshakeSource: past half the budget, no block over its share.
Admits(c) == sourced >= Half => \A b \in BlocksOf[c] : sources[b] < ShareOf[b]

admitHandshakeSource(c) ==
    /\ arrival[c] = "slotted"
    /\ IF BlocksOf[c] = {} THEN Go(c, "reading") /\ UNCHANGED <<handshakes, sourced, sources>>
       ELSE IF Admits(c)
       THEN /\ Go(c, "reading") /\ sourced' = sourced + 1
            /\ sources' = Counted(BlocksOf[c], [b \in Blocks |-> sources[b] + 1])
            /\ UNCHANGED handshakes
       ELSE Go(c, "gone") /\ handshakes' = handshakes - 1 /\ UNCHANGED <<sourced, sources>>
    /\ UNCHANGED <<open, served, names, established>>

\* readRoutedHandshake: a handshake that names a session of the manager, or
\* not, or none in time; the session is looked up once the handshake is read.
readRoutedHandshake(c) ==
    /\ arrival[c] = "reading" /\ Go(c, "read")
    /\ names' \in {[names EXCEPT ![c] = t] : t \in served \cup {Nothing}}
    /\ UNCHANGED <<open, served, handshakes, established, sourced, sources>>

Uncounted(c) ==
    Counted(BlocksOf[c], [b \in Blocks |-> IF sources[b] > 1 THEN sources[b] - 1 ELSE 0])

releaseHandshakeSource(c) ==
    /\ arrival[c] = "read" /\ Go(c, "released")
    /\ IF BlocksOf[c] = {} THEN UNCHANGED <<sourced, sources>>
       ELSE sourced' = sourced - 1 /\ sources' = Uncounted(c)
    /\ UNCHANGED <<open, served, names, handshakes, established>>

ReleaseHandshakeSlot(c) ==
    /\ arrival[c] = "released" /\ handshakes' = handshakes - 1
    /\ Go(c, IF names[c] = Nothing THEN "gone" ELSE "named")
    /\ UNCHANGED <<open, served, names, established, sourced, sources>>

\* The established slot, and the session (module PeerConnections) until it is done.
TakeEstablishedSlot(c) ==
    /\ arrival[c] = "named"
    /\ IF established < MaxEstablished
       THEN Go(c, "served") /\ established' = established + 1
       ELSE Go(c, "gone") /\ UNCHANGED established
    /\ UNCHANGED <<open, served, names, handshakes, sourced, sources>>

Leave(c) ==
    /\ arrival[c] = "served" /\ Go(c, "gone") /\ established' = established - 1
    /\ UNCHANGED <<open, served, names, handshakes, sourced, sources>>

RemoveTorrent(t) ==
    /\ t \in served /\ served' = served \ {t}
    /\ UNCHANGED <<open, arrival, names, handshakes, established, sourced, sources>>

CloseManager ==
    /\ open /\ open' = FALSE /\ served' = {}
    /\ UNCHANGED <<arrival, names, handshakes, established, sourced, sources>>

InboundNext ==
    \/ \E c \in Arrivals : \/ acceptLoop(c) \/ TurnedAwayWhenFull(c) \/ TakeHandshakeSlot(c)
                           \/ admitHandshakeSource(c) \/ readRoutedHandshake(c)
                           \/ releaseHandshakeSource(c) \/ ReleaseHandshakeSlot(c)
                           \/ TakeEstablishedSlot(c) \/ Leave(c)
    \/ \E t \in Torrents : RemoveTorrent(t)
    \/ CloseManager

InboundSpec == InboundInit /\ [][InboundNext]_inboundVars

----------------------------------------------------------------------------
InboundTypeOK ==
    /\ arrival \in [Arrivals -> {"away", "accepted", "checked", "slotted", "reading", "read", "released",
                                  "named", "served", "gone"}]
    /\ handshakes \in 0 .. MaxHandshakes /\ established \in 0 .. MaxEstablished

CountedIn(b) == {c \in Among({"reading", "read"}) : b \in BlocksOf[c]}

\* The books: a slot is held by each handshake in flight, and each block counts
\* exactly its own, so that nothing is left counted when they are over and an
\* address that came and went is served like any other (listener.go:259).
HandshakesAreCounted ==
    /\ handshakes = Cardinality(Among({"slotted", "reading", "read", "released"}))
    /\ established = Cardinality(Among({"served"}))
    /\ sourced = Cardinality({c \in Among({"reading", "read"}) : BlocksOf[c] # {}})
    /\ \A b \in Blocks : sources[b] = Cardinality(CountedIn(b))

\* listener.go:255 "One host or subscriber holding idle sockets can then take
\* half the budget, not all of it": no host, /64, /56 or /48 ever holds more
\* than half the budget, or its share if that is larger.
NoSourceTakesAll ==
    \A b \in Blocks : Cardinality(CountedIn(b)) <= (IF Half > ShareOf[b] THEN Half ELSE ShareOf[b])

\* No host or network takes the whole handshake budget, and nothing stays
\* counted when its handshake is over (listener.go:255).
HandshakesAreShared == InboundTypeOK /\ HandshakesAreCounted /\ NoSourceTakesAll
==============================================================================
