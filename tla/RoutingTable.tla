---------------------------- MODULE RoutingTable ----------------------------
(***************************************************************************)
(* The routing table of the DHT node (pkg/dht/dht.go): contacts in buckets *)
(* of K, their indexes by address and by IP, and the goroutines that ping  *)
(* before a contact is admitted, replaced or moved.                        *)
(*                                                                         *)
(* Which node answers at an address (`occupant`) changes under the table,  *)
(* anybody may send a query in any node's name, and a ping may be lost.    *)
(* An address is a record of an IP, its /24 and a port.  LastSeen is       *)
(* "never" (read from the nodes file), "old" (questionable) or "fresh".    *)
(***************************************************************************)
EXTENDS Integers, Sequences, SequencesExt, FiniteSets, Functions

CONSTANTS
    Nodes,          \* node IDs other than ours
    Buckets, BucketIndex,   \* bucketIndex: the bucket of an ID
    Addresses,      \* endpoints: records [ip, net, port]
    Loopback,       \* IPs that may hold several contacts (onePerIP)
    LocalNets,      \* /24s that may hold several contacts of a bucket (diverse)
    BucketSize,     \* bucketSize
    MaxNodePingFailures,    \* maxNodePingFailures
    MaxInFlightProbes, MaxQuerySenderProbes, MaxPendingAddrChanges, MaxAddrChangeCooldowns,
    Occupants,      \* who may answer where at first: functions of the addresses
    NodesFiles,     \* contacts the nodes file may hold: pairs of an ID and an address
    MaxMoves,       \* bound: changes of who answers where
    MaxSightings    \* bound: queries, PORT messages and referrals received

Nobody == "nobody"

\* saveNodes writes a routing table: no address twice.
ASSUME RoutingAssumption ==
    /\ BucketIndex \in [Nodes -> Buckets] /\ Nobody \notin Nodes
    /\ BucketSize \in Nat \ {0} /\ MaxNodePingFailures \in Nat \ {0}
    /\ MaxAddrChangeCooldowns \in Nat /\ MaxAddrChangeCooldowns >= 2
    /\ Occupants \subseteq [Addresses -> Nodes \cup {Nobody}]
    /\ \A f \in NodesFiles : /\ f \subseteq Nodes \X Addresses
                             /\ \A x, y \in f : x[2] = y[2] => x = y

VARIABLES
    file,       \* contacts of the nodes file still to be loaded
    table,      \* the buckets: sequences of contacts [id, at, seen], freshest last
    nodeAddrs,  \* address -> ID of the contact stored there
    nodeIPs,    \* IP -> contacts stored on it
    pingInProgress,     \* buckets with a challenge under way
    tasks,      \* the goroutines at work
    addrCooldowns,      \* [id, at] not checked again for a while; at = NoAddress for all of id
    dhtClosed,  \* the context is cancelled
    occupant,   \* address -> the node that answers there, if any
    answered,   \* pairs <<ID, address>> that have answered a ping of ours
    moves, sightings

routes == <<table, nodeAddrs, nodeIPs>>
routingVars == <<file, routes, pingInProgress, tasks, addrCooldowns, dhtClosed, occupant, answered,
                 moves, sightings>>

NoAddress == [ip |-> "none", net |-> "none", port |-> 0]
IPs == {a.ip : a \in Addresses}
Contact(id, at, seen) == [id |-> id, at |-> at, seen |-> seen]
Contacts == [id : Nodes, at : Addresses, seen : {"never", "old", "fresh"}]
Rank(seen) == CASE seen = "never" -> 0 [] seen = "old" -> 1 [] seen = "fresh" -> 2
questionable(c) == c.seen # "fresh"

\* The bucket b of T holds id; at which index; which contact.
Held(T, id) == \E i \in DOMAIN T[BucketIndex[id]] : T[BucketIndex[id]][i].id = id
indexOf(T, id) == CHOOSE i \in DOMAIN T[BucketIndex[id]] : T[BucketIndex[id]][i].id = id
Stored(T, id) == T[BucketIndex[id]][indexOf(T, id)]
HeldAt(T, id, at) == Held(T, id) /\ Stored(T, id).at = at

Probes == {t \in tasks : t.kind = "probe"}
Verifying == {t.id : t \in {u \in tasks : u.kind = "verify"}}
onePerIP(at) == at.ip \notin Loopback
probeKey(at) == IF onePerIP(at) THEN [at EXCEPT !.port = 0] ELSE at

RoutingInit ==
    /\ file \in NodesFiles
    /\ table = [b \in Buckets |-> <<>>]
    /\ nodeAddrs = << >> /\ nodeIPs = [ip \in IPs |-> 0]
    /\ pingInProgress = {} /\ tasks = {} /\ addrCooldowns = {} /\ dhtClosed = FALSE
    /\ occupant \in Occupants
    /\ answered = {} /\ moves = 0 /\ sightings = 0

----------------------------------------------------------------------------
(* The table and its indexes, as one value R = <<table, nodeAddrs, nodeIPs>> *)

Here == <<table, nodeAddrs, nodeIPs>>
Store(R) == table' = R[1] /\ nodeAddrs' = R[2] /\ nodeIPs' = R[3]

appendNodeLocked(R, c) ==
    <<[R[1] EXCEPT ![BucketIndex[c.id]] = Append(@, c)],
      [a \in DOMAIN R[2] \cup {c.at} |-> IF a = c.at THEN c.id ELSE R[2][a]],
      [R[3] EXCEPT ![c.at.ip] = @ + 1]>>
removeNodeAtLocked(R, id) ==
    LET c == Stored(R[1], id)
    IN <<[R[1] EXCEPT ![BucketIndex[id]] = RemoveAt(@, indexOf(R[1], id))],
         IF R[2][c.at] = id THEN Restrict(R[2], DOMAIN R[2] \ {c.at}) ELSE R[2],
         [R[3] EXCEPT ![c.at.ip] = @ - 1]>>
\* removeNodeByIDLocked and dropNode: only if it is still stored at that address.
RemoveIfAt(R, id, at) == IF HeldAt(R[1], id, at) THEN removeNodeAtLocked(R, id) ELSE R

\* touchLocked and refreshNode: the contact moves to the fresh end.
Touch(R, id, seen) ==
    LET c == Stored(R[1], id)
        newer == IF Rank(seen) > Rank(c.seen) THEN seen ELSE c.seen
    IN [R EXCEPT ![1][BucketIndex[id]] = Append(RemoveAt(@, indexOf(R[1], id)), [c EXCEPT !.seen = newer])]
refreshNode(R, id, at) == IF HeldAt(R[1], id, at) THEN Touch(R, id, "fresh") ELSE R

\* slash24Taken: a contact other than the one at that address or under skip
\* already holds the /24 in bucket b.
slash24Taken(R, b, at, skip) ==
    /\ at.net \notin LocalNets
    /\ \E i \in DOMAIN R[1][b] : LET c == R[1][b][i]
                                 IN c.at.net = at.net /\ c.at # at /\ c.id # skip
IPTaken(R, at) == onePerIP(at) /\ R[3][at.ip] > 0
Full(R, b) == Len(R[1][b]) >= BucketSize
\* bucket.oldest: one of those not heard from for longest.
Oldest(R, b) == {c \in ToSet(R[1][b]) : \A d \in ToSet(R[1][b]) : Rank(c.seen) <= Rank(d.seen)}

----------------------------------------------------------------------------
(* Address changes *)

\* beginAddressVerification
MayVerify(id, at) ==
    /\ [id |-> id, at |-> at] \notin addrCooldowns /\ [id |-> id, at |-> NoAddress] \notin addrCooldowns
    /\ id \notin Verifying /\ Cardinality(Verifying) < MaxPendingAddrChanges
\* considerAddressChange: the goroutines after it, given those there are.
considerAddressChange(id, from, to, now) ==
    IF MayVerify(id, to) /\ ~dhtClosed
    THEN now \cup {[kind |-> "verify", id |-> id, from |-> from, to |-> to, stage |-> "old"]} ELSE now

\* endAddressVerification and makeAddrCooldownRoomLocked: an adoption clears the
\* cooldowns of the ID; otherwise both tiers are armed, the long one evicted first.
Cooled(id, to, adopted) ==
    IF adopted THEN {{c \in addrCooldowns : c.id # id}}
    ELSE LET armed == {[id |-> id, at |-> NoAddress], [id |-> id, at |-> to]}
             wanted == Cardinality(armed \ addrCooldowns)
             excess == Cardinality(addrCooldowns) + wanted - MaxAddrChangeCooldowns
         IN IF excess <= 0 THEN {addrCooldowns \cup armed}
            ELSE {(addrCooldowns \ victims) \cup armed : victims \in
                    {V \in SUBSET addrCooldowns :
                        /\ Cardinality(V) = excess
                        /\ (\E v \in V : v.at = NoAddress) => \A c \in addrCooldowns \ V : c.at = NoAddress}}

\* repointNode applies: the contact still points there and the new address has room.
MayRepoint(R, id, from, to) ==
    /\ HeldAt(R[1], id, from) /\ to \notin DOMAIN R[2]
    /\ ~(onePerIP(to) /\ R[3][to.ip] > (IF from.ip = to.ip THEN 1 ELSE 0))
    /\ ~slash24Taken(R, BucketIndex[id], to, id)
repointNode(R, id, to) == appendNodeLocked(removeNodeAtLocked(R, id), Contact(id, to, "fresh"))

----------------------------------------------------------------------------
(* Admission *)

\* addNodeSeen: `rest` are the goroutines once the caller's own is gone.
addNodeSeen(id, at, seen, rest) ==
    LET b == BucketIndex[id]
        R == IF at \in DOMAIN nodeAddrs THEN RemoveIfAt(Here, nodeAddrs[at], at) ELSE Here
    IN  IF Held(table, id)
        THEN /\ IF Stored(table, id).at = at
                THEN Store(Touch(Here, id, seen)) /\ tasks' = rest
                ELSE /\ tasks' = considerAddressChange(id, Stored(table, id).at, at, rest)
                     /\ UNCHANGED routes
             /\ UNCHANGED pingInProgress
        ELSE IF IPTaken(R, at) THEN Store(R) /\ tasks' = rest /\ UNCHANGED pingInProgress
        ELSE IF ~Full(R, b)
        THEN /\ Store(IF slash24Taken(R, b, at, Nobody) THEN R ELSE appendNodeLocked(R, Contact(id, at, seen)))
             /\ tasks' = rest /\ UNCHANGED pingInProgress
        ELSE /\ Store(R)
             /\ \E stale \in Oldest(R, b) :
                  IF b \in pingInProgress \/ ~questionable(stale) \/ slash24Taken(R, b, at, stale.id)
                  THEN tasks' = rest /\ UNCHANGED pingInProgress
                  ELSE /\ pingInProgress' = pingInProgress \cup {b}
                       /\ tasks' = rest \cup {[kind |-> "challenge", old |-> stale,
                                               newcomer |-> Contact(id, at, seen), failures |-> 0]}

\* loadNodes: a contact of the nodes file, in any order.
LoadNode(id, at) ==
    /\ <<id, at>> \in file
    /\ file' = file \ {<<id, at>>}
    /\ addNodeSeen(id, at, "never", tasks)
    /\ UNCHANGED <<addrCooldowns, dhtClosed, occupant, answered, moves, sightings>>

\* probeNode: one probe per key, and a share of them for unknown senders.
MayProbe(at, fromQuery) ==
    /\ \A t \in Probes : probeKey(t.at) # probeKey(at)
    /\ Cardinality(Probes) < MaxInFlightProbes
    /\ fromQuery => Cardinality({t \in Probes : t.fromQuery}) < MaxQuerySenderProbes
    /\ ~dhtClosed
probeNode(at, fromQuery) ==
    tasks' = IF MayProbe(at, fromQuery)
             THEN tasks \cup {[kind |-> "probe", at |-> at, fromQuery |-> fromQuery]} ELSE tasks

\* mightAdmitLocked
MightAdmit(b, at) ==
    /\ ~(at \notin DOMAIN nodeAddrs /\ IPTaken(Here, at))
    /\ IF ~Full(Here, b) THEN ~slash24Taken(Here, b, at, Nobody)
       ELSE /\ b \notin pingInProgress
            /\ \E stale \in Oldest(Here, b) : questionable(stale) /\ ~slash24Taken(Here, b, at, stale.id)

Sighted == file = {} /\ ~dhtClosed /\ sightings < MaxSightings /\ sightings' = sightings + 1

\* A query in the name of id from that address, spoofed or not (noteQuerySender).
noteQuerySender(id, at) ==
    /\ Sighted
    /\ IF Held(table, id)
       THEN IF Stored(table, id).at # at
            THEN tasks' = considerAddressChange(id, Stored(table, id).at, at, tasks)
            ELSE IF Stored(table, id).seen = "never" THEN probeNode(at, TRUE) ELSE UNCHANGED tasks
       ELSE IF MightAdmit(BucketIndex[id], at) THEN probeNode(at, TRUE) ELSE UNCHANGED tasks
    /\ UNCHANGED <<file, routes, pingInProgress, addrCooldowns, dhtClosed, occupant, answered, moves>>

\* A PORT message or a bootstrap referral names an address (AddNode, bootstrap, probeUnknown).
AddNode(at) ==
    /\ Sighted
    /\ IF at \in DOMAIN nodeAddrs \/ IPTaken(Here, at) THEN UNCHANGED tasks ELSE probeNode(at, FALSE)
    /\ UNCHANGED <<file, routes, pingInProgress, addrCooldowns, dhtClosed, occupant, answered, moves>>

----------------------------------------------------------------------------
(* The goroutines: each step is a ping (queryNodeID) and what follows it *)

\* The node that answers the ping of an address, Nobody when none does in time.
PingAnswer(at) == IF dhtClosed THEN {Nobody} ELSE {occupant[at], Nobody}
Heard(id, at) == answered' = IF id = Nobody THEN answered ELSE answered \cup {<<id, at>>}

Probe(t) ==
    /\ t \in Probes
    /\ \E id \in PingAnswer(t.at) :
         /\ Heard(id, t.at)
         /\ IF id = Nobody THEN tasks' = tasks \ {t} /\ UNCHANGED <<routes, pingInProgress>>
            ELSE addNodeSeen(id, t.at, "fresh", tasks \ {t})
    /\ UNCHANGED <<file, addrCooldowns, dhtClosed, occupant, moves, sightings>>

\* A variant: the contact that was pinged is evicted without a second look.
EvictsUnchecked(R, old, c) ==
    LET Q == RemoveIfAt(R, old.id, old.at)
    IN  IF \/ Full(Q, BucketIndex[c.id]) \/ Held(Q[1], c.id) \/ c.at \in DOMAIN Q[2]
           \/ IPTaken(Q, c.at) \/ slash24Taken(Q, BucketIndex[c.id], c.at, Nobody)
        THEN Q ELSE appendNodeLocked(Q, c)
\* replaceNode: the contact keeps its slot if it was heard from meanwhile, and
\* the newcomer must still be admissible.
replaceNode(R, old, c) ==
    LET Q == RemoveIfAt(R, old.id, old.at)
    IN  IF HeldAt(R[1], old.id, old.at) /\ ~questionable(Stored(R[1], old.id)) THEN R
        ELSE IF \/ Full(Q, BucketIndex[c.id]) \/ Held(Q[1], c.id) \/ c.at \in DOMAIN Q[2]
                \/ IPTaken(Q, c.at) \/ slash24Taken(Q, BucketIndex[c.id], c.at, Nobody)
        THEN Q ELSE appendNodeLocked(Q, c)

challenge(t) ==
    /\ t \in tasks /\ t.kind = "challenge"
    /\ \E id \in PingAnswer(t.old.at) :
         LET ends == /\ tasks' = tasks \ {t}
                     /\ pingInProgress' = pingInProgress \ {BucketIndex[t.old.id]}
         IN /\ Heard(id, t.old.at)
            /\ IF dhtClosed THEN ends /\ UNCHANGED routes
               ELSE IF id = t.old.id THEN ends /\ Store(refreshNode(Here, t.old.id, t.old.at))
               ELSE IF id = Nobody /\ t.failures + 1 < MaxNodePingFailures
               THEN /\ tasks' = (tasks \ {t}) \cup {[t EXCEPT !.failures = @ + 1]}
                    /\ UNCHANGED <<routes, pingInProgress>>
               ELSE ends /\ Store(replaceNode(Here, t.old, t.newcomer))
    /\ UNCHANGED <<file, addrCooldowns, dhtClosed, occupant, moves, sightings>>

\* verifyAddressChange: any answer of the stored address settles it.
VerifyEnds(t, adopted) ==
    /\ tasks' = tasks \ {t}
    /\ addrCooldowns' \in Cooled(t.id, t.to, adopted)
VerifyOld(t) ==
    /\ t \in tasks /\ t.kind = "verify" /\ t.stage = "old"
    /\ \E id \in PingAnswer(t.from) :
         /\ Heard(id, t.from)
         /\ IF id = Nobody
            THEN /\ tasks' = (tasks \ {t}) \cup {[t EXCEPT !.stage = "new"]}
                 /\ UNCHANGED <<routes, addrCooldowns>>
            ELSE /\ VerifyEnds(t, FALSE)
                 /\ Store(IF id = t.id THEN refreshNode(Here, t.id, t.from) ELSE RemoveIfAt(Here, t.id, t.from))
    /\ UNCHANGED <<file, pingInProgress, dhtClosed, occupant, moves, sightings>>
VerifyNew(t) ==
    /\ t \in tasks /\ t.kind = "verify" /\ t.stage = "new"
    /\ \E id \in PingAnswer(t.to) :
         LET adopted == id = t.id /\ MayRepoint(Here, t.id, t.from, t.to)
         IN /\ Heard(id, t.to)
            /\ VerifyEnds(t, adopted)
            /\ Store(IF adopted THEN repointNode(Here, t.id, t.to) ELSE Here)
    /\ UNCHANGED <<file, pingInProgress, dhtClosed, occupant, moves, sightings>>

\* Time: contacts turn questionable, cooldowns expire.
Ages ==
    /\ table' = [b \in Buckets |-> [i \in DOMAIN table[b] |->
                   IF table[b][i].seen = "fresh" THEN [table[b][i] EXCEPT !.seen = "old"] ELSE table[b][i]]]
    /\ UNCHANGED <<file, nodeAddrs, nodeIPs, pingInProgress, tasks, addrCooldowns, dhtClosed, occupant,
                   answered, moves, sightings>>
CooldownEnds(c) ==
    /\ c \in addrCooldowns /\ addrCooldowns' = addrCooldowns \ {c}
    /\ UNCHANGED <<file, routes, pingInProgress, tasks, dhtClosed, occupant, answered, moves, sightings>>

\* Another node, or none, answers at an address from now on.
Moves(at, id) ==
    /\ moves < MaxMoves /\ moves' = moves + 1
    /\ occupant' = [occupant EXCEPT ![at] = id]
    /\ UNCHANGED <<file, routes, pingInProgress, tasks, addrCooldowns, dhtClosed, answered, sightings>>

\* DHT.Close
CloseDHT ==
    /\ file = {} /\ ~dhtClosed /\ dhtClosed' = TRUE
    /\ UNCHANGED <<file, routes, pingInProgress, tasks, addrCooldowns, occupant, answered, moves, sightings>>

RoutingNext ==
    \/ \E id \in Nodes, at \in Addresses : LoadNode(id, at) \/ noteQuerySender(id, at)
    \/ \E at \in Addresses : AddNode(at)
    \/ \E t \in tasks : Probe(t) \/ challenge(t) \/ VerifyOld(t) \/ VerifyNew(t)
    \/ Ages \/ \E c \in addrCooldowns : CooldownEnds(c)
    \/ \E at \in Addresses, id \in Nodes \cup {Nobody} : Moves(at, id)
    \/ CloseDHT

RoutingSpec == RoutingInit /\ [][RoutingNext]_routingVars

----------------------------------------------------------------------------
(* Properties *)

All == UNION {ToSet(table[b]) : b \in Buckets}
RoutingTypeOK ==
    /\ \A b \in Buckets : table[b] \in Seq(Contacts) /\ Len(table[b]) <= BucketSize
    /\ DOMAIN nodeAddrs \subseteq Addresses /\ nodeIPs \in [IPs -> Nat]
    /\ pingInProgress \subseteq Buckets /\ answered \subseteq Nodes \X Addresses
    /\ Cardinality(addrCooldowns) <= MaxAddrChangeCooldowns /\ dhtClosed \in BOOLEAN
    /\ occupant \in [Addresses -> Nodes \cup {Nobody}]

\* The indexes are the table seen by address and by IP, whatever admissions,
\* evictions, moves and removals ran into each other: no ID or address twice,
\* one contact per IP and per bucket and /24 where that is required.  And a
\* contact counts as heard from only at an address where that very node has
\* answered us: a query in its name, however often repeated, moves nothing.
RoutingConsistent ==
    /\ \A b \in Buckets : \A i, j \in DOMAIN table[b] : i # j => table[b][i].id # table[b][j].id
    /\ \A b \in Buckets : \A i \in DOMAIN table[b] : BucketIndex[table[b][i].id] = b
    /\ DOMAIN nodeAddrs = {c.at : c \in All} /\ \A c \in All : nodeAddrs[c.at] = c.id
    /\ \A ip \in IPs : nodeIPs[ip] = Cardinality({c \in All : c.at.ip = ip})
    /\ \A ip \in IPs \ Loopback : nodeIPs[ip] <= 1
    /\ \A c, d \in All : /\ c.at.net = d.at.net /\ c.at.net \notin LocalNets
                         /\ BucketIndex[c.id] = BucketIndex[d.id]
                         => c = d
    /\ \A c \in All : c.seen # "never" => <<c.id, c.at>> \in answered

\* A contact heard from recently loses its slot only to the evidence that
\* another node answers at its address; one that moves keeps its slot.
LiveContactsKept ==
    [][\A c \in All : c.seen = "fresh" /\ ~Held(table', c.id) =>
         \E id \in Nodes \ {c.id} : <<id, c.at>> \in answered']_routingVars

\* The routing table: its indexes agree with its buckets, and a contact that
\* answers is not evicted (dht.go, addNodeSeen, replaceNode, repointNode).
ContactsKept == [](RoutingTypeOK /\ RoutingConsistent) /\ LiveContactsKept
=============================================================================
