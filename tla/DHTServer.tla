------------------------------ MODULE DHTServer ------------------------------
(***************************************************************************)
(* What the DHT node answers (pkg/dht): the limit on each sender's queries *)
(* (ratelimit.go), the announce tokens (dht.go) and the peers announced to *)
(* us (peerstore.go), all driven by the queries of handleQuery.            *)
(*                                                                         *)
(* Times are ages in ticks, saturated where older makes no difference.  A  *)
(* token is the generation of the secret it was made from and the tick it  *)
(* was given in; each IP keeps the last one it was given.                  *)
(***************************************************************************)
EXTENDS Integers, Sequences, SequencesExt, FiniteSets, FiniteSetsExt

CONSTANTS
    SourceIPs,      \* senders
    LimiterSlot,    \* queryLimiter.slot: the slot of an IP
    QueryRateBurst, QueryBlockDuration, \* queryRateBurst; queryBlockDuration, in rate intervals (ticks)
    TokenRotation,  \* how old a secret may get, in ticks
    InfoHashes, Ports,
    PeerStoreTTL, MaxStoredHashes, MaxPeersPerHash, MaxPeersPerIPPerHash, MaxHashesPerIP,
    MaxTicks, MaxQueries    \* bounds

ASSUME ServerAssumption ==
    /\ QueryRateBurst \in Nat \ {0} /\ QueryBlockDuration \in Nat \ {0} /\ TokenRotation \in Nat \ {0}
    /\ PeerStoreTTL \in Nat /\ MaxStoredHashes \in Nat \ {0}
    /\ MaxPeersPerIPPerHash \in Nat \ {0} /\ MaxPeersPerHash \in Nat /\ MaxPeersPerHash >= MaxPeersPerIPPerHash
    /\ MaxHashesPerIP \in Nat \ {0}
    /\ IsFiniteSet(InfoHashes)

VARIABLES
    slots,          \* the limiter: who holds each slot, its tat and its block, both from now
    secretAge,      \* ticks since tokenCreated
    token,          \* the last token of each IP: its secret ("current", "previous", "gone", "none") and age
    swarmOrder,     \* hashes with a swarm, most recently announced first
    peersOf,        \* hash -> its stored peers [ip, port, age], by recency
    ipHashes,       \* IP -> swarms said to hold an entry of it
    refusedAge,     \* IP -> ticks since its last refused query, QueryBlockDuration when none
    ticks, queries

serverVars == <<slots, secretAge, token, swarmOrder, peersOf, ipHashes, refusedAge, ticks, queries>>
store == <<swarmOrder, peersOf, ipHashes>>

NoIP == "no IP"
OldToken == 3 * TokenRotation
Peer(ip, port, age) == [ip |-> ip, port |-> port, age |-> age]

ServerInit ==
    /\ slots = [s \in {LimiterSlot[ip] : ip \in SourceIPs} |-> [ip |-> NoIP, tat |-> 0, blocked |-> 0]]
    /\ secretAge = 0 /\ token = [ip \in SourceIPs |-> [secret |-> "none", age |-> 0]]
    /\ swarmOrder = <<>> /\ peersOf = [h \in InfoHashes |-> <<>>]
    /\ ipHashes = [ip \in SourceIPs |-> 0]
    /\ refusedAge = [ip \in SourceIPs |-> QueryBlockDuration]
    /\ ticks = 0 /\ queries = 0

----------------------------------------------------------------------------
(* The limiter *)

\* queryLimiter.allow: the slot as the query of ip finds it; another address
\* may take it over unless a block is active.
SlotFor(ip) ==
    LET s == slots[LimiterSlot[ip]]
    IN IF s.ip = ip \/ s.blocked > 0 THEN s ELSE [ip |-> ip, tat |-> 0, blocked |-> 0]
Exceeds(s) == s.blocked > 0 \/ s.tat > QueryRateBurst - 1
allow(ip) == SlotFor(ip).ip # ip \/ ~Exceeds(SlotFor(ip))
Charged(ip) ==
    LET s == SlotFor(ip)
    IN IF s.ip # ip THEN s
       ELSE IF Exceeds(s) THEN [s EXCEPT !.blocked = QueryBlockDuration]
       ELSE [s EXCEPT !.tat = @ + 1]

\* admitQuery for a query that is answered or refused.
Admitted(ip) == slots' = [slots EXCEPT ![LimiterSlot[ip]] = Charged(ip)]
Query == queries < MaxQueries /\ queries' = queries + 1

Refused(ip) ==
    /\ Query /\ ~allow(ip) /\ Admitted(ip)
    /\ refusedAge' = [refusedAge EXCEPT ![ip] = 0]
    /\ UNCHANGED <<secretAge, token, store, ticks>>

----------------------------------------------------------------------------
(* Tokens *)

\* generateToken and validateToken first replace a secret that is too old.
Rotates == secretAge > TokenRotation
Turned(t) ==
    IF ~Rotates THEN t
    ELSE [t EXCEPT !.secret = CASE @ = "current" -> "previous" [] @ = "previous" -> "gone" [] OTHER -> @]

\* validateToken, after the rotation
Valid(t) == t.secret \in {"current", "previous"}

\* get_peers: the sender is given a token, and the swarm it asks about is pruned.
GetPeers(ip) ==
    /\ Query /\ allow(ip) /\ Admitted(ip)
    /\ token' = [i \in SourceIPs |-> IF i = ip THEN [secret |-> "current", age |-> 0] ELSE Turned(token[i])]
    /\ secretAge' = IF Rotates THEN 0 ELSE secretAge
    /\ UNCHANGED <<store, refusedAge, ticks>>

----------------------------------------------------------------------------
(* The peer store, as one value S = [order, peers, counts] *)

StoreNow == [order |-> swarmOrder, peers |-> peersOf, counts |-> ipHashes]
IPsIn(list) == {list[i].ip : i \in DOMAIN list}
PortsIn(list, ip) == {list[i].port : i \in {j \in DOMAIN list : list[j].ip = ip}}

\* The store with another order and other peers: an IP is released from each
\* swarm it has no entry in any more (dropPeer).
Leaves(S, peers, ip) == {h \in InfoHashes : ip \in IPsIn(S.peers[h]) \ IPsIn(peers[h])}
Reduced(S, order, peers) ==
    [order |-> order, peers |-> peers,
     counts |-> [ip \in SourceIPs |-> S.counts[ip] - Cardinality(Leaves(S, peers, ip))]]
Listing(S, h, list) == [g \in InfoHashes |-> IF g = h THEN list ELSE S.peers[g]]

unlink(order, h) ==
    LET at == {i \in DOMAIN order : order[i] = h}
    IN IF at = {} THEN order ELSE RemoveAt(order, CHOOSE i \in at : TRUE)
removeSwarm(S, h) == Reduced(S, unlink(S.order, h), Listing(S, h, <<>>))

\* pruneSwarm: the entries within the TTL are the last of the list.
Fresh(list) ==
    LET fresh == {i \in DOMAIN list : list[i].age <= PeerStoreTTL}
    IN IF fresh = {} THEN <<>> ELSE SubSeq(list, Min(fresh), Len(list))
pruneSwarm(S, h) ==
    IF Fresh(S.peers[h]) = <<>> THEN removeSwarm(S, h)
    ELSE Reduced(S, S.order, Listing(S, h, Fresh(S.peers[h])))

\* expireStale: from the tail on, swarms nobody has announced to within the TTL go.
StillAnnounced(S) ==
    LET recent == {i \in DOMAIN S.order : Last(S.peers[S.order[i]]).age <= PeerStoreTTL}
    IN SubSeq(S.order, 1, IF recent = {} THEN 0 ELSE Max(recent))
expireStale(S) ==
    Reduced(S, StillAnnounced(S),
            [h \in InfoHashes |-> IF h \in ToSet(StillAnnounced(S)) THEN S.peers[h] ELSE <<>>])

\* A variant: the count is judged by the entries there were before the eviction.
CountedBefore(S, T, h, ip) == ip \notin IPsIn(S.peers[h])
\* Whether ip's new entry is its first in the swarm, once the eviction is done.
FirstEntry(S, T, h, ip) == ip \notin IPsIn(T.peers[h])

CountsWith(S, T, h, ip) == IF FirstEntry(S, T, h, ip) THEN [T.counts EXCEPT ![ip] = @ + 1] ELSE T.counts

\* The announce of a new endpoint: the IP's newest port replaces its oldest, or
\* the swarm's oldest entry makes room.
Inserted(S, h, ip, port) ==
    LET list == S.peers[h]
        mine == {i \in DOMAIN list : list[i].ip = ip}
        new == Peer(ip, port, 0)
        T == IF Len(list) >= MaxPeersPerHash THEN Reduced(S, S.order, Listing(S, h, Tail(list))) ELSE S
    IN  IF Cardinality(mine) >= MaxPeersPerIPPerHash
        THEN [S EXCEPT !.peers = Listing(S, h, Append(RemoveAt(list, Min(mine)), new))]
        ELSE [T EXCEPT !.peers = Listing(T, h, Append(T.peers[h], new)), !.counts = CountsWith(S, T, h, ip)]

\* A known endpoint moves to the end of its swarm's list.
Refreshed(S, h, i) ==
    LET p == S.peers[h][i]
    IN [S EXCEPT !.peers = Listing(S, h, Append(RemoveAt(S.peers[h], i), Peer(p.ip, p.port, 0)))]

\* peerStore.announce
Recorded(S, h, ip, port) ==
    LET same == {i \in DOMAIN S.peers[h] : S.peers[h][i].ip = ip /\ S.peers[h][i].port = port}
    IN IF same # {} THEN Refreshed(S, h, CHOOSE i \in same : TRUE) ELSE Inserted(S, h, ip, port)
InFront(S, h) == [S EXCEPT !.order = <<h>> \o unlink(S.order, h)]
announce(h, ip, port) ==
    LET S == pruneSwarm(expireStale(StoreNow), h)
        full == S.peers[h] = <<>> /\ Len(S.order) >= MaxStoredHashes
        R == IF full THEN removeSwarm(S, Last(S.order)) ELSE S
    IN  IF ip \notin IPsIn(S.peers[h]) /\ S.counts[ip] >= MaxHashesPerIP THEN S
        ELSE Recorded(InFront(R, h), h, ip, port)

Save(S) == swarmOrder' = S.order /\ peersOf' = S.peers /\ ipHashes' = S.counts

\* announce_peer with the token the sender holds.
AnnouncePeer(ip, h, port) ==
    /\ Query /\ allow(ip) /\ Admitted(ip)
    /\ token' = [i \in SourceIPs |-> Turned(token[i])]
    /\ secretAge' = IF Rotates THEN 0 ELSE secretAge
    /\ IF Valid(Turned(token[ip])) THEN Save(announce(h, ip, port))
       ELSE UNCHANGED store
    /\ UNCHANGED <<refusedAge, ticks>>

\* peerStore.get: the swarm is pruned before its peers are handed out.
GetFrom(h) ==
    /\ Query /\ peersOf[h] # <<>>
    /\ Save(pruneSwarm(StoreNow, h))
    /\ UNCHANGED <<slots, secretAge, token, refusedAge, ticks>>

Capped(n, most) == IF n > most THEN most ELSE n
ServerTick ==
    /\ ticks < MaxTicks /\ ticks' = ticks + 1
    /\ slots' = [s \in DOMAIN slots |-> [slots[s] EXCEPT !.tat = IF @ > 0 THEN @ - 1 ELSE 0,
                                                          !.blocked = IF @ > 0 THEN @ - 1 ELSE 0]]
    /\ secretAge' = Capped(secretAge + 1, TokenRotation + 1)
    /\ token' = [ip \in SourceIPs |-> [token[ip] EXCEPT !.age = Capped(@ + 1, OldToken)]]
    /\ peersOf' = [h \in InfoHashes |-> [i \in DOMAIN peersOf[h] |->
                     [peersOf[h][i] EXCEPT !.age = Capped(@ + 1, PeerStoreTTL + 1)]]]
    /\ refusedAge' = [ip \in SourceIPs |-> Capped(refusedAge[ip] + 1, QueryBlockDuration)]
    /\ UNCHANGED <<swarmOrder, ipHashes, queries>>

ServerNext ==
    \/ \E ip \in SourceIPs : Refused(ip) \/ GetPeers(ip)
    \/ \E ip \in SourceIPs, h \in InfoHashes, port \in Ports : AnnouncePeer(ip, h, port)
    \/ \E h \in InfoHashes : GetFrom(h)
    \/ ServerTick

ServerSpec == ServerInit /\ [][ServerNext]_serverVars

----------------------------------------------------------------------------
(* Properties *)

\* The store's books agree through evictions, expiries and replaced ports: each
\* IP's count is the number of swarms that hold it, the order lists exactly the
\* swarms there are, and no cap is exceeded.
StoreConsistent ==
    /\ \A ip \in SourceIPs :
         /\ ipHashes[ip] = Cardinality({h \in ToSet(swarmOrder) : ip \in IPsIn(peersOf[h])})
         /\ ipHashes[ip] <= MaxHashesPerIP
    /\ ToSet(swarmOrder) = {h \in InfoHashes : peersOf[h] # <<>>} /\ IsInjective(swarmOrder)
    /\ Len(swarmOrder) <= MaxStoredHashes
    /\ \A h \in ToSet(swarmOrder) :
         /\ Len(peersOf[h]) <= MaxPeersPerHash
         /\ \A i, j \in DOMAIN peersOf[h] : i < j => peersOf[h][i].age >= peersOf[h][j].age
         /\ \A i, j \in DOMAIN peersOf[h] :
              peersOf[h][i].ip = peersOf[h][j].ip /\ peersOf[h][i].port = peersOf[h][j].port => i = j
         /\ \A ip \in SourceIPs : Cardinality(PortsIn(peersOf[h], ip)) <= MaxPeersPerIPPerHash

\* An IP that was refused is ignored until it has been silent for the block's
\* whole length, whatever addresses share its slot.
BlockHolds == \A ip \in SourceIPs : refusedAge[ip] < QueryBlockDuration => ~allow(ip)

\* A token is good for at least the life of a secret.
TokenLasts ==
    \A ip \in SourceIPs : token[ip].secret # "none" /\ token[ip].age <= TokenRotation => Valid(Turned(token[ip]))

\* A sender that behaves is never shut out: its block, its token and the store
\* hold what they promise.
ServerKeepsBooks == StoreConsistent /\ BlockHolds /\ TokenLasts
=============================================================================
