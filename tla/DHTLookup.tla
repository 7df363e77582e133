------------------------------ MODULE DHTLookup ------------------------------
(***************************************************************************)
(* One get_peers lookup (pkg/dht/dht.go): the candidate set, the rounds of *)
(* parallel queries and the announces that follow.                         *)
(*                                                                         *)
(* A node ID is its distance to the target, 0 being ours.  What responders *)
(* say is arbitrary: any ID, any referrals, a token or none, or nothing.   *)
(* The peers they return are left out.                                     *)
(***************************************************************************)
EXTENDS Integers, Sequences, SequencesExt, FiniteSets, FiniteSetsExt

CONSTANTS
    Distances,          \* distances a node may have or claim
    Endpoints,          \* addresses: records [key, local]; key is lookupKey
    LookupK,            \* dhtLookupK
    LookupCandidates,   \* dhtLookupCandidates
    LookupParallelism,  \* dhtLookupParallelism
    LookupQueryLimit,   \* dhtLookupQueryLimit
    StartNodes,         \* what the routing table may offer at the start
    MaxReferrals        \* bound: nodes in an answer

ASSUME LookupAssumption ==
    /\ Distances \subseteq Nat
    /\ LookupK \in Nat \ {0} /\ LookupCandidates >= LookupK
    /\ LookupParallelism \in Nat \ {0} /\ LookupQueryLimit \in Nat

VARIABLES
    lookupPhase,    \* "start", "bootstrap", "round", "results", "announce", "done" or "stopped"
    list,           \* lookupSet.list: candidates [dist, at, state, token], nearest first
    seen,           \* lookupSet.seen
    inFlight,       \* addresses of the batch whose results are still to come
    queriesCount,
    claimed,        \* address -> the distances it was referred under by others, or started with
    queried,          \* addresses queried, in order
    given,          \* address -> the ID and the token it answered with
    announces       \* announces sent: pairs of address and token

lookupVars == <<lookupPhase, list, seen, inFlight, queriesCount, claimed, queried, given, announces>>

Referrals == [dist : Distances, at : Endpoints]
NoToken == ""
Ranked(S) == SetToSortSeq(S, LAMBDA r, s : r.dist < s.dist)

LookupInit ==
    /\ lookupPhase = "start" /\ list = <<>> /\ seen = {} /\ inFlight = {}
    /\ queriesCount = 0 /\ claimed = [a \in Endpoints |-> {}] /\ queried = <<>>
    /\ given = [a \in Endpoints |-> [dist |-> 0, token |-> NoToken]] /\ announces = {}

----------------------------------------------------------------------------
(* The candidate set L = [list, seen] *)

\* lookupSet.add: one per key, and a full set only takes what is closer than its
\* farthest, which it drops.
add(L, r) ==
    LET full == Len(L.list) = LookupCandidates
        kept == IF full THEN Front(L.list) ELSE L.list
        c == [dist |-> r.dist, at |-> r.at, state |-> "fresh", token |-> NoToken]
        closer == SelectSeq(kept, LAMBDA d : d.dist <= r.dist)
        farther == SelectSeq(kept, LAMBDA d : d.dist > r.dist)
    IN  IF r.dist = 0 \/ r.at.key \in L.seen \/ (full /\ r.dist >= Last(L.list).dist) THEN L
        ELSE [list |-> closer \o <<c>> \o farther, seen |-> L.seen \cup {r.at.key}]

\* endpointAllowed: nothing more local than the responder.
endpointAllowed(r, responder) == r.at.local => responder.local

\* addReferrals: the K closest of those allowed, added in turn.
Taken(nodes, responder) ==
    LET refs == Ranked({r \in nodes : endpointAllowed(r, responder)})
    IN SubSeq(refs, 1, IF Len(refs) > LookupK THEN LookupK ELSE Len(refs))
addReferrals(L, nodes, responder) == FoldLeft(add, L, Taken(nodes, responder))

\* lookupSet.next: the fresh ones among the K closest that have not failed.
Live(L) == {i \in DOMAIN L : L[i].state # "failed"}
Eligible(L) == {i \in Live(L) : Cardinality({j \in Live(L) : j < i}) < LookupK}
Batch(max) ==
    LET fresh == {i \in Eligible(list) : list[i].state = "fresh"}
    IN {i \in fresh : Cardinality({j \in fresh : j < i}) < max}

----------------------------------------------------------------------------
(* The lookup *)

Claim(refs) == claimed' = [a \in Endpoints |-> claimed[a] \cup {r.dist : r \in {s \in refs : s.at = a}}]

\* The table's closest contacts start the search; an empty table is given time
\* to bootstrap (awaitStartNodes).
Begin(nodes) ==
    /\ lookupPhase \in {"start", "bootstrap"}
    /\ IF nodes = {} /\ lookupPhase = "start"
       THEN lookupPhase' = "bootstrap" /\ UNCHANGED <<list, seen, claimed>>
       ELSE IF nodes = {} THEN lookupPhase' = "done" /\ UNCHANGED <<list, seen, claimed>>
       ELSE LET L == FoldLeft(add, [list |-> list, seen |-> seen], Ranked(nodes))
            IN /\ list' = L.list /\ seen' = L.seen
               /\ Claim(nodes) /\ lookupPhase' = "round"
    /\ UNCHANGED <<inFlight, queriesCount, queried, given, announces>>

\* A round sends its batch, or finds that the search has converged or is spent.
Round ==
    /\ lookupPhase = "round"
    /\ LET room == LookupQueryLimit - queriesCount
           batch == Batch(IF room < LookupParallelism THEN room ELSE LookupParallelism)
       IN IF batch = {}
          THEN lookupPhase' = "announce" /\ UNCHANGED <<list, inFlight, queriesCount, queried>>
          ELSE /\ lookupPhase' = "results"
               /\ list' = [i \in DOMAIN list |-> IF i \in batch THEN [list[i] EXCEPT !.state = "asked"]
                                                  ELSE list[i]]
               /\ inFlight' = {list[i].at : i \in batch}
               /\ queriesCount' = queriesCount + Cardinality(batch)
               /\ queried' = queried \o SetToSeq({list[i].at : i \in batch})
    /\ UNCHANGED <<seen, claimed, given, announces>>

\* find: the candidate at that address may have been dropped since.
At(a) == {i \in DOMAIN list : list[i].at = a}
Settled(a, state, token) ==
    [i \in DOMAIN list |-> IF i \in At(a) THEN [list[i] EXCEPT !.state = state, !.token = token] ELSE list[i]]
NextRound(a) ==
    /\ inFlight' = inFlight \ {a}
    /\ lookupPhase' = IF inFlight = {a} THEN "round" ELSE "results"

\* A query fails: no answer in time, or a malformed one.
QueryFails(a) ==
    /\ lookupPhase = "results" /\ a \in inFlight
    /\ list' = Settled(a, "failed", NoToken)
    /\ NextRound(a)
    /\ UNCHANGED <<seen, queriesCount, claimed, queried, given, announces>>

\* A variant: a responder counts whatever ID it answers under.
AnyId(a, dist) == TRUE
\* The responder answered under the ID it was referred under.
SameId(a, dist) == \A i \in At(a) : list[i].dist = dist

\* An answer: the responder's own ID, a token or none, and referrals.
QueryAnswered(a, dist, token, nodes) ==
    /\ lookupPhase = "results" /\ a \in inFlight
    /\ LET settled == IF SameId(a, dist) THEN Settled(a, "responded", token) ELSE Settled(a, "failed", NoToken)
           L == addReferrals([list |-> settled, seen |-> seen], nodes, a)
       IN list' = L.list /\ seen' = L.seen
    /\ given' = [given EXCEPT ![a] = [dist |-> dist, token |-> token]]
    /\ Claim({r \in nodes : a.local \/ ~r.at.local})
    /\ NextRound(a)
    /\ UNCHANGED <<queriesCount, queried, announces>>

\* The announces go to the K closest responders that gave a token.
Announced ==
    LET able == {i \in DOMAIN list : list[i].state = "responded" /\ list[i].token # NoToken}
    IN {i \in able : Cardinality({j \in able : j < i}) < LookupK}
Announce ==
    /\ lookupPhase = "announce" /\ lookupPhase' = "done"
    /\ announces' = {<<list[i].at, list[i].token>> : i \in Announced}
    /\ UNCHANGED <<list, seen, inFlight, queriesCount, claimed, queried, given>>

\* The node closes, or the caller queried for no announce: the lookup ends as it is.
Stops ==
    /\ lookupPhase \notin {"done", "stopped"} /\ lookupPhase' = "stopped"
    /\ inFlight' = {}
    /\ UNCHANGED <<list, seen, queriesCount, claimed, queried, given, announces>>

Answers == {S \in SUBSET Referrals : /\ Cardinality(S) <= MaxReferrals
                                     /\ \A r, s \in S : r.dist = s.dist => r = s}
LookupNext ==
    \/ \E nodes \in StartNodes : Begin(nodes)
    \/ Round \/ Announce \/ Stops
    \/ \E a \in inFlight : QueryFails(a)
    \/ \E a \in inFlight, dist \in Distances, nodes \in Answers :
         \E token \in {NoToken, "t"} : QueryAnswered(a, dist, token, nodes)

LookupSpec == LookupInit /\ [][LookupNext]_lookupVars

----------------------------------------------------------------------------
(* Properties *)

LookupTypeOK ==
    /\ lookupPhase \in {"start", "bootstrap", "round", "results", "announce", "done", "stopped"}
    /\ Len(list) <= LookupCandidates /\ queriesCount \in 0 .. LookupQueryLimit
    /\ inFlight \subseteq Endpoints /\ Cardinality(inFlight) <= LookupParallelism

\* A lookup cannot be steered or stretched: it spends no second query on a /24,
\* not even one pushed out of the candidates meanwhile, and asks a local address
\* only when the table or a local node named it.
QueriesWellSpent ==
    /\ Len(queried) = queriesCount
    /\ \A i, j \in DOMAIN queried : queried[i].key = queried[j].key => i = j
    /\ \A i \in DOMAIN queried : claimed[queried[i]] # {}
    /\ \A i, j \in DOMAIN list : i < j => list[i].dist <= list[j].dist

\* The K closest live nodes have answered when a lookup announces, unless its
\* queries ran out; and the announces are sent to responders that answered under
\* the ID they were referred under, each with the token it gave itself.
AnnouncesWellPlaced ==
    lookupPhase \in {"announce", "done"} =>
        /\ queriesCount < LookupQueryLimit => \A i \in Eligible(list) : list[i].state = "responded"
        /\ \A p \in announces : /\ p[2] = given[p[1]].token /\ p[2] # NoToken
                                /\ given[p[1]].dist \in claimed[p[1]]
        /\ Cardinality(announces) <= LookupK

\* The two halves of a sound lookup: how it asks and where it announces.
LookupSound == QueriesWellSpent /\ AnnouncesWellPlaced
=============================================================================
