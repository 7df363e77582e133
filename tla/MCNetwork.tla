----------------------------- MODULE MCNetwork -----------------------------
(***************************************************************************)
(* How a session finds peers and reaches them: the announces of a session, *)
(* a UDP tracker request, the routing table, the DHT's answers, a lookup,  *)
(* the connections of three sessions, two ends that a third introduces,    *)
(* the listener's port, the handshakes it accepts, and a dial.  They share *)
(* no state, so a behaviour runs one of them and `part` says which.        *)
(***************************************************************************)
EXTENDS TrackerAnnounce, UDPTracker, RoutingTable, DHTServer, DHTLookup, InboundListener, PortMapping,
        PeerConnections

VARIABLES
    part,       \* the component this behaviour is of
    \* PeerDial
    live, answering, dial, dialOpen, lateDials, dialler, monitor, talk, dialPlan,
    \* Holepunch
    links, fetching, entries, sockets, attempts, wants, linkLoop, inbox, rendezvous, punchPlan

Parts == {"announces", "udp", "routing", "server", "lookup", "connections", "ports", "inbound", "dial",
          "punch"}

\* Two trackers; user actions, completions, port changes, swings of the need
\* for peers, failing answers and closes.
Times(t, c, p, s, f, e) ==
    [toggles |-> t, completions |-> c, ports |-> p, swings |-> s, failures |-> f, closes |-> e]
MCPlans == {Times(2, 0, 0, 0, 0, 0), Times(1, 0, 0, 0, 2, 0), Times(1, 0, 0, 0, 0, 1),
            Times(0, 0, 1, 0, 0, 1), Times(0, 1, 0, 0, 1, 0), Times(0, 0, 0, 1, 1, 0)}

\* One bucket of two contacts, three nodes, three addresses, two on one /24; a
\* nodes file knows one of the nodes where it is and one where it no longer is.
At3(ip, net) == [ip |-> ip, net |-> net, port |-> 1]
MCAddresses == {At3("i", "n"), At3("j", "n"), At3("k", "m")}
MCBucketIndex == [n \in Nodes |-> 1]
MCOccupants == {[a \in MCAddresses |-> CASE a.ip = "i" -> "a" [] a.ip = "j" -> "b" [] a.ip = "k" -> "c"]}
MCFiles == {{}, {<<"a", At3("i", "n")>>, <<"b", At3("k", "m")>>}}

\* Two senders that share a slot of the limiter.
MCSlot == [ip \in SourceIPs |-> 1]

\* Three public endpoints and a local one; the table may be empty at first.
Seen(k, l) == [key |-> k, local |-> l]
MCEndpoints == {Seen("p", FALSE), Seen("q", FALSE), Seen("r", FALSE), Seen("l", TRUE)}
MCStartNodes == {{}, {[dist |-> 1, at |-> Seen("p", FALSE)]},
                 {[dist |-> 2, at |-> Seen("l", TRUE)], [dist |-> 1, at |-> Seen("p", FALSE)]}}

----------------------------------------------------------------------------
(* Peer connections: a and another host's b and c *)

MCRank == [s \in Swarm |-> IF s = "a" THEN 1 ELSE IF s = "b" THEN 2 ELSE 3]
MCHost == [s \in Swarm |-> IF s = "a" THEN "h1" ELSE "h2"]
Calm == [lists |-> {}, via |-> {"tcp", "utp"}, calm |-> TRUE, failures |-> 0, backoffs |-> 0,
         pauses |-> 0, drops |-> 0, strikes |-> 0, reveals |-> 0]
MCScenarios ==
    {[Calm EXCEPT !.lists = {<<"a", "b", "tracker">>, <<"b", "a", "discovery">>}, !.backoffs = 1],
     [Calm EXCEPT !.lists = {<<"a", "b", "tracker">>}, !.calm = FALSE, !.pauses = 1, !.failures = 1],
     [Calm EXCEPT !.lists = {<<"a", "b", "tracker">>, <<"b", "a", "tracker">>}, !.via = {"utp"},
                  !.calm = FALSE, !.pauses = 1],
     [Calm EXCEPT !.lists = {<<"a", "b", "tracker">>, <<"b", "a", "tracker">>}, !.via = {"tcp"},
                  !.calm = FALSE, !.pauses = 1],
     [Calm EXCEPT !.lists = {<<"a", "b", "discovery">>, <<"b", "a", "tracker">>}, !.via = {"tcp"},
                  !.calm = FALSE, !.reveals = 1],
     [Calm EXCEPT !.lists = {<<"a", "b", "tracker">>, <<"a", "c", "tracker">>}, !.via = {"tcp"},
                  !.calm = FALSE, !.strikes = 2],
     [Calm EXCEPT !.lists = {<<"b", "a", "tracker">>, <<"c", "a", "tracker">>}, !.via = {"utp"},
                  !.calm = FALSE, !.strikes = 2, !.drops = 1],
     [Calm EXCEPT !.lists = {<<"a", "b", "tracker">>}, !.calm = FALSE, !.drops = 1, !.backoffs = 1,
                  !.failures = 1]}

----------------------------------------------------------------------------
(* The listener's port, told to two sessions and mapped by a gateway *)

Gateway(kinds, sessions, rn, rf, ls, rb, kp) ==
    [kinds |-> kinds, sessions |-> sessions,
     budget |-> [renew |-> rn, refuse |-> rf, lose |-> ls, reboot |-> rb, keep |-> kp]]
MCPortPlans == {Gateway({"upnp"}, {"s"}, 1, 1, 0, 1, 0), Gateway({"pmp"}, {"s"}, 1, 1, 0, 0, 1),
                Gateway({"pmp"}, {"s", "t"}, 0, 0, 0, 0, 1), Gateway({"upnp", "pmp"}, {}, 1, 1, 1, 0, 1)}

----------------------------------------------------------------------------
(* Connections accepted: 1 and 2 share a /64, 3 their /48; 4 is alone *)

CONSTANT Routable

MCBlocksOf == [c \in Arrivals |-> CASE c \in {1, 2} -> {"a64", "a48"} [] c = 3 -> {"b64", "a48"}
                                    [] c = 4 -> {"c64", "a48"} [] c = 5 -> {"v4"} [] OTHER -> {}]
MCShareOf == [b \in UNION {MCBlocksOf[c] : c \in Arrivals} |-> IF b = "a48" THEN 2 ELSE 1]

----------------------------------------------------------------------------
(* A dial and the end that answers it, under every pair of policies *)

Dial(pa, pb, of, py, se, tr, rc, calm, b) ==
    [a |-> pa, b |-> pb, offers |-> of, payload |-> py, selects |-> se, transports |-> tr,
     reach |-> rc, wanted |-> "t", calm |-> calm,
     budget |-> [fail |-> b, timeout |-> b, drop |-> b, close |-> b, remove |-> b]]
Both == {"tcp", "utp"}
Policies == {"prefer", "require", "disable"}
MCDialPlans ==
    {Dial(p, q, {"rc4"}, FALSE, {"rc4"}, Both, r, TRUE, 0) : p, q \in Policies, r \in {Both, {"utp"}}}
    \cup {Dial("prefer", "prefer", {"rc4"}, FALSE, {"rc4"}, Both, Both, FALSE, 1),
          Dial("require", "foreign", {"rc4"}, FALSE, {"rc4", "plain"}, {"tcp"}, Both, TRUE, 0),
          Dial("foreign", "require", {"rc4", "plain"}, TRUE, {"rc4"}, {"tcp"}, Both, TRUE, 0),
          Dial("foreign", "require", {"plain"}, TRUE, {"rc4"}, {"tcp"}, Both, TRUE, 0)}

Dialling == INSTANCE PeerDial WITH Torrents <- Routable, DialPlans <- MCDialPlans,
                served <- answering, open <- dialOpen, late <- lateDials, a <- dialler

----------------------------------------------------------------------------
(* Two ends behind NATs, introduced by a relay *)

CONSTANTS PunchEnds, MaxHolepunch

NoTrouble == [drops |-> 0, windows |-> 0, stalls |-> 0, expiries |-> 0, slots |-> 0, losses |-> 0,
              backoffs |-> 0]
Introduced(via, refuses, calm, troubles) ==
    [via |-> via, refuses |-> refuses, fetching |-> FALSE, calm |-> calm,
     budget |-> troubles]
QuietPunch == Introduced({"tcp"}, {}, TRUE, NoTrouble)
MCPunchPlans ==
    {QuietPunch, Introduced(Both, PunchEnds, TRUE, NoTrouble),
     [Introduced({"tcp"}, {"a"}, TRUE, NoTrouble) EXCEPT !.fetching = TRUE],
     Introduced({"tcp"}, {}, FALSE, [NoTrouble EXCEPT !.drops = 1]),
     Introduced({"tcp"}, PunchEnds, FALSE, [NoTrouble EXCEPT !.windows = 1]),
     Introduced({"utp"}, {"a"}, FALSE, [NoTrouble EXCEPT !.slots = 1, !.stalls = 1]),
     Introduced({"tcp"}, PunchEnds, FALSE, [NoTrouble EXCEPT !.expiries = 1, !.losses = 1]),
     Introduced({"utp"}, {"a"}, FALSE, [NoTrouble EXCEPT !.losses = 1, !.backoffs = 1])}

Punch == INSTANCE Holepunch WITH Ends <- PunchEnds, PunchPlans <- MCPunchPlans, loop <- linkLoop

----------------------------------------------------------------------------
dialVars == <<live, answering, dial, dialOpen, lateDials, dialler, monitor, talk, dialPlan>>
discoveryVars == <<trackerVars, udpVars, routingVars, serverVars, lookupVars>>
punchVars == <<links, fetching, entries, sockets, attempts, wants, linkLoop, inbox, rendezvous, punchPlan>>
reachVars == <<connVars, portVars, inboundVars, dialVars, punchVars>>

\* The parts a behaviour is not of start in one state.
NetworkInit ==
    /\ part \in Parts
    /\ ServerInit /\ InboundInit
    /\ TrackerInit /\ (part # "announces" => plan = CHOOSE p \in TrackerPlans : TRUE)
    /\ UdpInit /\ (part # "udp" => op = "scrape" /\ budget = DefaultUDPTimeout)
    /\ RoutingInit /\ (part # "routing" => file = {})
    /\ LookupInit
    /\ ConnInit /\ (part # "connections" => scenario = CHOOSE s \in MCScenarios : TRUE)
    /\ PortInit /\ (part # "ports" => portPlan = CHOOSE p \in MCPortPlans : TRUE)
    /\ Dialling!DialInit /\ (part # "dial" => dialPlan = CHOOSE p \in MCDialPlans : TRUE)
    /\ Punch!PunchInit /\ (part # "punch" => punchPlan = QuietPunch)

DiscoveryNext ==
    \/ part = "announces" /\ TrackerNext /\ UNCHANGED <<udpVars, routingVars, serverVars, lookupVars>>
    \/ part = "udp" /\ UdpNext /\ UNCHANGED <<trackerVars, routingVars, serverVars, lookupVars>>
    \/ part = "routing" /\ RoutingNext /\ UNCHANGED <<trackerVars, udpVars, serverVars, lookupVars>>
    \/ part = "server" /\ ServerNext /\ UNCHANGED <<trackerVars, udpVars, routingVars, lookupVars>>
    \/ part = "lookup" /\ LookupNext /\ UNCHANGED <<trackerVars, udpVars, routingVars, serverVars>>

ReachNext ==
    \/ part = "connections" /\ ConnNext /\ UNCHANGED <<portVars, inboundVars, dialVars, punchVars>>
    \/ part = "ports" /\ PortNext /\ UNCHANGED <<connVars, inboundVars, dialVars, punchVars>>
    \/ part = "inbound" /\ InboundNext /\ UNCHANGED <<connVars, portVars, dialVars, punchVars>>
    \/ part = "dial" /\ Dialling!DialNext /\ UNCHANGED <<connVars, portVars, inboundVars, punchVars>>
    \/ part = "punch" /\ Punch!PunchNext /\ UNCHANGED <<connVars, portVars, inboundVars, dialVars>>

NetworkNext ==
    \/ DiscoveryNext /\ UNCHANGED <<part, reachVars>>
    \/ ReachNext /\ UNCHANGED <<part, discoveryVars>>

NetworkSpec == NetworkInit /\ [][NetworkNext]_<<part, discoveryVars, reachVars>>

----------------------------------------------------------------------------
(* Properties: of each part what its module states, with its type           *)
(* invariant; the other parts do not move.                                   *)

\* A lookup is not steered by what the queried nodes claim (dht.go, lookup).
LookupsAreSound == part = "lookup" => LookupTypeOK /\ LookupSound

\* A dial closes every connection it does not use, encrypts where an end
\* requires it, and fails between compatible ends only for a fault
\* (peer_conn.go:741, encryption.go:32).
DialsEndWell ==
    part = "dial" =>
        /\ Dialling!DialTypeOK
        /\ Dialling!NoStrayConnection
        /\ Dialling!RequireIsEncrypted
        /\ Dialling!CompatibleEndsConnect

\* Two sessions that dial each other keep one connection, the same
\* (peer_admission.go:99); two ends a relay introduced are connected when
\* nothing is under way any more, and whatever goes wrong no dial is left
\* marked as running (holepunch.go:23, peer_conn.go:449).
EndsMeet ==
    /\ part = "connections" => CrossedOpenKeepsOne
    /\ part = "punch" =>
        /\ Punch!PunchTypeOK
        /\ Punch!IntroducedEndsMeet
        /\ Punch!NoDialIsForgotten
=============================================================================
