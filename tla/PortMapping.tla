------------------------------ MODULE PortMapping ------------------------------
(***************************************************************************)
(* The manager's TCP port: the listener all sessions share, the uTP socket *)
(* that turns callers away while it runs, the port mappings asked of the   *)
(* gateway, and the port every session announces.                          *)
(* (pkg/downloader/listener.go, nat.go, nat_upnp.go, nat_pmp.go)           *)
(*                                                                         *)
(* StartPeerListener checks and publishes under m.mu; Session.Start does   *)
(* not take m.mu, but the program starts its listener before it has any    *)
(* session (main.go:2197), so the two are one step here.  A request to the *)
(* gateway is one step with its outcome; its timeout is the loss of its    *)
(* answer.                                                                 *)
(***************************************************************************)
EXTENDS Naturals, FiniteSets

CONSTANTS
    Sessions,
    Listen,         \* the local port; the DHT uses the same number
    External,       \* external ports a gateway grants
    Tries,          \* the candidates of a UPnP request: the wanted port, then random ones (4)
    PortPlans       \* bound: [kinds, sessions, renew, refuse, lose, reboot, keep]

VARIABLES
    closed, listener, utp, sess, advertised, mapped,
    telling,        \* setAdvertisedPeerPort: sessions still to be told, and what
    nat,            \* the NAT loop
    gateway,        \* its mappings [proto, port], and whether it wants permanent leases
    astray,         \* history: mappings whose port the loop does not know
    undeleted,      \* history: mappings the gateway refused to delete
    lostByReboot,   \* history
    portPlan

ours == <<closed, listener, utp, sess, advertised, telling>>
theirs == <<mapped, nat, gateway, astray, undeleted, lostByReboot, portPlan>>
portVars == <<ours, theirs>>

None == 0

\* What the bounds of a behaviour are.
Bounds == [kinds : SUBSET {"upnp", "pmp"}, sessions : SUBSET Sessions,
           budget : [renew : Nat, refuse : Nat, lose : Nat, reboot : Nat, keep : Nat]]

ASSUME PortAssumption ==
    /\ None \notin External \cup {Listen}
    /\ PortPlans \subseteq Bounds

Protos == {"tcp", "udp"}
OffNAT == [at |-> "off", kind |-> "", tcp |-> None, udp |-> None, udpPort |-> FALSE,
           proto |-> "tcp", try |-> 0, udpMapped |-> FALSE, deleting |-> {}]
Absent == [in |-> FALSE, started |-> FALSE, shared |-> FALSE, port |-> None,
           pending |-> FALSE, announced |-> None]
Managed == {s \in Sessions : sess[s].in}
Spend(kind) == portPlan.budget[kind] > 0 /\ portPlan' = [portPlan EXCEPT !.budget[kind] = @ - 1]

PortInit ==
    /\ closed = FALSE /\ listener = FALSE /\ utp = "none"
    /\ sess = [s \in Sessions |-> Absent]
    /\ advertised = None /\ mapped = {} /\ telling = [port |-> None, left |-> {}]
    /\ nat = OffNAT /\ gateway = [mappings |-> {}, permanent |-> FALSE]
    /\ astray = {} /\ undeleted = {} /\ lostByReboot = {} /\ portPlan \in PortPlans

----------------------------------------------------------------------------
(* The listeners and the sessions *)

StartPeerListener ==
    /\ ~closed /\ ~listener /\ \A s \in Managed : ~sess[s].started
    /\ listener' = TRUE /\ advertised' = Listen
    /\ utp' = IF utp = "none" THEN utp ELSE "refusing"
    /\ sess' = [s \in Sessions |-> IF sess[s].in THEN [sess[s] EXCEPT !.shared = TRUE, !.port = Listen]
                                   ELSE sess[s]]
    /\ UNCHANGED <<closed, telling, theirs>>

StartDHT ==
    /\ ~closed /\ utp = "none"
    /\ utp' = IF listener THEN "refusing" ELSE "accepting"
    /\ UNCHANGED <<closed, listener, sess, advertised, telling, theirs>>

AddSession(s) ==
    /\ ~closed /\ s \in portPlan.sessions /\ ~sess[s].in
    /\ sess' = [sess EXCEPT ![s] = [Absent EXCEPT !.in = TRUE, !.shared = listener,
                                     !.port = IF listener THEN advertised ELSE None]]
    /\ UNCHANGED <<closed, listener, utp, advertised, telling, theirs>>

\* A session of its own listens on a port of its own and is left out from here on.
StartSession(s) ==
    /\ sess[s].in /\ ~sess[s].started
    /\ sess' = [sess EXCEPT ![s].started = TRUE, ![s].pending = TRUE]
    /\ UNCHANGED <<closed, listener, utp, advertised, telling, theirs>>

\* The tracker loop (module TrackerAnnounce) announces the port it finds.
AnnouncePort(s) ==
    /\ sess[s].in /\ sess[s].pending
    /\ sess' = [sess EXCEPT ![s].pending = FALSE, ![s].announced = sess[s].port]
    /\ UNCHANGED <<closed, listener, utp, advertised, telling, theirs>>

Close ==
    /\ ~closed /\ closed' = TRUE /\ listener' = FALSE /\ utp' = "none"
    /\ UNCHANGED <<sess, advertised, telling, theirs>>

CloseSessions ==
    /\ closed /\ Managed # {}
    /\ sess' = [s \in Sessions |-> Absent]
    /\ UNCHANGED <<closed, listener, utp, advertised, telling, theirs>>

----------------------------------------------------------------------------
(* The advertised port *)

\* Under m.mu: the port, and the sessions to tell once it is released.
setAdvertisedPeerPort(port) ==
    IF port = None \/ closed \/ advertised = port
    THEN UNCHANGED <<advertised, telling>>
    ELSE advertised' = port /\ telling' = [port |-> port, left |-> Managed]

withAdvertisedPort(s, port) ==
    [sess[s] EXCEPT !.port = port, !.pending = @ \/ (sess[s].started /\ sess[s].port # port)]

Tell(s) ==
    /\ s \in telling.left
    /\ telling' = [telling EXCEPT !.left = @ \ {s}]
    /\ sess' = [sess EXCEPT ![s] = IF sess[s].in THEN withAdvertisedPort(s, telling.port) ELSE sess[s]]
    /\ UNCHANGED <<closed, listener, utp, advertised, theirs>>

----------------------------------------------------------------------------
(* The NAT loop *)

StartNATTraversal ==
    /\ listener /\ ~closed /\ nat.at = "off"
    /\ nat' = [nat EXCEPT !.at = "discover", !.udpPort = utp # "none"]
    /\ UNCHANGED <<ours, mapped, gateway, astray, undeleted, lostByReboot, portPlan>>

Discover ==
    /\ nat.at = "discover"
    /\ \/ \E k \in portPlan.kinds : nat' = [nat EXCEPT !.at = "ask", !.kind = k, !.tcp = None, !.udp = None,
                                              !.proto = "tcp", !.try = 0]
          /\ ~closed
       \/ nat' = [nat EXCEPT !.at = "retry"]
    /\ mapped' = IF nat'.at = "retry" THEN {} ELSE mapped
    /\ UNCHANGED <<ours, gateway, astray, undeleted, lostByReboot, portPlan>>

\* waitForContext: the next try, or the end of the manager.
Retry ==
    /\ nat.at = "retry"
    /\ IF closed THEN nat' = [nat EXCEPT !.at = "done"] /\ UNCHANGED portPlan
       ELSE Spend("renew") /\ nat' = [nat EXCEPT !.at = "discover"]
    /\ UNCHANGED <<ours, mapped, gateway, astray, undeleted, lostByReboot>>

Known(proto) == nat[proto]
\* UDP is asked for on the external port peers are told.
preferred(proto) == IF proto = "udp" /\ nat.udp = None THEN nat.tcp ELSE Known(proto)
MappingOf(proto, port) == [proto |-> proto, port |-> port]
Forgotten(proto) == gateway.mappings \cap {MappingOf(proto, Known(proto))}

\* The ports one request may be made for.  A UPnP gateway maps the one it is
\* asked; a NAT-PMP gateway any.
Candidates(proto) ==
    IF nat.kind = "upnp" /\ nat.try = 0 /\ preferred(proto) # None THEN {preferred(proto)} ELSE External

\* A NAT-PMP gateway has one mapping for a protocol and an internal port.
MappedWith(proto, port) ==
    {x \in gateway.mappings : nat.kind = "upnp" \/ x.proto # proto} \cup {MappingOf(proto, port)}

\* AddPortMapping returned an error: fatal for TCP, the mapping is kept for UDP.
Failed(proto) ==
    IF proto = "tcp" THEN [nat EXCEPT !.at = "fail"] ELSE [nat EXCEPT !.at = "publish", !.udpMapped = FALSE]

AfterTry(proto) ==
    IF nat.kind = "upnp" /\ nat.try + 1 < Tries /\ ~closed THEN [nat EXCEPT !.try = @ + 1]
    ELSE Failed(proto)

Granted(proto, port) ==
    [nat EXCEPT ![proto] = port, !.try = 0, !.udpMapped = proto = "udp",
                !.proto = "udp", !.at = IF proto = "tcp" /\ nat.udpPort THEN "ask" ELSE "publish"]

\* The gateway maps the port.  When a renewal ends on another port, the loop
\* forgets the mapping it had.
Grant ==
    /\ nat.at = "ask"
    /\ \E port \in Candidates(nat.proto) :
          /\ gateway' = [gateway EXCEPT !.mappings = MappedWith(nat.proto, port)]
          /\ nat' = Granted(nat.proto, port)
          /\ astray' = (astray \cup Forgotten(nat.proto)) \ {MappingOf(nat.proto, port)}
          /\ undeleted' = undeleted \ {MappingOf(nat.proto, port)}
          /\ lostByReboot' = lostByReboot \ {MappingOf(nat.proto, port)}
    /\ UNCHANGED <<ours, mapped, portPlan>>

\* The gateway refuses: this port, or a timed lease, in which case the same
\* port is asked for again with a permanent one.
Refuse ==
    /\ nat.at = "ask" /\ Spend("refuse")
    /\ \/ nat' = AfterTry(nat.proto) /\ UNCHANGED gateway
       \/ /\ nat.kind = "upnp" /\ ~gateway.permanent /\ ~closed
          /\ gateway' = [gateway EXCEPT !.permanent = TRUE] /\ UNCHANGED nat
    /\ UNCHANGED <<ours, mapped, astray, undeleted, lostByReboot>>

\* The gateway maps the port and its answer is not awaited or lost.
LoseAnswer ==
    /\ nat.at = "ask" /\ Spend("lose")
    /\ \E port \in Candidates(nat.proto) :
          /\ gateway' = [gateway EXCEPT !.mappings = MappedWith(nat.proto, port)]
          /\ astray' = IF port = Known(nat.proto) THEN astray ELSE astray \cup {MappingOf(nat.proto, port)}
          /\ nat' = AfterTry(nat.proto)
    /\ UNCHANGED <<ours, mapped, undeleted, lostByReboot>>

\* The context is done before the request is made.
Cancelled ==
    /\ nat.at = "ask" /\ closed
    /\ nat' = Failed(nat.proto)
    /\ UNCHANGED <<ours, mapped, gateway, astray, undeleted, lostByReboot, portPlan>>

\* The end of mapPorts: the status, then the port.
Publish ==
    /\ nat.at = "publish"
    /\ mapped' = {"tcp"} \cup (IF nat.udpMapped THEN {"udp"} ELSE {})
    /\ nat' = [nat EXCEPT !.at = "advertise"]
    /\ UNCHANGED <<ours, gateway, astray, undeleted, lostByReboot, portPlan>>

Advertise ==
    /\ nat.at = "advertise" /\ telling.left = {}
    /\ setAdvertisedPeerPort(nat.tcp)
    /\ nat' = [nat EXCEPT !.at = "idle"]
    /\ UNCHANGED <<closed, listener, utp, sess, mapped, gateway, astray, undeleted, lostByReboot, portPlan>>

Renew ==
    /\ nat.at = "idle" /\ telling.left = {} /\ ~closed /\ Spend("renew")
    /\ nat' = [nat EXCEPT !.at = "ask", !.proto = "tcp", !.try = 0]
    /\ UNCHANGED <<ours, mapped, gateway, astray, undeleted, lostByReboot>>

\* A variant: the failed renewal leaves the external port advertised.
KeepsPort(port) == UNCHANGED <<advertised, telling>>
fallBack(port) == setAdvertisedPeerPort(port)

\* A failed request: recordNATFailure, the local port again, and the cleanup.
Fail ==
    /\ nat.at = "fail" /\ telling.left = {}
    /\ mapped' = {} /\ fallBack(Listen)
    /\ nat' = [nat EXCEPT !.at = "cleanup", !.deleting = {p \in Protos : Known(p) # None}]
    /\ UNCHANGED <<closed, listener, utp, sess, gateway, astray, undeleted, lostByReboot, portPlan>>

Stop ==
    /\ nat.at = "idle" /\ closed /\ telling.left = {}
    /\ nat' = [nat EXCEPT !.at = "cleanup", !.deleting = {p \in Protos : Known(p) # None}]
    /\ UNCHANGED <<ours, mapped, gateway, astray, undeleted, lostByReboot, portPlan>>

\* DeletePortMapping, TCP and UDP side by side: by port for UPnP, by protocol
\* for NAT-PMP.
Delete(proto) ==
    /\ nat.at = "cleanup" /\ telling.left = {} /\ proto \in nat.deleting
    /\ nat' = [nat EXCEPT !.deleting = @ \ {proto}]
    /\ LET gone == {x \in gateway.mappings : x.proto = proto /\ (nat.kind = "pmp" \/ x.port = Known(proto))}
       IN \/ gateway' = [gateway EXCEPT !.mappings = @ \ gone] /\ UNCHANGED <<undeleted, portPlan>>
          \/ Spend("keep") /\ undeleted' = undeleted \cup gone /\ UNCHANGED gateway
    /\ UNCHANGED <<ours, mapped, astray, lostByReboot>>

CleanedUp ==
    /\ nat.at = "cleanup" /\ telling.left = {} /\ nat.deleting = {}
    /\ mapped' = {} /\ nat' = [nat EXCEPT !.at = "retry", !.tcp = None, !.udp = None]
    /\ UNCHANGED <<ours, gateway, astray, undeleted, lostByReboot, portPlan>>

\* The gateway restarts and has forgotten every mapping.
Reboot ==
    /\ gateway.mappings # {} /\ Spend("reboot")
    /\ lostByReboot' = lostByReboot \cup gateway.mappings
    /\ gateway' = [gateway EXCEPT !.mappings = {}]
    /\ UNCHANGED <<ours, mapped, nat, astray, undeleted>>

PortNext ==
    \/ StartPeerListener \/ StartDHT \/ Close \/ CloseSessions
    \/ \E s \in Sessions : AddSession(s) \/ StartSession(s) \/ AnnouncePort(s) \/ Tell(s)
    \/ StartNATTraversal \/ Discover \/ Retry \/ Grant \/ Refuse \/ LoseAnswer \/ Cancelled
    \/ Publish \/ Advertise \/ Renew \/ Fail \/ Stop \/ CleanedUp \/ Reboot
    \/ \E p \in Protos : Delete(p)

PortSpec == PortInit /\ [][PortNext]_portVars

----------------------------------------------------------------------------
PortTypeOK ==
    /\ closed \in BOOLEAN /\ listener \in BOOLEAN /\ utp \in {"none", "refusing", "accepting"}
    /\ advertised \in External \cup {None, Listen}
    /\ telling.left \subseteq Sessions /\ mapped \subseteq Protos
    /\ nat.at \in {"off", "discover", "retry", "ask", "publish", "advertise", "idle", "fail", "cleanup", "done"}
    /\ gateway.mappings \subseteq [proto : Protos, port : External]

\* What is announced.  Once the sessions have been told, every session that
\* shares the listener has the manager's port, whether it was added before,
\* during or after a change, and a started one with no announce pending last
\* announced that port (listener.go:343, manager.go:341, session.go:1014); and
\* uTP turns callers away exactly while the listener runs (listener.go:19).
PeersAreToldThePort ==
    /\ telling.left = {} => \A s \in Managed : sess[s].shared /\ ~closed =>
          /\ sess[s].port = advertised
          /\ sess[s].started /\ ~sess[s].pending => sess[s].announced = advertised
    /\ utp = "refusing" => listener
    /\ utp = "accepting" => ~listener

\* Outside a round of requests the advertised port is the one the gateway maps
\* to the listener, or the listener's own when nothing is mapped; so peers are
\* never left dialling a mapping the loop has given up (nat.go:343, 354).
AdvertisedIsMapped ==
    ~closed /\ telling.left = {} =>
       /\ nat.at = "idle" => /\ advertised = nat.tcp /\ "tcp" \in mapped
                             /\ MappingOf("tcp", advertised) \in gateway.mappings \cup lostByReboot
       /\ nat.at \in {"discover", "retry", "cleanup"} => advertised = Listen /\ mapped = {}

\* When the loop has ended, the gateway holds no mapping of ours, but those it
\* refused to delete and those whose port the loop never learned or no longer
\* knew (nat.go:246).
MappingsAreReleased == nat.at = "done" => gateway.mappings \subseteq undeleted \cup astray

\* Peers are told the port the gateway maps, after every change, and the
\* mappings are released in the end (listener.go:343, nat.go:246).
PortsAreTrue ==
    /\ PortTypeOK
    /\ PeersAreToldThePort
    /\ AdvertisedIsMapped
    /\ MappingsAreReleased

==============================================================================
