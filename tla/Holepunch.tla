------------------------------ MODULE Holepunch ------------------------------
(***************************************************************************)
(* Peers introduced to each other: a session connected to two others tells *)
(* them of one another with PEX (BEP 11), and when a direct dial fails it  *)
(* relays a rendezvous so that both dial at once (BEP 55).  The two ends   *)
(* are behind NATs: no TCP dial reaches them, and a datagram only from an  *)
(* address they have sent to.  (pkg/downloader holepunch.go, pex.go,       *)
(* peer_conn.go; pkg/utp holepunch.go)                                     *)
(*                                                                         *)
(* Every session runs all of this code; here one plays the relay and the   *)
(* other two the ends, and entries[e] is what end e knows of the other.    *)
(* The torrent is not private (module PeerConnections has those rules, and *)
(* what becomes of a connection once its SYN is answered).  Messages to an *)
(* end form a set: some are written by goroutines of their own; the        *)
(* relay's extension handshake comes first, with the link.                 *)
(***************************************************************************)
EXTENDS Naturals, FiniteSets

CONSTANTS
    Ends,           \* two sessions behind NATs
    MaxHolepunch,   \* maxHolepunchPerInterval
    PunchPlans      \* bounds: transports of the links, sockets that refuse, a relay
                    \* that fetches metadata, whether time is kept, and how many troubles

VARIABLES
    links,      \* links[e]: e's connection to the relay, as both see it
    fetching,   \* the relay's metadataMode
    entries,    \* entries[e]: e's PeerState of the other end
    sockets,    \* sockets[e]: e's NAT lets the other in; e's socket expects it
    attempts,   \* attempts[e]: the goroutine of e that dials the other end
    wants,      \* ends about to ask for a holepunch
    loop,       \* loop[e]: what e's message loop of its link still has to do
    inbox,      \* inbox[e]: messages on their way from the relay to e
    rendezvous, \* ends whose rendezvous is on its way to the relay
    punchPlan

punchVars == <<links, fetching, entries, sockets, attempts, wants, loop, inbox, rendezvous, punchPlan>>

Other(e) == CHOOSE q \in Ends : q # e
Spend(trouble) == punchPlan.budget[trouble] > 0 /\ punchPlan' = [punchPlan EXCEPT !.budget[trouble] = @ - 1]

NewLink(v) == [up |-> TRUE, via |-> v, heard |-> FALSE, advertised |-> {},
               byRelay |-> 0, byEnd |-> 0]
NoEntry == [known |-> FALSE, active |-> FALSE, dialing |-> FALSE, last |-> "zero", relay |-> FALSE,
            asked |-> FALSE]
NoAttempt == [via |-> "direct", at |-> "none"]

PunchInit ==
    /\ punchPlan \in PunchPlans
    /\ links \in [Ends -> {NewLink(v) : v \in punchPlan.via}] /\ fetching = punchPlan.fetching
    /\ entries = [e \in Ends |-> NoEntry] /\ attempts = [e \in Ends |-> NoAttempt]
    /\ sockets = [e \in Ends |-> [open |-> FALSE, expects |-> FALSE]]
    /\ wants = {} /\ loop = [e \in Ends |-> "select"]
    /\ inbox = [e \in Ends |-> {}] /\ rendezvous = {}

----------------------------------------------------------------------------
(* The relay: the links it holds, and what it lists *)

\* liveConn.endpoint: the source address over uTP, the announced port over TCP.
endpointKnown(l) == l.via = "utp" \/ l.heard

pexSnapshot(ls, e) == IF fetching THEN {} ELSE {q \in Ends \ {e} : ls[q].up /\ endpointKnown(ls[q])}

\* buildPEXDelta: fewer ends than its limit.  The flags go out with the
\* address, once.
sendPEXDelta(ls, e) ==
    LET current == pexSnapshot(ls, e)
        added == current \ ls[e].advertised
        pex == [kind |-> "pex", added |-> added, punches |-> {q \in added : ls[q].heard}]
    IN IF fetching \/ current = ls[e].advertised THEN links' = ls /\ UNCHANGED inbox
       ELSE /\ links' = [ls EXCEPT ![e].advertised = current]
            /\ inbox' = [inbox EXCEPT ![e] = @ \cup {pex}]

\* The end's extension handshake: its IDs and listen port; PEX to it starts.
RelayHears(e) ==
    /\ links[e].up /\ ~links[e].heard
    /\ sendPEXDelta([links EXCEPT ![e].heard = TRUE], e)
    /\ UNCHANGED <<fetching, entries, sockets, attempts, wants, loop, rendezvous, punchPlan>>

\* pexTick
Tick(e) ==
    /\ links[e].up /\ links[e].heard /\ pexSnapshot(links, e) # links[e].advertised
    /\ sendPEXDelta(links, e)
    /\ UNCHANGED <<fetching, entries, sockets, attempts, wants, loop, rendezvous, punchPlan>>

MetadataArrives ==
    /\ fetching /\ fetching' = FALSE
    /\ UNCHANGED <<links, entries, sockets, attempts, wants, loop, inbox, rendezvous, punchPlan>>

findLiveConn(q) == links[q].up /\ endpointKnown(links[q])

\* relayHolepunch: a connect to each, or an error, which its receiver only
\* logs.  The limiter counts every message.
relayHolepunch(e) ==
    LET q == Other(e)
        acts == links[e].byRelay < MaxHolepunch
        introduces == acts /\ links[e].heard /\ findLiveConn(q) /\ links[q].heard
        connect == [kind |-> "connect", asker |-> e]
    IN /\ e \in rendezvous /\ links[e].up
       /\ rendezvous' = rendezvous \ {e}
       /\ links' = IF acts THEN [links EXCEPT ![e].byRelay = @ + 1] ELSE links
       /\ inbox' = IF introduces THEN [x \in Ends |-> inbox[x] \cup {connect}] ELSE inbox
       /\ UNCHANGED <<fetching, entries, sockets, attempts, wants, loop, punchPlan>>

\* The limiter's window, on both sides of a link.
WindowEnds(e) ==
    /\ Spend("windows") /\ links' = [links EXCEPT ![e].byRelay = 0, ![e].byEnd = 0]
    /\ UNCHANGED <<fetching, entries, sockets, attempts, wants, loop, inbox, rendezvous>>

LinkDrops(e) ==
    /\ links[e].up /\ Spend("drops")
    /\ links' = [links EXCEPT ![e].up = FALSE, ![e].heard = FALSE]
    /\ inbox' = [inbox EXCEPT ![e] = {}] /\ rendezvous' = rendezvous \ {e}
    /\ UNCHANGED <<fetching, entries, sockets, attempts, wants, loop>>

LinkUp(e) ==
    /\ ~links[e].up /\ loop[e] = "select"
    /\ \E v \in punchPlan.via : links' = [links EXCEPT ![e] = NewLink(v)]
    /\ UNCHANGED <<fetching, entries, sockets, attempts, wants, loop, inbox, rendezvous, punchPlan>>

----------------------------------------------------------------------------
(* An end: what its message loop hears *)

Reads(e, m) ==
    /\ loop[e] = "select" /\ m \in inbox[e]
    /\ inbox' = [inbox EXCEPT ![e] = @ \ {m}]

Dials(entry) == [entry EXCEPT !.known = TRUE, !.dialing = TRUE, !.last = "recent"]
Starts(e, via) == attempts' = [attempts EXCEPT ![e] = [via |-> via, at |-> "start"]]

\* handlePEXMessage: every address is dialled that may be, then the sender is
\* noted as a relay; addPeer and noteHolepunchRelays lock the session apart.
HandlePEX(e, m) ==
    LET entry == entries[e]
        idle == ~entry.active /\ ~entry.dialing /\ entry.last # "recent"
        dial == m.added # {} /\ idle
    IN /\ Reads(e, m) /\ m.kind = "pex"
       /\ entries' = IF dial THEN [entries EXCEPT ![e] = Dials(@)] ELSE entries
       /\ IF dial THEN Starts(e, "direct") ELSE UNCHANGED attempts
       /\ loop' = [loop EXCEPT ![e] = IF m.punches # {} THEN "note" ELSE "select"]
       /\ UNCHANGED <<links, fetching, sockets, wants, rendezvous, punchPlan>>

\* pexRateLimiter: too soon after the last one used.
PEXTooSoon(e, m) ==
    /\ Reads(e, m) /\ m.kind = "pex" /\ Spend("stalls")
    /\ UNCHANGED <<links, fetching, entries, sockets, attempts, wants, loop, rendezvous>>

noteHolepunchRelays(e) ==
    /\ loop[e] = "note" /\ loop' = [loop EXCEPT ![e] = "select"]
    /\ entries' = IF entries[e].known THEN [entries EXCEPT ![e].relay = TRUE] ELSE entries
    /\ UNCHANGED <<links, fetching, sockets, attempts, wants, inbox, rendezvous, punchPlan>>

\* holepunchConnect: note the relay, claim the dial; the socket expects the
\* other end before the dial starts.
holepunchConnect(e, m) ==
    LET acts == links[e].byEnd < MaxHolepunch
        entry == [entries[e] EXCEPT !.known = TRUE, !.relay = TRUE]
        dial == ~entry.dialing
    IN /\ Reads(e, m) /\ m.kind = "connect"
       /\ links' = IF acts THEN [links EXCEPT ![e].byEnd = @ + 1] ELSE links
       /\ IF acts /\ ~entry.active
          THEN /\ entries' = [entries EXCEPT ![e] = IF dial THEN Dials(entry) ELSE entry]
               /\ loop' = [loop EXCEPT ![e] = IF dial THEN "expectThenDial" ELSE "expect"]
          ELSE UNCHANGED <<entries, loop>>
       /\ UNCHANGED <<fetching, sockets, attempts, wants, rendezvous, punchPlan>>

ExpectIncoming(e) ==
    /\ loop[e] \in {"expect", "expectThenDial"} /\ loop' = [loop EXCEPT ![e] = "select"]
    /\ sockets' = [sockets EXCEPT ![e].expects = TRUE]
    /\ IF loop[e] = "expectThenDial" THEN Starts(e, "punch") ELSE UNCHANGED attempts
    /\ UNCHANGED <<links, fetching, entries, wants, inbox, rendezvous, punchPlan>>

\* holepunchExpectTTL
ExpectExpires(e) ==
    /\ sockets[e].expects /\ Spend("expiries")
    /\ sockets' = [sockets EXCEPT ![e].expects = FALSE]
    /\ UNCHANGED <<links, fetching, entries, attempts, wants, loop, inbox, rendezvous>>

----------------------------------------------------------------------------
(* An end: its dials (connectToPeerVia) *)

\* With a slot, a SYN goes out, which opens the end's own NAT.
TakeSlot(e) ==
    /\ attempts[e].at = "start" /\ attempts' = [attempts EXCEPT ![e].at = "dialing"]
    /\ sockets' = [sockets EXCEPT ![e].open = TRUE]
    /\ UNCHANGED <<links, fetching, entries, wants, loop, inbox, rendezvous, punchPlan>>

NoSlot(e) ==
    /\ attempts[e].at = "start" /\ Spend("slots")
    /\ attempts' = [attempts EXCEPT ![e].at = "slotless"]
    /\ UNCHANGED <<links, fetching, entries, sockets, wants, loop, inbox, rendezvous>>

refusesLocked(q) == q \in punchPlan.refuses /\ ~sockets[q].expects

Connected(entry) == [entry EXCEPT !.known = TRUE, !.active = TRUE]
SynAnswered(e) ==
    /\ attempts[e].at = "dialing" /\ sockets[Other(e)].open /\ ~refusesLocked(Other(e))
    /\ attempts' = [attempts EXCEPT ![e] = NoAttempt]
    /\ entries' = [x \in Ends |-> IF x = e THEN [Connected(entries[x]) EXCEPT !.dialing = FALSE]
                                  ELSE Connected(entries[x])]
    /\ UNCHANGED <<links, fetching, sockets, wants, loop, inbox, rendezvous, punchPlan>>

\* markPeerAttemptFailed
Fails(e) ==
    /\ attempts' = [attempts EXCEPT ![e].at = "failed"]
    /\ entries' = [entries EXCEPT ![e].last = "recent"]

\* A RESET ends the dial over uTP; a direct dial still waits for TCP.
SynReset(e) ==
    /\ attempts[e].at = "dialing" /\ sockets[Other(e)].open /\ refusesLocked(Other(e))
    /\ IF attempts[e].via = "punch" THEN Fails(e)
       ELSE attempts' = [attempts EXCEPT ![e].at = "reset"] /\ UNCHANGED entries
    /\ UNCHANGED <<links, fetching, sockets, wants, loop, inbox, rendezvous, punchPlan>>

\* "Deferred first so it runs last, once the cleanup has cleared Dialing."
AsksLast(step) == step = "cleanup"
AsksAt(e, step) == IF attempts[e].via = "direct" /\ AsksLast(step) THEN wants \cup {e} ELSE wants

\* In time: nobody answers, the loop that started the dial has gone on, and
\* the other end has long had the connect sent with ours (holepunchExpectTTL).
TimeIsUp(e) ==
    LET q == Other(e) IN
    /\ attempts[e].at = "reset" \/ ~sockets[q].open
    /\ loop[e] # "note"
    /\ attempts[e].via = "punch" =>
          /\ loop[q] = "select" /\ attempts[q].at # "start"
          /\ \A m \in inbox[q] : m.kind # "connect"

DialTimesOut(e) ==
    /\ attempts[e].at \in {"dialing", "reset"}
    /\ IF TimeIsUp(e) THEN UNCHANGED punchPlan ELSE Spend("losses")
    /\ Fails(e) /\ wants' = AsksAt(e, "failure")
    /\ UNCHANGED <<links, fetching, sockets, loop, inbox, rendezvous>>

\* Without a slot there was no attempt, and no relay is asked.
Cleanup(e) ==
    /\ attempts[e].at \in {"failed", "slotless"}
    /\ entries' = [entries EXCEPT ![e].dialing = FALSE,
                      ![e].last = IF attempts[e].at = "slotless" /\ ~entries[e].active THEN "zero" ELSE @]
    /\ wants' = IF attempts[e].at = "failed" THEN AsksAt(e, "cleanup") ELSE wants
    /\ attempts' = [attempts EXCEPT ![e] = NoAttempt]
    /\ UNCHANGED <<links, fetching, sockets, loop, inbox, rendezvous, punchPlan>>

requestHolepunch(e) ==
    LET asks == /\ ~entries[e].active /\ ~entries[e].asked /\ entries[e].relay
                /\ links[e].up
    IN /\ e \in wants /\ wants' = wants \ {e}
       /\ entries' = IF asks THEN [entries EXCEPT ![e].asked = TRUE] ELSE entries
       /\ rendezvous' = IF asks THEN rendezvous \cup {e} ELSE rendezvous
       /\ UNCHANGED <<links, fetching, sockets, attempts, loop, inbox, punchPlan>>

\* The redial backoff, and with it holepunchRetryInterval.
BackoffEnds(e) ==
    /\ entries[e].last = "recent" /\ ~entries[e].dialing /\ e \notin wants /\ Spend("backoffs")
    /\ entries' = [entries EXCEPT ![e].last = "old", ![e].asked = FALSE]
    /\ UNCHANGED <<links, fetching, sockets, attempts, wants, loop, inbox, rendezvous>>

maintainPeerConnections(e) ==
    /\ entries[e].known /\ ~entries[e].active /\ ~entries[e].dialing /\ entries[e].last # "recent"
    /\ entries' = [entries EXCEPT ![e] = Dials(@)] /\ Starts(e, "direct")
    /\ UNCHANGED <<links, fetching, sockets, wants, loop, inbox, rendezvous, punchPlan>>

PunchNext ==
    \/ MetadataArrives
    \/ \E e \in Ends :
        \/ RelayHears(e) \/ Tick(e) \/ relayHolepunch(e) \/ WindowEnds(e) \/ LinkDrops(e) \/ LinkUp(e)
        \/ noteHolepunchRelays(e) \/ ExpectIncoming(e) \/ ExpectExpires(e)
        \/ TakeSlot(e) \/ NoSlot(e) \/ SynAnswered(e) \/ SynReset(e) \/ DialTimesOut(e) \/ Cleanup(e)
        \/ requestHolepunch(e) \/ BackoffEnds(e) \/ maintainPeerConnections(e)
        \/ \E m \in inbox[e] : HandlePEX(e, m) \/ PEXTooSoon(e, m) \/ holepunchConnect(e, m)

PunchSpec == PunchInit /\ [][PunchNext]_punchVars

----------------------------------------------------------------------------
PunchTypeOK ==
    /\ \A e \in Ends :
        /\ links[e].byRelay <= MaxHolepunch /\ links[e].byEnd <= MaxHolepunch
        /\ links[e].advertised \subseteq Ends \ {e}
        /\ attempts[e].at \in {"none", "start", "dialing", "reset", "failed", "slotless"}
    /\ wants \subseteq Ends /\ rendezvous \subseteq Ends

AtRest ==
    /\ wants = {} /\ rendezvous = {}
    /\ \A e \in Ends : attempts[e].at = "none" /\ loop[e] = "select" /\ inbox[e] = {}

Calm == \A trouble \in DOMAIN punchPlan.budget : punchPlan.budget[trouble] = 0
NeverTroubled == punchPlan.calm /\ Calm

\* Two ends that a relay listed to each other as able to holepunch are
\* connected once everything under way is over, although neither can reach the
\* other and each refuses what it does not expect: in whatever order the
\* listings, the failures of the direct dials, the rendezvous of both ends and
\* the connects for each arrive (holepunch.go:23, peer_conn.go:452).
IntroducedEndsMeet ==
    NeverTroubled /\ AtRest /\ (\E e \in Ends : entries[e].relay) => \A e \in Ends : entries[e].active

\* Whatever goes wrong, no end is left marked as being dialled, so that
\* maintenance can dial it again, and a connection is up at both ends.
NoDialIsForgotten ==
    /\ \A e \in Ends : entries[e].dialing => attempts[e].at # "none" \/ loop[e] = "expectThenDial"
    /\ \A e, q \in Ends : entries[e].active = entries[q].active
=============================================================================
