------------------------ MODULE TorrentManager_proofs ------------------------
(***************************************************************************)
(* Theorems about TorrentManager, for any finite sets of torrents and      *)
(* calls, any paths, and any setups.                                       *)
(***************************************************************************)
EXTENDS TorrentManager, FiniteSetTheorems, TLAPS

-----------------------------------------------------------------------------
(* Who answers for a session.                                              *)

\* What a call of add knows about the session that carries its name.
AddInv == \A x \in Adder :
  /\ apc[x] = "claiming" => life[x] = "absent" /\ meta[x] = "file" /\ x \notin claimed
  /\ apc[x] = "building" => life[x] = "absent" /\ meta[x] = "file" /\ x \in claimed
  /\ apc[x] = "built" => life[x] = "live"
  /\ apc[x] \in {"built", "refused"} => meta[x] \in {"file", "waiting"}
  /\ apc[x] \in {"replacing", "refused"} <=> replaced[x] # None
  /\ apc[x] = "refused" => replaced[x] = x
  /\ life[x] # "absent" \/ apc[x] # "idle" => target[x] \in Torrent

\* Paths are claimed before storage is opened and released after it is closed.
StorageInv == \A x \in Adder :
  /\ x \in storage => /\ x \in claimed
                      /\ life[x] \in {"live", "dropped", "closing"}
                      /\ meta[x] \in {"file", "created", "done"}
  /\ meta[x] \in {"building", "created"} =>
       x \in claimed /\ life[x] \in {"live", "dropped", "closing"}
  /\ meta[x] = "waiting" => x \notin claimed
  /\ x \in claimed => life[x] # "absent" \/ apc[x] = "building"

Ending == {"dropped", "closing", "closed"}
RemovesSession(t) ==
  rsess[t] # None /\ rpc[t] \in {"closing", "reserving", "deleting", "releasing"}

\* A live session is registered, or about to be; one that ends is waited for by
\* exactly one call: the add that replaced it, a removal, or Close.
RegisteredInv == \A t \in Torrent :
  sessions[t] # None => /\ life[sessions[t]] = "live"
                        /\ target[sessions[t]] = t
                        /\ apc[sessions[t]] # "built"

ReplacedInv == \A x \in Adder :
  replaced[x] # None => /\ life[replaced[x]] \in Ending
                        /\ replaced[x] \notin collected
                        /\ \A y \in Adder : replaced[y] = replaced[x] => y = x

RemovedInv == \A t \in Torrent :
  RemovesSession(t) => /\ life[rsess[t]] \in Ending
                       /\ rpc[t] # "closing" => life[rsess[t]] = "closed"
                       /\ target[rsess[t]] = t
                       /\ rsess[t] \notin collected
                       /\ \A x \in Adder : replaced[x] # rsess[t]

CollectedInv ==
  /\ \A x \in collected : life[x] \in Ending
  /\ collected # {} => cpc = "closing"

AwaitedInv == \A x \in Adder :
  /\ life[x] = "live" => apc[x] = "built" \/ sessions[target[x]] = x
  /\ life[x] \in Ending => \/ \E y \in Adder : replaced[y] = x
                           \/ \E t \in Torrent : RemovesSession(t) /\ rsess[t] = x
                           \/ x \in collected

CloserInv == /\ RegisteredInv /\ ReplacedInv /\ RemovedInv
             /\ CollectedInv /\ AwaitedInv

\* Who has writeMu is in a save.
WriterInv ==
  /\ writeMu = None <=> phase = "none"
  /\ writeMu = "loop" => loopSaves
  /\ writeMu = "close" => cpc = "saving"
  /\ writeMu \in Torrent => rpc[writeMu] = "saving"

SessionInv == TypeOK /\ AddInv /\ StorageInv /\ CloserInv /\ WriterInv

-----------------------------------------------------------------------------
(* The first state, and what a step leaves alone.                          *)

\* What the assumption on setups says of the one chosen.
LEMMA SetupType ==
  ASSUME setup \in Setups
  PROVE  /\ setup.torrents \subseteq Torrent
         /\ setup.kinds \subseteq {"file", "waiting"}
         /\ setup.deletes \subseteq BOOLEAN
         /\ setup.persistent \in BOOLEAN
         /\ setup.unrestored \subseteq Torrent
         /\ setup.unrestored # {} => setup.persistent
  BY ManagerAssumption

\* None is neither a call nor a torrent.
LEMMA NoNone == None \notin Adder /\ None \notin Torrent
  BY ManagerAssumption

\* The types hold at the start.
LEMMA InitTypeOK == ManagerInit => TypeOK
<1> SUFFICES ASSUME ManagerInit PROVE TypeOK
  OBVIOUS
<1>1. MapTypeOK /\ SaveTypeOK
  BY SetupType DEF ManagerInit, MapTypeOK, SaveTypeOK
<1>2. PathTypeOK
  BY DEF ManagerInit, Own!Init, PathTypeOK
<1>3. AddTypeOK /\ SessionTypeOK
  BY DEF ManagerInit, AddTypeOK, SessionTypeOK
<1>4. RemoveTypeOK /\ CloseTypeOK
  BY DEF ManagerInit, RemoveTypeOK, CloseTypeOK
<1> QED
  BY <1>1, <1>2, <1>3, <1>4 DEF TypeOK

\* Nothing runs at the start, so nobody answers for anything.
LEMMA InitSessionInv == ManagerInit => SessionInv
<1> SUFFICES ASSUME ManagerInit PROVE SessionInv
  OBVIOUS
<1>1. AddInv /\ StorageInv
  BY DEF ManagerInit, AddInv, StorageInv
<1>2. CloserInv
  BY DEF ManagerInit, CloserInv, RegisteredInv, ReplacedInv, RemovedInv,
         CollectedInv, AwaitedInv, RemovesSession, Ending
<1>3. WriterInv
  BY ManagerAssumption DEF ManagerInit, WriterInv
<1> QED
  BY <1>1, <1>2, <1>3, InitTypeOK DEF SessionInv

\* A group of variables that a step leaves alone keeps its type.
LEMMA Frames ==
  ASSUME TypeOK
  PROVE  /\ UNCHANGED addVars => AddTypeOK'
         /\ UNCHANGED sessVars => SessionTypeOK'
         /\ UNCHANGED removeVars => RemoveTypeOK'
         /\ UNCHANGED pathVars => PathTypeOK'
         /\ UNCHANGED <<saveVars, cacheVars, requestVars>> => SaveTypeOK'
         /\ UNCHANGED mapVars => MapTypeOK'
         /\ UNCHANGED closeVars => CloseTypeOK'
<1>1. /\ UNCHANGED addVars => AddTypeOK'
      /\ UNCHANGED sessVars => SessionTypeOK'
      /\ UNCHANGED removeVars => RemoveTypeOK'
      /\ UNCHANGED pathVars => PathTypeOK'
  BY DEF TypeOK, addVars, AddTypeOK, sessVars, SessionTypeOK, removeVars,
         RemoveTypeOK, pathVars, PathTypeOK
<1>2. /\ UNCHANGED <<saveVars, cacheVars, requestVars>> => SaveTypeOK'
      /\ UNCHANGED mapVars => MapTypeOK'
      /\ UNCHANGED closeVars => CloseTypeOK'
  BY DEF TypeOK, saveVars, cacheVars, requestVars, SaveTypeOK, mapVars,
         MapTypeOK, closeVars, CloseTypeOK
<1> QED
  BY <1>1, <1>2

\* A claim and a release keep the counters natural numbers: a release checks
\* that there is something to release.
LEMMA ClaimTyping ==
  ASSUME TypeOK, NEW x \in Adder, target[x] \in Torrent, Claim(x)
  PROVE  PathTypeOK' /\ claimed' = claimed \cup {x}
  BY DEF Claim, Own!Claim, TypeOK, PathTypeOK

\* Giving the paths of a session back is idempotent, and takes that session
\* alone off the claims.
LEMMA ReleaseTyping ==
  ASSUME SessionInv, NEW x \in Adder, Release(x)
  PROVE  PathTypeOK' /\ claimed' = claimed \ {x}
<1>1. CASE x \notin claimed
  BY <1>1 DEF Release, pathVars, SessionInv, TypeOK, PathTypeOK
<1>2. CASE x \in claimed
  <2> DEFINE t == target[x]
             h(p) == IF p \in PathsOf[t] THEN [holders[p] EXCEPT ![t] = @ - 1]
                     ELSE holders[p]
  <2>1. t \in Torrent /\ holders \in [Path -> [Torrent -> Nat]]
    BY <1>2 DEF SessionInv, AddInv, StorageInv, TypeOK, PathTypeOK
  <2>2. /\ \A p \in PathsOf[t] : holders[p][t] > 0
        /\ holders' = [p \in Path |-> h(p)]
        /\ reserved' = reserved /\ claimed' = claimed \ {x}
    BY <1>2 DEF Release, Own!Release
  <2>3. ASSUME NEW p \in Path
        PROVE  h(p) \in [Torrent -> Nat]
    <3>1. holders[p] \in [Torrent -> Nat] /\ holders[p][t] \in Nat
      BY <2>1
    <3>2. CASE p \in PathsOf[t]
      <4>1. holders[p][t] - 1 \in Nat
        BY <3>1, <3>2, <2>2
      <4> QED
        BY <3>1, <3>2, <4>1
    <3> QED
      BY <3>1, <3>2
  <2> QED
    BY <2>2, <2>3 DEF SessionInv, TypeOK, PathTypeOK
<1> QED
  BY <1>1, <1>2

\* Most steps move no session and nobody who waits for one.
LEMMA SessionFrame ==
  ASSUME SessionInv, UNCHANGED <<addVars, sessVars, sessions, collected>>,
         cpc' = cpc \/ collected = {},
         \A t \in Torrent : RemovesSession(t)' <=> RemovesSession(t),
         \A t \in Torrent : RemovesSession(t) =>
           /\ rsess'[t] = rsess[t]
           /\ rpc'[t] = "closing" \/ rpc[t] # "closing" \/ life[rsess[t]] = "closed"
  PROVE  AddInv' /\ StorageInv' /\ CloserInv'
<1>1. AddInv' /\ StorageInv'
  BY DEF SessionInv, AddInv, StorageInv, addVars, sessVars
<1>2. RegisteredInv' /\ ReplacedInv'
  BY DEF SessionInv, CloserInv, RegisteredInv, ReplacedInv, addVars, sessVars
<1>3. RemovedInv'
  BY DEF SessionInv, CloserInv, RemovedInv, addVars, sessVars
<1>4. CollectedInv' /\ AwaitedInv'
  BY DEF SessionInv, CloserInv, CollectedInv, AwaitedInv, addVars, sessVars
<1> QED
  BY <1>1, <1>2, <1>3, <1>4 DEF CloserInv

-----------------------------------------------------------------------------
(* Adding.                                                                 *)

\* A call of add starts with no session, claim or storage.
LEMMA StartAddKeeps ==
  ASSUME SessionInv, NEW x \in Adder, NEW t \in Torrent,
         NEW kind \in setup.kinds, StartAdd(x, t, kind)
  PROVE  SessionInv'
<1>1. kind \in {"file", "waiting"}
  BY SetupType DEF SessionInv, TypeOK, CloseTypeOK
<1>2. TypeOK'
  BY <1>1, Frames DEF StartAdd, SessionInv, TypeOK, AddTypeOK, SessionTypeOK
<1>3. AddInv'
  BY <1>1  DEF StartAdd, SessionInv, TypeOK, AddTypeOK, SessionTypeOK, AddInv, StorageInv
<1>4. StorageInv'
  BY <1>1  DEF StartAdd, SessionInv, TypeOK, AddTypeOK, SessionTypeOK, AddInv, StorageInv
<1>5. RegisteredInv'
  BY <1>1 DEF StartAdd, SessionInv, TypeOK, AddTypeOK, SessionTypeOK, AddInv, CloserInv,
     RegisteredInv, MapTypeOK, mapVars
<1>6. ReplacedInv'
  BY <1>1 DEF StartAdd, SessionInv, TypeOK, AddTypeOK, SessionTypeOK, AddInv, CloserInv,
     RegisteredInv, ReplacedInv, CollectedInv, CloseTypeOK, closeVars, Ending
<1>7. RemovedInv'
  BY <1>1 DEF StartAdd, SessionInv, TypeOK, AddTypeOK, SessionTypeOK, AddInv, CloserInv,
     RegisteredInv, RemovedInv, CollectedInv, RemovesSession, RemoveTypeOK, CloseTypeOK,
     removeVars, closeVars, Ending
<1>8. CollectedInv'
  BY <1>1 DEF StartAdd, SessionInv, TypeOK, AddTypeOK, SessionTypeOK, AddInv, CloserInv,
     RegisteredInv, CollectedInv, CloseTypeOK, closeVars, Ending
<1>9. AwaitedInv'
  BY <1>1 DEF StartAdd, SessionInv, TypeOK, AddTypeOK, SessionTypeOK, AddInv, CloserInv,
     RegisteredInv, AwaitedInv, RemovesSession, removeVars, mapVars, closeVars, Ending
<1>10. WriterInv'
  BY DEF StartAdd, SessionInv, WriterInv, removeVars, saveVars, requestVars,
     closeVars
<1> QED
  BY <1>2, <1>3, <1>4, <1>5, <1>6, <1>7, <1>8, <1>9, <1>10
     DEF SessionInv, CloserInv

\* Only the add's own claim changes.
LEMMA ClaimPathsKeeps ==
  ASSUME SessionInv, NEW x \in Adder, ClaimPaths(x)
  PROVE  SessionInv'
<1>1. target[x] \in Torrent
  BY DEF ClaimPaths, SessionInv, AddInv
<1>2. TypeOK'
  BY <1>1, ClaimTyping, Frames DEF ClaimPaths, SessionInv, TypeOK, AddTypeOK, SessionTypeOK
<1>3. AddInv'
  BY <1>1, ClaimTyping DEF ClaimPaths, SessionInv, TypeOK, AddTypeOK, SessionTypeOK,
     AddInv, StorageInv
<1>4. StorageInv'
  BY <1>1, ClaimTyping DEF ClaimPaths, SessionInv, TypeOK, AddTypeOK, SessionTypeOK,
     AddInv, StorageInv
<1>5. RegisteredInv'
  BY <1>1, ClaimTyping DEF ClaimPaths, SessionInv, TypeOK, AddTypeOK, SessionTypeOK,
     AddInv, CloserInv, RegisteredInv, MapTypeOK, mapVars
<1>6. ReplacedInv'
  BY <1>1, ClaimTyping DEF ClaimPaths, SessionInv, TypeOK, AddTypeOK, SessionTypeOK,
     AddInv, CloserInv, RegisteredInv, ReplacedInv, CollectedInv, CloseTypeOK,
     closeVars, Ending
<1>7. RemovedInv'
  BY <1>1, ClaimTyping DEF ClaimPaths, SessionInv, TypeOK, AddTypeOK, SessionTypeOK,
     AddInv, CloserInv, RegisteredInv, RemovedInv, CollectedInv, RemovesSession,
     RemoveTypeOK, CloseTypeOK, removeVars, closeVars, Ending
<1>8. CollectedInv'
  BY <1>1, ClaimTyping DEF ClaimPaths, SessionInv, TypeOK, AddTypeOK, SessionTypeOK,
     AddInv, CloserInv, RegisteredInv, CollectedInv, CloseTypeOK, closeVars, Ending
<1>9. AwaitedInv'
  BY <1>1, ClaimTyping DEF ClaimPaths, SessionInv, TypeOK, AddTypeOK, SessionTypeOK,
     AddInv, CloserInv, RegisteredInv, AwaitedInv, RemovesSession, removeVars, mapVars,
     closeVars, Ending
<1>10. WriterInv'
  BY DEF ClaimPaths, SessionInv, WriterInv, removeVars, saveVars, requestVars,
     closeVars
<1> QED
  BY <1>2, <1>3, <1>4, <1>5, <1>6, <1>7, <1>8, <1>9, <1>10
     DEF SessionInv, CloserInv

\* Storage is opened under a claim; a failure gives the claim back.
LEMMA BuildStorageKeeps ==
  ASSUME SessionInv, NEW x \in Adder, BuildStorage(x)
  PROVE  SessionInv'
<1>2. TypeOK'
  BY ReleaseTyping, Frames DEF BuildStorage, SessionInv, TypeOK, AddTypeOK, SessionTypeOK
<1>3. AddInv'
  BY ReleaseTyping DEF BuildStorage, SessionInv, TypeOK, AddTypeOK, SessionTypeOK,
     AddInv, StorageInv
<1>4. StorageInv'
  BY ReleaseTyping DEF BuildStorage, SessionInv, TypeOK, AddTypeOK, SessionTypeOK,
     AddInv, StorageInv
<1>5. RegisteredInv'
  BY ReleaseTyping DEF BuildStorage, SessionInv, TypeOK, AddTypeOK, SessionTypeOK,
     AddInv, CloserInv, RegisteredInv, MapTypeOK, mapVars
<1>6. ReplacedInv'
  BY ReleaseTyping DEF BuildStorage, SessionInv, TypeOK, AddTypeOK, SessionTypeOK,
     AddInv, CloserInv, RegisteredInv, ReplacedInv, CollectedInv, CloseTypeOK,
     closeVars, Ending
<1>7. RemovedInv'
  BY ReleaseTyping DEF BuildStorage, SessionInv, TypeOK, AddTypeOK, SessionTypeOK,
     AddInv, CloserInv, RegisteredInv, RemovedInv, CollectedInv, RemovesSession,
     RemoveTypeOK, CloseTypeOK, removeVars, closeVars, Ending
<1>8. CollectedInv'
  BY ReleaseTyping DEF BuildStorage, SessionInv, TypeOK, AddTypeOK, SessionTypeOK,
     AddInv, CloserInv, RegisteredInv, CollectedInv, CloseTypeOK, closeVars, Ending
<1>9. AwaitedInv'
  BY ReleaseTyping DEF BuildStorage, SessionInv, TypeOK, AddTypeOK, SessionTypeOK,
     AddInv, CloserInv, RegisteredInv, AwaitedInv, RemovesSession, removeVars, mapVars,
     closeVars, Ending
<1>10. WriterInv'
  BY DEF BuildStorage, SessionInv, WriterInv, removeVars, saveVars, requestVars,
     closeVars
<1> QED
  BY <1>2, <1>3, <1>4, <1>5, <1>6, <1>7, <1>8, <1>9, <1>10
     DEF SessionInv, CloserInv

\* The session it replaces leaves the map, and waits for this call from here
\* on.
LEMMA RegisterKeeps ==
  ASSUME SessionInv, NEW x \in Adder, Register(x)
  PROVE  SessionInv'
<1> DEFINE t == target[x]
           old == sessions[t]
<1>1. /\ t \in Torrent /\ old \in Adder \cup {None} /\ old # x
      /\ old # None => old \in Adder /\ life[old] = "live" /\ apc[old] # "built"
      /\ apc[x] = "built" /\ life[x] = "live" /\ replaced[x] = None
  BY NoNone DEF Register, SessionInv, AddInv, CloserInv, RegisteredInv, TypeOK,
     MapTypeOK, AddTypeOK
<1>a. /\ sessions' = [sessions EXCEPT ![t] = x]
      /\ replaced' = [replaced EXCEPT ![x] = old]
      /\ apc' = [apc EXCEPT ![x] = IF old = None THEN "caching" ELSE "replacing"]
      /\ life' = IF old = None THEN life ELSE [life EXCEPT ![old] = "dropped"]
  BY DEF Register, Replaced
<1>2. TypeOK'
  BY <1>1, <1>a, Frames DEF Register, Replaced, SessionInv, TypeOK, AddTypeOK,
     SessionTypeOK, MapTypeOK
<1>3. AddInv'
  BY NoNone, <1>1, <1>a DEF Register, Replaced, SessionInv, TypeOK, AddTypeOK,
     SessionTypeOK, AddInv, StorageInv
<1>4. StorageInv'
  BY NoNone, <1>1, <1>a DEF Register, Replaced, SessionInv, TypeOK, AddTypeOK,
     SessionTypeOK, AddInv, StorageInv
<1>5. RegisteredInv'
  BY NoNone, <1>1, <1>a DEF Register, Replaced, SessionInv, TypeOK, AddTypeOK,
     SessionTypeOK, AddInv, CloserInv, RegisteredInv, MapTypeOK, mapVars
<1>6. ReplacedInv'
  BY NoNone, <1>1, <1>a DEF Register, Replaced, SessionInv, TypeOK, AddTypeOK,
     SessionTypeOK, AddInv, CloserInv, RegisteredInv, ReplacedInv, CollectedInv,
     CloseTypeOK, closeVars, Ending
<1>7. RemovedInv'
  BY NoNone, <1>1, <1>a DEF Register, Replaced, SessionInv, TypeOK, AddTypeOK,
     SessionTypeOK, AddInv, CloserInv, RegisteredInv, RemovedInv, CollectedInv,
     RemovesSession, RemoveTypeOK, CloseTypeOK, removeVars, closeVars, Ending
<1>8. CollectedInv'
  BY NoNone, <1>1, <1>a DEF Register, Replaced, SessionInv, TypeOK, AddTypeOK,
     SessionTypeOK, AddInv, CloserInv, RegisteredInv, CollectedInv, CloseTypeOK,
     closeVars, Ending
<1>9. AwaitedInv'
  <2>0. /\ target' = target /\ rsess' = rsess /\ collected' = collected
        /\ \A u \in Torrent : RemovesSession(u)' <=> RemovesSession(u)
    BY DEF Register, RemovesSession, removeVars, closeVars
  <2> SUFFICES ASSUME NEW y \in Adder
               PROVE  /\ life'[y] = "live" => apc'[y] = "built" \/ sessions'[target[y]] = y
                      /\ life'[y] \in Ending => \/ \E z \in Adder : replaced'[z] = y
                                                \/ \E u \in Torrent : RemovesSession(u) /\ rsess[u] = y
                                                \/ y \in collected
    BY <2>0 DEF AwaitedInv
  <2>1. /\ life[y] = "live" => apc[y] = "built" \/ sessions[target[y]] = y
        /\ life[y] \in Ending => \/ \E z \in Adder \ {x} : replaced[z] = y
                                 \/ \E u \in Torrent : RemovesSession(u) /\ rsess[u] = y
                                 \/ y \in collected
    BY <1>1, NoNone DEF SessionInv, CloserInv, AwaitedInv
  <2>2. CASE y = x
    BY <2>2, <1>1, <1>a DEF SessionInv, TypeOK, MapTypeOK, SessionTypeOK, Ending
  <2>3. CASE y = old
    BY <2>3, <1>1, <1>a, NoNone DEF SessionInv, TypeOK, AddTypeOK, SessionTypeOK
  <2>4. CASE y # x /\ y # old
    BY <2>1, <2>4, <1>1, <1>a DEF SessionInv, TypeOK, MapTypeOK, AddTypeOK, SessionTypeOK
  <2> QED
    BY <2>2, <2>3, <2>4
<1>10. WriterInv'
  BY DEF Register, SessionInv, WriterInv, removeVars, saveVars, requestVars,
     closeVars
<1> QED
  BY <1>2, <1>3, <1>4, <1>5, <1>6, <1>7, <1>8, <1>9, <1>10
     DEF SessionInv, CloserInv

\* A refused add has itself to end and nobody else.
LEMMA RefusedKeeps ==
  ASSUME SessionInv, NEW x \in Adder, Refused(x)
  PROVE  SessionInv'
<1>1. /\ apc[x] = "built" /\ life[x] = "live" /\ replaced[x] = None
      /\ \A t \in Torrent : sessions[t] # x
  BY NoNone DEF Refused, SessionInv, AddInv, CloserInv, RegisteredInv, TypeOK,
     MapTypeOK, AddTypeOK
<1>2. TypeOK'
  BY Frames DEF Refused, SessionInv, TypeOK, AddTypeOK, SessionTypeOK
<1>3. AddInv'
  BY NoNone, <1>1 DEF Refused, SessionInv, TypeOK, AddTypeOK, SessionTypeOK, AddInv, StorageInv
<1>4. StorageInv'
  BY NoNone, <1>1 DEF Refused, SessionInv, TypeOK, AddTypeOK, SessionTypeOK, AddInv, StorageInv
<1>5. RegisteredInv'
  BY NoNone, <1>1 DEF Refused, SessionInv, TypeOK, AddTypeOK, SessionTypeOK, AddInv,
     CloserInv, RegisteredInv, MapTypeOK, mapVars
<1>6. ReplacedInv'
  BY NoNone, <1>1 DEF Refused, SessionInv, TypeOK, AddTypeOK, SessionTypeOK, AddInv,
     CloserInv, RegisteredInv, ReplacedInv, CollectedInv, CloseTypeOK, closeVars, Ending
<1>7. RemovedInv'
  BY NoNone, <1>1 DEF Refused, SessionInv, TypeOK, AddTypeOK, SessionTypeOK, AddInv,
     CloserInv, RegisteredInv, RemovedInv, CollectedInv, RemovesSession, RemoveTypeOK,
     CloseTypeOK, removeVars, closeVars, Ending
<1>8. CollectedInv'
  BY NoNone, <1>1 DEF Refused, SessionInv, TypeOK, AddTypeOK, SessionTypeOK, AddInv,
     CloserInv, RegisteredInv, CollectedInv, CloseTypeOK, closeVars, Ending
<1>9. AwaitedInv'
  BY NoNone, <1>1 DEF Refused, SessionInv, TypeOK, AddTypeOK, SessionTypeOK, AddInv,
     CloserInv, RegisteredInv, AwaitedInv, RemovesSession, removeVars, mapVars,
     closeVars, Ending
<1>10. WriterInv'
  BY DEF Refused, SessionInv, WriterInv, removeVars, saveVars, requestVars,
     closeVars
<1> QED
  BY <1>2, <1>3, <1>4, <1>5, <1>6, <1>7, <1>8, <1>9, <1>10
     DEF SessionInv, CloserInv

\* Forgetting a closed session.
LEMMA ForgetEffect ==
  ASSUME SessionInv, NEW y \in Adder, life[y] = "closed", Forget(y)
  PROVE  /\ PathTypeOK'
         /\ claimed' = claimed \ {y}
         /\ life' = [life EXCEPT ![y] = "absent"]
         /\ y \notin storage
  BY ReleaseTyping DEF Forget, SessionInv, StorageInv, TypeOK, SessionTypeOK

\* The replaced session is closed, and this call was the only one waiting for
\* it.
LEMMA ReleaseReplacedKeeps ==
  ASSUME SessionInv, NEW x \in Adder, ReleaseReplaced(x)
  PROVE  SessionInv'
<1> DEFINE y == replaced[x]
<1>1. /\ y \in Adder /\ life[y] = "closed"
      /\ apc[x] = "refused" => x = y
      /\ y \notin collected
      /\ \A z \in Adder : replaced[z] = y => z = x
      /\ \A t \in Torrent : sessions[t] # y
      /\ \A t \in Torrent : RemovesSession(t) => rsess[t] # y
  BY NoNone DEF ReleaseReplaced, IsClosed, SessionInv, AddInv, CloserInv,
     RegisteredInv, ReplacedInv, RemovedInv, TypeOK, AddTypeOK, MapTypeOK
<1>a. /\ PathTypeOK' /\ claimed' = claimed \ {y} /\ y \notin storage
      /\ life' = [life EXCEPT ![y] = "absent"]
      /\ replaced' = [replaced EXCEPT ![x] = None]
      /\ apc' = [apc EXCEPT ![x] = IF apc[x] = "refused" THEN "idle" ELSE "caching"]
  BY <1>1, ForgetEffect DEF ReleaseReplaced
<1>2. TypeOK'
  BY <1>1, <1>a, Frames DEF ReleaseReplaced, SessionInv, TypeOK, AddTypeOK, SessionTypeOK
<1>3. AddInv'
  BY NoNone, <1>1, <1>a DEF ReleaseReplaced, SessionInv, TypeOK, AddTypeOK,
     SessionTypeOK, AddInv, StorageInv
<1>4. StorageInv'
  BY NoNone, <1>1, <1>a DEF ReleaseReplaced, SessionInv, TypeOK, AddTypeOK,
     SessionTypeOK, AddInv, StorageInv
<1>5. RegisteredInv'
  BY NoNone, <1>1, <1>a DEF ReleaseReplaced, SessionInv, TypeOK, AddTypeOK,
     SessionTypeOK, AddInv, CloserInv, RegisteredInv, MapTypeOK, mapVars
<1>6. ReplacedInv'
  BY NoNone, <1>1, <1>a DEF ReleaseReplaced, SessionInv, TypeOK, AddTypeOK,
     SessionTypeOK, AddInv, CloserInv, RegisteredInv, ReplacedInv, CollectedInv,
     CloseTypeOK, closeVars, Ending
<1>7. RemovedInv'
  BY NoNone, <1>1, <1>a DEF ReleaseReplaced, SessionInv, TypeOK, AddTypeOK,
     SessionTypeOK, AddInv, CloserInv, RegisteredInv, RemovedInv, CollectedInv,
     RemovesSession, RemoveTypeOK, CloseTypeOK, removeVars, closeVars, Ending
<1>8. CollectedInv'
  BY NoNone, <1>1, <1>a DEF ReleaseReplaced, SessionInv, TypeOK, AddTypeOK,
     SessionTypeOK, AddInv, CloserInv, RegisteredInv, CollectedInv, CloseTypeOK,
     closeVars, Ending
<1>9. AwaitedInv'
  BY NoNone, <1>1, <1>a DEF ReleaseReplaced, SessionInv, TypeOK, AddTypeOK,
     SessionTypeOK, AddInv, CloserInv, RegisteredInv, AwaitedInv, RemovesSession,
     removeVars, mapVars, closeVars, Ending
<1>10. WriterInv'
  BY DEF ReleaseReplaced, SessionInv, WriterInv, removeVars, saveVars, requestVars,
     closeVars
<1> QED
  BY <1>2, <1>3, <1>4, <1>5, <1>6, <1>7, <1>8, <1>9, <1>10
     DEF SessionInv, CloserInv

\* Copies of torrent files concern no session.
LEMMA CacheTorrentKeeps ==
  ASSUME SessionInv, NEW x \in Adder, CacheTorrent(x)
  PROVE  SessionInv'
<1>2. TypeOK'
  <2>1. target[x] \in Torrent
    BY DEF CacheTorrent, SessionInv, AddInv
  <2>2. SaveTypeOK'
    BY <2>1 DEF CacheTorrent, SessionInv, TypeOK, SaveTypeOK, saveVars, cacheVars,
       requestVars
  <2>3. AddTypeOK'
    BY DEF CacheTorrent, SessionInv, TypeOK, AddTypeOK
  <2> QED
    BY <2>2, <2>3, Frames DEF CacheTorrent, SessionInv, TypeOK
<1>3. AddInv'
  BY DEF CacheTorrent, cacheVars, sessVars, SessionInv, TypeOK, AddTypeOK,
     SessionTypeOK, AddInv, StorageInv
<1>4. StorageInv'
  BY DEF CacheTorrent, cacheVars, sessVars, SessionInv, TypeOK, AddTypeOK,
     SessionTypeOK, AddInv, StorageInv
<1>5. RegisteredInv'
  BY DEF CacheTorrent, cacheVars, sessVars, SessionInv, TypeOK, AddTypeOK,
     SessionTypeOK, AddInv, CloserInv, RegisteredInv, MapTypeOK, mapVars
<1>6. ReplacedInv'
  BY DEF CacheTorrent, cacheVars, sessVars, SessionInv, TypeOK, AddTypeOK,
     SessionTypeOK, AddInv, CloserInv, RegisteredInv, ReplacedInv, CollectedInv,
     CloseTypeOK, closeVars, Ending
<1>7. RemovedInv'
  BY DEF CacheTorrent, cacheVars, sessVars, SessionInv, TypeOK, AddTypeOK,
     SessionTypeOK, AddInv, CloserInv, RegisteredInv, RemovedInv, CollectedInv,
     RemovesSession, RemoveTypeOK, CloseTypeOK, removeVars, closeVars, Ending
<1>8. CollectedInv'
  BY DEF CacheTorrent, cacheVars, sessVars, SessionInv, TypeOK, AddTypeOK,
     SessionTypeOK, AddInv, CloserInv, RegisteredInv, CollectedInv, CloseTypeOK,
     closeVars, Ending
<1>9. AwaitedInv'
  BY DEF CacheTorrent, cacheVars, sessVars, SessionInv, TypeOK, AddTypeOK,
     SessionTypeOK, AddInv, CloserInv, RegisteredInv, AwaitedInv, RemovesSession,
     removeVars, mapVars, closeVars, Ending
<1>10. WriterInv'
  BY DEF CacheTorrent, SessionInv, WriterInv, removeVars, saveVars, requestVars,
     closeVars
<1> QED
  BY <1>2, <1>3, <1>4, <1>5, <1>6, <1>7, <1>8, <1>9, <1>10
     DEF SessionInv, CloserInv

\* A request for a save is one token.
LEMMA RequestTyping ==
  ASSUME SessionInv, RequestSaveState
  PROVE  saveStateCh' \in BOOLEAN
<1>1. setup.persistent \in BOOLEAN /\ saveStateCh \in BOOLEAN
  BY SetupType DEF SessionInv, TypeOK, CloseTypeOK, SaveTypeOK
<1> QED
  BY <1>1 DEF RequestSaveState, closed

\* The call has no replaced session left to wait for.
LEMMA EndAddKeeps ==
  ASSUME SessionInv, NEW x \in Adder, EndAdd(x)
  PROVE  SessionInv'
<1>2. TypeOK'
  <2>1. SaveTypeOK'
    BY RequestTyping DEF EndAdd, SessionInv, TypeOK, SaveTypeOK, saveVars, cacheVars
  <2>2. AddTypeOK'
    BY DEF EndAdd, SessionInv, TypeOK, AddTypeOK
  <2> QED
    BY <2>1, <2>2, Frames DEF EndAdd, SessionInv, TypeOK
<1>3. AddInv'
  BY DEF EndAdd, sessVars, SessionInv, TypeOK, AddTypeOK, SessionTypeOK, AddInv, StorageInv
<1>4. StorageInv'
  BY DEF EndAdd, sessVars, SessionInv, TypeOK, AddTypeOK, SessionTypeOK, AddInv, StorageInv
<1>5. RegisteredInv'
  BY DEF EndAdd, sessVars, SessionInv, TypeOK, AddTypeOK, SessionTypeOK, AddInv,
     CloserInv, RegisteredInv, MapTypeOK, mapVars
<1>6. ReplacedInv'
  BY DEF EndAdd, sessVars, SessionInv, TypeOK, AddTypeOK, SessionTypeOK, AddInv,
     CloserInv, RegisteredInv, ReplacedInv, CollectedInv, CloseTypeOK, closeVars, Ending
<1>7. RemovedInv'
  BY DEF EndAdd, sessVars, SessionInv, TypeOK, AddTypeOK, SessionTypeOK, AddInv,
     CloserInv, RegisteredInv, RemovedInv, CollectedInv, RemovesSession, RemoveTypeOK,
     CloseTypeOK, removeVars, closeVars, Ending
<1>8. CollectedInv'
  BY DEF EndAdd, sessVars, SessionInv, TypeOK, AddTypeOK, SessionTypeOK, AddInv,
     CloserInv, RegisteredInv, CollectedInv, CloseTypeOK, closeVars, Ending
<1>9. AwaitedInv'
  BY DEF EndAdd, sessVars, SessionInv, TypeOK, AddTypeOK, SessionTypeOK, AddInv,
     CloserInv, RegisteredInv, AwaitedInv, RemovesSession, removeVars, mapVars,
     closeVars, Ending
<1>10. WriterInv'
  BY DEF EndAdd, SessionInv, WriterInv, removeVars, saveVars, requestVars,
     closeVars
<1> QED
  BY <1>2, <1>3, <1>4, <1>5, <1>6, <1>7, <1>8, <1>9, <1>10
     DEF SessionInv, CloserInv

-----------------------------------------------------------------------------
(* A session.                                                              *)

\* A session that begins to close was already out of the map.
LEMMA BeginCloseKeeps ==
  ASSUME SessionInv, NEW x \in Adder, BeginClose(x)
  PROVE  SessionInv'
<1>2. TypeOK'
  BY Frames DEF BeginClose, addVars, SessionInv, TypeOK, AddTypeOK, SessionTypeOK
<1>3. AddInv'
  BY DEF BeginClose, addVars, SessionInv, TypeOK, AddTypeOK, SessionTypeOK, AddInv, StorageInv
<1>4. StorageInv'
  BY DEF BeginClose, addVars, SessionInv, TypeOK, AddTypeOK, SessionTypeOK, AddInv, StorageInv
<1>5. RegisteredInv'
  BY DEF BeginClose, addVars, SessionInv, TypeOK, AddTypeOK, SessionTypeOK, AddInv,
     CloserInv, RegisteredInv, MapTypeOK, mapVars
<1>6. ReplacedInv'
  BY DEF BeginClose, addVars, SessionInv, TypeOK, AddTypeOK, SessionTypeOK, AddInv,
     CloserInv, RegisteredInv, ReplacedInv, CollectedInv, CloseTypeOK, closeVars, Ending
<1>7. RemovedInv'
  BY DEF BeginClose, addVars, SessionInv, TypeOK, AddTypeOK, SessionTypeOK, AddInv,
     CloserInv, RegisteredInv, RemovedInv, CollectedInv, RemovesSession, RemoveTypeOK,
     CloseTypeOK, removeVars, closeVars, Ending
<1>8. CollectedInv'
  BY DEF BeginClose, addVars, SessionInv, TypeOK, AddTypeOK, SessionTypeOK, AddInv,
     CloserInv, RegisteredInv, CollectedInv, CloseTypeOK, closeVars, Ending
<1>9. AwaitedInv'
  BY DEF BeginClose, addVars, SessionInv, TypeOK, AddTypeOK, SessionTypeOK, AddInv,
     CloserInv, RegisteredInv, AwaitedInv, RemovesSession, removeVars, mapVars,
     closeVars, Ending
<1>10. WriterInv'
  BY DEF BeginClose, SessionInv, WriterInv, removeVars, saveVars, requestVars,
     closeVars
<1> QED
  BY <1>2, <1>3, <1>4, <1>5, <1>6, <1>7, <1>8, <1>9, <1>10
     DEF SessionInv, CloserInv

\* Closing closes the storage, once the metadata goroutine has ended.
LEMMA FinishCloseKeeps ==
  ASSUME SessionInv, NEW x \in Adder, FinishClose(x)
  PROVE  SessionInv'
<1>2. TypeOK'
  BY Frames DEF FinishClose, addVars, MetadataSettled, KnowsFiles, SessionInv, TypeOK,
     AddTypeOK, SessionTypeOK
<1>3. AddInv'
  BY DEF FinishClose, addVars, MetadataSettled, KnowsFiles, SessionInv, TypeOK,
     AddTypeOK, SessionTypeOK, AddInv, StorageInv
<1>4. StorageInv'
  BY DEF FinishClose, addVars, MetadataSettled, KnowsFiles, SessionInv, TypeOK,
     AddTypeOK, SessionTypeOK, AddInv, StorageInv
<1>5. RegisteredInv'
  BY DEF FinishClose, addVars, MetadataSettled, KnowsFiles, SessionInv, TypeOK,
     AddTypeOK, SessionTypeOK, AddInv, CloserInv, RegisteredInv, MapTypeOK, mapVars
<1>6. ReplacedInv'
  BY DEF FinishClose, addVars, MetadataSettled, KnowsFiles, SessionInv, TypeOK,
     AddTypeOK, SessionTypeOK, AddInv, CloserInv, RegisteredInv, ReplacedInv,
     CollectedInv, CloseTypeOK, closeVars, Ending
<1>7. RemovedInv'
  BY DEF FinishClose, addVars, MetadataSettled, KnowsFiles, SessionInv, TypeOK,
     AddTypeOK, SessionTypeOK, AddInv, CloserInv, RegisteredInv, RemovedInv,
     CollectedInv, RemovesSession, RemoveTypeOK, CloseTypeOK, removeVars, closeVars,
     Ending
<1>8. CollectedInv'
  BY DEF FinishClose, addVars, MetadataSettled, KnowsFiles, SessionInv, TypeOK,
     AddTypeOK, SessionTypeOK, AddInv, CloserInv, RegisteredInv, CollectedInv,
     CloseTypeOK, closeVars, Ending
<1>9. AwaitedInv'
  BY DEF FinishClose, addVars, MetadataSettled, KnowsFiles, SessionInv, TypeOK,
     AddTypeOK, SessionTypeOK, AddInv, CloserInv, RegisteredInv, AwaitedInv,
     RemovesSession, removeVars, mapVars, closeVars, Ending
<1>10. WriterInv'
  BY DEF FinishClose, SessionInv, WriterInv, removeVars, saveVars, requestVars,
     closeVars
<1> QED
  BY <1>2, <1>3, <1>4, <1>5, <1>6, <1>7, <1>8, <1>9, <1>10
     DEF SessionInv, CloserInv

\* Metadata claims its paths before it builds.
LEMMA ClaimForMetadataKeeps ==
  ASSUME SessionInv, NEW x \in Adder, ClaimForMetadata(x)
  PROVE  SessionInv'
<1>1. target[x] \in Torrent
  BY DEF ClaimForMetadata, SessionInv, AddInv
<1>2. TypeOK'
  BY <1>1, ClaimTyping, Frames DEF ClaimForMetadata, addVars, Started, SessionInv,
     TypeOK, AddTypeOK, SessionTypeOK
<1>3. AddInv'
  BY <1>1, ClaimTyping DEF ClaimForMetadata, addVars, Started, SessionInv, TypeOK,
     AddTypeOK, SessionTypeOK, AddInv, StorageInv
<1>4. StorageInv'
  BY <1>1, ClaimTyping DEF ClaimForMetadata, addVars, Started, SessionInv, TypeOK,
     AddTypeOK, SessionTypeOK, AddInv, StorageInv
<1>5. RegisteredInv'
  BY <1>1, ClaimTyping DEF ClaimForMetadata, addVars, Started, SessionInv, TypeOK,
     AddTypeOK, SessionTypeOK, AddInv, CloserInv, RegisteredInv, MapTypeOK, mapVars
<1>6. ReplacedInv'
  BY <1>1, ClaimTyping DEF ClaimForMetadata, addVars, Started, SessionInv, TypeOK,
     AddTypeOK, SessionTypeOK, AddInv, CloserInv, RegisteredInv, ReplacedInv,
     CollectedInv, CloseTypeOK, closeVars, Ending
<1>7. RemovedInv'
  BY <1>1, ClaimTyping DEF ClaimForMetadata, addVars, Started, SessionInv, TypeOK,
     AddTypeOK, SessionTypeOK, AddInv, CloserInv, RegisteredInv, RemovedInv,
     CollectedInv, RemovesSession, RemoveTypeOK, CloseTypeOK, removeVars, closeVars,
     Ending
<1>8. CollectedInv'
  BY <1>1, ClaimTyping DEF ClaimForMetadata, addVars, Started, SessionInv, TypeOK,
     AddTypeOK, SessionTypeOK, AddInv, CloserInv, RegisteredInv, CollectedInv,
     CloseTypeOK, closeVars, Ending
<1>9. AwaitedInv'
  BY <1>1, ClaimTyping DEF ClaimForMetadata, addVars, Started, SessionInv, TypeOK,
     AddTypeOK, SessionTypeOK, AddInv, CloserInv, RegisteredInv, AwaitedInv,
     RemovesSession, removeVars, mapVars, closeVars, Ending
<1>10. WriterInv'
  BY DEF ClaimForMetadata, SessionInv, WriterInv, removeVars, saveVars, requestVars,
     closeVars
<1> QED
  BY <1>2, <1>3, <1>4, <1>5, <1>6, <1>7, <1>8, <1>9, <1>10
     DEF SessionInv, CloserInv

\* A failed build gives the claim back.
LEMMA BuildForMetadataKeeps ==
  ASSUME SessionInv, NEW x \in Adder, BuildForMetadata(x)
  PROVE  SessionInv'
<1>2. TypeOK'
  BY ReleaseTyping, Frames DEF BuildForMetadata, addVars, SessionInv, TypeOK, AddTypeOK,
     SessionTypeOK
<1>3. AddInv'
  BY ReleaseTyping DEF BuildForMetadata, addVars, SessionInv, TypeOK, AddTypeOK,
     SessionTypeOK, AddInv, StorageInv
<1>4. StorageInv'
  BY ReleaseTyping DEF BuildForMetadata, addVars, SessionInv, TypeOK, AddTypeOK,
     SessionTypeOK, AddInv, StorageInv
<1>5. RegisteredInv'
  BY ReleaseTyping DEF BuildForMetadata, addVars, SessionInv, TypeOK, AddTypeOK,
     SessionTypeOK, AddInv, CloserInv, RegisteredInv, MapTypeOK, mapVars
<1>6. ReplacedInv'
  BY ReleaseTyping DEF BuildForMetadata, addVars, SessionInv, TypeOK, AddTypeOK,
     SessionTypeOK, AddInv, CloserInv, RegisteredInv, ReplacedInv, CollectedInv,
     CloseTypeOK, closeVars, Ending
<1>7. RemovedInv'
  BY ReleaseTyping DEF BuildForMetadata, addVars, SessionInv, TypeOK, AddTypeOK,
     SessionTypeOK, AddInv, CloserInv, RegisteredInv, RemovedInv, CollectedInv,
     RemovesSession, RemoveTypeOK, CloseTypeOK, removeVars, closeVars, Ending
<1>8. CollectedInv'
  BY ReleaseTyping DEF BuildForMetadata, addVars, SessionInv, TypeOK, AddTypeOK,
     SessionTypeOK, AddInv, CloserInv, RegisteredInv, CollectedInv, CloseTypeOK,
     closeVars, Ending
<1>9. AwaitedInv'
  BY ReleaseTyping DEF BuildForMetadata, addVars, SessionInv, TypeOK, AddTypeOK,
     SessionTypeOK, AddInv, CloserInv, RegisteredInv, AwaitedInv, RemovesSession,
     removeVars, mapVars, closeVars, Ending
<1>10. WriterInv'
  BY DEF BuildForMetadata, SessionInv, WriterInv, removeVars, saveVars, requestVars,
     closeVars
<1> QED
  BY <1>2, <1>3, <1>4, <1>5, <1>6, <1>7, <1>8, <1>9, <1>10
     DEF SessionInv, CloserInv

\* Publishing keeps the storage of a session that still runs, and closes the
\* other.
LEMMA PublishMetadataKeeps ==
  ASSUME SessionInv, NEW x \in Adder, PublishMetadata(x)
  PROVE  SessionInv'
<1>2. TypeOK'
  BY RequestTyping, Frames DEF PublishMetadata, addVars, SessionInv, TypeOK, AddTypeOK,
     SessionTypeOK, SaveTypeOK, saveVars, cacheVars, requestVars
<1>3. AddInv'
  BY DEF PublishMetadata, addVars, SessionInv, TypeOK, AddTypeOK, SessionTypeOK, AddInv, StorageInv
<1>4. StorageInv'
  BY DEF PublishMetadata, addVars, SessionInv, TypeOK, AddTypeOK, SessionTypeOK, AddInv, StorageInv
<1>5. RegisteredInv'
  BY DEF PublishMetadata, addVars, SessionInv, TypeOK, AddTypeOK, SessionTypeOK, AddInv,
     CloserInv, RegisteredInv, MapTypeOK, mapVars
<1>6. ReplacedInv'
  BY DEF PublishMetadata, addVars, SessionInv, TypeOK, AddTypeOK, SessionTypeOK, AddInv,
     CloserInv, RegisteredInv, ReplacedInv, CollectedInv, CloseTypeOK, closeVars, Ending
<1>7. RemovedInv'
  BY DEF PublishMetadata, addVars, SessionInv, TypeOK, AddTypeOK, SessionTypeOK, AddInv,
     CloserInv, RegisteredInv, RemovedInv, CollectedInv, RemovesSession, RemoveTypeOK,
     CloseTypeOK, removeVars, closeVars, Ending
<1>8. CollectedInv'
  BY DEF PublishMetadata, addVars, SessionInv, TypeOK, AddTypeOK, SessionTypeOK, AddInv,
     CloserInv, RegisteredInv, CollectedInv, CloseTypeOK, closeVars, Ending
<1>9. AwaitedInv'
  BY DEF PublishMetadata, addVars, SessionInv, TypeOK, AddTypeOK, SessionTypeOK, AddInv,
     CloserInv, RegisteredInv, AwaitedInv, RemovesSession, removeVars, mapVars,
     closeVars, Ending
<1>10. WriterInv'
  BY DEF PublishMetadata, SessionInv, WriterInv, removeVars, saveVars, requestVars,
     closeVars
<1> QED
  BY <1>2, <1>3, <1>4, <1>5, <1>6, <1>7, <1>8, <1>9, <1>10
     DEF SessionInv, CloserInv

-----------------------------------------------------------------------------
(* A removal.                                                              *)

\* The session taken out of the map was live, so no other call waits for it.
LEMMA BeginRemoveKeeps ==
  ASSUME SessionInv, NEW t \in Torrent, NEW deleteFiles \in setup.deletes,
         BeginRemove(t, deleteFiles)
  PROVE  SessionInv'
<1> DEFINE y == sessions[t]
<1>1. /\ y \in Adder \cup {None}
      /\ y # None => /\ y \in Adder /\ life[y] = "live" /\ target[y] = t
                     /\ apc[y] # "built" /\ y \notin collected
                     /\ \A x \in Adder : replaced[x] # y
      /\ rpc[t] = "idle"
      /\ deleteFiles \in BOOLEAN
  BY NoNone, SetupType DEF BeginRemove, removing, SessionInv, CloserInv, RegisteredInv,
     ReplacedInv, CollectedInv, TypeOK, AddTypeOK, MapTypeOK, CloseTypeOK, Ending
<1>a. /\ sessions' = [sessions EXCEPT ![t] = None]
      /\ rpc' = [rpc EXCEPT ![t] = "closing"]
      /\ rsess' = [rsess EXCEPT ![t] = y]
      /\ \A x \in Adder : life'[x] = IF x = y THEN "dropped" ELSE life[x]
      /\ UNCHANGED <<addVars, meta, storage, claimed, closeVars>>
  BY DEF BeginRemove
<1>2. TypeOK'
  <2>1. SessionTypeOK'
    BY DEF BeginRemove, SessionInv, TypeOK, SessionTypeOK
  <2>2. RemoveTypeOK' /\ MapTypeOK'
    BY <1>1 DEF BeginRemove, SessionInv, TypeOK, RemoveTypeOK, MapTypeOK
  <2> QED
    BY <2>1, <2>2, Frames DEF BeginRemove, SessionInv, TypeOK
<1>3. AddInv'
  BY NoNone, <1>1, <1>a DEF addVars, SessionInv, TypeOK, AddTypeOK, SessionTypeOK,
     AddInv, StorageInv
<1>4. StorageInv'
  BY NoNone, <1>1, <1>a DEF addVars, SessionInv, TypeOK, AddTypeOK, SessionTypeOK,
     AddInv, StorageInv
<1>5. RegisteredInv'
  BY NoNone, <1>1, <1>a DEF addVars, SessionInv, TypeOK, AddTypeOK, SessionTypeOK,
     AddInv, CloserInv, RegisteredInv, MapTypeOK, mapVars
<1>6. ReplacedInv'
  BY NoNone, <1>1, <1>a DEF addVars, SessionInv, TypeOK, AddTypeOK, SessionTypeOK,
     AddInv, CloserInv, RegisteredInv, ReplacedInv, CollectedInv, CloseTypeOK,
     closeVars, Ending
<1>7. RemovedInv'
  BY NoNone, <1>1, <1>a DEF addVars, SessionInv, TypeOK, AddTypeOK, SessionTypeOK,
     AddInv, CloserInv, RegisteredInv, RemovedInv, CollectedInv, RemovesSession,
     RemoveTypeOK, CloseTypeOK, removeVars, closeVars, Ending
<1>8. CollectedInv'
  BY NoNone, <1>1, <1>a DEF addVars, SessionInv, TypeOK, AddTypeOK, SessionTypeOK,
     AddInv, CloserInv, RegisteredInv, CollectedInv, CloseTypeOK, closeVars, Ending
<1>9. AwaitedInv'
  <2> SUFFICES ASSUME NEW z \in Adder
               PROVE  /\ life'[z] = "live" => apc'[z] = "built" \/ sessions'[target'[z]] = z
                      /\ life'[z] \in Ending =>
                           \/ \E x \in Adder : replaced'[x] = z
                           \/ \E u \in Torrent : RemovesSession(u)' /\ rsess'[u] = z
                           \/ z \in collected'
    BY DEF AwaitedInv
  <2>1. CASE z = y
    <3>1. RemovesSession(t)' /\ rsess'[t] = z /\ life'[z] = "dropped"
      BY <2>1, <1>1, <1>a, NoNone DEF RemovesSession, SessionInv, TypeOK, RemoveTypeOK
    <3> QED
      BY <3>1
  <2>2. CASE z # y
    <3>1. life'[z] = life[z] /\ apc' = apc /\ replaced' = replaced
          /\ target' = target /\ collected' = collected
      BY <2>2, <1>a DEF addVars, closeVars
    <3>2. life[z] = "live" => apc'[z] = "built" \/ sessions'[target'[z]] = z
      BY <2>2, <3>1, <1>a, NoNone DEF SessionInv, CloserInv, AwaitedInv, AddInv, TypeOK, MapTypeOK
    <3>3. \A u \in Torrent : RemovesSession(u) => RemovesSession(u)' /\ rsess'[u] = rsess[u]
      BY <1>1, <1>a DEF RemovesSession, SessionInv, TypeOK, RemoveTypeOK
    <3> QED
      BY <3>1, <3>2, <3>3 DEF SessionInv, CloserInv, AwaitedInv
  <2> QED
    BY <2>1, <2>2
<1>10. WriterInv'
  BY <1>1 DEF BeginRemove, SessionInv, WriterInv, removeVars, saveVars, requestVars,
     closeVars, TypeOK, RemoveTypeOK
<1> QED
  BY <1>2, <1>3, <1>4, <1>5, <1>6, <1>7, <1>8, <1>9, <1>10
     DEF SessionInv, CloserInv

\* A removal goes on only when its session is closed.
LEMMA SessionClosedKeeps ==
  ASSUME SessionInv, NEW t \in Torrent, SessionClosed(t)
  PROVE  SessionInv'
<1>1. TypeOK'
  BY Frames DEF SessionClosed, SessionInv, TypeOK, RemoveTypeOK
<1>2. AddInv' /\ StorageInv' /\ CloserInv'
  <2>1. /\ rpc[t] = "closing"
        /\ rsess[t] # None => life[rsess[t]] = "closed"
        /\ rpc'[t] \in {"reserving", "releasing"} /\ rsess' = rsess
        /\ \A u \in Torrent \ {t} : rpc'[u] = rpc[u]
        /\ UNCHANGED <<addVars, sessVars, sessions, collected, cpc>>
    BY DEF SessionClosed, IsClosed, SessionInv, TypeOK, RemoveTypeOK, mapVars, closeVars
  <2>2. ASSUME NEW u \in Torrent
        PROVE  RemovesSession(u)' <=> RemovesSession(u)
    BY <2>1 DEF RemovesSession
  <2>3. ASSUME NEW u \in Torrent, RemovesSession(u)
        PROVE  /\ rsess'[u] = rsess[u]
               /\ rpc'[u] = "closing" \/ rpc[u] # "closing" \/ life[rsess[u]] = "closed"
    BY <2>1, <2>3 DEF RemovesSession
  <2> QED
    BY <2>1, <2>2, <2>3, SessionFrame
<1>3. WriterInv'
  BY NoNone DEF SessionClosed, SessionInv, WriterInv, TypeOK, SaveTypeOK, Saver,
     removeVars, saveVars, requestVars, closeVars, addVars, IsClosed
<1> QED
  BY <1>1, <1>2, <1>3 DEF SessionInv

\* Reserving touches no session.
LEMMA ClaimFreePathsKeeps ==
  ASSUME SessionInv, NEW t \in Torrent, ClaimFreePaths(t)
  PROVE  SessionInv'
<1>1. TypeOK'
  <2>1. FreePaths(t) \subseteq Path
    BY ManagerAssumption DEF FreePaths
  <2>2. RemoveTypeOK'
    BY <2>1 DEF ClaimFreePaths, SessionInv, TypeOK, RemoveTypeOK
  <2>3. PathTypeOK'
    BY DEF ClaimFreePaths, Own!Reserved, SessionInv, TypeOK, PathTypeOK
  <2> QED
    BY <2>2, <2>3, Frames DEF ClaimFreePaths, SessionInv, TypeOK
<1>2. AddInv' /\ StorageInv' /\ CloserInv'
  BY SessionFrame DEF ClaimFreePaths, RemovesSession, SessionInv, TypeOK,
     RemoveTypeOK, addVars, mapVars, closeVars, sessVars
<1>3. WriterInv'
  BY NoNone DEF ClaimFreePaths, SessionInv, WriterInv, TypeOK, SaveTypeOK, Saver,
     removeVars, saveVars, requestVars, closeVars, addVars, mapVars, sessVars
<1> QED
  BY <1>1, <1>2, <1>3 DEF SessionInv

\* Deleting touches no session.
LEMMA FilesDeletedKeeps ==
  ASSUME SessionInv, NEW t \in Torrent, FilesDeleted(t)
  PROVE  SessionInv'
<1>1. TypeOK'
  BY Frames DEF FilesDeleted, GiveBack, Own!Unreserve, SessionInv, TypeOK, RemoveTypeOK, PathTypeOK
<1>2. AddInv' /\ StorageInv' /\ CloserInv'
  BY SessionFrame DEF FilesDeleted, RemovesSession, SessionInv, TypeOK,
     RemoveTypeOK, addVars, mapVars, closeVars, sessVars
<1>3. WriterInv'
  BY NoNone DEF FilesDeleted, SessionInv, WriterInv, TypeOK, SaveTypeOK, Saver,
     removeVars, saveVars, requestVars, closeVars, addVars, mapVars, sessVars
<1> QED
  BY <1>1, <1>2, <1>3 DEF SessionInv

\* The removed session is closed, and this removal was the only one waiting
\* for it.
LEMMA ReleaseRemovedKeeps ==
  ASSUME SessionInv, NEW t \in Torrent, ReleaseRemoved(t)
  PROVE  SessionInv'
<1> DEFINE y == rsess[t]
<1>1. /\ rpc[t] = "releasing" /\ rpc' = [rpc EXCEPT ![t] = "uncaching"]
      /\ rsess' = rsess /\ y \in Adder \cup {None}
      /\ y # None => /\ y \in Adder /\ life[y] = "closed"
                     /\ target[y] = t /\ y \notin collected
                     /\ \A x \in Adder : replaced[x] # y
                     /\ \A u \in Torrent : sessions[u] # y
                     /\ \A u \in Torrent : RemovesSession(u) /\ rsess[u] = y => u = t
  BY NoNone DEF ReleaseRemoved, SessionInv, CloserInv, RegisteredInv, RemovedInv,
     RemovesSession, TypeOK, RemoveTypeOK
<1>a. /\ PathTypeOK'
      /\ claimed' = claimed \ {y}
      /\ y \notin storage
      /\ life' = [x \in Adder |-> IF x = y THEN "absent" ELSE life[x]]
      /\ UNCHANGED <<addVars, meta, storage, closeVars, sessions>>
  <2>1. CASE y = None
    BY <2>1, NoNone DEF ReleaseRemoved, pathVars, mapVars, SessionInv, TypeOK,
       PathTypeOK, SessionTypeOK
  <2>2. CASE y # None
    BY <2>2, <1>1, ForgetEffect DEF ReleaseRemoved, pathVars, mapVars, SessionInv,
       TypeOK, SessionTypeOK
  <2> QED
    BY <2>1, <2>2
<1>2. TypeOK'
  <2>1. SessionTypeOK'
    BY <1>a DEF SessionInv, TypeOK, SessionTypeOK
  <2>2. RemoveTypeOK'
    BY DEF ReleaseRemoved, SessionInv, TypeOK, RemoveTypeOK
  <2> QED
    BY <2>1, <2>2, <1>a, Frames DEF ReleaseRemoved, SessionInv, TypeOK
<1>3. AddInv'
  BY NoNone, <1>1, <1>a DEF addVars, SessionInv, TypeOK, AddTypeOK, SessionTypeOK,
     AddInv, StorageInv
<1>4. StorageInv'
  BY NoNone, <1>1, <1>a DEF addVars, SessionInv, TypeOK, AddTypeOK, SessionTypeOK,
     AddInv, StorageInv
<1>5. RegisteredInv'
  BY NoNone, <1>1, <1>a DEF addVars, SessionInv, TypeOK, AddTypeOK, SessionTypeOK,
     AddInv, CloserInv, RegisteredInv, MapTypeOK, mapVars
<1>6. ReplacedInv'
  BY NoNone, <1>1, <1>a DEF addVars, SessionInv, TypeOK, AddTypeOK, SessionTypeOK,
     AddInv, CloserInv, RegisteredInv, ReplacedInv, CollectedInv, CloseTypeOK,
     closeVars, Ending
<1>7. RemovedInv'
  BY NoNone, <1>1, <1>a DEF addVars, SessionInv, TypeOK, AddTypeOK, SessionTypeOK,
     AddInv, CloserInv, RegisteredInv, RemovedInv, CollectedInv, RemovesSession,
     RemoveTypeOK, CloseTypeOK, removeVars, closeVars, Ending
<1>8. CollectedInv'
  BY NoNone, <1>1, <1>a DEF addVars, SessionInv, TypeOK, AddTypeOK, SessionTypeOK,
     AddInv, CloserInv, RegisteredInv, CollectedInv, CloseTypeOK, closeVars, Ending
<1>9. AwaitedInv'
  BY NoNone, <1>1, <1>a DEF addVars, SessionInv, TypeOK, AddTypeOK, SessionTypeOK,
     AddInv, CloserInv, RegisteredInv, AwaitedInv, RemovesSession, removeVars, mapVars,
     closeVars, Ending
<1>10. WriterInv'
  BY <1>1 DEF ReleaseRemoved, SessionInv, WriterInv, removeVars, saveVars, requestVars,
     closeVars, TypeOK, RemoveTypeOK
<1> QED
  BY <1>2, <1>3, <1>4, <1>5, <1>6, <1>7, <1>8, <1>9, <1>10
     DEF SessionInv, CloserInv

\* Removing a cached copy touches no session.
LEMMA UncacheKeeps ==
  ASSUME SessionInv, NEW t \in Torrent, Uncache(t)
  PROVE  SessionInv'
<1>1. TypeOK'
  BY Frames DEF Uncache, SessionInv, TypeOK, RemoveTypeOK, SaveTypeOK, saveVars, requestVars
<1>2. AddInv' /\ StorageInv' /\ CloserInv'
  BY SessionFrame DEF Uncache, RemovesSession, SessionInv, TypeOK,
     RemoveTypeOK, addVars, mapVars, closeVars, sessVars
<1>3. WriterInv'
  BY NoNone DEF Uncache, SessionInv, WriterInv, TypeOK, SaveTypeOK, Saver, removeVars,
     saveVars, requestVars, closeVars, addVars, mapVars, sessVars
<1> QED
  BY <1>1, <1>2, <1>3 DEF SessionInv

\* The removal ends with no session left to wait for.
LEMMA EndRemoveKeeps ==
  ASSUME SessionInv, NEW t \in Torrent, EndRemove(t)
  PROVE  SessionInv'
<1>1. TypeOK'
  BY Frames DEF EndRemove, SessionInv, TypeOK, RemoveTypeOK
<1>2. AddInv' /\ StorageInv' /\ CloserInv'
  BY SessionFrame DEF EndRemove, RemovesSession, SessionInv, TypeOK,
     RemoveTypeOK, addVars, mapVars, closeVars, sessVars
<1>3. WriterInv'
  BY NoNone DEF EndRemove, SessionInv, WriterInv, TypeOK, SaveTypeOK, Saver, removeVars,
     saveVars, requestVars, closeVars, addVars, mapVars, sessVars
<1> QED
  BY <1>1, <1>2, <1>3 DEF SessionInv

-----------------------------------------------------------------------------
(* Saving.                                                                 *)

\* The loop starts a save; it cannot have writeMu yet.
LEMMA LoopTakesRequestKeeps ==
  ASSUME SessionInv, LoopTakesRequest
  PROVE  SessionInv'
<1>1. TypeOK'
  BY Frames DEF LoopTakesRequest, SessionInv, TypeOK, SaveTypeOK, saveVars, cacheVars
<1>2. AddInv' /\ StorageInv' /\ CloserInv'
  BY SessionFrame DEF LoopTakesRequest, RemovesSession, removeVars, mapVars, closeVars
<1>3. WriterInv'
  BY DEF LoopTakesRequest, SessionInv, WriterInv, removeVars, saveVars, closeVars
<1> QED
  BY <1>1, <1>2, <1>3 DEF SessionInv

\* The saver of a save goes on to where no session waits for it.
LEMMA SaveReturnsTyping ==
  ASSUME SessionInv, NEW o \in Saver, SaveReturns(o),
         o \in Torrent => rpc[o] = "saving", o = "close" => cpc = "saving"
  PROVE  /\ loopSaves' \in BOOLEAN
         /\ \A t \in Torrent : rpc'[t] = IF t = o THEN "ending" ELSE rpc[t]
         /\ rpc' \in [Torrent -> {"idle", "closing", "reserving", "deleting",
                                  "releasing", "uncaching", "saving", "ending"}]
         /\ cpc' \in {"open", "saving", "collecting", "closing", "done"}
         /\ cpc' = cpc \/ collected = {}
         /\ \A t \in Torrent : RemovesSession(t) => t # o
<1>1. loopSaves \in BOOLEAN /\ cpc \in {"open", "saving", "collecting", "closing", "done"}
      /\ rpc \in [Torrent -> {"idle", "closing", "reserving", "deleting",
                               "releasing", "uncaching", "saving", "ending"}]
  BY DEF SessionInv, TypeOK, SaveTypeOK, RemoveTypeOK, CloseTypeOK
<1>2. cpc # "closing" => collected = {}
  BY DEF SessionInv, CloserInv, CollectedInv
<1> QED
  BY <1>1, <1>2 DEF SaveReturns, RemovesSession

\* Who takes writeMu is in a save, and who returns at once was.
LEMMA SaveStateKeeps ==
  ASSUME SessionInv, NEW o \in Saver, SaveState(o)
  PROVE  SessionInv'
<1>1. /\ o \in Torrent => rpc[o] = "saving"
      /\ o = "close" => cpc = "saving"
      /\ o = "loop" => loopSaves
      /\ writeMu = None
  BY ManagerAssumption DEF SaveState, WantsToSave
<1>2. CASE ~setup.persistent \/ (closed /\ o # "close")
  <2>1. SaveReturns(o) /\ UNCHANGED saveVars
    BY <1>2 DEF SaveState
  <2>2. TypeOK'
    BY <1>1, <2>1, SaveReturnsTyping, Frames DEF SaveState, SessionInv, TypeOK,
       SaveTypeOK, RemoveTypeOK, CloseTypeOK, saveVars, cacheVars
  <2>3. AddInv' /\ StorageInv' /\ CloserInv'
    BY <1>1, <2>1, SaveReturnsTyping, SessionFrame DEF SaveState, RemovesSession, mapVars
  <2>4. WriterInv'
    BY <1>1, <2>1, NoNone, ManagerAssumption DEF SessionInv, WriterInv, saveVars
  <2> QED
    BY <2>2, <2>3, <2>4 DEF SessionInv
<1>3. CASE ~(~setup.persistent \/ (closed /\ o # "close"))
  <2>1. /\ writeMu' = o /\ phase' = "ensuring"
        /\ snapshot' = Snapshot
        /\ toEnsure' = {t \in Registered : KnowsFiles(sessions[t])}
        /\ UNCHANGED <<toSync, sessionJson, stale, loopSaves, rpc, cpc>>
        /\ UNCHANGED <<addVars, sessVars, rsess, rdel, rfailed, rfree, pathVars,
                       cacheVars, saveStateCh, mapVars, collected, setup>>
    BY <1>3 DEF SaveState
  <2>2. SaveTypeOK'
    BY <2>1 DEF SessionInv, TypeOK, SaveTypeOK, MapTypeOK, Snapshot, Registered, cacheVars
  <2>3. TypeOK'
    BY <2>1, <2>2, Frames DEF SessionInv, TypeOK, removeVars, closeVars
  <2>4. AddInv' /\ StorageInv' /\ CloserInv'
    BY <2>1, SessionFrame DEF RemovesSession, mapVars
  <2>5. WriterInv'
    BY <1>1, <2>1, NoNone, ManagerAssumption DEF SessionInv, WriterInv, Saver
  <2> QED
    BY <2>3, <2>4, <2>5 DEF SessionInv
<1> QED
  BY <1>2, <1>3

\* Rebuilding a cached copy touches no session.
LEMMA EnsureCachedTorrentKeeps ==
  ASSUME SessionInv, NEW t \in Torrent, EnsureCachedTorrent(t)
  PROVE  SessionInv'
<1>1. TypeOK'
  BY Frames DEF EnsureCachedTorrent, SessionInv, TypeOK, SaveTypeOK, requestVars
<1>2. AddInv' /\ StorageInv' /\ CloserInv'
  BY SessionFrame DEF EnsureCachedTorrent, RemovesSession, removeVars, mapVars, closeVars
<1>3. WriterInv'
  BY DEF EnsureCachedTorrent, SessionInv, WriterInv, removeVars, requestVars, closeVars
<1> QED
  BY <1>1, <1>2, <1>3 DEF SessionInv

\* Collecting what is to be synced touches no session.
LEMMA TakeUnsyncedKeeps ==
  ASSUME SessionInv, TakeUnsynced
  PROVE  SessionInv'
<1>1. TypeOK'
  BY Frames DEF TakeUnsynced, SessionInv, TypeOK, SaveTypeOK, requestVars
<1>2. AddInv' /\ StorageInv' /\ CloserInv'
  BY SessionFrame DEF TakeUnsynced, RemovesSession, removeVars, mapVars, closeVars
<1>3. WriterInv'
  BY DEF TakeUnsynced, SessionInv, WriterInv, removeVars, requestVars, closeVars
<1> QED
  BY <1>1, <1>2, <1>3 DEF SessionInv

\* Syncing touches no session.
LEMMA SyncCachedTorrentsKeeps ==
  ASSUME SessionInv, SyncCachedTorrents
  PROVE  SessionInv'
<1>1. TypeOK'
  BY Frames DEF SyncCachedTorrents, SessionInv, TypeOK, SaveTypeOK, requestVars
<1>2. AddInv' /\ StorageInv' /\ CloserInv'
  BY SessionFrame DEF SyncCachedTorrents, RemovesSession, removeVars, mapVars, closeVars
<1>3. WriterInv'
  BY DEF SyncCachedTorrents, SessionInv, WriterInv, removeVars, requestVars, closeVars
<1> QED
  BY <1>1, <1>2, <1>3 DEF SessionInv

\* The saver that wrote gives writeMu back and returns.
LEMMA WriteStateKeeps ==
  ASSUME SessionInv, WriteState
  PROVE  SessionInv'
<1>1. /\ writeMu \in Saver
      /\ writeMu \in Torrent => rpc[writeMu] = "saving"
      /\ writeMu = "close" => cpc = "saving"
  BY DEF WriteState, SessionInv, WriterInv, TypeOK, SaveTypeOK
<1>2. SaveReturns(writeMu)
  BY DEF WriteState
<1>3. TypeOK'
  BY <1>1, <1>2, SaveReturnsTyping, Frames DEF WriteState, SessionInv, TypeOK,
     SaveTypeOK, RemoveTypeOK, CloseTypeOK, cacheVars
<1>4. AddInv' /\ StorageInv' /\ CloserInv'
  BY <1>1, <1>2, SaveReturnsTyping, SessionFrame DEF WriteState, RemovesSession, mapVars
<1>5. WriterInv'
  BY NoNone, ManagerAssumption DEF WriteState, WriterInv
<1> QED
  BY <1>3, <1>4, <1>5 DEF SessionInv

-----------------------------------------------------------------------------
(* Closing.                                                                *)

\* Close starts with nothing collected.
LEMMA StartCloseKeeps ==
  ASSUME SessionInv, StartClose
  PROVE  SessionInv'
<1>1. TypeOK'
  BY Frames DEF StartClose, SessionInv, TypeOK, CloseTypeOK
<1>2. collected = {}
  BY DEF StartClose, SessionInv, CloserInv, CollectedInv
<1>3. AddInv' /\ StorageInv' /\ CloserInv'
  BY <1>2, SessionFrame DEF StartClose, RemovesSession, removeVars, mapVars
<1>4. WriterInv'
  BY DEF StartClose, SessionInv, WriterInv, removeVars, saveVars, requestVars
<1> QED
  BY <1>1, <1>3, <1>4 DEF SessionInv

\* Close ends with nothing collected.
LEMMA CloseReturnsKeeps ==
  ASSUME SessionInv, CloseReturns
  PROVE  SessionInv'
<1>1. TypeOK'
  BY Frames DEF CloseReturns, SessionInv, TypeOK, CloseTypeOK
<1>2. AddInv' /\ StorageInv' /\ CloserInv'
  BY SessionFrame DEF CloseReturns, RemovesSession, removeVars, mapVars
<1>3. WriterInv'
  BY DEF CloseReturns, SessionInv, WriterInv, removeVars, saveVars, requestVars
<1> QED
  BY <1>1, <1>2, <1>3 DEF SessionInv

\* Every registered session leaves the map and waits for Close.
LEMMA CollectSessionsKeeps ==
  ASSUME SessionInv, CollectSessions
  PROVE  SessionInv'
<1>1. /\ collected' = {x \in Adder : \E t \in Torrent : sessions[t] = x}
      /\ \A t \in Torrent : sessions'[t] = None
      /\ \A x \in Adder : life'[x] = IF x \in collected' THEN "dropped" ELSE life[x]
      /\ collected = {} /\ cpc' = "closing"
      /\ UNCHANGED <<addVars, meta, storage, claimed, removeVars>>
  BY DEF CollectSessions, Range, SessionInv, CloserInv, CollectedInv, TypeOK, MapTypeOK
<1>2. \A x \in collected' : /\ life[x] = "live" /\ apc[x] # "built"
                            /\ \A y \in Adder : replaced[y] # x
                            /\ \A t \in Torrent : RemovesSession(t) => rsess[t] # x
  BY <1>1, NoNone DEF SessionInv, CloserInv, RegisteredInv, ReplacedInv, RemovedInv, Ending
<1>3. TypeOK'
  BY <1>1, Frames DEF CollectSessions, SessionInv, TypeOK, SessionTypeOK, MapTypeOK, CloseTypeOK
<1>4. AddInv' /\ StorageInv'
  BY <1>1, <1>2 DEF SessionInv, AddInv, StorageInv, addVars
<1>5. RegisteredInv' /\ CollectedInv'
  BY <1>1 DEF RegisteredInv, CollectedInv, Ending
<1>6. ReplacedInv' /\ RemovedInv'
  BY <1>1, <1>2, NoNone DEF SessionInv, CloserInv, ReplacedInv, RemovedInv, RemovesSession,
     TypeOK, AddTypeOK, RemoveTypeOK, addVars, removeVars, Ending
<1>7. AwaitedInv'
  BY <1>1, <1>2 DEF SessionInv, CloserInv, AwaitedInv, RemovesSession, AddInv, addVars, removeVars
<1>8. WriterInv'
  BY DEF CollectSessions, SessionInv, WriterInv, removeVars, saveVars, requestVars
<1> QED
  BY <1>3, <1>4, <1>5, <1>6, <1>7, <1>8 DEF SessionInv, CloserInv

\* The collected session is closed, and Close was the only one waiting for it.
LEMMA ReleaseCollectedKeeps ==
  ASSUME SessionInv, NEW y \in Adder, ReleaseCollected(y)
  PROVE  SessionInv'
<1>1. /\ y \in collected /\ life[y] = "closed"
      /\ \A x \in Adder : replaced[x] # y
      /\ \A t \in Torrent : sessions[t] # y
      /\ \A t \in Torrent : RemovesSession(t) => rsess[t] # y
  BY NoNone DEF ReleaseCollected, IsClosed, SessionInv, CloserInv, RegisteredInv,
     ReplacedInv, RemovedInv
<1>2. /\ PathTypeOK' /\ claimed' = claimed \ {y} /\ y \notin storage
      /\ life' = [life EXCEPT ![y] = "absent"]
      /\ collected' = collected \ {y}
      /\ UNCHANGED <<addVars, meta, storage, removeVars, saveVars, cacheVars,
                     requestVars, mapVars, cpc, setup>>
  BY <1>1, ForgetEffect DEF ReleaseCollected
<1>3. TypeOK'
  BY <1>2, Frames DEF SessionInv, TypeOK, SessionTypeOK, CloseTypeOK
<1>4. AddInv' /\ StorageInv'
  BY <1>1, <1>2 DEF SessionInv, AddInv, StorageInv, TypeOK, SessionTypeOK, addVars
<1>5. RegisteredInv' /\ CollectedInv'
  BY <1>1, <1>2, NoNone DEF SessionInv, CloserInv, RegisteredInv, CollectedInv,
     TypeOK, SessionTypeOK, MapTypeOK, CloseTypeOK, addVars, mapVars
<1>6. ReplacedInv' /\ RemovedInv'
  BY <1>1, <1>2, NoNone DEF SessionInv, CloserInv, ReplacedInv, RemovedInv, RemovesSession,
     TypeOK, AddTypeOK, SessionTypeOK, RemoveTypeOK, addVars, removeVars
<1>7. AwaitedInv'
  BY <1>1, <1>2 DEF SessionInv, CloserInv, AwaitedInv, RemovesSession, TypeOK,
     SessionTypeOK, Ending, addVars, removeVars, mapVars
<1>8. WriterInv'
  BY <1>2 DEF SessionInv, WriterInv, removeVars, saveVars, requestVars
<1> QED
  BY <1>3, <1>4, <1>5, <1>6, <1>7, <1>8 DEF SessionInv, CloserInv

-----------------------------------------------------------------------------
\* Nothing changes.
LEMMA SessionStutter ==
  ASSUME SessionInv, UNCHANGED vars
  PROVE  SessionInv'
<1>1. TypeOK'
  BY Frames DEF vars, SessionInv, TypeOK
<1>2. AddInv' /\ StorageInv' /\ CloserInv'
  BY SessionFrame DEF vars, RemovesSession, removeVars, mapVars, closeVars
<1>3. WriterInv'
  BY DEF vars, SessionInv, WriterInv, removeVars, saveVars, requestVars, closeVars
<1> QED
  BY <1>1, <1>2, <1>3 DEF SessionInv

\* Every step keeps who answers for a session.
LEMMA SessionStep ==
  ASSUME SessionInv, [Next]_vars
  PROVE  SessionInv'
<1>1. ASSUME NEW x \in Adder, AddNext(x)
      PROVE  SessionInv'
  BY <1>1, ClaimPathsKeeps, BuildStorageKeeps, RegisterKeeps, RefusedKeeps,
     ReleaseReplacedKeeps, CacheTorrentKeeps, EndAddKeeps DEF AddNext
<1>2. ASSUME NEW x \in Adder, SessionNext(x) \/ ClaimForMetadata(x)
      PROVE  SessionInv'
  BY <1>2, BeginCloseKeeps, FinishCloseKeeps, ClaimForMetadataKeeps,
     BuildForMetadataKeeps, PublishMetadataKeeps DEF SessionNext
<1>3. ASSUME NEW t \in Torrent, RemoveNext(t)
      PROVE  SessionInv'
  BY <1>3, SessionClosedKeeps, ClaimFreePathsKeeps, FilesDeletedKeeps,
     ReleaseRemovedKeeps, UncacheKeeps, EndRemoveKeeps DEF RemoveNext
<1>4. CASE SaveNext \/ LoopTakesRequest
  BY <1>4, SaveStateKeeps, EnsureCachedTorrentKeeps, TakeUnsyncedKeeps,
     SyncCachedTorrentsKeeps, WriteStateKeeps, LoopTakesRequestKeeps DEF SaveNext
<1>5. CASE StartClose \/ CloseNext
  BY <1>5, StartCloseKeeps, CollectSessionsKeeps, CloseReturnsKeeps,
     ReleaseCollectedKeeps DEF CloseNext
<1> QED
  BY <1>1, <1>2, <1>3, <1>4, <1>5, StartAddKeeps, BeginRemoveKeeps, SessionStutter
     DEF Next

\* At every time exactly one call answers for a session that ends.
LEMMA SessionSafety == Spec => []SessionInv
<1>1. ManagerInit => SessionInv
  BY InitSessionInv
<1>2. SessionInv /\ [Next]_vars => SessionInv'
  BY SessionStep
<1> QED
  BY <1>1, <1>2, PTL DEF Spec

-----------------------------------------------------------------------------
(* Paths.                                                                  *)

\* Claims are counted, and a path reserved for the deletion of one torrent is
\* held by no other.
ClaimsOf(t) == {x \in claimed : target[x] = t}
Deleters(p) == {t \in Torrent : p \in rfree[t]}

PathInv ==
  /\ \A t \in Torrent : rfree[t] # {} => rpc[t] = "deleting"
  /\ \A t \in Torrent : \A p \in PathsOf[t] :
       holders[p][t] = Cardinality(ClaimsOf(t))
  /\ \A p \in Path : reserved[p] = Cardinality(Deleters(p))
  /\ \A t \in Torrent : \A p \in rfree[t] : \A u \in Torrent \ {t} :
       holders[p][u] = 0

\* Claims and deleters are finitely many.
LEMMA FiniteSets ==
  ASSUME SessionInv
  PROVE  /\ \A t : IsFiniteSet(ClaimsOf(t)) /\ Cardinality(ClaimsOf(t)) \in Nat
         /\ \A p : IsFiniteSet(Deleters(p)) /\ Cardinality(Deleters(p)) \in Nat
<1>1. \A t : ClaimsOf(t) \in SUBSET Adder
  BY DEF ClaimsOf, SessionInv, TypeOK, SessionTypeOK
<1>2. \A p : Deleters(p) \in SUBSET Torrent
  BY DEF Deleters
<1>3. IsFiniteSet(Adder) /\ IsFiniteSet(Torrent)
  BY ManagerAssumption
<1> QED
  BY <1>1, <1>2, <1>3, FS_Subset, FS_CardinalityType

\* At the start nothing is held and nothing reserved.
LEMMA InitPathInv == ManagerInit => PathInv
<1> SUFFICES ASSUME ManagerInit PROVE PathInv
  OBVIOUS
<1>1. \A t : ClaimsOf(t) = {}
  BY DEF ManagerInit, ClaimsOf
<1>2. \A p : Deleters(p) = {}
  BY DEF ManagerInit, Deleters
<1>3. \A t \in Torrent : PathsOf[t] \subseteq Path
  BY ManagerAssumption
<1> QED
  BY <1>1, <1>2, <1>3, FS_EmptySet DEF ManagerInit, Own!Init, PathInv

\* A step that changes neither claims nor reservations, nor the torrent of a
\* claim, keeps the counts.
LEMMA PathFrame ==
  ASSUME SessionInv, PathInv, UNCHANGED <<pathVars, claimed, rfree>>,
         \A x \in claimed : target'[x] = target[x],
         \A t \in Torrent : rpc[t] = "deleting" => rpc'[t] = "deleting"
  PROVE  PathInv'
<1>1. \A t : ClaimsOf(t)' = ClaimsOf(t)
  BY DEF ClaimsOf
<1>2. \A p : Deleters(p)' = Deleters(p)
  BY DEF Deleters
<1> QED
  BY <1>1, <1>2 DEF PathInv, pathVars

\* A claim counts one more; it takes no path that is reserved, unless its own
\* torrent holds it already.
LEMMA ClaimCounts ==
  ASSUME SessionInv, PathInv, NEW x \in Adder, target[x] \in Torrent,
         x \notin claimed, Claim(x), UNCHANGED <<target, rpc, rfree>>
  PROVE  PathInv'
<1> DEFINE t == target[x]
<1>1. /\ claimed' = claimed \cup {x} /\ reserved' = reserved
      /\ \A p \in PathsOf[t] : Own!MayClaim(t, p)
      /\ \A p \in Path : holders'[p] = IF p \in PathsOf[t]
                                       THEN [holders[p] EXCEPT ![t] = holders[p][t] + 1]
                                       ELSE holders[p]
  BY DEF Claim, Own!Claim
<1>2. /\ holders \in [Path -> [Torrent -> Nat]]
      /\ \A u \in Torrent : PathsOf[u] \subseteq Path
  BY ManagerAssumption DEF SessionInv, TypeOK, PathTypeOK
<1>3. ASSUME NEW p \in Path, NEW u \in Torrent
      PROVE  holders'[p][u] = IF p \in PathsOf[t] /\ u = t THEN holders[p][u] + 1
                              ELSE holders[p][u]
  <2>1. holders[p] \in [Torrent -> Nat]
    BY <1>2
  <2> QED
    BY <1>1, <2>1
<1>4. /\ ClaimsOf(t)' = ClaimsOf(t) \cup {x} /\ x \notin ClaimsOf(t)
      /\ \A u \in Torrent \ {t} : ClaimsOf(u)' = ClaimsOf(u)
  BY <1>1 DEF ClaimsOf
<1>5. Cardinality(ClaimsOf(t)') = Cardinality(ClaimsOf(t)) + 1
  BY <1>4, FiniteSets, FS_AddElement
<1>6. ASSUME NEW u \in Torrent, NEW p \in PathsOf[u]
      PROVE  holders'[p][u] = Cardinality(ClaimsOf(u)')
  <2>1. p \in Path /\ holders[p][u] = Cardinality(ClaimsOf(u))
    BY <1>2, <1>6 DEF PathInv
  <2>2. CASE u = t
    BY <1>3, <1>5, <1>6, <2>1, <2>2
  <2>3. CASE u # t
    BY <1>3, <1>4, <2>1, <2>3
  <2> QED
    BY <2>2, <2>3
<1>7. \A p : Deleters(p)' = Deleters(p)
  BY DEF Deleters
<1>8. ASSUME NEW d \in Torrent, NEW p \in rfree[d], NEW u \in Torrent \ {d}
      PROVE  holders'[p][u] = 0
  <2>1. p \in Path /\ holders[p][u] = 0
    BY <1>8 DEF SessionInv, TypeOK, RemoveTypeOK, PathInv
  <2>2. reserved[p] # 0
    <3>1. d \in Deleters(p)
      BY <1>8 DEF Deleters
    <3>2. Cardinality(Deleters(p)) # 0
      BY <3>1, FiniteSets, FS_EmptySet
    <3> QED
      BY <2>1, <3>2 DEF PathInv
  <2>3. ~(p \in PathsOf[t] /\ u = t)
    BY <1>1, <2>1, <2>2 DEF Own!MayClaim
  <2> QED
    BY <1>3, <2>1, <2>3
<1> QED
  BY <1>1, <1>6, <1>7, <1>8 DEF PathInv

\* A release takes one claim and one holder of each path away.
LEMMA ReleaseCounts ==
  ASSUME SessionInv, PathInv, NEW x \in Adder, Release(x),
         UNCHANGED <<target, rfree>>,
         \A t \in Torrent : rpc[t] = "deleting" => rpc'[t] = "deleting"
  PROVE  PathInv'
<1>0. CASE x \notin claimed
  BY <1>0, PathFrame DEF Release
<1>a. CASE x \in claimed
  <2> DEFINE t == target[x]
  <2>1. /\ claimed' = claimed \ {x} /\ reserved' = reserved
        /\ \A p \in PathsOf[t] : holders[p][t] > 0
        /\ \A p \in Path : holders'[p] = IF p \in PathsOf[t]
                                         THEN [holders[p] EXCEPT ![t] = holders[p][t] - 1]
                                         ELSE holders[p]
    BY <1>a DEF Release, Own!Release
  <2>2. /\ holders \in [Path -> [Torrent -> Nat]] /\ t \in Torrent
        /\ \A u \in Torrent : PathsOf[u] \subseteq Path
    BY <1>a, ManagerAssumption DEF SessionInv, TypeOK, PathTypeOK, AddInv, StorageInv
  <2>3. ASSUME NEW p \in Path, NEW u \in Torrent
        PROVE  holders'[p][u] = IF p \in PathsOf[t] /\ u = t THEN holders[p][u] - 1
                                ELSE holders[p][u]
    <3>1. holders[p] \in [Torrent -> Nat]
      BY <2>2
    <3> QED
      BY <2>1, <3>1
  <2>4. /\ ClaimsOf(t)' = ClaimsOf(t) \ {x} /\ x \in ClaimsOf(t)
        /\ \A u \in Torrent \ {t} : ClaimsOf(u)' = ClaimsOf(u)
    BY <1>a, <2>1 DEF ClaimsOf
  <2>5. Cardinality(ClaimsOf(t)') = Cardinality(ClaimsOf(t)) - 1
    BY <2>4, FiniteSets, FS_RemoveElement
  <2>6. ASSUME NEW u \in Torrent, NEW p \in PathsOf[u]
        PROVE  holders'[p][u] = Cardinality(ClaimsOf(u)')
    <3>1. p \in Path /\ holders[p][u] = Cardinality(ClaimsOf(u))
      BY <2>2, <2>6 DEF PathInv
    <3>2. CASE u = t
      BY <2>3, <2>5, <2>6, <3>1, <3>2
    <3>3. CASE u # t
      BY <2>3, <2>4, <3>1, <3>3
    <3> QED
      BY <3>2, <3>3
  <2>7. \A p : Deleters(p)' = Deleters(p)
    BY DEF Deleters
  <2>8. ASSUME NEW d \in Torrent, NEW p \in rfree[d], NEW u \in Torrent \ {d}
        PROVE  holders'[p][u] = 0
    <3>1. p \in Path /\ holders[p][u] = 0
      BY <2>8 DEF SessionInv, TypeOK, RemoveTypeOK, PathInv
    <3>2. ~(p \in PathsOf[t] /\ u = t)
      BY <2>1, <3>1
    <3> QED
      BY <2>3, <3>1, <3>2
  <2> QED
    BY <2>1, <2>6, <2>7, <2>8 DEF PathInv
<1> QED
  BY <1>0, <1>a

\* A removal reserves what nobody else holds, and gives back what it reserved.
LEMMA ClaimFreePathsCounts ==
  ASSUME SessionInv, PathInv, NEW t \in Torrent, ClaimFreePaths(t)
  PROVE  PathInv'
<1>1. /\ rpc[t] = "reserving" /\ rpc' = [rpc EXCEPT ![t] = "deleting"]
      /\ rfree' = [rfree EXCEPT ![t] = FreePaths(t)]
      /\ \A p \in Path : reserved'[p] = reserved[p] + (IF p \in FreePaths(t) THEN 1 ELSE 0)
      /\ UNCHANGED <<holders, target, claimed>>
  BY DEF ClaimFreePaths, Own!Reserved, addVars, sessVars
<1>2. rfree[t] = {}
  BY <1>1 DEF PathInv
<1>3. /\ rfree \in [Torrent -> SUBSET Path] /\ rpc \in [Torrent -> {"idle", "closing", "reserving", "deleting",
                           "releasing", "uncaching", "saving", "ending"}]
      /\ reserved \in [Path -> Nat] /\ holders \in [Path -> [Torrent -> Nat]]
      /\ FreePaths(t) \subseteq Path
  BY ManagerAssumption DEF SessionInv, TypeOK, RemoveTypeOK, PathTypeOK, FreePaths
<1>4. \A u \in Torrent : rfree'[u] # {} => rpc'[u] = "deleting"
  BY <1>1, <1>3 DEF PathInv
<1>5. ASSUME NEW p \in Path
      PROVE  reserved'[p] = Cardinality(Deleters(p)')
  <2>1. Deleters(p)' = IF p \in FreePaths(t) THEN Deleters(p) \cup {t} ELSE Deleters(p)
    BY <1>1, <1>2, <1>3 DEF Deleters
  <2>2. t \notin Deleters(p)
    BY <1>2 DEF Deleters
  <2>3. Cardinality(Deleters(p) \cup {t}) = Cardinality(Deleters(p)) + 1
    BY <2>2, FiniteSets, FS_AddElement
  <2> QED
    BY <1>1, <2>1, <2>3, FiniteSets DEF PathInv
<1>6. \A u : ClaimsOf(u)' = ClaimsOf(u)
  BY <1>1 DEF ClaimsOf
<1>7. ASSUME NEW d \in Torrent, NEW p \in rfree'[d], NEW u \in Torrent \ {d}
      PROVE  holders'[p][u] = 0
  <2>1. CASE d = t
    <3>1. p \in Path /\ Own!Others(t, p) = {}
      BY <1>1, <1>3, <1>7, <2>1 DEF FreePaths
    <3>2. ~(holders[p][u] > 0) /\ holders[p][u] \in Nat
      BY <1>3, <1>7, <2>1, <3>1 DEF Own!Others
    <3> QED
      BY <1>1, <3>2
  <2>2. CASE d # t
    BY <1>1, <1>3, <1>7, <2>2 DEF PathInv
  <2> QED
    BY <2>1, <2>2
<1> QED
  BY <1>1, <1>4, <1>5, <1>6, <1>7 DEF PathInv

\* The end of a deletion takes the reservations of its own paths away.
LEMMA FilesDeletedCounts ==
  ASSUME SessionInv, PathInv, NEW t \in Torrent, FilesDeleted(t)
  PROVE  PathInv'
<1>1. /\ rpc[t] = "deleting" /\ rpc' = [rpc EXCEPT ![t] = "releasing"]
      /\ rfree' = [rfree EXCEPT ![t] = {}]
      /\ \A p \in Path : reserved'[p] = reserved[p] - (IF p \in rfree[t] THEN 1 ELSE 0)
      /\ UNCHANGED <<holders, target, claimed>>
  BY DEF FilesDeleted, GiveBack, Own!Unreserve, addVars, sessVars
<1>2. /\ rfree \in [Torrent -> SUBSET Path] /\ rpc \in [Torrent -> {"idle", "closing", "reserving", "deleting",
                           "releasing", "uncaching", "saving", "ending"}]
  BY DEF SessionInv, TypeOK, RemoveTypeOK
<1>3. \A u \in Torrent : rfree'[u] # {} => rpc'[u] = "deleting"
  BY <1>1, <1>2 DEF PathInv
<1>4. ASSUME NEW p \in Path
      PROVE  reserved'[p] = Cardinality(Deleters(p)')
  <2>1. Deleters(p)' = Deleters(p) \ {t} /\ (t \in Deleters(p) <=> p \in rfree[t])
    BY <1>1, <1>2 DEF Deleters
  <2>2. Cardinality(Deleters(p) \ {t}) =
          IF t \in Deleters(p) THEN Cardinality(Deleters(p)) - 1
          ELSE Cardinality(Deleters(p))
    BY FiniteSets, FS_RemoveElement
  <2> QED
    BY <1>1, <2>1, <2>2, FiniteSets DEF PathInv
<1>5. \A u : ClaimsOf(u)' = ClaimsOf(u)
  BY <1>1 DEF ClaimsOf
<1>6. \A d \in Torrent : \A p \in rfree'[d] : \A u \in Torrent \ {d} : holders'[p][u] = 0
  BY <1>1, <1>2 DEF PathInv
<1> QED
  BY <1>1, <1>3, <1>4, <1>5, <1>6 DEF PathInv

\* Every step keeps the counts.
LEMMA PathStep ==
  ASSUME SessionInv, PathInv, [Next]_vars
  PROVE  PathInv'
<1>1. ASSUME NEW x \in Adder, NEW t \in Torrent, NEW kind \in setup.kinds,
             StartAdd(x, t, kind)
      PROVE  PathInv'
  <2>1. x \notin claimed
    BY <1>1 DEF StartAdd, SessionInv, StorageInv
  <2> QED
    BY <1>1, <2>1, PathFrame DEF StartAdd, removeVars, SessionInv, TypeOK,
       AddTypeOK, SessionTypeOK
<1>2. ASSUME NEW x \in Adder, ClaimPaths(x)
      PROVE  PathInv'
  <2>1. target[x] \in Torrent /\ x \notin claimed
    BY <1>2 DEF ClaimPaths, SessionInv, AddInv
  <2> QED
    BY <1>2, <2>1, ClaimCounts, PathFrame DEF ClaimPaths, removeVars
<1>3. ASSUME NEW x \in Adder, BuildStorage(x) \/ BuildForMetadata(x)
      PROVE  PathInv'
  BY <1>3, ReleaseCounts, PathFrame DEF BuildStorage, BuildForMetadata, removeVars, addVars
<1>4. ASSUME NEW x \in Adder, ClaimForMetadata(x)
      PROVE  PathInv'
  <2>1. target[x] \in Torrent /\ x \notin claimed
    BY <1>4 DEF ClaimForMetadata, SessionInv, AddInv, StorageInv
  <2> QED
    BY <1>4, <2>1, ClaimCounts DEF ClaimForMetadata, addVars, removeVars
<1>5. ASSUME NEW x \in Adder, ReleaseReplaced(x)
      PROVE  PathInv'
  <2>1. replaced[x] \in Adder
    BY <1>5 DEF ReleaseReplaced, SessionInv, AddInv, TypeOK, AddTypeOK
  <2> QED
    BY <1>5, <2>1, ReleaseCounts DEF ReleaseReplaced, Forget, removeVars
<1>6. ASSUME NEW t \in Torrent, ReleaseRemoved(t)
      PROVE  PathInv'
  <2>1. rsess[t] # None => rsess[t] \in Adder
    BY DEF SessionInv, TypeOK, RemoveTypeOK
  <2>2. \A u \in Torrent : rpc[u] = "deleting" => rpc'[u] = "deleting"
    BY <1>6 DEF ReleaseRemoved, SessionInv, TypeOK, RemoveTypeOK
  <2> QED
    BY <1>6, <2>1, <2>2, ReleaseCounts, PathFrame DEF ReleaseRemoved, Forget, addVars, pathVars
<1>7. ASSUME NEW x \in Adder, ReleaseCollected(x)
      PROVE  PathInv'
  BY <1>7, ReleaseCounts DEF ReleaseCollected, Forget, addVars, removeVars
<1>8. ASSUME NEW x \in Adder,
             \/ Register(x) \/ Refused(x) \/ CacheTorrent(x) \/ EndAdd(x)
             \/ BeginClose(x) \/ FinishClose(x) \/ PublishMetadata(x)
      PROVE  PathInv'
  BY <1>8, PathFrame DEF Register, Refused, CacheTorrent, EndAdd, BeginClose,
     FinishClose, PublishMetadata, addVars, removeVars, sessVars
<1>9. ASSUME NEW t \in Torrent,
             \/ \E deleteFiles \in setup.deletes : BeginRemove(t, deleteFiles)
             \/ SessionClosed(t) \/ Uncache(t) \/ EndRemove(t)
      PROVE  PathInv'
  <2>1. \A u \in Torrent : rpc[u] = "deleting" => rpc'[u] = "deleting"
    BY <1>9 DEF BeginRemove, removing, SessionClosed, Uncache, EndRemove,
       SessionInv, TypeOK, RemoveTypeOK
  <2> QED
    BY <1>9, <2>1, PathFrame DEF BeginRemove, SessionClosed, Uncache, EndRemove,
       addVars, sessVars
<1>10. CASE SaveNext
  <2>1. \A o \in Saver : SaveReturns(o) /\ (o \in Torrent => rpc[o] = "saving") =>
          \A u \in Torrent : rpc[u] = "deleting" => rpc'[u] = "deleting"
    BY DEF SaveReturns
  <2>2. ASSUME NEW o \in Saver, SaveState(o)
        PROVE  \A u \in Torrent : rpc[u] = "deleting" => rpc'[u] = "deleting"
    <3>1. o \in Torrent => rpc[o] = "saving"
      BY <2>2, ManagerAssumption DEF SaveState, WantsToSave
    <3> QED
      BY <2>1, <2>2, <3>1 DEF SaveState
  <2>3. ASSUME WriteState
        PROVE  \A u \in Torrent : rpc[u] = "deleting" => rpc'[u] = "deleting"
    BY <2>1, <2>3 DEF WriteState, SessionInv, WriterInv, TypeOK, SaveTypeOK
  <2>4. ASSUME NEW o \in Saver, SaveState(o)
        PROVE  PathInv'
    BY <2>2, <2>4, PathFrame DEF SaveState, addVars, sessVars
  <2>5. CASE WriteState
    BY <2>3, <2>5, PathFrame DEF WriteState, addVars, sessVars
  <2>6. CASE TakeUnsynced \/ SyncCachedTorrents \/ \E t \in Torrent : EnsureCachedTorrent(t)
    BY <2>6, PathFrame DEF TakeUnsynced, SyncCachedTorrents, EnsureCachedTorrent,
       addVars, sessVars, removeVars
  <2> QED
    BY <1>10, <2>4, <2>5, <2>6 DEF SaveNext
<1>11. CASE \/ LoopTakesRequest \/ StartClose \/ CollectSessions \/ CloseReturns
            \/ UNCHANGED vars
  BY <1>11, PathFrame DEF LoopTakesRequest, StartClose, CollectSessions,
     CloseReturns, vars, addVars, sessVars, removeVars
<1> QED
  BY <1>1, <1>2, <1>3, <1>4, <1>5, <1>6, <1>7, <1>8, <1>9, <1>10, <1>11,
     ClaimFreePathsCounts, FilesDeletedCounts
     DEF Next, AddNext, SessionNext, RemoveNext, CloseNext

\* Holders are counted by claims, reservations by deletions.
LEMMA PathSafety == Spec => [](SessionInv /\ PathInv)
<1>1. ManagerInit => SessionInv /\ PathInv
  BY InitSessionInv, InitPathInv
<1>2. SessionInv /\ PathInv /\ [Next]_vars => (SessionInv /\ PathInv)'
  BY SessionStep, PathStep
<1> QED
  BY <1>1, <1>2, PTL DEF Spec

\* TorrentManager is typed, in every behaviour of its specification.
THEOREM ManagerTyped == Spec => []TypeOK
<1>1. SessionInv => TypeOK
  BY DEF SessionInv
<1> QED
  BY <1>1, SessionSafety, PTL

\* No deletion touches a path that a session of another torrent has open: the
\* session's claim outlives its storage, and a claim of another torrent and the
\* reservation of a deletion exclude each other, whichever came first.
THEOREM DeletionSafety == Spec => []DeletionSparesOthers
<1>1. SessionInv /\ PathInv => DeletionSparesOthers
  <2> SUFFICES ASSUME SessionInv, PathInv, NEW t \in Torrent, NEW x \in storage,
                      target[x] # t, NEW p \in PathsOf[target[x]], p \in rfree[t]
               PROVE  FALSE
    BY DEF DeletionSparesOthers
  <2>1. x \in Adder /\ x \in claimed /\ target[x] \in Torrent
    BY DEF SessionInv, TypeOK, SessionTypeOK, AddInv, StorageInv
  <2>2. x \in ClaimsOf(target[x])
    BY <2>1 DEF ClaimsOf
  <2>3. holders[p][target[x]] # 0
    BY <2>1, <2>2, FiniteSets, FS_EmptySet DEF PathInv
  <2> QED
    BY <2>1, <2>3 DEF PathInv
<1> QED
  BY <1>1, PathSafety, PTL

\* Claims and reservations are counted exactly, and whoever still holds paths
\* or storage is registered or waited for by a call that will release them.
THEOREM ClaimsSafety == Spec => []ClaimsMatchSessions
<1>1. SessionInv /\ PathInv => ClaimsMatch
  BY DEF SessionInv, StorageInv, TypeOK, SessionTypeOK, PathInv, ClaimsOf, Deleters,
     ClaimsMatch
<1>2. SessionInv => NothingLeaks
  <2> SUFFICES ASSUME SessionInv, NEW x \in claimed \cup storage, apc[x] = "idle"
               PROVE  x \in Range(sessions) \cup Range(replaced) \cup Range(rsess) \cup collected
    BY DEF NothingLeaks
  <2>1. x \in Adder /\ life[x] # "absent"
    BY DEF SessionInv, TypeOK, SessionTypeOK, StorageInv
  <2>2. CASE life[x] = "live"
    <3>1. sessions[target[x]] = x /\ target[x] \in Torrent
      BY <2>1, <2>2 DEF SessionInv, AddInv, CloserInv, AwaitedInv
    <3> QED
      BY <3>1 DEF Range, SessionInv, TypeOK, MapTypeOK
  <2>3. CASE life[x] # "live"
    <3>1. life[x] \in Ending
      BY <2>1, <2>3 DEF Ending, SessionInv, TypeOK, SessionTypeOK
    <3>2. \/ \E y \in Adder : replaced[y] = x
          \/ \E t \in Torrent : rsess[t] = x
          \/ x \in collected
      BY <2>1, <3>1 DEF SessionInv, CloserInv, AwaitedInv
    <3> QED
      BY <3>2 DEF Range, SessionInv, TypeOK, AddTypeOK, RemoveTypeOK
  <2> QED
    BY <2>2, <2>3
<1>3. SessionInv /\ PathInv => ClaimsMatchSessions
  BY <1>1, <1>2 DEF ClaimsMatchSessions, SessionInv
<1> QED
  BY <1>3, PathSafety, PTL

-----------------------------------------------------------------------------
(* What is saved.                                                          *)

Known == Registered \cup failedTorrents

\* A torrent that is being removed is out of the maps.
RemovalInv == \A t \in Torrent : removing(t) => t \notin Known

\* Three facts about all steps: who changes the maps, who changes what is
\* saved, and who changes the cached copies.
LEMMA MapFrame ==
  ASSUME SessionInv, [Next]_vars
  PROVE  /\ setup' = setup
         /\ closed => closed'
         /\ \/ \E x \in Adder : Register(x)
            \/ \E t \in Torrent, d \in setup.deletes : BeginRemove(t, d)
            \/ \E t \in Torrent : EndRemove(t)
            \/ CollectSessions
            \/ UNCHANGED mapVars /\ \A t \in Torrent : removing(t)' <=> removing(t)
<1>1. ASSUME NEW x \in Adder, AddNext(x) \/ SessionNext(x) \/ ClaimForMetadata(x)
      PROVE  /\ UNCHANGED <<rpc, closeVars>>
             /\ Register(x) \/ UNCHANGED mapVars
  BY <1>1 DEF AddNext, SessionNext, ClaimPaths, BuildStorage, Refused, Register,
     ReleaseReplaced, CacheTorrent, EndAdd, BeginClose, FinishClose,
     BuildForMetadata, PublishMetadata, ClaimForMetadata, removeVars
<1>2. ASSUME NEW x \in Adder, NEW t \in Torrent, NEW kind \in setup.kinds,
             StartAdd(x, t, kind)
      PROVE  UNCHANGED <<rpc, closeVars, mapVars>>
  BY <1>2 DEF StartAdd, removeVars
<1>3. ASSUME NEW t \in Torrent, RemoveNext(t), ~EndRemove(t)
      PROVE  /\ UNCHANGED <<closeVars, mapVars>>
             /\ \A u \in Torrent : removing(u)' <=> removing(u)
  BY <1>3 DEF RemoveNext, SessionClosed, ClaimFreePaths, FilesDeleted,
     ReleaseRemoved, Uncache, removing, SessionInv, TypeOK, RemoveTypeOK
<1>4. ASSUME NEW o \in Saver, SaveState(o)
      PROVE  /\ UNCHANGED <<setup, mapVars>> /\ (closed => closed')
             /\ \A u \in Torrent : removing(u)' <=> removing(u)
  <2>1. o \in Torrent => rpc[o] = "saving"
    BY <1>4, ManagerAssumption DEF SaveState, WantsToSave
  <2> QED
    BY <1>4, <2>1 DEF SaveState, SaveReturns, closed, removing
<1>5. ASSUME WriteState
      PROVE  /\ UNCHANGED <<setup, mapVars>> /\ (closed => closed')
             /\ \A u \in Torrent : removing(u)' <=> removing(u)
  <2>1. writeMu \in Torrent => rpc[writeMu] = "saving"
    BY DEF SessionInv, WriterInv
  <2> QED
    BY <1>5, <2>1 DEF WriteState, SaveReturns, closed, removing
<1>6. CASE \/ TakeUnsynced \/ SyncCachedTorrents \/ LoopTakesRequest
           \/ \E t \in Torrent : EnsureCachedTorrent(t)
  BY <1>6 DEF TakeUnsynced, SyncCachedTorrents, LoopTakesRequest,
     EnsureCachedTorrent, removeVars, closeVars, removing, closed
<1>7. CASE StartClose \/ CloseNext
  BY <1>7 DEF StartClose, CloseNext, CloseReturns, CollectSessions,
     ReleaseCollected, removeVars, removing, closed
<1>8. ASSUME NEW t \in Torrent, EndRemove(t) \/ \E d \in setup.deletes : BeginRemove(t, d)
      PROVE  UNCHANGED closeVars
  BY <1>8 DEF EndRemove, BeginRemove
<1>9. CASE UNCHANGED vars
  BY <1>9 DEF vars, removeVars, closeVars, removing, closed
<1>a. UNCHANGED <<rpc, closeVars>> => /\ setup' = setup /\ (closed => closed')
                                      /\ \A u \in Torrent : removing(u)' <=> removing(u)
  BY DEF closeVars, removing, closed
<1>b. UNCHANGED closeVars => setup' = setup /\ (closed => closed')
  BY DEF closeVars, closed
<1> QED
  BY <1>1, <1>2, <1>3, <1>4, <1>5, <1>6, <1>7, <1>8, <1>9, <1>a, <1>b DEF Next, SaveNext

\* Only a saver changes what a save has collected.
LEMMA SaveFrame ==
  ASSUME SessionInv, [Next]_vars, ~SaveNext
  PROVE  /\ UNCHANGED saveVars
         /\ \A t \in Torrent : rpc'[t] = "ending" => rpc[t] = "ending"
<1>1. ASSUME NEW x \in Adder, AddNext(x) \/ SessionNext(x) \/ ClaimForMetadata(x)
      PROVE  UNCHANGED <<rpc, saveVars>>
  BY <1>1 DEF AddNext, SessionNext, ClaimPaths, BuildStorage, Refused, Register,
     ReleaseReplaced, CacheTorrent, EndAdd, BeginClose, FinishClose,
     BuildForMetadata, PublishMetadata, ClaimForMetadata, removeVars
<1>2. ASSUME NEW x \in Adder, NEW t \in Torrent, NEW kind \in setup.kinds,
             StartAdd(x, t, kind)
      PROVE  UNCHANGED <<rpc, saveVars>>
  BY <1>2 DEF StartAdd, removeVars
<1>3. ASSUME NEW t \in Torrent,
             RemoveNext(t) \/ \E d \in setup.deletes : BeginRemove(t, d)
      PROVE  /\ UNCHANGED saveVars
             /\ \A u \in Torrent : rpc'[u] = "ending" => rpc[u] = "ending"
  BY <1>3 DEF RemoveNext, SessionClosed, ClaimFreePaths, FilesDeleted, EndRemove,
     ReleaseRemoved, Uncache, BeginRemove, SessionInv, TypeOK, RemoveTypeOK
<1>4. CASE LoopTakesRequest \/ StartClose \/ CloseNext
  BY <1>4 DEF LoopTakesRequest, StartClose, CloseNext, CloseReturns,
     CollectSessions, ReleaseCollected, removeVars
<1>5. CASE UNCHANGED vars
  BY <1>5 DEF vars, removeVars
<1> QED
  BY <1>1, <1>2, <1>3, <1>4, <1>5 DEF Next

\* A torrent being removed is registered under no name.
LEMMA RemovalStep ==
  ASSUME SessionInv, RemovalInv, [Next]_vars
  PROVE  RemovalInv'
<1>1. ASSUME NEW x \in Adder, Register(x)
      PROVE  RemovalInv'
  BY <1>1 DEF Register, Refuses, RemovalInv, Known, Registered, removing, removeVars,
     SessionInv, TypeOK, MapTypeOK
<1>2. ASSUME NEW t \in Torrent, NEW d \in setup.deletes, BeginRemove(t, d)
      PROVE  RemovalInv'
  BY <1>2 DEF BeginRemove, RemovalInv, Known, Registered, removing,
     SessionInv, TypeOK, MapTypeOK, RemoveTypeOK
<1>3. ASSUME NEW t \in Torrent, EndRemove(t)
      PROVE  RemovalInv'
  BY <1>3 DEF EndRemove, RemovalInv, Known, Registered, removing, mapVars,
     SessionInv, TypeOK, RemoveTypeOK
<1>4. CASE CollectSessions
  BY <1>4 DEF CollectSessions, RemovalInv, Known, Registered, removing, removeVars
<1>5. CASE UNCHANGED mapVars /\ \A t \in Torrent : removing(t)' <=> removing(t)
  BY <1>5 DEF RemovalInv, Known, Registered, mapVars
<1> QED
  BY <1>1, <1>2, <1>3, <1>4, <1>5, MapFrame

\* What could not be restored is only ever taken off the list.
LEMMA FailedShrinks ==
  ASSUME SessionInv, [Next]_vars
  PROVE  failedTorrents' \subseteq failedTorrents
  BY MapFrame DEF Register, BeginRemove, EndRemove, CollectSessions, mapVars

\* What becomes of a torrent that is known or being removed.
LEMMA KnownFrame ==
  ASSUME SessionInv, [Next]_vars, NEW t \in Torrent
  PROVE  /\ t \in Known => t \in Known' \/ removing(t)' \/ closed'
         /\ removing(t) => removing(t)' \/ rpc[t] = "ending"
<1>1. ASSUME NEW x \in Adder, Register(x)
      PROVE  /\ Known \subseteq Known'
             /\ UNCHANGED rpc
  BY <1>1, NoNone DEF Register, Known, Registered, removeVars, SessionInv, TypeOK, MapTypeOK
<1>2. ASSUME NEW u \in Torrent, NEW d \in setup.deletes, BeginRemove(u, d)
      PROVE  /\ Known \subseteq Known' \cup {u} /\ removing(u)'
             /\ removing(t) => removing(t)'
  BY <1>2 DEF BeginRemove, Known, Registered, removing, SessionInv, TypeOK,
     MapTypeOK, RemoveTypeOK
<1>3. ASSUME NEW u \in Torrent, EndRemove(u)
      PROVE  /\ Known' = Known
             /\ removing(t) => removing(t)' \/ rpc[t] = "ending"
  BY <1>3 DEF EndRemove, Known, Registered, removing, mapVars, SessionInv, TypeOK, RemoveTypeOK
<1>4. CASE CollectSessions
  BY <1>4 DEF CollectSessions, closed, removing, removeVars
<1>5. CASE UNCHANGED mapVars /\ \A u \in Torrent : removing(u)' <=> removing(u)
  BY <1>5 DEF Known, Registered, mapVars
<1> QED
  BY <1>1, <1>2, <1>3, <1>4, <1>5, MapFrame DEF removing

\* What session.json lists, and what is about to be written to it: nothing that
\* is gone, and once a removal has saved, not what it removed.
ListInv ==
  /\ phase = "none" => snapshot = {}
  /\ \A t \in snapshot : t \in Known \/ removing(t) \/ closed
  /\ \A t \in sessionJson : t \in Known \/ removing(t) \/ stale \/ closed
  /\ \A t \in Torrent : writeMu = t => t \notin snapshot
  /\ \A t \in Torrent : rpc[t] = "ending" =>
       closed \/ (t \notin snapshot /\ (t \notin sessionJson \/ stale))
  /\ ~setup.persistent =>
       sessionJson = {} /\ snapshot = {} /\ failedTorrents = {}

\* session.json at the start lists what could not be restored.
LEMMA InitListInv == ManagerInit => RemovalInv /\ ListInv
<1> SUFFICES ASSUME ManagerInit PROVE RemovalInv /\ ListInv
  OBVIOUS
<1>1. ~setup.persistent => failedTorrents = {}
  BY SetupType DEF ManagerInit
<1> QED
  BY <1>1, NoNone DEF ManagerInit, RemovalInv, ListInv, Known, removing

\* A save takes down what is known when it has writeMu.
LEMMA SaveStateList ==
  ASSUME SessionInv, RemovalInv, ListInv, NEW o \in Saver, SaveState(o)
  PROVE  ListInv'
<1>1. /\ o \in Torrent => rpc[o] = "saving"
      /\ o = "close" => cpc = "saving"
      /\ writeMu = None /\ phase = "none" /\ snapshot = {}
  BY ManagerAssumption DEF SaveState, WantsToSave, SessionInv, WriterInv, ListInv
<1>2. /\ UNCHANGED <<setup, mapVars, sessionJson, stale>>
      /\ Known' = Known
      /\ setup' = setup /\ failedTorrents' = failedTorrents
  BY DEF SaveState, Known, Registered, mapVars, saveVars
<1>3. CASE ~setup.persistent \/ (closed /\ o # "close")
  <2>1. SaveReturns(o) /\ UNCHANGED saveVars
    BY <1>3 DEF SaveState
  <2>2. /\ \A t \in Torrent : rpc'[t] = IF t = o THEN "ending" ELSE rpc[t]
        /\ closed => closed'
    BY <1>1, <2>1 DEF SaveReturns, closed
  <2>3. \A t \in Torrent : removing(t)' <=> removing(t)
    BY <1>1, <2>2 DEF removing
  <2>4. CASE closed
    BY <1>1, <1>2, <2>1, <2>2, <2>4, NoNone DEF ListInv, saveVars
  <2>5. CASE ~closed
    <3>1. sessionJson = {} /\ failedTorrents = {}
      BY <1>3, <2>5 DEF ListInv
    <3> QED
      BY <1>1, <1>2, <2>1, <3>1, NoNone DEF ListInv, saveVars
  <2> QED
    BY <2>4, <2>5
<1>4. CASE ~(~setup.persistent \/ (closed /\ o # "close"))
  <2>1. /\ writeMu' = o /\ phase' = "ensuring" /\ snapshot' = Known
        /\ UNCHANGED <<rpc, cpc>> /\ setup.persistent
    BY <1>4 DEF SaveState, Snapshot, Known
  <2>2. closed' = closed /\ \A t \in Torrent : removing(t)' <=> removing(t)
    BY <2>1 DEF removing, closed
  <2>3. \A t \in Torrent : rpc[t] \in {"saving", "ending"} => t \notin Known
    BY DEF RemovalInv, removing
  <2>4. sessionJson \subseteq Torrent
    BY DEF SessionInv, TypeOK, SaveTypeOK
  <2>5. \A t \in sessionJson : t \in Known \/ removing(t)' \/ stale \/ closed'
    BY <2>2, <2>4 DEF ListInv
  <2>6. \A t \in Torrent : rpc'[t] = "ending" =>
          closed' \/ (t \notin Known /\ (t \notin sessionJson \/ stale))
    BY <2>1, <2>2, <2>3 DEF ListInv
  <2> QED
    BY <1>1, <1>2, <2>1, <2>3, <2>5, <2>6 DEF ListInv
<1> QED
  BY <1>3, <1>4

\* What a writer leaves in session.json was known, or is being removed by a call
\* whose own save still follows.
LEMMA WriteStateList ==
  ASSUME SessionInv, RemovalInv, ListInv, WriteState
  PROVE  ListInv'
<1>1. /\ \A t \in Torrent : writeMu = t => rpc[t] = "saving"
      /\ phase' = "none" /\ snapshot' = {} /\ writeMu' = None
      /\ \A t \in Torrent : rpc'[t] = IF t = writeMu THEN "ending" ELSE rpc[t]
      /\ closed => closed'
      /\ Known' = Known /\ setup' = setup /\ failedTorrents' = failedTorrents
  BY DEF WriteState, SaveReturns, SessionInv, WriterInv, closed, Known, Registered, mapVars
<1>2. \A t \in Torrent : removing(t)' <=> removing(t)
  BY <1>1 DEF removing
<1>3. sessionJson \subseteq Torrent /\ snapshot \subseteq Torrent
  BY DEF SessionInv, TypeOK, SaveTypeOK
<1>4. CASE sessionJson' = snapshot /\ stale' = FALSE
  <2>1. \A t \in snapshot : t \in Known \/ removing(t)' \/ closed'
    BY <1>1, <1>2, <1>3 DEF ListInv
  <2>2. \A t \in Torrent : rpc'[t] = "ending" => closed' \/ t \notin snapshot
    BY <1>1 DEF ListInv
  <2>3. ~setup.persistent => snapshot = {} /\ failedTorrents = {}
    BY DEF ListInv
  <2> QED
    BY <1>1, <1>4, <2>1, <2>2, <2>3, NoNone DEF ListInv
<1>5. CASE stale' = TRUE /\ sessionJson' = sessionJson
  BY <1>1, <1>5, NoNone DEF ListInv
<1> QED
  BY <1>4, <1>5 DEF WriteState

\* Every step keeps what session.json may list.
LEMMA ListStep ==
  ASSUME SessionInv, RemovalInv, ListInv, [Next]_vars
  PROVE  ListInv'
<1>1. setup' = setup /\ (closed => closed') /\ failedTorrents' \subseteq failedTorrents
  BY MapFrame, FailedShrinks
<1>2. /\ \A t \in Torrent : t \in Known => t \in Known' \/ removing(t)' \/ closed'
      /\ \A t \in Torrent : removing(t) => removing(t)' \/ rpc[t] = "ending"
  BY KnownFrame
<1>3. sessionJson \subseteq Torrent /\ snapshot \subseteq Torrent
  BY DEF SessionInv, TypeOK, SaveTypeOK
<1>4. ASSUME UNCHANGED <<phase, writeMu, snapshot, sessionJson, stale>>,
             \A t \in Torrent : rpc'[t] = "ending" => rpc[t] = "ending"
      PROVE  ListInv'
  <2>1. \A t \in snapshot : t \in Known' \/ removing(t)' \/ closed'
    BY <1>1, <1>2, <1>3 DEF ListInv
  <2>2. \A t \in sessionJson : t \in Known' \/ removing(t)' \/ stale \/ closed'
    BY <1>1, <1>2, <1>3 DEF ListInv
  <2>3. ~setup.persistent => failedTorrents' = {} /\ sessionJson = {} /\ snapshot = {}
    BY <1>1 DEF ListInv
  <2>4. \A t \in Torrent : rpc'[t] = "ending" =>
          closed' \/ (t \notin snapshot /\ (t \notin sessionJson \/ stale))
    BY <1>1, <1>4 DEF ListInv
  <2>5. (phase = "none" => snapshot = {}) /\ \A t \in Torrent : writeMu = t => t \notin snapshot
    BY DEF ListInv
  <2> QED
    BY <1>1, <1>4, <2>1, <2>2, <2>3, <2>4, <2>5 DEF ListInv
<1>5. CASE ~SaveNext
  BY <1>4, <1>5, SaveFrame DEF saveVars
<1>6. CASE TakeUnsynced \/ SyncCachedTorrents \/ \E t \in Torrent : EnsureCachedTorrent(t)
  <2>1. phase # "none" /\ phase' # "none" /\ UNCHANGED <<rpc, writeMu, snapshot, sessionJson, stale>>
    BY <1>6 DEF TakeUnsynced, SyncCachedTorrents, EnsureCachedTorrent, removeVars
  <2>2. \A t \in snapshot : t \in Known' \/ removing(t)' \/ closed'
    BY <1>1, <1>2, <1>3 DEF ListInv
  <2>3. \A t \in sessionJson : t \in Known' \/ removing(t)' \/ stale \/ closed'
    BY <1>1, <1>2, <1>3 DEF ListInv
  <2>4. ~setup.persistent => failedTorrents' = {} /\ sessionJson = {} /\ snapshot = {}
    BY <1>1 DEF ListInv
  <2>5. \A t \in Torrent : rpc'[t] = "ending" =>
          closed' \/ (t \notin snapshot /\ (t \notin sessionJson \/ stale))
    BY <1>1, <2>1 DEF ListInv
  <2>6. \A t \in Torrent : writeMu = t => t \notin snapshot
    BY DEF ListInv
  <2> QED
    BY <1>1, <2>1, <2>2, <2>3, <2>4, <2>5, <2>6 DEF ListInv
<1> QED
  BY <1>5, <1>6, SaveStateList, WriteStateList DEF SaveNext

\* The cached copies: none of a torrent that is gone, and none once a removal
\* has deleted it.
CacheInv ==
  /\ NoStrayCache
  /\ \A t \in Torrent : rpc[t] \in {"saving", "ending"} => cached[t] = "none"

\* There is no cached copy at the start but of what could not be restored.
LEMMA InitCacheInv == ManagerInit => CacheInv
  BY DEF ManagerInit, CacheInv, NoStrayCache, Known, removing

\* Only the add of a registered torrent, and a save while it is registered, give
\* a torrent a copy that it has not.
LEMMA CacheFrame ==
  ASSUME SessionInv, [Next]_vars, NEW t \in Torrent
  PROVE  /\ cached[t] = "none" /\ cached'[t] # "none" => sessions[t] # None /\ UNCHANGED mapVars
         /\ rpc'[t] \in {"saving", "ending"} =>
              rpc[t] \in {"saving", "ending"} \/ cached'[t] = "none"
<1>1. ASSUME NEW x \in Adder, CacheTorrent(x)
      PROVE  /\ UNCHANGED <<rpc, mapVars>>
             /\ cached'[t] # cached[t] => sessions[t] # None
  BY <1>1, NoNone DEF CacheTorrent, SessionRegistered, removeVars, cacheVars,
     SessionInv, TypeOK, SaveTypeOK
<1>2. ASSUME NEW x \in Adder, AddNext(x) \/ SessionNext(x) \/ ClaimForMetadata(x),
             ~CacheTorrent(x)
      PROVE  UNCHANGED <<rpc, cached>>
  BY <1>2 DEF AddNext, SessionNext, ClaimPaths, BuildStorage, Refused, Register,
     ReleaseReplaced, EndAdd, BeginClose, FinishClose,
     BuildForMetadata, PublishMetadata, ClaimForMetadata, removeVars, cacheVars
<1>3. ASSUME NEW x \in Adder, NEW u \in Torrent, NEW kind \in setup.kinds,
             StartAdd(x, u, kind)
      PROVE  UNCHANGED <<rpc, cached>>
  BY <1>3 DEF StartAdd, removeVars, cacheVars
<1>4. ASSUME NEW u \in Torrent, Uncache(u)
      PROVE  /\ cached'[t] \in {"none", cached[t]}
             /\ rpc'[t] \in {"saving", "ending"} =>
                  rpc[t] \in {"saving", "ending"} \/ cached'[t] = "none"
  BY <1>4 DEF Uncache, SessionInv, TypeOK, RemoveTypeOK, SaveTypeOK
<1>5. ASSUME NEW u \in Torrent, ~Uncache(u),
             RemoveNext(u) \/ \E d \in setup.deletes : BeginRemove(u, d)
      PROVE  /\ UNCHANGED cached
             /\ rpc'[t] \in {"saving", "ending"} => rpc[t] \in {"saving", "ending"}
  BY <1>5 DEF RemoveNext, SessionClosed, ClaimFreePaths, FilesDeleted, EndRemove,
     ReleaseRemoved, BeginRemove, cacheVars, SessionInv, TypeOK, RemoveTypeOK
<1>6. ASSUME NEW o \in Saver, SaveState(o)
      PROVE  /\ UNCHANGED cached
             /\ rpc'[t] \in {"saving", "ending"} => rpc[t] \in {"saving", "ending"}
  <2>1. o \in Torrent => rpc[o] = "saving"
    BY <1>6, ManagerAssumption DEF SaveState, WantsToSave
  <2> QED
    BY <1>6, <2>1 DEF SaveState, SaveReturns, cacheVars
<1>7. CASE WriteState
  BY <1>7 DEF WriteState, SaveReturns, cacheVars, SessionInv, WriterInv
<1>8. CASE SyncCachedTorrents
  BY <1>8 DEF SyncCachedTorrents, removeVars
<1>9. ASSUME NEW u \in Torrent, EnsureCachedTorrent(u)
      PROVE  /\ UNCHANGED <<rpc, mapVars>>
             /\ cached'[t] # cached[t] => sessions[t] # None
  BY <1>9 DEF EnsureCachedTorrent, removeVars, SessionInv, TypeOK, SaveTypeOK
<1>10. CASE LoopTakesRequest \/ TakeUnsynced \/ StartClose \/ CloseNext \/ UNCHANGED vars
  BY <1>10 DEF LoopTakesRequest, TakeUnsynced, StartClose, CloseNext, CloseReturns,
     CollectSessions, ReleaseCollected, removeVars, cacheVars, vars
<1> QED
  BY <1>1, <1>2, <1>3, <1>4, <1>5, <1>6, <1>7, <1>8, <1>9, <1>10 DEF Next, SaveNext

\* Every step keeps whose copies there are.
LEMMA CacheStep ==
  ASSUME SessionInv, RemovalInv, CacheInv, [Next]_vars
  PROVE  CacheInv'
<1>1. ASSUME NEW t \in Torrent, cached'[t] # "none"
      PROVE  t \in Known' \/ removing(t)' \/ closed'
  <2>1. CASE cached[t] = "none"
    BY <1>1, <2>1, CacheFrame DEF Known, Registered, mapVars
  <2>2. CASE cached[t] # "none"
    <3>1. t \in Known \/ removing(t) \/ closed
      BY <2>2 DEF CacheInv, NoStrayCache, Known
    <3>2. rpc[t] # "ending"
      BY <2>2 DEF CacheInv
    <3> QED
      BY <3>1, <3>2, KnownFrame, MapFrame
  <2> QED
    BY <2>1, <2>2
<1>2. ASSUME NEW t \in Torrent, rpc'[t] \in {"saving", "ending"}
      PROVE  cached'[t] = "none"
  <2>1. CASE rpc[t] \in {"saving", "ending"}
    <3>1. cached[t] = "none" /\ sessions[t] = None
      BY <2>1 DEF CacheInv, RemovalInv, removing, Known, Registered
    <3> QED
      BY <3>1, CacheFrame
  <2>2. CASE rpc[t] \notin {"saving", "ending"}
    BY <1>2, <2>2, CacheFrame
  <2> QED
    BY <2>1, <2>2
<1> QED
  BY <1>1, <1>2 DEF CacheInv, NoStrayCache, Known

ManagerInv == SessionInv /\ RemovalInv /\ ListInv /\ CacheInv

\* Sessions, session.json and cached copies are in step with the removals.
LEMMA ManagerSafety == Spec => []ManagerInv
<1>1. ManagerInit => ManagerInv
  BY InitSessionInv, InitListInv, InitCacheInv DEF ManagerInv
<1>2. ManagerInv /\ [Next]_vars => ManagerInv'
  BY SessionStep, RemovalStep, ListStep, CacheStep DEF ManagerInv
<1> QED
  BY <1>1, <1>2, PTL DEF Spec

\* What is removed stays removed: a removal's own save lists it no more, every
\* save that could still be writing it has ended by then, and no slower add or
\* save gives it a cached copy again.
THEOREM RemovalSafety == Spec => []RemovedIsGone
<1>1. ManagerInv => RemovedIsGone
  BY DEF ManagerInv, ListInv, CacheInv, RemovedIsGone, NoStraySession, Known
<1> QED
  BY <1>1, ManagerSafety, PTL

-----------------------------------------------------------------------------
(* What is idle is saved.                                                  *)

\* A save will start that has read nothing yet.
Pending == \/ saveStateCh \/ (loopSaves /\ writeMu # "loop")
           \/ closed \/ ~setup.persistent

\* The call that registered t's session has yet to ask for a save.
Adding(t) == /\ sessions[t] # None
             /\ apc[sessions[t]] \in {"replacing", "caching", "requesting"}

\* The last write, or the one under way, is right about t...
Written == IF phase = "none" THEN sessionJson ELSE snapshot
Listed(t) == \/ t \in Written <=> t \in Known
             \/ stale /\ phase = "none"

\* ...and t has a durable copy, or the save under way makes one.
Durable(t) ==
  t \in Registered /\ KnowsFiles(sessions[t]) =>
    \/ cached[t] = "synced"
    \/ phase = "ensuring" /\ (t \in toEnsure \/ cached[t] = "unsynced")
    \/ phase = "syncing" /\ cached[t] = "unsynced" /\ t \in toSync

SavedInv(t) ==
  \/ Pending \/ Adding(t)
  \/ (removing(t) \/ Listed(t)) /\ Durable(t)

UnsyncedInv ==
  \A t \in Torrent : cached[t] = "unsynced" =>
    t \in unsyncedCache \/ (phase = "syncing" /\ t \in toSync)

IdleInv == UnsyncedInv /\ \A t \in Torrent : SavedInv(t)

\* What the start finds is saved.
LEMMA InitIdleInv == ManagerInit => IdleInv
  BY DEF ManagerInit, IdleInv, UnsyncedInv, SavedInv, Listed, Durable, Written,
     Known, Registered

\* An unsynced copy stays on a list until it is synced.
LEMMA UnsyncedStep ==
  ASSUME SessionInv, UnsyncedInv, [Next]_vars
  PROVE  UnsyncedInv'
<1>1. ASSUME NEW x \in Adder, CacheTorrent(x)
      PROVE  UnsyncedInv'
  BY <1>1 DEF CacheTorrent, UnsyncedInv, cacheVars, saveVars, SessionInv, TypeOK, SaveTypeOK
<1>2. ASSUME NEW x \in Adder, AddNext(x) \/ SessionNext(x) \/ ClaimForMetadata(x),
             ~CacheTorrent(x)
      PROVE  UNCHANGED <<cacheVars, saveVars>>
  BY <1>2 DEF AddNext, SessionNext, ClaimPaths, BuildStorage, Refused, Register,
     ReleaseReplaced, EndAdd, BeginClose, FinishClose,
     BuildForMetadata, PublishMetadata, ClaimForMetadata
<1>3. ASSUME NEW x \in Adder, NEW u \in Torrent, NEW kind \in setup.kinds,
             StartAdd(x, u, kind)
      PROVE  UNCHANGED <<cacheVars, saveVars>>
  BY <1>3 DEF StartAdd
<1>4. ASSUME NEW u \in Torrent, Uncache(u)
      PROVE  UnsyncedInv'
  BY <1>4 DEF Uncache, UnsyncedInv, saveVars, SessionInv, TypeOK, SaveTypeOK
<1>5. ASSUME NEW u \in Torrent, ~Uncache(u),
             RemoveNext(u) \/ \E d \in setup.deletes : BeginRemove(u, d)
      PROVE  UNCHANGED <<cacheVars, saveVars>>
  BY <1>5 DEF RemoveNext, SessionClosed, ClaimFreePaths, FilesDeleted, EndRemove,
     ReleaseRemoved, BeginRemove
<1>6. ASSUME NEW o \in Saver, SaveState(o)
      PROVE  UnsyncedInv'
  <2>1. phase = "none"
    BY <1>6 DEF SaveState, SessionInv, WriterInv
  <2> QED
    BY <1>6, <2>1 DEF SaveState, UnsyncedInv, cacheVars, saveVars
<1>7. CASE WriteState
  BY <1>7 DEF WriteState, UnsyncedInv, cacheVars
<1>8. CASE SyncCachedTorrents
  BY <1>8 DEF SyncCachedTorrents, UnsyncedInv, SessionInv, TypeOK, SaveTypeOK
<1>9. ASSUME NEW u \in Torrent, EnsureCachedTorrent(u)
      PROVE  UnsyncedInv'
  BY <1>9 DEF EnsureCachedTorrent, UnsyncedInv, SessionInv, TypeOK, SaveTypeOK
<1>10. CASE TakeUnsynced
  BY <1>10 DEF TakeUnsynced, UnsyncedInv
<1>11. CASE LoopTakesRequest \/ StartClose \/ CloseNext \/ UNCHANGED vars
  <2>1. UNCHANGED <<cacheVars, saveVars>>
    BY <1>11 DEF LoopTakesRequest, StartClose, CloseNext, CloseReturns,
       CollectSessions, ReleaseCollected, vars
  <2> QED
    BY <2>1 DEF UnsyncedInv, cacheVars, saveVars
<1>12. UNCHANGED <<cacheVars, saveVars>> => UnsyncedInv'
  BY DEF UnsyncedInv, cacheVars, saveVars
<1> QED
  BY <1>1, <1>2, <1>3, <1>4, <1>5, <1>6, <1>7, <1>8, <1>9, <1>10, <1>11, <1>12
     DEF Next, SaveNext

\* Steps of the calls of add and of the sessions, for a torrent t.
LEMMA SavedAdd ==
  ASSUME ManagerInv, NEW t \in Torrent, SavedInv(t),
         NEW x \in Adder,
         \/ AddNext(x) \/ SessionNext(x) \/ ClaimForMetadata(x)
         \/ \E u \in Torrent, kind \in setup.kinds : StartAdd(x, u, kind)
  PROVE  SavedInv(t)'
<1> USE DEF ManagerInv
<1>1. /\ UNCHANGED <<saveVars, loopSaves, closeVars, rpc, failedTorrents>>
      /\ saveStateCh => saveStateCh'
  <2>1. UNCHANGED <<saveVars, loopSaves, closeVars, rpc, failedTorrents>>
    BY DEF AddNext, SessionNext, StartAdd, ClaimPaths, BuildStorage, Register, Refused,
       ReleaseReplaced, CacheTorrent, EndAdd, BeginClose, FinishClose, ClaimForMetadata,
       BuildForMetadata, PublishMetadata, requestVars, mapVars, removeVars
  <2>2. UNCHANGED saveStateCh \/ RequestSaveState
    BY DEF AddNext, SessionNext, StartAdd, ClaimPaths, BuildStorage, Register, Refused,
       ReleaseReplaced, CacheTorrent, EndAdd, BeginClose, FinishClose, ClaimForMetadata,
       BuildForMetadata, PublishMetadata, requestVars
  <2>3. RequestSaveState => (saveStateCh => saveStateCh')
    BY DEF RequestSaveState
  <2> QED
    BY <2>1, <2>2, <2>3
<1>2. Pending => Pending'
  BY <1>1 DEF Pending, closed, closeVars, saveVars
<1>3. Written' = Written /\ (removing(t)' <=> removing(t))
  BY <1>1 DEF Written, saveVars, removing
<1>4. ASSUME UNCHANGED <<sessions, cached>>,
             sessions[t] # None => /\ Adding(t) => Adding(t)'
                                   /\ KnowsFiles(sessions[t])' => KnowsFiles(sessions[t])
      PROVE  SavedInv(t)'
  <2>1. Known' = Known /\ Registered' = Registered
    BY <1>1, <1>4 DEF Known, Registered
  <2>2. Adding(t) => Adding(t)'
    BY <1>4 DEF Adding
  <2>3. Listed(t)' <=> Listed(t)
    BY <1>1, <1>3, <2>1 DEF Listed, saveVars
  <2>4. Durable(t) => Durable(t)'
    BY <1>1, <1>4, <2>1 DEF Durable, Registered, saveVars
  <2> QED
    BY <1>2, <1>3, <2>2, <2>3, <2>4 DEF SavedInv
<1>5. sessions[t] # None => /\ sessions[t] \in Adder /\ life[sessions[t]] = "live"
                            /\ target[sessions[t]] = t
                            /\ apc[sessions[t]] \notin {"built", "claiming", "building", "refused"}
  BY DEF SessionInv, AddInv, CloserInv, RegisteredInv, ReplacedInv, TypeOK, MapTypeOK, Ending
<1>6. CASE Register(x)
  <2>1. CASE target[x] = t
    BY <1>6, <2>1, NoNone DEF Register, SavedInv, Adding, SessionInv, TypeOK, MapTypeOK, AddTypeOK
  <2>2. CASE target[x] # t
    <3>1. sessions'[t] = sessions[t] /\ UNCHANGED <<cached, meta>>
          /\ (t \in Known' <=> t \in Known) /\ (t \in Registered' <=> t \in Registered)
      BY <1>6, <2>2 DEF Register, Known, Registered, cacheVars, SessionInv, TypeOK, MapTypeOK
    <3>2. Adding(t) => Adding(t)'
      BY <1>6, <2>2, <3>1, <1>5 DEF Register, Adding, SessionInv, TypeOK, AddTypeOK
    <3>3. (Listed(t)' <=> Listed(t)) /\ (Durable(t)' <=> Durable(t))
      BY <1>1, <1>3, <3>1 DEF Listed, Durable, KnowsFiles, saveVars
    <3> QED
      BY <1>2, <1>3, <3>2, <3>3 DEF SavedInv
  <2> QED
    BY <2>1, <2>2
<1>7. CASE CacheTorrent(x)
  <2>1. CASE sessions[t] = x
    BY <1>7, <2>1, <1>5, NoNone DEF CacheTorrent, SavedInv, Adding, mapVars, SessionInv, TypeOK,
       AddTypeOK
  <2>2. CASE sessions[t] # x
    <3>1. UNCHANGED <<sessions, meta>> /\ Known' = Known /\ Registered' = Registered
      BY <1>7 DEF CacheTorrent, mapVars, sessVars, Known, Registered
    <3>2. cached'[t] = cached[t]
      BY <1>7, <2>2 DEF CacheTorrent, SessionRegistered, cacheVars, SessionInv, TypeOK, SaveTypeOK
    <3>3. Adding(t) => Adding(t)'
      BY <1>7, <2>2, <3>1, <1>5 DEF CacheTorrent, Adding, SessionInv, TypeOK, AddTypeOK
    <3>4. (Listed(t)' <=> Listed(t)) /\ (Durable(t)' <=> Durable(t))
      BY <1>1, <1>3, <3>1, <3>2 DEF Listed, Durable, KnowsFiles, saveVars
    <3> QED
      BY <1>2, <1>3, <3>3, <3>4 DEF SavedInv
  <2> QED
    BY <2>1, <2>2
<1>8. CASE EndAdd(x)
  BY <1>8, <1>1 DEF EndAdd, RequestSaveState, SavedInv, Pending, closed, closeVars
<1>9. CASE PublishMetadata(x)
  <2>1. CASE sessions[t] = x
    BY <1>9, <2>1, <1>1, <1>5, NoNone DEF PublishMetadata, RequestSaveState, SavedInv, Pending,
       closed, closeVars
  <2>2. CASE sessions[t] # x
    BY <1>9, <2>2, <1>4, <1>5 DEF PublishMetadata, Adding, KnowsFiles, addVars, mapVars,
       cacheVars, SessionInv, TypeOK, SessionTypeOK
  <2> QED
    BY <2>1, <2>2
<1>10. CASE \E u \in Torrent, kind \in setup.kinds : StartAdd(x, u, kind)
  BY <1>10, <1>4, <1>5 DEF StartAdd, Adding, KnowsFiles, cacheVars, mapVars, SessionInv, TypeOK,
     AddTypeOK, SessionTypeOK
<1>11. CASE ClaimPaths(x) \/ BuildStorage(x) \/ Refused(x)
  BY <1>11, <1>4, <1>5 DEF ClaimPaths, BuildStorage, Refused, Adding, KnowsFiles, cacheVars,
     mapVars, SessionInv, TypeOK, AddTypeOK
<1>12. CASE ReleaseReplaced(x)
  BY <1>12, <1>4, <1>5 DEF ReleaseReplaced, Adding, KnowsFiles, cacheVars, mapVars, SessionInv,
     TypeOK, AddTypeOK
<1>13. CASE BeginClose(x) \/ FinishClose(x)
  BY <1>13, <1>4 DEF BeginClose, FinishClose, Adding, KnowsFiles, addVars, cacheVars, mapVars
<1>14. CASE ClaimForMetadata(x) \/ BuildForMetadata(x)
  BY <1>14, <1>4, <1>5 DEF ClaimForMetadata, BuildForMetadata, Adding, KnowsFiles, addVars,
     cacheVars, mapVars, SessionInv, TypeOK, SessionTypeOK
<1> QED
  BY <1>6, <1>7, <1>8, <1>9, <1>10, <1>11, <1>12, <1>13, <1>14 DEF AddNext, SessionNext


\* Steps of a removal, of t or of another torrent.
LEMMA SavedRemoval ==
  ASSUME ManagerInv, NEW t \in Torrent, SavedInv(t),
         NEW u \in Torrent,
         RemoveNext(u) \/ \E d \in setup.deletes : BeginRemove(u, d)
  PROVE  SavedInv(t)'
<1> USE DEF ManagerInv
<1>1. /\ UNCHANGED <<saveVars, requestVars, closeVars, addVars, meta>>
      /\ Pending => Pending'
  <2>1. UNCHANGED <<saveVars, requestVars, closeVars, addVars, meta>>
    BY DEF RemoveNext, SessionClosed, ClaimFreePaths, FilesDeleted, ReleaseRemoved,
       Uncache, EndRemove, BeginRemove, sessVars
  <2> QED
    BY <2>1 DEF Pending, closed, saveVars, requestVars, closeVars
<1>2. CASE \E d \in setup.deletes : BeginRemove(u, d)
  <2>1. CASE u = t
    <3>1. removing(t)' /\ t \notin Registered'
      BY <1>2, <2>1 DEF BeginRemove, removing, Registered, SessionInv, TypeOK,
         MapTypeOK, RemoveTypeOK
    <3> QED
      BY <3>1 DEF SavedInv, Durable
  <2>2. CASE u # t
    <3>1. /\ sessions'[t] = sessions[t] /\ rpc'[t] = rpc[t] /\ UNCHANGED cached
          /\ (t \in failedTorrents' <=> t \in failedTorrents)
      BY <1>2, <2>2 DEF BeginRemove, cacheVars, SessionInv, TypeOK, MapTypeOK, RemoveTypeOK
    <3>2. (t \in Known' <=> t \in Known) /\ (t \in Registered' <=> t \in Registered)
      BY <3>1 DEF Known, Registered
    <3>3. /\ Listed(t)' <=> Listed(t)
          /\ Durable(t)' <=> Durable(t)
          /\ Adding(t)' <=> Adding(t)
          /\ removing(t)' <=> removing(t)
      BY <1>1, <3>1, <3>2 DEF Listed, Written, Durable, KnowsFiles, Adding, removing,
         saveVars, addVars
    <3> QED
      BY <1>1, <3>3 DEF SavedInv
  <2> QED
    BY <2>1, <2>2
<1>3. ASSUME RemoveNext(u)
      PROVE  SavedInv(t)'
  <2>1. UNCHANGED mapVars
    BY <1>3 DEF RemoveNext, SessionClosed, ClaimFreePaths, FilesDeleted, ReleaseRemoved,
       Uncache, EndRemove
  <2>2. /\ Known' = Known /\ Registered' = Registered
        /\ Listed(t)' <=> Listed(t)
        /\ Adding(t)' <=> Adding(t)
    BY <1>1, <2>1 DEF Known, Registered, Listed, Written, Adding, mapVars, saveVars, addVars
  <2>3. cached'[t] = cached[t] \/ t \notin Registered
    <3>1. removing(u) => u \notin Registered
      BY DEF RemovalInv, Known
    <3> QED
      BY <1>3, <3>1 DEF RemoveNext, SessionClosed, ClaimFreePaths, FilesDeleted, ReleaseRemoved,
         Uncache, EndRemove, removing, cacheVars, SessionInv, TypeOK, SaveTypeOK
  <2>4. Durable(t) => Durable(t)'
    BY <1>1, <2>1, <2>2, <2>3 DEF Durable, KnowsFiles, mapVars, saveVars
  <2>5. removing(t) => removing(t)' \/ Pending \/ Listed(t)
    <3>1. CASE EndRemove(u) /\ u = t
      <4>1. t \notin Known /\ rpc[t] = "ending"
        BY <3>1 DEF EndRemove, RemovalInv, removing
      <4> QED
        BY <4>1 DEF ListInv, Pending, Listed, Written
    <3>2. CASE ~(EndRemove(u) /\ u = t)
      BY <1>3, <3>2 DEF RemoveNext, SessionClosed, ClaimFreePaths, FilesDeleted, ReleaseRemoved,
         Uncache, EndRemove, removing, SessionInv, TypeOK, RemoveTypeOK
    <3> QED
      BY <3>1, <3>2
  <2> QED
    BY <1>1, <2>2, <2>4, <2>5 DEF SavedInv
<1> QED
  BY <1>2, <1>3

\* Steps of a save.
LEMMA SavedSave ==
  ASSUME ManagerInv, UnsyncedInv, NEW t \in Torrent, SavedInv(t),
         LoopTakesRequest \/ SaveNext
  PROVE  SavedInv(t)'
<1> USE DEF ManagerInv
<1>1. CASE LoopTakesRequest
  <2>1. writeMu # "loop" /\ Pending'
    BY <1>1 DEF LoopTakesRequest, SessionInv, WriterInv, Pending, saveVars
  <2> QED
    BY <2>1 DEF SavedInv
<1>2. ASSUME NEW o \in Saver, SaveState(o)
      PROVE  SavedInv(t)'
  <2>1. CASE ~setup.persistent \/ (closed /\ o # "close")
    <3>1. Pending'
      BY <1>2, <2>1 DEF SaveState, SaveReturns, Pending, closed
    <3> QED
      BY <3>1 DEF SavedInv
  <2>2. CASE ~(~setup.persistent \/ (closed /\ o # "close"))
    <3>1. /\ phase' = "ensuring" /\ snapshot' = Known
          /\ toEnsure' = {u \in Registered : KnowsFiles(sessions[u])}
          /\ UNCHANGED <<mapVars, meta>>
      BY <1>2, <2>2 DEF SaveState, Snapshot, Known, sessVars
    <3>2. Listed(t)' /\ Durable(t)'
      BY <3>1 DEF Listed, Written, Durable, Known, Registered, KnowsFiles, mapVars
    <3> QED
      BY <3>2 DEF SavedInv
  <2> QED
    BY <2>1, <2>2
<1>3. ASSUME UNCHANGED <<mapVars, apc, meta, rpc, writeMu, requestVars, cpc, setup>>
      PROVE  /\ Known' = Known /\ Registered' = Registered
             /\ Pending' <=> Pending
             /\ Adding(t)' <=> Adding(t)
             /\ removing(t)' <=> removing(t)
             /\ sessions[t] # None => (KnowsFiles(sessions[t])' <=> KnowsFiles(sessions[t]))
  BY <1>3 DEF Known, Registered, Pending, closed, Adding, removing, KnowsFiles, mapVars, requestVars
<1>4. ASSUME NEW u \in Torrent, EnsureCachedTorrent(u)
      PROVE  SavedInv(t)'
  <2>1. /\ UNCHANGED <<mapVars, apc, meta, rpc, writeMu, requestVars, cpc, setup, sessions>>
        /\ UNCHANGED <<phase, snapshot, sessionJson, stale>> /\ phase = "ensuring"
        /\ toEnsure' = toEnsure \ {u}
        /\ cached'[t] = IF t = u /\ cached[t] = "none" /\ sessions[t] # None
                        THEN "synced" ELSE cached[t]
    BY <1>4 DEF EnsureCachedTorrent, addVars, sessVars, removeVars, closeVars, mapVars,
       SessionInv, TypeOK, SaveTypeOK
  <2>2. Listed(t)' <=> Listed(t)
    BY <1>3, <2>1 DEF Listed, Written
  <2>3. cached[t] \in {"none", "unsynced", "synced"}
    BY DEF SessionInv, TypeOK, SaveTypeOK
  <2>4. Durable(t) => Durable(t)'
    BY <1>3, <2>1, <2>3 DEF Durable, Registered
  <2> QED
    BY <1>3, <2>1, <2>2, <2>4 DEF SavedInv
<1>5. CASE TakeUnsynced
  <2>1. /\ UNCHANGED <<mapVars, apc, meta, rpc, writeMu, requestVars, cpc, setup, sessions>>
        /\ UNCHANGED <<snapshot, sessionJson, stale, cached>>
        /\ phase = "ensuring" /\ toEnsure = {}
        /\ phase' = "syncing" /\ toSync' = unsyncedCache
    BY <1>5 DEF TakeUnsynced, addVars, sessVars, removeVars, closeVars, mapVars
  <2>2. Listed(t)' <=> Listed(t)
    BY <1>3, <2>1 DEF Listed, Written
  <2>3. Durable(t) => Durable(t)'
    BY <1>3, <2>1 DEF Durable, Registered, UnsyncedInv
  <2> QED
    BY <1>3, <2>1, <2>2, <2>3 DEF SavedInv
<1>6. CASE SyncCachedTorrents
  <2>1. /\ UNCHANGED <<mapVars, apc, meta, rpc, writeMu, requestVars, cpc, setup, sessions>>
        /\ UNCHANGED <<snapshot, sessionJson, stale>>
        /\ phase = "syncing" /\ phase' = "writing"
        /\ cached'[t] = IF t \in toSync /\ cached[t] # "none" THEN "synced" ELSE cached[t]
    BY <1>6 DEF SyncCachedTorrents, addVars, sessVars, removeVars, closeVars, mapVars
  <2>2. Listed(t)' <=> Listed(t)
    BY <1>3, <2>1 DEF Listed, Written
  <2>3. Durable(t) => Durable(t)'
    BY <1>3, <2>1 DEF Durable, Registered
  <2> QED
    BY <1>3, <2>1, <2>2, <2>3 DEF SavedInv
<1>7. CASE WriteState
  <2>1. /\ UNCHANGED <<mapVars, apc, meta, cached, saveStateCh, setup, sessions>>
        /\ phase = "writing" /\ phase' = "none" /\ writeMu' = None
        /\ \/ sessionJson' = snapshot
           \/ stale' = TRUE
        /\ SaveReturns(writeMu)
    BY <1>7 DEF WriteState, addVars, sessVars, cacheVars, mapVars
  <2>2. Pending => Pending'
    BY <2>1, NoNone, ManagerAssumption DEF Pending, SaveReturns, closed
  <2>3. Known' = Known /\ Registered' = Registered /\ (Adding(t)' <=> Adding(t))
    BY <2>1 DEF Known, Registered, Adding, mapVars
  <2>4. Listed(t) => Listed(t)'
    BY <2>1, <2>3 DEF Listed, Written
  <2>5. Durable(t) => Durable(t)'
    BY <2>1, <2>3 DEF Durable, KnowsFiles
  <2>6. removing(t) => removing(t)'
    BY <2>1 DEF SaveReturns, removing
  <2> QED
    BY <2>2, <2>3, <2>4, <2>5, <2>6 DEF SavedInv
<1> QED
  BY <1>1, <1>2, <1>4, <1>5, <1>6, <1>7 DEF SaveNext

\* Every step keeps each difference between memory and disk in somebody's
\* hands.
LEMMA IdleStep ==
  ASSUME ManagerInv, IdleInv, [Next]_vars
  PROVE  IdleInv'
<1>1. UnsyncedInv'
  BY UnsyncedStep DEF ManagerInv, IdleInv
<1>2. ASSUME NEW t \in Torrent
      PROVE  SavedInv(t)'
  <2>1. SavedInv(t) /\ UnsyncedInv
    BY DEF IdleInv
  <2>2. CASE StartClose \/ CloseNext
    <3>1. closed'
      BY <2>2 DEF StartClose, CloseNext, CloseReturns, CollectSessions, ReleaseCollected, closed
    <3> QED
      BY <3>1 DEF SavedInv, Pending
  <2>3. CASE UNCHANGED vars
    BY <2>1, <2>3 DEF SavedInv, Pending, Adding, Listed, Durable, Written, Known, Registered,
       KnowsFiles, removing, closed, vars, addVars, sessVars, removeVars, saveVars, cacheVars,
       requestVars, mapVars, closeVars
  <2> QED
    BY <2>1, <2>2, <2>3, SavedAdd, SavedRemoval, SavedSave DEF Next
<1> QED
  BY <1>1, <1>2 DEF IdleInv

\* Requests for saves may merge, yet when nothing is going on, session.json lists
\* exactly the torrents there are, each with a durable copy.
THEOREM IdleSafety == Spec => []IdleIsSaved
<1>1. ManagerInit => ManagerInv /\ IdleInv
  BY InitSessionInv, InitListInv, InitCacheInv, InitIdleInv DEF ManagerInv
<1>2. ManagerInv /\ IdleInv /\ [Next]_vars => (ManagerInv /\ IdleInv)'
  BY SessionStep, RemovalStep, ListStep, CacheStep, IdleStep DEF ManagerInv
<1>3. ManagerInv /\ IdleInv => IdleIsSaved
  <2> SUFFICES ASSUME ManagerInv, IdleInv, Idle
               PROVE  /\ sessionJson = Known
                      /\ \A t \in Registered : KnowsFiles(sessions[t]) => cached[t] = "synced"
    BY DEF IdleIsSaved, Known
  <2>1. phase = "none" /\ ~stale
    <3>1. writeMu \notin {"loop", "close"} \cup Torrent
      BY DEF Idle, closed, removing, ManagerInv, SessionInv, WriterInv
    <3> QED
      BY <3>1 DEF Idle, ManagerInv, SessionInv, WriterInv, TypeOK, SaveTypeOK, Saver
  <2>2. ASSUME NEW t \in Torrent
        PROVE  Listed(t) /\ Durable(t)
    <3>1. ~Pending /\ ~removing(t)
      BY DEF Idle, Pending
    <3>2. ~Adding(t)
      BY DEF Idle, Adding, ManagerInv, SessionInv, TypeOK, MapTypeOK
    <3> QED
      BY <3>1, <3>2 DEF IdleInv, SavedInv
  <2>3. sessionJson \subseteq Torrent /\ Known \subseteq Torrent
    BY DEF ManagerInv, SessionInv, TypeOK, SaveTypeOK, MapTypeOK, Known, Registered
  <2>4. sessionJson = Known
    BY <2>1, <2>2, <2>3 DEF Listed, Written
  <2>5. \A t \in Registered : KnowsFiles(sessions[t]) => cached[t] = "synced"
    BY <2>1, <2>2 DEF Durable, Registered
  <2> QED
    BY <2>4, <2>5
<1> QED
  BY <1>1, <1>2, <1>3, PTL DEF Spec

=============================================================================
