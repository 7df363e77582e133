---------------------------- MODULE TorrentManager ----------------------------
(***************************************************************************)
(* Adding, replacing, removing, saving and closing torrents                *)
(* (pkg/downloader/manager.go), the part of a session they wait for        *)
(* (session.go), and the payload paths they share.  Each action is one     *)
(* critical section of the manager's locks or one blocking call.           *)
(*                                                                         *)
(* An adder is a call of AddTorrentFile or AddMagnet; the session it makes *)
(* carries its name.  Payload paths are the abstract PathOwnership, which  *)
(* PathClaims implements.  A torrent has one download directory.           *)
(***************************************************************************)
EXTENDS Naturals, FiniteSets, Functions

CONSTANTS Torrent,     \* info-hashes
          Adder, Path,
          PathsOf,     \* PathsOf[t]: the payload paths of t
          LengthOf,    \* LengthOf[t][p]: the length t declares for p
          None,        \* no session, no torrent, no writer
          Setups       \* the setups a behaviour starts from

ASSUME ManagerAssumption ==
  /\ PathsOf \in [Torrent -> SUBSET Path]
  /\ LengthOf \in [Torrent -> [Path -> Nat]]
  /\ None \notin Torrent \cup Adder
  /\ IsFiniteSet(Torrent) /\ IsFiniteSet(Adder)
  /\ Torrent \cap {"loop", "close"} = {} /\ None \notin {"loop", "close"}
  /\ Setups \subseteq [torrents: SUBSET Torrent,  \* those that are added
                       kinds: SUBSET {"file", "waiting"}, \* .torrent, magnet
                       deletes: SUBSET BOOLEAN,   \* what removals are asked
                       persistent: BOOLEAN,       \* stateDir is set
                       unrestored: SUBSET Torrent] \* may have failed to load
  /\ \A s \in Setups : s.unrestored # {} => s.persistent

VARIABLES
  setup,          \* the setup of this behaviour
  sessions,       \* sessions[t]: the session registered, or None
  failedTorrents, \* torrents session.json lists that could not be restored
  target,         \* target[x]: the torrent of x's call and session
  apc,            \* apc[x]: where x's call is
  replaced,       \* replaced[x]: the session x took the place of
  life,           \* life[x]: x's session: absent, live, dropped, closing, closed
  meta,           \* meta[x]: does the session know its files?
  storage,        \* sessions whose storage is open
  claimed,        \* sessions holding their paths
  rpc,            \* rpc[t]: where RemoveSession(t) is; idle when none runs
  rsess,          \* rsess[t]: the session it removed
  rdel,           \* rdel[t]: it deletes the files too
  rfailed,        \* rfailed[t]: t was among failedTorrents
  rfree,          \* rfree[t]: the paths it has reserved for deletion
  holders, reserved,  \* PathOwnership
  cached,         \* cached[t]: the cached .torrent: none, unsynced, synced
  unsyncedCache,  \* copies written since the last save took the list
  sessionJson,    \* the torrents session.json lists
  stale,          \* the last write of session.json failed
  saveStateCh,    \* a save is requested
  loopSaves,      \* stateSaveLoop is in a save
  writeMu,        \* who holds writeMu: loop, close, a torrent's removal, None
  phase,          \* what its save does next
  snapshot, toEnsure, toSync,   \* what the save works on
  cpc,            \* where Close is
  collected       \* the sessions it took from the map and will close

addVars == <<target, apc, replaced>>
sessVars == <<life, meta, storage, claimed>>
removeVars == <<rpc, rsess, rdel, rfailed, rfree>>
pathVars == <<holders, reserved>>
saveVars == <<writeMu, phase, snapshot, toEnsure, toSync, sessionJson, stale>>
cacheVars == <<cached, unsyncedCache>>
requestVars == <<saveStateCh, loopSaves>>
mapVars == <<sessions, failedTorrents>>
closeVars == <<cpc, collected, setup>>

vars == <<addVars, sessVars, removeVars, pathVars, saveVars, cacheVars,
          requestVars, mapVars, closeVars>>

Own == INSTANCE PathOwnership

closed == cpc # "open"
removing(t) == rpc[t] # "idle"
Registered == {t \in Torrent : sessions[t] # None}
KnowsFiles(x) == meta[x] \in {"file", "done"}

ManagerInit ==
  /\ setup \in Setups
  /\ sessions = [t \in Torrent |-> None]
  /\ failedTorrents \in SUBSET setup.unrestored
  /\ target = [x \in Adder |-> None]
  /\ apc = [x \in Adder |-> "idle"]
  /\ replaced = [x \in Adder |-> None]
  /\ life = [x \in Adder |-> "absent"]
  /\ meta = [x \in Adder |-> "file"]
  /\ storage = {} /\ claimed = {}
  /\ rpc = [t \in Torrent |-> "idle"]
  /\ rsess = [t \in Torrent |-> None]
  /\ rdel = [t \in Torrent |-> FALSE]
  /\ rfailed = [t \in Torrent |-> FALSE]
  /\ rfree = [t \in Torrent |-> {}]
  /\ Own!Init
  /\ cached \in [Torrent -> {"none", "synced"}]
  /\ \A t \in Torrent : cached[t] = "synced" => t \in failedTorrents
  /\ unsyncedCache = {}
  /\ sessionJson = failedTorrents
  /\ stale = FALSE
  /\ saveStateCh = FALSE /\ loopSaves = FALSE
  /\ writeMu = None /\ phase = "none"
  /\ snapshot = {} /\ toEnsure = {} /\ toSync = {}
  /\ cpc = "open" /\ collected = {}

-----------------------------------------------------------------------------
(* Adding.                                                                 *)

\* The first check of addParsedTorrent and addMagnet; a registered torrent or
\* one being removed ends the call with nothing changed.
StartAdd(x, t, kind) ==
  /\ t \in setup.torrents
  /\ apc[x] = "idle" /\ life[x] = "absent"
  /\ sessions[t] = None /\ ~removing(t)
  /\ target' = [target EXCEPT ![x] = t]
  /\ meta' = [meta EXCEPT ![x] = kind]
  /\ IF kind = "file"
     THEN apc' = [apc EXCEPT ![x] = "claiming"] /\ UNCHANGED life
     ELSE /\ apc' = [apc EXCEPT ![x] = "built"]
          /\ life' = [life EXCEPT ![x] = "live"]
  /\ UNCHANGED <<replaced, storage, claimed, removeVars, pathVars, saveVars,
                 cacheVars, requestVars, mapVars, closeVars>>

Claim(x) ==
  /\ Own!Claim(target[x], PathsOf[target[x]])
  /\ claimed' = claimed \cup {x}

MayClaim(x) == \A p \in PathsOf[target[x]] : Own!MayClaim(target[x], p)

\* claimPaths, or ErrPathInUse.
ClaimPaths(x) ==
  /\ apc[x] = "claiming"
  /\ \/ Claim(x) /\ apc' = [apc EXCEPT ![x] = "building"]
     \/ ~MayClaim(x) /\ apc' = [apc EXCEPT ![x] = "idle"]
        /\ UNCHANGED <<pathVars, claimed>>
  /\ UNCHANGED <<target, replaced, life, meta, storage, removeVars, saveVars,
                 cacheVars, requestVars, mapVars, closeVars>>

Release(x) ==
  IF x \in claimed
  THEN Own!Release(target[x], PathsOf[target[x]]) /\ claimed' = claimed \ {x}
  ELSE UNCHANGED <<pathVars, claimed>>

\* The storage factory creates the files, or fails.
BuildStorage(x) ==
  /\ apc[x] = "building"
  /\ \/ /\ storage' = storage \cup {x}
        /\ life' = [life EXCEPT ![x] = "live"]
        /\ apc' = [apc EXCEPT ![x] = "built"]
        /\ UNCHANGED <<pathVars, claimed>>
     \/ /\ Release(x)
        /\ apc' = [apc EXCEPT ![x] = "idle"]
        /\ UNCHANGED <<storage, life>>
  /\ UNCHANGED <<target, replaced, meta, removeVars, saveVars, cacheVars,
                 requestVars, mapVars, closeVars>>

\* AddSession refuses a torrent being removed.
Refuses(x) == removing(target[x])

\* AddSession: register, dropping the session registered before; a variant
\* forgets that one.
Overwritten(t) == None
Replaced(t) == sessions[t]

Register(x) ==
  /\ apc[x] = "built" /\ ~Refuses(x)
  /\ LET t == target[x]  old == Replaced(t)
     IN /\ sessions' = [sessions EXCEPT ![t] = x]
        /\ replaced' = [replaced EXCEPT ![x] = old]
        /\ IF old = None
           THEN apc' = [apc EXCEPT ![x] = "caching"] /\ UNCHANGED life
           ELSE /\ apc' = [apc EXCEPT ![x] = "replacing"]
                /\ life' = [life EXCEPT ![old] = "dropped"]
  /\ UNCHANGED <<target, failedTorrents, meta, storage, claimed, removeVars,
                 pathVars, saveVars, cacheVars, requestVars, closeVars>>

\* The caller of a refused AddSession closes the session.
Refused(x) ==
  /\ apc[x] = "built" /\ Refuses(x)
  /\ life' = [life EXCEPT ![x] = "dropped"]
  /\ replaced' = [replaced EXCEPT ![x] = x]
  /\ apc' = [apc EXCEPT ![x] = "refused"]
  /\ UNCHANGED <<target, meta, storage, claimed, removeVars, pathVars, saveVars,
                 cacheVars, requestVars, mapVars, closeVars>>

\* releasePathClaims of the session that was replaced, or refused, once its
\* Close has returned.
IsClosed(x) == life[x] = "closed"

Forget(x) ==
  /\ Release(x)
  /\ life' = [life EXCEPT ![x] = IF @ = "closed" THEN "absent" ELSE @]

ReleaseReplaced(x) ==
  /\ apc[x] \in {"replacing", "refused"}
  /\ IsClosed(replaced[x])
  /\ Forget(replaced[x])
  /\ replaced' = [replaced EXCEPT ![x] = None]
  /\ apc' = [apc EXCEPT ![x] = IF @ = "refused" THEN "idle" ELSE "caching"]
  /\ UNCHANGED <<target, meta, storage, removeVars, saveVars, cacheVars,
                 requestVars, mapVars, closeVars>>

\* sessionRegistered, asked under cacheMu.
SessionRegistered(t, x) == sessions[t] = x

\* The copy of the .torrent, written without a sync; a magnet has none, and
\* the write may fail.
CacheTorrent(x) ==
  LET t == target[x]
  IN /\ apc[x] = "caching"
     /\ \/ /\ setup.persistent /\ meta[x] = "file" /\ SessionRegistered(t, x)
           /\ cached' = [cached EXCEPT ![t] = "unsynced"]
           /\ unsyncedCache' = unsyncedCache \cup {t}
        \/ UNCHANGED cacheVars
     /\ apc' = [apc EXCEPT ![x] = "requesting"]
     /\ UNCHANGED <<target, replaced, sessVars, removeVars, pathVars, saveVars,
                    requestVars, mapVars, closeVars>>

\* A variant lets the save that is running stand for the request.
MergesIntoRunning ==
  saveStateCh' = (saveStateCh \/ (setup.persistent /\ ~closed /\ ~loopSaves))
RequestSaveState == saveStateCh' = (saveStateCh \/ (setup.persistent /\ ~closed))

EndAdd(x) ==
  /\ apc[x] = "requesting"
  /\ RequestSaveState
  /\ apc' = [apc EXCEPT ![x] = "idle"]
  /\ UNCHANGED <<target, replaced, sessVars, removeVars, pathVars, saveVars,
                 cacheVars, loopSaves, mapVars, closeVars>>

-----------------------------------------------------------------------------
(* A session: closing it, and a magnet learning its files.                 *)

BeginClose(x) ==
  /\ life[x] = "dropped"
  /\ life' = [life EXCEPT ![x] = "closing"]
  /\ UNCHANGED <<addVars, meta, storage, claimed, removeVars, pathVars, saveVars,
                 cacheVars, requestVars, mapVars, closeVars>>

\* Close waits for storage being built for metadata; a variant waits for the
\* metadata itself.
AwaitsMetadata(x) == meta[x] \in {"file", "done"}
MetadataSettled(x) == meta[x] \notin {"building", "created"}

FinishClose(x) ==
  /\ life[x] = "closing" /\ MetadataSettled(x)
  /\ life' = [life EXCEPT ![x] = "closed"]
  /\ storage' = storage \ (IF KnowsFiles(x) THEN {x} ELSE {})
  /\ UNCHANGED <<addVars, meta, claimed, removeVars, pathVars, saveVars,
                 cacheVars, requestVars, mapVars, closeVars>>

\* The session was started by the caller of a finished AddSession.
Started(x) == apc[x] \notin {"built", "refused"} /\ life[x] # "absent"

\* onMetadataDownloaded reserves the paths; while it may not, it retries.
ClaimForMetadata(x) ==
  /\ meta[x] = "waiting" /\ Started(x) /\ life[x] \in {"live", "dropped"}
  /\ Claim(x)
  /\ meta' = [meta EXCEPT ![x] = "building"]
  /\ UNCHANGED <<addVars, life, storage, removeVars, saveVars, cacheVars,
                 requestVars, mapVars, closeVars>>

BuildForMetadata(x) ==
  /\ meta[x] = "building"
  /\ \/ /\ storage' = storage \cup {x}
        /\ meta' = [meta EXCEPT ![x] = "created"]
        /\ UNCHANGED <<pathVars, claimed>>
     \/ /\ Release(x)
        /\ meta' = [meta EXCEPT ![x] = "waiting"]
        /\ UNCHANGED storage
  /\ UNCHANGED <<addVars, life, removeVars, saveVars, cacheVars, requestVars,
                 mapVars, closeVars>>

\* A closing session publishes too, but asks for no save.
PublishMetadata(x) ==
  /\ meta[x] = "created"
  /\ meta' = [meta EXCEPT ![x] = "done"]
  /\ IF life[x] \in {"live", "dropped"} THEN RequestSaveState
     ELSE UNCHANGED saveStateCh
  /\ UNCHANGED <<addVars, life, storage, claimed, removeVars, pathVars, saveVars,
                 cacheVars, loopSaves, mapVars, closeVars>>

-----------------------------------------------------------------------------
(* RemoveSession.                                                          *)

BeginRemove(t, deleteFiles) ==
  /\ ~removing(t)
  /\ sessions[t] # None \/ t \in failedTorrents
  /\ rpc' = [rpc EXCEPT ![t] = "closing"]
  /\ rsess' = [rsess EXCEPT ![t] = sessions[t]]
  /\ rdel' = [rdel EXCEPT ![t] = deleteFiles]
  /\ rfailed' = [rfailed EXCEPT ![t] = t \in failedTorrents]
  /\ sessions' = [sessions EXCEPT ![t] = None]
  /\ failedTorrents' = failedTorrents \ {t}
  /\ life' = [x \in Adder |-> IF x = sessions[t] THEN "dropped" ELSE life[x]]
  /\ UNCHANGED <<addVars, meta, storage, claimed, rfree, pathVars, saveVars,
                 cacheVars, requestVars, closeVars>>

\* The file list is read once the session is closed; for a torrent that was
\* not restored it comes from the cached copy.
HasFileList(t) ==
  \/ rsess[t] # None /\ KnowsFiles(rsess[t])
  \/ rfailed[t] /\ cached[t] # "none"

SessionClosed(t) ==
  /\ rpc[t] = "closing"
  /\ rsess[t] # None => IsClosed(rsess[t])
  /\ rpc' = [rpc EXCEPT ![t] = IF rdel[t] /\ HasFileList(t) THEN "reserving"
                               ELSE "releasing"]
  /\ UNCHANGED <<addVars, sessVars, rsess, rdel, rfailed, rfree, pathVars,
                 saveVars, cacheVars, requestVars, mapVars, closeVars>>

\* deletePayload takes the paths no other torrent holds (a variant takes all)...
AllPaths(t) == PathsOf[t]
FreePaths(t) == {p \in PathsOf[t] : Own!Others(t, p) = {}}

ClaimFreePaths(t) ==
  /\ rpc[t] = "reserving"
  /\ rfree' = [rfree EXCEPT ![t] = FreePaths(t)]
  /\ Own!Reserved(FreePaths(t)) /\ UNCHANGED holders
  /\ rpc' = [rpc EXCEPT ![t] = "deleting"]
  /\ UNCHANGED <<addVars, sessVars, rsess, rdel, rfailed, saveVars, cacheVars,
                 requestVars, mapVars, closeVars>>

\* ...and gives them back when they are deleted.
GiveBack(t) == Own!Unreserve(rfree[t]) /\ rfree' = [rfree EXCEPT ![t] = {}]

FilesDeleted(t) ==
  /\ rpc[t] = "deleting"
  /\ GiveBack(t)
  /\ rpc' = [rpc EXCEPT ![t] = "releasing"]
  /\ UNCHANGED <<addVars, sessVars, rsess, rdel, rfailed, saveVars, cacheVars,
                 requestVars, mapVars, closeVars>>

ReleaseRemoved(t) ==
  /\ rpc[t] = "releasing"
  /\ IF rsess[t] = None THEN UNCHANGED <<pathVars, claimed, life>>
     ELSE Forget(rsess[t])
  /\ rpc' = [rpc EXCEPT ![t] = "uncaching"]
  /\ UNCHANGED <<addVars, meta, storage, rsess, rdel, rfailed, rfree, saveVars,
                 cacheVars, requestVars, mapVars, closeVars>>

Uncache(t) ==
  /\ rpc[t] = "uncaching"
  /\ cached' = [cached EXCEPT ![t] = "none"]
  /\ rpc' = [rpc EXCEPT ![t] = "saving"]
  /\ rsess' = [rsess EXCEPT ![t] = None]
  /\ UNCHANGED <<addVars, sessVars, rdel, rfailed, rfree, pathVars, saveVars,
                 unsyncedCache, requestVars, mapVars, closeVars>>

EndRemove(t) ==
  /\ rpc[t] = "ending"
  /\ rpc' = [rpc EXCEPT ![t] = "idle"]
  /\ rdel' = [rdel EXCEPT ![t] = FALSE]
  /\ rfailed' = [rfailed EXCEPT ![t] = FALSE]
  /\ UNCHANGED <<addVars, sessVars, rsess, rfree, pathVars, saveVars,
                 cacheVars, requestVars, mapVars, closeVars>>

-----------------------------------------------------------------------------
(* Saving: one writer at a time under writeMu.                             *)

\* After Close has begun stateSaveLoop may still choose the request.
LoopTakesRequest ==
  /\ saveStateCh /\ ~loopSaves /\ cpc # "done"
  /\ saveStateCh' = FALSE /\ loopSaves' = TRUE
  /\ UNCHANGED <<addVars, sessVars, removeVars, pathVars, saveVars, cacheVars,
                 mapVars, closeVars>>

Saver == {"loop", "close"} \cup Torrent
WantsToSave(o) ==
  \/ o = "loop" /\ loopSaves
  \/ o = "close" /\ cpc = "saving"
  \/ o \in Torrent /\ rpc[o] = "saving"

\* The saver goes on with what it does after the save.
SaveReturns(o) ==
  /\ loopSaves' = (loopSaves /\ o # "loop")
  /\ rpc' = [t \in Torrent |-> IF t = o THEN "ending" ELSE rpc[t]]
  /\ cpc' = IF o = "close" THEN "collecting" ELSE cpc

\* getSnapshotLocked; a variant still lists torrents being removed.
SnapshotOfAll == Registered \cup failedTorrents \cup {t \in Torrent : removing(t)}
Snapshot == Registered \cup failedTorrents

\* saveStateInternal under writeMu: nothing without a state directory, nor once
\* the manager is closed, except for Close's own save.
SaveState(o) ==
  /\ writeMu = None /\ WantsToSave(o)
  /\ IF ~setup.persistent \/ (closed /\ o # "close")
     THEN /\ SaveReturns(o)
          /\ UNCHANGED saveVars
     ELSE /\ writeMu' = o /\ phase' = "ensuring"
          /\ snapshot' = Snapshot
          /\ toEnsure' = {t \in Registered : KnowsFiles(sessions[t])}
          /\ UNCHANGED <<toSync, sessionJson, stale, loopSaves, rpc, cpc>>
  /\ UNCHANGED <<addVars, sessVars, rsess, rdel, rfailed, rfree, pathVars,
                 cacheVars, saveStateCh, mapVars, collected, setup>>

\* ensureCachedTorrent rebuilds a missing copy, durably; that the disk refuses
\* this copy, or the sync below, is left out.
EnsureCachedTorrent(t) ==
  /\ phase = "ensuring" /\ t \in toEnsure
  /\ toEnsure' = toEnsure \ {t}
  /\ cached' = [cached EXCEPT ![t] = IF @ = "none" /\ sessions[t] # None
                                     THEN "synced" ELSE @]
  /\ UNCHANGED <<addVars, sessVars, removeVars, pathVars, writeMu, phase,
                 snapshot, toSync, sessionJson, stale, unsyncedCache,
                 requestVars, mapVars, closeVars>>

TakeUnsynced ==
  /\ phase = "ensuring" /\ toEnsure = {}
  /\ phase' = "syncing"
  /\ toSync' = unsyncedCache /\ unsyncedCache' = {}
  /\ UNCHANGED <<addVars, sessVars, removeVars, pathVars, writeMu, snapshot,
                 toEnsure, sessionJson, stale, cached, requestVars, mapVars,
                 closeVars>>

\* A copy a removal has deleted meanwhile is skipped.
SyncCachedTorrents ==
  /\ phase = "syncing"
  /\ phase' = "writing"
  /\ cached' = [t \in Torrent |->
                  IF t \in toSync /\ cached[t] # "none" THEN "synced"
                  ELSE cached[t]]
  /\ toSync' = {}
  /\ UNCHANGED <<addVars, sessVars, removeVars, pathVars, writeMu, snapshot,
                 toEnsure, sessionJson, stale, unsyncedCache, requestVars,
                 mapVars, closeVars>>

\* atomicWriteState; it may fail, and the caller is told.
WriteState ==
  /\ phase = "writing"
  /\ \/ sessionJson' = snapshot /\ stale' = FALSE
     \/ stale' = TRUE /\ UNCHANGED sessionJson
  /\ phase' = "none" /\ writeMu' = None /\ snapshot' = {}
  /\ SaveReturns(writeMu)
  /\ UNCHANGED <<addVars, sessVars, rsess, rdel, rfailed, rfree, pathVars,
                 toEnsure, toSync, cacheVars, saveStateCh, mapVars, collected, setup>>

-----------------------------------------------------------------------------
(* TorrentManager.Close.                                                   *)

StartClose ==
  /\ cpc = "open" /\ cpc' = "saving"
  /\ UNCHANGED <<addVars, sessVars, removeVars, pathVars, saveVars, cacheVars,
                 requestVars, mapVars, collected, setup>>

CollectSessions ==
  /\ cpc = "collecting" /\ cpc' = "closing"
  /\ collected' = Adder \cap Range(sessions)
  /\ sessions' = [t \in Torrent |-> None]
  /\ life' = [x \in Adder |-> IF x \in collected' THEN "dropped" ELSE life[x]]
  /\ UNCHANGED <<addVars, meta, storage, claimed, removeVars, pathVars, saveVars,
                 cacheVars, requestVars, failedTorrents, setup>>

ReleaseCollected(x) ==
  /\ cpc = "closing" /\ x \in collected
  /\ \A y \in collected : IsClosed(y)
  /\ Forget(x)
  /\ collected' = collected \ {x}
  /\ UNCHANGED <<addVars, meta, storage, removeVars, saveVars, cacheVars,
                 requestVars, mapVars, cpc, setup>>

CloseReturns ==
  /\ cpc = "closing" /\ collected = {} /\ ~loopSaves
  /\ cpc' = "done"
  /\ UNCHANGED <<addVars, sessVars, removeVars, pathVars, saveVars, cacheVars,
                 requestVars, mapVars, collected, setup>>

-----------------------------------------------------------------------------
AddNext(x) ==
  \/ ClaimPaths(x) \/ BuildStorage(x) \/ Register(x) \/ Refused(x)
  \/ ReleaseReplaced(x) \/ CacheTorrent(x) \/ EndAdd(x)

SessionNext(x) ==
  \/ BeginClose(x) \/ FinishClose(x)
  \/ BuildForMetadata(x) \/ PublishMetadata(x)

RemoveNext(t) ==
  \/ SessionClosed(t) \/ ClaimFreePaths(t) \/ FilesDeleted(t)
  \/ ReleaseRemoved(t) \/ Uncache(t) \/ EndRemove(t)

SaveNext ==
  \/ \E o \in Saver : SaveState(o)
  \/ \E t \in Torrent : EnsureCachedTorrent(t)
  \/ TakeUnsynced \/ SyncCachedTorrents \/ WriteState

CloseNext ==
  \/ CollectSessions \/ CloseReturns
  \/ \E x \in Adder : ReleaseCollected(x)

Next ==
  \/ \E x \in Adder :
       \/ \E t \in Torrent, kind \in setup.kinds : StartAdd(x, t, kind)
       \/ AddNext(x) \/ SessionNext(x) \/ ClaimForMetadata(x)
  \/ \E t \in Torrent :
       \/ \E deleteFiles \in setup.deletes : BeginRemove(t, deleteFiles)
       \/ RemoveNext(t)
  \/ LoopTakesRequest \/ SaveNext
  \/ StartClose \/ CloseNext

Spec == ManagerInit /\ [][Next]_vars

\* Every call goes on, a building storage comes to an end, and writeMu is a
\* fair lock.  Metadata may never arrive, and nobody has to call anything.
Fairness ==
  /\ \A x \in Adder : /\ WF_vars(AddNext(x)) /\ WF_vars(BeginClose(x))
                      /\ WF_vars(FinishClose(x)) /\ WF_vars(BuildForMetadata(x))
                      /\ WF_vars(PublishMetadata(x))
  /\ \A t \in Torrent : WF_vars(RemoveNext(t))
  /\ WF_vars(LoopTakesRequest) /\ WF_vars(SaveNext) /\ WF_vars(CloseNext)
  /\ \A o \in Saver : SF_vars(SaveState(o))

-----------------------------------------------------------------------------
(* Properties.                                                             *)

AddTypeOK ==
  /\ target \in [Adder -> Torrent \cup {None}]
  /\ apc \in [Adder -> {"idle", "claiming", "building", "built", "replacing",
                         "refused", "caching", "requesting"}]
  /\ replaced \in [Adder -> Adder \cup {None}]

SessionTypeOK ==
  /\ life \in [Adder -> {"absent", "live", "dropped", "closing", "closed"}]
  /\ meta \in [Adder -> {"file", "waiting", "building", "created", "done"}]
  /\ storage \subseteq Adder /\ claimed \subseteq Adder

RemoveTypeOK ==
  /\ rpc \in [Torrent -> {"idle", "closing", "reserving", "deleting",
                           "releasing", "uncaching", "saving", "ending"}]
  /\ rsess \in [Torrent -> Adder \cup {None}]
  /\ rdel \in [Torrent -> BOOLEAN] /\ rfailed \in [Torrent -> BOOLEAN]
  /\ rfree \in [Torrent -> SUBSET Path]

PathTypeOK ==
  /\ holders \in [Path -> [Torrent -> Nat]]
  /\ reserved \in [Path -> Nat]

SaveTypeOK ==
  /\ cached \in [Torrent -> {"none", "unsynced", "synced"}]
  /\ unsyncedCache \subseteq Torrent /\ sessionJson \subseteq Torrent
  /\ snapshot \subseteq Torrent /\ toEnsure \subseteq Torrent
  /\ toSync \subseteq Torrent
  /\ writeMu \in Saver \cup {None}
  /\ phase \in {"none", "ensuring", "syncing", "writing"}
  /\ stale \in BOOLEAN /\ saveStateCh \in BOOLEAN /\ loopSaves \in BOOLEAN

MapTypeOK ==
  /\ sessions \in [Torrent -> Adder \cup {None}]
  /\ failedTorrents \subseteq Torrent

CloseTypeOK ==
  /\ cpc \in {"open", "saving", "collecting", "closing", "done"}
  /\ collected \subseteq Adder
  /\ setup \in Setups

TypeOK ==
  /\ AddTypeOK /\ SessionTypeOK /\ RemoveTypeOK /\ PathTypeOK
  /\ SaveTypeOK /\ MapTypeOK /\ CloseTypeOK

\* RemoveSession never deletes a file that a session of another torrent has
\* open (a cross-seed), however adds, replacements and removals interleave:
\* claims outlive the storage built on them.
DeletionSparesOthers ==
  \A t \in Torrent : rpc[t] = "deleting" =>
    \A x \in storage : target[x] # t => PathsOf[target[x]] \cap rfree[t] = {}

ClaimsMatch ==
  /\ storage \subseteq claimed
  /\ \A t \in Torrent : rfree[t] # {} => rpc[t] = "deleting"
  /\ \A t \in Torrent : \A p \in PathsOf[t] :
       holders[p][t] = Cardinality({x \in claimed : target[x] = t})
  /\ \A p \in Path :
       reserved[p] = Cardinality({t \in Torrent : p \in rfree[t]})

NothingLeaks ==
  \A x \in claimed \cup storage :
    \/ x \in Range(sessions) \cup Range(replaced) \cup Range(rsess) \cup collected
    \/ apc[x] # "idle"

\* Claims are neither lost nor doubled: a path is held by as many claims of a
\* torrent as there are sessions and adds of it, and by all that have it open,
\* and reserved by the deletions under way.  A session that still holds paths
\* or storage is registered, or some call is going to close it and release
\* them: a lost race leaks no file handles (AddSession) and leaves no path
\* taken.
ClaimsMatchSessions == TypeOK /\ ClaimsMatch /\ NothingLeaks

NoStraySession ==
  \A t \in sessionJson :
    t \in Registered \cup failedTorrents \/ removing(t) \/ stale \/ closed

NoStrayCache ==
  \A t \in Torrent : cached[t] # "none" =>
    t \in Registered \cup failedTorrents \/ removing(t) \/ closed

\* session.json does not bring back a torrent whose removal has ended, though
\* older snapshots of it were being written meanwhile; and no cached .torrent
\* outlives its torrent: neither an add nor a save that was slower than the
\* removal puts it back.
RemovedIsGone == NoStraySession /\ NoStrayCache

\* When nothing is going on, session.json lists exactly the torrents there are,
\* each with a durable copy: requests for a save may merge, but not into a save
\* that has already read what it writes.
Idle ==
  /\ \A x \in Adder : apc[x] = "idle"
  /\ \A t \in Torrent : ~removing(t)
  /\ setup.persistent /\ ~saveStateCh /\ ~loopSaves /\ ~closed /\ ~stale
IdleIsSaved ==
  Idle => /\ sessionJson = Registered \cup failedTorrents
          /\ \A t \in Registered : KnowsFiles(sessions[t]) => cached[t] = "synced"

AddsReturn == \A x \in Adder : []<>(apc[x] = "idle")
RemovalsReturn == \A t \in Torrent : []<>~removing(t)
ManagerCloses == []<>(closed => cpc = "done")

\* Every add and every removal returns, and so does Close, although they wait
\* for sessions to close, for metadata storage and for the one writer.
CallsReturn == AddsReturn /\ RemovalsReturn /\ ManagerCloses
=============================================================================
