--------------------------- MODULE CrashContainment ---------------------------
(***************************************************************************)
(* Runs of the program over one state directory: session.json, the crash   *)
(* files, the running sentinel and the streak of unexplained crashes       *)
(* (pkg/downloader/crashguard.go; EnablePersistence, manager.go).          *)
(*                                                                         *)
(* A run is a number, which also stands for its start time.  Whether an    *)
(* entry loads (from its cached .torrent or its magnet link), fails or     *)
(* panics is a choice made anew at each attempt.  Saves here are atomic;   *)
(* TorrentManager has their steps.                                         *)
(***************************************************************************)
EXTENDS Naturals, Sequences, FiniteSets, Functions

CONSTANTS
    Torrents,       \* info-hashes
    MaxRuns,        \* bound: starts of the program
    MaxChanges      \* bound: what the user does in all runs

ASSUME CrashAssumption ==
    /\ MaxRuns \in Nat /\ MaxChanges \in Nat
    /\ "unattributed" \notin Torrents

VARIABLES
    saved,          \* session.json: torrent -> entry
    crashFiles,     \* <stateDir>/crash: records [run, torrent, component]
    sentinel,       \* <stateDir>/running: [is, start, stable]
    streak,         \* crash-state.json
    run,
    phase,          \* "down", "restoring" or "running"
    startPaused,
    previous,       \* previousRun: [crashes, pauseAll]
    todo,           \* entries still to restore
    loaded,         \* the sessions: torrent -> [paused, autoPaused, quarantined]
    unrestored,     \* failedTorrents: torrent -> entry
    unsaved,        \* a save is requested
    \* history:
    intent,         \* torrent -> what the user last asked for
    savedIntent,    \* ... as of the last save
    blamed,         \* torrents a crash was recorded for, not resumed or added since
    lastBlamed,     \* ... by the last run
    lastRestoring,  \* ... by the last run, while it restored them
    ends,           \* how the runs so far ended, newest first
    changes

stateDir == <<saved, crashFiles, sentinel, streak>>
process == <<run, phase, startPaused, previous, todo, loaded, unrestored, unsaved>>
history == <<intent, savedIntent, blamed, lastBlamed, lastRestoring, ends, changes>>
crashVars == <<stateDir, process, history>>

Sentinel(is, start, stable) == [is |-> is, start |-> start, stable |-> stable]
NoSentinel == Sentinel("none", 0, FALSE)
Torn == Sentinel("unreadable", 0, FALSE)
Nothing == [t \in {} |-> TRUE]
Entry(p, q, c) == [paused |-> p, quarantined |-> q, component |-> c]
Kept(f, S) == [t \in DOMAIN f \cap S |-> f[t]]
Put(f, t, v) == [s \in DOMAIN f \cup {t} |-> IF s = t THEN v ELSE f[s]]
Drop(f, t) == Kept(f, Torrents \ {t})
Running(t) == phase = "running" /\ t \in DOMAIN loaded
Wanted == {t \in Torrents : intent[t] # "absent"}

CrashInit ==
    /\ saved \in [Torrents -> {Entry(FALSE, FALSE, "")}]
    /\ crashFiles = {} /\ sentinel = NoSentinel /\ streak = 0
    /\ run = 0 /\ phase = "down" /\ startPaused = FALSE
    /\ previous = [crashes |-> Nothing, pauseAll |-> FALSE]
    /\ todo = {} /\ loaded = Nothing /\ unrestored = Nothing /\ unsaved = FALSE
    /\ intent = [t \in Torrents |-> "running"] /\ savedIntent = intent
    /\ blamed = {} /\ lastBlamed = {} /\ lastRestoring = {} /\ ends = <<>> /\ changes = 0

----------------------------------------------------------------------------
(* A start *)

Since(start) == {c \in crashFiles : c.run >= start}
\* attributedCrashes: a crash in restoring a torrent comes before its others.
attributedCrashes(start) ==
    LET named == {c \in Since(start) : c.torrent \in Torrents}
    IN [t \in {c.torrent : c \in named} |->
          IF \E c \in named : c.torrent = t /\ c.component = "restore" THEN "restore" ELSE "session"]

\* A variant: a crash blamed on a torrent counts as unexplained too.
CountsBlamed(crashes) ==
    IF sentinel.is = "none" \/ sentinel.stable THEN 0 ELSE streak + 1
NewStreak(crashes) ==
    IF sentinel.is = "none" \/ DOMAIN crashes # {} \/ sentinel.stable THEN 0 ELSE streak + 1

\* EnablePersistence up to the restores: the last run is classified before this
\* one marks itself as running.
StartRun(flag) ==
    /\ phase = "down" /\ run < MaxRuns
    /\ LET crashes == IF sentinel.is = "written" THEN attributedCrashes(sentinel.start) ELSE Nothing
       IN /\ streak' = NewStreak(crashes)
          /\ previous' = [crashes |-> crashes, pauseAll |-> streak' >= 2]
    /\ run' = run + 1 /\ sentinel' = Sentinel("written", run + 1, FALSE)
    /\ phase' = "restoring" /\ startPaused' = flag
    /\ todo' = DOMAIN saved /\ loaded' = Nothing /\ unrestored' = Nothing /\ unsaved' = FALSE
    /\ intent' = savedIntent
    /\ UNCHANGED <<saved, crashFiles, savedIntent, blamed, lastBlamed, lastRestoring, ends, changes>>

\* What this start makes of the entry: a crash of the last run quarantines it.
Fresh(t) == t \in DOMAIN previous.crashes
Quarantined(t) == saved[t].quarantined \/ Fresh(t)
Component(t) ==
    IF Fresh(t) THEN previous.crashes[t] ELSE IF saved[t].quarantined THEN saved[t].component ELSE ""
StaysUnloaded(t) == Quarantined(t) /\ Component(t) = "restore" /\ ~startPaused
Pauses(t) == saved[t].paused \/ Quarantined(t) \/ startPaused \/ previous.pauseAll
Restored(t) ==
    [paused |-> Pauses(t), autoPaused |-> Pauses(t) /\ ~saved[t].paused /\ ~Quarantined(t),
     quarantined |-> Quarantined(t)]
Failed(t) == Entry(saved[t].paused \/ Quarantined(t), Quarantined(t), Component(t))
Untouched(t) == Entry(saved[t].paused, TRUE, Component(t))

\* restoreOne; the entries are restored in any order.
RestoreOne(t) ==
    /\ phase = "restoring" /\ t \in todo /\ todo' = todo \ {t}
    /\ \/ /\ StaysUnloaded(t)
          /\ unrestored' = Put(unrestored, t, Untouched(t)) /\ UNCHANGED loaded
       \/ /\ ~StaysUnloaded(t)
          /\ loaded' = Put(loaded, t, Restored(t)) /\ UNCHANGED unrestored
       \/ /\ ~StaysUnloaded(t)
          /\ unrestored' = Put(unrestored, t, Failed(t)) /\ UNCHANGED loaded
    /\ UNCHANGED <<stateDir, run, phase, startPaused, previous, unsaved, history>>

\* getSnapshotLocked: a torrent both registered and unrestored is read back as
\* the session, which is listed first.
Snapshot ==
    [t \in DOMAIN loaded \cup DOMAIN unrestored |->
        IF t \in DOMAIN loaded
        THEN Entry(loaded[t].paused /\ ~loaded[t].autoPaused, loaded[t].quarantined, "")
        ELSE unrestored[t]]
Save == saved' = Snapshot /\ savedIntent' = intent /\ unsaved' = FALSE

FinishRestore ==
    /\ phase = "restoring" /\ todo = {}
    /\ phase' = "running" /\ Save
    /\ UNCHANGED <<crashFiles, sentinel, streak, run, startPaused, previous, todo, loaded, unrestored,
                   intent, blamed, lastBlamed, lastRestoring, ends, changes>>

----------------------------------------------------------------------------
(* The run *)

\* A variant: the loop saves while torrents are being restored.
SavesEarly == phase \in {"restoring", "running"}
\* stateSaveLoop; what is restored is not saved before all of it is.
CanSave == phase = "running" /\ unsaved
SaveLoop ==
    /\ CanSave /\ Save
    /\ UNCHANGED <<crashFiles, sentinel, streak, run, phase, startPaused, previous, todo, loaded,
                   unrestored, intent, blamed, lastBlamed, lastRestoring, ends, changes>>

Change(t, want) ==
    /\ changes < MaxChanges /\ changes' = changes + 1
    /\ intent' = [intent EXCEPT ![t] = want] /\ unsaved' = TRUE
    /\ UNCHANGED <<stateDir, run, phase, startPaused, previous, todo, savedIntent, ends>>
Forgiven(t) ==
    /\ blamed' = blamed \ {t} /\ lastBlamed' = lastBlamed \ {t} /\ lastRestoring' = lastRestoring \ {t}

\* Session.Pause: a pause of this start's becomes the user's.
PauseTorrent(t) ==
    /\ Running(t) /\ (loaded[t].paused => loaded[t].autoPaused)
    /\ loaded' = [loaded EXCEPT ![t].paused = TRUE, ![t].autoPaused = FALSE]
    /\ Change(t, "paused") /\ UNCHANGED <<unrestored, blamed, lastBlamed, lastRestoring>>

\* Session.Resume: the user's go-ahead for a quarantined torrent too.
ResumeTorrent(t) ==
    /\ Running(t) /\ loaded[t].paused
    /\ loaded' = [loaded EXCEPT ![t] = [paused |-> FALSE, autoPaused |-> FALSE, quarantined |-> FALSE]]
    /\ Change(t, "running") /\ Forgiven(t) /\ UNCHANGED unrestored

\* RemoveSession and AddTorrentFile.
RemoveTorrent(t) ==
    /\ phase = "running" /\ t \in DOMAIN Snapshot
    /\ loaded' = Drop(loaded, t) /\ unrestored' = Drop(unrestored, t)
    /\ Change(t, "absent") /\ Forgiven(t)
AddTorrent(t) ==
    /\ phase = "running" /\ t \notin DOMAIN loaded
    /\ loaded' = Put(loaded, t, [paused |-> FALSE, autoPaused |-> FALSE, quarantined |-> FALSE])
    /\ Change(t, "running") /\ Forgiven(t) /\ UNCHANGED unrestored

\* sentinelStableAfter has passed.
MarkStable ==
    /\ phase = "running" /\ sentinel' = [sentinel EXCEPT !.stable = TRUE]
    /\ UNCHANGED <<saved, crashFiles, streak, process, history>>

----------------------------------------------------------------------------
(* Its end *)

Ends(how) ==
    /\ phase' = "down" /\ ends' = <<how>> \o ends
    /\ todo' = {} /\ loaded' = Nothing /\ unrestored' = Nothing /\ unsaved' = FALSE
    /\ UNCHANGED <<streak, run, startPaused, previous, intent, savedIntent, changes>>

\* A guard records the crash of a torrent's goroutine and ends the process; the
\* crash of a torrent being restored is blamed on its entry.
SessionCrash(t) ==
    /\ \/ phase = "restoring" /\ t \in todo /\ ~StaysUnloaded(t)
       \/ phase = "running" /\ t \in DOMAIN loaded
    /\ LET c == IF phase = "restoring" THEN "restore" ELSE "session"
       IN /\ crashFiles' = crashFiles \cup {[run |-> run, torrent |-> t, component |-> c]}
          /\ lastRestoring' = IF c = "restore" THEN {t} ELSE {}
    /\ blamed' = blamed \cup {t} /\ lastBlamed' = {t}
    /\ Ends("blamed") /\ UNCHANGED <<saved, sentinel>>

\* The process dies and nothing says why.
Dies ==
    /\ phase \in {"restoring", "running"}
    /\ Ends(IF sentinel.stable THEN "stable" ELSE "early")
    /\ lastBlamed' = {} /\ lastRestoring' = {} /\ UNCHANGED <<saved, crashFiles, sentinel, blamed>>

\* The sentinel is not synced: a power loss may lose or tear it too.
PowerFails ==
    /\ phase \in {"restoring", "running"}
    /\ sentinel' \in {NoSentinel, Torn, sentinel} /\ Ends("power")
    /\ lastBlamed' = {} /\ lastRestoring' = {} /\ UNCHANGED <<saved, crashFiles, blamed>>

\* Close saves and removes the sentinel, unless the terminal UI crashed
\* (MarkUncleanExit) and recorded it, for no torrent.
CloseRun(unclean) ==
    /\ phase = "running" /\ saved' = Snapshot /\ savedIntent' = intent
    /\ sentinel' = IF unclean THEN sentinel ELSE NoSentinel
    /\ crashFiles' = IF unclean
                     THEN crashFiles \cup {[run |-> run, torrent |-> "unattributed", component |-> "session"]}
                     ELSE crashFiles
    /\ phase' = "down"
    /\ ends' = <<IF ~unclean THEN "clean" ELSE IF sentinel.stable THEN "stable" ELSE "early">> \o ends
    /\ todo' = {} /\ loaded' = Nothing /\ unrestored' = Nothing /\ unsaved' = FALSE
    /\ lastBlamed' = {} /\ lastRestoring' = {}
    /\ UNCHANGED <<streak, run, startPaused, previous, intent, blamed, changes>>

CrashNext ==
    \/ \E flag \in BOOLEAN : StartRun(flag) \/ CloseRun(flag)
    \/ \E t \in Torrents : \/ RestoreOne(t) \/ PauseTorrent(t) \/ ResumeTorrent(t)
                           \/ RemoveTorrent(t) \/ AddTorrent(t) \/ SessionCrash(t)
    \/ FinishRestore \/ SaveLoop \/ MarkStable \/ Dies \/ PowerFails

CrashSpec == CrashInit /\ [][CrashNext]_crashVars

----------------------------------------------------------------------------
(* Properties *)

\* Once all changes are saved, session.json lists the user's torrents, each paused
\* or running as the user left it: a pause this program made is never saved as
\* the user's, save that of a quarantine, which goes with it.
IntentIsSaved ==
    phase = "running" /\ ~unsaved =>
        /\ DOMAIN saved = Wanted
        /\ \A t \in Wanted : ~saved[t].quarantined => (saved[t].paused <=> intent[t] = "paused")

\* A torrent leaves session.json only when the user removes it, however the
\* runs end and whatever a restore does, and it is saved as the user left it
\* (manager.go:1784).
NothingForgotten ==
    /\ [][\A t \in DOMAIN saved \ DOMAIN saved' : intent[t] = "absent"]_crashVars
    /\ []IntentIsSaved

\* The start after a crash recorded for a torrent loads it paused and quarantined
\* until the user resumes it, and not at all if restoring it crashed, unless asked
\* to start paused.
CrashIsContained ==
    phase \in {"restoring", "running"} =>
        /\ \A t \in lastBlamed \cap DOMAIN loaded : loaded[t].paused /\ loaded[t].quarantined
        /\ startPaused \/ lastRestoring \cap DOMAIN loaded = {}

\* Every torrent is paused after two early, unexplained ends in a row, and only
\* after two unclean ends that no torrent was blamed for.
PausedAfterTwo ==
    phase \in {"restoring", "running"} =>
        /\ Len(ends) >= 2 /\ ends[1] = "early" /\ ends[2] = "early" => previous.pauseAll
        /\ previous.pauseAll => Len(ends) >= 2 /\ \A i \in {1, 2} : ends[i] \in {"early", "power"}

\* A torrent blamed for a crash is loaded paused by the next start, and two
\* unexplained early ends in a row pause everything (crashguard.go).
CrashesAreContained == CrashIsContained /\ PausedAfterTwo

\* A torrent a crash was recorded for is not running until the user resumes it
\* (manager.go:1937).
StaysQuarantined ==
    phase = "running" => \A t \in blamed \cap DOMAIN loaded : loaded[t].paused
=============================================================================
