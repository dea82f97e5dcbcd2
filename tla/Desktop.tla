------------------------------- MODULE Desktop -------------------------------
(***************************************************************************)
(* The life of the desktop process: opening the database or recovering     *)
(* from a corrupt one (db.rs), the launch (lib.rs), the window and the     *)
(* tray (windows/mod.rs, tray.rs), a second launch (single_instance.rs),   *)
(* and the settings save (settings_set of commands/mod.rs) with the three  *)
(* things that must follow it: the launch-on-login registration of the OS, *)
(* the git engine and the close button.  Any call to the OS, the database  *)
(* or the file system may fail, the process may die between any two steps, *)
(* and the registration and the installed gits change under it.            *)
(***************************************************************************)
EXTENDS Database, Autostart, Integers

CONSTANTS
    Saver,                 \* callers of settings_set
    Path,                  \* the git paths a user may configure, NoPath among them
    Request,               \* the settings a caller may ask for
    Stamp,                 \* the seconds at which files are set aside
    MaxSaves,              \* bound on saves
    MaxFaults,             \* bound on failing calls and crashes
    MaxOutside,            \* bound on changes made outside RepoSync
    MaxLockRetries         \* MAX_LOCK_RETRIES

Settings == [autostart : Switch, close : BOOLEAN, path : Path]

ASSUME DesktopAssumption ==
    /\ Request \subseteq Settings
    /\ NoPath \in Path /\ "system" \notin Path /\ "free" \notin Saver
    /\ Stamp \subseteq Nat \ {Main} /\ Stamp # {}
    /\ {MaxSaves, MaxFaults, MaxOutside, MaxLockRetries} \subseteq Nat

VARIABLES
    disk,                  \* the database, the ones set aside, and its siblings
    logs,                  \* the write-ahead logs of the databases that were moved aside
    os,                    \* the launch-on-login registration
    runnable,              \* the gits that run: configured paths, and "system"
    app,                   \* the process, see Process
    save,                  \* each caller's settings_set
    lock,                  \* settings_write_lock
    left,                  \* what the bounds leave of saves, faults and changes from outside
    made,                  \* history: how many databases were ever created
    seen,                  \* history: the database of the last session that ran, 0 if none
    excused                \* history: what may presently disagree, and why is on record

vars == <<disk, logs, os, runnable, app, save, lock, left, made, seen, excused>>

Db == [gen : Nat, damage : Damage, settings : Settings]

\* SystemGitEngine: the path it was built for and the git it found; NoGit is None.
NoGit == [path |-> NoPath, exe |-> "none"]
Resolve(path) ==
    [path |-> path, exe |-> IF path \in runnable THEN path
                            ELSE IF "system" \in runnable THEN "system" ELSE "none"]
Unavailable(engine) == engine.exe = "none"

\* The stages of a launch, and what the shell holds while it runs (AppState).
Launching == {"opening", "moving", "sidecars", "creating", "launching", "showing"}
Process == [stage : {"off", "running"} \cup Launching, auto : BOOLEAN, tries : 0..MaxLockRetries,
            db : {Main} \cup Stamp, recovered : BOOLEAN, engine : [path : Path, exe : Path \cup {"system"}],
            close : BOOLEAN, tray : BOOLEAN, intercept : BOOLEAN,
            visible : BOOLEAN, showFailed : BOOLEAN]
Off == [stage |-> "off", auto |-> FALSE, tries |-> 0, db |-> Main, recovered |-> FALSE,
        engine |-> NoGit, close |-> TRUE, tray |-> FALSE, intercept |-> FALSE,
        visible |-> FALSE, showFailed |-> FALSE]

\* A save waits for the lock, has read what was stored, has actuated autostart, has
\* persisted, and has reconciled what is live.
GitReconcile == {"Unchanged", "Swapped", "SwappedBlind", "RejectUnavailable"}
Save == [stage : {"idle", "waiting", "read", "actuated", "persisted", "reconciled"},
         request : Settings, previous : Settings, act : Actuation, after : Reading,
         before : Switch,
         git : GitReconcile]
NoActuation == [seen |-> "off", os |-> "off", result |-> "noop"]
NoSave == [stage |-> "idle", request |-> DefaultSettings, previous |-> DefaultSettings,
           act |-> NoActuation, after |-> Unknown, before |-> "off", git |-> "Unchanged"]

Subject == {"autostart", "close", "engine", "reset"}

LogType == \A g \in DOMAIN logs : g \in Nat /\ logs[g] \in Log

TypeOK ==
    /\ disk.main \in Db
    /\ \A f \in DOMAIN disk.aside : f \in Stamp \X Nat /\ disk.aside[f] \in Db
    /\ \A f \in DOMAIN disk.fresh : f \in Stamp /\ disk.fresh[f] \in Db
    /\ LogType
    /\ os \in Switch /\ runnable \subseteq (Path \cup {"system"}) \ {NoPath}
    /\ app \in Process
    /\ save \in [Saver -> Save]
    /\ lock \in Saver \cup {"free"}
    /\ lock # "free" <=> \E s \in Saver : save[s].stage \notin {"idle", "waiting"}
    /\ left \in [saves : 0..MaxSaves, faults : 0..MaxFaults, outside : 0..MaxOutside]
    /\ made \in Nat /\ seen \in 0..made
    /\ excused \subseteq Subject

\* A machine on which RepoSync was never started.
Init ==
    /\ disk = [main |-> NoDb, aside |-> << >>, fresh |-> << >>]
    /\ logs = << >>
    /\ os = "off"
    /\ runnable \in {{}, {"system"}}
    /\ app = Off
    /\ save = [s \in Saver |-> NoSave]
    /\ lock = "free"
    /\ left = [saves |-> MaxSaves, faults |-> MaxFaults, outside |-> MaxOutside]
    /\ made = 0 /\ seen = 0
    /\ excused = {}
-----------------------------------------------------------------------------
(* Faults, and what may disagree *)

\* A step in which n calls fail.
Failing(n) == left.faults >= n /\ left' = [left EXCEPT !.faults = @ - n]
Count(failed) == IF failed THEN 1 ELSE 0

Stored == At(disk, app.db).settings
Store(settings) == disk' = With(disk, app.db, [At(disk, app.db) EXCEPT !.settings = settings])

\* The subjects of clear agree from now on, those of add need not.
Excuse(add, clear) == excused' = (excused \ clear) \cup add
Iff(condition, subject) == IF condition THEN {subject} ELSE {}

\* The process ends, by whatever way, and takes its saves with it; between the renames of a
\* recovery the sidecars are left behind.
End ==
    /\ app' = Off
    /\ logs' = IF app.stage = "sidecars" THEN Torn(logs) ELSE logs
    /\ save' = [s \in Saver |-> NoSave]
    /\ lock' = "free"
    /\ IF app.stage = "running"
       THEN /\ seen' = At(disk, app.db).gen
            /\ Excuse(Iff(\E s \in Saver : save[s].stage = "actuated", "autostart"), {"reset"})
       ELSE /\ Excuse(Iff((app.stage \in {"sidecars", "creating"} /\ app.db = Main) \/ app.recovered, "reset"), {})
            /\ UNCHANGED seen

-----------------------------------------------------------------------------
(* Launch: the database *)

\* By the user, or by the OS if it is registered; a second launch is turned away.
Launch(auto) ==
    /\ app.stage = "off"
    /\ auto => os = "on"
    /\ app' = [Off EXCEPT !.stage = "opening", !.auto = auto]
    /\ UNCHANGED <<logs, disk, os, runnable, save, lock, left, made, seen, excused>>

\* open_pool creates a missing file.
CreateOrOpen(where) ==
    /\ disk' = Opened(disk, where, NewDb(made + 1))
    /\ made' = IF At(disk', where).gen = made + 1 THEN made + 1 ELSE made
    /\ logs' = IF where = Main /\ disk.main = NoDb THEN Overwritten(logs) ELSE logs

Open ==
    /\ app.stage = "opening"
    /\ disk.main.damage = "none"
    /\ CreateOrOpen(Main)
    /\ app' = [app EXCEPT !.stage = "launching", !.tries = 0]
    /\ UNCHANGED <<os, runnable, save, lock, left, seen, excused>>

\* init_pool_with_recovery: a lock is retried; what is neither a lock nor corruption ends the launch.
OpenFails(cause) ==
    LET class == ClassifyInitFailure(cause)
    IN /\ app.stage = "opening"
       /\ disk.main # NoDb
       /\ cause = disk.main.damage \/ cause = "locked"
       /\ cause # "none"
       /\ Failing(Count(cause = "locked"))
       /\ \/ /\ class = "Corrupt"
             /\ app' = [app EXCEPT !.stage = "moving"]
             /\ UNCHANGED <<logs, save, lock, seen, excused>>
          \/ /\ class = "Locked" /\ app.tries < MaxLockRetries
             /\ app' = [app EXCEPT !.tries = @ + 1]
             /\ UNCHANGED <<logs, save, lock, seen, excused>>
          \/ /\ class = "Fatal" \/ (class = "Locked" /\ app.tries = MaxLockRetries)
             /\ End
       /\ UNCHANGED <<disk, os, runnable, made>>

\* recover_with_fresh_db: the corrupt file moves aside, or a sibling takes its place.
MoveDbAside(stamp) ==
    /\ app.stage = "moving"
    /\ \/ /\ disk' = MoveAside(disk, stamp)
          /\ logs' = Behind(logs, disk.main.gen)
          /\ app' = [app EXCEPT !.stage = "sidecars"]
          /\ UNCHANGED left
       \/ /\ Failing(1)
          /\ app' = [app EXCEPT !.stage = "creating", !.db = stamp]
          /\ UNCHANGED <<disk, logs>>
    /\ UNCHANGED <<os, runnable, save, lock, made, seen, excused>>

\* The sidecars follow at best effort: a failure is logged, and the recovery goes on.
MoveSidecars ==
    /\ app.stage = "sidecars"
    /\ \/ logs' = Followed(logs) /\ UNCHANGED left
       \/ LeftBehind(logs) # {} /\ Failing(1) /\ logs' = Torn(logs)
    /\ app' = [app EXCEPT !.stage = "creating"]
    /\ UNCHANGED <<disk, os, runnable, save, lock, made, seen, excused>>

\* Mutant: only a database that was moved is reported.
RecoveredIfMoved(where) == where = Main

\* DbInit: every recovery is reported.
Recovered(where) == TRUE

CreateFresh ==
    /\ app.stage = "creating"
    /\ CreateOrOpen(app.db)
    /\ app' = [app EXCEPT !.stage = "launching", !.recovered = Recovered(app.db)]
    /\ UNCHANGED <<os, runnable, save, lock, left, seen, excused>>

CreateFreshFails ==
    /\ app.stage = "creating"
    /\ Failing(1)
    /\ End
    /\ UNCHANGED <<disk, os, runnable, made>>

-----------------------------------------------------------------------------
(* Launch: settings, window and tray *)

Shell(settings) ==
    LET engine == Resolve(settings.path)
    IN [app EXCEPT !.stage = "showing", !.close = settings.close,
                   !.engine = IF Unavailable(engine) THEN NoGit ELSE engine]

\* The stored settings are read once; unreadable, the defaults stand and nothing is
\* reconciled.
SettleBlind ==
    /\ app.stage = "launching"
    /\ Failing(1)
    /\ app' = Shell(DefaultSettings)
    /\ Excuse({"autostart", "close", "engine"}, {})
    /\ UNCHANGED <<logs, disk, os, runnable, save, lock, made, seen>>

\* reconcile_on_launch: the setting adopts what the OS says, with a write of its own.
Settle ==
    /\ app.stage = "launching"
    /\ app' = Shell(Stored)
    /\ \E reading \in {os, Unknown}, wrote \in BOOLEAN :
         LET adopted == Adopted(reading, Stored.autostart)
         IN /\ adopted = Stored.autostart => wrote
            /\ Failing(Count(reading = Unknown) + Count(~wrote))
            /\ IF wrote THEN Store([Stored EXCEPT !.autostart = adopted]) ELSE UNCHANGED disk
            /\ Excuse(Iff(reading = Unknown \/ ~wrote, "autostart"), {"autostart", "close", "engine"})
    /\ UNCHANGED <<logs, os, runnable, save, lock, made, seen>>

\* Mutant: the close button hides the window whether or not there is a tray.
DecideWindowLifecycleAlways(tray, auto) == [startHidden |-> tray /\ auto, interceptClose |-> TRUE]

DecideWindowLifecycle(tray, auto) == [startHidden |-> tray /\ auto, interceptClose |-> tray]
DecideCloseAction(tray, close) == IF tray /\ close THEN "HideToTray" ELSE "Exit"

\* The tray may fail to build, the window to hide or to show.
Show ==
    /\ app.stage = "showing"
    /\ \E tray \in BOOLEAN, obeys \in BOOLEAN :
         LET lifecycle == DecideWindowLifecycle(tray, app.auto)
         IN /\ Failing(Count(~tray) + Count(~obeys))
            /\ app' = [app EXCEPT !.stage = "running", !.auto = FALSE, !.tray = tray,
                         !.intercept = lifecycle.interceptClose,
                         !.visible = (obeys # lifecycle.startHidden),
                         !.showFailed = (~obeys /\ ~lifecycle.startHidden)]
    /\ UNCHANGED <<logs, disk, os, runnable, save, lock, made, seen, excused>>

-----------------------------------------------------------------------------
(* The window *)

\* raise_main_window: what asks for the window gets it, unless the OS does not show it.
RaiseMainWindow ==
    /\ \/ app' = [app EXCEPT !.visible = TRUE, !.showFailed = FALSE] /\ UNCHANGED left
       \/ ~app.visible /\ Failing(1) /\ UNCHANGED app
    /\ UNCHANGED <<logs, disk, os, runnable, save, lock, made, seen, excused>>

\* A second process hands over to this one and ends (tauri_plugin_single_instance).
SecondLaunch == app.stage = "running" /\ RaiseMainWindow

\* The tray's icon, and its items that lead to the window.
ShowFromTray == app.stage = "running" /\ app.tray /\ RaiseMainWindow

\* The close button reads the live flag; a window that does not hide stays.
CloseToTray ==
    /\ app.stage = "running" /\ app.visible
    /\ app.intercept /\ DecideCloseAction(TRUE, app.close) = "HideToTray"
    /\ \/ app' = [app EXCEPT !.visible = FALSE] /\ UNCHANGED left
       \/ Failing(1) /\ UNCHANGED app
    /\ UNCHANGED <<logs, disk, os, runnable, save, lock, made, seen, excused>>

CloseAndExit ==
    /\ app.stage = "running" /\ app.visible
    /\ ~app.intercept \/ DecideCloseAction(TRUE, app.close) = "Exit"
    /\ End
    /\ UNCHANGED <<disk, os, runnable, left, made>>

Quit ==
    /\ app.stage = "running" /\ app.tray
    /\ End
    /\ UNCHANGED <<disk, os, runnable, left, made>>

\* The confirmed update restarts the process, whatever it is doing; one that cannot be
\* checked, fetched or verified changes nothing.
InstallUpdate ==
    /\ app.stage = "running"
    /\ End
    /\ UNCHANGED <<disk, os, runnable, left, made>>

Crash ==
    /\ app.stage # "off"
    /\ Failing(1)
    /\ End
    /\ UNCHANGED <<disk, os, runnable, made>>

-----------------------------------------------------------------------------
(* settings_set *)

SaveSettings(s, request) ==
    /\ app.stage = "running"
    /\ save[s].stage = "idle"
    /\ left.saves > 0 /\ left' = [left EXCEPT !.saves = @ - 1]
    /\ save' = [save EXCEPT ![s] = [NoSave EXCEPT !.stage = "waiting", !.request = request]]
    /\ UNCHANGED <<logs, disk, os, runnable, app, lock, made, seen, excused>>

\* Mutant: saves are not serialized.
LockFreeAlways == TRUE
LockFree == lock = "free"

Answer(s) == save' = [save EXCEPT ![s] = NoSave] /\ lock' = "free"

\* With the lock held, the row is read and the payload validated.
Begin(s) ==
    /\ save[s].stage = "waiting" /\ LockFree
    /\ lock' = s
    /\ save' = [save EXCEPT ![s].stage = "read", ![s].previous = Stored]
    /\ UNCHANGED <<logs, disk, os, runnable, app, left, made, seen, excused>>

\* An unreadable row or an invalid payload ends it before anything is actuated.
Refuse(s) ==
    /\ save[s].stage = "waiting" /\ LockFree
    /\ Answer(s)
    /\ UNCHANGED <<logs, disk, os, runnable, app, left, made, seen, excused>>

\* Apply, then persist: the OS first, and after a failure what the OS now says.
Actuate(s) ==
    LET wanted == save[s].request.autostart
        before == save[s].previous.autostart
    IN /\ save[s].stage = "read"
       /\ \E act \in IF wanted = before THEN {[NoActuation EXCEPT !.os = os]} ELSE Actuations(os, wanted) :
          \E after \in IF act.result = "failed" THEN {act.os, Unknown} ELSE {Unknown} :
            /\ Failing(Count(wanted # before /\ act.seen = Unknown) + Count(act.result = "failed")
                       + Count(act.result = "failed" /\ after = Unknown))
            /\ os' = act.os
            /\ save' = [save EXCEPT ![s].stage = "actuated", ![s].act = act, ![s].after = after,
                          ![s].before = os,
                          ![s].request.autostart = AutostartToPersist(wanted, before, act, after)]
       /\ UNCHANGED <<logs, disk, runnable, app, lock, made, seen, excused>>

\* The one write that stores something unverified is that of a failed call whose effect
\* the OS would not tell.
Persist(s) ==
    LET blind == save[s].act.result = "failed" /\ save[s].after = Unknown
    IN /\ save[s].stage = "actuated"
       /\ Store(save[s].request)
       /\ save' = [save EXCEPT ![s].stage = "persisted"]
       /\ Excuse(Iff(blind, "autostart"), Iff(save[s].request.autostart = os, "autostart"))
       /\ UNCHANGED <<logs, os, runnable, app, lock, left, made, seen>>

UndoTarget(s) == save[s].act.seen

\* Mutant: every actuation is undone.
MustUndoAll(s) == TRUE
MustUndo(s) == CanRollBack(save[s].act)

\* The write failed, and a confirmed change is undone at best effort.
PersistFails(s) ==
    /\ save[s].stage = "actuated"
    /\ \E undo \in IF MustUndo(s) THEN Actuations(os, UndoTarget(s))
                   ELSE {[NoActuation EXCEPT !.os = os]} :
         LET unsure == \/ save[s].act.result = "failed"
                       \/ save[s].act.result = "changed" /\ save[s].act.seen = Unknown
                       \/ undo.result = "failed"
         IN /\ Failing(1 + Count(MustUndo(s) /\ undo.seen = Unknown) + Count(undo.result = "failed"))
            /\ os' = undo.os
            /\ Excuse(Iff(unsure, "autostart"), {})
    /\ Answer(s)
    /\ UNCHANGED <<logs, disk, runnable, app, made, seen>>

\* Mutant: a refused path returns before the flag is stored.
CloseFlagUnlessRefused(s, refused) == IF refused THEN app.close ELSE save[s].request.close
CloseFlag(s, refused) == save[s].request.close

\* git_swap_rejection: an engine that found no git is not taken.  The path is compared with
\* the stored one, whatever engine is live.
Reconciliation(changed, blind, engine) ==
    CASE ~changed -> "Unchanged"
      [] changed /\ Unavailable(engine) -> "RejectUnavailable"
      [] changed /\ ~Unavailable(engine) -> IF blind THEN "SwappedBlind" ELSE "Swapped"

\* The close flag follows at once; the engine only if the path changed, read back from
\* the row at best effort (blind: as if there were none), and only to one that runs.
ReconcileLive(s) ==
    LET changed == save[s].request.path # save[s].previous.path
    IN /\ save[s].stage = "persisted"
       /\ \E blind \in IF changed THEN BOOLEAN ELSE {FALSE} :
            LET engine == Resolve(IF blind THEN NoPath ELSE Stored.path)
                git == Reconciliation(changed, blind, engine)
                swap == git \in {"Swapped", "SwappedBlind"}
            IN /\ Failing(Count(blind))
               /\ app' = [app EXCEPT !.close = CloseFlag(s, git = "RejectUnavailable"),
                                     !.engine = IF swap THEN engine ELSE @]
               /\ save' = [save EXCEPT ![s].stage = "reconciled", ![s].git = git]
               /\ Excuse(Iff(git \in {"SwappedBlind", "RejectUnavailable"}, "engine"),
                         {"close"} \cup Iff(swap, "engine"))
       /\ UNCHANGED <<logs, disk, os, runnable, lock, made, seen>>

\* Mutant: a refused git path is answered as a success (BL-NI-26).
SucceedsRefused(s) == save[s].act.result # "failed"

\* The answer to the user: a refused git path first, then a failed registration.
Succeeds(s) == save[s].git # "RejectUnavailable" /\ save[s].act.result # "failed"

Finish(s) ==
    /\ save[s].stage = "reconciled"
    /\ Answer(s)
    /\ UNCHANGED <<logs, disk, os, runnable, app, left, made, seen, excused>>

-----------------------------------------------------------------------------
(* Outside RepoSync *)

Outside == left.outside > 0 /\ left' = [left EXCEPT !.outside = @ - 1]

ToggleRegistration ==
    /\ Outside
    /\ \E switch \in Switch \ {os} : os' = switch
    /\ Excuse({"autostart"}, {})
    /\ UNCHANGED <<logs, disk, runnable, app, save, lock, made, seen>>

InstallGit(exe) ==
    /\ Outside
    /\ runnable' = IF exe \in runnable THEN runnable \ {exe} ELSE runnable \cup {exe}
    /\ UNCHANGED <<logs, disk, os, app, save, lock, made, seen, excused>>

\* A file goes bad, or a newer RepoSync has migrated it, while this one does not run.
DamageFile(damage) ==
    /\ Outside
    /\ app.stage = "off" /\ disk.main # NoDb /\ disk.main.damage = "none"
    /\ disk' = [disk EXCEPT !.main.damage = damage]
    /\ UNCHANGED <<logs, os, runnable, app, save, lock, made, seen, excused>>

-----------------------------------------------------------------------------

LaunchStep ==
    \/ Open \/ MoveSidecars \/ CreateFresh \/ CreateFreshFails \/ SettleBlind \/ Settle \/ Show
    \/ \E cause \in Damage \cup {"locked"} : OpenFails(cause)
    \/ \E stamp \in Stamp : MoveDbAside(stamp)

SaveStep(s) ==
    Begin(s) \/ Refuse(s) \/ Actuate(s) \/ Persist(s) \/ PersistFails(s) \/ ReconcileLive(s) \/ Finish(s)

Next ==
    \/ LaunchStep
    \/ \E auto \in BOOLEAN : Launch(auto)
    \/ SecondLaunch \/ ShowFromTray \/ CloseToTray
    \/ CloseAndExit \/ Quit \/ InstallUpdate \/ Crash
    \/ \E s \in Saver : SaveStep(s) \/ \E request \in Request : SaveSettings(s, request)
    \/ ToggleRegistration
    \/ \E exe \in (Path \cup {"system"}) \ {NoPath} : InstallGit(exe)
    \/ \E damage \in Damage \ {"none"} : DamageFile(damage)

Spec == Init /\ [][Next]_vars

-----------------------------------------------------------------------------
(* Properties *)

Shown == app.stage \in {"showing", "running"}
Settled == Shown /\ \A s \in Saver : save[s].stage \notin {"actuated", "persisted"}

\* "The persisted setting never claims an actuation that did not happen" (settings_set):
\* between saves the setting is what the OS holds, unless the registration was changed
\* outside, or a call failed whose effect could not be told.  A launch that can read both
\* ends every disagreement.  So it is after a failed call, too: what is stored is what the OS
\* then says, where the comment of autostart.rs's apply (line 173) would have the requested
\* value stored first, kept, and tried again by the next launch.
AutostartHonest == Settled => Stored.autostart = os \/ "autostart" \in excused

\* The close button and the git engine are those of the stored settings, whatever saves
\* overlap and fail (BL-NI-35): except a path without a git, which is refused and keeps
\* the old engine, and settings that could not be read.
LiveFollowsStored ==
    Settled => /\ app.close = Stored.close \/ "close" \in excused
               /\ app.engine.path = Stored.path \/ app.engine = NoGit \/ "engine" \in excused

\* The user is never left with a hidden window and no tray, unless the OS refused to show
\* it (finding 2 of windows/mod.rs).
NeverStranded == app.stage = "running" /\ ~app.visible => app.tray \/ app.showFailed

\* A log lies beside its database, or is about to follow it, or could not be moved there.
LogsKept ==
    \A g \in DOMAIN logs : \/ logs[g].at = "beside"
                           \/ logs[g].at = "behind" /\ app.stage = "sidecars"
                           \/ logs[g].torn

\* "Data is never silently deleted" (init_pool_with_recovery): every database that was
\* ever created is still on the disk, two recoveries of one second included; and so is what
\* was committed to its log only, moved with it before anything opens the path it lay at.
\* What can lose such a log is what the code only writes a line about, or not even that: a
\* sidecar that cannot be moved, and a process that dies between the renames.
DataPreserved == {db.gen : db \in Files(disk)} = 1..made /\ LogsKept

\* A session that does not run on the last one's database says so to the user (AC7),
\* unless the launch that set the old one aside died before it came up.
ResetIsTold ==
    app.stage = "running" /\ seen # 0 /\ At(disk, app.db).gen # seen
        => app.recovered \/ "reset" \in excused

\* Only a corrupt database is ever replaced (DS-1): not a locked one, not a newer one.
ResetOnlyCorrupt ==
    [][disk'.main.gen # disk.main.gen => disk.main = NoDb \/ disk.main.damage = "corrupt"]_vars

\* What a save reports is so.  One reported as done is in the row and in the window, and what
\* it changed is in force: a new git path in the engine, a new launch-on-login in the OS.  Two
\* exceptions: the engine of a save that could not read the row back is built as if no path
\* were set, and the registration may be changed outside before the answer.  Of a setting it
\* repeats the answer says nothing: a path that was refused and stored is accepted when it is
\* saved again, with the old engine live.  A save that fails to persist leaves the
\* registration as it was before: it never "invents a third state" (rollback_target), or that
\* is on record.
SaveReportTrue ==
    [][\A s \in Saver : save'[s].stage = "idle" =>
        /\ save[s].stage = "reconciled" /\ Succeeds(s) =>
             /\ Stored = save[s].request
             /\ app.close = save[s].request.close
             /\ save[s].request.path # save[s].previous.path =>
                  app.engine.path = save[s].request.path \/ save[s].git = "SwappedBlind"
             /\ save[s].request.autostart # save[s].previous.autostart =>
                  os = save[s].request.autostart \/ "autostart" \in excused
        /\ save[s].stage = "actuated" /\ app'.stage = "running" =>
             os' = save[s].before \/ (os' = os /\ "autostart" \in excused')]_vars
=============================================================================
