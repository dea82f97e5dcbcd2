----------------------------- MODULE Diagnostics ----------------------------
(***************************************************************************)
(* The Diagnostics view (diagnostics_get and build_diagnostics of          *)
(* commands/mod.rs) beside what it reports on: the git engine and the path *)
(* that a save may just be changing (Desktop looks into that save), and    *)
(* the health of the log writer (LogHealth of the edge's logging.rs),      *)
(* which fails on a thread of its own and shares two atomics, no lock.     *)
(*                                                                         *)
(* An atomic is the sequence of its values.  A relaxed load may return any *)
(* value not older than what its thread knows of; a load with Acquire that *)
(* returns what was stored with Release also learns what the storing       *)
(* thread knew.                                                            *)
(***************************************************************************)
EXTENDS Naturals, Sequences

CONSTANTS
    Path,                  \* the git paths a user may configure, neither "system" nor "none"
    MaxFailures,           \* bound on failed log writes
    MaxSteps               \* bound on saves, launches, changes of the gits and failed reads

\* What the constants stand for.
DiagnosticsAssumption ==
    /\ Path \cap {"system", "none"} = {}
    /\ {MaxFailures, MaxSteps} \subseteq Nat

VARIABLES
    runnable,              \* the gits that run: configured paths, and "system"
    stored,                \* settings.git_executable_path, "none" if NULL
    engine,                \* the git of the shared engine, "none" if None
    holder,                \* who holds settings_write_lock
    save,                  \* a settings_set: its stage, the path asked for, the one before
    view,                  \* a diagnostics_get: its stage and what it has read
    last_failure,          \* last_failure_unix: every value stored; 0 is "never"
    published,             \* write_failures: for each count, how many of those its adder knew
    clock,
    steps,                 \* counts the bounded steps
    inForce                \* history: the <<stored, engine>> outside a save since the view began

settings == <<runnable, stored, engine, holder, save, inForce>>
health == <<last_failure, published, clock>>
vars == <<settings, health, view, steps>>

Exe == Path \cup {"system", "none"}
NoSave == [stage |-> "idle", path |-> "none", previous |-> "none"]
NoView == [stage |-> "idle", exe |-> "none", path |-> "none", failures |-> 0, at |-> 0]

TypeOK ==
    /\ runnable \subseteq Path \cup {"system"}
    /\ stored \in Path \cup {"none"} /\ engine \in Exe
    /\ holder \in {"free", "save", "view"}
    /\ save \in [stage : {"idle", "waiting", "persist", "swap"},
                 path : Path \cup {"none"}, previous : Path \cup {"none"}]
    /\ view \in [stage : {"idle", "waiting", "engine", "settings", "count", "time", "shown"},
                 exe : Exe, path : Path \cup {"none"},
                 failures : 0..MaxFailures, at : 0..(MaxFailures + 1)]
    /\ Len(last_failure) \in 1..(MaxFailures + 1)
    /\ Len(published) \in 1..Len(last_failure)
    /\ clock \in 1..(MaxFailures + 1)
    /\ steps \in 0..MaxSteps
    /\ inForce \subseteq (Path \cup {"none"}) \X Exe

Resolve(path) ==
    IF path \in runnable THEN path ELSE IF "system" \in runnable THEN "system" ELSE "none"

Init ==
    /\ runnable \in SUBSET (Path \cup {"system"})
    /\ stored = "none" /\ engine = Resolve("none")
    /\ holder = "free" /\ save = NoSave /\ view = NoView
    /\ last_failure = <<0>> /\ published = <<1>>
    /\ clock = 1 /\ steps = 0
    /\ inForce = {<<stored, engine>>}

Step == steps < MaxSteps /\ steps' = steps + 1

-----------------------------------------------------------------------------
(* A save, as far as it touches the path. *)

SaveCall(path) ==
    /\ save.stage = "idle" /\ Step
    /\ save' = [NoSave EXCEPT !.stage = "waiting", !.path = path]
    /\ UNCHANGED <<runnable, stored, engine, holder, inForce, view, health>>

\* The lock is held to the end of the call; a settings row that cannot be read ends it.
SaveLock ==
    /\ save.stage = "waiting" /\ holder = "free"
    /\ holder' = "save"
    /\ save' = [save EXCEPT !.stage = "persist", !.previous = stored]
    /\ UNCHANGED <<runnable, stored, engine, inForce, view, health, steps>>

EndSave ==
    /\ holder' = "free" /\ save' = NoSave
    /\ inForce' = inForce \cup {<<stored', engine'>>}

SavePersist ==
    /\ save.stage = "persist"
    /\ stored' = save.path
    /\ IF save.path = save.previous
       THEN UNCHANGED engine /\ EndSave
       ELSE save' = [save EXCEPT !.stage = "swap"] /\ UNCHANGED <<engine, holder, inForce>>
    /\ UNCHANGED <<runnable, view, health, steps>>

SaveFails ==
    /\ save.stage = "persist" /\ Step
    /\ UNCHANGED <<stored, engine>> /\ EndSave
    /\ UNCHANGED <<runnable, view, health>>

\* The path is read back for the probe, and counts as unset when that read fails.  An
\* engine without git is rejected, and the one in force stays.
SaveSwap ==
    /\ save.stage = "swap"
    /\ \E path \in {stored, "none"} :
         /\ IF path = stored THEN UNCHANGED steps ELSE Step
         /\ engine' = IF Resolve(path) = "none" THEN engine ELSE Resolve(path)
    /\ UNCHANGED stored /\ EndSave
    /\ UNCHANGED <<runnable, view, health>>

\* The user installs or removes a git; nobody is told.
Outside(gits) ==
    /\ gits # runnable /\ Step
    /\ runnable' = gits
    /\ UNCHANGED <<stored, engine, holder, save, inForce, view, health>>

\* The process ends anywhere and starts again: an engine without git is None, and settings
\* that cannot be read name no path.
Relaunch ==
    /\ Step
    /\ \E path \in {stored, "none"} : engine' = Resolve(path)
    /\ holder' = "free" /\ save' = NoSave /\ view' = NoView
    /\ inForce' = {<<stored, engine'>>}
    /\ last_failure' = <<0>> /\ published' = <<1>> /\ clock' = 1
    /\ UNCHANGED <<runnable, stored>>

-----------------------------------------------------------------------------
(* The log writer: record_failure.  A clock before 1970 would store 0. *)

StoreTime ==
    /\ Len(last_failure) = Len(published) /\ Len(published) <= MaxFailures
    /\ \E t \in {clock, clock + 1} :
         /\ t <= MaxFailures + 1 /\ clock' = t
         /\ last_failure' = Append(last_failure, t)
    /\ UNCHANGED <<published, settings, view, steps>>

AddFailure ==
    /\ Len(last_failure) > Len(published)
    /\ published' = Append(published, Len(last_failure))
    /\ UNCHANGED <<last_failure, clock, settings, view, steps>>

-----------------------------------------------------------------------------
(* The view *)

ViewCall ==
    /\ view.stage \in {"idle", "shown"}
    /\ view' = [NoView EXCEPT !.stage = "waiting"]
    /\ inForce' = IF save.stage = "swap" THEN {} ELSE {<<stored, engine>>}
    /\ UNCHANGED <<runnable, stored, engine, holder, save, health, steps>>

ViewLock ==
    /\ view.stage = "waiting" /\ holder = "free"
    /\ holder' = "view"
    /\ view' = [view EXCEPT !.stage = "engine"]
    /\ UNCHANGED <<runnable, stored, engine, save, inForce, health, steps>>

ViewEngine ==
    /\ view.stage = "engine"
    /\ view' = [view EXCEPT !.stage = "settings", !.exe = engine]
    /\ UNCHANGED <<settings, health, steps>>

\* Settings that cannot be read claim no path.
ViewSettings ==
    /\ view.stage = "settings"
    /\ \E path \in {stored, "none"} :
         /\ IF path = stored THEN UNCHANGED steps ELSE Step
         /\ view' = [view EXCEPT !.stage = "count", !.path = path]
    /\ holder' = "free"
    /\ UNCHANGED <<runnable, stored, engine, save, inForce, health>>

\* write_failures, with Acquire
ViewCount ==
    /\ view.stage = "count"
    /\ \E i \in DOMAIN published :
         view' = [view EXCEPT !.stage = "time", !.failures = i - 1]
    /\ UNCHANGED <<settings, health, steps>>

\* last_failure_unix: nothing older than the adder of the count knew.
ViewTime ==
    /\ view.stage = "time"
    /\ \E i \in published[view.failures + 1]..Len(last_failure) :
         view' = [view EXCEPT !.stage = "shown", !.at = last_failure[i]]
    /\ UNCHANGED <<settings, health, steps>>

\* git_explicit_path_honored: <<>> when there is nothing to compare.
Honored ==
    IF "none" \in {view.path, view.exe} THEN <<>> ELSE <<view.exe = view.path>>

-----------------------------------------------------------------------------
Next ==
    \/ \E path \in Path \cup {"none"} : SaveCall(path)
    \/ SaveLock \/ SavePersist \/ SaveFails \/ SaveSwap
    \/ \E gits \in SUBSET (Path \cup {"system"}) : Outside(gits)
    \/ Relaunch
    \/ StoreTime \/ AddFailure
    \/ ViewCall \/ ViewLock \/ ViewEngine \/ ViewSettings \/ ViewCount \/ ViewTime

Spec == Init /\ [][Next]_vars

(* The view raises the alarm that a configured path is not honored only if that *)
(* path and that git were in force together at a moment of the call at which no *)
(* save was half done: a save that then succeeds never shows as ignored.        *)
NoFalseAlarm ==
    view.stage = "shown" /\ Honored = <<FALSE>> => <<view.path, view.exe>> \in inForce

(* A view that reports n failed writes never says "last never", nor a time      *)
(* older than that of the n-th failure.                                         *)
FailureDated ==
    view.stage = "shown" /\ view.failures > 0 =>
      view.at >= last_failure[view.failures + 1] /\ view.at # 0

=============================================================================
