-------------------------------- MODULE Tray --------------------------------
(***************************************************************************)
(* The tray menu and what it shows: the "Open recent" submenu and the      *)
(* Pause/Resume label (src-tauri/src/tray.rs, the queries of store.rs, the *)
(* places that ask for a refresh, and the order of the start in lib.rs).   *)
(*                                                                         *)
(* The menu is a copy of the registry and of the pause flag.  Whoever      *)
(* changes the registry asks for a refresh afterwards; refreshes queue on  *)
(* one mutex, and one that finds the menu unchanged builds none.  Clicks   *)
(* on the pause item come from the main thread, at any moment.             *)
(*                                                                         *)
(* Row ids are numbers, because ties are broken by them.  A repo's name    *)
(* never changes, so its id stands for the pair that the gate compares.    *)
(***************************************************************************)
EXTENDS Integers, FiniteSets, Sequences

CONSTANTS
    MaxId,      \* row ids end here
    Loop,       \* the scheduler's loop: the one caller that runs during the start
    Batch,      \* callers that run several repos and refresh once: the loop, a burst
    Single,     \* commands on one repo: add, check, update, remove
    Limit,      \* RECENT_LIMIT
    MaxTime,    \* the clock stops here
    MaxFaults   \* failed reads, menus that cannot be built or installed, ...

Repo == 1 .. MaxId
Caller == Batch \cup Single

\* What the theorems take for granted of the constants.
TrayAssumption ==
    /\ MaxId \in Nat
    /\ Loop \in Batch /\ Batch \cap Single = {}
    /\ Limit \in Nat /\ MaxTime \in Nat \ {0} /\ MaxFaults \in Nat

VARIABLES
    now,      \* the wall clock
    tracked,  \* the ids of the rows
    nextId,   \* AUTOINCREMENT: ids grow and are never used again
    row,      \* the columns of each row that its activity is read from
    pc,       \* what each caller does: its own work, or where in a refresh it is
    run,      \* the repo a caller runs, and the clock when its run began
    queue,    \* TrayHandles.refresh: the holder, then the callers that wait
    read,     \* the recents that a caller has read
    built,    \* the menu that a caller has built
    tray,     \* "seeding", "building", "up", "failed"
    menu,     \* the installed menu: its recents, and whether it says "Resume all"
    live,     \* whether TrayHandles.pause is the installed menu's own item
    gate,     \* TrayHandles.last_recent
    paused,   \* GlobalPause
    faults,   \* failures so far
    active,   \* history: when each repo was last added, checked or updated
    missed,   \* history: a change of the registry has no refresh that read it
    slipped   \* history: the last click on the pause item met a rebuild, or failed

registry == <<tracked, nextId, row, active>>
refresh == <<pc, queue, read, built>>
shown == <<tray, menu, live, gate>>
vars == <<now, registry, run, refresh, shown, paused, faults, missed, slipped>>

Time == 0 .. MaxTime
Row == [created : Time, checked : Time, updated : Time]   \* 0 is NULL
NoRow == [created |-> 0, checked |-> 0, updated |-> 0]
Stages == {"idle", "running", "asks", "waits", "read", "built", "installed", "stored"}
NoRun == [repo |-> 0, at |-> 0]

-----------------------------------------------------------------------------
(* The list: the Limit tracked repos with the latest activity, each with its *)
(* place.                                                                    *)

Ahead(at, r) == {q \in DOMAIN at : at[q] > at[r] \/ (at[q] = at[r] /\ q > r)}

SelectRecent(at) ==
    [r \in {q \in DOMAIN at : Cardinality(Ahead(at, q)) < Limit} |-> Cardinality(Ahead(at, r))]

Latest(S) == CHOOSE t \in S : \A u \in S : u <= t

LastActive(c) == Latest({c.created, c.checked, c.updated})

RecentRepos == SelectRecent([r \in tracked |-> LastActive(row[r])])

Lists == UNION {[S -> 0 .. Limit - 1] : S \in SUBSET Repo}
Menus == [recent : Lists, resume : BOOLEAN]
NoList == [r \in {} |-> 0]
NoMenu == [recent |-> NoList, resume |-> FALSE]

-----------------------------------------------------------------------------
TypeOK ==
    /\ now \in Time
    /\ tracked \subseteq Repo
    /\ nextId \in 1 .. MaxId + 1
    /\ row \in [Repo -> Row]
    /\ active \in [Repo -> Time]
    /\ pc \in [Caller -> Stages]
    /\ run \in [Caller -> {NoRun} \cup [repo : Repo, at : Time]]
    /\ queue \in Seq(Caller)
    /\ read \in [Caller -> Lists]
    /\ built \in [Caller -> Menus]
    /\ tray \in {"seeding", "building", "up", "failed"}
    /\ menu \in Menus
    /\ gate \in Lists
    /\ live \in BOOLEAN /\ paused \in BOOLEAN
    /\ missed \in BOOLEAN /\ slipped \in BOOLEAN
    /\ faults \in 0 .. MaxFaults

\* Some first ids are taken by repos of earlier sessions.
Init ==
    /\ now = 1
    /\ nextId \in 1 .. MaxId + 1
    /\ tracked = 1 .. nextId - 1
    /\ \E checks \in [tracked -> 0 .. 1] :
         row = [r \in Repo |->
                  IF r \in tracked THEN [created |-> 1, checked |-> checks[r], updated |-> 0]
                  ELSE NoRow]
    /\ active = [r \in Repo |-> IF r \in tracked THEN 1 ELSE 0]
    /\ pc = [c \in Caller |-> "idle"]
    /\ run = [c \in Caller |-> NoRun]
    /\ queue = <<>>
    /\ read = [c \in Caller |-> NoList]
    /\ built = [c \in Caller |-> NoMenu]
    /\ tray = "seeding"
    /\ menu = NoMenu
    /\ live = TRUE
    /\ gate = NoList
    /\ paused = FALSE
    /\ faults = 0
    /\ missed = FALSE
    /\ slipped = FALSE

Fault ==
    /\ faults < MaxFaults
    /\ faults' = faults + 1

Tick ==
    /\ now < MaxTime
    /\ now' = now + 1
    /\ UNCHANGED <<registry, run, refresh, shown, paused, faults, missed, slipped>>

-----------------------------------------------------------------------------
(* Who changes the registry.  A caller waits out its own work, then asks for *)
(* a refresh.  Runs of one repo exclude each other by its mutex, and so does *)
(* its removal.                                                              *)

Free(c) == \/ pc[c] = "idle"
           \/ c \in Batch /\ pc[c] = "asks"

\* No window and no tray item sends a command before the start is over.
MayStart(c) == c = Loop \/ tray \notin {"seeding", "building"}

Unlocked(r) == \A c \in Caller : run[c].repo = r => pc[c] # "running"

Goto(c, stage) == pc' = [pc EXCEPT ![c] = stage]

\* check_now or update_now begins: it takes the mutex and reads the clock.
BeginRun(c, r) ==
    /\ Free(c) /\ MayStart(c)
    /\ r \in tracked /\ Unlocked(r)
    /\ run' = [run EXCEPT ![c] = [repo |-> r, at |-> now]]
    /\ Goto(c, "running")
    /\ UNCHANGED <<now, registry, queue, read, built, shown, paused, faults, missed, slipped>>

Stamp(c, at, moved) ==
    [c EXCEPT !.checked = at, !.updated = IF moved THEN at ELSE @]

\* A run that ends in a result has stamped the row, whether it failed or not.
EndRun(c) ==
    LET r == run[c].repo
        at == run[c].at IN
    /\ pc[c] = "running"
    /\ \E moved \in BOOLEAN : row' = [row EXCEPT ![r] = Stamp(@, at, moved)]
    /\ active' = [active EXCEPT ![r] = at]
    /\ UNCHANGED <<tracked, nextId>>
    /\ run' = [run EXCEPT ![c] = NoRun]
    /\ Goto(c, "asks")
    /\ UNCHANGED <<now, queue, read, built, shown, paused, faults, missed, slipped>>

\* A run that ends in an error has written nothing.  A command returns it at
\* once; a cycle and a burst refresh at their end whatever became of a run.
BreakRun(c) ==
    /\ pc[c] = "running"
    /\ run' = [run EXCEPT ![c] = NoRun]
    /\ Goto(c, IF c \in Batch THEN "asks" ELSE "idle")
    /\ UNCHANGED <<now, registry, queue, read, built, shown, paused, faults, missed, slipped>>

Add(c) ==
    /\ c \in Single /\ pc[c] = "idle" /\ MayStart(c)
    /\ nextId \in Repo
    /\ nextId' = nextId + 1
    /\ tracked' = tracked \cup {nextId}
    /\ row' = [row EXCEPT ![nextId] = [NoRow EXCEPT !.created = now]]
    /\ active' = [active EXCEPT ![nextId] = now]
    /\ Goto(c, "asks")
    /\ UNCHANGED <<now, run, queue, read, built, shown, paused, faults, missed, slipped>>

Remove(c) ==
    /\ c \in Single /\ pc[c] = "idle" /\ MayStart(c)
    /\ \E r \in tracked :
         /\ Unlocked(r)
         /\ tracked' = tracked \ {r}
         /\ row' = [row EXCEPT ![r] = NoRow]
         /\ active' = [active EXCEPT ![r] = 0]
    /\ Goto(c, "asks")
    /\ UNCHANGED <<now, nextId, run, queue, read, built, shown, paused, faults, missed, slipped>>

-----------------------------------------------------------------------------
(* refresh_recent_menu *)

\* Without TrayHandles there is nothing to refresh.
AskInVain(c) ==
    /\ pc[c] = "asks" /\ tray # "up"
    /\ Goto(c, "idle")
    /\ missed' = TRUE
    /\ UNCHANGED <<now, registry, run, queue, read, built, shown, paused, faults, slipped>>

Ask(c) ==
    /\ pc[c] = "asks" /\ tray = "up"
    /\ queue' = Append(queue, c)
    /\ Goto(c, "waits")
    /\ UNCHANGED <<now, registry, run, read, built, shown, paused, faults, missed, slipped>>

Holds(c) == queue # <<>> /\ Head(queue) = c

\* The guard is dropped, on whichever way the refresh ends.
Release(c) ==
    /\ queue' = Tail(queue)
    /\ read' = [read EXCEPT ![c] = NoList]
    /\ built' = [built EXCEPT ![c] = NoMenu]
    /\ Goto(c, "idle")

\* What a failure leaves: the menu there was, for the next refresh to replace.
GiveUp(c) ==
    /\ Fault
    /\ Release(c)
    /\ missed' = TRUE
    /\ UNCHANGED <<now, registry, run, shown, paused, slipped>>

ReadRecent(c) ==
    /\ pc[c] = "waits" /\ Holds(c)
    /\ read' = [read EXCEPT ![c] = RecentRepos]
    /\ Goto(c, "read")
    /\ missed' = FALSE
    /\ UNCHANGED <<now, registry, run, queue, built, shown, paused, faults, slipped>>

ReadFails(c) == pc[c] = "waits" /\ Holds(c) /\ GiveUp(c)

Unchanged(c) ==
    /\ pc[c] = "read" /\ gate = read[c]
    /\ Release(c)
    /\ UNCHANGED <<now, registry, run, shown, paused, faults, missed, slipped>>

\* build_menu: every item is new, and the flag is read for the pause item's.
BuildMenu(list) == [recent |-> list, resume |-> paused]

Compose(c) ==
    /\ pc[c] = "read" /\ gate # read[c]
    /\ built' = [built EXCEPT ![c] = BuildMenu(read[c])]
    /\ Goto(c, "built")
    /\ UNCHANGED <<now, registry, run, queue, read, shown, paused, faults, missed, slipped>>

ComposeFails(c) == pc[c] = "read" /\ gate # read[c] /\ GiveUp(c)

\* set_menu: the item that TrayHandles still holds was the old menu's.
Install(c) ==
    /\ pc[c] = "built"
    /\ menu' = built[c]
    /\ live' = FALSE
    /\ slipped' = (slipped /\ built[c].resume # paused)
    /\ Goto(c, "installed")
    /\ UNCHANGED <<now, registry, run, queue, read, built, tray, gate, paused, faults, missed>>

InstallFails(c) == pc[c] = "built" /\ GiveUp(c)

StoreItem(c) ==
    /\ pc[c] = "installed"
    /\ live' = TRUE
    /\ Goto(c, "stored")
    /\ UNCHANGED <<now, registry, run, queue, read, built, tray, menu, gate, paused, faults,
                   missed, slipped>>

AdvanceGate(c) ==
    /\ pc[c] = "stored"
    /\ gate' = read[c]
    /\ Release(c)
    /\ UNCHANGED <<now, registry, run, tray, menu, live, paused, faults, missed, slipped>>

-----------------------------------------------------------------------------
(* The start: the scheduler's loop is running when the list is read, the tray *)
(* is built from it, and only then there are TrayHandles.                     *)

Seed ==
    /\ tray = "seeding"
    /\ tray' = "building"
    /\ \/ /\ menu' = [menu EXCEPT !.recent = RecentRepos]
          /\ missed' = FALSE
          /\ UNCHANGED faults
       \/ /\ Fault
          /\ missed' = TRUE
          /\ UNCHANGED menu
    /\ UNCHANGED <<now, registry, run, refresh, live, gate, paused, slipped>>

InitTray ==
    /\ tray = "building"
    /\ \/ /\ tray' = "up"
          /\ menu' = BuildMenu(menu.recent)
          /\ gate' = menu.recent
          /\ UNCHANGED faults
       \/ /\ Fault
          /\ tray' = "failed"
          /\ UNCHANGED <<menu, gate>>
    /\ UNCHANGED <<now, registry, run, refresh, live, paused, missed, slipped>>

(* toggle_pause, on the main thread.  The flag is flipped before the item is   *)
(* looked up; a refresh reads the one and replaces the other, each once, so    *)
(* anything it does between the two might as well come before or after both.   *)
Rebuilding == \E c \in Caller : pc[c] \in {"built", "installed"}

TogglePause ==
    /\ tray = "up"
    /\ paused' = ~paused
    /\ \/ /\ menu' = IF live THEN [menu EXCEPT !.resume = paused'] ELSE menu
          /\ slipped' = Rebuilding
          /\ UNCHANGED faults
       \/ /\ Fault
          /\ slipped' = TRUE
          /\ UNCHANGED menu
    /\ UNCHANGED <<now, registry, run, refresh, tray, live, gate, missed>>

RefreshStep(c) ==
    \/ AskInVain(c) \/ Ask(c)
    \/ ReadRecent(c) \/ ReadFails(c)
    \/ Unchanged(c) \/ Compose(c) \/ ComposeFails(c)
    \/ Install(c) \/ InstallFails(c) \/ StoreItem(c) \/ AdvanceGate(c)

Work(c) ==
    \/ \E r \in Repo : BeginRun(c, r)
    \/ EndRun(c) \/ BreakRun(c) \/ Add(c) \/ Remove(c)

Next ==
    \/ Tick \/ Seed \/ InitTray \/ TogglePause
    \/ \E c \in Caller : Work(c) \/ RefreshStep(c)

Spec == Init /\ [][Next]_vars

-----------------------------------------------------------------------------
\* A command has written nothing while it runs; a cycle may have.
Quiet(c) == pc[c] = "idle" \/ (c \in Single /\ pc[c] = "running")

(* Once nobody has a change to announce or a refresh under way, and none was  *)
(* missed by a failure or before the tray was there, the submenu lists the    *)
(* repos of the latest activity: the gate never keeps a stale menu, and two   *)
(* refreshes never leave the older one's.                                     *)
MenuCurrent ==
    /\ tray = "up"
    /\ ~missed
    /\ \A c \in Caller : Quiet(c)
    => menu.recent = SelectRecent([r \in tracked |-> active[r]])

(* The pause item says what a click on it will do, unless the last click fell *)
(* between a refresh's look at the flag and its last step on the menu, or its *)
(* text could not be set.                                                     *)
LabelTrue == tray = "up" /\ ~slipped => menu.resume = paused

=============================================================================
