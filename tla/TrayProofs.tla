----------------------------- MODULE TrayProofs -----------------------------
(***************************************************************************)
(* For any repos, callers and length of the list: the tray's menu shows    *)
(* what it promises, as long as no refresh failed.                         *)
(***************************************************************************)
EXTENDS Tray, FiniteSetTheorems, TLAPS

\* A caller that has read the list and has not let go of the mutex.
Refreshing(c) == pc[c] \in {"read", "built", "installed", "stored"}

\* Only the head of the queue refreshes.
QueueInv == \A c \in Caller : Refreshing(c) => Holds(c)

\* Nobody refreshes a tray that is not there.
StartInv ==
    tray # "up" => /\ queue = << >>
                   /\ live
                   /\ \A c \in Caller : pc[c] \in {"idle", "running", "asks"}

\* A run has its repo to itself, and began after everything its row says.
RunInv ==
    \A c \in Caller : pc[c] = "running" =>
        /\ run[c].repo \in tracked
        /\ run[c].at <= now
        /\ row[run[c].repo].created <= run[c].at
        /\ row[run[c].repo].checked <= run[c].at
        /\ row[run[c].repo].updated <= run[c].at
        /\ \A d \in Caller : pc[d] = "running" /\ run[d].repo = run[c].repo => d = c

\* The columns say when a repo was last active.
RowInv ==
    /\ \A r \in tracked : /\ r < nextId
                          /\ active[r] <= now
                          /\ active[r] \in {row[r].created, row[r].checked, row[r].updated}
                          /\ row[r].created <= active[r]
                          /\ row[r].checked <= active[r]
                          /\ row[r].updated <= active[r]

\* A built menu has the flag's label, or a click has slipped; the held item belongs to
\* another menu only between the two steps of a refresh.
LabelInv ==
    /\ LabelTrue
    /\ \A c \in Caller : pc[c] = "built" /\ ~slipped => built[c].resume = paused
    /\ ~live => \E c \in Caller : pc[c] = "installed"

\* The gate is the installed list but for the last two steps of a refresh.
GateInv ==
    /\ \A c \in Caller : pc[c] = "built" => built[c].recent = read[c]
    /\ \A c \in Caller : pc[c] \in {"installed", "stored"} => menu.recent = read[c]
    /\ tray = "up" /\ (\A c \in Caller : pc[c] \notin {"installed", "stored"})
         => gate = menu.recent

\* No change waits for its refresh.
Announced ==
    /\ \A c \in Caller : pc[c] \notin {"asks", "waits"}
    /\ \A c \in Batch : pc[c] # "running"

\* Then the list of the refresh under way, or else of the menu, is the registry's.
FreshInv ==
    tray \in {"building", "up"} /\ ~missed /\ Announced =>
        /\ \A c \in Caller : Refreshing(c) => read[c] = RecentRepos
        /\ (\A c \in Caller : ~Refreshing(c)) => menu.recent = RecentRepos

IInv ==
    TypeOK /\ QueueInv /\ StartInv /\ RunInv /\ RowInv /\ LabelInv /\ GateInv /\ FreshInv

-----------------------------------------------------------------------------
(* The list *)

\* The latest of a set is the member that no other exceeds.
LEMMA LatestIs ==
  ASSUME NEW S \in SUBSET Int, NEW t \in S, \A u \in S : u <= t
  PROVE  Latest(S) = t
<1>1. Latest(S) \in S /\ \A u \in S : u <= Latest(S)
  BY DEF Latest
<1>2. Latest(S) <= t /\ t <= Latest(S) /\ Latest(S) \in Int /\ t \in Int
  BY <1>1
<1> QED
  BY <1>2

\* A list is one that the menu can show.
LEMMA RecentType ==
  ASSUME TrayAssumption, tracked \subseteq Repo
  PROVE  RecentRepos \in Lists
<1> DEFINE at == [r \in tracked |-> LastActive(row[r])]
           shortlist == {q \in DOMAIN at : Cardinality(Ahead(at, q)) < Limit}
<1>1. shortlist \in SUBSET Repo
  OBVIOUS
<1>2. ASSUME NEW r \in shortlist PROVE Cardinality(Ahead(at, r)) \in 0 .. Limit - 1
  <2>1. Ahead(at, r) \subseteq 1 .. MaxId
    BY DEF Ahead, Repo
  <2>2. IsFiniteSet(1 .. MaxId)
    BY FS_Interval DEF TrayAssumption
  <2>3. Cardinality(Ahead(at, r)) \in Nat
    BY <2>1, <2>2, FS_Subset, FS_CardinalityType
  <2> QED
    BY <2>3 DEF TrayAssumption
<1>3. SelectRecent(at) \in [shortlist -> 0 .. Limit - 1]
  BY <1>2 DEF SelectRecent
<1> QED
  BY <1>1, <1>3 DEF RecentRepos, Lists

-----------------------------------------------------------------------------
(* What a step can be *)

\* The steps, one by one.
LEMMA Steps ==
  ASSUME [Next]_vars
  PROVE  \/ UNCHANGED vars \/ Tick \/ Seed \/ InitTray \/ TogglePause
         \/ \E c \in Caller :
              \/ \E r \in Repo : BeginRun(c, r)
              \/ EndRun(c) \/ BreakRun(c) \/ Add(c) \/ Remove(c)
              \/ AskInVain(c) \/ Ask(c)
              \/ ReadRecent(c) \/ ReadFails(c)
              \/ Unchanged(c) \/ Compose(c) \/ ComposeFails(c)
              \/ Install(c) \/ InstallFails(c) \/ StoreItem(c) \/ AdvanceGate(c)
BY DEF Next, Work, RefreshStep

\* The start is typed.
LEMMA TypeInit == TrayAssumption /\ Init => TypeOK
<1> SUFFICES ASSUME TrayAssumption, Init PROVE TypeOK
  OBVIOUS
<1>1. NoList \in Lists
  <2>1. NoList \in [{} -> 0 .. Limit - 1]
    BY DEF NoList
  <2> QED
    BY <2>1 DEF Lists
<1>2. nextId \in 1 .. MaxId + 1 /\ tracked \subseteq Repo /\ now \in Time
  BY DEF TrayAssumption, Init, Repo, Time
<1>3. row \in [Repo -> Row]
  <2> PICK checks \in [tracked -> 0 .. 1] :
         row = [r \in Repo |-> IF r \in tracked
                                THEN [created |-> 1, checked |-> checks[r], updated |-> 0]
                                ELSE NoRow]
    BY DEF Init
  <2> SUFFICES ASSUME NEW r \in Repo PROVE row[r] \in Row
    OBVIOUS
  <2> QED
    BY DEF TrayAssumption, Row, NoRow, Time
<1>4. active \in [Repo -> Time] /\ pc \in [Caller -> Stages]
  BY DEF TrayAssumption, Init, Time, Stages
<1>5. run \in [Caller -> {NoRun} \cup [repo : Repo, at : Time]] /\ queue \in Seq(Caller)
  BY DEF Init
<1>6. NoMenu \in Menus
  BY <1>1 DEF NoMenu, Menus
<1>7. read \in [Caller -> Lists] /\ built \in [Caller -> Menus] /\ menu \in Menus /\ gate \in Lists
  BY <1>1, <1>6 DEF Init
<1>8. tray \in {"seeding", "building", "up", "failed"} /\ faults \in 0 .. MaxFaults
  BY DEF TrayAssumption, Init
<1>9. /\ live \in BOOLEAN /\ paused \in BOOLEAN
      /\ missed \in BOOLEAN /\ slipped \in BOOLEAN
  BY Zenon DEF Init
<1> QED
  BY <1>2, <1>3, <1>4, <1>5, <1>7, <1>8, <1>9 DEF TypeOK

\* What a refresh that ends leaves is typed.
LEMMA ReleaseType ==
  ASSUME TypeOK, NEW c \in Caller, Holds(c), Release(c)
  PROVE  /\ queue' \in Seq(Caller)
         /\ read' \in [Caller -> Lists]
         /\ built' \in [Caller -> Menus]
         /\ pc' \in [Caller -> Stages]
<1>1. NoList \in Lists
  <2>1. NoList \in [{} -> 0 .. Limit - 1]
    BY DEF NoList
  <2> QED
    BY <2>1 DEF Lists
<1>2. NoMenu \in Menus
  BY <1>1 DEF NoMenu, Menus
<1>3. queue' \in Seq(Caller)
  BY DEF TypeOK, Holds, Release
<1> QED
  BY <1>1, <1>2, <1>3 DEF TypeOK, Release, Goto, Stages

\* Every step keeps the types.
LEMMA TypeStep ==
  ASSUME TrayAssumption, TypeOK, QueueInv, RunInv, [Next]_vars
  PROVE  TypeOK'
<1> USE DEF Goto
<1>1. CASE UNCHANGED vars
  BY <1>1 DEF TypeOK, vars, registry, refresh, shown
<1>2. CASE Tick
  BY <1>2 DEF Tick, TypeOK, registry, refresh, shown, TrayAssumption, Time
<1>3. CASE Seed
  <2>1. RecentRepos \in Lists
    BY RecentType DEF TypeOK
  <2> QED
    <3>1. menu' \in Menus /\ missed' \in BOOLEAN
      BY <1>3, <2>1 DEF Seed, TypeOK, Menus
    <3>2. faults' \in 0 .. MaxFaults /\ tray' = "building"
      BY <1>3 DEF Seed, Fault, TypeOK, TrayAssumption
    <3> QED
      BY <1>3, <3>1, <3>2 DEF Seed, TypeOK, registry, refresh
<1>4. CASE InitTray
  BY <1>4 DEF InitTray, BuildMenu, Fault, TypeOK, Menus, registry, refresh, TrayAssumption
<1>5. CASE TogglePause
  <2>1. paused' \in BOOLEAN /\ menu' \in Menus /\ slipped' \in BOOLEAN
    BY <1>5 DEF TogglePause, TypeOK, Menus, Rebuilding
  <2> QED
    BY <1>5, <2>1 DEF TogglePause, Fault, TypeOK, registry, refresh, TrayAssumption
<1>6. ASSUME NEW c \in Caller, NEW r \in Repo, BeginRun(c, r) PROVE TypeOK'
  BY <1>6 DEF BeginRun, TypeOK, Stages, registry, shown
<1>7. ASSUME NEW c \in Caller, EndRun(c) PROVE TypeOK'
  <2>1. run[c].repo \in Repo /\ run[c].at \in Time
    BY <1>7 DEF EndRun, RunInv, TypeOK, NoRun, TrayAssumption, Time
  <2>2. row' \in [Repo -> Row]
    <3>1. ASSUME NEW moved \in BOOLEAN
          PROVE  Stamp(row[run[c].repo], run[c].at, moved) \in Row
      <4>1. row[run[c].repo] \in Row
        BY <2>1 DEF TypeOK
      <4>2. CASE moved = TRUE
        BY <2>1, <4>1, <4>2 DEF Stamp, Row
      <4>3. CASE moved = FALSE
        BY <2>1, <4>1, <4>3 DEF Stamp, Row
      <4> QED
        BY <4>2, <4>3
    <3> QED
      BY <1>7, <2>1, <3>1 DEF EndRun, TypeOK
  <2> QED
    BY <1>7, <2>1, <2>2 DEF EndRun, TypeOK, Stages, shown
<1>8. ASSUME NEW c \in Caller, BreakRun(c) PROVE TypeOK'
  <2>1. run' \in [Caller -> {NoRun} \cup [repo : Repo, at : Time]]
    BY <1>8 DEF BreakRun, TypeOK
  <2>2. pc' \in [Caller -> Stages]
    BY <1>8 DEF BreakRun, TypeOK, Stages
  <2> QED
    BY <1>8, <2>1, <2>2 DEF BreakRun, TypeOK, registry, shown
<1>9. ASSUME NEW c \in Caller, Add(c) PROVE TypeOK'
  <2>1. row' \in [Repo -> Row] /\ active' \in [Repo -> Time]
    <3>1. [NoRow EXCEPT !.created = now] \in Row
      <4>1. now \in Time /\ 0 \in Time
        BY DEF TypeOK, Time, TrayAssumption
      <4>2. [NoRow EXCEPT !.created = now] = [created |-> now, checked |-> 0, updated |-> 0]
        BY DEF NoRow
      <4> QED
        BY <4>1, <4>2 DEF Row
    <3> QED
      BY <1>9, <3>1 DEF Add, TypeOK
  <2>2. nextId' \in 1 .. MaxId + 1 /\ tracked' \subseteq Repo
    BY <1>9 DEF Add, TypeOK, Repo, TrayAssumption
  <2>3. pc' \in [Caller -> Stages]
    BY <1>9 DEF Add, TypeOK, Stages
  <2> QED
    BY <1>9, <2>1, <2>2, <2>3 DEF Add, TypeOK, shown
<1>10. ASSUME NEW c \in Caller, Remove(c) PROVE TypeOK'
  BY <1>10 DEF Remove, TypeOK, Stages, Row, NoRow, Time, TrayAssumption, shown
<1>11. ASSUME NEW c \in Caller, AskInVain(c) PROVE TypeOK'
  BY <1>11 DEF AskInVain, TypeOK, Stages, registry, shown
<1>12. ASSUME NEW c \in Caller, Ask(c) PROVE TypeOK'
  BY <1>12 DEF Ask, TypeOK, Stages, registry, shown
<1>13. ASSUME NEW c \in Caller, ReadRecent(c) PROVE TypeOK'
  <2>1. RecentRepos \in Lists
    BY RecentType DEF TypeOK
  <2> QED
    BY <1>13, <2>1 DEF ReadRecent, TypeOK, Stages, registry, shown
<1>14. ASSUME NEW c \in Caller, Holds(c), GiveUp(c) PROVE TypeOK'
  BY <1>14, ReleaseType DEF GiveUp, Fault, TypeOK, TrayAssumption, registry, shown
<1>15. ASSUME NEW c \in Caller, Unchanged(c) PROVE TypeOK'
  <2>1. Holds(c) /\ Release(c)
    BY <1>15 DEF Unchanged, QueueInv, Refreshing
  <2> QED
    BY <1>15, <2>1, ReleaseType DEF Unchanged, TypeOK, registry, shown
<1>16. ASSUME NEW c \in Caller, Compose(c) PROVE TypeOK'
  BY <1>16 DEF Compose, BuildMenu, Menus, TypeOK, Stages, registry, shown
<1>17. ASSUME NEW c \in Caller, Install(c) PROVE TypeOK'
  <2>1. built[c] \in Menus /\ slipped' \in BOOLEAN
    BY <1>17 DEF Install, TypeOK
  <2> QED
    BY <1>17, <2>1 DEF Install, TypeOK, Stages, registry
<1>18. ASSUME NEW c \in Caller, StoreItem(c) PROVE TypeOK'
  BY <1>18 DEF StoreItem, TypeOK, Stages, registry
<1>19. ASSUME NEW c \in Caller, AdvanceGate(c) PROVE TypeOK'
  <2>1. Holds(c) /\ Release(c)
    BY <1>19 DEF AdvanceGate, QueueInv, Refreshing
  <2> QED
    BY <1>19, <2>1, ReleaseType DEF AdvanceGate, TypeOK, registry
<1>20. ASSUME NEW c \in Caller, ReadFails(c) \/ ComposeFails(c) \/ InstallFails(c) PROVE TypeOK'
  <2>1. Holds(c) /\ GiveUp(c)
    BY <1>20 DEF ReadFails, ComposeFails, InstallFails, QueueInv, Refreshing
  <2> QED
    BY <1>14, <2>1
<1> QED
  BY <1>1, <1>2, <1>3, <1>4, <1>5, <1>6, <1>7, <1>8, <1>9, <1>10, <1>11, <1>12, <1>13,
     <1>15, <1>16, <1>17, <1>18, <1>19, <1>20, Steps

-----------------------------------------------------------------------------
(* The queue and the start *)

\* A refresh that ends takes its caller off the queue; nobody else was refreshing.
LEMMA QueueRelease ==
  ASSUME TypeOK, QueueInv, NEW c \in Caller, Holds(c), Release(c)
  PROVE  \A d \in Caller : ~Refreshing(d)'
<1> SUFFICES ASSUME NEW d \in Caller PROVE ~Refreshing(d)'
  OBVIOUS
<1>1. CASE d = c
  BY <1>1 DEF TypeOK, Release, Goto, Refreshing
<1>2. CASE d # c
  <2>1. ~Refreshing(d)
    BY <1>2 DEF QueueInv, Holds
  <2> QED
    BY <1>2, <2>1 DEF TypeOK, Release, Goto, Refreshing
<1> QED
  BY <1>1, <1>2

\* Only the holder of the mutex is past the wait.
LEMMA QueueStep ==
  ASSUME TypeOK, QueueInv, [Next]_vars
  PROVE  QueueInv'
<1> USE DEF Goto
<1>1. CASE UNCHANGED vars \/ Tick \/ Seed \/ InitTray \/ TogglePause
  <2>1. UNCHANGED <<pc, queue>>
    BY <1>1 DEF vars, refresh, Tick, Seed, InitTray, TogglePause
  <2> QED
    BY <2>1 DEF QueueInv, Refreshing, Holds
<1>2. ASSUME NEW c \in Caller,
             \/ \E r \in Repo : BeginRun(c, r)
             \/ EndRun(c) \/ BreakRun(c) \/ Add(c) \/ Remove(c) \/ AskInVain(c)
      PROVE  QueueInv'
  <2>1. queue' = queue /\ \E stage \in {"idle", "running", "asks"} : pc' = [pc EXCEPT ![c] = stage]
    BY <1>2 DEF BeginRun, EndRun, BreakRun, Add, Remove, AskInVain
  <2> QED
    BY <2>1 DEF TypeOK, QueueInv, Refreshing, Holds
<1>3. ASSUME NEW c \in Caller, Ask(c) PROVE QueueInv'
  <2>1. queue # << >> => Head(queue') = Head(queue)
    BY <1>3 DEF Ask, TypeOK
  <2> QED
    BY <1>3, <2>1 DEF Ask, TypeOK, QueueInv, Refreshing, Holds
<1>4. ASSUME NEW c \in Caller, Holds(c),
             ReadRecent(c) \/ Compose(c) \/ Install(c) \/ StoreItem(c)
      PROVE  QueueInv'
  <2>1. queue' = queue /\ \E stage \in Stages : pc' = [pc EXCEPT ![c] = stage]
    BY <1>4 DEF ReadRecent, Compose, Install, StoreItem, Stages
  <2> QED
    BY <1>4, <2>1 DEF TypeOK, QueueInv, Refreshing, Holds
<1>5. ASSUME NEW c \in Caller, Holds(c), Release(c) PROVE QueueInv'
  BY <1>5, QueueRelease DEF QueueInv
<1>6. ASSUME NEW c \in Caller,
             Compose(c) \/ Install(c) \/ StoreItem(c) \/ Unchanged(c) \/ AdvanceGate(c)
             \/ ReadFails(c) \/ ComposeFails(c) \/ InstallFails(c) \/ ReadRecent(c)
      PROVE  Holds(c)
  BY <1>6 DEF Compose, Install, StoreItem, Unchanged, AdvanceGate, ReadFails, ComposeFails,
              InstallFails, ReadRecent, QueueInv, Refreshing
<1>7. ASSUME NEW c \in Caller,
             Unchanged(c) \/ AdvanceGate(c) \/ ReadFails(c) \/ ComposeFails(c) \/ InstallFails(c)
      PROVE  Release(c)
  BY <1>7 DEF Unchanged, AdvanceGate, ReadFails, ComposeFails, InstallFails, GiveUp
<1> QED
  BY <1>1, <1>2, <1>3, <1>4, <1>5, <1>6, <1>7, Steps

\* Nobody refreshes before the tray is up.
LEMMA StartStep ==
  ASSUME TypeOK, QueueInv, StartInv, [Next]_vars
  PROVE  StartInv'
<1> SUFFICES ASSUME tray' # "up"
             PROVE  /\ queue' = << >>
                    /\ live'
                    /\ \A d \in Caller : pc'[d] \in {"idle", "running", "asks"}
  BY DEF StartInv
<1> USE DEF Goto
<1>1. CASE UNCHANGED vars \/ Tick \/ Seed \/ InitTray \/ TogglePause
  BY <1>1 DEF vars, registry, refresh, shown, Tick, Seed, InitTray, TogglePause, StartInv
<1>2. ASSUME NEW c \in Caller,
             \/ \E r \in Repo : BeginRun(c, r)
             \/ EndRun(c) \/ BreakRun(c) \/ Add(c) \/ Remove(c) \/ AskInVain(c)
      PROVE  /\ queue' = << >>
             /\ live'
             /\ \A d \in Caller : pc'[d] \in {"idle", "running", "asks"}
  <2>1. /\ queue' = queue /\ live' = live /\ tray' = tray
        /\ \E stage \in {"idle", "running", "asks"} : pc' = [pc EXCEPT ![c] = stage]
    BY <1>2 DEF BeginRun, EndRun, BreakRun, Add, Remove, AskInVain, shown
  <2> QED
    BY <2>1 DEF TypeOK, StartInv
<1>3. ASSUME NEW c \in Caller,
             \/ Ask(c) \/ ReadRecent(c) \/ ReadFails(c)
             \/ Unchanged(c) \/ Compose(c) \/ ComposeFails(c)
             \/ Install(c) \/ InstallFails(c) \/ StoreItem(c) \/ AdvanceGate(c)
      PROVE  FALSE
  <2>1. tray' = tray
    BY <1>3 DEF Ask, ReadRecent, ReadFails, Unchanged, Compose, ComposeFails, Install,
                InstallFails, StoreItem, AdvanceGate, GiveUp, shown
  <2>2. pc[c] \in {"idle", "running", "asks"}
    BY <2>1 DEF StartInv
  <2> QED
    BY <1>3, <2>1, <2>2 DEF Ask, ReadRecent, ReadFails, Unchanged, Compose, ComposeFails, Install,
                InstallFails, StoreItem, AdvanceGate
<1> QED
  BY <1>1, <1>2, <1>3, Steps

-----------------------------------------------------------------------------
(* Runs and rows *)

\* Two callers never run one repo, and a run is of a repo that is there.
LEMMA RunStep ==
  ASSUME TrayAssumption, TypeOK, RunInv, RowInv, [Next]_vars
  PROVE  RunInv'
<1> USE DEF Goto
<1>1. CASE UNCHANGED <<registry, pc, run>> /\ now' \in {now, now + 1}
  BY <1>1 DEF registry, RunInv, TypeOK, TrayAssumption, Time, NoRun
<1>2. CASE UNCHANGED vars \/ Tick \/ Seed \/ InitTray \/ TogglePause
  <2>1. UNCHANGED <<registry, pc, run>> /\ now' \in {now, now + 1}
    BY <1>2 DEF vars, registry, refresh, Tick, Seed, InitTray, TogglePause
  <2> QED
    BY <1>1, <2>1
<1>3. ASSUME NEW c \in Caller,
             \/ AskInVain(c) \/ Ask(c) \/ ReadRecent(c) \/ ReadFails(c)
             \/ Unchanged(c) \/ Compose(c) \/ ComposeFails(c)
             \/ Install(c) \/ InstallFails(c) \/ StoreItem(c) \/ AdvanceGate(c)
      PROVE  RunInv'
  <2>1. /\ UNCHANGED <<registry, run, now>>
        /\ \E stage \in Stages \ {"running"} : pc' = [pc EXCEPT ![c] = stage]
    BY <1>3 DEF AskInVain, Ask, ReadRecent, ReadFails, Unchanged, Compose, ComposeFails, Install,
                InstallFails, StoreItem, AdvanceGate, GiveUp, Release, Stages
  <2> QED
    BY <2>1 DEF registry, RunInv, TypeOK
<1>4. ASSUME NEW c \in Caller, NEW r \in Repo, BeginRun(c, r) PROVE RunInv'
  <2>1. /\ UNCHANGED <<registry, now>> /\ r \in tracked /\ Unlocked(r)
        /\ run' = [run EXCEPT ![c] = [repo |-> r, at |-> now]]
        /\ pc' = [pc EXCEPT ![c] = "running"]
    BY <1>4 DEF BeginRun
  <2>2. row[r].created <= now /\ row[r].checked <= now /\ row[r].updated <= now
    BY <2>1 DEF RowInv, TypeOK, Row, Time, TrayAssumption
  <2>3. \A d \in Caller : pc'[d] = "running" /\ d # c =>
            run'[d] = run[d] /\ pc[d] = "running" /\ run[d].repo # r
    BY <2>1 DEF Unlocked, TypeOK
  <2>4. run'[c] = [repo |-> r, at |-> now] /\ now <= now
    BY <2>1 DEF TypeOK, Time
  <2> QED
    BY <2>1, <2>2, <2>3, <2>4 DEF registry, RunInv
<1>5. ASSUME NEW c \in Caller, EndRun(c) PROVE RunInv'
  <2>1. /\ tracked' = tracked /\ now' = now
        /\ \A d \in Caller : pc'[d] = "running" => d # c /\ pc[d] = "running" /\ run'[d] = run[d]
    BY <1>5 DEF EndRun, TypeOK
  <2>2. \A d \in Caller : pc'[d] = "running" => row'[run[d].repo] = row[run[d].repo]
    BY <1>5, <2>1 DEF EndRun, RunInv, TypeOK
  <2> QED
    BY <2>1, <2>2 DEF RunInv
<1>6. ASSUME NEW c \in Caller, BreakRun(c) PROVE RunInv'
  <2>1. /\ UNCHANGED <<registry, now>>
        /\ \A d \in Caller : pc'[d] = "running" => pc[d] = "running" /\ run'[d] = run[d]
    BY <1>6 DEF BreakRun, TypeOK
  <2> QED
    BY <2>1 DEF registry, RunInv
<1>7. ASSUME NEW c \in Caller, Add(c) PROVE RunInv'
  <2>1. /\ tracked \subseteq tracked' /\ now' = now /\ run' = run
        /\ \A d \in Caller : pc'[d] = "running" => pc[d] = "running"
        /\ \A r \in tracked : row'[r] = row[r]
    BY <1>7 DEF Add, TypeOK, RowInv, Repo, TrayAssumption
  <2> QED
    BY <2>1 DEF RunInv
<1>8. ASSUME NEW c \in Caller, Remove(c) PROVE RunInv'
  <2>1. PICK r \in tracked :
          /\ Unlocked(r)
          /\ tracked' = tracked \ {r}
          /\ row' = [row EXCEPT ![r] = NoRow]
    BY <1>8 DEF Remove
  <2>2. /\ now' = now /\ run' = run
        /\ \A d \in Caller : pc'[d] = "running" => pc[d] = "running"
    BY <1>8 DEF Remove, TypeOK
  <2>3. \A d \in Caller : pc'[d] = "running" =>
            run[d].repo \in tracked' /\ row'[run[d].repo] = row[run[d].repo]
    BY <2>1, <2>2 DEF Unlocked, RunInv, TypeOK
  <2> QED
    BY <2>2, <2>3 DEF RunInv
<1> QED
  BY <1>2, <1>3, <1>4, <1>5, <1>6, <1>7, <1>8, Steps

\* A row's last activity is what its columns say.
LEMMA RowStep ==
  ASSUME TrayAssumption, TypeOK, RunInv, RowInv, [Next]_vars
  PROVE  RowInv'
<1>1. CASE UNCHANGED registry /\ now' \in {now, now + 1}
  BY <1>1 DEF registry, RowInv, TypeOK, TrayAssumption, Time
<1>2. CASE UNCHANGED vars \/ Tick \/ Seed \/ InitTray \/ TogglePause
  BY <1>1, <1>2 DEF vars, Tick, Seed, InitTray, TogglePause
<1>3. ASSUME NEW c \in Caller,
             \/ \E r \in Repo : BeginRun(c, r)
             \/ BreakRun(c)
             \/ AskInVain(c) \/ Ask(c) \/ ReadRecent(c) \/ ReadFails(c)
             \/ Unchanged(c) \/ Compose(c) \/ ComposeFails(c)
             \/ Install(c) \/ InstallFails(c) \/ StoreItem(c) \/ AdvanceGate(c)
      PROVE  RowInv'
  BY <1>1, <1>3 DEF BeginRun, BreakRun, AskInVain, Ask, ReadRecent, ReadFails, Unchanged, Compose,
                ComposeFails, Install, InstallFails, StoreItem, AdvanceGate, GiveUp
<1>4. ASSUME NEW c \in Caller, EndRun(c) PROVE RowInv'
  <2> DEFINE r == run[c].repo
             at == run[c].at
  <2>1. /\ r \in tracked /\ r \in Repo /\ at \in Int /\ at <= now
        /\ row[r].created <= at /\ row[r].checked <= at /\ row[r].updated <= at
    BY <1>4 DEF EndRun, RunInv, TypeOK, NoRun, Time
  <2>2. row[r] \in Row
    BY <2>1 DEF TypeOK
  <2>3. PICK moved \in BOOLEAN : row' = [row EXCEPT ![r] = Stamp(@, at, moved)]
    BY <1>4 DEF EndRun
  <2>4. row'[r] = Stamp(row[r], at, moved)
    BY <2>1, <2>3 DEF TypeOK
  <2>5. /\ row'[r].checked = at /\ row'[r].created = row[r].created
        /\ row'[r].updated \in {at, row[r].updated}
    <3>1. CASE moved = TRUE
      BY <2>2, <2>4, <3>1 DEF Stamp, Row
    <3>2. CASE moved = FALSE
      BY <2>2, <2>4, <3>2 DEF Stamp, Row
    <3> QED
      BY <3>1, <3>2
  <2>6. /\ tracked' = tracked /\ nextId' = nextId /\ now' = now
        /\ active'[r] = at
        /\ \A q \in tracked : q # r => row'[q] = row[q] /\ active'[q] = active[q]
    BY <1>4, <2>1, <2>3 DEF EndRun, TypeOK
  <2>7. ASSUME NEW q \in tracked
        PROVE  /\ q < nextId
               /\ active'[q] <= now
               /\ active'[q] \in {row'[q].created, row'[q].checked, row'[q].updated}
               /\ row'[q].created <= active'[q]
               /\ row'[q].checked <= active'[q]
               /\ row'[q].updated <= active'[q]
    <3>1. CASE q = r
      BY <2>1, <2>5, <2>6, <3>1 DEF RowInv
    <3>2. CASE q # r
      BY <2>6, <3>2 DEF RowInv
    <3> QED
      BY <3>1, <3>2
  <2> QED
    BY <2>6, <2>7 DEF RowInv
<1>5. ASSUME NEW c \in Caller, Add(c) PROVE RowInv'
  <2>1. /\ nextId \in Repo /\ nextId' = nextId + 1 /\ now' = now
        /\ tracked' = tracked \cup {nextId} /\ nextId \notin tracked
        /\ active'[nextId] = now
        /\ row'[nextId] = [created |-> now, checked |-> 0, updated |-> 0]
        /\ \A q \in tracked : row'[q] = row[q] /\ active'[q] = active[q]
    <3>1. nextId \in Repo /\ nextId \notin tracked
      BY <1>5 DEF Add, TypeOK, RowInv, Repo
    <3>2. /\ nextId' = nextId + 1 /\ now' = now
          /\ tracked' = tracked \cup {nextId}
          /\ row' = [row EXCEPT ![nextId] = [NoRow EXCEPT !.created = now]]
          /\ active' = [active EXCEPT ![nextId] = now]
      BY <1>5 DEF Add
    <3>3. [NoRow EXCEPT !.created = now] = [created |-> now, checked |-> 0, updated |-> 0]
      BY DEF NoRow
    <3> QED
      BY <3>1, <3>2, <3>3 DEF TypeOK
  <2>2. now \in Nat /\ nextId \in Nat /\ tracked \subseteq Nat
    BY DEF TypeOK, Time, Repo
  <2> QED
    BY <2>1, <2>2 DEF RowInv
<1>6. ASSUME NEW c \in Caller, Remove(c) PROVE RowInv'
  <2>1. PICK r \in tracked :
          /\ tracked' = tracked \ {r}
          /\ row' = [row EXCEPT ![r] = NoRow]
          /\ active' = [active EXCEPT ![r] = 0]
    BY <1>6 DEF Remove
  <2>2. /\ now' = now /\ nextId' = nextId
        /\ \A q \in tracked' : q \in tracked /\ row'[q] = row[q] /\ active'[q] = active[q]
    BY <1>6, <2>1 DEF Remove, TypeOK
  <2> QED
    BY <2>2 DEF RowInv
<1> QED
  BY <1>2, <1>3, <1>4, <1>5, <1>6, Steps

-----------------------------------------------------------------------------
(* The label *)

\* The menu, the flag and the item agree, but for a slipped click.
LEMMA LabelStep ==
  ASSUME TrayAssumption, TypeOK, QueueInv, StartInv, LabelInv, [Next]_vars
  PROVE  LabelInv'
<1> USE DEF Goto
<1>1. CASE UNCHANGED <<menu, live, tray, slipped, paused, pc, built>>
  BY <1>1 DEF LabelInv, LabelTrue
<1>2. CASE UNCHANGED vars \/ Tick
  BY <1>1, <1>2 DEF vars, refresh, shown, Tick
<1>3. CASE Seed
  <2>1. tray' = "building" /\ live' = live /\ pc' = pc
    BY <1>3 DEF Seed, refresh
  <2>2. live /\ \A c \in Caller : pc[c] # "built"
    BY <1>3 DEF Seed, StartInv
  <2> QED
    BY <2>1, <2>2 DEF LabelInv, LabelTrue
<1>4. CASE InitTray
  <2>1. live' = live /\ pc' = pc /\ paused' = paused /\ (tray' = "up" => menu'.resume = paused)
    BY <1>4 DEF InitTray, refresh, BuildMenu
  <2>2. live /\ \A c \in Caller : pc[c] # "built"
    BY <1>4 DEF InitTray, StartInv
  <2> QED
    BY <2>1, <2>2 DEF LabelInv, LabelTrue
<1>5. CASE TogglePause
  <2>1. UNCHANGED <<pc, built, live, tray>>
    BY <1>5 DEF TogglePause, refresh
  <2>2. CASE Rebuilding
    <3>1. slipped' = TRUE
      BY <1>5, <2>2 DEF TogglePause
    <3> QED
      BY <2>1, <3>1 DEF LabelInv, LabelTrue
  <2>3. CASE ~Rebuilding
    <3>1. live /\ \A c \in Caller : pc[c] # "built"
      BY <2>3 DEF Rebuilding, LabelInv
    <3>2. slipped' \/ menu'.resume = paused'
      BY <1>5, <3>1 DEF TogglePause, TypeOK, Menus
    <3> QED
      BY <2>1, <3>1, <3>2 DEF LabelInv, LabelTrue
  <2> QED
    BY <2>2, <2>3
<1>6. ASSUME NEW c \in Caller, UNCHANGED <<menu, live, tray, slipped, paused>>,
             pc[c] \notin {"built", "installed"},
             \/ UNCHANGED built
             \/ built' = [built EXCEPT ![c] = NoMenu],
             \E stage \in Stages \ {"built", "installed"} : pc' = [pc EXCEPT ![c] = stage]
      PROVE  LabelInv'
  <2>1. \A d \in Caller : pc'[d] \in {"built", "installed"} \/ pc[d] \in {"built", "installed"}
                          => pc'[d] = pc[d] /\ built'[d] = built[d]
    BY <1>6 DEF TypeOK
  <2> QED
    BY <1>6, <2>1 DEF LabelInv, LabelTrue
<1>7. ASSUME NEW c \in Caller,
             \/ \E r \in Repo : BeginRun(c, r)
             \/ EndRun(c) \/ BreakRun(c) \/ Add(c) \/ Remove(c) \/ AskInVain(c) \/ Ask(c)
             \/ ReadRecent(c) \/ ReadFails(c) \/ Unchanged(c) \/ ComposeFails(c) \/ AdvanceGate(c)
      PROVE  LabelInv'
  <2>1. UNCHANGED <<menu, live, tray, slipped, paused>>
    BY <1>7 DEF BeginRun, EndRun, BreakRun, Add, Remove, AskInVain, Ask, ReadRecent, ReadFails,
                Unchanged, ComposeFails, AdvanceGate, GiveUp, shown
  <2>2. pc[c] \notin {"built", "installed"}
    BY <1>7 DEF BeginRun, Free, EndRun, BreakRun, Add, Remove, AskInVain, Ask, ReadRecent, ReadFails,
                Unchanged, ComposeFails, AdvanceGate
  <2>3. UNCHANGED built \/ built' = [built EXCEPT ![c] = NoMenu]
    BY <1>7 DEF BeginRun, EndRun, BreakRun, Add, Remove, AskInVain, Ask, ReadRecent, ReadFails,
                Unchanged, ComposeFails, AdvanceGate, GiveUp, Release
  <2>4. \E stage \in Stages \ {"built", "installed"} : pc' = [pc EXCEPT ![c] = stage]
    BY <1>7 DEF BeginRun, EndRun, BreakRun, Add, Remove, AskInVain, Ask, ReadRecent, ReadFails,
                Unchanged, ComposeFails, AdvanceGate, GiveUp, Release, Stages
  <2> QED
    BY <1>6, <2>1, <2>2, <2>3, <2>4
<1>8. ASSUME NEW c \in Caller, Compose(c) PROVE LabelInv'
  <2>1. /\ UNCHANGED <<menu, live, tray, slipped, paused>>
        /\ pc' = [pc EXCEPT ![c] = "built"] /\ built'[c].resume = paused /\ pc[c] = "read"
        /\ \A d \in Caller : d # c => built'[d] = built[d]
    BY <1>8 DEF Compose, shown, BuildMenu, TypeOK
  <2> QED
    BY <2>1 DEF LabelInv, LabelTrue, TypeOK
<1>9. ASSUME NEW c \in Caller, Install(c) PROVE LabelInv'
  <2>1. /\ UNCHANGED <<tray, paused, built>> /\ menu' = built[c]
        /\ slipped' = (slipped /\ built[c].resume # paused)
        /\ pc' = [pc EXCEPT ![c] = "installed"] /\ pc[c] = "built"
    BY <1>9 DEF Install
  <2>2. ~slipped' => menu'.resume = paused
    BY <2>1 DEF LabelInv
  <2>3. \A d \in Caller : pc'[d] # "built"
    BY <2>1 DEF QueueInv, Refreshing, Holds, TypeOK
  <2>4. pc'[c] = "installed"
    BY <2>1 DEF TypeOK
  <2> QED
    BY <2>1, <2>2, <2>3, <2>4 DEF LabelInv, LabelTrue
<1>10. ASSUME NEW c \in Caller, InstallFails(c) PROVE LabelInv'
  <2>1. /\ UNCHANGED <<menu, live, tray, slipped, paused>>
        /\ pc' = [pc EXCEPT ![c] = "idle"] /\ pc[c] = "built"
        /\ built' = [built EXCEPT ![c] = NoMenu]
    BY <1>10 DEF InstallFails, GiveUp, Release, shown
  <2>2. \A d \in Caller : pc'[d] # "built" /\ (pc[d] = "installed" => pc'[d] = "installed")
    BY <2>1 DEF QueueInv, Refreshing, Holds, TypeOK
  <2> QED
    BY <2>1, <2>2 DEF LabelInv, LabelTrue
<1>11. ASSUME NEW c \in Caller, StoreItem(c) PROVE LabelInv'
  <2>1. /\ UNCHANGED <<menu, tray, slipped, paused, built>> /\ live'
        /\ \A d \in Caller : pc'[d] = "built" => pc[d] = "built"
    BY <1>11 DEF StoreItem, TypeOK
  <2> QED
    BY <2>1 DEF LabelInv, LabelTrue
<1> QED
  BY <1>2, <1>3, <1>4, <1>5, <1>7, <1>8, <1>9, <1>10, <1>11, Steps

-----------------------------------------------------------------------------
(* The list *)

\* The gate names the installed menu whenever no refresh is between the two.
LEMMA GateStep ==
  ASSUME TypeOK, QueueInv, StartInv, GateInv, [Next]_vars
  PROVE  GateInv'
<1> USE DEF Goto
<1>1. CASE UNCHANGED <<menu, gate, tray, pc, built, read>>
  BY <1>1 DEF GateInv
<1>2. CASE UNCHANGED vars \/ Tick
  BY <1>1, <1>2 DEF vars, refresh, shown, Tick
<1>3. CASE Seed \/ InitTray
  <2>1. \A c \in Caller : pc'[c] \notin {"built", "installed", "stored"}
    BY <1>3 DEF Seed, InitTray, StartInv, refresh
  <2>2. tray' = "up" => gate' = menu'.recent
    BY <1>3 DEF Seed, InitTray, BuildMenu
  <2> QED
    BY <2>1, <2>2 DEF GateInv
<1>4. CASE TogglePause
  <2>1. UNCHANGED <<pc, built, read, gate, tray>> /\ menu'.recent = menu.recent
    BY <1>4 DEF TogglePause, refresh, TypeOK, Menus
  <2> QED
    BY <2>1 DEF GateInv
<1>5. ASSUME NEW c \in Caller,
             \/ \E r \in Repo : BeginRun(c, r)
             \/ EndRun(c) \/ BreakRun(c) \/ Add(c) \/ Remove(c) \/ AskInVain(c) \/ Ask(c)
      PROVE  GateInv'
  <2>1. UNCHANGED <<menu, gate, tray, built, read>>
    BY <1>5 DEF BeginRun, EndRun, BreakRun, Add, Remove, AskInVain, Ask, shown
  <2>2. /\ pc[c] \in {"idle", "running", "asks"}
        /\ \E stage \in {"idle", "running", "asks", "waits"} : pc' = [pc EXCEPT ![c] = stage]
    BY <1>5 DEF BeginRun, Free, EndRun, BreakRun, Add, Remove, AskInVain, Ask
  <2>3. \A d \in Caller : pc'[d] \in {"built", "installed", "stored"}
                          \/ pc[d] \in {"built", "installed", "stored"} => pc'[d] = pc[d]
    BY <2>2 DEF TypeOK
  <2> QED
    BY <2>1, <2>3 DEF GateInv
<1>6. ASSUME NEW c \in Caller, Refreshing(c) \/ (pc[c] = "waits" /\ Holds(c)),
             NEW stage \in Stages, pc' = [pc EXCEPT ![c] = stage]
      PROVE  /\ pc'[c] = stage
             /\ \A d \in Caller \ {c} : ~Refreshing(d) /\ ~Refreshing(d)'
             /\ \A d \in Caller \ {c} : pc'[d] \notin {"built", "installed", "stored"}
  BY <1>6 DEF QueueInv, Refreshing, Holds, TypeOK
<1>7. ASSUME NEW c \in Caller, ReadRecent(c) PROVE GateInv'
  <2>1. /\ pc[c] = "waits" /\ Holds(c) /\ pc' = [pc EXCEPT ![c] = "read"]
        /\ UNCHANGED <<menu, gate, tray>>
    BY <1>7 DEF ReadRecent, shown
  <2>2. \A d \in Caller : pc'[d] \notin {"built", "installed", "stored"}
    BY <1>6, <2>1 DEF Stages
  <2>3. \A d \in Caller : pc[d] \notin {"installed", "stored"}
    BY <1>6, <2>1 DEF Stages, Refreshing
  <2> QED
    BY <2>1, <2>2, <2>3 DEF GateInv
<1>8. ASSUME NEW c \in Caller,
             ReadFails(c) \/ Unchanged(c) \/ ComposeFails(c) \/ InstallFails(c)
      PROVE  GateInv'
  <2>1. /\ Refreshing(c) \/ (pc[c] = "waits" /\ Holds(c))
        /\ pc[c] \notin {"installed", "stored"}
        /\ pc' = [pc EXCEPT ![c] = "idle"]
        /\ UNCHANGED <<menu, gate, tray>>
    BY <1>8 DEF ReadFails, Unchanged, ComposeFails, InstallFails, GiveUp, Release, shown, Refreshing
  <2>2. \A d \in Caller : pc'[d] \notin {"built", "installed", "stored"}
    BY <1>6, <2>1 DEF Stages
  <2>3. \A d \in Caller : pc[d] \notin {"installed", "stored"}
    BY <1>6, <2>1 DEF Stages, Refreshing
  <2> QED
    BY <2>1, <2>2, <2>3 DEF GateInv
<1>9. ASSUME NEW c \in Caller, Compose(c) PROVE GateInv'
  <2>1. /\ Refreshing(c) /\ pc[c] = "read" /\ pc' = [pc EXCEPT ![c] = "built"]
        /\ built'[c].recent = read[c] /\ UNCHANGED <<menu, gate, tray, read>>
    BY <1>9 DEF Compose, BuildMenu, shown, Refreshing, TypeOK
  <2>2. pc'[c] = "built" /\ \A d \in Caller \ {c} : pc'[d] \notin {"built", "installed", "stored"}
    BY <1>6, <2>1 DEF Stages
  <2>3. \A d \in Caller : pc[d] \notin {"installed", "stored"}
    BY <1>6, <2>1 DEF Stages, Refreshing
  <2> QED
    BY <2>1, <2>2, <2>3 DEF GateInv
<1>10. ASSUME NEW c \in Caller, Install(c) PROVE GateInv'
  <2>1. /\ Refreshing(c) /\ pc[c] = "built" /\ pc' = [pc EXCEPT ![c] = "installed"]
        /\ menu' = built[c] /\ UNCHANGED <<gate, tray, read>>
    BY <1>10 DEF Install, Refreshing
  <2>2. pc'[c] = "installed" /\ \A d \in Caller \ {c} : pc'[d] \notin {"built", "installed", "stored"}
    BY <1>6, <2>1 DEF Stages
  <2>3. built[c].recent = read[c]
    BY <2>1 DEF GateInv
  <2> QED
    BY <2>1, <2>2, <2>3 DEF GateInv
<1>11. ASSUME NEW c \in Caller, StoreItem(c) PROVE GateInv'
  <2>1. /\ Refreshing(c) /\ pc[c] = "installed" /\ pc' = [pc EXCEPT ![c] = "stored"]
        /\ UNCHANGED <<menu, gate, tray, read>>
    BY <1>11 DEF StoreItem, Refreshing
  <2>2. pc'[c] = "stored" /\ \A d \in Caller \ {c} : pc'[d] \notin {"built", "installed", "stored"}
    BY <1>6, <2>1 DEF Stages
  <2> QED
    BY <2>1, <2>2 DEF GateInv
<1>12. ASSUME NEW c \in Caller, AdvanceGate(c) PROVE GateInv'
  <2>1. /\ Refreshing(c) /\ pc[c] = "stored" /\ pc' = [pc EXCEPT ![c] = "idle"]
        /\ gate' = read[c] /\ UNCHANGED <<menu, tray>>
    BY <1>12 DEF AdvanceGate, Release, Refreshing
  <2>2. \A d \in Caller : pc'[d] \notin {"built", "installed", "stored"}
    BY <1>6, <2>1 DEF Stages
  <2>3. gate' = menu.recent
    BY <2>1 DEF GateInv
  <2> QED
    BY <2>1, <2>2, <2>3 DEF GateInv
<1> QED
  BY <1>2, <1>3, <1>4, <1>5, <1>7, <1>8, <1>9, <1>10, <1>11, <1>12, Steps

\* A caller whose change waits for its refresh makes FreshInv promise nothing.
LEMMA Pending ==
  ASSUME NEW c \in Caller, pc[c] \in {"asks", "waits"} \/ (c \in Batch /\ pc[c] = "running")
  PROVE  ~Announced
BY DEF Announced

\* What a refresh holds, or has installed, is current once no change waits for its own.
LEMMA FreshStep ==
  ASSUME TypeOK, QueueInv, StartInv, GateInv, FreshInv, [Next]_vars
  PROVE  FreshInv'
<1> USE DEF Goto
<1>1. CASE /\ UNCHANGED <<registry, pc, read>> /\ menu'.recent = menu.recent
           /\ tray' = tray \/ (tray = "building" /\ tray' = "up")
           /\ missed' = missed
  BY <1>1 DEF FreshInv, Announced, Refreshing, RecentRepos, registry
<1>2. CASE UNCHANGED vars \/ Tick \/ TogglePause
  <2>1. menu'.recent = menu.recent
    BY <1>2 DEF vars, Tick, TogglePause, shown, TypeOK, Menus
  <2>2. /\ UNCHANGED <<registry, pc, read>> /\ tray' = tray /\ missed' = missed
    BY <1>2 DEF vars, Tick, TogglePause, shown, refresh
  <2> QED
    BY <1>1, <2>1, <2>2
<1>3. CASE InitTray
  <2>1. CASE tray' = "up"
    <3>1. menu'.recent = menu.recent /\ UNCHANGED <<registry, pc, read>> /\ missed' = missed
      BY <1>3, <2>1 DEF InitTray, BuildMenu, refresh
    <3> QED
      BY <1>1, <1>3, <2>1, <3>1 DEF InitTray
  <2>2. CASE tray' # "up"
    BY <1>3, <2>2 DEF InitTray, FreshInv
  <2> QED
    BY <2>1, <2>2
<1>4. CASE Seed
  <2>1. UNCHANGED <<registry, pc, read>> /\ tray # "up"
    BY <1>4 DEF Seed, refresh
  <2>2. \A c \in Caller : ~Refreshing(c)'
    BY <2>1 DEF StartInv, Refreshing
  <2>3. missed' \/ menu'.recent = RecentRepos
    BY <1>4 DEF Seed, TypeOK, Menus
  <2> QED
    BY <2>1, <2>2, <2>3 DEF FreshInv, RecentRepos, registry
<1>5. ASSUME NEW c \in Caller, NEW r \in Repo, BeginRun(c, r) PROVE FreshInv'
  <2>1. pc' = [pc EXCEPT ![c] = "running"] /\ Free(c)
        /\ UNCHANGED <<registry, read, menu, tray, missed>>
    BY <1>5 DEF BeginRun, shown
  <2>2. CASE c \in Batch
    BY <2>1, <2>2 DEF FreshInv, Announced, TypeOK, Caller
  <2>3. CASE c \notin Batch
    <3>1. pc[c] = "idle" /\ (Announced' => Announced) /\ RecentRepos' = RecentRepos
      BY <2>1, <2>3 DEF Free, Announced, RecentRepos, registry, TypeOK, Caller
    <3>2. \A d \in Caller : Refreshing(d)' <=> Refreshing(d)
      BY <2>1, <3>1 DEF Refreshing, TypeOK
    <3> QED
      BY <2>1, <3>1, <3>2 DEF FreshInv
  <2> QED
    BY <2>2, <2>3
<1>6. ASSUME NEW c \in Caller, BreakRun(c) PROVE FreshInv'
  <2>1. pc[c] = "running" /\ UNCHANGED <<registry, read, menu, tray, missed>>
        /\ pc' = [pc EXCEPT ![c] = IF c \in Batch THEN "asks" ELSE "idle"]
    BY <1>6 DEF BreakRun, shown
  <2>2. CASE c \in Batch
    BY <2>1, <2>2 DEF FreshInv, Announced, TypeOK
  <2>3. CASE c \notin Batch
    <3>1. (Announced' => Announced) /\ RecentRepos' = RecentRepos
      BY <2>1, <2>3 DEF Announced, RecentRepos, registry, TypeOK, Caller
    <3>2. \A d \in Caller : Refreshing(d)' <=> Refreshing(d)
      BY <2>1, <2>3 DEF Refreshing, TypeOK
    <3> QED
      BY <2>1, <3>1, <3>2 DEF FreshInv
  <2> QED
    BY <2>2, <2>3
<1>7. ASSUME NEW c \in Caller,
             EndRun(c) \/ Add(c) \/ Remove(c) \/ AskInVain(c) \/ Ask(c)
             \/ ReadFails(c) \/ ComposeFails(c) \/ InstallFails(c)
      PROVE  FreshInv'
  <2>1. missed' \/ \E stage \in {"asks", "waits"} : pc' = [pc EXCEPT ![c] = stage]
    BY <1>7 DEF EndRun, Add, Remove, AskInVain, Ask, ReadFails, ComposeFails, InstallFails, GiveUp
  <2> QED
    BY <2>1 DEF FreshInv, Announced, TypeOK
<1>8. ASSUME NEW c \in Caller, Refreshing(c) \/ (pc[c] = "waits" /\ Holds(c)),
             NEW stage \in Stages, pc' = [pc EXCEPT ![c] = stage]
      PROVE  /\ pc'[c] = stage
             /\ \A d \in Caller \ {c} : ~Refreshing(d) /\ ~Refreshing(d)'
             /\ pc[c] # "waits" => (Announced' => Announced)
  BY <1>8 DEF QueueInv, Refreshing, Holds, TypeOK, Announced
<1>9. ASSUME NEW c \in Caller, ReadRecent(c) PROVE FreshInv'
  <2>1. /\ pc[c] = "waits" /\ Holds(c) /\ pc' = [pc EXCEPT ![c] = "read"]
        /\ read'[c] = RecentRepos /\ UNCHANGED registry
    BY <1>9 DEF ReadRecent, TypeOK
  <2>2. pc'[c] = "read" /\ \A d \in Caller \ {c} : ~Refreshing(d)'
    BY <1>8, <2>1 DEF Stages
  <2>3. RecentRepos' = RecentRepos
    BY <2>1 DEF RecentRepos, registry
  <2> QED
    BY <2>1, <2>2, <2>3 DEF FreshInv, Refreshing
<1>10. ASSUME NEW c \in Caller, Compose(c) \/ Install(c) \/ StoreItem(c) PROVE FreshInv'
  <2>1. /\ Refreshing(c) /\ pc[c] # "waits"
        /\ \E stage \in {"built", "installed", "stored"} : pc' = [pc EXCEPT ![c] = stage]
        /\ UNCHANGED <<registry, read, tray, missed>>
    BY <1>10 DEF Compose, Install, StoreItem, Refreshing, shown
  <2>2. Refreshing(c)' /\ (Announced' => Announced) /\ \A d \in Caller \ {c} : ~Refreshing(d)'
    BY <1>8, <2>1 DEF Stages, Refreshing
  <2>3. RecentRepos' = RecentRepos
    BY <2>1 DEF RecentRepos, registry
  <2> QED
    BY <2>1, <2>2, <2>3 DEF FreshInv
<1>11. ASSUME NEW c \in Caller, Unchanged(c) PROVE FreshInv'
  <2>1. /\ Refreshing(c) /\ pc[c] = "read" /\ pc' = [pc EXCEPT ![c] = "idle"]
        /\ gate = read[c] /\ UNCHANGED <<registry, menu, tray, missed>>
    BY <1>11 DEF Unchanged, Release, shown, Refreshing
  <2>2. /\ \A d \in Caller : ~Refreshing(d)'
        /\ Announced' => Announced
        /\ \A d \in Caller : pc[d] \notin {"installed", "stored"}
    BY <1>8, <2>1 DEF Stages, Refreshing
  <2>3. tray = "up"
    BY <2>1 DEF StartInv, Refreshing
  <2>4. menu.recent = read[c]
    BY <2>1, <2>2, <2>3 DEF GateInv
  <2>5. RecentRepos' = RecentRepos
    BY <2>1 DEF RecentRepos, registry
  <2> QED
    BY <2>1, <2>2, <2>4, <2>5 DEF FreshInv
<1>12. ASSUME NEW c \in Caller, AdvanceGate(c) PROVE FreshInv'
  <2>1. /\ Refreshing(c) /\ pc[c] = "stored" /\ pc' = [pc EXCEPT ![c] = "idle"]
        /\ UNCHANGED <<registry, menu, tray, missed>>
    BY <1>12 DEF AdvanceGate, Release, Refreshing
  <2>2. (\A d \in Caller : ~Refreshing(d)') /\ (Announced' => Announced)
    BY <1>8, <2>1 DEF Stages, Refreshing
  <2>3. menu.recent = read[c]
    BY <2>1 DEF GateInv
  <2>4. RecentRepos' = RecentRepos
    BY <2>1 DEF RecentRepos, registry
  <2> QED
    BY <2>1, <2>2, <2>3, <2>4 DEF FreshInv
<1> QED
  BY <1>2, <1>3, <1>4, <1>5, <1>6, <1>7, <1>9, <1>10, <1>11, <1>12, Steps

-----------------------------------------------------------------------------
(* The theorems *)

\* The start has the invariant.
LEMMA InvInit ==
  ASSUME TrayAssumption, Init
  PROVE  IInv
<1>1. TypeOK
  BY TypeInit
<1>2. QueueInv /\ StartInv /\ RunInv
  BY DEF Init, QueueInv, StartInv, RunInv, Refreshing
<1>3. RowInv
  <2> PICK checks \in [tracked -> 0 .. 1] :
         row = [r \in Repo |-> IF r \in tracked
                                THEN [created |-> 1, checked |-> checks[r], updated |-> 0]
                                ELSE NoRow]
    BY DEF Init
  <2> SUFFICES ASSUME NEW r \in tracked
               PROVE  /\ r < nextId
                      /\ active[r] <= now
                      /\ active[r] \in {row[r].created, row[r].checked, row[r].updated}
                      /\ row[r].created <= active[r]
                      /\ row[r].checked <= active[r]
                      /\ row[r].updated <= active[r]
    BY DEF RowInv
  <2>1. r \in Repo /\ r < nextId
    BY <1>1 DEF TypeOK, Init
  <2>2. row[r] = [created |-> 1, checked |-> checks[r], updated |-> 0] /\ checks[r] \in 0 .. 1
    BY <2>1
  <2>3. active[r] = 1 /\ now = 1
    BY <2>1 DEF Init
  <2> QED
    BY <2>1, <2>2, <2>3
<1>4. LabelInv /\ GateInv /\ FreshInv
  BY DEF Init, LabelInv, LabelTrue, GateInv, FreshInv
<1> QED
  BY <1>1, <1>2, <1>3, <1>4 DEF IInv

(* The invariant of the tray: who refreshes, what a row says of its repo, and what the      *)
(* menu, the gate and the held item owe to each other (tray.rs, refresh_recent_menu).       *)
THEOREM Invariant ==
  ASSUME TrayAssumption
  PROVE  Spec => []IInv
<1>1. Init => IInv
  BY InvInit
<1>2. IInv /\ [Next]_vars => IInv'
  BY TypeStep, QueueStep, StartStep, RunStep, RowStep, LabelStep, GateStep, FreshStep DEF IInv
<1> QED
  BY <1>1, <1>2, PTL DEF Spec

\* The types of Tray.
THEOREM TypeCorrect ==
  ASSUME TrayAssumption
  PROVE  Spec => []TypeOK
<1>1. IInv => TypeOK
  BY DEF IInv
<1> QED
  BY <1>1, Invariant, PTL

(* Whatever order changes, refreshes and clicks come in: with everything announced and      *)
(* nothing missed, the submenu lists the repos of the latest activity.                      *)
THEOREM MenuIsCurrent ==
  ASSUME TrayAssumption
  PROVE  Spec => []MenuCurrent
<1>1. IInv => MenuCurrent
  <2> SUFFICES ASSUME IInv, tray = "up", ~missed, \A c \in Caller : Quiet(c)
               PROVE  menu.recent = SelectRecent([r \in tracked |-> active[r]])
    BY DEF MenuCurrent
  <2>1. Announced /\ \A c \in Caller : ~Refreshing(c)
    BY DEF Announced, Refreshing, Quiet, Caller, IInv, TypeOK, TrayAssumption
  <2>2. menu.recent = RecentRepos
    BY <2>1 DEF IInv, FreshInv
  <2>3. ASSUME NEW r \in tracked PROVE LastActive(row[r]) = active[r]
    <3>1. row[r] \in Row
      BY DEF IInv, TypeOK
    <3>2. {row[r].created, row[r].checked, row[r].updated} \in SUBSET Int
      BY <3>1 DEF Row, Time
    <3>3. /\ active[r] \in {row[r].created, row[r].checked, row[r].updated}
          /\ \A u \in {row[r].created, row[r].checked, row[r].updated} : u <= active[r]
      BY DEF IInv, RowInv
    <3> QED
      BY <3>2, <3>3, LatestIs DEF LastActive
  <2>4. [r \in tracked |-> LastActive(row[r])] = [r \in tracked |-> active[r]]
    BY <2>3
  <2> QED
    BY <2>2, <2>4 DEF RecentRepos
<1> QED
  BY <1>1, Invariant, PTL

(* The pause item says what a click on it will do, unless the last click fell into a        *)
(* rebuild or its text could not be set.                                                    *)
THEOREM LabelIsTrue ==
  ASSUME TrayAssumption
  PROVE  Spec => []LabelTrue
<1>1. IInv => LabelTrue
  BY DEF IInv, LabelInv
<1> QED
  BY <1>1, Invariant, PTL
=============================================================================
