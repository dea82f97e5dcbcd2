---------------------------- MODULE DesktopProofs ----------------------------
(***************************************************************************)
(* For any number of callers, saves, faults and changes from outside: the  *)
(* types of Desktop and all its safety properties.  The inductive          *)
(* invariant says where the databases and their logs are, that one save at *)
(* a time is past the lock, and at each of its stages what the row, the    *)
(* shell and the OS have to do with each other.                            *)
(***************************************************************************)
EXTENDS Desktop, FiniteSetTheorems, WellFoundedInduction, TLAPS

\* Every database that was created is in one place or another, and the file a session
\* runs on is there.  A session leaves the main file only if that is corrupt, and then
\* says so.
Numbered ==
    /\ disk.main = NoDb \/ disk.main.gen \in 1..made
    /\ \A f \in DOMAIN disk.aside : disk.aside[f].gen \in 1..made
    /\ \A f \in DOMAIN disk.fresh : disk.fresh[f].gen \in 1..made
    /\ \A g \in 1..made : \/ disk.main.gen = g
                          \/ \E f \in DOMAIN disk.aside : disk.aside[f].gen = g
                          \/ \E f \in DOMAIN disk.fresh : disk.fresh[f].gen = g

Home(where) == IF where = Main THEN disk.main # NoDb ELSE where \in DOMAIN disk.fresh
DiskType ==
    /\ DOMAIN disk = {"main", "aside", "fresh"}
    /\ disk.main \in Db
    /\ \A f \in DOMAIN disk.aside : f \in Stamp \X Nat /\ disk.aside[f] \in Db
    /\ \A f \in DOMAIN disk.fresh : f \in Stamp /\ disk.fresh[f] \in Db
Up == app.stage \in {"launching", "showing", "running"}

FileInv ==
    /\ DiskType
    /\ IsFiniteSet(DOMAIN disk.aside)
    /\ Numbered
    /\ Up => Home(app.db)
    /\ app.stage = "moving" \/ app.db # Main => disk.main.damage = "corrupt"
    /\ app.db # Main => app.stage = "creating" \/ app.recovered
    /\ app.recovered => Up

\* The next launch opens the database of the last session, or one that is corrupt, or it
\* is on record that a reset went untold; a session that is up has told it.
ResetInv ==
    /\ app.stage \in {"off", "opening"} /\ seen # 0 =>
         disk.main.gen = seen \/ disk.main.damage = "corrupt" \/ "reset" \in excused
    /\ Up /\ seen # 0 => At(disk, app.db).gen = seen \/ app.recovered \/ "reset" \in excused

\* A window that is hidden can be had back.
WindowInv ==
    app.stage = "running" => /\ app.intercept => app.tray
                             /\ app.visible \/ app.tray \/ app.showFailed

\* Only the holder of the lock is past it, and only while the process runs.
LockInv ==
    /\ \A s \in Saver : save[s].stage \notin {"idle", "waiting"} => lock = s
    /\ app.stage # "running" => \A s \in Saver : save[s].stage = "idle"

HonestOs(settings) == settings.autostart = os \/ "autostart" \in excused
LiveEngine(path) == app.engine.path = path \/ app.engine = NoGit \/ "engine" \in excused
Blind(s) == save[s].act.result = "failed" /\ save[s].after = Unknown

\* What the outcome of a save says of the engine.
Engaged(s) ==
    /\ save[s].git = "Swapped" => app.engine.path = save[s].request.path
    /\ save[s].git = "Unchanged" => save[s].request.path = save[s].previous.path

\* Between saves all agree.  A save that has read the row knows it; one that has actuated
\* will store what the OS holds, and can tell how to undo what it did; one that has
\* persisted has only the shell left to bring in line.
SaveInv ==
    /\ Shown /\ (\A s \in Saver : save[s].stage # "actuated") => HonestOs(Stored)
    /\ Shown /\ (\A s \in Saver : save[s].stage # "persisted") =>
         (app.close = Stored.close \/ "close" \in excused) /\ LiveEngine(Stored.path)
    /\ \A s \in Saver :
         /\ save[s].stage \in {"read", "actuated"} => save[s].previous = Stored
         /\ save[s].stage \in {"actuated", "persisted", "reconciled"} =>
              HonestOs(save[s].request) \/ Blind(s)
         /\ save[s].stage = "actuated" =>
              /\ save[s].act.result = "noop" => HonestOs(Stored) /\ (save[s].before = os \/ "autostart" \in excused)
              /\ CanRollBack(save[s].act) =>
                   /\ save[s].act.seen = save[s].before
                   /\ Stored.autostart = save[s].before \/ "autostart" \in excused
         /\ save[s].stage \in {"persisted", "reconciled"} => save[s].request = Stored
         /\ save[s].stage = "persisted" => LiveEngine(save[s].previous.path)
         /\ save[s].stage = "reconciled" => app.close = save[s].request.close /\ Engaged(s)

IInv == TypeOK /\ FileInv /\ LogsKept /\ ResetInv /\ WindowInv /\ LockInv /\ SaveInv

-----------------------------------------------------------------------------
(* The database *)

\* Numbered is what keeps every database on the disk.
LEMMA NumberedKeeps == Numbered => {db.gen : db \in Files(disk)} = 1..made
<1> SUFFICES ASSUME Numbered PROVE {db.gen : db \in Files(disk)} = 1..made
  OBVIOUS
<1>1. ASSUME NEW db \in Files(disk) PROVE db.gen \in 1..made
  BY <1>1 DEF Numbered, Files
<1>2. ASSUME NEW g \in 1..made PROVE \E db \in Files(disk) : db.gen = g
  <2>1. CASE disk.main.gen = g
    <3>1. disk.main # NoDb
      BY <2>1, <1>2 DEF NoDb, NewDb
    <3> QED
      BY <2>1, <3>1 DEF Files
  <2>2. CASE \E f \in DOMAIN disk.aside : disk.aside[f].gen = g
    BY <2>2 DEF Files
  <2>3. CASE \E f \in DOMAIN disk.fresh : disk.fresh[f].gen = g
    BY <2>3 DEF Files
  <2> QED
    BY <2>1, <2>2, <2>3 DEF Numbered
<1> QED
  BY <1>1, <1>2

\* The name given to a backup is a free one (unique_backup_dest): of one more suffix than
\* there are backups, one is not taken.
LEMMA BackupNameFree ==
  ASSUME NEW aside, NEW stamp \in Stamp, IsFiniteSet(DOMAIN aside)
  PROVE  /\ UniqueBackupDest(aside, stamp) \in Stamp \X Nat
         /\ UniqueBackupDest(aside, stamp) \notin DOMAIN aside
<1> DEFINE c == Cardinality(DOMAIN aside)
           taken == {n \in 0..c : <<stamp, n>> \in DOMAIN aside}
           free == 0..c \ taken
<1>1. c \in Nat
  BY FS_CardinalityType
<1> HIDE DEF c
<1>2. free # {}
  <2> SUFFICES ASSUME free = {} PROVE FALSE
    OBVIOUS
  <2>1. \A n \in 0..c : <<stamp, n>> \in DOMAIN aside
    OBVIOUS
  <2> DEFINE name == [n \in 0..c |-> <<stamp, n>>]
  <2>2. name \in [0..c -> DOMAIN aside]
    BY <2>1
  <2>3. IsFiniteSet(0..c) /\ Cardinality(0..c) = c + 1
    BY <1>1, FS_Interval
  <2>4. \E x, y \in 0..c : x # y /\ name[x] = name[y]
    <3> DEFINE names == DOMAIN aside
               suffixes == 0..c
    <3>1. Cardinality(names) < Cardinality(suffixes)
      BY <1>1, <2>3 DEF c
    <3>2. IsFiniteSet(names) /\ IsFiniteSet(suffixes) /\ name \in [suffixes -> names]
      BY <2>2, <2>3
    <3> HIDE DEF name, names, suffixes, taken, free
    <3>3. \E x, y \in suffixes : x # y /\ name[x] = name[y]
      BY <3>1, <3>2, FS_PigeonHole, Zenon
    <3> QED
      BY <3>3 DEF suffixes
  <2>5. \A x, y \in 0..c : name[x] = name[y] => x = y
    OBVIOUS
  <2> HIDE DEF name
  <2> QED
    BY <2>4, <2>5
<1>3. \E n \in free : \A k \in free : n <= k
  <2>1. free \subseteq Nat
    BY <1>1
  <2> HIDE DEF free
  <2>2. PICK n \in free : \A k \in free : <<k, n>> \notin OpToRel(<, Nat)
    BY <1>2, <2>1, NatLessThanWellFounded, WFMin, Zenon
  <2>3. \A k \in free : ~(k < n)
    BY <2>1, <2>2, Zenon DEF OpToRel
  <2> QED
    BY <2>1, <2>3
<1> DEFINE least == CHOOSE n \in free : \A k \in free : n <= k
<1>4. least \in free
  BY <1>3
<1>5. UniqueBackupDest(aside, stamp) = <<stamp, least>>
  BY DEF UniqueBackupDest, c
<1> HIDE DEF least
<1> QED
  BY <1>1, <1>4, <1>5

\* What a write to a database file leaves alone, which is all but its content.
LEMMA WriteFile ==
  ASSUME DiskType, NEW where \in {Main} \cup Stamp, NEW db \in Db, db # NoDb,
         disk' = With(disk, where, db), DesktopAssumption
  PROVE  /\ DiskType' /\ At(disk', where) = db /\ Home(where)'
         /\ disk'.aside = disk.aside
         /\ where = Main => disk'.fresh = disk.fresh /\ disk'.main = db
         /\ where # Main => /\ disk'.main = disk.main
                            /\ DOMAIN disk'.fresh = DOMAIN disk.fresh \cup {where}
                            /\ \A f \in DOMAIN disk.fresh : f # where => disk'.fresh[f] = disk.fresh[f]
<1>1. CASE where = Main
  BY <1>1 DEF With, At, Home, DiskType
<1>2. CASE where # Main
  <2>1. disk' = [disk EXCEPT !.fresh = Put(disk.fresh, where, db)]
    BY <1>2 DEF With
  <2>2. disk'.main = disk.main /\ disk'.aside = disk.aside /\ disk'.fresh = Put(disk.fresh, where, db)
        /\ DOMAIN disk' = DOMAIN disk
    BY <2>1 DEF DiskType
  <2>3. /\ DOMAIN disk'.fresh = DOMAIN disk.fresh \cup {where}
        /\ \A f \in DOMAIN disk.fresh : f # where => disk'.fresh[f] = disk.fresh[f]
        /\ disk'.fresh[where] = db
    BY <2>2 DEF Put
  <2>4. where \in Stamp
    BY <1>2
  <2> QED
    BY <1>2, <2>2, <2>3, <2>4 DEF At, Home, DiskType
<1> QED
  BY <1>1, <1>2

\* A file that is present is a database.
LEMMA HomeGen ==
  ASSUME DiskType, Numbered, NEW where \in {Main} \cup Stamp, Home(where), made \in Nat
  PROVE  At(disk, where) \in Db /\ At(disk, where).gen \in 1..made
<1>1. CASE where = Main
  BY <1>1 DEF DiskType, Numbered, Home, At
<1>2. CASE where # Main
  BY <1>2 DEF DiskType, Numbered, Home, At
<1> QED
  BY <1>1, <1>2

\* Writing settings changes nothing else of the database.
LEMMA StoreFile ==
  ASSUME DiskType, Numbered, NEW where \in {Main} \cup Stamp, Home(where), made \in Nat,
         NEW st \in Settings, UNCHANGED made,
         disk' = With(disk, where, [At(disk, where) EXCEPT !.settings = st]), DesktopAssumption
  PROVE  /\ DiskType' /\ Numbered' /\ Home(where)'
         /\ At(disk', where).settings = st /\ At(disk', where).gen = At(disk, where).gen
         /\ disk'.main.gen = disk.main.gen /\ disk'.main.damage = disk.main.damage
         /\ disk'.aside = disk.aside
<1> DEFINE db == [At(disk, where) EXCEPT !.settings = st]
<1>1. At(disk, where) \in Db /\ At(disk, where).gen \in 1..made
  BY HomeGen
<1>2. /\ db \in Db /\ db.gen = At(disk, where).gen /\ db.damage = At(disk, where).damage
      /\ db.settings = st /\ db # NoDb
  BY <1>1 DEF Db, NoDb, NewDb
<1> HIDE DEF db
<1>3. /\ DiskType' /\ At(disk', where) = db /\ Home(where)'
      /\ disk'.aside = disk.aside
      /\ where = Main => disk'.fresh = disk.fresh /\ disk'.main = db
      /\ where # Main => /\ disk'.main = disk.main
                         /\ DOMAIN disk'.fresh = DOMAIN disk.fresh \cup {where}
                         /\ \A f \in DOMAIN disk.fresh : f # where => disk'.fresh[f] = disk.fresh[f]
  BY <1>2, WriteFile DEF db
<1>4. CASE where = Main
  BY <1>1, <1>2, <1>3, <1>4 DEF Numbered, At
<1>5. CASE where # Main
  <2>1. disk'.fresh[where] = db /\ disk.fresh[where].gen = db.gen /\ where \in DOMAIN disk.fresh
    BY <1>2, <1>3, <1>5 DEF At, Home
  <2>2. DOMAIN disk'.fresh = DOMAIN disk.fresh /\ \A f \in DOMAIN disk.fresh : disk'.fresh[f].gen = disk.fresh[f].gen
    BY <1>3, <1>5, <2>1
  <2>3. Numbered'
    BY <1>3, <1>5, <2>2 DEF Numbered
  <2> QED
    BY <1>2, <1>3, <1>5, <2>3
<1> QED
  BY <1>4, <1>5

\* A file is opened if it is there, and created as the next database if it is not.
LEMMA OpenFile ==
  ASSUME DiskType, Numbered, NEW where \in {Main} \cup Stamp, made \in Nat,
         CreateOrOpen(where), DesktopAssumption
  PROVE  /\ DiskType' /\ Numbered' /\ Home(where)' /\ made' \in Nat /\ made <= made'
         /\ disk'.aside = disk.aside
         /\ Home(where) => disk' = disk /\ made' = made
         /\ ~(where = Main /\ disk.main = NoDb) => disk'.main = disk.main
<1>1. CASE Home(where)
  <2>1. disk' = disk
    BY <1>1 DEF CreateOrOpen, Opened, Home
  <2>2. At(disk', where).gen # made + 1
    BY <1>1, <2>1, HomeGen
  <2>3. made' = made
    BY <2>2 DEF CreateOrOpen
  <2> QED
    BY <1>1, <2>1, <2>3 DEF DiskType, Numbered, Home
<1>2. CASE ~Home(where)
  <2> DEFINE db == NewDb(made + 1)
  <2>1. disk' = With(disk, where, db)
    BY <1>2 DEF CreateOrOpen, Opened, Home
  <2>2. db \in Db /\ db.gen = made + 1 /\ db # NoDb
    <3>1. DefaultSettings \in Settings
      BY DEF DesktopAssumption, DefaultSettings, Settings, Switch
    <3> QED
      BY <3>1 DEF Db, NewDb, NoDb, Damage
  <2> HIDE DEF db
  <2>3. /\ DiskType' /\ At(disk', where) = db /\ Home(where)'
        /\ disk'.aside = disk.aside
        /\ where = Main => disk'.fresh = disk.fresh /\ disk'.main = db
        /\ where # Main => /\ disk'.main = disk.main
                           /\ DOMAIN disk'.fresh = DOMAIN disk.fresh \cup {where}
                           /\ \A f \in DOMAIN disk.fresh : f # where => disk'.fresh[f] = disk.fresh[f]
    BY <2>1, <2>2, WriteFile
  <2>4. made' = made + 1
    BY <2>2, <2>3 DEF CreateOrOpen
  <2>5. 1..made' = 1..made \cup {made + 1}
    BY <2>4
  <2>6. CASE where = Main
    <3>1. disk.main.gen \notin 1..made
      BY <1>2, <2>6 DEF Home, NoDb, NewDb
    <3> QED
      BY <1>2, <2>2, <2>3, <2>4, <2>5, <2>6, <3>1 DEF Numbered, Home
  <2>7. CASE where # Main
    <3>1. where \notin DOMAIN disk.fresh /\ disk'.fresh[where] = db
      BY <1>2, <2>3, <2>7 DEF Home, At
    <3>2. Numbered'
      BY <2>2, <2>3, <2>4, <2>5, <2>7, <3>1 DEF Numbered
    <3> QED
      BY <1>2, <2>3, <2>4, <2>7, <3>2
  <2> QED
    BY <2>6, <2>7
<1> QED
  BY <1>1, <1>2

\* A file that moves aside takes the place of no other.
LEMMA MoveFile ==
  ASSUME DiskType, Numbered, IsFiniteSet(DOMAIN disk.aside), NEW stamp \in Stamp, made \in Nat,
         disk' = MoveAside(disk, stamp), UNCHANGED made, DesktopAssumption
  PROVE  /\ DiskType' /\ Numbered' /\ IsFiniteSet(DOMAIN disk'.aside)
         /\ disk'.main = NoDb /\ disk'.fresh = disk.fresh
<1>n. NoDb \in Db
  BY DEF DesktopAssumption, DefaultSettings, Settings, Switch, Db, NewDb, NoDb, Damage
<1>1. CASE disk.main = NoDb
  <2>1. disk' = [disk EXCEPT !.main = NoDb, !.aside = disk.aside]
    BY <1>1 DEF MoveAside
  <2>2. disk'.main = disk.main /\ disk'.aside = disk.aside /\ disk'.fresh = disk.fresh
        /\ DOMAIN disk' = DOMAIN disk
    BY <1>1, <2>1 DEF DiskType
  <2> QED
    BY <1>1, <2>2 DEF DiskType, Numbered
<1>2. CASE disk.main # NoDb
  <2> DEFINE name == UniqueBackupDest(disk.aside, stamp)
  <2>1. name \in Stamp \X Nat /\ name \notin DOMAIN disk.aside
    BY BackupNameFree
  <2>2. disk' = [disk EXCEPT !.main = NoDb, !.aside = Put(disk.aside, name, disk.main)]
    BY <1>2 DEF MoveAside
  <2> HIDE DEF name
  <2>3. /\ disk'.main = NoDb /\ disk'.aside = Put(disk.aside, name, disk.main)
        /\ disk'.fresh = disk.fresh /\ DOMAIN disk' = DOMAIN disk
    BY <2>2 DEF DiskType
  <2>4. /\ DOMAIN disk'.aside = DOMAIN disk.aside \cup {name}
        /\ disk'.aside[name] = disk.main
        /\ \A f \in DOMAIN disk.aside : disk'.aside[f] = disk.aside[f]
    BY <2>1, <2>3 DEF Put
  <2>5. IsFiniteSet(DOMAIN disk'.aside)
    BY <2>4, FS_AddElement
  <2>6. DiskType'
    BY <1>n, <2>1, <2>3, <2>4 DEF DiskType
  <2>7. Numbered'
    BY <1>2, <2>3, <2>4 DEF Numbered
  <2> QED
    BY <2>3, <2>5, <2>6, <2>7
<1> QED
  BY <1>1, <1>2

-----------------------------------------------------------------------------
(* The logs *)

\* Every step by what it does to the logs.
LEMMA LogSteps ==
  ASSUME [Next]_vars, app \in Process
  PROVE  \/ UNCHANGED logs /\ (app.stage = "sidecars" => app'.stage = "sidecars")
         \/ logs' = Followed(logs) \/ logs' = Torn(logs)
         \/ logs' = Overwritten(logs) /\ app.stage # "sidecars"
         \/ logs' = Behind(logs, disk.main.gen) /\ app.stage = "moving" /\ app'.stage = "sidecars"
<1>1. CASE End
  BY <1>1 DEF End
<1>2. CASE LaunchStep /\ ~End
  <2>1. CASE Open
    BY <2>1 DEF Open, CreateOrOpen
  <2>2. CASE CreateFresh
    BY <2>2 DEF CreateFresh, CreateOrOpen
  <2>3. CASE MoveSidecars
    BY <2>3 DEF MoveSidecars
  <2>4. CASE SettleBlind \/ Settle \/ Show
    BY <2>4 DEF SettleBlind, Settle, Show
  <2>5. CASE \E cause \in Damage \cup {"locked"} : OpenFails(cause)
    BY <1>2, <2>5 DEF OpenFails
  <2>6. CASE \E stamp \in Stamp : MoveDbAside(stamp)
    BY <2>6 DEF MoveDbAside, Process
  <2>7. ~CreateFreshFails
    BY <1>2 DEF CreateFreshFails
  <2> QED
    BY <1>2, <2>1, <2>2, <2>3, <2>4, <2>5, <2>6, <2>7 DEF LaunchStep
<1>3. CASE \E auto \in BOOLEAN : Launch(auto)
  BY <1>3 DEF Launch
<1>4. CASE SecondLaunch \/ ShowFromTray \/ CloseToTray
  BY <1>4 DEF SecondLaunch, ShowFromTray, RaiseMainWindow, CloseToTray
<1>5. CASE CloseAndExit \/ Quit \/ InstallUpdate \/ Crash
  BY <1>1, <1>5 DEF CloseAndExit, Quit, InstallUpdate, Crash
<1>6. CASE \E s \in Saver : SaveStep(s)
  <2>1. CASE \E s \in Saver : ReconcileLive(s)
    <3> PICK s \in Saver : ReconcileLive(s)
      BY <2>1
    <3>1. \E blind \in BOOLEAN : LET engine == Resolve(IF blind THEN NoPath ELSE Stored.path)
                                    git == Reconciliation(save[s].request.path # save[s].previous.path, blind, engine)
                                IN app' = [app EXCEPT !.close = CloseFlag(s, git = "RejectUnavailable"),
                                                      !.engine = IF git \in {"Swapped", "SwappedBlind"} THEN engine ELSE @]
      BY DEF ReconcileLive
    <3>2. UNCHANGED logs
      BY DEF ReconcileLive
    <3> QED
      BY <3>1, <3>2 DEF Process
  <2>2. CASE \E s \in Saver : Begin(s) \/ Refuse(s) \/ Actuate(s) \/ Persist(s) \/ PersistFails(s) \/ Finish(s)
    BY <2>2 DEF Begin, Refuse, Actuate, Persist, PersistFails, Finish
  <2> QED
    BY <1>6, <2>1, <2>2 DEF SaveStep
<1>7. CASE \E s \in Saver, request \in Request : SaveSettings(s, request)
  BY <1>7 DEF SaveSettings
<1>8. CASE \/ ToggleRegistration \/ (\E exe \in (Path \cup {"system"}) \ {NoPath} : InstallGit(exe))
           \/ (\E damage \in Damage \ {"none"} : DamageFile(damage)) \/ UNCHANGED vars
  BY <1>8 DEF ToggleRegistration, InstallGit, DamageFile, vars
<1> QED
  BY <1>1, <1>2, <1>3, <1>4, <1>5, <1>6, <1>7, <1>8 DEF Next

\* What is not beside its database is on record, from the moment the recovery goes on.
LEMMA LogKeeps ==
  ASSUME IInv, [Next]_vars
  PROVE  LogType' /\ LogsKept'
<1>1. app \in Process /\ LogType /\ LogsKept /\ disk.main.gen \in Nat
  BY DEF IInv, TypeOK, Db
<1>2. CASE UNCHANGED logs /\ (app.stage = "sidecars" => app'.stage = "sidecars")
  BY <1>1, <1>2 DEF LogType, LogsKept
<1>3. ASSUME NEW log \in Log, logs' = Relocated(logs, log), log.at = "beside" \/ log.torn = TRUE
      PROVE  LogType' /\ LogsKept'
  <2>1. /\ DOMAIN logs' = DOMAIN logs
        /\ \A g \in DOMAIN logs : logs'[g] = IF logs[g].at = "behind" THEN log ELSE logs[g]
    BY <1>3 DEF Relocated, LeftBehind
  <2>2. LogType'
    BY <1>1, <2>1 DEF LogType
  <2>3. ASSUME NEW g \in DOMAIN logs PROVE logs'[g].at = "beside" \/ logs'[g].torn
    <3>1. CASE logs[g].at = "behind"
      BY <1>3, <2>1, <3>1
    <3>2. CASE logs[g].at # "behind"
      BY <1>1, <2>1, <3>2 DEF LogsKept
    <3> QED
      BY <3>1, <3>2
  <2> QED
    BY <2>1, <2>2, <2>3 DEF LogsKept
<1>4. CASE logs' = Overwritten(logs) /\ app.stage # "sidecars"
  <2>1. /\ DOMAIN logs' = DOMAIN logs
        /\ \A g \in DOMAIN logs : logs'[g] = IF logs[g].at = "behind" THEN [logs[g] EXCEPT !.at = "gone"] ELSE logs[g]
    BY <1>4 DEF Overwritten, LeftBehind
  <2>2. \A g \in DOMAIN logs : [logs[g] EXCEPT !.at = "gone"] \in Log /\ [logs[g] EXCEPT !.at = "gone"].torn = logs[g].torn
    BY <1>1 DEF LogType, Log
  <2>3. LogType'
    BY <1>1, <2>1, <2>2 DEF LogType
  <2>4. ASSUME NEW g \in DOMAIN logs PROVE logs'[g].at = "beside" \/ logs'[g].torn
    <3>1. CASE logs[g].at = "behind"
      <4>1. logs[g].torn
        BY <1>1, <1>4, <3>1 DEF LogsKept
      <4> QED
        BY <2>1, <2>2, <3>1, <4>1
    <3>2. CASE logs[g].at # "behind"
      BY <1>1, <2>1, <3>2 DEF LogsKept
    <3> QED
      BY <3>1, <3>2
  <2> QED
    BY <2>1, <2>3, <2>4 DEF LogsKept
<1>5. CASE logs' = Behind(logs, disk.main.gen) /\ app.stage = "moving" /\ app'.stage = "sidecars"
  BY <1>1, <1>5 DEF Behind, Log, LogType, LogsKept
<1>6. CASE logs' = Followed(logs) \/ logs' = Torn(logs)
  <2>1. Beside \in Log /\ Beside.at = "beside"
    BY DEF Beside, Log
  <2>2. [at |-> "behind", torn |-> TRUE] \in Log
    BY DEF Log
  <2> QED
    BY <1>3, <1>6, <2>1, <2>2 DEF Followed, Torn
<1> QED
  BY <1>1, <1>2, <1>4, <1>5, <1>6, LogSteps

-----------------------------------------------------------------------------
(* The start and the end of a process.  What becomes of the logs is settled by LogKeeps; the
   lemmas of the steps take it as given. *)

LeftType == left \in [saves : 0..MaxSaves, faults : 0..MaxFaults, outside : 0..MaxOutside]

\* A process that is off, and a save that is not running, have their types.
LEMMA NothingRuns ==
  ASSUME DesktopAssumption
  PROVE  Off \in Process /\ NoSave \in Save /\ NoGit \in [path : Path, exe : Path \cup {"system"}]
         /\ DefaultSettings \in Settings /\ NoDb \in Db
<1>1. NoPath \in Path /\ MaxLockRetries \in Nat /\ "none" = NoPath
  BY DEF DesktopAssumption, NoPath
<1>2. NoGit \in [path : Path, exe : Path \cup {"system"}]
  BY <1>1 DEF NoGit
<1>3. DefaultSettings \in Settings
  BY <1>1 DEF DefaultSettings, Settings, Switch
<1>4. NoDb \in Db
  BY <1>3 DEF Db, NewDb, NoDb, Damage
<1>5. Off \in Process
  BY <1>1, <1>2 DEF Off, Process
<1>6. NoActuation \in Actuation /\ Unknown \in Reading
  BY DEF NoActuation, Actuation, Reading, Switch
<1>7. NoSave \in Save
  BY <1>3, <1>6 DEF NoSave, Save, Switch, GitReconcile
<1> QED
  BY <1>2, <1>3, <1>4, <1>5, <1>7

LEMMA InitInv == Init => IInv
<1> SUFFICES ASSUME Init PROVE IInv
  OBVIOUS
<1> USE DesktopAssumption
<1>1. DiskType /\ IsFiniteSet(DOMAIN disk.aside) /\ Numbered
  <2>1. disk.aside = << >> /\ disk.fresh = << >> /\ disk.main = NoDb
        /\ DOMAIN disk = {"main", "aside", "fresh"} /\ made = 0
    BY DEF Init
  <2>2. DOMAIN disk.aside = {} /\ DOMAIN disk.fresh = {}
    BY <2>1
  <2> QED
    BY <2>1, <2>2, NothingRuns, FS_EmptySet DEF DiskType, Numbered
<1>2. app = Off /\ \A s \in Saver : save[s] = NoSave /\ save[s].stage = "idle"
  BY DEF Init, NoSave
<1>l. LogType /\ LogsKept
  <2>1. logs = << >>
    BY DEF Init
  <2> QED
    BY <2>1 DEF LogType, LogsKept
<1>3. TypeOK
  <2>1. LeftType
    BY DEF Init, LeftType, DesktopAssumption
  <2>2. runnable \subseteq (Path \cup {"system"}) \ {NoPath}
    BY DEF Init, DesktopAssumption, NoPath
  <2> QED
    BY <1>1, <1>2, <1>l, <2>1, <2>2, NothingRuns DEF Init, TypeOK, DiskType, LeftType, Switch, Subject
<1>4. FileInv
  BY <1>1, <1>2 DEF FileInv, Up, Off
<1>5. ResetInv /\ WindowInv /\ LockInv
  BY <1>2 DEF Init, ResetInv, WindowInv, LockInv, Up, Off
<1>6. SaveInv
  BY <1>2 DEF SaveInv, Shown, Off
<1> QED
  BY <1>l, <1>3, <1>4, <1>5, <1>6 DEF IInv

\* However a process ends, the next one finds what the invariant promises.
LEMMA EndKeeps ==
  ASSUME IInv, LogType', LogsKept', End, UNCHANGED <<disk, os, runnable, made>>, LeftType'
  PROVE  IInv'
<1> USE DesktopAssumption DEF IInv
<1>1. app' = Off /\ \A s \in Saver : save'[s] = NoSave /\ save'[s].stage = "idle"
  BY DEF End, NoSave
<1>2. seen' \in 0..made'
  <2>1. CASE app.stage = "running"
    <3>1. At(disk, app.db).gen \in 1..made
      BY <2>1, HomeGen DEF FileInv, TypeOK, Up, Process
    <3> QED
      BY <2>1, <3>1 DEF End, TypeOK
  <2>2. CASE app.stage # "running"
    BY <2>2 DEF End, TypeOK
  <2> QED
    BY <2>1, <2>2
<1>e. excused' \subseteq Subject
  <2>1. CASE app.stage = "running"
    <3> DEFINE add == Iff(\E s \in Saver : save[s].stage = "actuated", "autostart")
    <3>1. excused' = (excused \ {"reset"}) \cup add
      BY <2>1 DEF End, Excuse
    <3>2. add \subseteq Subject
      BY DEF Iff, Subject
    <3> HIDE DEF add
    <3> QED
      BY <3>1, <3>2 DEF TypeOK
  <2>2. CASE app.stage # "running"
    <3> DEFINE add == Iff((app.stage \in {"sidecars", "creating"} /\ app.db = Main) \/ app.recovered, "reset")
    <3>1. excused' = (excused \ {}) \cup add
      BY <2>2 DEF End, Excuse
    <3>2. add \subseteq Subject
      BY DEF Iff, Subject
    <3> HIDE DEF add
    <3> QED
      BY <3>1, <3>2 DEF TypeOK
  <2> QED
    BY <2>1, <2>2
<1>3. TypeOK'
  <2>1. save' \in [Saver -> Save] /\ app' \in Process
    BY <1>1, NothingRuns DEF End
  <2>2. lock' = "free"
    BY DEF End
  <2> QED
    BY <1>1, <1>2, <1>e, <2>1, <2>2 DEF TypeOK, LeftType
<1>4. FileInv'
  <2>1. app'.stage = "off" /\ app'.db = Main /\ app'.recovered = FALSE
    BY <1>1 DEF Off
  <2> QED
    BY <2>1 DEF FileInv, Up, DiskType, Numbered
<1>5. ResetInv'
  <2>0. app'.stage = "off"
    BY <1>1 DEF Off
  <2>1. CASE app.stage = "running"
    BY <2>0, <2>1 DEF End, ResetInv, FileInv, Up, At
  <2>2. CASE app.stage \in {"launching", "showing"}
    <3>1. seen' = seen /\ excused \subseteq excused' /\ (app.recovered => "reset" \in excused')
      BY <2>2 DEF End, Excuse, Iff
    <3> QED
      BY <2>0, <2>2, <3>1 DEF ResetInv, FileInv, Up, At
  <2>3. CASE app.stage \in {"sidecars", "creating"}
    <3>1. seen' = seen /\ (app.db = Main => "reset" \in excused')
      BY <2>3 DEF End, Excuse, Iff
    <3> QED
      BY <2>0, <2>3, <3>1 DEF ResetInv, FileInv, Up
  <2>4. CASE app.stage \in {"off", "opening", "moving"}
    <3>1. seen' = seen /\ excused \subseteq excused'
      BY <2>4 DEF End, Excuse, Iff
    <3> QED
      BY <2>0, <2>4, <3>1 DEF ResetInv, FileInv, Up
  <2> QED
    BY <2>1, <2>2, <2>3, <2>4 DEF TypeOK, Process, Launching
<1>6. WindowInv' /\ LockInv' /\ SaveInv'
  <2>1. app'.stage = "off"
    BY <1>1 DEF Off
  <2> QED
    BY <1>1, <2>1 DEF WindowInv, LockInv, SaveInv, Shown
<1> QED
  BY <1>3, <1>4, <1>5, <1>6

\* What the bounds leave.
LEMMA LeftKeeps ==
  ASSUME TypeOK
  PROVE  LeftType /\ (UNCHANGED left => LeftType') /\ \A n \in Nat : Failing(n) => LeftType'
<1>1. LeftType
  BY DEF TypeOK, LeftType
<1>2. UNCHANGED left => LeftType'
  BY <1>1 DEF LeftType
<1>3. ASSUME NEW n \in Nat, Failing(n) PROVE LeftType'
  BY <1>1, <1>3, DesktopAssumption DEF LeftType, Failing
<1> QED
  BY <1>1, <1>2, <1>3

-----------------------------------------------------------------------------
(* Launch *)

LEMMA LaunchKeeps ==
  ASSUME IInv, LogType', LogsKept', NEW auto \in BOOLEAN, Launch(auto)
  PROVE  IInv'
<1> USE DesktopAssumption DEF IInv
<1>1. app' = [Off EXCEPT !.stage = "opening", !.auto = auto] /\ app.stage = "off"
      /\ UNCHANGED <<disk, os, runnable, save, lock, left, made, seen, excused>>
  BY DEF Launch
<1>2. app' \in Process /\ app'.stage = "opening" /\ app'.db = Main /\ app'.recovered = FALSE
  BY <1>1, NothingRuns DEF Process, Off, Launching
<1>3. TypeOK'
  BY <1>1, <1>2 DEF TypeOK
<1>4. FileInv' /\ ResetInv'
  BY <1>1, <1>2 DEF FileInv, ResetInv, Up, DiskType, Numbered, Home
<1>5. WindowInv' /\ LockInv' /\ SaveInv'
  BY <1>1, <1>2 DEF WindowInv, LockInv, SaveInv, Shown
<1> QED
  BY <1>3, <1>4, <1>5

LEMMA OpenKeeps ==
  ASSUME IInv, LogType', LogsKept', Open
  PROVE  IInv'
<1> USE DesktopAssumption DEF IInv
<1>1. app' = [app EXCEPT !.stage = "launching", !.tries = 0] /\ app.stage = "opening"
      /\ disk.main.damage = "none" /\ CreateOrOpen(Main)
      /\ UNCHANGED <<os, runnable, save, lock, left, seen, excused>>
  BY DEF Open
<1>2. app' \in Process /\ app'.stage = "launching" /\ app'.db = Main /\ app'.recovered = FALSE
  <2>1. 0 \in 0..MaxLockRetries
    BY DEF DesktopAssumption
  <2>2. app.db = Main /\ ~app.recovered
    BY <1>1 DEF FileInv, Up
  <2> QED
    BY <1>1, <2>1, <2>2 DEF TypeOK, Process, Launching
<1>3. /\ DiskType' /\ Numbered' /\ Home(Main)' /\ made' \in Nat /\ made <= made'
      /\ disk'.aside = disk.aside
      /\ Home(Main) => disk' = disk /\ made' = made
  BY <1>1, OpenFile DEF FileInv, TypeOK
<1>4. TypeOK'
  BY <1>1, <1>2, <1>3 DEF TypeOK, DiskType
<1>5. FileInv'
  BY <1>2, <1>3 DEF FileInv, Up
<1>6. ResetInv'
  <2>1. CASE Home(Main)
    BY <1>1, <1>2, <1>3, <2>1 DEF ResetInv, Up, At
  <2>2. CASE ~Home(Main)
    <3>1. disk.main.gen = 0 /\ disk.main.damage = "none"
      BY <2>2 DEF Home, NoDb, NewDb
    <3> QED
      BY <1>1, <1>2, <3>1 DEF ResetInv, Up
  <2> QED
    BY <2>1, <2>2
<1>7. WindowInv' /\ LockInv' /\ SaveInv'
  BY <1>1, <1>2 DEF WindowInv, LockInv, SaveInv, Shown
<1> QED
  BY <1>4, <1>5, <1>6, <1>7

LEMMA OpenFailsKeeps ==
  ASSUME IInv, LogType', LogsKept', NEW cause \in Damage \cup {"locked"}, OpenFails(cause)
  PROVE  IInv'
<1> USE DesktopAssumption DEF IInv
<1>1. app.stage = "opening" /\ UNCHANGED <<disk, os, runnable, made>>
  BY DEF OpenFails
<1>2. LeftType'
  <2>1. Count(cause = "locked") \in Nat /\ Failing(Count(cause = "locked"))
    BY DEF OpenFails, Count
  <2> QED
    BY <2>1, LeftKeeps
<1>3. CASE End
  BY <1>1, <1>2, <1>3, EndKeeps
<1>4. CASE /\ app' \in {[app EXCEPT !.stage = "moving"], [app EXCEPT !.tries = app.tries + 1]}
           /\ app'.stage = "moving" => disk.main.damage = "corrupt"
           /\ app' \in Process /\ UNCHANGED <<save, lock, seen, excused>>
  <2>1. app'.stage \in {"opening", "moving"} /\ app'.db = app.db /\ app'.recovered = app.recovered
    BY <1>1, <1>4 DEF TypeOK, Process
  <2>2. TypeOK'
    BY <1>1, <1>2, <1>4 DEF TypeOK, LeftType
  <2>3. FileInv' /\ ResetInv'
    BY <1>1, <1>4, <2>1 DEF FileInv, ResetInv, Up, DiskType, Numbered, Home
  <2>4. WindowInv' /\ LockInv' /\ SaveInv'
    BY <1>1, <1>4, <2>1 DEF WindowInv, LockInv, SaveInv, Shown
  <2> QED
    BY <2>2, <2>3, <2>4
<1>5. CASE app' = [app EXCEPT !.stage = "moving"] /\ ClassifyInitFailure(cause) = "Corrupt"
           /\ UNCHANGED <<save, lock, seen, excused>>
  <2>1. cause = "corrupt"
    BY <1>5 DEF ClassifyInitFailure, Damage
  <2>2. disk.main.damage = "corrupt"
    BY <2>1 DEF OpenFails
  <2>3. app' \in Process
    BY <1>5 DEF TypeOK, Process, Launching
  <2> QED
    BY <1>4, <1>5, <2>2, <2>3
<1>6. CASE app' = [app EXCEPT !.tries = @ + 1] /\ app.tries < MaxLockRetries
           /\ UNCHANGED <<save, lock, seen, excused>>
  <2>1. app' \in Process /\ app'.stage = "opening"
    BY <1>1, <1>6 DEF TypeOK, Process
  <2> QED
    BY <1>4, <1>6, <2>1
<1> QED
  BY <1>3, <1>5, <1>6 DEF OpenFails

LEMMA MoveKeeps ==
  ASSUME IInv, LogType', LogsKept', NEW stamp \in Stamp, MoveDbAside(stamp)
  PROVE  IInv'
<1> USE DesktopAssumption DEF IInv
<1>1. app.stage = "moving" /\ UNCHANGED <<os, runnable, save, lock, made, seen, excused>>
      /\ app.db = Main /\ app.recovered = FALSE /\ disk.main.damage = "corrupt"
  BY DEF MoveDbAside, FileInv, Up, TypeOK, Process
<1>2. LeftType'
  BY LeftKeeps DEF MoveDbAside
<1>3. CASE disk' = MoveAside(disk, stamp) /\ app' = [app EXCEPT !.stage = "sidecars"]
  <2>1. app' \in Process /\ app'.stage = "sidecars" /\ app'.db = Main /\ app'.recovered = FALSE
    BY <1>1, <1>3 DEF TypeOK, Process, Launching
  <2>2. /\ DiskType' /\ Numbered' /\ IsFiniteSet(DOMAIN disk'.aside)
        /\ disk'.main = NoDb /\ disk'.fresh = disk.fresh
    BY <1>1, <1>3, MoveFile DEF FileInv, TypeOK
  <2>3. TypeOK'
    BY <1>1, <1>2, <2>1, <2>2 DEF TypeOK, DiskType, LeftType
  <2>4. FileInv' /\ ResetInv'
    BY <2>1, <2>2 DEF FileInv, ResetInv, Up
  <2>5. WindowInv' /\ LockInv' /\ SaveInv'
    BY <1>1, <2>1 DEF WindowInv, LockInv, SaveInv, Shown
  <2> QED
    BY <2>3, <2>4, <2>5
<1>4. CASE UNCHANGED disk /\ app' = [app EXCEPT !.stage = "creating", !.db = stamp]
  <2>1. app' \in Process /\ app'.stage = "creating" /\ app'.db = stamp /\ app'.recovered = FALSE
    BY <1>1, <1>4 DEF TypeOK, Process, Launching
  <2>2. TypeOK'
    BY <1>1, <1>2, <1>4, <2>1 DEF TypeOK, LeftType
  <2>3. FileInv' /\ ResetInv'
    BY <1>1, <1>4, <2>1 DEF FileInv, ResetInv, Up, DiskType, Numbered
  <2>4. WindowInv' /\ LockInv' /\ SaveInv'
    BY <1>1, <2>1 DEF WindowInv, LockInv, SaveInv, Shown
  <2> QED
    BY <2>2, <2>3, <2>4
<1> QED
  BY <1>3, <1>4 DEF MoveDbAside

LEMMA SidecarsKeeps ==
  ASSUME IInv, LogType', LogsKept', MoveSidecars
  PROVE  IInv'
<1> USE DesktopAssumption DEF IInv
<1>1. app.stage = "sidecars" /\ UNCHANGED <<disk, os, runnable, save, lock, made, seen, excused>>
      /\ app' = [app EXCEPT !.stage = "creating"]
  BY DEF MoveSidecars
<1>2. LeftType'
  BY LeftKeeps DEF MoveSidecars
<1>3. app' \in Process /\ app'.stage = "creating" /\ app'.db = app.db /\ app'.recovered = app.recovered
  BY <1>1 DEF TypeOK, Process, Launching
<1>4. TypeOK'
  BY <1>1, <1>2, <1>3 DEF TypeOK, LeftType
<1>5. FileInv' /\ ResetInv'
  BY <1>1, <1>3 DEF FileInv, ResetInv, Up, DiskType, Numbered
<1>6. WindowInv' /\ LockInv' /\ SaveInv'
  BY <1>1, <1>3 DEF WindowInv, LockInv, SaveInv, Shown
<1> QED
  BY <1>4, <1>5, <1>6

LEMMA CreateKeeps ==
  ASSUME IInv, LogType', LogsKept', CreateFresh
  PROVE  IInv'
<1> USE DesktopAssumption DEF IInv
<1>1. app' = [app EXCEPT !.stage = "launching", !.recovered = TRUE] /\ app.stage = "creating"
      /\ CreateOrOpen(app.db) /\ UNCHANGED <<os, runnable, save, lock, left, seen, excused>>
  BY DEF CreateFresh, Recovered
<1>2. app' \in Process /\ app'.stage = "launching" /\ app'.db = app.db /\ app'.recovered = TRUE
      /\ app.db \in {Main} \cup Stamp
  BY <1>1 DEF TypeOK, Process, Launching
<1>3. /\ DiskType' /\ Numbered' /\ Home(app.db)' /\ made' \in Nat /\ made <= made'
      /\ disk'.aside = disk.aside
      /\ ~(app.db = Main /\ disk.main = NoDb) => disk'.main = disk.main
  BY <1>1, <1>2, OpenFile DEF FileInv, TypeOK
<1>4. TypeOK'
  BY <1>1, <1>2, <1>3 DEF TypeOK, DiskType
<1>5. FileInv'
  BY <1>2, <1>3 DEF FileInv, Up, Home
<1>6. ResetInv'
  BY <1>2 DEF ResetInv, Up
<1>7. WindowInv' /\ LockInv' /\ SaveInv'
  BY <1>1, <1>2 DEF WindowInv, LockInv, SaveInv, Shown
<1> QED
  BY <1>4, <1>5, <1>6, <1>7

LEMMA CreateFailsKeeps ==
  ASSUME IInv, LogType', LogsKept', CreateFreshFails
  PROVE  IInv'
<1>1. LeftType'
  BY LeftKeeps DEF CreateFreshFails, IInv
<1> QED
  BY <1>1, EndKeeps DEF CreateFreshFails

\* What a shell starts with, from settings.
LEMMA ShellIs ==
  ASSUME TypeOK, NEW settings \in Settings
  PROVE  /\ Shell(settings) \in Process /\ Shell(settings).stage = "showing"
         /\ Shell(settings).db = app.db /\ Shell(settings).recovered = app.recovered
         /\ Shell(settings).close = settings.close
         /\ Shell(settings).engine.path = settings.path \/ Shell(settings).engine = NoGit
<1> DEFINE engine == Resolve(settings.path)
           chosen == IF Unavailable(engine) THEN NoGit ELSE engine
<1>1. chosen \in [path : Path, exe : Path \cup {"system"}] /\ (chosen.path = settings.path \/ chosen = NoGit)
  <2>1. settings.path \in Path /\ "none" \in Path
    BY DesktopAssumption DEF Settings, NoPath
  <2>2. engine \in [path : Path, exe : Path \cup {"system"}] /\ engine.path = settings.path
    BY <2>1 DEF Resolve
  <2> QED
    BY <2>2, NothingRuns, DesktopAssumption
<1>2. Shell(settings) = [app EXCEPT !.stage = "showing", !.close = settings.close, !.engine = chosen]
  BY DEF Shell
<1> HIDE DEF engine, chosen
<1>3. settings.close \in BOOLEAN
  BY DEF Settings
<1>4. [app EXCEPT !.stage = "showing", !.close = settings.close, !.engine = chosen] \in Process
  <2>1. app \in Process
    BY DEF TypeOK
  <2> QED
    BY <1>1, <1>3, <2>1 DEF Process, Launching
<1>5. /\ Shell(settings).stage = "showing" /\ Shell(settings).engine = chosen
      /\ Shell(settings).db = app.db /\ Shell(settings).recovered = app.recovered
      /\ Shell(settings).close = settings.close
  BY <1>2 DEF TypeOK, Process
<1> QED
  BY <1>1, <1>2, <1>4, <1>5

LEMMA SettleBlindKeeps ==
  ASSUME IInv, LogType', LogsKept', SettleBlind
  PROVE  IInv'
<1> USE DesktopAssumption DEF IInv
<1>1. app.stage = "launching" /\ app' = Shell(DefaultSettings)
      /\ excused' = (excused \ {}) \cup {"autostart", "close", "engine"}
      /\ UNCHANGED <<disk, os, runnable, save, lock, made, seen>>
  BY DEF SettleBlind, Excuse
<1>2. app' \in Process /\ app'.stage = "showing" /\ app'.db = app.db /\ app'.recovered = app.recovered
  BY <1>1, ShellIs, NothingRuns
<1>3. LeftType'
  BY LeftKeeps DEF SettleBlind
<1>4. TypeOK'
  BY <1>1, <1>2, <1>3 DEF TypeOK, LeftType, Subject
<1>5. FileInv' /\ ResetInv'
  BY <1>1, <1>2 DEF FileInv, ResetInv, Up, DiskType, Numbered, Home
<1>6. WindowInv' /\ LockInv'
  BY <1>1, <1>2 DEF WindowInv, LockInv
<1>7. SaveInv'
  BY <1>1, <1>2 DEF SaveInv, LockInv, HonestOs, LiveEngine
<1> QED
  BY <1>4, <1>5, <1>6, <1>7

LEMMA SettleKeeps ==
  ASSUME IInv, LogType', LogsKept', Settle
  PROVE  IInv'
<1> USE DesktopAssumption DEF IInv
<1>1. app.stage = "launching" /\ app' = Shell(Stored) /\ UNCHANGED <<os, runnable, save, lock, made, seen>>
  BY DEF Settle
<1>2. PICK reading \in {os, Unknown}, wrote \in BOOLEAN :
        LET adopted == Adopted(reading, Stored.autostart)
        IN /\ adopted = Stored.autostart => wrote
           /\ Failing(Count(reading = Unknown) + Count(~wrote))
           /\ IF wrote THEN Store([Stored EXCEPT !.autostart = adopted]) ELSE UNCHANGED disk
           /\ Excuse(Iff(reading = Unknown \/ ~wrote, "autostart"), {"autostart", "close", "engine"})
  BY DEF Settle
<1> DEFINE adopted == Adopted(reading, Stored.autostart)
           settled == [Stored EXCEPT !.autostart = adopted]
<1>3. Home(app.db) /\ app.db \in {Main} \cup Stamp /\ Stored \in Settings
  BY <1>1, HomeGen DEF FileInv, Up, TypeOK, Process, Stored, Db
<1>4. settled \in Settings /\ settled.close = Stored.close /\ settled.path = Stored.path /\ settled.autostart = adopted
  BY <1>3 DEF Settings, Adopted, TypeOK
<1>5. app' \in Process /\ app'.stage = "showing" /\ app'.db = app.db /\ app'.recovered = app.recovered
      /\ app'.close = Stored.close /\ (app'.engine.path = Stored.path \/ app'.engine = NoGit)
  BY <1>1, <1>3, ShellIs
<1>6. LeftType'
  <2>1. Count(reading = Unknown) + Count(~wrote) \in Nat
    BY DEF Count
  <2> QED
    BY <1>2, <2>1, LeftKeeps
<1>7. /\ DiskType' /\ Numbered' /\ Home(app.db)' /\ disk'.aside = disk.aside
      /\ At(disk', app.db).gen = At(disk, app.db).gen /\ disk'.main.damage = disk.main.damage
      /\ Stored' = IF wrote THEN settled ELSE Stored
  <2>1. CASE wrote
    <3>1. disk' = With(disk, app.db, [At(disk, app.db) EXCEPT !.settings = settled])
      BY <1>2, <2>1 DEF Store
    <3> QED
      BY <1>1, <1>3, <1>4, <1>5, <2>1, <3>1, StoreFile DEF FileInv, TypeOK, Stored
  <2>2. CASE ~wrote
    BY <1>1, <1>2, <1>3, <1>5, <2>2 DEF FileInv, DiskType, Numbered, Home, Stored
  <2> QED
    BY <2>1, <2>2
<1>8. excused' = (excused \ {"autostart", "close", "engine"}) \cup Iff(reading = Unknown \/ ~wrote, "autostart")
  BY <1>2 DEF Excuse
<1>9. TypeOK'
  <2>1. excused' \subseteq Subject
    BY <1>8 DEF TypeOK, Iff, Subject
  <2> QED
    BY <1>1, <1>5, <1>6, <1>7, <2>1 DEF TypeOK, LeftType, DiskType
<1>10. FileInv'
  BY <1>1, <1>5, <1>7 DEF FileInv, Up, Home
<1>11. ResetInv'
  <2>1. "reset" \in excused => "reset" \in excused'
    BY <1>8
  <2> QED
    BY <1>1, <1>5, <1>7, <2>1 DEF ResetInv, Up
<1>12. WindowInv' /\ LockInv'
  BY <1>1, <1>5 DEF WindowInv, LockInv
<1>13. SaveInv'
  <2>1. Stored'.close = Stored.close /\ Stored'.path = Stored.path
    BY <1>4, <1>7
  <2>2. Stored'.autostart = os' \/ "autostart" \in excused'
    <3>1. CASE reading = os /\ os # Unknown /\ wrote
      BY <1>1, <1>4, <1>7, <3>1 DEF Adopted
    <3>2. CASE reading = Unknown \/ ~wrote
      BY <1>8, <3>2 DEF Iff
    <3> QED
      BY <3>1, <3>2
  <2>3. \A s \in Saver : save'[s].stage = "idle"
    BY <1>1 DEF LockInv
  <2> QED
    BY <1>5, <2>1, <2>2, <2>3 DEF SaveInv, HonestOs, LiveEngine
<1> QED
  BY <1>9, <1>10, <1>11, <1>12, <1>13

LEMMA ShowKeeps ==
  ASSUME IInv, LogType', LogsKept', Show
  PROVE  IInv'
<1> USE DesktopAssumption DEF IInv
<1>1. app.stage = "showing" /\ UNCHANGED <<disk, os, runnable, save, lock, made, seen, excused>>
  BY DEF Show
<1>2. PICK tray \in BOOLEAN, obeys \in BOOLEAN :
         LET lifecycle == DecideWindowLifecycle(tray, app.auto)
         IN /\ Failing(Count(~tray) + Count(~obeys))
            /\ app' = [app EXCEPT !.stage = "running", !.auto = FALSE, !.tray = tray,
                         !.intercept = lifecycle.interceptClose,
                         !.visible = (obeys # lifecycle.startHidden),
                         !.showFailed = (~obeys /\ ~lifecycle.startHidden)]
  BY DEF Show
<1>3. LeftType'
  <2>1. Count(~tray) + Count(~obeys) \in Nat
    BY DEF Count
  <2> QED
    BY <1>2, <2>1, LeftKeeps
<1> DEFINE hidden == tray /\ app.auto
<1>4. app' = [app EXCEPT !.stage = "running", !.auto = FALSE, !.tray = tray, !.intercept = tray,
                         !.visible = (obeys # hidden), !.showFailed = (~obeys /\ ~hidden)]
  BY <1>2 DEF DecideWindowLifecycle
<1>5. hidden \in BOOLEAN /\ (hidden => tray)
  BY DEF TypeOK, Process
<1> HIDE DEF hidden
<1>6. /\ app'.stage = "running" /\ app'.db = app.db /\ app'.recovered = app.recovered
      /\ app'.close = app.close /\ app'.engine = app.engine
      /\ app'.tray = tray /\ app'.intercept = tray
      /\ app'.visible = (obeys # hidden) /\ app'.showFailed = (~obeys /\ ~hidden)
  BY <1>4 DEF TypeOK, Process
<1>7. app' \in Process
  <2> DEFINE visible == (obeys # hidden)
             showFailed == (~obeys /\ ~hidden)
  <2>1. visible \in BOOLEAN /\ showFailed \in BOOLEAN
    OBVIOUS
  <2>2. app' = [app EXCEPT !.stage = "running", !.auto = FALSE, !.tray = tray, !.intercept = tray,
                         !.visible = visible, !.showFailed = showFailed]
    BY <1>4
  <2> HIDE DEF visible, showFailed
  <2>3. app \in Process
    BY DEF TypeOK
  <2> DEFINE up == [app EXCEPT !.stage = "running", !.auto = FALSE, !.tray = tray, !.intercept = tray]
  <2>4. up \in Process
    BY <2>3 DEF Process
  <2>5. app' = [up EXCEPT !.visible = visible, !.showFailed = showFailed]
    BY <2>2, <2>3 DEF Process
  <2> HIDE DEF up
  <2> QED
    BY <2>1, <2>4, <2>5 DEF Process
<1>8. TypeOK'
  BY <1>1, <1>3, <1>7 DEF TypeOK, LeftType
<1>9. FileInv' /\ ResetInv'
  BY <1>1, <1>6 DEF FileInv, ResetInv, Up, DiskType, Numbered, Home
<1>10. WindowInv'
  BY <1>5, <1>6 DEF WindowInv
<1>11. LockInv'
  BY <1>1 DEF LockInv
<1>12. SaveInv'
  <2>1. \A s \in Saver : save[s].stage = "idle"
    BY <1>1 DEF LockInv
  <2>2. Stored' = Stored
    BY <1>1, <1>6 DEF Stored
  <2> QED
    BY <1>1, <1>6, <2>1, <2>2 DEF SaveInv, Shown, HonestOs, LiveEngine
<1> QED
  BY <1>8, <1>9, <1>10, <1>11, <1>12

-----------------------------------------------------------------------------
(* The window *)

\* A step that leaves the database files and the session alone.
LEMMA SameSession ==
  ASSUME IInv, UNCHANGED <<disk, made, seen>>,
         app'.stage = app.stage, app'.db = app.db, app'.recovered = app.recovered,
         "reset" \in excused => "reset" \in excused'
  PROVE  FileInv' /\ ResetInv' /\ Stored' = Stored
BY DEF IInv, FileInv, ResetInv, Up, DiskType, Numbered, Home, Stored

\* Only what is visible changes, and only to where it can be had back from.
LEMMA WindowKeeps ==
  ASSUME IInv, LogType', LogsKept', SecondLaunch \/ ShowFromTray \/ CloseToTray
  PROVE  IInv'
<1> USE DesktopAssumption DEF IInv
<1>1. UNCHANGED <<disk, os, runnable, save, lock, made, seen, excused>> /\ app.stage = "running"
  BY DEF SecondLaunch, ShowFromTray, RaiseMainWindow, CloseToTray
<1>2. LeftType'
  BY LeftKeeps DEF SecondLaunch, ShowFromTray, RaiseMainWindow, CloseToTray
<1>3. app \in Process
  BY DEF TypeOK
<1>4. app' \in {app, [app EXCEPT !.visible = TRUE, !.showFailed = FALSE], [app EXCEPT !.visible = FALSE]}
  BY DEF SecondLaunch, ShowFromTray, RaiseMainWindow, CloseToTray
<1>5. app' \in Process
  BY <1>3, <1>4 DEF Process
<1>6. /\ app'.stage = app.stage /\ app'.db = app.db /\ app'.recovered = app.recovered
      /\ app'.close = app.close /\ app'.engine = app.engine
      /\ app'.tray = app.tray /\ app'.intercept = app.intercept
  BY <1>3, <1>4 DEF Process
<1>7. TypeOK'
  BY <1>1, <1>2, <1>5 DEF TypeOK, LeftType
<1>8. FileInv' /\ ResetInv' /\ Stored' = Stored
  BY <1>1, <1>6, SameSession
<1>9. WindowInv'
  <2>1. CASE app' = app
    BY <2>1 DEF WindowInv
  <2>2. CASE app' = [app EXCEPT !.visible = TRUE, !.showFailed = FALSE]
    <3>1. app'.visible = TRUE
      BY <1>3, <2>2 DEF Process
    <3> QED
      BY <1>6, <3>1 DEF WindowInv
  <2>3. CASE CloseToTray
    <3>1. app.intercept
      BY <2>3 DEF CloseToTray
    <3> QED
      BY <1>1, <1>6, <3>1 DEF WindowInv
  <2> QED
    BY <2>1, <2>2, <2>3 DEF SecondLaunch, ShowFromTray, RaiseMainWindow
<1>10. LockInv' /\ SaveInv'
  BY <1>1, <1>6, <1>8 DEF LockInv, SaveInv, Shown, HonestOs, LiveEngine, Blind, Engaged
<1> QED
  BY <1>7, <1>8, <1>9, <1>10

LEMMA LeavesKeeps ==
  ASSUME IInv, LogType', LogsKept', CloseAndExit \/ Quit \/ InstallUpdate \/ Crash
  PROVE  IInv'
<1>1. LeftType'
  BY LeftKeeps DEF CloseAndExit, Quit, InstallUpdate, Crash, IInv
<1> QED
  BY <1>1, EndKeeps DEF CloseAndExit, Quit, InstallUpdate, Crash

-----------------------------------------------------------------------------
(* A save *)

LEMMA CallKeeps ==
  ASSUME IInv, LogType', LogsKept', NEW s \in Saver, NEW request \in Request, SaveSettings(s, request)
  PROVE  IInv'
<1> USE DesktopAssumption DEF IInv
<1>1. UNCHANGED <<disk, os, runnable, app, lock, made, seen, excused>> /\ app.stage = "running"
      /\ save[s].stage = "idle"
      /\ save' = [save EXCEPT ![s] = [NoSave EXCEPT !.stage = "waiting", !.request = request]]
  BY DEF SaveSettings
<1>2. LeftType'
  BY DEF SaveSettings, TypeOK, LeftType, DesktopAssumption
<1>3. [NoSave EXCEPT !.stage = "waiting", !.request = request] \in Save
  BY NothingRuns DEF Save, DesktopAssumption
<1>4. save' \in [Saver -> Save] /\ save'[s].stage = "waiting" /\ \A q \in Saver : q # s => save'[q] = save[q]
  BY <1>1, <1>3 DEF TypeOK, NoSave
<1>5. TypeOK'
  BY <1>1, <1>2, <1>4 DEF TypeOK, LeftType
<1>6. FileInv' /\ ResetInv' /\ Stored' = Stored
  BY <1>1, SameSession
<1>7. WindowInv' /\ LockInv'
  BY <1>1, <1>4 DEF WindowInv, LockInv
<1>8. SaveInv'
  BY <1>1, <1>4, <1>6 DEF SaveInv, Shown, HonestOs, LiveEngine, Blind, Engaged
<1> QED
  BY <1>5, <1>6, <1>7, <1>8

\* While one save is past the lock, the others wait.
LEMMA OthersWait ==
  ASSUME LockInv, NEW s \in Saver, save[s].stage \notin {"idle", "waiting"}
  PROVE  lock = s /\ app.stage = "running" /\ \A q \in Saver \ {s} : save[q].stage \in {"idle", "waiting"}
BY DEF LockInv

LEMMA BeginKeeps ==
  ASSUME IInv, LogType', LogsKept', NEW s \in Saver, Begin(s)
  PROVE  IInv'
<1> USE DesktopAssumption DEF IInv
<1>1. UNCHANGED <<disk, os, runnable, app, left, made, seen, excused>> /\ lock = "free" /\ lock' = s
      /\ save[s].stage = "waiting" /\ app.stage = "running"
      /\ save' = [save EXCEPT ![s].stage = "read", ![s].previous = Stored]
  BY DEF Begin, LockFree, LockInv
<1>2. \A q \in Saver : save[q].stage \in {"idle", "waiting"}
  BY <1>1 DEF TypeOK
<1>3. Stored \in Settings
  BY <1>1, HomeGen DEF FileInv, Up, TypeOK, Process, Stored, Db
<1>4. save' \in [Saver -> Save] /\ save'[s].stage = "read" /\ save'[s].previous = Stored
      /\ \A q \in Saver : q # s => save'[q] = save[q]
  <2> DEFINE new == [save[s] EXCEPT !.stage = "read", !.previous = Stored]
  <2>1. save[s] \in Save
    BY DEF TypeOK
  <2>2. new \in Save /\ new.stage = "read" /\ new.previous = Stored
    BY <1>3, <2>1 DEF Save
  <2>3. save' = [save EXCEPT ![s] = new]
    BY <1>1 DEF TypeOK
  <2> HIDE DEF new
  <2> QED
    BY <2>2, <2>3 DEF TypeOK
<1>5. TypeOK'
  <2>1. lock' # "free"
    BY <1>1 DEF DesktopAssumption
  <2> QED
    BY <1>1, <1>4, <2>1 DEF TypeOK
<1>6. FileInv' /\ ResetInv' /\ Stored' = Stored
  BY <1>1, SameSession
<1>7. WindowInv' /\ LockInv'
  BY <1>1, <1>2, <1>4 DEF WindowInv, LockInv
<1>8. SaveInv'
  BY <1>1, <1>2, <1>4, <1>6 DEF SaveInv, Shown, HonestOs, LiveEngine, Blind, Engaged
<1> QED
  BY <1>5, <1>6, <1>7, <1>8

\* The end of a save that holds the lock, or has it for an instant only.
LEMMA AnswerType ==
  ASSUME IInv, NEW s \in Saver, Answer(s), save[s].stage \notin {"idle", "waiting"} \/ lock = "free"
  PROVE  /\ save' \in [Saver -> Save] /\ save'[s].stage = "idle" /\ lock' = "free"
         /\ \A q \in Saver : q # s => save'[q] = save[q]
         /\ \A q \in Saver : save'[q].stage \in {"idle", "waiting"}
<1> USE DesktopAssumption DEF IInv
<1>1. /\ save' \in [Saver -> Save] /\ save'[s].stage = "idle" /\ lock' = "free"
      /\ \A q \in Saver : q # s => save'[q] = save[q]
  BY NothingRuns DEF Answer, TypeOK, NoSave
<1>2. \A q \in Saver \ {s} : save[q].stage \in {"idle", "waiting"}
  BY OthersWait DEF TypeOK
<1> QED
  BY <1>1, <1>2

LEMMA RefuseKeeps ==
  ASSUME IInv, LogType', LogsKept', NEW s \in Saver, Refuse(s) \/ Finish(s)
  PROVE  IInv'
<1> USE DesktopAssumption DEF IInv
<1>1. UNCHANGED <<disk, os, runnable, app, left, made, seen, excused>> /\ Answer(s)
      /\ (save[s].stage \notin {"idle", "waiting"} \/ lock = "free")
      /\ save[s].stage \in {"waiting", "reconciled"}
  BY DEF Refuse, Finish, LockFree
<1>2. /\ save' \in [Saver -> Save] /\ save'[s].stage = "idle" /\ lock' = "free"
      /\ \A q \in Saver : q # s => save'[q] = save[q]
      /\ \A q \in Saver : save'[q].stage \in {"idle", "waiting"}
  BY <1>1, AnswerType
<1>3. TypeOK'
  BY <1>1, <1>2 DEF TypeOK
<1>4. FileInv' /\ ResetInv' /\ Stored' = Stored
  BY <1>1, SameSession
<1>5. WindowInv' /\ LockInv'
  BY <1>1, <1>2 DEF WindowInv, LockInv
<1>6. \A q \in Saver : save[q].stage \notin {"actuated", "persisted"}
  <2>1. CASE save[s].stage = "reconciled"
    BY <2>1, OthersWait
  <2>2. CASE save[s].stage = "waiting"
    BY <1>1, <2>2 DEF TypeOK
  <2> QED
    BY <1>1, <2>1, <2>2
<1>7. SaveInv'
  BY <1>1, <1>2, <1>4, <1>6 DEF SaveInv, Shown, HonestOs, LiveEngine
<1> QED
  BY <1>3, <1>4, <1>5, <1>7

\* What actuating leaves: the value to persist is what the OS holds, unless a failed call
\* would not tell; a change that can be undone is one from what the OS held.
LEMMA Actuated ==
  ASSUME NEW wanted \in Switch, NEW before \in Switch, os \in Switch,
         NEW act \in IF wanted = before THEN {[NoActuation EXCEPT !.os = os]} ELSE Actuations(os, wanted),
         NEW after \in IF act.result = "failed" THEN {act.os, Unknown} ELSE {Unknown}
  PROVE  /\ act \in Actuation /\ after \in Reading
         /\ AutostartToPersist(wanted, before, act, after) \in Switch
         /\ \/ AutostartToPersist(wanted, before, act, after) = act.os
            \/ act.result = "failed" /\ after = Unknown
            \/ AutostartToPersist(wanted, before, act, after) = before /\ act.os = os
         /\ act.result = "noop" => act.os = os
         /\ CanRollBack(act) => act.seen = os
<1>1. CASE wanted = before
  <2>1. act = [NoActuation EXCEPT !.os = os]
    BY <1>1
  <2>2. act \in Actuation /\ act.result = "noop" /\ act.os = os /\ after = Unknown
    BY <2>1 DEF NoActuation, Actuation, Switch, Reading
  <2> QED
    BY <1>1, <2>2 DEF AutostartToPersist, CanRollBack, Reading
<1>2. CASE wanted # before
  <2>1. act \in Actuation /\ act.seen \in {os, Unknown} /\ act.os \in Switch
        /\ IF act.seen = wanted THEN act.result = "noop" /\ act.os = os
           ELSE \/ act.result = "changed" /\ act.os = wanted
                \/ act.result = "failed" /\ act.os \in {os, wanted}
    BY <1>2 DEF Actuations, Actuation
  <2>2. wanted # Unknown /\ act.os # Unknown /\ os # Unknown
    BY <2>1 DEF Switch, Unknown
  <2>3. CASE act.seen = wanted
    BY <2>1, <2>2, <2>3 DEF AutostartToPersist, CanRollBack, Reading
  <2>4. CASE act.seen # wanted /\ act.result = "changed"
    BY <2>1, <2>2, <2>4 DEF AutostartToPersist, CanRollBack, Reading
  <2>5. CASE act.seen # wanted /\ act.result = "failed"
    <3>1. CASE after = Unknown
      BY <2>1, <2>5, <3>1 DEF AutostartToPersist, CanRollBack, Reading
    <3>2. CASE after # Unknown
      BY <2>1, <2>5, <3>2 DEF AutostartToPersist, CanRollBack, Reading
    <3> QED
      BY <3>1, <3>2
  <2> QED
    BY <2>1, <2>3, <2>4, <2>5
<1> QED
  BY <1>1, <1>2

LEMMA ActuateKeeps ==
  ASSUME IInv, LogType', LogsKept', NEW s \in Saver, Actuate(s)
  PROVE  IInv'
<1> USE DesktopAssumption DEF IInv
<1> DEFINE wanted == save[s].request.autostart
           before == save[s].previous.autostart
<1>1. UNCHANGED <<disk, runnable, app, lock, made, seen, excused>> /\ save[s].stage = "read"
  BY DEF Actuate
<1>2. PICK act \in IF wanted = before THEN {[NoActuation EXCEPT !.os = os]} ELSE Actuations(os, wanted) :
      \E after \in IF act.result = "failed" THEN {act.os, Unknown} ELSE {Unknown} :
        /\ Failing(Count(wanted # before /\ act.seen = Unknown) + Count(act.result = "failed")
                   + Count(act.result = "failed" /\ after = Unknown))
        /\ os' = act.os
        /\ save' = [save EXCEPT ![s].stage = "actuated", ![s].act = act, ![s].after = after,
                      ![s].before = os,
                      ![s].request.autostart = AutostartToPersist(wanted, before, act, after)]
  BY DEF Actuate
<1>3. PICK after \in IF act.result = "failed" THEN {act.os, Unknown} ELSE {Unknown} :
        /\ Failing(Count(wanted # before /\ act.seen = Unknown) + Count(act.result = "failed")
                   + Count(act.result = "failed" /\ after = Unknown))
        /\ os' = act.os
        /\ save' = [save EXCEPT ![s].stage = "actuated", ![s].act = act, ![s].after = after,
                      ![s].before = os,
                      ![s].request.autostart = AutostartToPersist(wanted, before, act, after)]
  BY <1>2
<1> DEFINE chosen == AutostartToPersist(wanted, before, act, after)
           request == [save[s].request EXCEPT !.autostart = chosen]
           new == [save[s] EXCEPT !.stage = "actuated", !.act = act, !.after = after, !.before = os,
                                  !.request = request]
<1>4. save[s] \in Save /\ save[s].request \in Settings /\ save[s].previous \in Settings
      /\ wanted \in Switch /\ before \in Switch /\ os \in Switch
  BY DEF TypeOK, Save, Settings
<1>5. /\ act \in Actuation /\ after \in Reading /\ chosen \in Switch
      /\ chosen = act.os \/ (act.result = "failed" /\ after = Unknown) \/ (chosen = before /\ act.os = os)
      /\ act.result = "noop" => act.os = os
      /\ CanRollBack(act) => act.seen = os
  BY <1>4, Actuated
<1>6. save' = [save EXCEPT ![s] = new] /\ os' = act.os
  <2>1. /\ save' = [save EXCEPT ![s].stage = "actuated", ![s].act = act, ![s].after = after,
                      ![s].before = os, ![s].request.autostart = chosen]
        /\ os' = act.os
    BY <1>3
  <2>2. save \in [Saver -> Save]
    BY DEF TypeOK
  <2> HIDE DEF chosen, wanted, before
  <2> QED
    BY <1>4, <2>1, <2>2 DEF Save, Settings
<1> HIDE DEF chosen, wanted, before
<1>7. request \in Settings /\ request.autostart = chosen
  BY <1>4, <1>5 DEF Settings
<1> HIDE DEF request
<1>8. /\ new \in Save /\ new.stage = "actuated" /\ new.act = act /\ new.after = after
      /\ new.before = os /\ new.request = request /\ new.previous = save[s].previous
  BY <1>4, <1>5, <1>7 DEF Save
<1> HIDE DEF new
<1>9. /\ save' \in [Saver -> Save] /\ save'[s] = new
      /\ \A q \in Saver : q # s => save'[q] = save[q]
  BY <1>6, <1>8 DEF TypeOK
<1>10. LeftType'
  <2> DEFINE n == Count(wanted # before /\ act.seen = Unknown) + Count(act.result = "failed")
                   + Count(act.result = "failed" /\ after = Unknown)
  <2>1. n \in Nat /\ Failing(n)
    BY <1>3 DEF Count, wanted, before
  <2> HIDE DEF n
  <2> QED
    BY <2>1, LeftKeeps
<1>11. lock = s /\ app.stage = "running" /\ \A q \in Saver \ {s} : save[q].stage \in {"idle", "waiting"}
  BY <1>1, OthersWait
<1>12. TypeOK'
  <2>1. os' \in Switch
    BY <1>5, <1>6 DEF Actuation
  <2>2. lock' # "free"
    BY <1>1, <1>11 DEF DesktopAssumption
  <2> QED
    BY <1>1, <1>8, <1>9, <1>10, <2>1, <2>2 DEF TypeOK, LeftType
<1>13. FileInv' /\ ResetInv' /\ Stored' = Stored
  BY <1>1, SameSession
<1>14. WindowInv' /\ LockInv'
  BY <1>1, <1>8, <1>9, <1>11 DEF WindowInv, LockInv
<1>15. SaveInv'
  <2>1. HonestOs(Stored) /\ save[s].previous = Stored
        /\ (app.close = Stored.close \/ "close" \in excused) /\ LiveEngine(Stored.path)
    BY <1>1, <1>11 DEF SaveInv, Shown
  <2>2. request.autostart = os' \/ "autostart" \in excused' \/ Blind(s)'
    <3>1. CASE chosen = act.os
      BY <1>6, <1>7, <3>1 DEF HonestOs
    <3>2. CASE act.result = "failed" /\ after = Unknown
      BY <1>8, <1>9, <3>2 DEF Blind
    <3>3. CASE chosen = before /\ act.os = os
      BY <1>1, <1>6, <1>7, <2>1, <3>3 DEF HonestOs, before
    <3> QED
      BY <1>5, <3>1, <3>2, <3>3
  <2>3. act.result = "noop" => HonestOs(Stored)' /\ new.before = os'
    BY <1>1, <1>5, <1>6, <1>8, <1>13, <2>1 DEF HonestOs
  <2>4. CanRollBack(act) => act.seen = new.before /\ (Stored'.autostart = new.before \/ "autostart" \in excused')
    BY <1>1, <1>5, <1>8, <1>13, <2>1 DEF HonestOs
  <2>5. \A q \in Saver \ {s} : save'[q].stage \in {"idle", "waiting"}
    BY <1>9, <1>11
  <2>6. save'[s].stage = "actuated" /\ save'[s].previous = Stored' /\ save'[s].act = act
        /\ save'[s].request = request /\ save'[s].before = new.before
    BY <1>8, <1>9, <1>13, <2>1
  <2>7. HonestOs(save[s].request)' \/ Blind(s)'
    BY <2>2, <2>6 DEF HonestOs
  <2>8. (app.close = Stored.close \/ "close" \in excused)' /\ LiveEngine(Stored.path)'
    BY <1>1, <1>13, <2>1 DEF LiveEngine
  <2> QED
    BY <2>3, <2>4, <2>5, <2>6, <2>7, <2>8 DEF SaveInv
<1> QED
  BY <1>12, <1>13, <1>14, <1>15

LEMMA PersistKeeps ==
  ASSUME IInv, LogType', LogsKept', NEW s \in Saver, Persist(s)
  PROVE  IInv'
<1> USE DesktopAssumption DEF IInv
<1> DEFINE request == save[s].request
           noted == Iff(Blind(s), "autostart")
           cleared == Iff(request.autostart = os, "autostart")
<1>1. UNCHANGED <<os, runnable, app, lock, left, made, seen>> /\ save[s].stage = "actuated"
      /\ Store(request) /\ save' = [save EXCEPT ![s].stage = "persisted"]
      /\ excused' = (excused \ cleared) \cup noted
  BY DEF Persist, Excuse, Blind
<1>2. lock = s /\ app.stage = "running" /\ \A q \in Saver \ {s} : save[q].stage \in {"idle", "waiting"}
  BY <1>1, OthersWait
<1>3. Home(app.db) /\ app.db \in {Main} \cup Stamp /\ request \in Settings
  BY <1>2 DEF FileInv, Up, TypeOK, Process, Save
<1>4. /\ DiskType' /\ Numbered' /\ Home(app.db)' /\ disk'.aside = disk.aside
      /\ At(disk', app.db).gen = At(disk, app.db).gen /\ disk'.main.damage = disk.main.damage
      /\ Stored' = request
  <2>1. disk' = With(disk, app.db, [At(disk, app.db) EXCEPT !.settings = request])
    BY <1>1 DEF Store
  <2> QED
    BY <1>1, <1>3, <2>1, StoreFile DEF FileInv, TypeOK, Stored
<1>5. /\ save' \in [Saver -> Save] /\ save'[s] = [save[s] EXCEPT !.stage = "persisted"]
      /\ \A q \in Saver : q # s => save'[q] = save[q]
  <2>1. save[s] \in Save
    BY DEF TypeOK
  <2>2. [save[s] EXCEPT !.stage = "persisted"] \in Save
    BY <2>1 DEF Save
  <2> QED
    BY <1>1, <2>2 DEF TypeOK
<1>6. /\ save'[s].stage = "persisted" /\ save'[s].request = request /\ save'[s].act = save[s].act
      /\ save'[s].after = save[s].after /\ save'[s].previous = save[s].previous
  BY <1>5 DEF TypeOK, Save
<1>7. TypeOK'
  <2>1. excused' \subseteq Subject
    BY <1>1 DEF TypeOK, Iff, Subject
  <2>2. lock' # "free"
    BY <1>1, <1>2 DEF DesktopAssumption
  <2> QED
    BY <1>1, <1>4, <1>5, <1>6, <2>1, <2>2 DEF TypeOK, DiskType
<1>8. FileInv'
  BY <1>1, <1>4 DEF FileInv, Up, Home
<1>n. \A subject \in {"reset", "close", "engine"} : subject \in excused <=> subject \in excused'
  BY <1>1 DEF Iff
<1>9. ResetInv'
  BY <1>1, <1>2, <1>4, <1>n DEF ResetInv, Up
<1>10. WindowInv' /\ LockInv'
  BY <1>1, <1>2, <1>5, <1>6 DEF WindowInv, LockInv
<1>11. SaveInv'
  <2>1. request.autostart = os \/ "autostart" \in excused'
    <3>1. request.autostart = os \/ "autostart" \in excused \/ Blind(s)
      BY <1>1 DEF SaveInv, HonestOs
    <3>2. Blind(s) => "autostart" \in excused'
      BY <1>1 DEF Iff
    <3>3. request.autostart # os /\ "autostart" \in excused => "autostart" \in excused'
      BY <1>1 DEF Iff
    <3> QED
      BY <3>1, <3>2, <3>3
  <2>2. HonestOs(Stored)' /\ HonestOs(save[s].request)'
    BY <1>1, <1>4, <1>6, <2>1 DEF HonestOs
  <2>3. LiveEngine(save[s].previous.path)
    BY <1>1, <1>2 DEF SaveInv, Shown
  <2>4. LiveEngine(save[s].previous.path)'
    BY <1>1, <1>6, <1>n, <2>3 DEF LiveEngine
  <2>5. \A q \in Saver \ {s} : save'[q].stage \in {"idle", "waiting"}
    BY <1>2, <1>5
  <2> QED
    BY <1>4, <1>6, <2>2, <2>4, <2>5 DEF SaveInv
<1> QED
  BY <1>7, <1>8, <1>9, <1>10, <1>11

\* What undoing leaves: what was held before the change, or a failed call.
LEMMA Undone ==
  ASSUME os \in Switch, NEW target \in Switch, NEW undo \in Actuations(os, target)
  PROVE  undo \in Actuation /\ (undo.os = target \/ (undo.result = "failed" /\ undo.os = os))
<1>1. undo \in Actuation /\ undo.seen \in {os, Unknown}
      /\ IF undo.seen = target THEN undo.result = "noop" /\ undo.os = os
         ELSE \/ undo.result = "changed" /\ undo.os = target
              \/ undo.result = "failed" /\ undo.os \in {os, target}
  BY DEF Actuations
<1>2. target # Unknown
  BY DEF Switch, Unknown
<1> QED
  BY <1>1, <1>2

LEMMA PersistFailsKeeps ==
  ASSUME IInv, LogType', LogsKept', NEW s \in Saver, PersistFails(s)
  PROVE  /\ IInv'
         /\ os' = save[s].before \/ (os' = os /\ "autostart" \in excused')
<1> USE DesktopAssumption DEF IInv
<1> DEFINE act == save[s].act
<1>1. UNCHANGED <<disk, runnable, app, made, seen>> /\ save[s].stage = "actuated" /\ Answer(s)
  BY DEF PersistFails
<1>2. PICK undo \in IF MustUndo(s) THEN Actuations(os, UndoTarget(s)) ELSE {[NoActuation EXCEPT !.os = os]} :
         LET unsure == \/ save[s].act.result = "failed"
                       \/ save[s].act.result = "changed" /\ save[s].act.seen = Unknown
                       \/ undo.result = "failed"
         IN /\ Failing(1 + Count(MustUndo(s) /\ undo.seen = Unknown) + Count(undo.result = "failed"))
            /\ os' = undo.os
            /\ Excuse(Iff(unsure, "autostart"), {})
  BY DEF PersistFails
<1> DEFINE unsure == \/ save[s].act.result = "failed"
                     \/ save[s].act.result = "changed" /\ save[s].act.seen = Unknown
                     \/ undo.result = "failed"
<1>3. os' = undo.os /\ excused' = (excused \ {}) \cup Iff(unsure, "autostart")
  BY <1>2 DEF Excuse
<1>e. excused \subseteq excused' /\ (unsure => "autostart" \in excused') /\ excused' \subseteq Subject
  BY <1>3 DEF Iff, TypeOK, Subject
<1>4. LeftType'
  <2> DEFINE n == 1 + Count(MustUndo(s) /\ undo.seen = Unknown) + Count(undo.result = "failed")
  <2>1. n \in Nat /\ Failing(n)
    BY <1>2 DEF Count
  <2> HIDE DEF n
  <2> QED
    BY <2>1, LeftKeeps
<1>5. /\ save' \in [Saver -> Save] /\ save'[s].stage = "idle" /\ lock' = "free"
      /\ \A q \in Saver : q # s => save'[q] = save[q]
      /\ \A q \in Saver : save'[q].stage \in {"idle", "waiting"}
  BY <1>1, AnswerType
<1>6. app.stage = "running" /\ \A q \in Saver \ {s} : save[q].stage \in {"idle", "waiting"}
  BY <1>1, OthersWait
<1>7. /\ act \in Actuation /\ os \in Switch /\ save[s].before \in Switch
  BY DEF TypeOK, Save
<1>8. /\ act.result = "noop" => HonestOs(Stored) /\ (save[s].before = os \/ "autostart" \in excused)
      /\ CanRollBack(act) => /\ act.seen = save[s].before
                             /\ Stored.autostart = save[s].before \/ "autostart" \in excused
  BY <1>1 DEF SaveInv
<1>9. /\ os' \in Switch
      /\ os' = save[s].before \/ (os' = os /\ "autostart" \in excused')
      /\ Stored.autostart = os' \/ "autostart" \in excused'
  <2>1. CASE CanRollBack(act)
    <3>1. undo \in Actuations(os, save[s].before)
      BY <1>2, <1>8, <2>1 DEF MustUndo, UndoTarget
    <3>2. undo \in Actuation /\ (undo.os = save[s].before \/ (undo.result = "failed" /\ undo.os = os))
      BY <1>7, <3>1, Undone
    <3>3. undo.os \in Switch
      BY <3>2 DEF Actuation
    <3> QED
      BY <1>3, <1>e, <1>8, <2>1, <3>2, <3>3
  <2>2. CASE ~CanRollBack(act)
    <3>1. undo.os = os
      BY <1>2, <2>2 DEF MustUndo, NoActuation
    <3>2. CASE act.result = "noop"
      BY <1>3, <1>e, <1>7, <1>8, <3>1, <3>2 DEF HonestOs
    <3>3. CASE act.result # "noop"
      <4>1. unsure
        BY <1>7, <2>2, <3>3 DEF CanRollBack, Actuation
      <4> QED
        BY <1>3, <1>e, <1>7, <3>1, <4>1
    <3> QED
      BY <3>2, <3>3
  <2> QED
    BY <2>1, <2>2
<1>10. TypeOK'
  BY <1>1, <1>4, <1>5, <1>9, <1>e DEF TypeOK, LeftType
<1>11. FileInv' /\ ResetInv' /\ Stored' = Stored
  BY <1>1, <1>e, SameSession
<1>12. WindowInv' /\ LockInv'
  BY <1>1, <1>5 DEF WindowInv, LockInv
<1>13. SaveInv'
  <2>1. (app.close = Stored.close \/ "close" \in excused) /\ LiveEngine(Stored.path)
    BY <1>1, <1>6 DEF SaveInv, Shown
  <2>2. (app.close = Stored.close \/ "close" \in excused)' /\ LiveEngine(Stored.path)'
    BY <1>1, <1>e, <1>11, <2>1 DEF LiveEngine
  <2>3. HonestOs(Stored)'
    BY <1>9, <1>11 DEF HonestOs
  <2> QED
    BY <1>5, <2>2, <2>3 DEF SaveInv
<1> QED
  BY <1>9, <1>10, <1>11, <1>12, <1>13

LEMMA ReconcileKeeps ==
  ASSUME IInv, LogType', LogsKept', NEW s \in Saver, ReconcileLive(s)
  PROVE  IInv'
<1> USE DesktopAssumption DEF IInv
<1> DEFINE request == save[s].request
           changed == request.path # save[s].previous.path
<1>1. UNCHANGED <<disk, os, runnable, lock, made, seen>> /\ save[s].stage = "persisted"
  BY DEF ReconcileLive, CloseFlag
<1>2. PICK blind \in IF changed THEN BOOLEAN ELSE {FALSE} :
            LET engine == Resolve(IF blind THEN NoPath ELSE Stored.path)
                git == Reconciliation(changed, blind, engine)
                swap == git \in {"Swapped", "SwappedBlind"}
            IN /\ Failing(Count(blind))
               /\ app' = [app EXCEPT !.close = save[s].request.close,
                                     !.engine = IF swap THEN engine ELSE @]
               /\ save' = [save EXCEPT ![s].stage = "reconciled", ![s].git = git]
               /\ Excuse(Iff(git \in {"SwappedBlind", "RejectUnavailable"}, "engine"),
                         {"close"} \cup Iff(swap, "engine"))
  BY DEF ReconcileLive, CloseFlag
<1> DEFINE engine == Resolve(IF blind THEN NoPath ELSE Stored.path)
           git == Reconciliation(changed, blind, engine)
           swap == git \in {"Swapped", "SwappedBlind"}
           noted == Iff(git \in {"SwappedBlind", "RejectUnavailable"}, "engine")
           new == [save[s] EXCEPT !.stage = "reconciled", !.git = git]
<1>3. /\ app' = [app EXCEPT !.close = request.close, !.engine = IF swap THEN engine ELSE app.engine]
      /\ save' = [save EXCEPT ![s] = new]
      /\ excused' = (excused \ ({"close"} \cup Iff(swap, "engine"))) \cup noted
  <2>1. /\ app' = [app EXCEPT !.close = request.close, !.engine = IF swap THEN engine ELSE app.engine]
        /\ save' = [save EXCEPT ![s].stage = "reconciled", ![s].git = git]
        /\ excused' = (excused \ ({"close"} \cup Iff(swap, "engine"))) \cup noted
    BY <1>2 DEF Excuse
  <2> HIDE DEF request, changed, engine, swap, git, noted
  <2> QED
    BY <2>1 DEF TypeOK, Save
<1>4. lock = s /\ app.stage = "running" /\ \A q \in Saver \ {s} : save[q].stage \in {"idle", "waiting"}
  BY <1>1, OthersWait
<1>5. /\ request = Stored /\ Stored \in Settings /\ save[s] \in Save
      /\ LiveEngine(save[s].previous.path) /\ HonestOs(Stored)
      /\ HonestOs(request) \/ Blind(s)
  BY <1>1, <1>4 DEF SaveInv, Shown, TypeOK, Save
<1>6. engine \in [path : Path, exe : Path \cup {"system"}] /\ (~blind => engine.path = Stored.path)
  BY <1>5 DEF Resolve, Settings, NoPath, DesktopAssumption
<1>7. LeftType'
  <2>1. Count(blind) \in Nat /\ Failing(Count(blind))
    BY <1>2 DEF Count
  <2> QED
    BY <2>1, LeftKeeps
<1>b. changed \in BOOLEAN /\ blind \in BOOLEAN /\ (changed <=> request.path # save[s].previous.path)
  OBVIOUS
<1>g. /\ git \in GitReconcile
      /\ git = "Unchanged" <=> ~changed
      /\ swap => changed
      /\ git = "Swapped" => ~blind
      /\ swap /\ blind => git = "SwappedBlind"
      /\ changed /\ ~swap => git = "RejectUnavailable"
  <2> HIDE DEF engine, changed
  <2> QED
    BY <1>b DEF Reconciliation, GitReconcile
<1>n. "engine" \in noted <=> git \in {"SwappedBlind", "RejectUnavailable"}
  BY DEF Iff
<1>s. noted \subseteq {"engine"}
  BY DEF Iff
<1>w. swap <=> git \in {"Swapped", "SwappedBlind"}
  OBVIOUS
<1> HIDE DEF engine, swap, changed, git, noted
<1>8. /\ app' \in Process /\ app'.stage = app.stage /\ app'.db = app.db /\ app'.recovered = app.recovered
      /\ app'.close = request.close /\ app'.engine = IF swap THEN engine ELSE app.engine
      /\ app'.visible = app.visible /\ app'.tray = app.tray /\ app'.intercept = app.intercept
      /\ app'.showFailed = app.showFailed
  <2>1. app \in Process /\ request.close \in BOOLEAN
    BY <1>5 DEF TypeOK, Settings
  <2> HIDE DEF request
  <2> QED
    BY <1>3, <1>6, <2>1 DEF Process
<1>9. /\ new \in Save /\ new.stage = "reconciled" /\ new.request = request
      /\ new.act = save[s].act /\ new.after = save[s].after
      /\ new.previous = save[s].previous /\ new.git = git
  BY <1>5, <1>g DEF Save
<1> HIDE DEF new
<1>10. /\ save' \in [Saver -> Save] /\ save'[s] = new
       /\ \A q \in Saver : q # s => save'[q] = save[q]
  BY <1>3, <1>9 DEF TypeOK
<1>11. /\ excused' \subseteq Subject
       /\ "reset" \in excused <=> "reset" \in excused'
       /\ "autostart" \in excused <=> "autostart" \in excused'
       /\ "engine" \in excused /\ ~swap => "engine" \in excused'
       /\ changed /\ (blind \/ ~swap) => "engine" \in excused'
  BY <1>3, <1>g, <1>n, <1>s DEF Iff, TypeOK, Subject
<1>12. TypeOK'
  <2>1. lock' # "free"
    BY <1>1, <1>4 DEF DesktopAssumption
  <2> QED
    BY <1>1, <1>7, <1>8, <1>9, <1>10, <1>11, <2>1 DEF TypeOK, LeftType
<1>13. FileInv' /\ ResetInv' /\ Stored' = Stored
  BY <1>1, <1>8, <1>11, SameSession
<1>14. WindowInv' /\ LockInv'
  BY <1>1, <1>4, <1>8, <1>9, <1>10 DEF WindowInv, LockInv
<1>15. SaveInv'
  <2>1. LiveEngine(Stored.path)'
    <3>1. CASE swap
      <4>1. ~blind => app'.engine.path = Stored'.path
        BY <1>6, <1>8, <1>13, <3>1
      <4>2. blind => "engine" \in excused'
        BY <1>g, <1>11, <3>1
      <4> QED
        BY <1>b, <4>1, <4>2 DEF LiveEngine
    <3>2. CASE ~swap /\ changed
      BY <1>11, <3>2 DEF LiveEngine
    <3>3. CASE ~swap /\ ~changed
      BY <1>5, <1>8, <1>11, <1>13, <1>b, <3>3 DEF LiveEngine
    <3> QED
      BY <1>b, <3>1, <3>2, <3>3
  <2>2. app'.close = Stored'.close
    BY <1>5, <1>8, <1>13
  <2>3. HonestOs(Stored)' /\ (HonestOs(save[s].request)' \/ Blind(s)')
    BY <1>1, <1>5, <1>9, <1>10, <1>11, <1>13 DEF HonestOs, Blind
  <2>4. \A q \in Saver \ {s} : save'[q].stage \in {"idle", "waiting"}
    BY <1>4, <1>10
  <2>5. save'[s].stage = "reconciled" /\ save'[s].request = Stored' /\ app'.close = save'[s].request.close
    BY <1>5, <1>8, <1>9, <1>10, <1>13
  <2>6. Engaged(s)'
    <3>1. git = "Swapped" => app'.engine.path = request.path
      BY <1>5, <1>6, <1>8, <1>g, <1>w
    <3>2. git = "Unchanged" => request.path = save[s].previous.path
      BY <1>b, <1>g
    <3> QED
      BY <1>9, <1>10, <3>1, <3>2 DEF Engaged
  <2> QED
    BY <2>1, <2>2, <2>3, <2>4, <2>5, <2>6 DEF SaveInv
<1> QED
  BY <1>12, <1>13, <1>14, <1>15

-----------------------------------------------------------------------------
(* Outside RepoSync *)

LEMMA ToggleKeeps ==
  ASSUME IInv, LogType', LogsKept', ToggleRegistration
  PROVE  IInv'
<1> USE DesktopAssumption DEF IInv
<1>1. UNCHANGED <<disk, runnable, app, save, lock, made, seen>> /\ excused' = (excused \ {}) \cup {"autostart"}
      /\ os' \in Switch
  BY DEF ToggleRegistration, Excuse
<1>2. LeftType'
  BY DEF ToggleRegistration, Outside, TypeOK, LeftType, DesktopAssumption
<1>3. TypeOK'
  BY <1>1, <1>2 DEF TypeOK, LeftType, Subject
<1>4. FileInv' /\ ResetInv' /\ Stored' = Stored
  BY <1>1, SameSession
<1>5. WindowInv' /\ LockInv'
  BY <1>1 DEF WindowInv, LockInv
<1>6. SaveInv'
  BY <1>1, <1>4 DEF SaveInv, Shown, HonestOs, LiveEngine, Blind, Engaged
<1> QED
  BY <1>3, <1>4, <1>5, <1>6

LEMMA InstallKeeps ==
  ASSUME IInv, LogType', LogsKept', NEW exe \in (Path \cup {"system"}) \ {NoPath}, InstallGit(exe)
  PROVE  IInv'
<1> USE DesktopAssumption DEF IInv
<1>1. UNCHANGED <<disk, os, app, save, lock, made, seen, excused>>
  BY DEF InstallGit
<1>2. LeftType' /\ runnable' \subseteq (Path \cup {"system"}) \ {NoPath}
  BY DEF InstallGit, Outside, TypeOK, LeftType, DesktopAssumption
<1>3. TypeOK'
  BY <1>1, <1>2 DEF TypeOK, LeftType
<1>4. FileInv' /\ ResetInv' /\ Stored' = Stored
  BY <1>1, SameSession
<1>5. WindowInv' /\ LockInv'
  BY <1>1 DEF WindowInv, LockInv
<1>6. SaveInv'
  BY <1>1, <1>4 DEF SaveInv, Shown, HonestOs, LiveEngine, Blind, Engaged
<1> QED
  BY <1>3, <1>4, <1>5, <1>6

LEMMA DamageKeeps ==
  ASSUME IInv, LogType', LogsKept', NEW damage \in Damage, DamageFile(damage)
  PROVE  IInv'
<1> USE DesktopAssumption DEF IInv
<1>1. UNCHANGED <<os, runnable, app, save, lock, made, seen, excused>> /\ app.stage = "off"
      /\ disk.main # NoDb /\ disk' = [disk EXCEPT !.main.damage = damage]
  BY DEF DamageFile
<1>2. disk.main \in Db /\ DOMAIN disk = {"main", "aside", "fresh"} /\ disk.main.gen \in 1..made
  BY <1>1 DEF FileInv, DiskType, Numbered
<1>3. disk'.main = [disk.main EXCEPT !.damage = damage] /\ disk'.aside = disk.aside /\ disk'.fresh = disk.fresh
      /\ DOMAIN disk' = DOMAIN disk
  BY <1>1, <1>2
<1>4. disk'.main \in Db /\ disk'.main.gen = disk.main.gen
  BY <1>2, <1>3 DEF Db
<1>5. LeftType'
  BY DEF DamageFile, Outside, TypeOK, LeftType, DesktopAssumption
<1>6. TypeOK'
  BY <1>1, <1>3, <1>4, <1>5 DEF TypeOK, LeftType
<1>7. FileInv'
  <2>1. app.db = Main /\ ~app.recovered
    BY <1>1 DEF FileInv, Up
  <2>2. DiskType' /\ Numbered'
    BY <1>2, <1>3, <1>4, <1>1 DEF FileInv, DiskType, Numbered
  <2> QED
    BY <1>1, <1>3, <2>1, <2>2 DEF FileInv, Up
<1>8. ResetInv'
  <2>1. disk.main.damage = "none"
    BY DEF DamageFile
  <2> QED
    BY <1>1, <1>4, <2>1 DEF ResetInv, Up
<1>9. WindowInv' /\ LockInv' /\ SaveInv'
  BY <1>1 DEF WindowInv, LockInv, SaveInv, Shown
<1> QED
  BY <1>6, <1>7, <1>8, <1>9

-----------------------------------------------------------------------------
(* The invariant and what follows *)

LEMMA StutterKeeps ==
  ASSUME IInv, LogType', LogsKept', UNCHANGED vars
  PROVE  IInv'
<1> USE DEF IInv
<1>1. FileInv' /\ ResetInv' /\ Stored' = Stored
  BY SameSession DEF vars
<1>2. TypeOK'
  BY DEF TypeOK, vars
<1>3. WindowInv' /\ LockInv'
  BY DEF WindowInv, LockInv, vars
<1>4. SaveInv'
  BY <1>1 DEF SaveInv, Shown, HonestOs, LiveEngine, Blind, Engaged, vars
<1> QED
  BY <1>1, <1>2, <1>3, <1>4

LEMMA StepKeeps == IInv /\ [Next]_vars => IInv'
<1> SUFFICES ASSUME IInv, [Next]_vars PROVE IInv'
  OBVIOUS
<1>0. LogType' /\ LogsKept'
  BY LogKeeps
<1>1. CASE LaunchStep
  BY <1>0, <1>1, OpenKeeps, SidecarsKeeps, CreateKeeps, CreateFailsKeeps, SettleBlindKeeps, SettleKeeps, ShowKeeps,
     OpenFailsKeeps, MoveKeeps DEF LaunchStep
<1>2. CASE \E auto \in BOOLEAN : Launch(auto)
  BY <1>0, <1>2, LaunchKeeps
<1>3. CASE SecondLaunch \/ ShowFromTray \/ CloseToTray
  BY <1>0, <1>3, WindowKeeps
<1>4. CASE CloseAndExit \/ Quit \/ InstallUpdate \/ Crash
  BY <1>0, <1>4, LeavesKeeps
<1>5. CASE \E s \in Saver : SaveStep(s)
  BY <1>0, <1>5, BeginKeeps, RefuseKeeps, ActuateKeeps, PersistKeeps, PersistFailsKeeps, ReconcileKeeps DEF SaveStep
<1>6. CASE \E s \in Saver, request \in Request : SaveSettings(s, request)
  BY <1>0, <1>6, CallKeeps
<1>7. CASE ToggleRegistration
  BY <1>0, <1>7, ToggleKeeps
<1>8. CASE \E exe \in (Path \cup {"system"}) \ {NoPath} : InstallGit(exe)
  BY <1>0, <1>8, InstallKeeps
<1>9. CASE \E damage \in Damage \ {"none"} : DamageFile(damage)
  BY <1>0, <1>9, DamageKeeps
<1>10. CASE UNCHANGED vars
  BY <1>0, <1>10, StutterKeeps
<1> QED
  BY <1>1, <1>2, <1>3, <1>4, <1>5, <1>6, <1>7, <1>8, <1>9, <1>10 DEF Next

\* The invariant holds in every reachable state of launches, saves and recoveries.
THEOREM Invariant == Spec => []IInv
<1> QED
  BY InitInv, StepKeeps, PTL DEF Spec

\* Type correctness, for any bounds.
THEOREM TypeCorrect == Spec => []TypeOK
<1>1. IInv => TypeOK
  BY DEF IInv
<1> QED
  BY <1>1, Invariant, PTL

\* Setting and registration agree between saves, or it is on record why not (settings_set,
\* reconcile_on_launch).
THEOREM AutostartAgrees == Spec => []AutostartHonest
<1>1. IInv => AutostartHonest
  BY DEF IInv, SaveInv, AutostartHonest, Settled, HonestOs
<1> QED
  BY <1>1, Invariant, PTL

\* The close button and the engine follow the row (BL-NI-35).
THEOREM LiveFollows == Spec => []LiveFollowsStored
<1>1. IInv => LiveFollowsStored
  BY DEF IInv, SaveInv, LiveFollowsStored, Settled, LiveEngine
<1> QED
  BY <1>1, Invariant, PTL

\* A hidden window has a tray, or the OS would not show it (decide_window_lifecycle).
THEOREM WindowReachable == Spec => []NeverStranded
<1>1. IInv => NeverStranded
  BY DEF IInv, WindowInv, NeverStranded
<1> QED
  BY <1>1, Invariant, PTL

\* No database is ever lost, however many recoveries fall into one second (db.rs).
THEOREM DataKept == Spec => []DataPreserved
<1>1. IInv => DataPreserved
  BY NumberedKeeps DEF IInv, FileInv, DataPreserved
<1> QED
  BY <1>1, Invariant, PTL

\* A session on another database than the last one's says so (AC7).
THEOREM ResetTold == Spec => []ResetIsTold
<1>1. IInv => ResetIsTold
  BY DEF IInv, ResetInv, ResetIsTold, Up
<1> QED
  BY <1>1, Invariant, PTL

\* Steps that leave the main file its generation.
LEMMA MainStays ==
  ASSUME IInv, NEW st \in Settings, Store(st), Up, UNCHANGED made
  PROVE  disk'.main.gen = disk.main.gen
<1> USE DesktopAssumption DEF IInv
<1>1. Home(app.db) /\ app.db \in {Main} \cup Stamp
  BY DEF FileInv, TypeOK, Process
<1>2. disk' = With(disk, app.db, [At(disk, app.db) EXCEPT !.settings = st])
  BY DEF Store
<1> QED
  BY <1>1, <1>2, StoreFile DEF FileInv, TypeOK

\* Only a corrupt database is replaced (DS-1).
THEOREM CorruptOnly == Spec => ResetOnlyCorrupt
<1> DEFINE Kept == disk'.main.gen # disk.main.gen => disk.main = NoDb \/ disk.main.damage = "corrupt"
<1>1. ASSUME IInv, [Next]_vars PROVE Kept
  <2> USE <1>1, DesktopAssumption DEF IInv
  <2>1. CASE UNCHANGED disk
    BY <2>1
  <2>2. CASE Open
    <3>1. ~(disk.main = NoDb) => disk'.main = disk.main
      BY <2>2, OpenFile DEF Open, FileInv, TypeOK
    <3> QED
      BY <3>1
  <2>3. CASE CreateFresh
    <3>1. app.db \in {Main} \cup Stamp
      BY DEF TypeOK, Process
    <3>2. ~(app.db = Main /\ disk.main = NoDb) => disk'.main = disk.main
      BY <2>3, <3>1, OpenFile DEF CreateFresh, FileInv, TypeOK
    <3> QED
      BY <3>2
  <2>4. CASE \E stamp \in Stamp : MoveDbAside(stamp)
    BY <2>4 DEF MoveDbAside, FileInv
  <2>5. CASE Settle
    <3>1. Up /\ UNCHANGED made
      BY <2>5 DEF Settle, Up
    <3>2. UNCHANGED disk \/ \E reading \in {os, Unknown} : Store([Stored EXCEPT !.autostart = Adopted(reading, Stored.autostart)])
      BY <2>5 DEF Settle
    <3>3. Stored \in Settings
      BY <3>1, HomeGen DEF FileInv, Up, TypeOK, Process, Stored, Db
    <3>4. \A reading \in {os, Unknown} : [Stored EXCEPT !.autostart = Adopted(reading, Stored.autostart)] \in Settings
      BY <3>3 DEF Settings, Adopted, TypeOK
    <3> QED
      BY <3>1, <3>2, <3>4, MainStays
  <2>6. CASE \E s \in Saver : Persist(s)
    <3> PICK s \in Saver : Persist(s)
      BY <2>6
    <3>1. Up /\ UNCHANGED made /\ Store(save[s].request)
      BY OthersWait DEF Persist, Up
    <3>2. save[s].request \in Settings
      BY DEF TypeOK, Save
    <3> QED
      BY <3>1, <3>2, MainStays
  <2>7. CASE \E damage \in Damage \ {"none"} : DamageFile(damage)
    <3>1. disk'.main.gen = disk.main.gen
      BY <2>7 DEF DamageFile, FileInv, DiskType, Db
    <3> QED
      BY <3>1
  <2>8. [Next]_vars => \/ UNCHANGED disk \/ Open \/ CreateFresh \/ Settle
                       \/ \E stamp \in Stamp : MoveDbAside(stamp)
                       \/ \E s \in Saver : Persist(s)
                       \/ \E damage \in Damage \ {"none"} : DamageFile(damage)
    BY DEF Next, LaunchStep, SaveStep, vars, Launch, OpenFails, CreateFreshFails, SettleBlind, Show,
           MoveSidecars, SecondLaunch, ShowFromTray, RaiseMainWindow, CloseToTray, CloseAndExit, Quit,
           InstallUpdate, Crash, SaveSettings, Begin, Refuse, Actuate,
           PersistFails, ReconcileLive, Finish, ToggleRegistration, InstallGit
  <2> QED
    BY <2>1, <2>2, <2>3, <2>4, <2>5, <2>6, <2>7, <2>8
<1>2. IInv /\ [Next]_vars => [Kept]_vars
  BY <1>1
<1> QED
  BY <1>2, Invariant, PTL DEF Spec, ResetOnlyCorrupt

\* What settings_set reports is so: done means in force, and a write that failed left the
\* registration as it was.
THEOREM ReportsTrue == Spec => SaveReportTrue
<1> DEFINE Report(s) ==
       save'[s].stage = "idle" =>
        /\ save[s].stage = "reconciled" /\ Succeeds(s) =>
             /\ Stored = save[s].request
             /\ app.close = save[s].request.close
             /\ save[s].request.path # save[s].previous.path =>
                  app.engine.path = save[s].request.path \/ save[s].git = "SwappedBlind"
             /\ save[s].request.autostart # save[s].previous.autostart =>
                  os = save[s].request.autostart \/ "autostart" \in excused
        /\ save[s].stage = "actuated" /\ app'.stage = "running" =>
             os' = save[s].before \/ (os' = os /\ "autostart" \in excused')
<1>1. ASSUME IInv, [Next]_vars, NEW s \in Saver PROVE Report(s)
  <2> USE <1>1 DEF IInv
  <2>1. CASE save[s].stage = "reconciled" /\ Succeeds(s)
    <3>1. save[s].request = Stored /\ app.close = save[s].request.close /\ Engaged(s)
          /\ (HonestOs(save[s].request) \/ Blind(s))
      BY <2>1 DEF SaveInv
    <3>2. ~Blind(s)
      BY <2>1 DEF Succeeds, Blind
    <3>3. save[s].git \in {"Unchanged", "Swapped", "SwappedBlind"}
      BY <2>1 DEF Succeeds, TypeOK, Save, GitReconcile
    <3> QED
      BY <2>1, <3>1, <3>2, <3>3 DEF HonestOs, Engaged
  <2>2. CASE save[s].stage = "actuated" /\ save'[s].stage = "idle" /\ app'.stage = "running"
    <3>1. ~End
      <4>1. Off.stage = "off"
        BY DEF Off
      <4>2. End => app' = Off
        BY DEF End
      <4> QED
        BY <2>2, <4>1, <4>2
    <3>2. save'[s] # save[s]
      BY <2>2
    <3>3. ASSUME NEW q \in Saver, SaveStep(q) PROVE PersistFails(s)
      <4>1. q = s
        <5>1. CASE save[q].stage \notin {"idle", "waiting"}
          BY <2>2, <5>1, OthersWait
        <5>2. CASE save[q].stage \in {"idle", "waiting"}
          <6>1. lock = "free"
            BY <3>3, <5>2 DEF SaveStep, Begin, Refuse, Actuate, Persist, PersistFails, ReconcileLive, Finish, LockFree
          <6> QED
            BY <2>2, <6>1 DEF TypeOK
        <5> QED
          BY <5>1, <5>2
      <4>2. ~Persist(s)
        <5>1. SUFFICES ASSUME Persist(s) PROVE save'[s].stage = "persisted"
          BY <2>2
        <5> QED
          BY <5>1 DEF Persist, TypeOK, Save
      <4> QED
        BY <2>2, <3>3, <4>1, <4>2 DEF SaveStep, Begin, Refuse, Actuate, ReconcileLive, Finish
    <3>4. ASSUME NEW q \in Saver, NEW request \in Request, SaveSettings(q, request) PROVE save'[s] = save[s]
      BY <2>2, <3>4 DEF SaveSettings, TypeOK
    <3>5. UNCHANGED save \/ (\E q \in Saver : SaveStep(q)) \/ (\E q \in Saver, request \in Request : SaveSettings(q, request))
      BY <3>1 DEF Next, LaunchStep, vars, Launch, Open, OpenFails, MoveDbAside, MoveSidecars, CreateFresh,
                  CreateFreshFails, SettleBlind, Settle, Show, SecondLaunch, ShowFromTray, RaiseMainWindow, CloseToTray,
                  CloseAndExit, Quit, InstallUpdate, Crash,
                  ToggleRegistration, InstallGit, DamageFile
    <3>6. PersistFails(s)
      BY <3>2, <3>3, <3>4, <3>5
    <3>7. LogType' /\ LogsKept'
      BY LogKeeps
    <3> QED
      BY <2>2, <3>6, <3>7, PersistFailsKeeps
  <2> QED
    BY <2>1, <2>2
<1>2. IInv /\ [Next]_vars => [\A s \in Saver : Report(s)]_vars
  BY <1>1
<1> QED
  BY <1>2, Invariant, PTL DEF Spec, SaveReportTrue
=============================================================================
