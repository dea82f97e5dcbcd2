--------------------------- MODULE SummaryProofs ---------------------------
(***************************************************************************)
(* Proofs about what two views show: the summary (Summary, Civil) and the  *)
(* diagnostics (Diagnostics).                                              *)
(***************************************************************************)
EXTENDS Summary, Sequences, TLAPS

-----------------------------------------------------------------------------
(* Dates. *)

\* The years before a March, of 365 days, and their leap days.
LEMMA MarchYears ==
  ASSUME NEW y \in Int
  PROVE  DaysBefore(y) = 365 * y + y \div 4 - y \div 100 + y \div 400
BY SMTT(60) DEF DaysBefore, YearOfEra, Era

\* A year that starts in March ends with the leap day of the next one's number.
LEMMA YearLength ==
  ASSUME NEW y \in Int
  PROVE  DaysBefore(y) = DaysBefore(y - 1) + (IF LeapYear(y) THEN 366 ELSE 365)
<1>1. DaysBefore(y) = 365 * y + y \div 4 - y \div 100 + y \div 400
  BY MarchYears
<1>2. y - 1 \in Int
  OBVIOUS
<1>3. DaysBefore(y - 1) = 365 * (y - 1) + (y - 1) \div 4 - (y - 1) \div 100 + (y - 1) \div 400
  <2>1. \A x \in Int : DaysBefore(x) = 365 * x + x \div 4 - x \div 100 + x \div 400
    BY MarchYears
  <2> DEFINE z == y - 1
  <2>2. z \in Int
    BY <1>2
  <2> HIDE DEF z
  <2>3. DaysBefore(z) = 365 * z + z \div 4 - z \div 100 + z \div 400
    BY <2>1, <2>2, Zenon
  <2> QED BY <2>3 DEF z
<1> QED BY <1>1, <1>3, SMTT(60) DEF LeapYear

(* The number of the day after a date is the next number: days_from_civil of   *)
(* github.rs counts every date once and skips none.                            *)
THEOREM NextDay ==
  ASSUME NEW y \in Int, NEW m \in Int, NEW d \in Int, IsDate(y, m, d)
  PROVE  LET n == NextDate(y, m, d)
         IN  DaysFromCivil(n[1], n[2], n[3]) = DaysFromCivil(y, m, d) + 1
<1>1. DaysBefore(y) \in Int /\ DaysBefore(y - 1) \in Int
  BY DEF DaysBefore, YearOfEra, Era
<1>2. CASE d < DaysInMonth(y, m)
  BY <1>1, <1>2, SMTT(30) DEF NextDate, DaysFromCivil, YearOf, DayOfYear, MonthIndex, IsDate
<1>3. CASE ~(d < DaysInMonth(y, m)) /\ m = 2
  <2>1. NextDate(y, m, d) = <<y, 3, 1>>
    BY <1>3 DEF NextDate, IsDate
  <2>2. DaysFromCivil(y, 3, 1) = DaysBefore(y) - 719468
    BY <1>1 DEF DaysFromCivil, YearOf, DayOfYear, MonthIndex
  <2>3. DaysFromCivil(y, 2, d) = DaysBefore(y - 1) + 337 + d - 1 - 719468
    BY <1>1 DEF DaysFromCivil, YearOf, DayOfYear, MonthIndex
  <2>4. d = IF LeapYear(y) THEN 29 ELSE 28
    BY <1>3 DEF IsDate, DaysInMonth
  <2> QED BY <1>1, <1>3, <2>1, <2>2, <2>3, <2>4, YearLength
<1>4. CASE ~(d < DaysInMonth(y, m)) /\ m = 12
  <2>1. NextDate(y, m, d) = <<y + 1, 1, 1>> /\ d = 31
    BY <1>4 DEF NextDate, IsDate, DaysInMonth
  <2>2. y + 1 - 1 = y
    OBVIOUS
  <2>3. DaysFromCivil(y + 1, 1, 1) = DaysBefore(y) + 306 - 719468
    BY <1>1, <2>2 DEF DaysFromCivil, YearOf, DayOfYear, MonthIndex
  <2>4. DaysFromCivil(y, 12, 31) = DaysBefore(y) + 305 - 719468
    BY <1>1 DEF DaysFromCivil, YearOf, DayOfYear, MonthIndex
  <2> QED BY <1>1, <1>4, <2>1, <2>3, <2>4
<1>5. CASE ~(d < DaysInMonth(y, m)) /\ m \in {1, 3, 4, 5, 6, 7, 8, 9, 10, 11}
  <2>1. NextDate(y, m, d) = <<y, m + 1, 1>> /\ d = DaysInMonth(y, m)
    BY <1>5 DEF NextDate, IsDate, DaysInMonth
  <2>2. YearOf(y, m + 1) = YearOf(y, m) /\ YearOf(y, m) \in {y - 1, y}
    BY <1>5 DEF YearOf
  <2>3. DayOfYear(m + 1, 1) = DayOfYear(m, d) + 1 /\ DayOfYear(m, d) \in Int
    <3>1. d = IF m \in {4, 6, 9, 11} THEN 30 ELSE 31
      BY <1>5, <2>1 DEF DaysInMonth
    <3> QED BY <1>5, <3>1, SMTT(30) DEF DayOfYear, MonthIndex
  <2> QED BY <1>1, <2>1, <2>2, <2>3 DEF DaysFromCivil
<1> QED BY <1>2, <1>3, <1>4, <1>5 DEF IsDate

\* Unix time starts at the first of January 1970.
THEOREM Epoch == DaysFromCivil(1970, 1, 1) = 0
BY SMTT(30) DEF DaysFromCivil, DaysBefore, YearOf, YearOfEra, Era, DayOfYear, MonthIndex

(* A moment that the local clock shows as a time of some date lies in the      *)
(* window that day_window_for gives for every other moment of that date: a     *)
(* release counts for the local day it was published on.                       *)
THEOREM ReleaseDay ==
  ASSUME NEW y \in Int, NEW m \in Int, NEW d \in Int, IsDate(y, m, d),
         NEW hour \in Nat, NEW min \in Nat, NEW sec \in Nat, IsTime(hour, min, sec), sec # 60,
         NEW offset \in Int, NEW at \in Int,
         DaysFromCivil(y, m, d) * DaySecs <= at + offset,
         at + offset < (DaysFromCivil(y, m, d) + 1) * DaySecs
  PROVE  Within(DayWindow(at, offset, DaySecs), UnixTime(y, m, d, hour, min, sec) - offset)
<1> DEFINE D == DaysFromCivil(y, m, d)
<1>1. D \in Int
  BY DEF DaysFromCivil, DaysBefore, YearOf, YearOfEra, Era, DayOfYear, MonthIndex
<1>2. at - ((at + offset) % DaySecs) = D * DaySecs - offset
  <2>1. (at + offset) % 86400 = at + offset - D * 86400
    <3> HIDE DEF D
    <3> QED BY <1>1, SMTT(30) DEF DaySecs, D
  <2> QED BY <1>1, <2>1 DEF DaySecs
<1>3. UnixTime(y, m, d, hour, min, sec) = D * 86400 + hour * 3600 + min * 60 + sec
  BY DEF UnixTime, DaySecs
<1> HIDE DEF D
<1> QED BY <1>1, <1>2, <1>3, SMTT(30) DEF Within, DayWindow, IsTime, DaySecs
-----------------------------------------------------------------------------
(* Types. *)

TablesTyped ==
    /\ now \in Time
    /\ repos \subseteq Repo
    /\ nextRepo \in 1 .. MaxRepo + 1
    /\ DOMAIN groups \subseteq GroupId
    /\ groups \in [DOMAIN groups -> Group]
    /\ nextGroup \in 1 .. MaxGroup + 1
    /\ member \subseteq Repo \X GroupId
    /\ log \subseteq Receipt
    /\ state \in [Repo -> State]
    /\ release \in [Repo -> Time]

ReaderTyped ==
    reader \in [stage : {"idle", "asked", "rows", "states", "done"}, scope : Scope,
                window : Window, got : Bucket]

SeenTyped == may \in Bucket /\ must \in Bucket

\* The type invariant in three parts: tables, reader, history.
LEMMA TypeParts == TypeOK <=> TablesTyped /\ ReaderTyped /\ SeenTyped
BY DEF TypeOK, TablesTyped, ReaderTyped, SeenTyped

\* The same of the next state.
LEMMA TypePartsNext == TypeOK' <=> TablesTyped' /\ ReaderTyped' /\ SeenTyped'
BY DEF TypeOK, TablesTyped, ReaderTyped, SeenTyped

\* A summary read at once lists tracked repos.
LEMMA AtOnceType ==
  /\ repos \subseteq Repo => Now \in Bucket
  /\ repos' \subseteq Repo => Now' \in Bucket
<1>1. ASSUME repos \subseteq Repo
      PROVE  Now \in Bucket
  <2>1. \A s \in {reader.scope} : InScope(s) \subseteq Repo
    BY <1>1 DEF InScope, Members
  <2> QED BY <2>1 DEF Now, AtOnce, Updated, NoChange, Attention, NewReleases, Active, Bucket
<1>2. ASSUME repos' \subseteq Repo
      PROVE  Now' \in Bucket
  <2>1. InScope(reader.scope)' \subseteq Repo
    BY <1>2 DEF InScope, Members
  <2> QED BY <2>1 DEF Now, AtOnce, Updated, NoChange, Attention, NewReleases, Active, Bucket
<1> QED BY <1>1, <1>2

\* A day has bounds, whatever the offset.
LEMMA WindowType ==
  ASSUME SummaryAssumption, NEW at \in Int
  PROVE  DayWindow(at, Offset, Day) \in Window
<1>1. (at + Offset) % Day \in Int
  BY DEF SummaryAssumption
<1> QED BY <1>1 DEF SummaryAssumption, DayWindow, Window

\* An empty database is typed and agrees with itself.
LEMMA InitTypes == SummaryAssumption /\ Init => TypeOK /\ TablesAgree
<1> SUFFICES ASSUME SummaryAssumption, Init
             PROVE  TypeOK /\ TablesAgree
  OBVIOUS
<1>1. TablesTyped
  BY DEF SummaryAssumption, Init, TablesTyped, Time, Repo, GroupId, Group, Receipt, State, Fine
<1>2. ReaderTyped
  <2>1. DayWindow(0, Offset, Day) \in Window
    BY WindowType
  <2> QED BY <2>1 DEF Init, Idle, ReaderTyped, Scope, Empty, Bucket
<1>3. SeenTyped
  BY DEF Init, SeenTyped, Empty, Bucket
<1>4. TablesAgree
  BY DEF Init, TablesAgree
<1> QED BY <1>1, <1>2, <1>3, <1>4, TypeParts

-----------------------------------------------------------------------------
(* The tables. *)

\* Adding, removing, running, refreshing and sweeping keep the tables true.
LEMMA WriteTypes ==
  SummaryAssumption /\ TypeOK /\ TablesAgree /\ (Tick \/ Write)
    => TablesTyped' /\ TablesAgree'
<1> SUFFICES ASSUME SummaryAssumption, TypeOK, TablesAgree, Tick \/ Write
             PROVE  TablesTyped' /\ TablesAgree'
  OBVIOUS
<1>1. CASE Tick
  BY <1>1 DEF SummaryAssumption, TypeOK, TablesAgree, TablesTyped, Tick, tables, Time
<1>2. CASE AddRepo
  <2>1. state' \in [Repo -> State]
    <3>1. PICK dirty \in BOOLEAN : state' = [state EXCEPT ![nextRepo] = [Fine EXCEPT !.dirty = dirty]]
      BY <1>2 DEF AddRepo
    <3>2. [Fine EXCEPT !.dirty = dirty] \in State
      BY DEF Fine, State
    <3>3. state \in [Repo -> State]
      BY DEF TypeOK
    <3> QED BY <3>1, <3>2, <3>3
  <2>2. TablesTyped'
    <3>1. nextRepo' \in 1..(MaxRepo + 1) /\ repos' \in SUBSET Repo
      BY <1>2 DEF SummaryAssumption, TypeOK, AddRepo, Repo
    <3>2. UNCHANGED <<now, groups, nextGroup, member, log, release>>
      BY <1>2 DEF AddRepo
    <3> QED BY <2>1, <3>1, <3>2 DEF TypeOK, TablesTyped
  <2>3. TablesAgree'
    BY <1>2 DEF TablesAgree, AddRepo
  <2> QED BY <2>2, <2>3
<1>3. ASSUME NEW r \in Repo, RemoveRepo(r)
      PROVE  TablesTyped' /\ TablesAgree'
  <2>1. state' \in [Repo -> State] /\ release' \in [Repo -> Time]
    BY <1>3 DEF SummaryAssumption, TypeOK, RemoveRepo, State, Fine, Time
  <2>2. TablesTyped'
    BY <1>3, <2>1 DEF TypeOK, TablesTyped, RemoveRepo
  <2>3. TablesAgree'
    BY <1>3 DEF TypeOK, TablesAgree, RemoveRepo
  <2> QED BY <2>2, <2>3
<1>4. ASSUME NEW r \in Repo, EndRun(r)
      PROVE  TablesTyped' /\ TablesAgree'
  <2>1. state' \in [Repo -> State]
    BY <1>4 DEF TypeOK, EndRun
  <2>2. log' \subseteq Receipt /\ \A e \in log' : e.repo \in repos
    BY <1>4 DEF TypeOK, TablesAgree, EndRun
  <2> QED BY <1>4, <2>1, <2>2 DEF TypeOK, TablesAgree, TablesTyped, EndRun
<1>5. ASSUME NEW r \in Repo, Refresh(r)
      PROVE  TablesTyped' /\ TablesAgree'
  <2>1. release' \in [Repo -> Time]
    BY <1>5 DEF SummaryAssumption, TypeOK, Refresh, Time
  <2> QED BY <1>5, <2>1 DEF TypeOK, TablesAgree, TablesTyped, Refresh
<1>6. CASE Sweep
  BY <1>6 DEF TypeOK, TablesAgree, TablesTyped, Sweep
<1> QED BY <1>1, <1>2, <1>3, <1>4, <1>5, <1>6 DEF Write

\* So does every command on groups.
LEMMA RegroupTypes ==
  SummaryAssumption /\ TypeOK /\ TablesAgree /\ Regroup => TablesTyped' /\ TablesAgree'
<1> SUFFICES ASSUME SummaryAssumption, TypeOK, TablesAgree, Regroup
             PROVE  TablesTyped' /\ TablesAgree'
  OBVIOUS
<1>1. ASSUME NEW name \in Name, NEW color \in Color, GroupCreate(name, color)
      PROVE  TablesTyped' /\ TablesAgree'
  <2>1. nextGroup' \in 1 .. MaxGroup + 1
    BY <1>1 DEF SummaryAssumption, TypeOK, GroupCreate, GroupId
  <2>2. /\ DOMAIN groups' = DOMAIN groups \cup {nextGroup}
        /\ \A g \in DOMAIN groups' :
              groups'[g] = IF g = nextGroup THEN [name |-> name, color |-> color] ELSE groups[g]
    BY <1>1 DEF GroupCreate
  <2>3. DOMAIN groups' \subseteq GroupId /\ groups' \in [DOMAIN groups' -> Group]
    BY <1>1, <2>2 DEF TypeOK, GroupCreate, Group
  <2>4. \A g, h \in DOMAIN groups' : groups'[g].name = groups'[h].name => g = h
    BY <1>1, <2>2 DEF TablesAgree, GroupCreate, Taken
  <2> QED BY <1>1, <2>1, <2>2, <2>3, <2>4 DEF TypeOK, TablesAgree, TablesTyped, GroupCreate
<1>2. ASSUME NEW g \in GroupId, NEW name \in Name, GroupRename(g, name)
      PROVE  TablesTyped' /\ TablesAgree'
  <2>1. groups[g] \in Group
    BY <1>2 DEF TypeOK, GroupRename
  <2>2. /\ DOMAIN groups' = DOMAIN groups
        /\ groups'[g].name = name /\ groups'[g] \in Group
        /\ \A h \in DOMAIN groups \ {g} : groups'[h] = groups[h]
    BY <1>2, <2>1 DEF TypeOK, GroupRename, Group
  <2>3. groups' \in [DOMAIN groups' -> Group]
    BY <1>2, <2>2 DEF TypeOK, GroupRename
  <2>4. \A h, k \in DOMAIN groups' : groups'[h].name = groups'[k].name => h = k
    BY <1>2, <2>2 DEF TablesAgree, GroupRename, Taken
  <2> QED BY <1>2, <2>2, <2>3, <2>4 DEF TypeOK, TablesAgree, TablesTyped, GroupRename
<1>3. ASSUME NEW g \in GroupId, NEW name \in Name, NEW color \in Color,
             GroupUpdate(g, name, color)
      PROVE  TablesTyped' /\ TablesAgree'
  <2>1. /\ DOMAIN groups' = DOMAIN groups
        /\ groups'[g].name = name /\ groups'[g] \in Group
        /\ \A h \in DOMAIN groups \ {g} : groups'[h] = groups[h]
    BY <1>3 DEF TypeOK, GroupUpdate, Group
  <2>2. groups' \in [DOMAIN groups' -> Group]
    BY <1>3, <2>1 DEF TypeOK, GroupUpdate
  <2>3. \A h, k \in DOMAIN groups' : groups'[h].name = groups'[k].name => h = k
    BY <1>3, <2>1 DEF TablesAgree, GroupUpdate, Taken
  <2> QED BY <1>3, <2>1, <2>2, <2>3 DEF TypeOK, TablesAgree, TablesTyped, GroupUpdate
<1>4. ASSUME NEW g \in GroupId, GroupDelete(g)
      PROVE  TablesTyped' /\ TablesAgree'
  <2>1. /\ DOMAIN groups' = DOMAIN groups \ {g}
        /\ \A h \in DOMAIN groups' : groups'[h] = groups[h]
    BY <1>4 DEF GroupDelete
  <2>2. groups' \in [DOMAIN groups' -> Group]
    BY <1>4, <2>1 DEF TypeOK, GroupDelete
  <2>3. member' \subseteq repos \X (DOMAIN groups \ {g}) /\ member' \subseteq Repo \X GroupId
    BY <1>4 DEF TypeOK, TablesAgree, GroupDelete
  <2>4. \A h, k \in DOMAIN groups' : groups'[h].name = groups'[k].name => h = k
    BY <2>1 DEF TablesAgree
  <2> QED BY <1>4, <2>1, <2>2, <2>3, <2>4 DEF TypeOK, TablesAgree, TablesTyped, GroupDelete
<1>5. ASSUME NEW g \in GroupId, NEW r \in Repo, GroupAssign(r, g)
      PROVE  TablesTyped' /\ TablesAgree'
  BY <1>5 DEF TypeOK, TablesAgree, TablesTyped, GroupAssign
<1>6. ASSUME NEW g \in GroupId, NEW r \in Repo, GroupUnassign(r, g)
      PROVE  TablesTyped' /\ TablesAgree'
  BY <1>6 DEF TypeOK, TablesAgree, TablesTyped, GroupUnassign
<1> QED BY <1>1, <1>2, <1>3, <1>4, <1>5, <1>6 DEF Regroup

-----------------------------------------------------------------------------
(* The reader. *)

\* What the reader has, stage by stage, against the history.
Got ==
    /\ reader.stage \in {"rows", "states", "done"} =>
         /\ Between(reader.got.updated, must.updated, may.updated)
         /\ must.calm \subseteq reader.got.calm
         /\ reader.got.calm \cap reader.got.updated = {}
    /\ reader.stage \in {"states", "done"} =>
         /\ Between(reader.got.attention, must.attention, may.attention)
         /\ reader.got.calm \cap reader.got.attention = {}
    /\ reader.stage = "done" => Between(reader.got.releases, must.releases, may.releases)

\* While it reads, the history brackets what it would read now.
Watched ==
    Reading =>
        /\ Between(Now.updated, must.updated, may.updated)
        /\ Between(Now.attention, must.attention, may.attention)
        /\ Between(Now.releases, must.releases, may.releases)
        /\ must.calm \subseteq Now.calm

IInv == TypeOK /\ TablesAgree /\ Watched /\ Got

\* The history only widens while one summary is read, and brackets the new moment.
Widens ==
    /\ Between(must'.updated, {}, must.updated) /\ Between(may.updated, {}, may'.updated)
    /\ Between(must'.attention, {}, must.attention) /\ Between(may.attention, {}, may'.attention)
    /\ Between(must'.releases, {}, must.releases) /\ Between(may.releases, {}, may'.releases)
    /\ must'.calm \subseteq must.calm

\* The history stays sets of repos.
LEMMA WatchTypes == TypeOK /\ repos' \subseteq Repo /\ Watch => SeenTyped'
<1> SUFFICES ASSUME TypeOK, repos' \subseteq Repo, Watch
             PROVE  SeenTyped'
  OBVIOUS
<1>1. Now' \in Bucket
  BY AtOnceType
<1> QED BY <1>1 DEF TypeOK, Watch, seen, SeenTyped, Bucket, Either, Both

\* A step during a summary widens the brackets just enough for the new moment.
LEMMA WatchKeeps ==
  ASSUME TypeOK, repos' \subseteq Repo, Watch, Reading,
         reader.stage = "asked" \/ reader'.stage # "asked"
  PROVE  /\ Widens
         /\ Between(Now'.updated, must'.updated, may'.updated)
         /\ Between(Now'.attention, must'.attention, may'.attention)
         /\ Between(Now'.releases, must'.releases, may'.releases)
         /\ must'.calm \subseteq Now'.calm
<1>1. Now' \in Bucket /\ may \in Bucket /\ must \in Bucket
  BY AtOnceType DEF TypeOK
<1>2. may' = Either(may, Now') /\ must' = Both(must, Now')
  BY DEF Watch
<1> HIDE DEF Now
<1> QED BY <1>1, <1>2 DEF Widens, Between, Either, Both, Bucket

\* A step that leaves the reader alone: the brackets widen round what it has.
LEMMA OtherSteps ==
  ASSUME IInv, repos' \subseteq Repo, Watch, UNCHANGED reader
  PROVE  Watched' /\ Got'
<1>1. CASE Reading
  <2>1. /\ Widens
        /\ Between(Now'.updated, must'.updated, may'.updated)
        /\ Between(Now'.attention, must'.attention, may'.attention)
        /\ Between(Now'.releases, must'.releases, may'.releases)
        /\ must'.calm \subseteq Now'.calm
    BY <1>1, WatchKeeps DEF IInv
  <2>2. Watched'
    BY <2>1 DEF Watched
  <2>3. Got'
    BY <1>1, <2>1 DEF IInv, Got, Widens, Between
  <2> QED BY <2>2, <2>3
<1>2. CASE ~Reading
  <2>1. UNCHANGED seen
    BY <1>2 DEF Watch, Reading
  <2> QED BY <1>2, <2>1 DEF IInv, Watched, Got, Reading, seen
<1> QED BY <1>1, <1>2

\* A query takes what is there now, which lies between the brackets.
LEMMA ReadSteps ==
  ASSUME SummaryAssumption, IInv, Read, Watch
  PROVE  IInv'
<1>1. UNCHANGED tables /\ UNCHANGED now
  BY DEF Read, Ask, ReadRows, ReadStates, ReadReleases, ReadFails
<1>2. TablesTyped' /\ TablesAgree' /\ repos' \subseteq Repo
  BY <1>1 DEF IInv, TypeOK, TablesAgree, TablesTyped, tables
<1>3. SeenTyped'
  BY <1>2, WatchTypes DEF IInv
<1>4. SUFFICES ReaderTyped' /\ Watched' /\ Got'
  BY <1>2, <1>3, TypePartsNext DEF IInv
<1>5. Now \in Bucket
  BY AtOnceType DEF IInv, TypeOK
<1>6. ASSUME NEW s \in Scope, Ask(s)
      PROVE  ReaderTyped' /\ Watched' /\ Got'
  <2>1. ReaderTyped'
    <3>1. DayWindow(now, Offset, Day) \in Window
      BY WindowType DEF IInv, TypeOK, Time
    <3> QED BY <1>6, <3>1 DEF Ask, ReaderTyped, Empty, Bucket
  <2>2. reader.stage # "asked" /\ reader'.stage = "asked"
    BY <1>6 DEF Ask, Reading
  <2>3. Watched'
    BY <2>2 DEF Watch, Watched, Between
  <2>4. Got'
    BY <2>2 DEF Got
  <2> QED BY <2>1, <2>3, <2>4
<1>7. ASSUME Reading, reader'.scope = reader.scope, reader'.window = reader.window,
             reader'.stage # "asked"
      PROVE  /\ Now' = Now
             /\ Widens
             /\ Between(Now.updated, must'.updated, may'.updated)
             /\ Between(Now.attention, must'.attention, may'.attention)
             /\ Between(Now.releases, must'.releases, may'.releases)
             /\ must'.calm \subseteq Now.calm
  <2>1. Now' = Now
    BY <1>1, <1>7 DEF Now, AtOnce, Updated, NoChange, Attention, NewReleases, Active, InScope,
                      Members, tables
  <2> QED BY <1>2, <1>7, <2>1, WatchKeeps DEF IInv
<1>8. CASE ReadRows
  <2> DEFINE updated == Updated(reader.scope, reader.window)
             noChange == NoChange(reader.scope, reader.window)
  <2>1. /\ reader.stage = "asked" /\ reader'.stage = "rows"
        /\ reader'.scope = reader.scope /\ reader'.window = reader.window
        /\ reader'.got = [reader.got EXCEPT !.updated = updated, !.calm = noChange]
    BY <1>8 DEF ReadRows, IInv, TypeOK
  <2>2. /\ updated = Now.updated /\ Now.calm \subseteq noChange
        /\ noChange \cap updated = {}
    BY DEF Now, AtOnce, NoChange
  <2>3. noChange \subseteq Repo
    BY DEF NoChange, Active, InScope, Members, IInv, TypeOK
  <2>4. ReaderTyped'
    <3> HIDE DEF updated, noChange
    <3>1. reader.got \in Bucket
      BY DEF IInv, TypeOK
    <3>2. updated \subseteq Repo
      BY <1>5, <2>2 DEF Bucket
    <3>3. reader'.got = [updated |-> updated, calm |-> noChange,
                         attention |-> reader.got.attention, releases |-> reader.got.releases]
      BY <2>1, <3>1 DEF Bucket
    <3>4. reader'.got \in Bucket
      BY <2>3, <3>1, <3>2, <3>3 DEF Bucket
    <3> QED BY <1>8, <3>4 DEF ReadRows, IInv, TypeOK, ReaderTyped
  <2>5. reader'.got.updated = Now.updated /\ reader'.got.calm = noChange
    BY <2>1, <2>2 DEF IInv, TypeOK, Bucket
  <2>6. /\ Now' = Now
        /\ Between(Now.updated, must'.updated, may'.updated)
        /\ Between(Now.attention, must'.attention, may'.attention)
        /\ Between(Now.releases, must'.releases, may'.releases)
        /\ must'.calm \subseteq Now.calm
    BY <1>7, <2>1 DEF Reading
  <2> HIDE DEF updated, noChange
  <2>7. Watched'
    BY <2>6 DEF Watched
  <2>8. Got'
    BY <2>1, <2>2, <2>5, <2>6 DEF Got
  <2> QED BY <2>4, <2>7, <2>8
<1>9. CASE ReadStates
  <2> DEFINE attention == Attention(reader.scope)
  <2>1. /\ reader.stage = "rows" /\ reader'.stage = "states"
        /\ reader'.scope = reader.scope /\ reader'.window = reader.window
        /\ reader'.got = [reader.got EXCEPT !.attention = attention,
                                           !.calm = reader.got.calm \ attention]
    BY <1>9 DEF ReadStates, IInv, TypeOK, Bucket
  <2>2. attention = Now.attention /\ Now.calm \cap attention = {}
    BY DEF Now, AtOnce
  <2>3. /\ reader'.got \in Bucket
        /\ reader'.got.updated = reader.got.updated
        /\ reader'.got.attention = Now.attention
        /\ reader'.got.calm = reader.got.calm \ Now.attention
    <3> HIDE DEF attention
    <3>1. reader.got \in Bucket
      BY DEF IInv, TypeOK
    <3>2. attention \subseteq Repo
      BY <1>5, <2>2 DEF Bucket
    <3>3. reader'.got = [updated |-> reader.got.updated, calm |-> reader.got.calm \ attention,
                         attention |-> attention, releases |-> reader.got.releases]
      BY <2>1, <3>1 DEF Bucket
    <3> QED BY <2>2, <3>1, <3>2, <3>3 DEF Bucket
  <2>4. ReaderTyped'
    BY <1>9, <2>3 DEF ReadStates, IInv, TypeOK, ReaderTyped
  <2>5. /\ Now' = Now
        /\ Widens
        /\ Between(Now.updated, must'.updated, may'.updated)
        /\ Between(Now.attention, must'.attention, may'.attention)
        /\ Between(Now.releases, must'.releases, may'.releases)
        /\ must'.calm \subseteq Now.calm
    BY <1>7, <2>1 DEF Reading
  <2>6. Watched'
    BY <2>5 DEF Watched
  <2>7. Got'
    <3> HIDE DEF attention
    <3> QED BY <2>1, <2>2, <2>3, <2>5 DEF Got, Widens, Between, IInv
  <2> QED BY <2>4, <2>6, <2>7
<1>10. CASE ReadReleases
  <2> DEFINE releases == NewReleases(reader.scope, reader.window)
  <2>1. /\ reader.stage = "states" /\ reader'.stage = "done"
        /\ reader'.scope = reader.scope /\ reader'.window = reader.window
        /\ reader'.got = [reader.got EXCEPT !.releases = releases]
    BY <1>10 DEF ReadReleases, IInv, TypeOK
  <2>2. releases = Now.releases
    BY DEF Now, AtOnce
  <2>3. /\ reader'.got \in Bucket
        /\ reader'.got.updated = reader.got.updated
        /\ reader'.got.attention = reader.got.attention
        /\ reader'.got.calm = reader.got.calm
        /\ reader'.got.releases = Now.releases
    <3> HIDE DEF releases
    <3> QED BY <1>5, <2>1, <2>2 DEF IInv, TypeOK, Bucket
  <2>4. ReaderTyped'
    BY <1>10, <2>3 DEF ReadReleases, IInv, TypeOK, ReaderTyped
  <2>5. /\ Now' = Now
        /\ Widens
        /\ Between(Now.releases, must'.releases, may'.releases)
    BY <1>7, <2>1 DEF Reading
  <2>6. Watched'
    BY <2>1 DEF Watched, Reading
  <2>7. Got'
    BY <2>1, <2>3, <2>5 DEF Got, Widens, Between, IInv
  <2> QED BY <2>4, <2>6, <2>7
<1>11. CASE ReadFails
  <2>1. DayWindow(0, Offset, Day) \in Window
    BY WindowType
  <2>2. ReaderTyped'
    BY <1>11, <2>1 DEF ReadFails, Idle, ReaderTyped, Scope, Empty, Bucket
  <2>3. reader'.stage = "idle"
    BY <1>11 DEF ReadFails, Idle
  <2> QED BY <2>2, <2>3 DEF Watched, Got, Reading
<1> QED BY <1>6, <1>8, <1>9, <1>10, <1>11 DEF Read

-----------------------------------------------------------------------------
\* Every step keeps the invariant.
LEMMA Stays == ASSUME SummaryAssumption, IInv, [Next]_vars PROVE IInv'
<1>1. CASE Read /\ Watch
  BY <1>1, ReadSteps
<1>2. CASE (Tick \/ Write \/ Regroup) /\ Watch
  <2>1. TablesTyped' /\ TablesAgree'
    BY <1>2, WriteTypes, RegroupTypes DEF IInv
  <2>2. UNCHANGED reader
    BY <1>2 DEF Tick, Write, AddRepo, RemoveRepo, EndRun, Refresh, Sweep, Regroup, GroupCreate,
                GroupRename, GroupUpdate, GroupDelete, GroupAssign, GroupUnassign
  <2>3. repos' \subseteq Repo
    BY <2>1 DEF TablesTyped
  <2>4. Watched' /\ Got'
    BY <1>2, <2>2, <2>3, OtherSteps
  <2>5. SeenTyped'
    BY <1>2, <2>3, WatchTypes DEF IInv
  <2>6. ReaderTyped'
    BY <2>2 DEF IInv, TypeOK, ReaderTyped
  <2> QED BY <2>1, <2>4, <2>5, <2>6, TypePartsNext DEF IInv
<1>3. CASE UNCHANGED vars
  BY <1>3 DEF vars, tables, seen, IInv, TypeOK, TablesAgree, Watched, Got, Reading, Now, AtOnce,
              Updated, NoChange, Attention, NewReleases, Active, InScope, Members
<1> QED BY <1>1, <1>2, <1>3 DEF Next

\* The inductive invariant holds throughout.
THEOREM Invariant == ASSUME SummaryAssumption PROVE Spec => []IInv
<1>1. Init => IInv
  BY InitTypes DEF IInv, Init, Idle, Watched, Got, Reading
<1>2. IInv /\ [Next]_vars => IInv'
  BY Stays
<1> QED BY <1>1, <1>2, PTL DEF Spec

\* Every variable keeps its type, the history's included.
THEOREM TypeCorrect == ASSUME SummaryAssumption PROVE Spec => []TypeOK
<1>1. IInv => TypeOK
  BY DEF IInv
<1> QED BY <1>1, Invariant, PTL

\* The tables: foreign keys cascade, and the names of groups differ.
THEOREM TablesStayTrue == ASSUME SummaryAssumption PROVE Spec => []TablesAgree
<1>1. IInv => TablesAgree
  BY DEF IInv
<1> QED BY <1>1, Invariant, PTL

(* An answer of three unsynchronised queries: each of its lists is true of the *)
(* time it took.                                                               *)
THEOREM AnswersTrue == ASSUME SummaryAssumption PROVE Spec => []AnswerBracketed
<1>1. IInv => AnswerBracketed
  BY DEF IInv, Got, AnswerBracketed
<1> QED BY <1>1, Invariant, PTL

\* No answer counts a repo as quiet that it lists.
THEOREM QuietOnlyUnlisted == ASSUME SummaryAssumption PROVE Spec => []BucketsDisjoint
<1>1. IInv => BucketsDisjoint
  BY DEF IInv, Got, BucketsDisjoint
<1> QED BY <1>1, Invariant, PTL

(* What summary.rs says of its queries: scoping here scopes all four.  The     *)
(* summary of a group is the summary of all repos with the others left out,    *)
(* the bare count included.                                                    *)
THEOREM ScopingScopesAll ==
  ASSUME SummaryAssumption, TypeOK, NEW g \in GroupId, NEW w \in Window
  PROVE  LET some == AtOnce(g, w)
             every == AtOnce(All, w)
         IN  /\ some.updated = every.updated \cap Members(g)
             /\ some.calm = every.calm \cap Members(g)
             /\ some.attention = every.attention \cap Members(g)
             /\ some.releases = every.releases \cap Members(g)
<1>1. InScope(g) = Members(g) /\ InScope(All) = repos /\ Members(g) \subseteq repos
  BY DEF SummaryAssumption, InScope, Members
<1>2. /\ Updated(g, w) = Updated(All, w) \cap Members(g)
      /\ NoChange(g, w) = NoChange(All, w) \cap Members(g)
  BY <1>1 DEF Updated, NoChange, Active
<1>3. /\ Attention(g) = Attention(All) \cap Members(g)
      /\ NewReleases(g, w) = NewReleases(All, w) \cap Members(g)
  BY <1>1 DEF Attention, NewReleases
<1> QED BY <1>2, <1>3 DEF AtOnce

-----------------------------------------------------------------------------
(* The Diagnostics view: its own constants and variables, and what it promises. *)

CONSTANTS Path, MaxFailures, MaxSteps
VARIABLES runnable, stored, engine, holder, save, view, last_failure, published, clock,
          steps, inForce

D == INSTANCE Diagnostics

\* The log writer's two sequences: a time is stored before it is counted, times never go
\* back, and whoever adds the n-th failure knows of its time.
HealthInv ==
    /\ last_failure \in Seq(Nat) /\ published \in Seq(Nat)
    /\ Len(published) >= 1 /\ Len(last_failure) <= MaxFailures + 1
    /\ Len(last_failure) = Len(published) \/ Len(last_failure) = Len(published) + 1
    /\ clock \in 1..(MaxFailures + 1)
    /\ \A i \in DOMAIN last_failure : last_failure[i] <= clock /\ (i > 1 => last_failure[i] >= 1)
    /\ \A i, j \in DOMAIN last_failure : i <= j => last_failure[i] <= last_failure[j]
    /\ \A i \in DOMAIN published : published[i] \in i..Len(last_failure)

\* A count that was read is one that was added.
CountInv ==
    /\ view.stage \in {"time", "shown"} => view.failures + 1 \in DOMAIN published
    /\ D!FailureDated

\* Who holds settings_write_lock.
LockInv ==
    /\ holder = "save" <=> save.stage \in {"persist", "swap"}
    /\ holder = "view" <=> view.stage \in {"engine", "settings"}

\* What is stored and what runs are in force together unless a save is half done, and what
\* a view has read of them was in force during the view.
ForceInv ==
    /\ save.stage # "swap" => <<stored, engine>> \in inForce
    /\ view.stage = "settings" => view.exe = engine
    /\ view.stage \in {"count", "time", "shown"} /\ view.path # "none" =>
         <<view.path, view.exe>> \in inForce

ViewIInv == D!TypeOK /\ HealthInv /\ CountInv /\ LockInv /\ ForceInv

\* The git that is found is one that can be run, or none.
LEMMA ResolveType ==
  ASSUME D!TypeOK, NEW path
  PROVE  D!Resolve(path) \in D!Exe
  BY DEF D!TypeOK, D!Resolve, D!Exe

\* A process that starts has told and read nothing.
LEMMA FreshHealth ==
  D!DiagnosticsAssumption /\ last_failure = <<0>> /\ published = <<1>> /\ clock = 1
    => HealthInv
<1> HAVE D!DiagnosticsAssumption /\ last_failure = <<0>> /\ published = <<1>> /\ clock = 1
<1>1. /\ last_failure \in Seq(Nat) /\ published \in Seq(Nat)
      /\ Len(last_failure) = 1 /\ Len(published) = 1
      /\ DOMAIN last_failure = {1} /\ DOMAIN published = {1}
      /\ last_failure[1] = 0 /\ published[1] = 1
  OBVIOUS
<1>2. MaxFailures \in Nat
  BY DEF D!DiagnosticsAssumption
<1> QED
  BY <1>1, <1>2 DEF HealthInv

\* The initial states.
LEMMA InitView == D!DiagnosticsAssumption /\ D!Init => ViewIInv
<1> SUFFICES ASSUME D!DiagnosticsAssumption, D!Init PROVE ViewIInv
  OBVIOUS
<1>1. HealthInv
  BY FreshHealth DEF D!Init
<1>2. MaxFailures \in Nat /\ MaxSteps \in Nat
  BY DEF D!DiagnosticsAssumption
<1>3. view.stage = "idle" /\ save.stage = "idle" /\ holder = "free"
  BY DEF D!Init, D!NoView, D!NoSave
<1>4. CountInv /\ LockInv /\ ForceInv
  BY <1>3 DEF D!Init, CountInv, LockInv, ForceInv, D!FailureDated
<1>5. runnable \subseteq Path \cup {"system"} /\ engine \in D!Exe
  BY DEF D!Init, D!Resolve, D!Exe
<1>6. D!TypeOK
  <2>1. /\ save \in [stage : {"idle", "waiting", "persist", "swap"},
                     path : Path \cup {"none"}, previous : Path \cup {"none"}]
        /\ view \in [stage : {"idle", "waiting", "engine", "settings", "count", "time", "shown"},
                     exe : D!Exe, path : Path \cup {"none"},
                     failures : 0..MaxFailures, at : 0..(MaxFailures + 1)]
    BY <1>2 DEF D!Init, D!NoSave, D!NoView, D!Exe
  <2>2. Len(last_failure) = 1 /\ Len(published) = 1
    BY DEF D!Init
  <2> QED
    BY <1>2, <1>5, <2>1, <2>2 DEF D!TypeOK, D!Init
<1> QED
  BY <1>1, <1>4, <1>6 DEF ViewIInv

-----------------------------------------------------------------------------
(* The log writer. *)

\* What is stored or counted keeps the order of the times.
LEMMA WriterHealth ==
  ASSUME D!DiagnosticsAssumption, ViewIInv, D!StoreTime \/ D!AddFailure
  PROVE  HealthInv' /\ CountInv' /\ Len(last_failure') >= Len(last_failure)
<1>1. /\ last_failure \in Seq(Nat) /\ published \in Seq(Nat) /\ MaxFailures \in Nat
      /\ clock \in Nat /\ Len(last_failure) \in Nat /\ Len(published) \in Nat
  BY DEF ViewIInv, HealthInv, D!DiagnosticsAssumption
<1>2. view' = view
  BY DEF D!StoreTime, D!AddFailure
<1>3. CASE D!StoreTime
  <2>1. PICK t \in {clock, clock + 1} :
          /\ t <= MaxFailures + 1 /\ clock' = t /\ last_failure' = Append(last_failure, t)
    BY <1>3 DEF D!StoreTime
  <2>2. /\ published' = published /\ Len(last_failure) = Len(published)
        /\ Len(published) <= MaxFailures
    BY <1>3 DEF D!StoreTime
  <2>3. /\ t \in Nat /\ clock <= t /\ t >= 1 /\ t \in 1..(MaxFailures + 1)
    BY <1>1, <2>1 DEF ViewIInv, HealthInv
  <2> DEFINE n == Len(last_failure)
  <2>4. /\ last_failure' \in Seq(Nat) /\ Len(last_failure') = n + 1
        /\ DOMAIN last_failure' = 1..(n + 1) /\ DOMAIN last_failure = 1..n
        /\ last_failure'[n + 1] = t
        /\ \A i \in 1..n : last_failure'[i] = last_failure[i]
    BY <1>1, <2>1, <2>3
  <2>5. /\ \A i \in 1..n : last_failure[i] \in Nat /\ last_failure[i] <= clock
        /\ \A i \in 1..n : i > 1 => last_failure[i] >= 1
        /\ \A i, j \in 1..n : i <= j => last_failure[i] <= last_failure[j]
    <3>1. \A i \in 1..n : last_failure[i] \in Nat
      BY <1>1, <2>4
    <3>2. DOMAIN last_failure = 1..n
      BY <2>4
    <3> HIDE DEF n
    <3>3. \A i \in 1..n : last_failure[i] <= clock /\ (i > 1 => last_failure[i] >= 1)
      BY <3>2, Zenon DEF ViewIInv, HealthInv
    <3>4. \A i, j \in 1..n : i <= j => last_failure[i] <= last_failure[j]
      BY <3>2, Zenon DEF ViewIInv, HealthInv
    <3> QED
      BY <3>1, <3>3, <3>4
  <2>6. \A i \in 1..(n + 1) : i \in 1..n \/ i = n + 1
    BY <1>1
  <2>7. \A i \in DOMAIN last_failure' : last_failure'[i] <= clock' /\ (i > 1 => last_failure'[i] >= 1)
    <3> SUFFICES ASSUME NEW i \in 1..(n + 1)
                 PROVE  last_failure'[i] <= t /\ (i > 1 => last_failure'[i] >= 1)
      BY <2>1, <2>4
    <3>1. CASE i \in 1..n
      BY <1>1, <2>3, <2>4, <2>5, <3>1
    <3>2. CASE i = n + 1
      BY <2>3, <2>4, <3>2
    <3> QED
      BY <2>6, <3>1, <3>2
  <2>8. \A i, j \in DOMAIN last_failure' : i <= j => last_failure'[i] <= last_failure'[j]
    <3> SUFFICES ASSUME NEW i \in 1..(n + 1), NEW j \in 1..(n + 1), i <= j
                 PROVE  last_failure'[i] <= last_failure'[j]
      BY <2>4
    <3>1. CASE j \in 1..n
      <4>1. i \in 1..n
        BY <1>1, <3>1
      <4> QED
        BY <2>4, <2>5, <3>1, <4>1
    <3>2. CASE j = n + 1
      <4>1. last_failure'[i] <= t
        BY <2>1, <2>4, <2>7
      <4> QED
        BY <2>4, <3>2, <4>1
    <3> QED
      BY <2>6, <3>1, <3>2
  <2>9. \A i \in DOMAIN published' : published'[i] \in i..Len(last_failure')
    <3> SUFFICES ASSUME NEW i \in DOMAIN published PROVE published[i] \in i..(n + 1)
      BY <2>2, <2>4
    <3>1. published[i] \in i..n /\ i \in Int
      BY <1>1 DEF ViewIInv, HealthInv
    <3> QED
      BY <1>1, <3>1
  <2>10. HealthInv'
    <3>1. /\ Len(published') >= 1 /\ Len(last_failure') <= MaxFailures + 1
          /\ Len(last_failure') = Len(published') + 1
      BY <1>1, <2>2, <2>4 DEF ViewIInv, HealthInv
    <3> QED
      BY <1>1, <2>1, <2>2, <2>3, <2>4, <2>7, <2>8, <2>9, <3>1 DEF HealthInv
  <2>11. CountInv'
    <3>1. view.stage \in {"time", "shown"} => view.failures + 1 \in 1..n
      BY <1>1, <2>2 DEF ViewIInv, CountInv
    <3>2. D!FailureDated'
      BY <1>2, <2>4, <3>1 DEF ViewIInv, CountInv, D!FailureDated
    <3> QED
      BY <1>2, <2>2, <3>2 DEF ViewIInv, CountInv
  <2> QED
    BY <1>1, <2>4, <2>10, <2>11
<1>4. CASE D!AddFailure
  <2> DEFINE n == Len(published)
             m == Len(last_failure)
  <2>1. /\ published' = Append(published, m) /\ m > n
        /\ last_failure' = last_failure /\ clock' = clock
    BY <1>4 DEF D!AddFailure
  <2>2. m = n + 1
    BY <1>1, <2>1 DEF ViewIInv, HealthInv
  <2>3. /\ published' \in Seq(Nat) /\ Len(published') = n + 1
        /\ DOMAIN published' = 1..(n + 1) /\ DOMAIN published = 1..n
        /\ published'[n + 1] = m
        /\ \A i \in 1..n : published'[i] = published[i]
    BY <1>1, <2>1
  <2>4. \A i \in DOMAIN published' : published'[i] \in i..Len(last_failure')
    <3> SUFFICES ASSUME NEW i \in 1..(n + 1) PROVE published'[i] \in i..m
      BY <2>1, <2>3
    <3>1. CASE i \in 1..n
      BY <2>3, <3>1 DEF ViewIInv, HealthInv
    <3>2. CASE i = n + 1
      BY <1>1, <2>2, <2>3, <3>2
    <3> QED
      BY <1>1, <3>1, <3>2
  <2>5. HealthInv'
    <3>1. Len(published') >= 1 /\ Len(last_failure') = Len(published')
      BY <1>1, <2>1, <2>2, <2>3
    <3>2. /\ last_failure' \in Seq(Nat) /\ Len(last_failure') <= MaxFailures + 1
          /\ clock' \in 1..(MaxFailures + 1)
          /\ \A i \in DOMAIN last_failure' : last_failure'[i] <= clock' /\ (i > 1 => last_failure'[i] >= 1)
          /\ \A i, j \in DOMAIN last_failure' : i <= j => last_failure'[i] <= last_failure'[j]
      BY <2>1 DEF ViewIInv, HealthInv
    <3> QED
      BY <2>3, <2>4, <3>1, <3>2 DEF HealthInv
  <2>6. CountInv'
    <3>1. view.stage \in {"time", "shown"} => view.failures + 1 \in 1..n
      BY <1>1 DEF ViewIInv, CountInv
    <3>2. \A i \in 1..n : i \in 1..(n + 1)
      BY <1>1
    <3>3. D!FailureDated'
      BY <1>2, <2>1 DEF ViewIInv, CountInv, D!FailureDated
    <3> QED
      BY <1>2, <2>3, <3>1, <3>2, <3>3 DEF CountInv
  <2> QED
    BY <1>1, <2>1, <2>5, <2>6
<1> QED
  BY <1>3, <1>4

\* The other two actions of the writer's world leave the writer alone.
LEMMA WriterTypes ==
  ASSUME D!DiagnosticsAssumption, ViewIInv, D!StoreTime \/ D!AddFailure
  PROVE  ViewIInv'
<1>1. UNCHANGED <<runnable, stored, engine, holder, save, inForce, view, steps>>
  BY DEF D!StoreTime, D!AddFailure, D!settings
<1>2. HealthInv' /\ CountInv'
  BY WriterHealth
<1>3. LockInv' /\ ForceInv'
  BY <1>1 DEF ViewIInv, LockInv, ForceInv
<1>4. D!TypeOK'
  <2>1. /\ Len(last_failure') \in Nat /\ Len(published') \in Nat /\ MaxFailures \in Nat
        /\ Len(published') >= 1 /\ Len(last_failure') <= MaxFailures + 1
        /\ Len(last_failure') = Len(published') \/ Len(last_failure') = Len(published') + 1
    BY <1>2 DEF HealthInv, D!DiagnosticsAssumption
  <2>2. Len(last_failure') \in 1..(MaxFailures + 1) /\ Len(published') \in 1..Len(last_failure')
    BY <2>1
  <2>3. clock' \in 1..(MaxFailures + 1)
    BY <1>2 DEF HealthInv
  <2> QED
    BY <1>1, <2>2, <2>3 DEF ViewIInv, D!TypeOK
<1> QED
  BY <1>2, <1>3, <1>4 DEF ViewIInv

-----------------------------------------------------------------------------
(* The save. *)

\* What a save does to the settings and the engine, step by step.
LEMMA SaveTypes ==
  ASSUME D!DiagnosticsAssumption, ViewIInv,
         \/ \E path \in Path \cup {"none"} : D!SaveCall(path)
         \/ D!SaveLock \/ D!SavePersist \/ D!SaveFails \/ D!SaveSwap
         \/ \E gits \in SUBSET (Path \cup {"system"}) : D!Outside(gits)
  PROVE  ViewIInv'
<1> DEFINE SaveType == [stage : {"idle", "waiting", "persist", "swap"},
                        path : Path \cup {"none"}, previous : Path \cup {"none"}]
<1>1. /\ D!TypeOK /\ save \in SaveType /\ stored \in Path \cup {"none"} /\ engine \in D!Exe
      /\ D!NoSave \in SaveType /\ D!NoSave.stage = "idle"
      /\ steps \in 0..MaxSteps /\ MaxSteps \in Nat
      /\ inForce \subseteq (Path \cup {"none"}) \X D!Exe
  BY DEF ViewIInv, D!TypeOK, D!NoSave, D!DiagnosticsAssumption
<1>2. UNCHANGED <<last_failure, published, clock, view>>
  BY DEF D!SaveCall, D!SaveLock, D!SavePersist, D!SaveFails, D!SaveSwap, D!Outside, D!health
<1>3. HealthInv' /\ CountInv'
  BY <1>2 DEF ViewIInv, HealthInv, CountInv, D!FailureDated
<1>4. D!Step => steps' \in 0..MaxSteps
  BY <1>1 DEF D!Step
<1> DEFINE rest == /\ runnable' \subseteq Path \cup {"system"}
                   /\ stored' \in Path \cup {"none"} /\ engine' \in D!Exe
                   /\ holder' \in {"free", "save", "view"}
                   /\ save' \in SaveType
                   /\ steps' \in 0..MaxSteps
                   /\ inForce' \subseteq (Path \cup {"none"}) \X D!Exe
<1>5. rest => D!TypeOK'
  BY <1>2 DEF ViewIInv, D!TypeOK
<1> HIDE DEF SaveType
<1>6. ASSUME NEW path \in Path \cup {"none"}, D!SaveCall(path)
      PROVE  rest /\ LockInv' /\ ForceInv'
  <2>1. /\ save' = [D!NoSave EXCEPT !.stage = "waiting", !.path = path]
        /\ save.stage = "idle" /\ D!Step
        /\ UNCHANGED <<runnable, stored, engine, holder, inForce>>
    BY <1>6 DEF D!SaveCall
  <2>2. save' \in SaveType /\ save'.stage = "waiting"
    BY <1>1, <1>6, <2>1 DEF SaveType
  <2>3. rest
    BY <1>1, <1>4, <2>1, <2>2 DEF D!TypeOK
  <2>4. LockInv' /\ ForceInv'
    BY <1>2, <2>1, <2>2 DEF ViewIInv, LockInv, ForceInv
  <2> QED
    BY <2>3, <2>4
<1>7. CASE D!SaveLock
  <2>1. /\ save' = [save EXCEPT !.stage = "persist", !.previous = stored]
        /\ save.stage = "waiting" /\ holder = "free" /\ holder' = "save"
        /\ UNCHANGED <<runnable, stored, engine, inForce, steps>>
    BY <1>7 DEF D!SaveLock
  <2>2. save' \in SaveType /\ save'.stage = "persist"
    BY <1>1, <2>1 DEF SaveType
  <2>3. rest
    BY <1>1, <2>1, <2>2 DEF D!TypeOK
  <2>4. LockInv' /\ ForceInv'
    BY <1>2, <2>1, <2>2 DEF ViewIInv, LockInv, ForceInv
  <2> QED
    BY <1>3, <1>5, <2>3, <2>4 DEF ViewIInv
<1>8. ASSUME holder = "save", holder' = "free", save' = D!NoSave, runnable' = runnable,
             stored' \in Path \cup {"none"}, engine' \in D!Exe, steps' \in 0..MaxSteps,
             inForce' = inForce \cup {<<stored', engine'>>}
      PROVE  ViewIInv'
  <2>1. rest
    BY <1>1, <1>8 DEF D!TypeOK
  <2>2. view.stage \notin {"engine", "settings"}
    BY <1>8 DEF ViewIInv, LockInv
  <2>3. LockInv' /\ ForceInv'
    BY <1>1, <1>2, <1>8, <2>2 DEF ViewIInv, LockInv, ForceInv
  <2> QED
    BY <1>3, <1>5, <2>1, <2>3 DEF ViewIInv
<1>9. save.stage \in {"persist", "swap"} => holder = "save"
  BY DEF ViewIInv, LockInv
<1>10. CASE D!SavePersist
  <2>1. /\ save.stage = "persist" /\ holder = "save" /\ stored' = save.path
        /\ save.path \in Path \cup {"none"} /\ UNCHANGED <<runnable, engine, steps>>
    BY <1>1, <1>9, <1>10 DEF D!SavePersist, SaveType
  <2>2. CASE D!EndSave
    <3>1. holder' = "free" /\ save' = D!NoSave /\ inForce' = inForce \cup {<<stored', engine'>>}
      BY <2>2 DEF D!EndSave
    <3> QED
      BY <1>1, <1>8, <2>1, <3>1
  <2>3. CASE save' = [save EXCEPT !.stage = "swap"] /\ UNCHANGED <<holder, inForce>>
    <3>1. save' \in SaveType /\ save'.stage = "swap"
      BY <1>1, <2>3 DEF SaveType
    <3>2. rest
      BY <1>1, <2>1, <2>3, <3>1 DEF D!TypeOK
    <3>3. LockInv' /\ ForceInv'
      BY <1>2, <2>1, <2>3, <3>1 DEF ViewIInv, LockInv, ForceInv
    <3> QED
      BY <1>3, <1>5, <3>2, <3>3 DEF ViewIInv
  <2> QED
    BY <1>10, <2>2, <2>3 DEF D!SavePersist
<1>11. CASE D!SaveFails
  <2>1. /\ save.stage = "persist" /\ D!Step /\ D!EndSave
        /\ UNCHANGED <<runnable, stored, engine>>
    BY <1>11 DEF D!SaveFails
  <2>2. holder' = "free" /\ save' = D!NoSave /\ inForce' = inForce \cup {<<stored', engine'>>}
    BY <2>1 DEF D!EndSave
  <2> QED
    BY <1>1, <1>4, <1>8, <1>9, <2>1, <2>2
<1>12. CASE D!SaveSwap
  <2>1. PICK path \in {stored, "none"} :
          /\ IF path = stored THEN UNCHANGED steps ELSE D!Step
          /\ engine' = IF D!Resolve(path) = "none" THEN engine ELSE D!Resolve(path)
    BY <1>12 DEF D!SaveSwap
  <2>2. /\ save.stage = "swap" /\ D!EndSave /\ UNCHANGED <<runnable, stored>>
    BY <1>12 DEF D!SaveSwap
  <2>3. holder' = "free" /\ save' = D!NoSave /\ inForce' = inForce \cup {<<stored', engine'>>}
    BY <2>2 DEF D!EndSave
  <2>4. engine' \in D!Exe
    BY <1>1, <2>1, ResolveType
  <2>5. steps' \in 0..MaxSteps
    BY <1>1, <1>4, <2>1
  <2> QED
    BY <1>1, <1>8, <1>9, <2>2, <2>3, <2>4, <2>5
<1>13. ASSUME NEW gits \in SUBSET (Path \cup {"system"}), D!Outside(gits)
       PROVE  rest /\ LockInv' /\ ForceInv'
  <2>1. runnable' = gits /\ D!Step /\ UNCHANGED <<stored, engine, holder, save, inForce>>
    BY <1>13 DEF D!Outside
  <2>2. rest
    BY <1>1, <1>4, <2>1 DEF D!TypeOK
  <2>3. LockInv' /\ ForceInv'
    BY <1>2, <2>1 DEF ViewIInv, LockInv, ForceInv
  <2> QED
    BY <2>2, <2>3
<1>14. CASE \E path \in Path \cup {"none"} : D!SaveCall(path)
  BY <1>3, <1>5, <1>6, <1>14 DEF ViewIInv
<1>15. CASE \E gits \in SUBSET (Path \cup {"system"}) : D!Outside(gits)
  BY <1>3, <1>5, <1>13, <1>15 DEF ViewIInv
<1> QED
  BY <1>7, <1>10, <1>11, <1>12, <1>14, <1>15

\* The process ends, and everything that was only in memory with it.
LEMMA RelaunchTypes ==
  ASSUME D!DiagnosticsAssumption, ViewIInv, D!Relaunch
  PROVE  ViewIInv'
<1>1. PICK path \in {stored, "none"} : engine' = D!Resolve(path)
  BY DEF D!Relaunch
<1>2. /\ D!Step /\ holder' = "free" /\ save' = D!NoSave /\ view' = D!NoView
      /\ inForce' = {<<stored, engine'>>} /\ last_failure' = <<0>> /\ published' = <<1>>
      /\ clock' = 1 /\ UNCHANGED <<runnable, stored>>
  BY DEF D!Relaunch
<1>3. MaxFailures \in Nat /\ MaxSteps \in Nat
  BY DEF D!DiagnosticsAssumption
<1>4. /\ D!NoView.stage = "idle" /\ D!NoSave.stage = "idle"
      /\ D!NoSave \in [stage : {"idle", "waiting", "persist", "swap"},
                       path : Path \cup {"none"}, previous : Path \cup {"none"}]
      /\ D!NoView \in [stage : {"idle", "waiting", "engine", "settings", "count", "time", "shown"},
                       exe : D!Exe, path : Path \cup {"none"},
                       failures : 0..MaxFailures, at : 0..(MaxFailures + 1)]
  BY <1>3 DEF D!NoView, D!NoSave, D!Exe
<1>5. HealthInv'
  <2>1. /\ last_failure' \in Seq(Nat) /\ published' \in Seq(Nat)
        /\ Len(last_failure') = 1 /\ Len(published') = 1
        /\ DOMAIN last_failure' = {1} /\ DOMAIN published' = {1}
        /\ last_failure'[1] = 0 /\ published'[1] = 1
    BY <1>2
  <2> QED
    BY <1>2, <1>3, <2>1 DEF HealthInv
<1>6. CountInv' /\ LockInv' /\ ForceInv'
  <2>1. view'.stage = "idle" /\ save'.stage = "idle"
    BY <1>2, <1>4
  <2> QED
    BY <1>2, <2>1 DEF CountInv, LockInv, ForceInv, D!FailureDated
<1>7. D!TypeOK'
  <2>1. engine' \in D!Exe
    BY <1>1, ResolveType DEF ViewIInv
  <2>2. steps' \in 0..MaxSteps
    BY <1>2, <1>3 DEF ViewIInv, D!TypeOK, D!Step
  <2>3. Len(last_failure') = 1 /\ Len(published') = 1
    BY <1>2
  <2>4. Len(last_failure') \in 1..(MaxFailures + 1) /\ Len(published') \in 1..Len(last_failure')
        /\ clock' \in 1..(MaxFailures + 1)
    BY <1>2, <1>3, <2>3
  <2>5. inForce' \subseteq (Path \cup {"none"}) \X D!Exe
    BY <1>2, <2>1 DEF ViewIInv, D!TypeOK
  <2> QED
    BY <1>2, <1>4, <2>1, <2>2, <2>4, <2>5 DEF ViewIInv, D!TypeOK
<1> QED
  BY <1>5, <1>6, <1>7 DEF ViewIInv

-----------------------------------------------------------------------------
(* The view. *)

\* A view reads engine and path under the lock, and the count before the time.
LEMMA ViewTypes ==
  ASSUME D!DiagnosticsAssumption, ViewIInv,
         D!ViewCall \/ D!ViewLock \/ D!ViewEngine \/ D!ViewSettings \/ D!ViewCount \/ D!ViewTime
  PROVE  ViewIInv'
<1> DEFINE ViewType ==
             [stage : {"idle", "waiting", "engine", "settings", "count", "time", "shown"},
              exe : D!Exe, path : Path \cup {"none"},
              failures : 0..MaxFailures, at : 0..(MaxFailures + 1)]
<1>1. /\ D!TypeOK /\ view \in ViewType /\ stored \in Path \cup {"none"} /\ engine \in D!Exe
      /\ steps \in 0..MaxSteps /\ MaxSteps \in Nat /\ MaxFailures \in Nat
      /\ inForce \subseteq (Path \cup {"none"}) \X D!Exe
      /\ holder \in {"free", "save", "view"}
  BY DEF ViewIInv, D!TypeOK, D!DiagnosticsAssumption
<1>2. D!NoView \in ViewType
  BY <1>1 DEF D!NoView, D!Exe
<1>3. UNCHANGED <<runnable, stored, engine, save, last_failure, published, clock>>
  BY DEF D!ViewCall, D!ViewLock, D!ViewEngine, D!ViewSettings, D!ViewCount, D!ViewTime,
         D!health, D!settings
<1>4. HealthInv'
  BY <1>3 DEF ViewIInv, HealthInv
<1> DEFINE rest == /\ holder' \in {"free", "save", "view"} /\ view' \in ViewType
                   /\ steps' \in 0..MaxSteps
                   /\ inForce' \subseteq (Path \cup {"none"}) \X D!Exe
<1>5. rest => D!TypeOK'
  BY <1>3 DEF ViewIInv, D!TypeOK
<1> HIDE DEF ViewType
<1>6. CASE D!ViewCall
  <2>1. /\ view' = [D!NoView EXCEPT !.stage = "waiting"] /\ view.stage \in {"idle", "shown"}
        /\ inForce' = (IF save.stage = "swap" THEN {} ELSE {<<stored, engine>>})
        /\ UNCHANGED <<holder, steps>>
    BY <1>6 DEF D!ViewCall
  <2>2. view' \in ViewType /\ view'.stage = "waiting"
    BY <1>2, <2>1 DEF ViewType
  <2>3. rest
    BY <1>1, <2>1, <2>2
  <2>4. CountInv' /\ LockInv' /\ ForceInv'
    BY <1>3, <2>1, <2>2 DEF ViewIInv, CountInv, D!FailureDated, LockInv, ForceInv
  <2> QED
    BY <1>4, <1>5, <2>3, <2>4 DEF ViewIInv
<1>7. CASE D!ViewLock
  <2>1. /\ view' = [view EXCEPT !.stage = "engine"] /\ view.stage = "waiting"
        /\ holder = "free" /\ holder' = "view" /\ UNCHANGED <<inForce, steps>>
    BY <1>7 DEF D!ViewLock
  <2>2. view' \in ViewType /\ view'.stage = "engine"
    BY <1>1, <2>1 DEF ViewType
  <2>3. rest
    BY <1>1, <2>1, <2>2
  <2>4. CountInv' /\ LockInv' /\ ForceInv'
    BY <1>3, <2>1, <2>2 DEF ViewIInv, CountInv, D!FailureDated, LockInv, ForceInv
  <2> QED
    BY <1>4, <1>5, <2>3, <2>4 DEF ViewIInv
<1>8. CASE D!ViewEngine
  <2>1. /\ view' = [view EXCEPT !.stage = "settings", !.exe = engine] /\ view.stage = "engine"
        /\ UNCHANGED <<holder, inForce, steps>>
    BY <1>8 DEF D!ViewEngine, D!settings
  <2>2. view' \in ViewType /\ view'.stage = "settings" /\ view'.exe = engine
    BY <1>1, <2>1 DEF ViewType
  <2>3. rest
    BY <1>1, <2>1, <2>2
  <2>4. CountInv' /\ LockInv' /\ ForceInv'
    BY <1>3, <2>1, <2>2 DEF ViewIInv, CountInv, D!FailureDated, LockInv, ForceInv
  <2> QED
    BY <1>4, <1>5, <2>3, <2>4 DEF ViewIInv
<1>9. CASE D!ViewSettings
  <2>1. PICK path \in {stored, "none"} :
          /\ IF path = stored THEN UNCHANGED steps ELSE D!Step
          /\ view' = [view EXCEPT !.stage = "count", !.path = path]
    BY <1>9 DEF D!ViewSettings
  <2>2. view.stage = "settings" /\ holder' = "free" /\ inForce' = inForce
    BY <1>9 DEF D!ViewSettings
  <2>3. /\ view' \in ViewType /\ view'.stage = "count" /\ view'.path = path
        /\ view'.exe = view.exe
    BY <1>1, <2>1 DEF ViewType
  <2>4. steps' \in 0..MaxSteps
    BY <1>1, <2>1 DEF D!Step
  <2>5. rest
    BY <1>1, <2>2, <2>3, <2>4
  <2>6. holder = "view" /\ save.stage \notin {"persist", "swap"} /\ view.exe = engine
        /\ <<stored, engine>> \in inForce
    BY <2>2 DEF ViewIInv, LockInv, ForceInv
  <2>7. CountInv' /\ LockInv'
    BY <1>3, <2>2, <2>3, <2>6 DEF ViewIInv, CountInv, D!FailureDated, LockInv
  <2>8. ForceInv'
    BY <1>3, <2>1, <2>2, <2>3, <2>6 DEF ForceInv
  <2> QED
    BY <1>4, <1>5, <2>5, <2>7, <2>8 DEF ViewIInv
<1>10. CASE D!ViewCount
  <2>1. PICK i \in DOMAIN published :
          view' = [view EXCEPT !.stage = "time", !.failures = i - 1]
    BY <1>10 DEF D!ViewCount
  <2>2. view.stage = "count" /\ UNCHANGED <<holder, inForce, steps>>
    BY <1>10 DEF D!ViewCount, D!settings
  <2>3. i - 1 \in 0..MaxFailures /\ i - 1 + 1 = i
    <3>1. /\ Len(published) \in Nat /\ Len(published) <= MaxFailures + 1
          /\ i \in 1..Len(published)
      <4>1. /\ published \in Seq(Nat) /\ last_failure \in Seq(Nat)
            /\ Len(last_failure) <= MaxFailures + 1
            /\ Len(last_failure) = Len(published) \/ Len(last_failure) = Len(published) + 1
        BY DEF ViewIInv, HealthInv
      <4> QED
        BY <1>1, <4>1
    <3> QED
      BY <1>1, <3>1
  <2>4. /\ view' \in ViewType /\ view'.stage = "time" /\ view'.failures = i - 1
        /\ view'.path = view.path /\ view'.exe = view.exe
    BY <1>1, <2>1, <2>3 DEF ViewType
  <2>5. rest
    BY <1>1, <2>2, <2>4
  <2>6. CountInv'
    BY <1>3, <2>3, <2>4 DEF CountInv, D!FailureDated
  <2>7. LockInv' /\ ForceInv'
    BY <1>3, <2>2, <2>4 DEF ViewIInv, LockInv, ForceInv
  <2> QED
    BY <1>4, <1>5, <2>5, <2>6, <2>7 DEF ViewIInv
<1>11. CASE D!ViewTime
  <2> DEFINE n == view.failures + 1
  <2>1. PICK i \in published[n]..Len(last_failure) :
          view' = [view EXCEPT !.stage = "shown", !.at = last_failure[i]]
    BY <1>11 DEF D!ViewTime
  <2>2. view.stage = "time" /\ UNCHANGED <<holder, inForce, steps>>
    BY <1>11 DEF D!ViewTime, D!settings
  <2>3. /\ n \in DOMAIN published /\ n \in Nat /\ n >= 1 /\ view.failures \in Nat
        /\ published[n] \in n..Len(last_failure)
        /\ last_failure \in Seq(Nat) /\ Len(last_failure) \in Nat
    <3>1. view.failures \in Nat
      BY <1>1 DEF ViewType
    <3>2. n \in DOMAIN published
      BY <2>2 DEF ViewIInv, CountInv
    <3>3. last_failure \in Seq(Nat)
      BY DEF ViewIInv, HealthInv
    <3>4. published[n] \in n..Len(last_failure)
      <4> HIDE DEF n
      <4> QED
        BY <3>2 DEF ViewIInv, HealthInv
    <3> QED
      BY <3>1, <3>2, <3>3, <3>4
  <2>4. /\ i \in 1..Len(last_failure) /\ n \in 1..Len(last_failure) /\ n <= i
        /\ i \in DOMAIN last_failure /\ n \in DOMAIN last_failure
    <3> HIDE DEF n
    <3> DEFINE low == published[n]
               m == Len(last_failure)
    <3>1. m \in Nat /\ n \in Nat /\ n >= 1 /\ low \in n..m /\ i \in low..m
      BY <2>3
    <3> HIDE DEF low, m
    <3>2. i \in 1..m /\ n \in 1..m /\ n <= i
      BY <3>1
    <3>3. DOMAIN last_failure = 1..m
      BY <2>3 DEF m
    <3> QED
      BY <3>2, <3>3 DEF m
  <2>5. last_failure[n] <= last_failure[i] /\ last_failure[i] \in Nat
    <3>1. \A j, k \in DOMAIN last_failure : j <= k => last_failure[j] <= last_failure[k]
      BY DEF ViewIInv, HealthInv
    <3>2. last_failure[i] \in Nat
      BY <2>3, <2>4
    <3> HIDE DEF n
    <3>3. last_failure[n] <= last_failure[i]
      BY <2>4, <3>1, Zenon
    <3> QED
      BY <3>2, <3>3
  <2>6. last_failure[i] <= clock /\ (i > 1 => last_failure[i] >= 1) /\ clock \in 1..(MaxFailures + 1)
    BY <2>4 DEF ViewIInv, HealthInv
  <2>7. last_failure[i] \in 0..(MaxFailures + 1)
    BY <1>1, <2>5, <2>6
  <2>8. /\ view' \in ViewType /\ view'.stage = "shown" /\ view'.failures = view.failures
        /\ view'.at = last_failure[i] /\ view'.path = view.path /\ view'.exe = view.exe
    BY <1>1, <2>1, <2>7 DEF ViewType
  <2>9. rest
    BY <1>1, <2>2, <2>8
  <2>10. CountInv'
    <3>1. view'.failures > 0 => view'.at >= last_failure'[view'.failures + 1] /\ view'.at # 0
      <4>1. view'.failures + 1 = n /\ last_failure' = last_failure
        BY <1>3, <2>8
      <4>3. view.failures > 0 => i > 1
        BY <2>3, <2>4
      <4> HIDE DEF n
      <4>2. last_failure[n] \in Nat
        <5>1. \A j \in DOMAIN last_failure : last_failure[j] \in Nat
          BY <2>3
        <5> QED
          BY <2>4, <5>1, Zenon
      <4> QED
        BY <2>5, <2>6, <2>8, <4>1, <4>2, <4>3
    <3> QED
      BY <1>3, <2>3, <2>8, <3>1 DEF CountInv, D!FailureDated
  <2>11. LockInv' /\ ForceInv'
    BY <1>3, <2>2, <2>8 DEF ViewIInv, LockInv, ForceInv
  <2> QED
    BY <1>4, <1>5, <2>9, <2>10, <2>11 DEF ViewIInv
<1> QED
  BY <1>6, <1>7, <1>8, <1>9, <1>10, <1>11

\* The inductive invariant of the view, the save it runs beside and the log writer.
THEOREM ViewInvariant == ASSUME D!DiagnosticsAssumption PROVE D!Spec => []ViewIInv
<1>1. D!Init => ViewIInv
  BY InitView
<1>2. ViewIInv /\ [D!Next]_D!vars => ViewIInv'
  <2> SUFFICES ASSUME ViewIInv, [D!Next]_D!vars PROVE ViewIInv'
    OBVIOUS
  <2>1. CASE \/ \E path \in Path \cup {"none"} : D!SaveCall(path)
             \/ D!SaveLock \/ D!SavePersist \/ D!SaveFails \/ D!SaveSwap
             \/ \E gits \in SUBSET (Path \cup {"system"}) : D!Outside(gits)
    BY <2>1, SaveTypes
  <2>2. CASE D!Relaunch
    BY <2>2, RelaunchTypes
  <2>3. CASE D!StoreTime \/ D!AddFailure
    BY <2>3, WriterTypes
  <2>4. CASE \/ D!ViewCall \/ D!ViewLock \/ D!ViewEngine \/ D!ViewSettings \/ D!ViewCount
             \/ D!ViewTime
    BY <2>4, ViewTypes
  <2>5. CASE UNCHANGED D!vars
    BY <2>5 DEF D!vars, D!settings, D!health, ViewIInv, D!TypeOK, HealthInv, CountInv,
                D!FailureDated, LockInv, ForceInv
  <2> QED
    BY <2>1, <2>2, <2>3, <2>4, <2>5 DEF D!Next
<1> QED
  BY <1>1, <1>2, PTL DEF D!Spec

\* The view raises the alarm that a configured path is not honored only if path and git
\* were in force together during the call: a save under way is never reported as ignored.
THEOREM AlarmIsTrue == ASSUME D!DiagnosticsAssumption PROVE D!Spec => []D!NoFalseAlarm
<1>1. ViewIInv => D!NoFalseAlarm
  BY DEF ViewIInv, ForceInv, D!NoFalseAlarm, D!Honored
<1> QED
  BY <1>1, ViewInvariant, PTL

\* A view that reports n failed writes says when: no earlier than the n-th, and never "never".
THEOREM FailureIsDated == ASSUME D!DiagnosticsAssumption PROVE D!Spec => []D!FailureDated
<1>1. ViewIInv => D!FailureDated
  BY DEF ViewIInv, CountInv
<1> QED
  BY <1>1, ViewInvariant, PTL
=============================================================================
