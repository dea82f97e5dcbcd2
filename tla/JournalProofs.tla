---------------------------- MODULE JournalProofs ----------------------------
(***************************************************************************)
(* For any repos, any number of runs and any settings: the types of        *)
(* Journal, that no note of a failure is lost but for the listed reasons,  *)
(* and that no receipt is swept before its time.                           *)
(***************************************************************************)
EXTENDS Journal, FiniteSetTheorems, TLAPS

\* A run belongs to one job, which has stored its result and told nothing of it.
JobInv ==
    \A r \in Repo :
        /\ job[r].stage \in {"idle", "spawned"} => job[r].run = 0
        /\ job[r].stage = "stored" => job[r].run # 0 /\ audit[job[r].run] = "stored"
        /\ job[r].run # 0 => note[job[r].run] = "none" /\ audit[job[r].run] # "none"
        /\ \A q \in Repo : job[q].run = job[r].run /\ job[r].run # 0 => q = r

\* Notes are in hand between the drain and the toasts only, and were drained outside quiet
\* hours; a sweep that is sure of its retention keeps as much as the row asks.
LoopInv ==
    /\ loop.stage # "raise" => loop.taken = << >>
    /\ loop.stage = "raise" => ~IsQuiet(loop.settings, loop.drained)
    /\ loop.stage = "sweep" /\ loop.sure => settings.retention <= loop.days

IInv == TypeOK /\ JobInv /\ LoopInv /\ NotesAccounted /\ ReceiptsAccounted

-----------------------------------------------------------------------------
(* Arithmetic and sequences *)

\* More days are at least as many minutes.
LEMMA MoreDays ==
  ASSUME NEW a \in Nat, NEW b \in Nat, a <= b
  PROVE  a * Day <= b * Day /\ a * Day \in Nat
<1>1. Day \in Nat /\ (b - a) * Day \in Nat /\ a * Day \in Nat
  BY JournalAssumption
<1>2. b * Day = a * Day + (b - a) * Day
  BY <1>1
<1> QED
  BY <1>1, <1>2

\* What a sequence holds, and what it holds with one more item.
LEMMA ItemsType ==
  ASSUME NEW seq \in Seq(Run)
  PROVE  Items(seq) \subseteq Run
BY DEF Items

LEMMA ItemsAppend ==
  ASSUME NEW seq \in Seq(Run), NEW n \in Run
  PROVE  Items(Append(seq, n)) = Items(seq) \cup {n}
<1> DEFINE more == Append(seq, n)
<1>1. DOMAIN more = DOMAIN seq \cup {Len(seq) + 1} /\ more[Len(seq) + 1] = n
  OBVIOUS
<1>2. \A i \in DOMAIN seq : more[i] = seq[i]
  OBVIOUS
<1> QED
  BY <1>1, <1>2 DEF Items

\* The window the scheduler tests is the one the user sets, over midnight too, and one
\* that ends where it starts is never quiet (in_quiet_hours of scheduler.rs, is_quiet of notify.rs).
THEOREM QuietHoursRight ==
  ASSUME NEW now \in 0..(Day - 1), NEW start \in 0..(Day - 1) \cup {NoWindow},
         NEW end \in 0..(Day - 1) \cup {NoWindow}
  PROVE  /\ InQuietHours(now, start, end) <=> InWindow(start, end, now)
         /\ ~InQuietHours(now, start, start)
<1>1. Day \in Nat /\ now \in 0..(Day - 1)
  BY JournalAssumption
<1>2. CASE start = NoWindow \/ end = NoWindow
  BY <1>1, <1>2 DEF InQuietHours, InWindow, NoWindow
<1>3. CASE start # NoWindow /\ end # NoWindow
  BY <1>1, <1>3 DEF InQuietHours, InWindow, Ahead
<1> QED
  BY <1>2, <1>3

LEMMA SilentIsQuiet ==
  ASSUME NEW s, NEW now \in 0..(Day - 1)
  PROVE  Silent(s, now) <=> IsQuiet(s, now)
<1>1. InQuietHours(now, QuietStart, QuietEnd) <=> InWindow(QuietStart, QuietEnd, now)
  BY QuietHoursRight, JournalAssumption
<1> QED
  BY <1>1, Zenon DEF Silent, IsQuiet

\* The toasts of a drained buffer speak of every note in it (coalesce drops nothing).
LEMMA AllSpoken ==
  ASSUME NEW notes \in Seq(Run)
  PROVE  UNION Toasts(Coalesce(notes), notes) = Items(notes)
<1> DEFINE shown == IF Len(notes) < MAX_INDIVIDUAL_TOASTS THEN Len(notes) ELSE MAX_INDIVIDUAL_TOASTS
           alone == SubSeq(notes, 1, shown)
           rest == Rest(Coalesce(notes), notes)
<1>1. shown \in Nat /\ shown <= Len(notes) /\ Len(notes) \in Nat
  BY JournalAssumption
<1>2. Len(alone) = shown /\ DOMAIN alone = 1..shown /\ \A i \in 1..shown : alone[i] = notes[i]
  BY <1>1
<1>3. Items(alone) = {notes[i] : i \in 1..shown}
  BY <1>2 DEF Items
<1>4. Coalesce(notes).alone = alone /\ Coalesce(notes).more = Len(notes) - shown
  BY DEF Coalesce
<1>a. UNION Toasts(Coalesce(notes), notes) = Items(alone) \cup rest
  BY <1>4, Zenon DEF Toasts
<1> HIDE DEF alone, shown
<1>5. {j \in DOMAIN notes : shown < j /\ j <= shown + (Len(notes) - shown)} = (shown + 1)..Len(notes)
  BY <1>1
<1>6. rest = {notes[i] : i \in (shown + 1)..Len(notes)}
  BY <1>2, <1>4, <1>5 DEF Rest
<1>7. DOMAIN notes = 1..Len(notes)
  OBVIOUS
<1>8. 1..Len(notes) = (1..shown) \cup ((shown + 1)..Len(notes))
  BY <1>1
<1> QED
  BY <1>a, <1>3, <1>6, <1>7, <1>8 DEF Items
-----------------------------------------------------------------------------
(* Types *)

\* The loop keeps its shape from stage to stage.
LEMMA LoopType ==
  ASSUME loop \in Loop, JournalAssumption
  PROVE  /\ IterationDone \in Loop /\ AfterFiring(loop) \in Loop /\ NoLoop \in Loop
         /\ IterationDone.stage = "idle" /\ AfterFiring(loop).stage \in {"idle", "gate"}
         /\ IterationDone.taken = loop.taken /\ AfterFiring(loop).taken = << >>
         /\ \A stage \in {"gate", "idle", "cycle", "fire"}, tick \in {"due", "begun", "done"} :
              [loop EXCEPT !.stage = stage, !.tick = tick] \in Loop
<1>1. Defaults \in Row /\ DEFAULT_RETENTION_DAYS \in Retention /\ 0 \in 0..(Day - 1) /\ << >> \in Seq(Run)
  BY JournalAssumption
<1>2. NoLoop \in Loop
  BY <1>1 DEF NoLoop, Loop
<1>3. IterationDone \in Loop /\ IterationDone.stage = "idle" /\ IterationDone.taken = loop.taken
  BY <1>1 DEF IterationDone, Loop
<1>4. /\ AfterFiring(loop) \in Loop /\ AfterFiring(loop).stage \in {"idle", "gate"}
      /\ AfterFiring(loop).taken = << >>
  BY <1>1 DEF AfterFiring, Loop
<1>5. \A stage \in {"gate", "idle", "cycle", "fire"}, tick \in {"due", "begun", "done"} :
        [loop EXCEPT !.stage = stage, !.tick = tick] \in Loop
  BY DEF Loop
<1> QED
  BY <1>2, <1>3, <1>4, <1>5

\* The initial states have the types.
LEMMA InitType == Init => TypeOK
<1> SUFFICES ASSUME Init PROVE TypeOK
  OBVIOUS
<1>1. NoLoop \in Loop
  BY JournalAssumption DEF NoLoop, Loop
<1>2. 0 \in 0..(Day - 1) /\ << >> \in Seq(Run)
  BY JournalAssumption
<1>3. job \in [Repo -> Job] /\ ~Busy
  BY DEF Init, NoJob, Job, Busy
<1>4. log \in [DOMAIN log -> Int] /\ DOMAIN log \subseteq Run
  BY DEF Init
<1>5. left \in Left
  BY JournalAssumption DEF Init, Left
<1> QED
  BY <1>1, <1>2, <1>3, <1>4, <1>5 DEF Init, TypeOK

\* What the bounds leave stays within them.
LEMMA LeftType ==
  ASSUME left \in Left, JournalAssumption
  PROVE  /\ \A n \in Nat : Failing(n) => left' \in Left
         /\ \A n \in Nat : n <= left.runs => [left EXCEPT !.runs = @ - n] \in Left
         /\ left.saves > 0 => [left EXCEPT !.saves = @ - 1] \in Left
         /\ left.slow > 0 => [left EXCEPT !.slow = @ - 1] \in Left
<1>1. {MaxRuns, MaxFaults, MaxSaves, MaxSlow} \subseteq Nat
  BY DEF JournalAssumption
<1> QED
  BY <1>1 DEF Left, Failing

\* Every step of a job keeps the types.
LEMMA RunsType ==
  ASSUME TypeOK, JobInv, NEW r \in Repo, JobStep(r)
  PROVE  TypeOK'
<1> USE JournalAssumption
<1>a. left \in Left
  BY DEF TypeOK
<1>0. Fresh \subseteq Run
  BY DEF Fresh
<1>n. NoJob \in Job
  BY DEF NoJob, Job
<1>1. CASE JobRun(r)
  <2>1. job' \in [Repo -> Job]
    <3>1. \A n \in Fresh : [stage |-> "stored", run |-> n] \in Job
      BY <1>0 DEF Job
    <3>2. [job[r] EXCEPT !.stage = "over"] \in Job
      BY DEF TypeOK, Job
    <3> QED
      BY <1>1, <3>1, <3>2 DEF JobRun, TypeOK
  <2>2. loop.stage = "cycle"
    BY <1>1 DEF JobRun, TypeOK, Busy
  <2>3. audit' \in [Run -> {"none", "stored", "logged", "unlogged", "swept", "bare"}]
    BY <1>1, <1>0 DEF JobRun, TypeOK
  <2> QED
    BY <1>1, <2>1, <2>2, <2>3 DEF JobRun, TypeOK
<1>2. CASE JobReceipt(r)
  <2>1. job' \in [Repo -> Job]
    BY <1>2 DEF JobReceipt, TypeOK, Job
  <2>2. loop.stage = "cycle"
    BY <1>2 DEF JobReceipt, TypeOK, Busy
  <2>3. audit' \in [Run -> {"none", "stored", "logged", "unlogged", "swept", "bare"}]
    BY <1>2 DEF JobReceipt, TypeOK
  <2>4. left' \in Left
    BY <1>2, <1>a, LeftType DEF JobReceipt
  <2>5. log' \in [DOMAIN log' -> Int] /\ DOMAIN log' \subseteq Run
    <3>1. job[r].run \in Run \/ job[r].run = 0
      BY DEF TypeOK, Job
    <3>2. CASE log' = log
      BY <3>2 DEF TypeOK
    <3>3. CASE Insert(job[r].run)
      <4>1. job[r].run \in Run
        BY <1>2 DEF JobReceipt, JobInv, TypeOK, Job
      <4> QED
        BY <3>3, <4>1 DEF Insert, TypeOK
    <3> QED
      BY <1>2, <3>2, <3>3 DEF JobReceipt
  <2> QED
    BY <1>2, <2>1, <2>2, <2>3, <2>4, <2>5 DEF JobReceipt, TypeOK
<1>3. CASE JobRecord(r)
  <2>1. job' \in [Repo -> Job]
    BY <1>3, <1>n DEF JobRecord, TypeOK
  <2>2. loop.stage = "cycle"
    BY <1>3 DEF JobRecord, TypeOK, Busy
  <2>3. left' \in Left
    BY <1>3, <1>a, LeftType DEF JobRecord
  <2>4. /\ held' \in Seq(Run)
        /\ note' \in [Run -> {"none", "held", "taken", "told", "unshown", "withheld", "missed", "dropped", "died"}]
    <3>1. RunOf(r) \subseteq Run
      BY <1>0 DEF RunOf, TypeOK, Job
    <3>2. \A n \in Run : /\ Append(held, n) \in Seq(Run)
                         /\ [note EXCEPT ![n] = "held"]
                              \in [Run -> {"none", "held", "taken", "told", "unshown", "withheld", "missed", "dropped", "died"}]
      BY DEF TypeOK
    <3>3. CASE UNCHANGED <<held, note>>
      BY <3>3 DEF TypeOK
    <3>4. CASE \E n \in RunOf(r) : held' = Append(held, n) /\ note' = [note EXCEPT ![n] = "held"]
      BY <3>1, <3>2, <3>4
    <3> QED
      BY <1>3, <3>3, <3>4 DEF JobRecord
  <2> QED
    BY <1>3, <2>1, <2>2, <2>3, <2>4 DEF JobRecord, TypeOK
<1> QED
  BY <1>1, <1>2, <1>3 DEF JobStep

\* So does a check.
LEMMA CheckType ==
  ASSUME TypeOK, ManualCheck
  PROVE  TypeOK'
<1> USE JournalAssumption
<1>a. left \in Left
  BY DEF TypeOK
<1>0. Fresh \subseteq Run
  BY DEF Fresh
<1> PICK n \in Fresh, wrote \in BOOLEAN :
       /\ left.faults >= Count(~wrote)
       /\ left' = [left EXCEPT !.runs = @ - 1, !.faults = @ - Count(~wrote)]
       /\ IF wrote THEN Insert(n) ELSE UNCHANGED log
       /\ audit' = IF CheckCommits(wrote)
                   THEN [audit EXCEPT ![n] = IF wrote THEN "logged" ELSE "bare"]
                   ELSE audit
  BY DEF ManualCheck
<1>1. left' \in Left
  <2>1. Count(~wrote) \in {0, 1} /\ left.runs > 0
    BY DEF Count, ManualCheck
  <2>2. {MaxRuns, MaxFaults, MaxSaves, MaxSlow} \subseteq Nat
    OBVIOUS
  <2>3. left.runs - 1 \in 0..MaxRuns /\ left.faults - Count(~wrote) \in 0..MaxFaults
    BY <1>a, <2>1, <2>2 DEF Left
  <2> QED
    BY <1>a, <2>3 DEF Left
<1>2. audit' \in [Run -> {"none", "stored", "logged", "unlogged", "swept", "bare"}]
  BY <1>0 DEF TypeOK
<1>3. log' \in [DOMAIN log' -> Int] /\ DOMAIN log' \subseteq Run
  BY <1>0 DEF Insert, TypeOK
<1> QED
  BY <1>1, <1>2, <1>3 DEF ManualCheck, TypeOK, Busy

\* Every step of the loop keeps the types.
LEMMA LoopStepType ==
  ASSUME TypeOK, LoopStep
  PROVE  TypeOK'
<1> USE JournalAssumption
<1>a. loop \in Loop /\ left \in Left
  BY DEF TypeOK
<1>b. IsFiniteSet(Repo)
  BY DEF JournalAssumption
<1>1. CASE Gate
  <2>1. loop' \in Loop /\ ~Busy
    <3>1. \A readable \in BOOLEAN, d \in Retention :
            [loop EXCEPT !.stage = "sweep", !.sure = readable, !.days = d] \in Loop
      BY <1>a DEF Loop
    <3>2. RetentionDays(settings.retention) \in Retention /\ DEFAULT_RETENTION_DAYS \in Retention
      BY DEF RetentionDays, TypeOK, Settings
    <3>3. ~Busy
      BY <1>1 DEF Gate, TypeOK
    <3>4. loop' = IterationDone \/ \E readable \in BOOLEAN, d \in Retention :
            loop' = [loop EXCEPT !.stage = "sweep", !.sure = readable, !.days = d]
      BY <1>1, <3>2 DEF Gate
    <3> QED
      BY <1>a, <3>1, <3>3, <3>4, LoopType
  <2>2. left' \in Left
    <3>1. \A failed \in BOOLEAN : Count(failed) \in Nat
      BY DEF Count
    <3>2. left' = left \/ \E readable \in BOOLEAN : Failing(Count(~readable))
      BY <1>1 DEF Gate
    <3> QED
      BY <1>a, <3>1, <3>2, LeftType
  <2>3. since' \in Int
    <3>1. \A due : Advanced(due) = 0 \/ Advanced(due) = since
      BY Zenon DEF Advanced
    <3>2. since' = 0 \/ since' = since
      BY <1>1, <3>1 DEF Gate
    <3> QED
      BY <3>2 DEF TypeOK
  <2> QED
    BY <1>1, <2>1, <2>2, <2>3 DEF Gate, TypeOK, Busy
<1>2. CASE Sweep
  <2>1. loop' \in Loop /\ ~Busy
    <3>1. \A l \in Loop : [l EXCEPT !.sure = TRUE, !.days = DEFAULT_RETENTION_DAYS] \in Loop
      BY DEF Loop
    <3> QED
      BY <1>2, <1>a, <3>1, LoopType DEF Sweep, TypeOK
  <2>2. left' \in Left
    BY <1>2, <1>a, LeftType DEF Sweep
  <2>3. log' \in [DOMAIN log' -> Int] /\ DOMAIN log' \subseteq Run
    BY <1>2 DEF Sweep, TypeOK
  <2>4. audit' \in [Run -> {"none", "stored", "logged", "unlogged", "swept", "bare"}]
    BY <1>2 DEF Sweep, TypeOK
  <2> QED
    BY <1>2, <2>1, <2>2, <2>3, <2>4 DEF Sweep, TypeOK, Busy
<1>3. CASE Tick
  <2>1. loop' \in Loop
    BY <1>3, <1>a, LoopType DEF Tick
  <2>2. left' \in Left
    <3>1. \A due \in SUBSET Repo : Cardinality(due) \in Nat
      BY <1>b, FS_Subset, FS_CardinalityType
    <3>2. (\E due \in SUBSET Repo : /\ Cardinality(due) <= left.runs
                                   /\ left' = [left EXCEPT !.runs = @ - Cardinality(due)])
          \/ Failing(1)
      BY <1>3 DEF Tick
    <3> QED
      BY <1>a, <3>1, <3>2, LeftType
  <2>3. ~Busy
    BY <1>3 DEF Tick, TypeOK
  <2>4. job' \in [Repo -> Job] /\ (Busy' => loop'.stage = "cycle")
    <3>1. [NoJob EXCEPT !.stage = "spawned"] \in Job
      BY DEF NoJob, Job
    <3>2. CASE Failing(1) /\ UNCHANGED job
      BY <2>3, <3>2 DEF TypeOK, Busy
    <3>3. CASE loop' = [loop EXCEPT !.stage = "cycle", !.tick = "begun"]
               /\ \E due \in SUBSET Repo :
                    job' = [r \in Repo |-> IF r \in due THEN [NoJob EXCEPT !.stage = "spawned"] ELSE job[r]]
      <4>1. loop'.stage = "cycle"
        BY <1>a, <3>3 DEF Loop
      <4> QED
        BY <3>1, <3>3, <4>1 DEF TypeOK
    <3> QED
      BY <1>3, <3>2, <3>3 DEF Tick
  <2> QED
    BY <1>3, <2>1, <2>2, <2>4 DEF Tick, TypeOK
<1>4. CASE Join
  <2>1. loop' \in Loop
    BY <1>4, <1>a DEF Join, Loop
  <2> QED
    BY <1>4, <2>1 DEF Join, TypeOK, Busy
<1>5. CASE Fire
  <2>1. loop' \in Loop /\ ~Busy
    <3>1. [loop EXCEPT !.stage = "drain", !.settings = settings] \in Loop
      BY <1>a DEF Loop, TypeOK
    <3> QED
      BY <1>5, <1>a, <3>1, LoopType DEF Fire, TypeOK
  <2>2. left' \in Left
    <3>1. Count(held # << >>) \in Nat
      BY DEF Count
    <3> QED
      BY <1>5, <1>a, <3>1, LeftType DEF Fire
  <2> QED
    BY <1>5, <2>1, <2>2 DEF Fire, TypeOK, Busy
<1>6. CASE Drain
  <2>1. loop' \in Loop /\ ~Busy
    <3>1. [loop EXCEPT !.stage = "raise", !.taken = held, !.drained = minute] \in Loop
      BY <1>a DEF Loop, TypeOK
    <3> QED
      BY <1>6, <1>a, <3>1, LoopType DEF Drain, TypeOK
  <2>2. /\ held' \in Seq(Run)
        /\ note' \in [Run -> {"none", "held", "taken", "told", "unshown", "withheld", "missed", "dropped", "died"}]
    <3>1. << >> \in Seq(Run)
      OBVIOUS
    <3>2. \A w \in {"taken"} : [n \in Run |-> IF n \in Items(held) THEN w ELSE note[n]]
            \in [Run -> {"none", "held", "taken", "told", "unshown", "withheld", "missed", "dropped", "died"}]
      BY DEF TypeOK
    <3>3. CASE MayDrain(loop.settings, minute)
      BY <1>6, <3>1, <3>2, <3>3 DEF Drain
    <3>4. CASE ~MayDrain(loop.settings, minute)
      BY <1>6, <3>4 DEF Drain, TypeOK
    <3> QED
      BY <3>3, <3>4
  <2> QED
    BY <1>6, <2>1, <2>2 DEF Drain, TypeOK, Busy
<1>7. CASE Raise
  <2>1. loop' \in Loop /\ ~Busy
    BY <1>7, <1>a, LoopType DEF Raise, TypeOK
  <2>2. note' \in [Run -> {"none", "held", "taken", "told", "unshown", "withheld", "missed", "dropped", "died"}]
    BY <1>7 DEF Raise, TypeOK
  <2>3. left' \in Left
    <3>1. PICK n \in {0, 1} : Failing(n)
      BY <1>7 DEF Raise, Count
    <3> QED
      BY <1>a, <3>1, LeftType
  <2> QED
    BY <1>7, <2>1, <2>2, <2>3 DEF Raise, TypeOK, Busy
<1> QED
  BY <1>1, <1>2, <1>3, <1>4, <1>5, <1>6, <1>7 DEF LoopStep

\* So do the user, the clock and the end of the process.
LEMMA OutsideType ==
  ASSUME TypeOK, NEW s \in Row, Launch \/ Crash \/ Change(s) \/ Pass \/ SetClockBack
  PROVE  TypeOK'
<1> USE JournalAssumption
<1>a. loop \in Loop /\ left \in Left /\ NoLoop \in Loop
  BY LoopType DEF TypeOK
<1>b. Day \in Nat \ {0} /\ minute \in Int
  BY DEF JournalAssumption, TypeOK
<1>1. CASE Launch
  <2>1. loop' \in Loop /\ ~Busy
    BY <1>1, <1>a DEF Launch, Loop, Running, TypeOK
  <2> QED
    BY <1>1, <2>1 DEF Launch, TypeOK, Busy
<1>2. CASE Crash
  <2>1. job' \in [Repo -> Job] /\ ~Busy'
    BY <1>2 DEF Crash, NoJob, Job, Busy
  <2>2. left' \in Left
    BY <1>2, <1>a, LeftType DEF Crash
  <2>3. audit' \in [Run -> {"none", "stored", "logged", "unlogged", "swept", "bare"}]
    BY <1>2 DEF Crash, TypeOK
  <2>4. note' \in [Run -> {"none", "held", "taken", "told", "unshown", "withheld", "missed", "dropped", "died"}]
    BY <1>2 DEF Crash, TypeOK
  <2> QED
    BY <1>2, <1>a, <2>1, <2>2, <2>3, <2>4 DEF Crash, TypeOK
<1>3. CASE Change(s)
  <2>1. loop' \in Loop /\ loop'.stage = loop.stage
    BY <1>3, <1>a DEF Change, Loop
  <2>2. left' \in Left
    BY <1>3, <1>a, LeftType DEF Change
  <2> QED
    BY <1>3, <2>1, <2>2 DEF Change, TypeOK, Busy
<1>4. CASE Pass
  <2>1. loop' \in Loop /\ loop'.stage = loop.stage
    BY <1>4, <1>a DEF Pass, Loop
  <2>2. left' \in Left
    BY <1>4, <1>a, LeftType DEF Pass
  <2>3. minute' \in 0..(Day - 1)
    BY <1>4, <1>b DEF Pass
  <2>4. log' \in [DOMAIN log' -> Int] /\ DOMAIN log' \subseteq Run /\ since' \in Int
    BY <1>4, <1>b DEF Pass, Least, TypeOK, JournalAssumption
  <2> QED
    BY <1>4, <2>1, <2>2, <2>3, <2>4 DEF Pass, TypeOK, Busy
<1>5. CASE SetClockBack
  <2>1. left' \in Left
    BY <1>5, <1>a, LeftType DEF SetClockBack
  <2>2. minute' \in 0..(Day - 1)
    BY <1>5, <1>b DEF SetClockBack
  <2>3. log' \in [DOMAIN log' -> Int] /\ DOMAIN log' \subseteq Run /\ since' \in Int
    BY <1>5 DEF SetClockBack, TypeOK
  <2> QED
    BY <1>5, <2>1, <2>2, <2>3 DEF SetClockBack, TypeOK, Busy
<1> QED
  BY <1>1, <1>2, <1>3, <1>4, <1>5

\* Every step keeps the types.
LEMMA NextType == TypeOK /\ JobInv /\ [Next]_vars => TypeOK'
<1> SUFFICES ASSUME TypeOK, JobInv, [Next]_vars PROVE TypeOK'
  OBVIOUS
<1>1. CASE UNCHANGED vars
  BY <1>1 DEF vars, TypeOK, Busy
<1>2. CASE LoopStep
  BY <1>2, LoopStepType
<1>3. CASE \E r \in Repo : JobStep(r)
  BY <1>3, RunsType
<1>4. CASE ManualCheck
  BY <1>4, CheckType
<1>5. CASE Launch \/ Crash \/ Pass \/ SetClockBack \/ \E s \in Row : Change(s)
  <2>1. Defaults \in Row
    BY JournalAssumption
  <2> QED
    BY <1>5, <2>1, OutsideType
<1> QED
  BY <1>1, <1>2, <1>3, <1>4, <1>5 DEF Next

-----------------------------------------------------------------------------
(* The invariant *)

\* The initial states satisfy the invariant.
LEMMA InitInv == Init => IInv
<1> SUFFICES ASSUME Init PROVE IInv
  OBVIOUS
<1>1. TypeOK
  BY InitType
<1>2. JobInv
  BY DEF Init, JobInv, NoJob
<1>3. LoopInv
  BY DEF Init, LoopInv, NoLoop
<1>4. Items(held) = {} /\ Items(loop.taken) = {}
  BY DEF Init, NoLoop, Items
<1>5. NotesAccounted
  BY <1>4 DEF Init, NotesAccounted
<1>6. ReceiptsAccounted
  BY DEF Init, ReceiptsAccounted
<1> QED
  BY <1>1, <1>2, <1>3, <1>5, <1>6 DEF IInv

\* A run's result gets a number no run has, and its receipt goes under it.
LEMMA ResultInv ==
  ASSUME IInv, NEW r \in Repo, JobRun(r) \/ JobReceipt(r)
  PROVE  JobInv' /\ LoopInv' /\ NotesAccounted' /\ ReceiptsAccounted'
<1> USE DEF IInv
<1>1. LoopInv' /\ NotesAccounted'
  BY DEF JobRun, JobReceipt, LoopInv, NotesAccounted
<1>2. CASE JobRun(r)
  <2>1. CASE job' = [job EXCEPT ![r].stage = "over"] /\ UNCHANGED audit
    BY <1>1, <1>2, <2>1 DEF JobRun, JobInv, ReceiptsAccounted, TypeOK, Job
  <2>2. CASE \E n \in Fresh : /\ job' = [job EXCEPT ![r] = [stage |-> "stored", run |-> n]]
                             /\ audit' = [audit EXCEPT ![n] = "stored"]
    <3> PICK n \in Fresh : /\ job' = [job EXCEPT ![r] = [stage |-> "stored", run |-> n]]
                           /\ audit' = [audit EXCEPT ![n] = "stored"]
      BY <2>2
    <3>1. n \in Run /\ n # 0 /\ audit[n] = "none" /\ note[n] = "none"
      BY JournalAssumption DEF Fresh, Unused, Run
    <3>2. \A q \in Repo : job[q].run # n
      BY <3>1 DEF JobInv
    <3>3. audit'[n] = "stored" /\ \A m \in Run : m # n => audit'[m] = audit[m]
      BY <3>1 DEF TypeOK
    <3>4. job'[r].run = n /\ job'[r].stage = "stored" /\ \A q \in Repo : q # r => job'[q] = job[q]
      BY DEF TypeOK
    <3>5. \A q \in Repo : job[q].run \in Run \cup {0}
      BY DEF TypeOK, Job
    <3>6. JobInv'
      BY <1>2, <3>1, <3>2, <3>3, <3>4, <3>5 DEF JobRun, JobInv
    <3>7. ReceiptsAccounted'
      BY <1>2, <3>1, <3>3 DEF JobRun, ReceiptsAccounted
    <3> QED
      BY <1>1, <3>6, <3>7
  <2> QED
    BY <1>2, <2>1, <2>2 DEF JobRun
<1>3. CASE JobReceipt(r)
  <2> DEFINE n == job[r].run
  <2>1. n \in Run /\ n # 0 /\ audit[n] = "stored" /\ note[n] = "none"
    BY <1>3 DEF JobReceipt, JobInv, TypeOK, Job
  <2>2. \A q \in Repo : q # r => job[q].run # n /\ job[q].run \in Run \cup {0}
    BY <2>1 DEF JobInv, TypeOK, Job
  <2>3. job'[r].run = n /\ job'[r].stage = "over" /\ \A q \in Repo : q # r => job'[q] = job[q]
    BY <1>3 DEF JobReceipt, TypeOK, Job
  <2> HIDE DEF n
  <2>4. \/ audit' = [audit EXCEPT ![n] = "logged"] /\ Insert(n)
        \/ audit' = [audit EXCEPT ![n] = "unlogged"] /\ UNCHANGED log
    BY <1>3 DEF JobReceipt, n
  <2>5. audit'[n] \in {"logged", "unlogged"} /\ \A m \in Run : m # n => audit'[m] = audit[m]
    BY <2>1, <2>4 DEF TypeOK
  <2>6. UNCHANGED note
    BY <1>3 DEF JobReceipt
  <2>7. JobInv'
    BY <2>1, <2>2, <2>3, <2>5, <2>6 DEF JobInv
  <2>8. ReceiptsAccounted'
    BY <2>1, <2>4, <2>5 DEF ReceiptsAccounted, Insert, TypeOK
  <2> QED
    BY <1>1, <2>7, <2>8
<1> QED
  BY <1>2, <1>3

\* A failure is buffered under the number of its run, which no note has.
LEMMA RecordInv ==
  ASSUME IInv, NEW r \in Repo, JobRecord(r)
  PROVE  JobInv' /\ LoopInv' /\ NotesAccounted' /\ ReceiptsAccounted'
<1> USE DEF IInv
<1>1. LoopInv' /\ ReceiptsAccounted'
  BY DEF JobRecord, LoopInv, ReceiptsAccounted
<1>2. job'[r] = NoJob /\ \A q \in Repo : q # r => job'[q] = job[q]
  BY DEF JobRecord, TypeOK
<1>3. UNCHANGED audit /\ UNCHANGED loop
  BY DEF JobRecord
<1>4. CASE UNCHANGED <<held, note>>
  BY <1>1, <1>2, <1>3, <1>4 DEF JobInv, NotesAccounted, NoJob
<1>5. CASE \E n \in RunOf(r) : held' = Append(held, n) /\ note' = [note EXCEPT ![n] = "held"]
  <2> PICK n \in RunOf(r) : held' = Append(held, n) /\ note' = [note EXCEPT ![n] = "held"]
    BY <1>5
  <2>1. n \in Run /\ n # 0 /\ note[n] = "none" /\ \A q \in Repo : q # r => job[q].run # n
    <3>1. CASE job[r].run = 0
      BY <3>1, JournalAssumption DEF RunOf, Fresh, Unused, Run, JobInv
    <3>2. CASE job[r].run # 0
      BY <3>2 DEF RunOf, JobInv, TypeOK, Job
    <3> QED
      BY <3>1, <3>2
  <2>2. note'[n] = "held" /\ \A m \in Run : m # n => note'[m] = note[m]
    BY <2>1 DEF TypeOK
  <2>3. \A q \in Repo : job[q].run \in Run \cup {0}
    BY DEF TypeOK, Job
  <2>4. JobInv'
    BY <1>2, <1>3, <2>1, <2>2, <2>3 DEF JobInv, NoJob
  <2>5. Items(held') = Items(held) \cup {n} /\ n \notin Items(held)
    BY <2>1, ItemsAppend DEF NotesAccounted, TypeOK
  <2>6. \A i, j \in DOMAIN held' : held'[i] = held'[j] => i = j
    <3>1. DOMAIN held' = DOMAIN held \cup {Len(held) + 1} /\ held'[Len(held) + 1] = n
      BY <2>1 DEF TypeOK
    <3>2. \A i \in DOMAIN held : held'[i] = held[i] /\ held[i] # n
      BY <2>1, <2>5 DEF TypeOK, Items
    <3> QED
      BY <3>1, <3>2 DEF NotesAccounted
  <2>7. NotesAccounted'
    BY <1>3, <2>1, <2>2, <2>5, <2>6 DEF NotesAccounted
  <2> QED
    BY <1>1, <2>4, <2>7
<1> QED
  BY <1>4, <1>5 DEF JobRecord

\* A check commits its receipt or nothing.
LEMMA CheckInv ==
  ASSUME IInv, ManualCheck
  PROVE  JobInv' /\ LoopInv' /\ NotesAccounted' /\ ReceiptsAccounted'
<1> USE DEF IInv
<1>1. LoopInv' /\ NotesAccounted'
  BY DEF ManualCheck, LoopInv, NotesAccounted
<1> PICK n \in Fresh, wrote \in BOOLEAN :
       /\ IF wrote THEN Insert(n) ELSE UNCHANGED log
       /\ audit' = IF CheckCommits(wrote)
                   THEN [audit EXCEPT ![n] = IF wrote THEN "logged" ELSE "bare"]
                   ELSE audit
  BY DEF ManualCheck
<1>2. n \in Run /\ n # 0 /\ audit[n] = "none" /\ UNCHANGED <<job, note>>
  BY JournalAssumption DEF Fresh, Unused, Run, ManualCheck
<1>3. CASE wrote
  <2>1. audit'[n] = "logged" /\ Insert(n) /\ \A m \in Run : m # n => audit'[m] = audit[m]
    BY <1>2, <1>3 DEF TypeOK, CheckCommits
  <2>2. JobInv'
    BY <1>2, <2>1 DEF JobInv, TypeOK, Job
  <2> QED
    BY <1>1, <1>2, <2>1, <2>2 DEF ReceiptsAccounted, Insert
<1>4. CASE ~wrote
  BY <1>1, <1>2, <1>4 DEF CheckCommits, JobInv, ReceiptsAccounted
<1> QED
  BY <1>3, <1>4

\* Neither the gate, a tick, the join nor the reading of the settings touches what is kept.
LEMMA QuietStepsInv ==
  ASSUME IInv, Gate \/ Tick \/ Join \/ Fire
  PROVE  JobInv' /\ LoopInv' /\ NotesAccounted' /\ ReceiptsAccounted'
<1> USE DEF IInv
<1>a. loop \in Loop
  BY DEF TypeOK
<1>1. ReceiptsAccounted' /\ UNCHANGED <<held, note, settings, audit>>
  BY DEF Gate, Tick, Join, Fire, ReceiptsAccounted
<1>2. JobInv'
  <2>1. CASE UNCHANGED job
    BY <1>1, <2>1 DEF JobInv
  <2>2. CASE Tick
    <3>1. \A r \in Repo : job[r].run = 0
      BY <2>2 DEF Tick, TypeOK, Busy, JobInv
    <3>2. \A r \in Repo : job'[r].run = 0 /\ job'[r].stage # "stored"
      BY <2>2, <3>1 DEF Tick, NoJob, TypeOK, Busy
    <3> QED
      BY <3>2 DEF JobInv
  <2> QED
    BY <2>1, <2>2 DEF Gate, Join, Fire
<1>3. loop.taken = << >> /\ loop.stage \notin {"raise", "sweep"}
  BY DEF Gate, Tick, Join, Fire, LoopInv
<1>4. loop'.taken = << >> /\ loop'.stage # "raise"
      /\ (loop'.stage = "sweep" /\ loop'.sure => settings.retention <= loop'.days)
  <2>1. CASE Gate
    <3>1. settings.retention <= RetentionDays(settings.retention)
      <4>1. settings.retention \in Nat /\ DEFAULT_RETENTION_DAYS \in Nat \ {0}
        BY JournalAssumption DEF TypeOK, Settings
      <4> QED
        BY <4>1 DEF RetentionDays
    <3>2. CASE loop' = IterationDone
      BY <1>a, <1>3, <3>2, LoopType, JournalAssumption
    <3>3. CASE \E readable \in BOOLEAN :
                 loop' = [loop EXCEPT !.stage = "sweep", !.sure = readable,
                                      !.days = IF readable THEN RetentionDays(settings.retention)
                                               ELSE DEFAULT_RETENTION_DAYS]
      BY <1>a, <1>3, <3>1, <3>3 DEF Loop
    <3> QED
      BY <2>1, <3>2, <3>3 DEF Gate
  <2>2. CASE Tick
    BY <1>a, <1>3, <2>2 DEF Tick, Loop
  <2>3. CASE Join
    BY <1>a, <1>3, <2>3 DEF Join, Loop
  <2>4. CASE Fire
    <3>1. CASE loop' = AfterFiring(loop)
      BY <1>a, <3>1, LoopType, JournalAssumption
    <3>2. CASE loop' = [loop EXCEPT !.stage = "drain", !.settings = settings]
      BY <1>a, <1>3, <3>2 DEF Loop
    <3> QED
      BY <2>4, <3>1, <3>2 DEF Fire
  <2> QED
    BY <2>1, <2>2, <2>3, <2>4
<1>5. LoopInv'
  BY <1>1, <1>4 DEF LoopInv
<1>6. NotesAccounted'
  BY <1>1, <1>3, <1>4 DEF NotesAccounted, Items
<1> QED
  BY <1>1, <1>2, <1>5, <1>6

\* A sweep takes receipts and their mark together.
LEMMA SweepInv ==
  ASSUME IInv, Sweep
  PROVE  JobInv' /\ LoopInv' /\ NotesAccounted' /\ ReceiptsAccounted' /\ SweptInTime
<1> USE DEF IInv
<1>a. loop \in Loop
  BY DEF TypeOK
<1> DEFINE expired == {n \in DOMAIN log : Expired(n)}
<1>1. loop'.stage = "idle" /\ loop'.taken = loop.taken /\ loop.taken = << >>
  <2>1. \A l \in Loop : /\ [l EXCEPT !.sure = TRUE, !.days = DEFAULT_RETENTION_DAYS].stage = l.stage
                        /\ [l EXCEPT !.sure = TRUE, !.days = DEFAULT_RETENTION_DAYS].taken = l.taken
    BY DEF Loop
  <2> QED
    BY <1>a, <2>1, LoopType, JournalAssumption DEF Sweep, LoopInv
<1>2. LoopInv' /\ NotesAccounted'
  BY <1>1 DEF Sweep, LoopInv, NotesAccounted
<1>3. \/ /\ log' = [n \in DOMAIN log \ expired |-> log[n]]
         /\ audit' = [n \in Run |-> IF n \in expired THEN "swept" ELSE audit[n]]
      \/ UNCHANGED <<log, audit>>
  BY DEF Sweep
<1>4. \A n \in expired : audit[n] = "logged" /\ n \in Run
  BY DEF ReceiptsAccounted, TypeOK
<1>5. ReceiptsAccounted'
  BY <1>3, <1>4 DEF ReceiptsAccounted
<1>6. JobInv'
  <2>1. UNCHANGED <<job, note>> /\ \A r \in Repo : job[r].run \in Run \cup {0}
    BY DEF Sweep, TypeOK, Job
  <2>2. \A n \in Run : audit[n] = "stored" => audit'[n] = "stored"
    BY <1>3, <1>4
  <2>3. \A n \in Run : audit[n] # "none" => audit'[n] # "none"
    BY <1>3
  <2> QED
    BY <2>1, <2>2, <2>3 DEF JobInv
<1>7. SweptInTime
  <2>1. loop.days \in Nat \ {0} /\ Day \in Nat /\ settings.retention \in Nat
    BY <1>a, JournalAssumption DEF Loop, TypeOK, Settings
  <2>2. 1 * Day <= loop.days * Day /\ loop.days * Day \in Nat
    BY <2>1, MoreDays
  <2>3. loop.sure => settings.retention * Day <= loop.days * Day /\ settings.retention * Day \in Nat
    BY <2>1, MoreDays DEF LoopInv, Sweep
  <2>4. \A n \in DOMAIN log \ DOMAIN log' : log[n] > loop.days * Day /\ log[n] \in Int
    BY <1>3 DEF TypeOK, Expired
  <2> QED
    BY <2>1, <2>2, <2>3, <2>4 DEF SweptInTime
<1> QED
  BY <1>2, <1>5, <1>6, <1>7

\* The drain moves every note from the buffer to the hand, outside quiet hours.
LEMMA DrainInv ==
  ASSUME IInv, Drain
  PROVE  JobInv' /\ LoopInv' /\ NotesAccounted' /\ ReceiptsAccounted'
<1> USE DEF IInv
<1>a. loop \in Loop /\ held \in Seq(Run) /\ loop.taken = << >>
  BY DEF TypeOK, LoopInv, Drain
<1>1. ReceiptsAccounted' /\ UNCHANGED <<job, audit, settings>>
  BY DEF Drain, ReceiptsAccounted
<1>2. CASE MayDrain(loop.settings, minute)
  <2>1. /\ loop'.stage = "raise" /\ loop'.taken = held /\ loop'.drained = minute
        /\ loop'.settings = loop.settings
    BY <1>a, <1>2 DEF Drain, Loop
  <2>2. /\ held' = << >>
        /\ note' = [n \in Run |-> IF n \in Items(held) THEN "taken" ELSE note[n]]
    BY <1>2 DEF Drain
  <2>3. LoopInv'
    BY <1>2, <2>1 DEF LoopInv, MayDrain
  <2>4. JobInv'
    <3>1. \A n \in Run : note[n] = "none" => note'[n] = "none"
      BY <2>2 DEF NotesAccounted
    <3> QED
      BY <1>1, <3>1 DEF JobInv, TypeOK, Job
  <2>5. Items(<< >>) = {} /\ Items(held) \subseteq Run
    BY <1>a, ItemsType DEF Items
  <2>6. {n \in Run : note'[n] = "held"} = {} /\ {n \in Run : note'[n] = "taken"} = Items(held)
    BY <1>a, <2>2, <2>5 DEF NotesAccounted
  <2>7. NotesAccounted'
    BY <2>1, <2>2, <2>5, <2>6 DEF NotesAccounted
  <2> QED
    BY <1>1, <2>3, <2>4, <2>7
<1>3. CASE ~MayDrain(loop.settings, minute)
  <2>1. loop'.stage \in {"idle", "gate"} /\ loop'.taken = loop.taken /\ UNCHANGED <<held, note>>
    BY <1>a, <1>3, LoopType, JournalAssumption DEF Drain
  <2>2. JobInv'
    BY <1>1, <2>1 DEF JobInv
  <2>3. LoopInv'
    BY <1>a, <2>1 DEF LoopInv
  <2>4. NotesAccounted'
    BY <2>1 DEF NotesAccounted
  <2> QED
    BY <1>1, <2>2, <2>3, <2>4
<1> QED
  BY <1>2, <1>3

\* Where the toasts leave the notes in hand: told, or let go for a reason.
LEMMA RaiseInv ==
  ASSUME IInv, Raise
  PROVE  /\ JobInv' /\ LoopInv' /\ NotesAccounted' /\ ReceiptsAccounted'
         /\ \A n \in Run : NoteMoves(n)
<1> USE DEF IInv
<1>a. loop \in Loop /\ loop.taken \in Seq(Run) /\ loop.stage = "raise"
  BY DEF TypeOK, Loop, Raise
<1>1. ReceiptsAccounted' /\ UNCHANGED <<job, audit, settings, held>>
  BY DEF Raise, ReceiptsAccounted
<1>2. loop'.stage \in {"idle", "gate"} /\ loop'.taken = << >>
  BY <1>a, LoopType, JournalAssumption DEF Raise
<1>b. minute \in 0..(Day - 1) /\ loop.drained \in 0..(Day - 1) /\ loop.settings.notify \in BOOLEAN
  BY <1>a, JournalAssumption DEF TypeOK, Loop, Settings
<1>3. \A n \in Run :
        /\ n \notin Items(loop.taken) => note'[n] = note[n]
        /\ n \in Items(loop.taken) =>
             IF PassesGate(loop.settings, minute)
             THEN note'[n] = "told" \/ (note'[n] = "unshown" /\ left'.faults < left.faults)
             ELSE note'[n] = IF ~loop.settings.notify THEN "withheld" ELSE "missed"
  <2> DEFINE toasts == IF PassesGate(loop.settings, minute)
                       THEN Toasts(Coalesce(loop.taken), loop.taken) ELSE {}
             fate(n, shown) == IF n \in UNION shown THEN "told"
                               ELSE IF n \in UNION toasts THEN "unshown"
                               ELSE IF ~loop.settings.notify THEN "withheld"
                               ELSE IF IsQuiet(loop.settings, minute) THEN "missed" ELSE "dropped"
  <2>1. PICK shown \in SUBSET toasts :
          /\ Failing(Count(shown # toasts))
          /\ note' = [n \in Run |-> IF n \in Items(loop.taken) THEN fate(n, shown) ELSE note[n]]
    BY DEF Raise
  <2>2. UNION toasts = IF PassesGate(loop.settings, minute) THEN Items(loop.taken) ELSE {}
    BY <1>a, AllSpoken
  <2>3. PassesGate(loop.settings, minute) <=> ~IsQuiet(loop.settings, minute) /\ loop.settings.notify
    BY DEF PassesGate
  <2>4. shown # toasts => left'.faults < left.faults
    <3>1. left.faults \in Nat /\ left \in Left
      BY JournalAssumption DEF TypeOK, Left
    <3> QED
      BY <2>1, <3>1 DEF Failing, Count, Left
  <2> HIDE DEF toasts
  <2>5. ASSUME NEW n \in Run, n \in Items(loop.taken), PassesGate(loop.settings, minute)
        PROVE  fate(n, shown) = "told" \/ (fate(n, shown) = "unshown" /\ left'.faults < left.faults)
    BY <2>2, <2>4, <2>5
  <2>6. ASSUME NEW n \in Run, n \in Items(loop.taken), ~PassesGate(loop.settings, minute)
        PROVE  fate(n, shown) = IF ~loop.settings.notify THEN "withheld" ELSE "missed"
    <3>1. n \notin UNION toasts /\ n \notin UNION shown
      BY <2>2, <2>6
    <3>2. CASE ~loop.settings.notify
      BY <3>1, <3>2
    <3>3. CASE loop.settings.notify /\ IsQuiet(loop.settings, minute)
      BY <3>1, <3>3
    <3> QED
      BY <1>b, <2>3, <2>6, <3>2, <3>3
  <2> HIDE DEF fate
  <2> QED
    BY <2>1, <2>5, <2>6
<1>4. \A n \in Run : n \in Items(loop.taken) <=> note[n] = "taken"
  BY DEF NotesAccounted
<1>5. \A n \in Run : NoteMoves(n)
  <2>1. /\ Silent(loop.settings, minute) <=> IsQuiet(loop.settings, minute)
        /\ ~Silent(loop.settings, loop.drained)
    BY <1>a, <1>b, SilentIsQuiet DEF LoopInv
  <2>2. PassesGate(loop.settings, minute) <=> ~Silent(loop.settings, minute) /\ loop.settings.notify
    BY <2>1 DEF PassesGate
  <2> QED
    BY <1>a, <1>b, <1>3, <1>4, <2>1, <2>2 DEF NoteMoves
<1>6. LoopInv'
  BY <1>2 DEF LoopInv
<1>7. JobInv'
  <2>1. \A n \in Run : note[n] = "none" => note'[n] = "none"
    BY <1>3, <1>4
  <2> QED
    BY <1>1, <2>1 DEF JobInv, TypeOK, Job
<1>8. NotesAccounted'
  <2>1. {n \in Run : note'[n] = "taken"} = {}
    BY <1>3, <1>4
  <2>2. {n \in Run : note'[n] = "held"} = {n \in Run : note[n] = "held"}
    BY <1>3, <1>4
  <2>3. Items(<< >>) = {}
    BY DEF Items
  <2> QED
    BY <1>1, <1>2, <2>1, <2>2, <2>3 DEF NotesAccounted
<1> QED
  BY <1>1, <1>5, <1>6, <1>7, <1>8

\* The user, the clock and the end of the process take no note and no receipt.
LEMMA OutsideInv ==
  ASSUME IInv, NEW s \in Row, Launch \/ Crash \/ Change(s) \/ Pass \/ SetClockBack
  PROVE  JobInv' /\ LoopInv' /\ NotesAccounted' /\ ReceiptsAccounted'
<1> USE DEF IInv
<1>a. loop \in Loop
  BY DEF TypeOK
<1>1. CASE Launch
  <2>1. loop'.stage = "gate" /\ loop'.taken = << >> /\ loop.taken = << >>
    BY <1>1 DEF Launch, NoLoop, LoopInv, Running
  <2> QED
    BY <1>1, <2>1 DEF Launch, JobInv, LoopInv, NotesAccounted, ReceiptsAccounted
<1>2. CASE Crash
  <2>1. loop'.stage = "off" /\ loop'.taken = << >>
    BY <1>2 DEF Crash, NoLoop
  <2>2. JobInv' /\ LoopInv'
    BY <1>2, <2>1 DEF Crash, JobInv, LoopInv, NoJob
  <2>3. Items(<< >>) = {}
    BY DEF Items
  <2>4. {n \in Run : note'[n] = "held"} = {} /\ {n \in Run : note'[n] = "taken"} = {}
    BY <1>2 DEF Crash
  <2>5. held' = << >>
    BY <1>2 DEF Crash
  <2>6. NotesAccounted'
    BY <2>1, <2>3, <2>4, <2>5 DEF NotesAccounted
  <2>7. ReceiptsAccounted'
    BY <1>2 DEF Crash, ReceiptsAccounted
  <2> QED
    BY <2>2, <2>6, <2>7
<1>3. CASE Change(s)
  <2>1. /\ loop'.stage = loop.stage /\ loop'.taken = loop.taken /\ loop'.drained = loop.drained
        /\ loop'.settings = loop.settings /\ ~(loop'.stage = "sweep" /\ loop'.sure)
    BY <1>3, <1>a DEF Change, Loop
  <2> QED
    BY <1>3, <2>1 DEF Change, JobInv, LoopInv, NotesAccounted, ReceiptsAccounted
<1>4. CASE Pass
  <2>1. /\ loop'.stage = loop.stage /\ loop'.taken = loop.taken /\ loop'.drained = loop.drained
        /\ loop'.settings = loop.settings /\ loop'.sure = loop.sure /\ loop'.days = loop.days
    BY <1>4, <1>a DEF Pass, Loop
  <2>2. DOMAIN log' = DOMAIN log
    BY <1>4 DEF Pass
  <2> QED
    BY <1>4, <2>1, <2>2 DEF Pass, JobInv, LoopInv, NotesAccounted, ReceiptsAccounted
<1>5. CASE SetClockBack
  <2>1. DOMAIN log' = DOMAIN log
    BY <1>5 DEF SetClockBack
  <2> QED
    BY <1>5, <2>1 DEF SetClockBack, JobInv, LoopInv, NotesAccounted, ReceiptsAccounted
<1> QED
  BY <1>1, <1>2, <1>3, <1>4, <1>5

\* Every step keeps the invariant.
LEMMA NextInv == IInv /\ [Next]_vars => IInv'
<1> SUFFICES ASSUME IInv, [Next]_vars PROVE IInv'
  OBVIOUS
<1>0. TypeOK'
  BY NextType DEF IInv
<1>1. CASE UNCHANGED vars
  BY <1>0, <1>1 DEF vars, IInv, JobInv, LoopInv, NotesAccounted, ReceiptsAccounted
<1>2. CASE \E r \in Repo : JobStep(r)
  BY <1>0, <1>2, ResultInv, RecordInv DEF JobStep, IInv
<1>3. CASE ManualCheck
  BY <1>0, <1>3, CheckInv DEF IInv
<1>4. CASE LoopStep
  BY <1>0, <1>4, QuietStepsInv, SweepInv, DrainInv, RaiseInv DEF LoopStep, IInv
<1>5. CASE Launch \/ Crash \/ Pass \/ SetClockBack \/ \E s \in Row : Change(s)
  <2>1. Defaults \in Row
    BY JournalAssumption
  <2> QED
    BY <1>0, <1>5, <2>1, OutsideInv DEF IInv
<1> QED
  BY <1>1, <1>2, <1>3, <1>4, <1>5 DEF Next

-----------------------------------------------------------------------------
(* The theorems *)

\* The invariant holds of every reachable state.
LEMMA Invariance == Spec => []IInv
<1> QED
  BY InitInv, NextInv, PTL DEF Spec

\* The types of Journal: a job is in flight only while the loop waits for its cycle
\* (spawn_and_join), so a cycle's notes are complete when they are fired.
THEOREM TypeCorrect == Spec => []TypeOK
<1>1. IInv => TypeOK
  BY DEF IInv
<1> QED
  BY <1>1, Invariance, PTL

\* What a step does to a note.
LEMMA NoteStep == IInv /\ [Next]_vars => [\A n \in Run : NoteMoves(n)]_vars
<1> SUFFICES ASSUME IInv, Next PROVE \A n \in Run : NoteMoves(n)
  BY DEF NoteMoves, vars
<1>1. CASE UNCHANGED note
  BY <1>1 DEF NoteMoves
<1>2. CASE \E r \in Repo : JobRecord(r)
  <2> PICK r \in Repo : JobRecord(r)
    BY <1>2
  <2>1. CASE \E m \in RunOf(r) : note' = [note EXCEPT ![m] = "held"]
    <3> PICK m \in RunOf(r) : note' = [note EXCEPT ![m] = "held"]
      BY <2>1
    <3>1. m \in Run => note[m] = "none"
      BY DEF RunOf, Fresh, Unused, JobInv, IInv
    <3>2. \A n \in Run : note'[n] = IF n = m THEN "held" ELSE note[n]
      BY DEF IInv, TypeOK
    <3> QED
      BY <3>1, <3>2 DEF NoteMoves
  <2> QED
    BY <1>1, <2>1 DEF JobRecord
<1>3. CASE Drain
  <2>1. \A n \in Run : n \in Items(held) <=> note[n] = "held"
    BY DEF NotesAccounted, IInv
  <2>2. CASE note' = [n \in Run |-> IF n \in Items(held) THEN "taken" ELSE note[n]]
    BY <2>1, <2>2 DEF NoteMoves
  <2> QED
    BY <1>1, <1>3, <2>2 DEF Drain
<1>4. CASE Raise
  BY <1>4, RaiseInv
<1>5. CASE Crash
  <2>1. note' = [n \in Run |-> IF note[n] \in {"held", "taken"} THEN "died" ELSE note[n]]
    BY <1>5 DEF Crash
  <2> QED
    BY <2>1 DEF NoteMoves
<1>6. ASSUME NEW r \in Repo, JobRun(r) \/ JobReceipt(r)
      PROVE  UNCHANGED note
  BY <1>6 DEF JobRun, JobReceipt
<1>7. ManualCheck \/ Gate \/ Sweep \/ Tick \/ Join \/ Fire => UNCHANGED note
  BY DEF ManualCheck, Gate, Sweep, Tick, Join, Fire
<1>8. Launch \/ Pass \/ SetClockBack \/ (\E s \in Row : Change(s)) => UNCHANGED note
  BY DEF Launch, Pass, SetClockBack, Change
<1> QED
  BY <1>1, <1>2, <1>3, <1>4, <1>5, <1>6, <1>7, <1>8 DEF Next, LoopStep, JobStep

\* No failure is lost but for the listed reasons, and none is told twice or in quiet
\* hours (fire_cycle_from_collector, drain_if, coalesce).
THEOREM NotesAreKept == Spec => NotesKept
<1>1. IInv => NotesAccounted
  BY DEF IInv
<1>2. Spec => []NotesAccounted
  BY <1>1, Invariance, PTL
<1>3. Spec => [][\A n \in Run : NoteMoves(n)]_vars
  BY Invariance, NoteStep, PTL DEF Spec
<1>4. Spec => [][NotesAccounted' /\ \A n \in Run : NoteMoves(n)]_vars
  BY <1>2, <1>3, PTL
<1> QED
  BY <1>4 DEF NotesKept

\* What a step does to the receipts: only a sweep takes any.
LEMMA SweepStep == IInv /\ [Next]_vars => [SweptInTime]_vars
<1> SUFFICES ASSUME IInv, Next PROVE SweptInTime
  BY DEF SweptInTime, vars
<1>1. CASE Sweep
  BY <1>1, SweepInv
<1>2. CASE DOMAIN log \subseteq DOMAIN log'
  BY <1>2 DEF SweptInTime
<1>3. ASSUME NEW r \in Repo, JobStep(r)
      PROVE  DOMAIN log \subseteq DOMAIN log'
  BY <1>3 DEF JobStep, JobRun, JobReceipt, JobRecord, Insert
<1>4. ManualCheck => DOMAIN log \subseteq DOMAIN log'
  BY DEF ManualCheck, Insert
<1>5. Gate \/ Tick \/ Join \/ Fire \/ Drain \/ Raise => UNCHANGED log
  BY DEF Gate, Tick, Join, Fire, Drain, Raise
<1>6. Launch \/ Crash \/ (\E s \in Row : Change(s)) => UNCHANGED log
  BY DEF Launch, Crash, Change
<1>7. Pass \/ SetClockBack => DOMAIN log' = DOMAIN log
  BY DEF Pass, SetClockBack
<1> QED
  BY <1>1, <1>2, <1>3, <1>4, <1>5, <1>6, <1>7 DEF Next, LoopStep

\* No check counts without its receipt, and no sweep takes a receipt younger than a day,
\* or one the row asked to keep when it was read (record_in_tx, sweep).
THEOREM ReceiptsAreKept == Spec => ReceiptsKept
<1>1. IInv => ReceiptsAccounted
  BY DEF IInv
<1>2. Spec => []ReceiptsAccounted
  BY <1>1, Invariance, PTL
<1>3. Spec => [][SweptInTime]_vars
  BY Invariance, SweepStep, PTL DEF Spec
<1>4. Spec => [][ReceiptsAccounted' /\ SweptInTime]_vars
  BY <1>2, <1>3, PTL
<1> QED
  BY <1>4 DEF ReceiptsKept
=============================================================================
