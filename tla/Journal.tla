-------------------------------- MODULE Journal --------------------------------
(***************************************************************************)
(* What RepoSync keeps of the work it did, and what it says of it: the     *)
(* receipts of the activity log with their daily retention sweep           *)
(* (activity.rs), and the notes of failed scheduled runs, which are        *)
(* buffered during a cycle, held through quiet hours, and coalesced into a *)
(* bounded set of toasts (notify.rs of the core and of the shell).  Both   *)
(* are driven by the resident tick loop of lib.rs.                         *)
(*                                                                         *)
(* Time is the local minute of day, the age of each receipt, and the time  *)
(* since the last sweep.  A minute of the model is long: the loop gets     *)
(* through an iteration in it unless jobs keep it, or something is slow.   *)
(* Receipts carry the time their run started, which is taken for the time  *)
(* they are written.                                                       *)
(***************************************************************************)
EXTENDS Policy, Sequences, FiniteSets

CONSTANTS
    Repo,
    Day,                       \* minutes of a day
    QuietStart, QuietEnd,      \* the window a user may set
    Retention,                 \* the days a user may keep receipts
    DEFAULT_RETENTION_DAYS,
    Row,                       \* the settings the row may hold
    MAX_INDIVIDUAL_TOASTS,
    MaxAge,                    \* bound on the age of a receipt, past every retention
    MaxRuns,                   \* bound on checks and updates
    MaxFaults,                 \* bound on failing writes and reads, and crashes
    MaxSaves,                  \* bound on changes of the settings
    MaxSlow                    \* bound on minutes that pass within an iteration, and clocks set back

\* A retention of 0 only comes from outside: settings_set refuses it.
Settings == [quiet : BOOLEAN, notify : BOOLEAN, retention : Retention \cup {0}]

Defaults == [quiet |-> FALSE, notify |-> TRUE, retention |-> DEFAULT_RETENTION_DAYS]

ASSUME JournalAssumption ==
    /\ Day \in Nat \ {0} /\ IsFiniteSet(Repo)
    /\ {QuietStart, QuietEnd} \subseteq 0..(Day - 1) \cup {NoWindow}
    /\ Retention \subseteq Nat \ {0} /\ MaxAge \in Nat /\ \A d \in Retention : d * Day < MaxAge
    /\ DEFAULT_RETENTION_DAYS \in Retention
    /\ Defaults \in Row /\ Row \subseteq Settings
    /\ {MAX_INDIVIDUAL_TOASTS, MaxRuns, MaxFaults, MaxSaves, MaxSlow} \subseteq Nat

VARIABLES
    minute,                    \* the local minute of day
    settings,                  \* the row
    log,                       \* the age of every receipt of activity_records, by run
    since,                     \* minutes since last_sweep_unix, which the loop starts with
    job,                       \* the scheduled run of each repo
    held,                      \* CycleNotifications, a sequence of runs
    loop,                      \* the tick loop
    left,                      \* what the bounds leave
    audit,                     \* history: what became of each run's receipt
    note                       \* history: what became of each run's note

vars == <<minute, settings, log, since, job, held, loop, left, audit, note>>

Run == 1..MaxRuns

\* A run waits, has stored its result in the row, or has ended and is to be recorded.
Job == [stage : {"idle", "spawned", "stored", "over"}, run : {0} \cup Run]
NoJob == [stage |-> "idle", run |-> 0]

\* "sweep" deletes by the retention read at "gate"; first is the startup part, before the
\* loop proper; tick says how far this minute's iteration is: one that outlasts
\* its minute is followed by the one it held up.
Loop == [stage : {"off", "gate", "sweep", "idle", "cycle", "fire", "drain", "raise"},
         first : BOOLEAN, tick : {"due", "begun", "done"}, settings : Row,
         taken : Seq(Run), drained : 0..(Day - 1), days : Retention, sure : BOOLEAN]
NoLoop == [stage |-> "off", first |-> TRUE, tick |-> "due", settings |-> Defaults, taken |-> << >>,
           drained |-> 0, days |-> DEFAULT_RETENTION_DAYS, sure |-> TRUE]

Left == [runs : 0..MaxRuns, faults : 0..MaxFaults, saves : 0..MaxSaves, slow : 0..MaxSlow]

Busy == \E r \in Repo : job[r].stage # "idle"

Items(seq) == {seq[i] : i \in DOMAIN seq}

TypeOK ==
    /\ minute \in 0..(Day - 1)
    /\ settings \in Row
    /\ log \in [DOMAIN log -> Int] /\ DOMAIN log \subseteq Run
    /\ since \in Int
    /\ job \in [Repo -> Job]
    /\ held \in Seq(Run)
    /\ loop \in Loop
    /\ left \in Left
    /\ audit \in [Run -> {"none", "stored", "logged", "unlogged", "swept", "bare"}]
    /\ note \in [Run -> {"none", "held", "taken", "told", "unshown", "withheld", "missed", "dropped", "died"}]
    /\ Busy => loop.stage = "cycle"

Init ==
    /\ minute = 0
    /\ settings \in {s \in Row : s.quiet /\ s.notify /\ s.retention # 0}
    /\ log = [n \in {} |-> 0]
    /\ since = 0
    /\ job = [r \in Repo |-> NoJob]
    /\ held = << >>
    /\ loop = NoLoop
    /\ left = [runs |-> MaxRuns, faults |-> MaxFaults, saves |-> MaxSaves, slow |-> MaxSlow]
    /\ audit = [n \in Run |-> "none"]
    /\ note = [n \in Run |-> "none"]

Failing(n) == left.faults >= n /\ left' = [left EXCEPT !.faults = @ - n]
Count(failed) == IF failed THEN 1 ELSE 0
Running == loop.stage # "off"

\* Runs are numbered as they produce something.
Unused(n) == audit[n] = "none" /\ note[n] = "none"
Fresh == {n \in Run : Unused(n) /\ \A m \in Run : m < n => ~Unused(m)}
RunOf(r) == IF job[r].run = 0 THEN Fresh ELSE {job[r].run}

-----------------------------------------------------------------------------
(* Receipts *)

Insert(n) == log' = [m \in DOMAIN log \cup {n} |-> IF m = n THEN 0 ELSE log[m]]

\* A run that breaks stores no result and writes no receipt.
JobRun(r) ==
    /\ job[r].stage = "spawned"
    /\ \/ \E n \in Fresh :
            /\ job' = [job EXCEPT ![r] = [stage |-> "stored", run |-> n]]
            /\ audit' = [audit EXCEPT ![n] = "stored"]
       \/ /\ job' = [job EXCEPT ![r].stage = "over"]
          /\ UNCHANGED audit
    /\ UNCHANGED <<minute, settings, log, since, held, loop, left, note>>

\* record: the tree may have moved, so the receipt is best effort.
JobReceipt(r) ==
    LET n == job[r].run
    IN /\ job[r].stage = "stored"
       /\ \/ Insert(n) /\ audit' = [audit EXCEPT ![n] = "logged"] /\ UNCHANGED left
          \/ Failing(1) /\ audit' = [audit EXCEPT ![n] = "unlogged"] /\ UNCHANGED log
       /\ job' = [job EXCEPT ![r].stage = "over"]
       /\ UNCHANGED <<minute, settings, since, held, loop, note>>

\* Mutant: the receipt of a check is best effort too (BL-NI-07).
CheckCommitsAnyway(wrote) == TRUE

\* record_in_tx: a check and its receipt are one transaction.
CheckCommits(wrote) == wrote

ManualCheck ==
    /\ Running /\ left.runs > 0
    /\ \E n \in Fresh, wrote \in BOOLEAN :
         /\ left.faults >= Count(~wrote)
         /\ left' = [left EXCEPT !.runs = @ - 1, !.faults = @ - Count(~wrote)]
         /\ IF wrote THEN Insert(n) ELSE UNCHANGED log
         /\ audit' = IF CheckCommits(wrote)
                     THEN [audit EXCEPT ![n] = IF wrote THEN "logged" ELSE "bare"]
                     ELSE audit
    /\ UNCHANGED <<minute, settings, since, job, held, loop, note>>

-----------------------------------------------------------------------------
(* Retention *)

\* sweep_due: a day has passed, or the clock is behind the last sweep.
SweepDue == since < 0 \/ since >= Day

\* Mutant: the row is trusted with the delete.
RetentionDaysTrusting(stored) == stored

\* read_retention_days: a retention below one day would empty the log.
RetentionDays(stored) == IF stored < 1 THEN DEFAULT_RETENTION_DAYS ELSE stored

\* Mutant: the gate is advanced by every iteration.
AdvancedEveryTick(due) == 0

\* last_sweep_unix is advanced by every attempt.
Advanced(due) == IF due THEN 0 ELSE since

IterationDone ==
    [loop EXCEPT !.stage = "idle", !.tick = IF @ = "begun" THEN "done" ELSE @]

\* The end of an iteration; at launch, the start: there the sweep always runs.
Gate ==
    LET due == SweepDue \/ loop.first
    IN /\ loop.stage = "gate"
       /\ since' = Advanced(due)
       /\ IF due
          THEN \E readable \in BOOLEAN :
                 /\ Failing(Count(~readable))
                 /\ loop' = [loop EXCEPT
                       !.stage = "sweep", !.sure = readable,
                       !.days = IF readable THEN RetentionDays(settings.retention)
                                ELSE DEFAULT_RETENTION_DAYS]
          ELSE loop' = IterationDone /\ UNCHANGED left
       /\ UNCHANGED <<minute, settings, log, job, held, audit, note>>

\* Mutant: the cutoff itself is swept.
ExpiredAtCutoff(n) == log[n] >= loop.days * Day

\* DELETE ... WHERE timestamp < cutoff.
Expired(n) == log[n] > loop.days * Day

Sweep ==
    LET expired == {n \in DOMAIN log : Expired(n)}
    IN /\ loop.stage = "sweep"
       /\ \/ /\ log' = [n \in DOMAIN log \ expired |-> log[n]]
             /\ audit' = [n \in Run |-> IF n \in expired THEN "swept" ELSE audit[n]]
             /\ UNCHANGED left
          \/ Failing(1) /\ UNCHANGED <<log, audit>>
       /\ loop' = [IterationDone EXCEPT !.sure = TRUE, !.days = DEFAULT_RETENTION_DAYS]
       /\ UNCHANGED <<minute, settings, since, job, held, note>>

-----------------------------------------------------------------------------
(* Cycles *)

IsQuiet(s, now) == s.quiet /\ InQuietHours(now, QuietStart, QuietEnd)

Launch ==
    /\ ~Running
    /\ loop' = [NoLoop EXCEPT !.stage = "gate"]
    /\ UNCHANGED <<minute, settings, log, since, job, held, left, audit, note>>

\* start and tick_once: outside the quiet window the due repos get their jobs.  A failed
\* due query ends a tick without firing; the startup pass fires all the same.
Tick ==
    /\ loop.stage = "idle" /\ loop.tick # "done"
    /\ \/ \E due \in SUBSET Repo :
            /\ IsQuiet(settings, minute) => due = {}
            /\ Cardinality(due) <= left.runs
            /\ left' = [left EXCEPT !.runs = @ - Cardinality(due)]
            /\ job' = [r \in Repo |-> IF r \in due THEN [NoJob EXCEPT !.stage = "spawned"] ELSE job[r]]
            /\ loop' = [loop EXCEPT !.stage = "cycle", !.tick = "begun"]
       \/ /\ Failing(1)
          /\ loop' = [loop EXCEPT !.stage = IF loop.first THEN "fire" ELSE "gate",
                                  !.tick = "begun"]
          /\ UNCHANGED job
    /\ UNCHANGED <<minute, settings, log, since, held, audit, note>>

\* note_kind_for: auth failures, retries and auto-pauses are all told.
Notable(status) == status.name # "Active"

\* CollectingOutcomeWriter: persist first; a status that was not stored is not told.
JobRecord(r) ==
    /\ job[r].stage = "over"
    /\ \/ /\ UNCHANGED left
          /\ \E status \in RepoStatus, n \in RunOf(r) :
               /\ job[r].run = 0 => Notable(status)
               /\ IF Notable(status)
                  THEN held' = Append(held, n) /\ note' = [note EXCEPT ![n] = "held"]
                  ELSE UNCHANGED <<held, note>>
       \/ Failing(1) /\ UNCHANGED <<held, note>>
    /\ job' = [job EXCEPT ![r] = NoJob]
    /\ UNCHANGED <<minute, settings, log, since, loop, audit>>

\* Mutant: the jobs are spawned and not joined.
JoinEarly ==
    /\ loop.stage = "cycle"
    /\ loop' = [loop EXCEPT !.stage = "fire"]
    /\ UNCHANGED <<minute, settings, log, since, job, held, left, audit, note>>

\* spawn_and_join.
Join ==
    /\ loop.stage = "cycle" /\ ~Busy
    /\ loop' = [loop EXCEPT !.stage = "fire"]
    /\ UNCHANGED <<minute, settings, log, since, job, held, left, audit, note>>

-----------------------------------------------------------------------------
(* Firing *)

\* After the startup pass the loop begins.
AfterFiring(l) ==
    LET rested == [l EXCEPT !.settings = Defaults, !.taken = << >>, !.drained = 0]
    IN IF l.first THEN [rested EXCEPT !.stage = "idle", !.first = FALSE, !.tick = IF @ = "begun" THEN "done" ELSE @]
       ELSE [rested EXCEPT !.stage = "gate"]

\* fire_cycle_from_collector: nothing to say, or settings that cannot be read: hold.
Fire ==
    /\ loop.stage = "fire"
    /\ \/ /\ held # << >>
          /\ loop' = [loop EXCEPT !.stage = "drain", !.settings = settings]
          /\ UNCHANGED left
       \/ /\ Failing(Count(held # << >>))
          /\ loop' = AfterFiring(loop)
    /\ UNCHANGED <<minute, settings, log, since, job, held, audit, note>>

\* Mutant: the notes are taken first and judged later (BL-NI-80).
MayDrainAlways(s, now) == TRUE
MayDrain(s, now) == ~IsQuiet(s, now)

\* drain_if.
Drain ==
    /\ loop.stage = "drain"
    /\ IF MayDrain(loop.settings, minute)
       THEN /\ loop' = [loop EXCEPT !.stage = "raise", !.taken = held, !.drained = minute]
            /\ held' = << >>
            /\ note' = [n \in Run |-> IF n \in Items(held) THEN "taken" ELSE note[n]]
       ELSE loop' = AfterFiring(loop) /\ UNCHANGED <<held, note>>
    /\ UNCHANGED <<minute, settings, log, since, job, left, audit>>

PassesGate(s, now) == ~IsQuiet(s, now) /\ s.notify

\* Mutant: what is beyond the cap is not summarised.
CoalesceNoSummary(notes) ==
    [alone |-> SubSeq(notes, 1, IF Len(notes) < MAX_INDIVIDUAL_TOASTS THEN Len(notes) ELSE MAX_INDIVIDUAL_TOASTS),
     more |-> 0]

\* coalesce: so many toasts alone, and one that counts the rest.
Coalesce(notes) ==
    LET shown == IF Len(notes) < MAX_INDIVIDUAL_TOASTS THEN Len(notes) ELSE MAX_INDIVIDUAL_TOASTS
    IN [alone |-> SubSeq(notes, 1, shown), more |-> Len(notes) - shown]

\* The notes the summary counts, and the toasts that are raised: each the notes it speaks of.
Rest(c, notes) ==
    {notes[i] : i \in {j \in DOMAIN notes : Len(c.alone) < j /\ j <= Len(c.alone) + c.more}}
Toasts(c, notes) == {{n} : n \in Items(c.alone)} \cup ({Rest(c, notes)} \ {{}})

\* fire_cycle reads the clock again; what the gate refuses now is gone.  raise: so is a toast
\* that the OS does not show (any of them may fail), but for the event to the window.
Raise ==
    LET toasts == IF PassesGate(loop.settings, minute)
                  THEN Toasts(Coalesce(loop.taken), loop.taken) ELSE {}
        fate(n, shown) == IF n \in UNION shown THEN "told"
                          ELSE IF n \in UNION toasts THEN "unshown"
                          ELSE IF ~loop.settings.notify THEN "withheld"
                          ELSE IF IsQuiet(loop.settings, minute) THEN "missed" ELSE "dropped"
    IN /\ loop.stage = "raise"
       /\ \E shown \in SUBSET toasts :
            /\ Failing(Count(shown # toasts))
            /\ note' = [n \in Run |-> IF n \in Items(loop.taken) THEN fate(n, shown) ELSE note[n]]
       /\ loop' = AfterFiring(loop)
       /\ UNCHANGED <<minute, settings, log, since, job, held, audit>>

-----------------------------------------------------------------------------
(* The user, the clock and crashes *)

\* A save, or a row edited by hand; either may fall between a sweep's read and its delete.
Change(s) ==
    /\ left.saves > 0 /\ left' = [left EXCEPT !.saves = @ - 1]
    /\ s # settings /\ settings' = s
    /\ loop' = [loop EXCEPT !.sure = @ /\ loop.stage # "sweep"]
    /\ UNCHANGED <<minute, log, since, job, held, audit, note>>

Least(a, b) == IF a < b THEN a ELSE b

\* A minute passes; a sweep is over in less.
Pass ==
    /\ loop.stage # "sweep"
    /\ IF ~Running \/ Busy \/ loop.tick = "done"
       THEN UNCHANGED left
       ELSE left.slow > 0 /\ left' = [left EXCEPT !.slow = @ - 1]
    /\ minute' = (minute + 1) % Day
    /\ log' = [n \in DOMAIN log |-> Least(log[n] + 1, MaxAge)]
    /\ since' = IF loop.first THEN 0 ELSE Least(since + 1, Day)
    /\ loop' = [loop EXCEPT !.tick = "due"]
    /\ UNCHANGED <<settings, job, held, audit, note>>

SetClockBack ==
    /\ loop.stage # "sweep"
    /\ left.slow > 0 /\ left' = [left EXCEPT !.slow = @ - 1]
    /\ minute' = (minute - 1) % Day
    /\ log' = [n \in DOMAIN log |-> log[n] - 1]
    /\ since' = IF loop.first THEN 0 ELSE since - 1
    /\ UNCHANGED <<settings, job, held, loop, audit, note>>

\* The process ends; the held notes do not survive it.
Crash ==
    /\ Running
    /\ Failing(1)
    /\ loop' = NoLoop /\ since' = 0
    /\ held' = << >>
    /\ job' = [r \in Repo |-> NoJob]
    /\ audit' = [n \in Run |-> IF audit[n] = "stored" THEN "unlogged" ELSE audit[n]]
    /\ note' = [n \in Run |-> IF note[n] \in {"held", "taken"} THEN "died" ELSE note[n]]
    /\ UNCHANGED <<minute, settings, log>>

-----------------------------------------------------------------------------

LoopStep == Gate \/ Sweep \/ Tick \/ Join \/ Fire \/ Drain \/ Raise
JobStep(r) == JobRun(r) \/ JobReceipt(r) \/ JobRecord(r)

Next ==
    \/ LoopStep
    \/ \E r \in Repo : JobStep(r)
    \/ ManualCheck
    \/ Launch \/ Crash
    \/ \E s \in Row : Change(s)
    \/ Pass
    \/ SetClockBack

Spec == Init /\ [][Next]_vars

\* The runtime runs the loop, or the jobs it waits for; git calls time out, and time passes.
FairSpec ==
    /\ Spec
    /\ WF_vars(LoopStep \/ \E r \in Repo : JobStep(r))
    /\ WF_vars(Pass)

-----------------------------------------------------------------------------
(* Properties *)

\* The buffer holds each note once, and so does the hand that drained it.
NotesAccounted ==
    /\ Items(held) = {n \in Run : note[n] = "held"}
    /\ Items(loop.taken) = {n \in Run : note[n] = "taken"}
    /\ \A i, j \in DOMAIN held : held[i] = held[j] => i = j

\* Quiet hours as the user sets them: the minutes from the start on, round the clock, that are
\* fewer than those to the end; none when the end is the start.
Ahead(start, now) == IF start <= now THEN now - start ELSE now + Day - start
InWindow(start, end, now) ==
    start # NoWindow /\ end # NoWindow /\ Ahead(start, now) < Ahead(start, end)
Silent(s, now) == s.quiet /\ InWindow(QuietStart, QuietEnd, now)

\* What may become of a note.
NoteMoves(n) ==
    note'[n] # note[n] =>
        /\ note[n] \in {"none", "held", "taken"}
        /\ note[n] = "held" => note'[n] \in {"taken", "died"}
        /\ note[n] = "taken" => note'[n] \in {"told", "unshown", "withheld", "missed", "died"}
        /\ note'[n] \in {"told", "unshown"} => ~Silent(loop.settings, minute) /\ loop.settings.notify
        /\ note'[n] = "unshown" => left'.faults < left.faults
        /\ note'[n] = "withheld" => ~loop.settings.notify
        /\ note'[n] = "missed" =>
             ~Silent(loop.settings, loop.drained) /\ Silent(loop.settings, minute)

\* A failure that was recorded is told once, in its own toast or counted in the summary,
\* and never in quiet hours, those over midnight included: until then it stays in the buffer,
\* whatever cycle straddles the window and whatever read fails (BL-NI-80).  What loses it is
\* the user's own switch, the end of the process, a window that opens between the two readings
\* of the clock, or an OS that does not show the toast (show() fails after the drain, raise).
NotesKept == [][NotesAccounted' /\ \A n \in Run : NoteMoves(n)]_vars

\* A check never counts without its receipt, and the log holds what was logged.
ReceiptsAccounted ==
    \A n \in Run : audit[n] # "bare" /\ (audit[n] = "logged" <=> n \in DOMAIN log)

\* Receipts go for their age only.
SweptInTime ==
    \A n \in DOMAIN log \ DOMAIN log' :
        log[n] > Day /\ (loop.sure => log[n] > settings.retention * Day)

\* The receipts of what was done stay as long as the user asked: a check never counts
\* without its receipt, nothing younger than a day is ever swept, whatever the row holds,
\* and nothing within the retention in force but for a row that changed since it was
\* read, or could not be.
ReceiptsKept == [][ReceiptsAccounted' /\ SweptInTime]_vars

\* Receipts no retention would keep.
Outlived == {n \in DOMAIN log : log[n] >= MaxAge}

\* A process that keeps running tells, or lets go of, every note it holds, and sweeps
\* every receipt that no retention would keep.
LoopServes ==
    /\ []<>(held = << >>)
    /\ []<>(~Running \/ Outlived = {})
=============================================================================
