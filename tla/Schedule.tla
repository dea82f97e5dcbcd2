------------------------------- MODULE Schedule -------------------------------
(***************************************************************************)
(* When a repo is checked, and when the scheduler gives up on it.          *)
(*                                                                         *)
(* The columns of repos / repo_local_state / settings that decide it are   *)
(* written by scheduled jobs (scheduler.rs), by manual checks and updates  *)
(* (repo.rs) and by the enable, cadence and settings commands              *)
(* (commands/mod.rs).  Jobs and manual commands hold the repo's mutex      *)
(* (RepoLocks models it); the other commands do not, and a cadence change  *)
(* is two statements.  Every statement commits on its own, so each is a    *)
(* step here, and the process can die between any two of them.             *)
(*                                                                         *)
(* Time is counted in minutes; 0 is NULL in a column that holds a time.    *)
(* The pause and git gates of a tick only skip it: Tick is never forced.   *)
(***************************************************************************)
EXTENDS Policy

CONSTANTS
    Repo,                  \* the tracked repos
    Cadences,              \* the positive cadences users choose
    MinutesPerDay,         \* 1440
    UtcOffset,             \* SystemClock's offset, fixed for the session
    QuietStart, QuietEnd,  \* settings.quiet_hours_*, NoWindow when unset
    MaxTime                \* bound: the clock stops here

ASSUME ScheduleAssumption ==
    /\ Cadences \subseteq Nat \ {0} /\ Cadences # {}
    /\ MinutesPerDay \in Nat \ {0} /\ UtcOffset \in Int
    /\ {QuietStart, QuietEnd} \subseteq Nat \cup {NoWindow}
    /\ MaxTime \in Nat \ {0}

VARIABLES
    enabled, check_frequency_min,   \* repos
    next_check_at, last_checked_at, consecutive_failures,
    auto_paused, last_error_code,   \* repo_local_state
    global_check_minutes,           \* settings
    now,                            \* the clock
    job,                            \* each repo's scheduled job
    manual,                         \* each repo's manual command: its start, 0 if none
    command,                        \* each repo's repo_set_cadence call
    settings,                       \* the settings_set call (one at a time)
    streak,                         \* history: failed scheduled runs since the last success
    guessed,                        \* history: the count rests on a snapshot, re-reading failed
    owed,                           \* history: a check was started and has no recorded outcome
    disturbed                       \* history: why the schedule may not follow the cadence

repoRow == <<enabled, check_frequency_min>>
schedule == <<next_check_at, owed>>
health == <<consecutive_failures, auto_paused, last_error_code, last_checked_at>>
calls == <<manual, command, settings>>
history == <<streak, guessed, disturbed>>
vars == <<repoRow, schedule, health, global_check_minutes, now, job, calls, history>>

Time == 1..MaxTime

\* A job carries the due query's snapshot (freq, failures) until its run is over,
\* and then what it is about to record (next, status).
JobStage == {"idle", "selected", "running", "ran", "classified"}
Job == [pc : JobStage, freq : {0} \cup Cadences, failures : 0..(AUTO_PAUSE_THRESHOLD - 1),
        start : Nat, completed : Nat, outcome : RunOutcome, next : Nat, status : RepoStatus]
NoJob == [pc |-> "idle", freq |-> 0, failures |-> 0, start |-> 0, completed |-> 0,
          outcome |-> "Success", next |-> 0, status |-> Status("Active", 0)]

\* repo_set_cadence: the new cadence is persisted, then resolved, then applied.
Command == [pc : {"idle", "persisted", "resolved"}, freq : Nat, at : Nat]
NoCommand == [pc |-> "idle", freq |-> 0, at |-> 0]

\* "job": a cadence change fell under a job in flight; "partial": it fell under another
\* change, or its second statement never ran or passed over the repo, which was
\* disabled, auto-paused or without a completed check.
Disturbance == {"job", "partial"}

TypeOK ==
    /\ enabled \in [Repo -> BOOLEAN]
    /\ check_frequency_min \in [Repo -> {0} \cup Cadences]
    /\ next_check_at \in [Repo -> Nat]
    /\ last_checked_at \in [Repo -> Nat]
    /\ consecutive_failures \in [Repo -> 0..(AUTO_PAUSE_THRESHOLD - 1)]
    /\ auto_paused \in [Repo -> BOOLEAN]
    /\ last_error_code \in [Repo -> Code]
    /\ global_check_minutes \in Cadences
    /\ now \in Time
    /\ job \in [Repo -> Job]
    /\ manual \in [Repo -> Nat]
    /\ command \in [Repo -> Command]
    /\ settings \in {"idle", "persisted"}
    /\ streak \in [Repo -> 0..AUTO_PAUSE_THRESHOLD]
    /\ guessed \in [Repo -> BOOLEAN]
    /\ owed \in [Repo -> BOOLEAN]
    /\ disturbed \in [Repo -> SUBSET Disturbance]

\* Repos as repo::add inserts them, under any global cadence.
Init ==
    /\ enabled = [r \in Repo |-> TRUE]
    /\ check_frequency_min = [r \in Repo |-> 0]
    /\ next_check_at = [r \in Repo |-> 0]
    /\ last_checked_at = [r \in Repo |-> 0]
    /\ consecutive_failures = [r \in Repo |-> 0]
    /\ auto_paused = [r \in Repo |-> FALSE]
    /\ last_error_code = [r \in Repo |-> "null"]
    /\ global_check_minutes \in Cadences
    /\ now = 1
    /\ job = [r \in Repo |-> NoJob]
    /\ manual = [r \in Repo |-> 0]
    /\ command = [r \in Repo |-> NoCommand]
    /\ settings = "idle"
    /\ streak = [r \in Repo |-> 0]
    /\ guessed = [r \in Repo |-> FALSE]
    /\ owed = [r \in Repo |-> FALSE]
    /\ disturbed = [r \in Repo |-> {}]

-----------------------------------------------------------------------------
(* The scheduled job *)

\* No change of r's cadence is half done.
Quiescent(r) == command[r].pc = "idle" /\ settings = "idle"

LocalMinutes == (now + UtcOffset) % MinutesPerDay

\* Mutant: auto-paused repos are selected too.
DueIgnoringPause(r) ==
    /\ enabled[r]
    /\ next_check_at[r] = 0 \/ next_check_at[r] <= now

Due(r) ==
    /\ enabled[r]
    /\ ~auto_paused[r]
    /\ next_check_at[r] = 0 \/ next_check_at[r] <= now

\* One cycle, once the last one is joined: outside quiet hours, every due repo
\* gets a job, with the row's cadence and count as they are now.
Tick ==
    /\ \A r \in Repo : job[r].pc = "idle"
    /\ \E r \in Repo : Due(r)
    /\ ~InQuietHours(LocalMinutes, QuietStart, QuietEnd)
    /\ job' = [r \in Repo |->
                IF Due(r) THEN [NoJob EXCEPT !.pc = "selected", !.freq = check_frequency_min[r],
                                             !.failures = consecutive_failures[r]]
                ELSE job[r]]
    /\ owed' = [r \in Repo |-> owed[r] \/ Due(r)]
    /\ disturbed' = [r \in Repo |-> IF Due(r) /\ Quiescent(r) THEN {} ELSE disturbed[r]]
    /\ UNCHANGED <<repoRow, next_check_at, health, global_check_minutes, now, calls, streak, guessed>>

\* Time has passed in the startup jitter, the mutex queue and the semaphore queue,
\* and nothing is checked again: the repo may have been disabled since it was
\* selected.  The run takes its timestamp before the fetch.
JobStart(r) ==
    /\ job[r].pc = "selected"
    /\ manual[r] = 0
    /\ job' = [job EXCEPT ![r] = [@ EXCEPT !.pc = "running", !.start = now]]
    /\ UNCHANGED <<repoRow, schedule, health, global_check_minutes, now, calls, history>>

\* A run that could be made, manual or not, writes its outcome at once: a success
\* ends the streak of failures and the pause, a failure leaves both to the scheduler.
WriteRun(r, start, outcome) ==
    /\ last_checked_at' = [last_checked_at EXCEPT ![r] = start]
    /\ last_error_code' = [last_error_code EXCEPT ![r] =
                            IF outcome = "Success" THEN "null" ELSE "error"]
    /\ consecutive_failures' = [consecutive_failures EXCEPT ![r] =
                            IF outcome = "Success" THEN 0 ELSE @]
    /\ auto_paused' = [auto_paused EXCEPT ![r] = @ /\ outcome # "Success"]

EndStreak(r) ==
    /\ streak' = [streak EXCEPT ![r] = 0]
    /\ guessed' = [guessed EXCEPT ![r] = FALSE]

LengthenStreak(r) ==
    /\ streak' = [streak EXCEPT ![r] = IF @ < AUTO_PAUSE_THRESHOLD THEN @ + 1 ELSE @]
    /\ UNCHANGED guessed

RunSucceeds(r) == WriteRun(r, job[r].start, "Success") /\ EndStreak(r)

RunFails(r, outcome) == WriteRun(r, job[r].start, outcome) /\ LengthenStreak(r)

\* An error before the write (no git, no folder, the write itself): the row stays.
RunBreaks(r, outcome) ==
    /\ outcome \in {"AuthFailure", "NetworkFailure"}
    /\ LengthenStreak(r)
    /\ UNCHANGED health

\* The git work is over, and the outcome is what the job will count.
JobRun(r) ==
    /\ job[r].pc = "running"
    /\ \E outcome \in RunOutcome :
        /\ job' = [job EXCEPT ![r] =
                    [@ EXCEPT !.pc = "ran", !.outcome = outcome, !.completed = now, !.start = 0]]
        /\ \/ outcome = "Success" /\ RunSucceeds(r)
           \/ outcome \in Failure /\ RunFails(r, outcome)
           \/ RunBreaks(r, outcome)
    /\ UNCHANGED <<repoRow, schedule, global_check_minutes, now, calls, disturbed>>

\* The row to record: the failure state machine's verdict, and the next check from
\* the completion time, the due query's own cadence and the live global one.
Classified(r, prior) ==
    [NoJob EXCEPT
        !.pc = "classified",
        !.status = ClassifyFailure(prior, job[r].outcome),
        !.next = NextCheckAt(job[r].completed,
                             EffectiveFrequency(job[r].freq, global_check_minutes))]

\* Mutant: the count is the due query's, which a manual success may have reset.
JobClassifySnapshot(r) ==
    /\ job[r].pc = "ran"
    /\ job' = [job EXCEPT ![r] = Classified(r, job[r].failures)]
    /\ UNCHANGED <<repoRow, schedule, health, global_check_minutes, now, calls, history>>

\* The job reads the failure count again, under the mutex (the snapshot serves if
\* that fails), and the live global cadence.
JobClassify(r) ==
    /\ job[r].pc = "ran"
    /\ \E prior \in {consecutive_failures[r], job[r].failures} :
        /\ job' = [job EXCEPT ![r] = Classified(r, prior)]
        /\ guessed' = [guessed EXCEPT ![r] = @ \/ prior # consecutive_failures[r]]
    /\ UNCHANGED <<repoRow, schedule, health, global_check_minutes, now, calls, streak, disturbed>>

JobEnds(r) == job' = [job EXCEPT ![r] = NoJob]

\* One UPDATE records the outcome.
JobRecord(r) ==
    /\ job[r].pc = "classified"
    /\ next_check_at' = [next_check_at EXCEPT ![r] = job[r].next]
    /\ consecutive_failures' = [consecutive_failures EXCEPT ![r] = PersistedFailures(job[r].status)]
    /\ auto_paused' = [auto_paused EXCEPT ![r] = PersistedPause(job[r].status)]
    /\ last_error_code' = [last_error_code EXCEPT ![r] = StatusErrorCode(job[r].status)]
    /\ owed' = [owed EXCEPT ![r] = FALSE]
    /\ JobEnds(r)
    /\ UNCHANGED <<repoRow, last_checked_at, global_check_minutes, now, calls, history>>

\* Mutant: record moves the schedule first, and fails before it writes the rest.
JobRecordFailsHalfway(r) ==
    /\ job[r].pc = "classified"
    /\ next_check_at' = [next_check_at EXCEPT ![r] = job[r].next]
    /\ JobEnds(r)
    /\ UNCHANGED <<repoRow, owed, health, global_check_minutes, now, calls, history>>

\* The outcome could not be read for or written: the repo stays due and retries.
JobRecordFails(r) ==
    /\ job[r].pc \in {"ran", "classified"}
    /\ JobEnds(r)
    /\ UNCHANGED <<repoRow, schedule, health, global_check_minutes, now, calls, history>>

-----------------------------------------------------------------------------
(* Manual checks and updates, "Check All Now" *)

\* The command needs the repo's mutex, like the job.
ManualBegin(r) ==
    /\ manual[r] = 0
    /\ job[r].pc \in {"idle", "selected"}
    /\ manual' = [manual EXCEPT ![r] = now]
    /\ UNCHANGED <<repoRow, schedule, health, global_check_minutes, now, job, command, settings,
                   history>>

\* The command could not run: the code is recorded, best effort.
ManualBreaks(r) ==
    /\ last_error_code' \in {last_error_code, [last_error_code EXCEPT ![r] = "error"]}
    /\ UNCHANGED <<consecutive_failures, auto_paused, last_checked_at, streak, guessed>>

ManualFails(r) ==
    /\ \E outcome \in Failure : WriteRun(r, manual[r], outcome)
    /\ UNCHANGED <<streak, guessed>>

ManualSucceeds(r) == WriteRun(r, manual[r], "Success") /\ EndStreak(r)

ManualEnd(r) ==
    /\ manual[r] # 0
    /\ manual' = [manual EXCEPT ![r] = 0]
    /\ ManualSucceeds(r) \/ ManualFails(r) \/ ManualBreaks(r)
    /\ UNCHANGED <<repoRow, schedule, global_check_minutes, now, job, command, settings, disturbed>>

-----------------------------------------------------------------------------
(* Commands that take no mutex *)

SetEnabled(r) ==
    /\ enabled' = [enabled EXCEPT ![r] = ~@]
    /\ UNCHANGED <<check_frequency_min, schedule, health, global_check_minutes, now, job, calls,
                   history>>

\* What a change of r's cadence collides with.
Collisions(r, others) ==
    {d \in Disturbance : \/ d = "job" /\ job[r].pc # "idle"
                         \/ d = "partial" /\ others}

\* repo_set_cadence persists the cadence, ...
SetCadence(r) ==
    /\ command[r].pc = "idle"
    /\ \E freq \in {0} \cup Cadences :
        check_frequency_min' = [check_frequency_min EXCEPT ![r] = freq]
    /\ command' = [command EXCEPT ![r] = [@ EXCEPT !.pc = "persisted"]]
    /\ disturbed' = [disturbed EXCEPT ![r] = @ \cup Collisions(r, settings # "idle")]
    /\ UNCHANGED <<enabled, schedule, health, global_check_minutes, now, job, manual, settings,
                   streak, guessed>>

\* Mutant: the cadence is read back without the global one to inherit.
ResolveCadenceNoGlobal(r) ==
    /\ command[r].pc = "persisted"
    /\ command' = [command EXCEPT ![r] =
        [pc |-> "resolved", at |-> now, freq |-> EffectiveFrequency(check_frequency_min[r], 0)]]
    /\ UNCHANGED <<repoRow, schedule, health, global_check_minutes, now, job, manual, settings,
                   history>>

\* ... reads the effective cadence back, ...
ResolveCadence(r) ==
    /\ command[r].pc = "persisted"
    /\ command' = [command EXCEPT ![r] =
        [pc |-> "resolved", at |-> now,
         freq |-> EffectiveFrequency(check_frequency_min[r], global_check_minutes)]]
    /\ UNCHANGED <<repoRow, schedule, health, global_check_minutes, now, job, manual, settings,
                   history>>

\* RESCHEDULE_SET_AND_GUARD's WHERE, with the scopes' shared enabled = 1.
Reschedulable(r) == enabled[r] /\ ~auto_paused[r] /\ last_checked_at[r] # 0

PassedOver(r) == IF Reschedulable(r) THEN {} ELSE {"partial"}

\* ... and re-anchors the schedule.
Reschedule(r) ==
    /\ command[r].pc = "resolved"
    /\ command' = [command EXCEPT ![r] = NoCommand]
    /\ IF Reschedulable(r)
       THEN /\ next_check_at' = [next_check_at EXCEPT ![r] =
                                    Rescheduled(command[r].at, last_checked_at[r], command[r].freq)]
            /\ owed' = [owed EXCEPT ![r] = FALSE]
       ELSE UNCHANGED schedule
    /\ disturbed' = [disturbed EXCEPT ![r] = @ \cup PassedOver(r)]
    /\ UNCHANGED <<repoRow, health, global_check_minutes, now, job, manual, settings, streak, guessed>>

\* settings_set persists a changed global cadence, ...
SetGlobal ==
    /\ settings = "idle"
    /\ settings' = "persisted"
    /\ global_check_minutes' \in Cadences \ {global_check_minutes}
    /\ disturbed' = [r \in Repo |->
            disturbed[r] \cup Collisions(r, command[r].pc # "idle")]
    /\ UNCHANGED <<repoRow, schedule, health, now, job, manual, command, streak, guessed>>

\* ... and re-anchors the repos that inherit it, in one statement.
RescheduleInherit ==
    LET inherits(r) == check_frequency_min[r] = 0
        moved == {r \in Repo : Reschedulable(r) /\ inherits(r)} IN
    /\ settings = "persisted"
    /\ settings' = "idle"
    /\ next_check_at' = [r \in Repo |->
            IF r \in moved THEN Rescheduled(now, last_checked_at[r], global_check_minutes)
            ELSE next_check_at[r]]
    /\ owed' = [r \in Repo |-> owed[r] /\ r \notin moved]
    /\ disturbed' = [r \in Repo |->
            IF inherits(r) THEN disturbed[r] \cup PassedOver(r) ELSE disturbed[r]]
    /\ UNCHANGED <<repoRow, health, global_check_minutes, now, job, manual, command, streak, guessed>>

\* The second statement fails and the change stays persisted.
RescheduleFails ==
    /\ \/ /\ settings = "persisted"
          /\ settings' = "idle"
          /\ disturbed' = [r \in Repo |-> disturbed[r] \cup {"partial"}]
          /\ UNCHANGED command
       \/ \E r \in Repo :
          /\ command[r].pc # "idle"
          /\ command' = [command EXCEPT ![r] = NoCommand]
          /\ disturbed' = [disturbed EXCEPT ![r] = @ \cup {"partial"}]
          /\ UNCHANGED settings
    /\ UNCHANGED <<repoRow, schedule, health, global_check_minutes, now, job, manual, streak, guessed>>

-----------------------------------------------------------------------------

Pass ==
    /\ now < MaxTime
    /\ now' = now + 1
    /\ UNCHANGED <<repoRow, schedule, health, global_check_minutes, job, calls, history>>

\* The process dies: the rows survive, everything else starts over.
Crash ==
    /\ job' = [r \in Repo |-> NoJob]
    /\ manual' = [r \in Repo |-> 0]
    /\ command' = [r \in Repo |-> NoCommand]
    /\ settings' = "idle"
    /\ disturbed' = [r \in Repo |->
            IF settings # "idle" \/ command[r].pc # "idle" THEN disturbed[r] \cup {"partial"}
            ELSE disturbed[r]]
    /\ UNCHANGED <<repoRow, schedule, health, global_check_minutes, now, streak, guessed>>

JobStep(r) ==
    \/ JobStart(r) \/ JobRun(r) \/ JobClassify(r) \/ JobRecord(r) \/ JobRecordFails(r)

UserStep(r) ==
    \/ ManualBegin(r) \/ ManualEnd(r) \/ SetEnabled(r)
    \/ SetCadence(r) \/ ResolveCadence(r) \/ Reschedule(r)

Next ==
    \/ \E r \in Repo : JobStep(r) \/ UserStep(r)
    \/ Tick \/ SetGlobal \/ RescheduleInherit \/ RescheduleFails
    \/ Pass \/ Crash

Spec == Init /\ [][Next]_vars

-----------------------------------------------------------------------------
(* Properties *)

\* The failure counter never exceeds the failed scheduled runs since the last
\* success of any run, whatever manual commands, crashes and failed writes fall
\* between (run_job re-reads it under the mutex, BL-NI-72); only the logged
\* fallback to the due query's snapshot may break it.
FailuresEarned == \A r \in Repo : consecutive_failures[r] <= streak[r] \/ guessed[r]

\* A repo is auto-paused only by an authentication failure or after three failed
\* runs without a success between them (classify_failure, AUTO_PAUSE_THRESHOLD).
AutoPauseEarned ==
    [][\A r \in Repo : auto_paused'[r] /\ ~auto_paused[r] =>
        job[r].status.name = "PausedOnAuth" \/ streak[r] = AUTO_PAUSE_THRESHOLD \/ guessed[r]]_vars

\* A repo frozen out of scheduled checks is always in the needs-attention list:
\* auto_paused with a NULL last_error_code is "the worst reachable state"
\* (run_update_inner's comment on its single UPDATE).
PausedHasReason == \A r \in Repo : auto_paused[r] => last_error_code[r] # "null"

\* Only a successful manual command re-admits an auto-paused repo: no job that was
\* already under way does, and no settings or cadence command
\* (clear_failure_state's doc: "the only thing that re-admits a repo").
UnpauseOnlyByUser ==
    [][\A r \in Repo : auto_paused[r] /\ ~auto_paused'[r] =>
        manual[r] # 0 /\ manual'[r] = 0 /\ last_error_code'[r] = "null"]_vars

\* A check that was started stays due until its outcome is recorded: neither a crash
\* nor a failed write loses it (next_check_at is written by record alone, and by
\* the commands that reschedule on purpose).
OwedStaysDue == \A r \in Repo : owed[r] => next_check_at[r] = 0 \/ next_check_at[r] <= now

Cadence(r) == EffectiveFrequency(check_frequency_min[r], global_check_minutes)

\* Nothing is under way that still owes r's schedule a write.
Settled(r) == job[r].pc = "idle" /\ Quiescent(r)

Scheduled(r) == enabled[r] /\ ~auto_paused[r]

\* The cadence in force is the configured one: once things settle a repo is never
\* scheduled further away than its effective cadence, unless the change collided
\* with a job, a second change, a disabled repo or a failure (BL-NI-25, BL-NI-30).
CadenceInForce ==
    \A r \in Repo : Settled(r) /\ Scheduled(r) /\ disturbed[r] = {} =>
        next_check_at[r] <= now + Cadence(r)

\* What repo_set_cadence says of every override: it "takes effect immediately instead
\* of waiting out the stale schedule", a job in flight or not.
CadenceImmediate ==
    \A r \in Repo :
        /\ Settled(r) /\ Scheduled(r) /\ check_frequency_min[r] > 0
        /\ "partial" \notin disturbed[r]
        => next_check_at[r] <= now + Cadence(r)

\* What the reschedule's skip rests on: a repo that has never been checked
\* (last_checked_at NULL) is due already, "so there is nothing to bring forward".
NeverCheckedIsDue ==
    \A r \in Repo : last_checked_at[r] = 0 => next_check_at[r] = 0 \/ next_check_at[r] <= now

\* What E-08 promises of quiet hours: no scheduled check starts inside the window.
QuietHoursHeld ==
    [][\A r \in Repo : job[r].pc = "selected" /\ job'[r].pc = "running" =>
        ~InQuietHours(LocalMinutes, QuietStart, QuietEnd)]_vars
=============================================================================
