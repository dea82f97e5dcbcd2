---------------------------- MODULE ScheduleProofs ----------------------------
(***************************************************************************)
(* Proofs about Schedule, for every set of repos, cadences, quiet hours    *)
(* and every length of the run.                                            *)
(***************************************************************************)
EXTENDS Schedule, TLAPS

-----------------------------------------------------------------------------
(* The pure decisions *)

\* A cadence in force is positive, whatever is stored.
LEMMA FrequencyType ==
  ASSUME NEW f \in Nat, NEW g \in Nat
  PROVE  EffectiveFrequency(f, g) \in Nat \ {0}
  BY DEF EffectiveFrequency, DEFAULT_FREQUENCY_MIN

\* The next check after a run, and after a change of cadence.
LEMMA NextCheckType ==
  ASSUME NEW time \in Nat, NEW last \in Nat, NEW freq \in Nat \ {0}
  PROVE  /\ NextCheckAt(time, freq) = time + freq
         /\ NextCheckAt(time, freq) \in Nat
         /\ Rescheduled(time, last, freq) \in Nat
         /\ last <= time => Rescheduled(time, last, freq) <= time + freq
  BY DEF NextCheckAt, Rescheduled

\* What the failure state machine returns, and what is persisted of it.
LEMMA ClassifyType ==
  ASSUME NEW prior \in 0..(AUTO_PAUSE_THRESHOLD - 1), NEW outcome \in RunOutcome
  PROVE  LET status == ClassifyFailure(prior, outcome) IN
         /\ status \in RepoStatus
         /\ status.consecutive_failures # 0 => status.consecutive_failures = prior + 1
         /\ status.consecutive_failures # 0 => outcome \in Failure
         /\ status.name = "AutoPaused" =>
                outcome \in Failure /\ prior + 1 = AUTO_PAUSE_THRESHOLD
  BY DEF ClassifyFailure, RunOutcome, Failure, RepoStatus, Status, AUTO_PAUSE_THRESHOLD

\* What is persisted of a status: a pause always comes with a code.
LEMMA StatusType ==
  ASSUME NEW status \in RepoStatus
  PROVE  /\ PersistedFailures(status) \in 0..(AUTO_PAUSE_THRESHOLD - 1)
         /\ PersistedFailures(status) = status.consecutive_failures
         /\ PersistedPause(status) \in BOOLEAN
         /\ PersistedPause(status) => status.name \in {"PausedOnAuth", "AutoPaused"}
         /\ PersistedPause(status) => StatusErrorCode(status) = "error"
         /\ StatusErrorCode(status) \in Code
  BY DEF PersistedFailures, PersistedPause, StatusErrorCode, Code, RepoStatus, Status,
         AUTO_PAUSE_THRESHOLD

-----------------------------------------------------------------------------
(* Types *)

\* The empty records are typed.
LEMMA NoneType == NoJob \in Job /\ NoCommand \in Command
  BY DEF NoJob, Job, JobStage, NoCommand, Command, RunOutcome, RepoStatus, Status,
         AUTO_PAUSE_THRESHOLD

\* The rows repo::add inserts are typed.
LEMMA TypeInit == Init => TypeOK
  BY NoneType, ScheduleAssumption DEF Init, TypeOK, Code, Time, Disturbance, AUTO_PAUSE_THRESHOLD

\* What a job's record becomes is typed, too.
LEMMA JobType ==
  ASSUME NEW j \in Job, NEW time \in Nat
  PROVE  /\ [j EXCEPT !.pc = "running", !.start = time] \in Job
         /\ \A outcome \in RunOutcome :
              [j EXCEPT !.pc = "ran", !.outcome = outcome, !.completed = time, !.start = 0] \in Job
         /\ \A freq \in {0} \cup Cadences, failures \in 0..(AUTO_PAUSE_THRESHOLD - 1) :
              [NoJob EXCEPT !.pc = "selected", !.freq = freq, !.failures = failures] \in Job
         /\ \A status \in RepoStatus :
              [NoJob EXCEPT !.pc = "classified", !.status = status, !.next = time] \in Job
  BY NoneType DEF Job, JobStage

\* Every step keeps the types.
LEMMA TypeStep == TypeOK /\ [Next]_vars => TypeOK'
<1> SUFFICES ASSUME TypeOK, [Next]_vars PROVE TypeOK'
  OBVIOUS
<1> USE ScheduleAssumption, NoneType DEF TypeOK, repoRow, schedule, health, calls, history
<1>0. /\ now \in Nat
      /\ global_check_minutes \in Nat \ {0}
      /\ \A r \in Repo : check_frequency_min[r] \in Nat
  <2>1. now \in Nat
    BY DEF Time
  <2>2. global_check_minutes \in Nat \ {0}
    OBVIOUS
  <2>3. \A r \in Repo : check_frequency_min[r] \in Nat
    <3>1. \A c \in {0} \cup Cadences : c \in Nat
      OBVIOUS
    <3>2. \A r \in Repo : check_frequency_min[r] \in {0} \cup Cadences
      OBVIOUS
    <3> QED
      BY <3>1, <3>2
  <2> QED
    BY <2>1, <2>2, <2>3
<1>1. CASE Tick
  <2>1. job' \in [Repo -> Job]
    BY <1>1, JobType DEF Tick
  <2> QED
    BY <1>1, <2>1 DEF Tick
<1>2. ASSUME NEW r \in Repo, JobStart(r) PROVE TypeOK'
  <2>1. job' \in [Repo -> Job]
    BY <1>0, <1>2, JobType DEF JobStart
  <2> QED
    BY <1>2, <2>1 DEF JobStart
<1>3. ASSUME NEW r \in Repo, JobRun(r) PROVE TypeOK'
  <2>1. PICK outcome \in RunOutcome :
           /\ job' = [job EXCEPT ![r] =
                 [@ EXCEPT !.pc = "ran", !.outcome = outcome, !.completed = now, !.start = 0]]
           /\ \/ outcome = "Success" /\ RunSucceeds(r)
              \/ outcome \in Failure /\ RunFails(r, outcome)
              \/ RunBreaks(r, outcome)
    BY <1>3 DEF JobRun
  <2>2. job' \in [Repo -> Job]
    BY <1>0, <2>1, JobType
  <2>3. last_checked_at' \in [Repo -> Nat] /\ last_error_code' \in [Repo -> Code]
    <3>1. job[r].start \in Nat
      BY DEF Job
    <3> QED
      BY <2>1, <3>1 DEF RunSucceeds, RunFails, RunBreaks, WriteRun, Code
  <2>4. consecutive_failures' \in [Repo -> 0..(AUTO_PAUSE_THRESHOLD - 1)]
    BY <2>1 DEF RunSucceeds, RunFails, RunBreaks, WriteRun, AUTO_PAUSE_THRESHOLD
  <2>5. auto_paused' \in [Repo -> BOOLEAN] /\ guessed' \in [Repo -> BOOLEAN]
    BY <2>1 DEF RunSucceeds, RunFails, RunBreaks, WriteRun, EndStreak, LengthenStreak
  <2>6. streak' \in [Repo -> 0..AUTO_PAUSE_THRESHOLD]
    BY <2>1 DEF RunSucceeds, RunFails, RunBreaks, EndStreak, LengthenStreak, AUTO_PAUSE_THRESHOLD
  <2> QED
    BY <1>3, <2>2, <2>3, <2>4, <2>5, <2>6 DEF JobRun
<1>4. ASSUME NEW r \in Repo, JobClassify(r) PROVE TypeOK'
  <2>1. PICK prior \in {consecutive_failures[r], job[r].failures} :
           /\ job' = [job EXCEPT ![r] = Classified(r, prior)]
           /\ guessed' = [guessed EXCEPT ![r] = @ \/ prior # consecutive_failures[r]]
    BY <1>4 DEF JobClassify
  <2>2. /\ prior \in 0..(AUTO_PAUSE_THRESHOLD - 1)
        /\ job[r].outcome \in RunOutcome
        /\ job[r].completed \in Nat
        /\ job[r].freq \in Nat
    <3>1. \A c \in {0} \cup Cadences : c \in Nat
      OBVIOUS
    <3>2. job[r] \in Job
      OBVIOUS
    <3>3. job[r].freq \in {0} \cup Cadences /\ job[r].completed \in Nat
      BY <3>2 DEF Job
    <3>4. job[r].outcome \in RunOutcome /\ job[r].failures \in 0..(AUTO_PAUSE_THRESHOLD - 1)
      BY <3>2 DEF Job
    <3>5. prior \in 0..(AUTO_PAUSE_THRESHOLD - 1)
      BY <2>1, <3>4
    <3>6. job[r].freq \in Nat
      BY <3>1, <3>3
    <3> QED
      BY <3>3, <3>4, <3>5, <3>6
  <2>3. Classified(r, prior) \in Job
    <3> DEFINE freq == EffectiveFrequency(job[r].freq, global_check_minutes)
               status == ClassifyFailure(prior, job[r].outcome)
    <3>1. status \in RepoStatus
      BY <2>2, ClassifyType
    <3>2. NextCheckAt(job[r].completed, freq) \in Nat
      BY <1>0, <2>2, FrequencyType, NextCheckType
    <3> QED
      BY <3>1, <3>2, JobType DEF Classified
  <2>4. guessed' \in [Repo -> BOOLEAN]
    BY <2>1
  <2> QED
    BY <1>4, <2>1, <2>3, <2>4 DEF JobClassify
<1>5. ASSUME NEW r \in Repo, JobRecord(r) PROVE TypeOK'
  <2>1. job[r].next \in Nat /\ job[r].status \in RepoStatus
    BY DEF Job
  <2> QED
    BY <1>5, <2>1, StatusType DEF JobRecord, JobEnds
<1>6. ASSUME NEW r \in Repo, JobRecordFails(r) PROVE TypeOK'
  BY <1>6 DEF JobRecordFails, JobEnds
<1>7. ASSUME NEW r \in Repo, ManualBegin(r) PROVE TypeOK'
  BY <1>0, <1>7 DEF ManualBegin
<1>8. ASSUME NEW r \in Repo, ManualEnd(r) PROVE TypeOK'
  <2>1. /\ last_checked_at' \in [Repo -> Nat]
        /\ last_error_code' \in [Repo -> Code]
    BY <1>8 DEF ManualEnd, ManualSucceeds, ManualFails, ManualBreaks, WriteRun, Code
  <2>2. consecutive_failures' \in [Repo -> 0..(AUTO_PAUSE_THRESHOLD - 1)]
    BY <1>8 DEF ManualEnd, ManualSucceeds, ManualFails, ManualBreaks, WriteRun, AUTO_PAUSE_THRESHOLD
  <2>3. auto_paused' \in [Repo -> BOOLEAN] /\ guessed' \in [Repo -> BOOLEAN]
    BY <1>8 DEF ManualEnd, ManualSucceeds, ManualFails, ManualBreaks, WriteRun, EndStreak
  <2>4. streak' \in [Repo -> 0..AUTO_PAUSE_THRESHOLD] /\ manual' \in [Repo -> Nat]
    BY <1>8 DEF ManualEnd, ManualSucceeds, ManualFails, ManualBreaks, EndStreak, AUTO_PAUSE_THRESHOLD
  <2> QED
    BY <1>8, <2>1, <2>2, <2>3, <2>4 DEF ManualEnd
<1>9. ASSUME NEW r \in Repo, SetEnabled(r) PROVE TypeOK'
  BY <1>9 DEF SetEnabled
<1>10. ASSUME NEW r \in Repo, SetCadence(r) PROVE TypeOK'
  <2>1. command' \in [Repo -> Command]
    BY <1>10 DEF SetCadence, Command
  <2> QED
    BY <1>10, <2>1 DEF SetCadence, Collisions
<1>11. ASSUME NEW r \in Repo, ResolveCadence(r) PROVE TypeOK'
  <2>1. EffectiveFrequency(check_frequency_min[r], global_check_minutes) \in Nat
    BY <1>0, FrequencyType
  <2>2. command' \in [Repo -> Command]
    BY <1>0, <1>11, <2>1 DEF ResolveCadence, Command
  <2> QED
    BY <1>11, <2>2 DEF ResolveCadence
<1>12. ASSUME NEW r \in Repo, Reschedule(r) PROVE TypeOK'
  <2>1. Rescheduled(command[r].at, last_checked_at[r], command[r].freq) \in Nat
    <3>1. command[r].at \in Nat /\ command[r].freq \in Nat /\ last_checked_at[r] \in Nat
      BY DEF Command
    <3> QED
      BY <3>1 DEF Rescheduled
  <2>2. next_check_at' \in [Repo -> Nat] /\ owed' \in [Repo -> BOOLEAN]
    BY <1>12, <2>1 DEF Reschedule
  <2> QED
    BY <1>12, <2>2 DEF Reschedule, PassedOver, Disturbance
<1>13. CASE SetGlobal
  BY <1>13 DEF SetGlobal, Collisions
<1>14. CASE RescheduleInherit
  <2>1. \A r \in Repo : Rescheduled(now, last_checked_at[r], global_check_minutes) \in Nat
    BY <1>0 DEF Rescheduled
  <2>2. next_check_at' \in [Repo -> Nat]
    BY <1>14, <2>1 DEF RescheduleInherit
  <2>3. owed' \in [Repo -> BOOLEAN] /\ disturbed' \in [Repo -> SUBSET Disturbance]
    BY <1>14 DEF RescheduleInherit, PassedOver, Disturbance
  <2> QED
    BY <1>14, <2>2, <2>3 DEF RescheduleInherit
<1>15. CASE RescheduleFails
  BY <1>15 DEF RescheduleFails, Disturbance
<1>16. CASE Pass
  BY <1>0, <1>16 DEF Pass, Time
<1>17. CASE Crash
  BY <1>17 DEF Crash, Disturbance
<1>18. CASE UNCHANGED vars
  BY <1>18 DEF vars
<1> QED
  BY <1>1, <1>2, <1>3, <1>4, <1>5, <1>6, <1>7, <1>8, <1>9, <1>10, <1>11, <1>12, <1>13, <1>14,
     <1>15, <1>16, <1>17, <1>18 DEF Next, JobStep, UserStep

-----------------------------------------------------------------------------
(* The parts of the inductive invariant *)

\* A manual command and a job past its mutex exclude each other.
MutexInv == \A r \in Repo : manual[r] # 0 => job[r].pc \in {"idle", "selected"}

\* A count is covered by failures, and so is the count a job is about to record.
CountInv ==
    \A r \in Repo : ~guessed[r] =>
        /\ consecutive_failures[r] <= streak[r]
        /\ job[r].pc = "ran" /\ job[r].outcome \in Failure => consecutive_failures[r] < streak[r]
        /\ job[r].pc = "classified" => job[r].status.consecutive_failures <= streak[r]
        /\ job[r].pc = "classified" /\ job[r].status.name = "AutoPaused" =>
                streak[r] = AUTO_PAUSE_THRESHOLD

\* An auto-paused repo has no job and has a reason.
PauseInv == \A r \in Repo : auto_paused[r] => job[r].pc = "idle" /\ last_error_code[r] = "error"

\* A job only leaves its queue, and a command only starts, when the other is not at work.
LEMMA MutexStep == TypeOK /\ MutexInv /\ [Next]_vars => MutexInv'
<1> SUFFICES ASSUME TypeOK, MutexInv, [Next]_vars PROVE MutexInv'
  OBVIOUS
<1> USE DEF MutexInv, TypeOK, calls
<1>1. CASE Tick
  BY <1>1, NoneType DEF Tick, Job, NoJob
<1>2. ASSUME NEW r \in Repo, JobStart(r) \/ JobRun(r) \/ JobClassify(r) PROVE MutexInv'
  <2>1. UNCHANGED manual /\ \E j : job' = [job EXCEPT ![r] = j]
    BY <1>2 DEF JobStart, JobRun, JobClassify
  <2>2. manual[r] = 0
    BY <1>2 DEF JobStart, JobRun, JobClassify
  <2> QED
    BY <2>1, <2>2
<1>3. ASSUME NEW r \in Repo, JobRecord(r) \/ JobRecordFails(r) PROVE MutexInv'
  <2>1. UNCHANGED manual /\ job' = [job EXCEPT ![r] = NoJob]
    BY <1>3 DEF JobRecord, JobRecordFails, JobEnds
  <2> QED
    BY <2>1 DEF NoJob
<1>4. ASSUME NEW r \in Repo, ManualBegin(r) \/ ManualEnd(r) PROVE MutexInv'
  BY <1>4 DEF ManualBegin, ManualEnd
<1>5. CASE Crash
  BY <1>5 DEF Crash
<1>6. ASSUME UNCHANGED <<manual, job>> PROVE MutexInv'
  BY <1>6
<1> QED
  BY <1>1, <1>2, <1>3, <1>4, <1>5, <1>6
     DEF Next, JobStep, UserStep, SetEnabled, SetCadence, ResolveCadence, Reschedule, SetGlobal,
         RescheduleInherit, RescheduleFails, Pass, vars

\* A failed run lengthens the streak before it is counted, and no command resets the
\* streak between a run and its recording.
LEMMA CountStep == TypeOK /\ MutexInv /\ CountInv /\ [Next]_vars => CountInv'
<1> SUFFICES ASSUME TypeOK, MutexInv, CountInv, [Next]_vars PROVE CountInv'
  OBVIOUS
<1> USE DEF TypeOK, health, history
<1>1. ASSUME UNCHANGED <<consecutive_failures, streak, guessed>>,
             \A r \in Repo : job'[r] = job[r] \/ job'[r].pc \notin {"ran", "classified"}
      PROVE  CountInv'
  BY <1>1 DEF CountInv
<1>2. ASSUME NEW r \in Repo, JobRun(r) PROVE CountInv'
  <2>1. PICK outcome \in RunOutcome :
           /\ job' = [job EXCEPT ![r] =
                 [@ EXCEPT !.pc = "ran", !.outcome = outcome, !.completed = now, !.start = 0]]
           /\ \/ outcome = "Success" /\ RunSucceeds(r)
              \/ outcome \in Failure /\ RunFails(r, outcome)
              \/ RunBreaks(r, outcome)
    BY <1>2 DEF JobRun
  <2>2. job'[r].pc = "ran" /\ job'[r].outcome = outcome
    BY <2>1 DEF Job
  <2>3. \A s \in Repo \ {r} : /\ job'[s] = job[s]
                              /\ consecutive_failures'[s] = consecutive_failures[s]
                              /\ streak'[s] = streak[s]
                              /\ guessed'[s] = guessed[s]
    BY <2>1 DEF RunSucceeds, RunFails, RunBreaks, WriteRun, EndStreak, LengthenStreak
  <2>4. CASE outcome = "Success" /\ RunSucceeds(r)
    <3>1. consecutive_failures'[r] = 0 /\ streak'[r] = 0
      BY <2>4 DEF RunSucceeds, WriteRun, EndStreak
    <3>2. outcome \notin Failure
      BY <2>4 DEF Failure
    <3> QED
      BY <2>2, <2>3, <3>1, <3>2 DEF CountInv
  <2>5. CASE outcome # "Success" /\ (RunFails(r, outcome) \/ RunBreaks(r, outcome))
    <3>1. /\ consecutive_failures'[r] = consecutive_failures[r]
          /\ guessed'[r] = guessed[r]
          /\ streak'[r] = IF streak[r] < AUTO_PAUSE_THRESHOLD THEN streak[r] + 1 ELSE streak[r]
      BY <2>5 DEF RunFails, RunBreaks, WriteRun, LengthenStreak
    <3>2. /\ consecutive_failures[r] \in 0..(AUTO_PAUSE_THRESHOLD - 1)
          /\ streak[r] \in 0..AUTO_PAUSE_THRESHOLD
      OBVIOUS
    <3>3. ~guessed[r] => consecutive_failures[r] <= streak[r]
      BY DEF CountInv
    <3>4. ~guessed[r] => consecutive_failures'[r] < streak'[r]
      BY <3>1, <3>2, <3>3 DEF AUTO_PAUSE_THRESHOLD
    <3>5. ~guessed[r] => consecutive_failures'[r] <= streak'[r]
      BY <3>1, <3>2, <3>3 DEF AUTO_PAUSE_THRESHOLD
    <3> QED
      BY <2>2, <2>3, <3>1, <3>4, <3>5 DEF CountInv
  <2> QED
    BY <2>1, <2>4, <2>5 DEF RunBreaks, Failure
<1>3. ASSUME NEW r \in Repo, JobClassify(r) PROVE CountInv'
  <2>1. PICK prior \in {consecutive_failures[r], job[r].failures} :
           /\ job' = [job EXCEPT ![r] = Classified(r, prior)]
           /\ guessed' = [guessed EXCEPT ![r] = @ \/ prior # consecutive_failures[r]]
           /\ job[r].pc = "ran"
           /\ UNCHANGED <<consecutive_failures, streak>>
    BY <1>3 DEF JobClassify
  <2>2. \A s \in Repo \ {r} : job'[s] = job[s] /\ guessed'[s] = guessed[s]
    BY <2>1
  <2>3. ASSUME ~guessed'[r]
        PROVE  /\ consecutive_failures[r] <= streak[r]
               /\ job'[r].pc = "classified"
               /\ job'[r].status.consecutive_failures <= streak[r]
               /\ job'[r].status.name = "AutoPaused" => streak[r] = AUTO_PAUSE_THRESHOLD
    <3> DEFINE status == ClassifyFailure(prior, job[r].outcome)
    <3>1. ~guessed[r] /\ prior = consecutive_failures[r]
      BY <2>1, <2>3
    <3>2. job'[r].pc = "classified" /\ job'[r].status = status
      BY <2>1, NoneType DEF Classified, Job
    <3>3. /\ consecutive_failures[r] <= streak[r]
          /\ job[r].outcome \in Failure => consecutive_failures[r] < streak[r]
      BY <2>1, <3>1 DEF CountInv
    <3>4. prior \in 0..(AUTO_PAUSE_THRESHOLD - 1) /\ streak[r] \in 0..AUTO_PAUSE_THRESHOLD
      BY <3>1
    <3>5. job[r].outcome \in RunOutcome
      BY DEF Job
    <3>6. /\ status \in RepoStatus
          /\ status.consecutive_failures # 0 =>
                status.consecutive_failures = prior + 1 /\ job[r].outcome \in Failure
          /\ status.name = "AutoPaused" =>
                job[r].outcome \in Failure /\ prior + 1 = AUTO_PAUSE_THRESHOLD
      BY <3>4, <3>5, ClassifyType
    <3> HIDE DEF status
    <3>7. status.consecutive_failures <= streak[r]
      BY <3>1, <3>3, <3>4, <3>6 DEF AUTO_PAUSE_THRESHOLD
    <3>8. status.name = "AutoPaused" => streak[r] = AUTO_PAUSE_THRESHOLD
      BY <3>1, <3>3, <3>4, <3>6 DEF AUTO_PAUSE_THRESHOLD
    <3> QED
      BY <3>2, <3>3, <3>7, <3>8
  <2> QED
    BY <2>1, <2>2, <2>3 DEF CountInv
<1>4. ASSUME NEW r \in Repo, JobRecord(r) PROVE CountInv'
  <2>1. /\ job[r].pc = "classified"
        /\ job' = [job EXCEPT ![r] = NoJob]
        /\ consecutive_failures' =
              [consecutive_failures EXCEPT ![r] = PersistedFailures(job[r].status)]
        /\ UNCHANGED <<streak, guessed>>
    BY <1>4 DEF JobRecord, JobEnds
  <2>2. consecutive_failures'[r] = job[r].status.consecutive_failures /\ job'[r].pc = "idle"
    BY <2>1 DEF PersistedFailures, NoJob
  <2>3. \A s \in Repo \ {r} : job'[s] = job[s] /\ consecutive_failures'[s] = consecutive_failures[s]
    BY <2>1
  <2> QED
    BY <2>1, <2>2, <2>3 DEF CountInv
<1>5. ASSUME NEW r \in Repo, ManualEnd(r) PROVE CountInv'
  <2>1. job[r].pc \in {"idle", "selected"} /\ UNCHANGED job
    BY <1>5 DEF ManualEnd, MutexInv
  <2>2. CASE ManualSucceeds(r)
    <3>1. /\ consecutive_failures'[r] = 0 /\ streak'[r] = 0
          /\ \A s \in Repo \ {r} : /\ consecutive_failures'[s] = consecutive_failures[s]
                                   /\ streak'[s] = streak[s]
                                   /\ guessed'[s] = guessed[s]
      BY <2>2 DEF ManualSucceeds, WriteRun, EndStreak
    <3> QED
      BY <2>1, <3>1 DEF CountInv
  <2>3. CASE ManualFails(r) \/ ManualBreaks(r)
    <3>1. /\ UNCHANGED <<streak, guessed>>
          /\ \A s \in Repo : consecutive_failures'[s] = consecutive_failures[s]
      BY <2>3 DEF ManualFails, ManualBreaks, WriteRun, Failure
    <3> QED
      BY <2>1, <3>1 DEF CountInv
  <2> QED
    BY <1>5, <2>2, <2>3 DEF ManualEnd
<1>6. CASE Tick
  BY <1>1, <1>6 DEF Tick, NoJob
<1>7. ASSUME NEW r \in Repo, JobStart(r) PROVE CountInv'
  BY <1>1, <1>7 DEF JobStart, Job
<1>8. ASSUME NEW r \in Repo, JobRecordFails(r) PROVE CountInv'
  BY <1>1, <1>8 DEF JobRecordFails, JobEnds, NoJob
<1>9. CASE Crash
  BY <1>1, <1>9 DEF Crash, NoJob
<1>10. ASSUME UNCHANGED <<consecutive_failures, streak, guessed, job>> PROVE CountInv'
  BY <1>1, <1>10
<1> QED
  BY <1>2, <1>3, <1>4, <1>5, <1>6, <1>7, <1>8, <1>9, <1>10
     DEF Next, JobStep, UserStep, ManualBegin, SetEnabled, SetCadence, ResolveCadence, Reschedule,
         SetGlobal, RescheduleInherit, RescheduleFails, Pass, vars

\* Only a recorded status pauses a repo, with its code; a paused repo gets no job.
LEMMA PauseStep == TypeOK /\ PauseInv /\ [Next]_vars => PauseInv'
<1> SUFFICES ASSUME TypeOK, PauseInv, [Next]_vars PROVE PauseInv'
  OBVIOUS
<1> USE DEF TypeOK, health
<1>1. ASSUME UNCHANGED <<auto_paused, last_error_code>>,
             \A r \in Repo : job'[r].pc = "idle" \/ job[r].pc # "idle" \/ ~auto_paused[r]
      PROVE  PauseInv'
  BY <1>1 DEF PauseInv
<1>2. CASE Tick
  BY <1>1, <1>2 DEF Tick, Due
<1>3. ASSUME NEW r \in Repo, JobStart(r) \/ JobClassify(r) PROVE PauseInv'
  <2>1. job[r].pc # "idle" /\ \E j : job' = [job EXCEPT ![r] = j]
    BY <1>3 DEF JobStart, JobClassify
  <2> QED
    BY <1>1, <1>3, <2>1 DEF JobStart, JobClassify
<1>4. ASSUME NEW r \in Repo, JobRun(r) PROVE PauseInv'
  <2>1. PICK outcome \in RunOutcome :
           /\ job' = [job EXCEPT ![r] =
                 [@ EXCEPT !.pc = "ran", !.outcome = outcome, !.completed = now, !.start = 0]]
           /\ \/ outcome = "Success" /\ RunSucceeds(r)
              \/ outcome \in Failure /\ RunFails(r, outcome)
              \/ RunBreaks(r, outcome)
    BY <1>4 DEF JobRun
  <2>2. ~auto_paused[r]
    BY <1>4 DEF JobRun, PauseInv
  <2>3. ~auto_paused'[r]
    BY <2>1, <2>2 DEF RunSucceeds, RunFails, RunBreaks, WriteRun
  <2>4. \A s \in Repo \ {r} : /\ job'[s] = job[s]
                              /\ auto_paused'[s] = auto_paused[s]
                              /\ last_error_code'[s] = last_error_code[s]
    BY <2>1 DEF RunSucceeds, RunFails, RunBreaks, WriteRun
  <2> QED
    BY <2>3, <2>4 DEF PauseInv
<1>5. ASSUME NEW r \in Repo, JobRecord(r) PROVE PauseInv'
  <2>1. job[r].status \in RepoStatus
    BY DEF Job
  <2>2. job'[r].pc = "idle" /\ (auto_paused'[r] => last_error_code'[r] = "error")
    BY <1>5, <2>1, StatusType DEF JobRecord, JobEnds, NoJob
  <2>3. \A s \in Repo \ {r} : /\ job'[s] = job[s]
                              /\ auto_paused'[s] = auto_paused[s]
                              /\ last_error_code'[s] = last_error_code[s]
    BY <1>5 DEF JobRecord, JobEnds
  <2> QED
    BY <2>2, <2>3 DEF PauseInv
<1>6. ASSUME NEW r \in Repo, JobRecordFails(r) PROVE PauseInv'
  BY <1>1, <1>6 DEF JobRecordFails, JobEnds, NoJob
<1>7. ASSUME NEW r \in Repo, ManualEnd(r) PROVE PauseInv'
  <2>1. \A s \in Repo : auto_paused'[s] => auto_paused[s]
    BY <1>7 DEF ManualEnd, ManualSucceeds, ManualFails, ManualBreaks, WriteRun
  <2>2. \A s \in Repo : auto_paused'[s] => last_error_code'[s] \in {last_error_code[s], "error"}
    BY <1>7 DEF ManualEnd, ManualSucceeds, ManualFails, ManualBreaks, WriteRun, Failure
  <2>3. UNCHANGED job
    BY <1>7 DEF ManualEnd
  <2> QED
    BY <2>1, <2>2, <2>3 DEF PauseInv
<1>8. CASE Crash
  BY <1>1, <1>8 DEF Crash, NoJob
<1>9. ASSUME UNCHANGED <<auto_paused, last_error_code, job>> PROVE PauseInv'
  BY <1>1, <1>9
<1> QED
  BY <1>2, <1>3, <1>4, <1>5, <1>6, <1>7, <1>8, <1>9
     DEF Next, JobStep, UserStep, ManualBegin, SetEnabled, SetCadence, ResolveCadence, Reschedule,
         SetGlobal, RescheduleInherit, RescheduleFails, Pass, vars

\* What is owed stays due: time only moves on, and whoever writes the schedule settles
\* the debt.
LEMMA OwedStep == TypeOK /\ OwedStaysDue /\ [Next]_vars => OwedStaysDue'
<1> SUFFICES ASSUME TypeOK, OwedStaysDue, [Next]_vars PROVE OwedStaysDue'
  OBVIOUS
<1> USE DEF TypeOK, schedule
<1>1. ASSUME UNCHANGED <<next_check_at, owed, now>> PROVE OwedStaysDue'
  BY <1>1 DEF OwedStaysDue
<1>2. CASE Tick
  BY <1>2 DEF Tick, Due, OwedStaysDue
<1>3. ASSUME NEW r \in Repo, UNCHANGED now, ~owed'[r],
             \A s \in Repo \ {r} : next_check_at'[s] = next_check_at[s] /\ owed'[s] = owed[s]
      PROVE  OwedStaysDue'
  BY <1>3 DEF OwedStaysDue
<1>4. ASSUME NEW r \in Repo, JobRecord(r) PROVE OwedStaysDue'
  BY <1>3, <1>4 DEF JobRecord
<1>5. ASSUME NEW r \in Repo, Reschedule(r) PROVE OwedStaysDue'
  <2>1. CASE Reschedulable(r)
    BY <1>3, <1>5, <2>1 DEF Reschedule
  <2>2. CASE ~Reschedulable(r)
    BY <1>1, <1>5, <2>2 DEF Reschedule
  <2> QED
    BY <2>1, <2>2
<1>6. CASE RescheduleInherit
  <2>1. \A r \in Repo : owed'[r] => owed[r] /\ next_check_at'[r] = next_check_at[r]
    BY <1>6 DEF RescheduleInherit
  <2> QED
    BY <1>6, <2>1 DEF RescheduleInherit, OwedStaysDue
<1>7. CASE Pass
  <2>1. \A r \in Repo : next_check_at[r] \in Nat
    OBVIOUS
  <2>2. now \in Nat /\ now' = now + 1
    BY <1>7 DEF Pass, Time
  <2> QED
    BY <1>7, <2>1, <2>2 DEF Pass, OwedStaysDue
<1> QED
  BY <1>1, <1>2, <1>4, <1>5, <1>6, <1>7
     DEF Next, JobStep, UserStep, JobStart, JobRun, JobClassify, JobRecordFails, ManualBegin,
         ManualEnd, SetEnabled, SetCadence, ResolveCadence, SetGlobal, RescheduleFails, Crash, vars

-----------------------------------------------------------------------------
(* The schedule follows the cadence *)

\* Nothing on record is later than now.
ClockInv ==
    \A r \in Repo :
        /\ last_checked_at[r] <= now
        /\ manual[r] <= now
        /\ job[r].start <= now
        /\ job[r].completed <= now
        /\ command[r].at <= now

\* Whoever is about to write an undisturbed repo's schedule knows its cadence, and what
\* is written already is within it, unless a change of the cadence still has to be applied.
InCadence(r) ==
    disturbed[r] = {} =>
        /\ settings = "idle" \/ command[r].pc = "idle"
        /\ command[r].pc = "resolved" => command[r].freq = Cadence(r)
        /\ job[r].pc \notin {"idle", "classified"} => job[r].freq = check_frequency_min[r]
        /\ job[r].pc = "classified" => job[r].next <= now + Cadence(r)
        /\ command[r].pc = "idle" /\ (settings = "idle" \/ check_frequency_min[r] > 0) =>
                next_check_at[r] <= now + Cadence(r)

CadenceInv == \A r \in Repo : InCadence(r)

\* A job that was just selected, or has just been classified, holds no timestamps.
LEMMA FreshJob ==
  ASSUME NEW freq, NEW failures, NEW status, NEW next
  PROVE  LET selected == [NoJob EXCEPT !.pc = "selected", !.freq = freq, !.failures = failures]
             classified == [NoJob EXCEPT !.pc = "classified", !.status = status, !.next = next] IN
         /\ NoJob.start = 0 /\ NoJob.completed = 0
         /\ selected.start = 0 /\ selected.completed = 0
         /\ classified.start = 0 /\ classified.completed = 0
         /\ selected.pc = "selected" /\ selected.freq = freq
         /\ classified.pc = "classified" /\ classified.next = next
  BY DEF NoJob

\* Every timestamp is taken from the clock when it is written.
LEMMA ClockStep == TypeOK /\ ClockInv /\ [Next]_vars => ClockInv'
<1> SUFFICES ASSUME TypeOK, ClockInv, [Next]_vars PROVE ClockInv'
  OBVIOUS
<1> USE DEF TypeOK, health, calls
<1>0. now \in Nat
  BY DEF Time
<1>1. ASSUME UNCHANGED <<last_checked_at, manual, job, command, now>> PROVE ClockInv'
  BY <1>1 DEF ClockInv
<1>2. ASSUME UNCHANGED <<last_checked_at, manual, command, now>>,
             \A r \in Repo : job'[r] = job[r] \/ (job'[r].start = 0 /\ job'[r].completed = 0)
      PROVE  ClockInv'
  <2> HIDE DEF TypeOK
  <2> SUFFICES ASSUME NEW r \in Repo PROVE job'[r].start <= now /\ job'[r].completed <= now
    BY <1>2 DEF ClockInv
  <2> QED
    BY <1>0, <1>2 DEF ClockInv
<1>15. CASE Tick
  <2>1. ASSUME NEW r \in Repo
        PROVE  job'[r] = job[r] \/ (job'[r].start = 0 /\ job'[r].completed = 0)
    <3>1. \/ job'[r] = job[r]
          \/ job'[r] = [NoJob EXCEPT !.pc = "selected", !.freq = check_frequency_min[r],
                                     !.failures = consecutive_failures[r]]
      BY <1>15 DEF Tick
    <3> DEFINE fresh == [NoJob EXCEPT !.pc = "selected", !.freq = check_frequency_min[r],
                                      !.failures = consecutive_failures[r]]
    <3>2. fresh.start = 0 /\ fresh.completed = 0
      BY FreshJob
    <3>3. job'[r] = job[r] \/ job'[r] = fresh
      BY <3>1
    <3> HIDE DEF fresh
    <3> QED
      BY <3>2, <3>3
  <2> QED
    BY <1>2, <1>15, <2>1 DEF Tick
<1>3. ASSUME NEW r \in Repo, JobStart(r) PROVE ClockInv'
  <2>1. /\ UNCHANGED <<last_checked_at, manual, command, now>>
        /\ job' = [job EXCEPT ![r] = [@ EXCEPT !.pc = "running", !.start = now]]
    BY <1>3 DEF JobStart
  <2>2. job'[r].start = now /\ job'[r].completed = job[r].completed
    BY <2>1 DEF Job
  <2> QED
    BY <1>0, <2>1, <2>2 DEF ClockInv
<1>4. ASSUME NEW r \in Repo, JobRun(r) PROVE ClockInv'
  <2>1. PICK outcome \in RunOutcome :
           /\ job' = [job EXCEPT ![r] =
                 [@ EXCEPT !.pc = "ran", !.outcome = outcome, !.completed = now, !.start = 0]]
           /\ \/ outcome = "Success" /\ RunSucceeds(r)
              \/ outcome \in Failure /\ RunFails(r, outcome)
              \/ RunBreaks(r, outcome)
           /\ UNCHANGED <<manual, command, now>>
    BY <1>4 DEF JobRun
  <2>2. job'[r].start = 0 /\ job'[r].completed = now
    BY <2>1 DEF Job
  <2>3. /\ last_checked_at'[r] \in {last_checked_at[r], job[r].start}
        /\ \A s \in Repo \ {r} : last_checked_at'[s] = last_checked_at[s]
    BY <2>1 DEF RunSucceeds, RunFails, RunBreaks, WriteRun
  <2> QED
    BY <1>0, <2>1, <2>2, <2>3 DEF ClockInv
<1>5. ASSUME NEW r \in Repo, JobClassify(r) \/ JobRecord(r) \/ JobRecordFails(r) PROVE ClockInv'
  <2>1. /\ UNCHANGED <<last_checked_at, manual, command, now>>
        /\ \/ job' = [job EXCEPT ![r] = NoJob]
           \/ \E prior : job' = [job EXCEPT ![r] = Classified(r, prior)]
    BY <1>5 DEF JobClassify, JobRecord, JobRecordFails, JobEnds
  <2>2. job'[r].start = 0 /\ job'[r].completed = 0
    <3>1. job'[r] = NoJob \/ \E prior : job'[r] = Classified(r, prior)
      BY <2>1
    <3>2. NoJob.start = 0 /\ NoJob.completed = 0
      BY FreshJob
    <3>3. \A prior : Classified(r, prior).start = 0 /\ Classified(r, prior).completed = 0
      BY FreshJob DEF Classified
    <3> QED
      BY <3>1, <3>2, <3>3
  <2>3. \A s \in Repo \ {r} : job'[s] = job[s]
    BY <2>1
  <2> QED
    BY <1>2, <2>1, <2>2, <2>3
<1>6. ASSUME NEW r \in Repo, ManualBegin(r) PROVE ClockInv'
  BY <1>0, <1>6 DEF ManualBegin, ClockInv
<1>7. ASSUME NEW r \in Repo, ManualEnd(r) PROVE ClockInv'
  <2>1. /\ UNCHANGED <<job, command, now>>
        /\ manual' = [manual EXCEPT ![r] = 0]
        /\ last_checked_at'[r] \in {last_checked_at[r], manual[r]}
        /\ \A s \in Repo \ {r} : last_checked_at'[s] = last_checked_at[s]
    BY <1>7 DEF ManualEnd, ManualSucceeds, ManualFails, ManualBreaks, WriteRun
  <2> QED
    BY <1>0, <2>1 DEF ClockInv
<1>8. ASSUME NEW r \in Repo, SetCadence(r) PROVE ClockInv'
  <2>1. command'[r].at = command[r].at /\ \A s \in Repo \ {r} : command'[s] = command[s]
    BY <1>8 DEF SetCadence, Command
  <2> QED
    BY <1>8, <2>1 DEF SetCadence, ClockInv
<1>9. ASSUME NEW r \in Repo, ResolveCadence(r) PROVE ClockInv'
  BY <1>0, <1>9 DEF ResolveCadence, ClockInv
<1>10. ASSUME NEW r \in Repo, UNCHANGED <<last_checked_at, manual, job, now>>,
              command' = [command EXCEPT ![r] = NoCommand]
       PROVE  ClockInv'
  BY <1>0, <1>10 DEF NoCommand, ClockInv
<1>11. CASE RescheduleFails
  BY <1>1, <1>10, <1>11 DEF RescheduleFails
<1>12. CASE Pass
  <2>1. \A r \in Repo : /\ last_checked_at[r] \in Nat /\ manual[r] \in Nat
                        /\ job[r].start \in Nat /\ job[r].completed \in Nat
                        /\ command[r].at \in Nat
    BY DEF Job, Command
  <2> QED
    BY <1>0, <1>12, <2>1 DEF Pass, ClockInv
<1>13. CASE Crash
  BY <1>0, <1>13 DEF Crash, NoJob, NoCommand, ClockInv
<1> QED
  BY <1>1, <1>15, <1>3, <1>4, <1>5, <1>6, <1>7, <1>8, <1>9, <1>10, <1>11, <1>12, <1>13
     DEF Next, JobStep, UserStep, SetEnabled, Reschedule, SetGlobal, RescheduleInherit, vars

\* A step that leaves the parts of a repo that matter alone keeps it in its cadence.
LEMMA CadenceFrame ==
  ASSUME TypeOK, NEW r \in Repo, InCadence(r),
         disturbed'[r] = {} => disturbed[r] = {},
         UNCHANGED <<now, global_check_minutes, settings>>,
         check_frequency_min'[r] = check_frequency_min[r],
         next_check_at'[r] = next_check_at[r],
         command'[r] = command[r],
         \/ job'[r].pc = "idle"
         \/ job'[r].pc = job[r].pc /\ job'[r].freq = job[r].freq /\ job'[r].next = job[r].next
         \/ /\ {job[r].pc, job'[r].pc} \subseteq {"selected", "running", "ran"}
            /\ job'[r].freq = job[r].freq
  PROVE  InCadence(r)'
<1>1. Cadence(r)' = Cadence(r)
  BY DEF Cadence
<1> QED
  BY <1>1 DEF InCadence

\* The next check a classified job records is within the cadence it ran under.
LEMMA ClassifiedNext ==
  ASSUME TypeOK, ClockInv, NEW r \in Repo, NEW prior
  PROVE  /\ Classified(r, prior).pc = "classified"
         /\ Classified(r, prior).next <=
                now + EffectiveFrequency(job[r].freq, global_check_minutes)
<1> DEFINE freq == EffectiveFrequency(job[r].freq, global_check_minutes)
           next == NextCheckAt(job[r].completed, freq)
<1>1. /\ Classified(r, prior).pc = "classified"
      /\ Classified(r, prior).next = next
  BY FreshJob DEF Classified
<1>2. job[r] \in Job /\ global_check_minutes \in Cadences /\ now \in Nat
  BY DEF TypeOK, Time
<1>3. \A c \in {0} \cup Cadences : c \in Nat
  BY ScheduleAssumption
<1>4. job[r].completed \in Nat /\ job[r].freq \in Nat /\ global_check_minutes \in Nat
  BY <1>2, <1>3 DEF Job
<1>5. freq \in Nat \ {0}
  BY <1>4, FrequencyType
<1>6. next = job[r].completed + freq
  BY <1>4, <1>5, NextCheckType
<1>7. job[r].completed <= now
  BY DEF ClockInv
<1> HIDE DEF freq, next
<1>8. next <= now + freq
  BY <1>2, <1>4, <1>5, <1>6, <1>7
<1> QED
  BY <1>1, <1>8 DEF freq

\* Re-anchoring leaves a repo within the cadence it is given.
LEMMA RescheduledNext ==
  ASSUME TypeOK, ClockInv, NEW r \in Repo, NEW at \in Nat, at <= now, NEW freq \in Nat \ {0}
  PROVE  Rescheduled(at, last_checked_at[r], freq) <= now + freq
<1>1. last_checked_at[r] \in Nat /\ now \in Nat /\ last_checked_at[r] <= now
  BY DEF TypeOK, Time, ClockInv
<1> QED
  BY <1>1 DEF Rescheduled

\* The cadence in force is positive.
LEMMA CadenceType ==
  ASSUME TypeOK
  PROVE  /\ now \in Nat
         /\ \A r \in Repo : Cadence(r) \in Nat \ {0}
<1>1. global_check_minutes \in Nat /\ \A c \in {0} \cup Cadences : c \in Nat
  BY ScheduleAssumption DEF TypeOK
<1>2. \A r \in Repo : check_frequency_min[r] \in {0} \cup Cadences
  BY DEF TypeOK
<1>3. \A r \in Repo : check_frequency_min[r] \in Nat
  BY <1>1, <1>2
<1>4. \A r \in Repo : Cadence(r) \in Nat \ {0}
  BY <1>1, <1>3, FrequencyType DEF Cadence
<1>5. now \in Nat
  BY DEF TypeOK, Time
<1> QED
  BY <1>4, <1>5

\* Every step keeps every repo in its cadence, or marks it disturbed.
LEMMA CadenceStep == TypeOK /\ ClockInv /\ CadenceInv /\ [Next]_vars => CadenceInv'
<1> SUFFICES ASSUME TypeOK, ClockInv, CadenceInv, [Next]_vars, NEW r \in Repo
             PROVE  InCadence(r)'
  BY DEF CadenceInv
<1> USE DEF repoRow, schedule, calls, history
<1>0. InCadence(r)
  BY DEF CadenceInv
<1>1. \A s \in Repo \ {r} : \A j : job' = [job EXCEPT ![s] = j] => job'[r] = job[r]
  BY DEF TypeOK
<1>2. CASE Tick
  <2>1. CASE Due(r)
    <3> DEFINE fresh == [NoJob EXCEPT !.pc = "selected", !.freq = check_frequency_min[r],
                                      !.failures = consecutive_failures[r]]
    <3>1. fresh.pc = "selected" /\ fresh.freq = check_frequency_min[r]
      BY FreshJob
    <3>2. job'[r] = fresh
      BY <1>2, <2>1 DEF Tick
    <3>3. job'[r].pc = "selected" /\ job'[r].freq = check_frequency_min'[r]
      BY <1>2, <3>1, <3>2 DEF Tick
    <3> HIDE DEF fresh
    <3>4. Cadence(r)' = Cadence(r)
      BY <1>2 DEF Tick, Cadence
    <3>5. CASE Quiescent(r)
      <4>1. next_check_at[r] <= now + Cadence(r)
        <5>1. next_check_at[r] = 0 \/ next_check_at[r] <= now
          BY <2>1 DEF Due
        <5>2. next_check_at[r] \in Nat
          BY DEF TypeOK
        <5> QED
          BY <5>1, <5>2, CadenceType
      <4> QED
        BY <1>2, <3>3, <3>4, <3>5, <4>1 DEF Tick, Quiescent, InCadence
    <3>6. CASE ~Quiescent(r)
      <4>1. disturbed'[r] = disturbed[r]
        BY <1>2, <3>6 DEF Tick, TypeOK
      <4> QED
        BY <1>0, <1>2, <3>3, <3>4, <4>1 DEF Tick, InCadence
    <3> QED
      BY <3>5, <3>6
  <2>2. CASE ~Due(r)
    <3>1. job'[r] = job[r] /\ disturbed'[r] = disturbed[r]
      BY <1>2, <2>2 DEF Tick
    <3> QED
      BY <1>0, <1>2, <3>1, CadenceFrame DEF Tick
  <2> QED
    BY <2>1, <2>2
<1>3. ASSUME NEW s \in Repo, JobStart(s) PROVE InCadence(r)'
  <2>1. CASE s = r
    <3>1. job' = [job EXCEPT ![r] = [@ EXCEPT !.pc = "running", !.start = now]]
      BY <1>3, <2>1 DEF JobStart
    <3>2. job'[r].pc = "running" /\ job'[r].freq = job[r].freq
      BY <3>1 DEF TypeOK, Job
    <3> QED
      BY <1>0, <1>3, <2>1, <3>2, CadenceFrame DEF JobStart
  <2>2. CASE s # r
    BY <1>0, <1>1, <1>3, <2>2, CadenceFrame DEF JobStart
  <2> QED
    BY <2>1, <2>2
<1>4. ASSUME NEW s \in Repo, JobRun(s) PROVE InCadence(r)'
  <2>1. PICK outcome \in RunOutcome : job' = [job EXCEPT ![s] =
                 [@ EXCEPT !.pc = "ran", !.outcome = outcome, !.completed = now, !.start = 0]]
    BY <1>4 DEF JobRun
  <2>2. CASE s = r
    <3>1. job'[r].pc = "ran" /\ job'[r].freq = job[r].freq
      BY <2>1, <2>2 DEF TypeOK, Job
    <3> QED
      BY <1>0, <1>4, <2>2, <3>1, CadenceFrame DEF JobRun
  <2>3. CASE s # r
    BY <1>0, <1>1, <1>4, <2>1, <2>3, CadenceFrame DEF JobRun
  <2> QED
    BY <2>2, <2>3
<1>5. ASSUME NEW s \in Repo, JobClassify(s) PROVE InCadence(r)'
  <2>1. PICK prior : job' = [job EXCEPT ![s] = Classified(s, prior)]
    BY <1>5 DEF JobClassify
  <2>2. CASE s = r
    <3>1. job'[r] = Classified(r, prior)
      BY <2>1, <2>2 DEF TypeOK
    <3>2. disturbed[r] = {} => job[r].freq = check_frequency_min[r]
      BY <1>0, <1>5, <2>2 DEF JobClassify, InCadence
    <3>3. job'[r].pc = "classified" /\ (disturbed[r] = {} => job'[r].next <= now + Cadence(r))
      BY <3>1, <3>2, ClassifiedNext DEF Cadence
    <3>4. Cadence(r)' = Cadence(r)
      BY <1>5 DEF JobClassify, Cadence
    <3> QED
      BY <1>0, <1>5, <3>3, <3>4 DEF JobClassify, InCadence
  <2>3. CASE s # r
    BY <1>0, <1>1, <1>5, <2>1, <2>3, CadenceFrame DEF JobClassify
  <2> QED
    BY <2>2, <2>3
<1>6. ASSUME NEW s \in Repo, JobRecord(s) PROVE InCadence(r)'
  <2>1. CASE s = r
    <3>1. job'[r].pc = "idle" /\ next_check_at'[r] = job[r].next /\ job[r].pc = "classified"
      BY <1>6, <2>1 DEF JobRecord, JobEnds, NoJob, TypeOK
    <3>2. Cadence(r)' = Cadence(r)
      BY <1>6 DEF JobRecord, Cadence
    <3> QED
      BY <1>0, <1>6, <3>1, <3>2 DEF JobRecord, InCadence
  <2>2. CASE s # r
    <3>1. job'[r] = job[r] /\ next_check_at'[r] = next_check_at[r]
      BY <1>1, <1>6, <2>2 DEF JobRecord, JobEnds, TypeOK
    <3> QED
      BY <1>0, <1>6, <3>1, CadenceFrame DEF JobRecord
  <2> QED
    BY <2>1, <2>2
<1>7. ASSUME NEW s \in Repo, JobRecordFails(s) PROVE InCadence(r)'
  <2>1. job'[r] = job[r] \/ job'[r].pc = "idle"
    BY <1>1, <1>7 DEF JobRecordFails, JobEnds, NoJob, TypeOK
  <2> QED
    BY <1>0, <1>7, <2>1, CadenceFrame DEF JobRecordFails
<1>8. ASSUME NEW s \in Repo, ManualBegin(s) \/ ManualEnd(s) \/ SetEnabled(s) PROVE InCadence(r)'
  BY <1>0, <1>8, CadenceFrame DEF ManualBegin, ManualEnd, SetEnabled
<1>9. ASSUME NEW s \in Repo, SetCadence(s) PROVE InCadence(r)'
  <2>1. CASE s = r
    <3>1. command'[r].pc = "persisted"
      BY <1>9, <2>1 DEF SetCadence, TypeOK, Command
    <3>2. disturbed'[r] = disturbed[r] \cup Collisions(r, settings # "idle")
      BY <1>9, <2>1 DEF SetCadence, TypeOK
    <3>3. ASSUME disturbed'[r] = {} PROVE settings = "idle" /\ job[r].pc = "idle"
      BY <3>2, <3>3 DEF Collisions, Disturbance
    <3> QED
      BY <1>9, <3>1, <3>3 DEF SetCadence, InCadence
  <2>2. CASE s # r
    <3>1. /\ command'[r] = command[r]
          /\ disturbed'[r] = disturbed[r]
          /\ check_frequency_min'[r] = check_frequency_min[r]
      BY <1>9, <2>2 DEF SetCadence, TypeOK
    <3> QED
      BY <1>0, <1>9, <3>1, CadenceFrame DEF SetCadence
  <2> QED
    BY <2>1, <2>2
<1>10. ASSUME NEW s \in Repo, ResolveCadence(s) PROVE InCadence(r)'
  <2>1. CASE s = r
    <3>1. command'[r].pc = "resolved" /\ command'[r].freq = Cadence(r)
      BY <1>10, <2>1 DEF ResolveCadence, TypeOK, Cadence
    <3>2. Cadence(r)' = Cadence(r)
      BY <1>10 DEF ResolveCadence, Cadence
    <3> QED
      BY <1>0, <1>10, <2>1, <3>1, <3>2 DEF ResolveCadence, InCadence
  <2>2. CASE s # r
    <3>1. command'[r] = command[r]
      BY <1>10, <2>2 DEF ResolveCadence, TypeOK
    <3> QED
      BY <1>0, <1>10, <3>1, CadenceFrame DEF ResolveCadence
  <2> QED
    BY <2>1, <2>2
<1>11. ASSUME NEW s \in Repo, Reschedule(s) PROVE InCadence(r)'
  <2>1. CASE s = r
    <3>1. command'[r].pc = "idle" /\ command[r].pc = "resolved"
      BY <1>11, <2>1 DEF Reschedule, TypeOK, NoCommand
    <3>2. ASSUME disturbed'[r] = {} PROVE disturbed[r] = {} /\ Reschedulable(r)
      BY <1>11, <2>1, <3>2 DEF Reschedule, PassedOver, TypeOK
    <3>3. Cadence(r)' = Cadence(r)
      BY <1>11 DEF Reschedule, Cadence
    <3>4. ASSUME disturbed'[r] = {} PROVE next_check_at'[r] <= now + Cadence(r)
      <4>1. command[r].freq = Cadence(r)
        BY <1>0, <3>1, <3>2, <3>4 DEF InCadence
      <4>2. next_check_at'[r] = Rescheduled(command[r].at, last_checked_at[r], Cadence(r))
        BY <1>11, <2>1, <3>2, <3>4, <4>1 DEF Reschedule, TypeOK
      <4>3. command[r].at \in Nat /\ command[r].at <= now /\ Cadence(r) \in Nat \ {0}
        BY CadenceType DEF TypeOK, Command, ClockInv
      <4> QED
        BY <4>2, <4>3, RescheduledNext
    <3> QED
      BY <1>0, <1>11, <3>1, <3>2, <3>3, <3>4 DEF Reschedule, InCadence
  <2>2. CASE s # r
    <3>1. /\ command'[r] = command[r]
          /\ next_check_at'[r] = next_check_at[r]
          /\ disturbed'[r] = disturbed[r]
      BY <1>11, <2>2 DEF Reschedule, TypeOK
    <3> QED
      BY <1>0, <1>11, <3>1, CadenceFrame DEF Reschedule
  <2> QED
    BY <2>1, <2>2
<1>12. CASE SetGlobal
  <2>1. disturbed'[r] = disturbed[r] \cup Collisions(r, command[r].pc # "idle")
    BY <1>12 DEF SetGlobal
  <2>2. ASSUME disturbed'[r] = {}
        PROVE  disturbed[r] = {} /\ command[r].pc = "idle" /\ job[r].pc = "idle"
    BY <2>1, <2>2 DEF Collisions, Disturbance
  <2>3. check_frequency_min[r] > 0 => Cadence(r)' = Cadence(r)
    BY <1>12 DEF SetGlobal, Cadence, EffectiveFrequency
  <2> QED
    BY <1>0, <1>12, <2>2, <2>3 DEF SetGlobal, InCadence
<1>13. CASE RescheduleInherit
  <2>1. Cadence(r)' = Cadence(r)
    BY <1>13 DEF RescheduleInherit, Cadence
  <2>2. CASE check_frequency_min[r] = 0
    <3>1. ASSUME disturbed'[r] = {} PROVE disturbed[r] = {} /\ Reschedulable(r)
      BY <1>13, <2>2, <3>1 DEF RescheduleInherit, PassedOver
    <3>2. ASSUME Reschedulable(r) PROVE next_check_at'[r] <= now + Cadence(r)
      <4>1. next_check_at'[r] = Rescheduled(now, last_checked_at[r], global_check_minutes)
        BY <1>13, <2>2, <3>2 DEF RescheduleInherit
      <4>2. global_check_minutes \in Nat \ {0} /\ now \in Nat
        BY ScheduleAssumption, CadenceType DEF TypeOK
      <4>3. Cadence(r) = global_check_minutes
        BY <2>2, <4>2 DEF Cadence, EffectiveFrequency
      <4> QED
        BY <4>1, <4>2, <4>3, RescheduledNext
    <3> QED
      BY <1>0, <1>13, <2>1, <3>1, <3>2 DEF RescheduleInherit, InCadence
  <2>3. CASE check_frequency_min[r] # 0
    <3>1. check_frequency_min[r] > 0
      <4>1. check_frequency_min[r] \in Cadences
        BY <2>3 DEF TypeOK
      <4>2. \A c \in Cadences : c \in Nat \ {0}
        BY ScheduleAssumption
      <4> QED
        BY <4>1, <4>2
    <3>2. disturbed'[r] = disturbed[r] /\ next_check_at'[r] = next_check_at[r]
      BY <1>13, <2>3 DEF RescheduleInherit
    <3> QED
      BY <1>0, <1>13, <2>1, <3>1, <3>2 DEF RescheduleInherit, InCadence
  <2> QED
    BY <2>2, <2>3
<1>14. CASE RescheduleFails
  <2>1. CASE disturbed'[r] # {}
    BY <2>1 DEF InCadence
  <2>2. CASE disturbed'[r] = {}
    <3>1. PICK s \in Repo : /\ command' = [command EXCEPT ![s] = NoCommand]
                            /\ disturbed' = [disturbed EXCEPT ![s] = @ \cup {"partial"}]
                            /\ UNCHANGED settings
      BY <1>14, <2>2 DEF RescheduleFails
    <3>2. s # r
      BY <2>2, <3>1 DEF TypeOK
    <3>3. command'[r] = command[r] /\ disturbed'[r] = disturbed[r]
      BY <3>1, <3>2 DEF TypeOK
    <3> QED
      BY <1>0, <1>14, <3>1, <3>3, CadenceFrame DEF RescheduleFails
  <2> QED
    BY <2>1, <2>2
<1>15. CASE Pass
  <2>1. Cadence(r)' = Cadence(r)
    BY <1>15 DEF Pass, Cadence
  <2>2. now \in Nat /\ now' = now + 1 /\ Cadence(r) \in Nat
    BY <1>15, CadenceType DEF Pass
  <2>3. job[r].next \in Nat /\ next_check_at[r] \in Nat
    BY DEF TypeOK, Job
  <2>4. \A n \in Nat : n <= now + Cadence(r) => n <= now' + Cadence(r)
    BY <2>2
  <2> QED
    BY <1>0, <1>15, <2>1, <2>3, <2>4 DEF Pass, InCadence
<1>16. CASE Crash
  <2>1. CASE disturbed'[r] # {}
    BY <2>1 DEF InCadence
  <2>2. CASE disturbed'[r] = {}
    <3>1. settings = "idle" /\ command[r].pc = "idle" /\ disturbed[r] = {}
      BY <1>16, <2>2 DEF Crash
    <3>2. job'[r].pc = "idle" /\ command'[r].pc = "idle"
      BY <1>16 DEF Crash, NoJob, NoCommand
    <3>3. Cadence(r)' = Cadence(r)
      BY <1>16 DEF Crash, Cadence
    <3> QED
      BY <1>0, <1>16, <3>1, <3>2, <3>3 DEF Crash, InCadence
  <2> QED
    BY <2>1, <2>2
<1>17. CASE UNCHANGED vars
  BY <1>0, <1>17, CadenceFrame DEF vars
<1> QED
  BY <1>2, <1>3, <1>4, <1>5, <1>6, <1>7, <1>8, <1>9, <1>10, <1>11, <1>12, <1>13, <1>14, <1>15,
     <1>16, <1>17 DEF Next, JobStep, UserStep

-----------------------------------------------------------------------------
(* The theorems *)

IInv == TypeOK /\ MutexInv /\ CountInv /\ PauseInv /\ OwedStaysDue /\ ClockInv /\ CadenceInv

\* Freshly added repos are never checked, not paused, owed nothing and due.
LEMMA InvInit == Init => IInv
<1> SUFFICES ASSUME Init PROVE IInv
  OBVIOUS
<1>1. TypeOK
  BY TypeInit
<1>2. MutexInv /\ CountInv /\ PauseInv /\ OwedStaysDue
  BY DEF Init, MutexInv, CountInv, PauseInv, OwedStaysDue, NoJob
<1>3. ClockInv
  BY DEF Init, ClockInv, NoJob, NoCommand
<1>4. CadenceInv
  <2>1. \A r \in Repo : next_check_at[r] <= now + Cadence(r)
    BY <1>1, CadenceType DEF Init
  <2> QED
    BY <2>1 DEF Init, CadenceInv, InCadence, NoJob, NoCommand
<1> QED
  BY <1>1, <1>2, <1>3, <1>4 DEF IInv

\* Every step keeps every part of the inductive invariant.
LEMMA InvStep == IInv /\ [Next]_vars => IInv'
  BY TypeStep, MutexStep, CountStep, PauseStep, OwedStep, ClockStep, CadenceStep DEF IInv

\* The inductive invariant holds in every state the scheduler, the commands and their
\* crashes can reach.
THEOREM Invariant == Spec => []IInv
  BY InvInit, InvStep, PTL DEF Spec

\* The columns, the jobs in flight and the pending commands keep their types.
THEOREM TypeCorrect == Spec => []TypeOK
<1>1. IInv => TypeOK
  BY DEF IInv
<1> QED
  BY <1>1, Invariant, PTL

\* The persisted failure counter never exceeds the failures since the last success
\* (run_job re-reads it under the mutex).
THEOREM CountEarned == Spec => []FailuresEarned
<1>1. IInv => FailuresEarned
  BY DEF IInv, CountInv, FailuresEarned
<1> QED
  BY <1>1, Invariant, PTL

\* A repo frozen out of scheduled checks is always listed as needing attention
\* (run_update_inner and record each write the pause and the code in one statement).
THEOREM PauseExplained == Spec => []PausedHasReason
<1>1. IInv => PausedHasReason
  BY DEF IInv, PauseInv, PausedHasReason
<1> QED
  BY <1>1, Invariant, PTL

\* A check that was started stays due until its outcome is recorded, across crashes and
\* failed writes (record alone moves next_check_at on).
THEOREM NothingLost == Spec => []OwedStaysDue
<1>1. IInv => OwedStaysDue
  BY DEF IInv
<1> QED
  BY <1>1, Invariant, PTL

\* An undisturbed repo is never scheduled further away than its effective cadence
\* (repo_set_cadence and settings_set re-anchor what they change).
THEOREM CadenceFollowed == Spec => []CadenceInForce
<1>1. IInv => CadenceInForce
  BY DEF IInv, CadenceInv, InCadence, CadenceInForce, Settled, Quiescent
<1> QED
  BY <1>1, Invariant, PTL

\* Only these steps write auto_paused: a run's own write, the recording of a job's
\* outcome and the end of a manual command.
LEMMA PauseWriters ==
  ASSUME TypeOK, [Next]_vars, NEW r \in Repo, auto_paused'[r] # auto_paused[r]
  PROVE  JobRun(r) \/ JobRecord(r) \/ ManualEnd(r)
<1>1. ASSUME NEW s \in Repo, s # r, JobRun(s) PROVE FALSE
  BY <1>1 DEF JobRun, RunSucceeds, RunFails, RunBreaks, WriteRun, health, TypeOK
<1>2. ASSUME NEW s \in Repo, s # r, JobRecord(s) PROVE FALSE
  BY <1>2 DEF JobRecord, TypeOK
<1>3. ASSUME NEW s \in Repo, s # r, ManualEnd(s) PROVE FALSE
  BY <1>3 DEF ManualEnd, ManualSucceeds, ManualFails, ManualBreaks, WriteRun, TypeOK
<1> QED
  BY <1>1, <1>2, <1>3
     DEF Next, JobStep, UserStep, Tick, JobStart, JobClassify, JobRecordFails, ManualBegin,
         SetEnabled, SetCadence, ResolveCadence, Reschedule, SetGlobal, RescheduleInherit,
         RescheduleFails, Pass, Crash, vars, health

\* A repo is auto-paused only by an authentication failure or after three failed runs
\* without a success between them (classify_failure, run_job's re-read of the counter).
THEOREM PauseEarned == Spec => AutoPauseEarned
<1> DEFINE Earned == \A r \in Repo : auto_paused'[r] /\ ~auto_paused[r] =>
        job[r].status.name = "PausedOnAuth" \/ streak[r] = AUTO_PAUSE_THRESHOLD \/ guessed[r]
<1>1. IInv /\ [Next]_vars => [Earned]_vars
  <2> SUFFICES ASSUME IInv, [Next]_vars, NEW r \in Repo, auto_paused'[r], ~auto_paused[r]
               PROVE  \/ job[r].status.name = "PausedOnAuth"
                      \/ streak[r] = AUTO_PAUSE_THRESHOLD
                      \/ guessed[r]
    OBVIOUS
  <2>1. JobRecord(r)
    <3>1. ~JobRun(r)
      BY DEF JobRun, RunSucceeds, RunFails, RunBreaks, WriteRun, health, IInv, TypeOK
    <3>2. ~ManualEnd(r)
      BY DEF ManualEnd, ManualSucceeds, ManualFails, ManualBreaks, WriteRun, IInv, TypeOK
    <3>3. auto_paused'[r] # auto_paused[r] /\ TypeOK
      BY DEF IInv
    <3> QED
      BY <3>1, <3>2, <3>3, PauseWriters
  <2>2. PersistedPause(job[r].status)
    BY <2>1 DEF JobRecord, IInv, TypeOK
  <2> QED
    BY <2>1, <2>2 DEF JobRecord, PersistedPause, IInv, CountInv
<1> QED
  BY <1>1, Invariant, PTL DEF Spec, AutoPauseEarned

\* Only a successful manual command re-admits an auto-paused repo: a job under way would
\* have to be one, and there is none (clear_failure_state, run_update_inner).
THEOREM UnpauseByUser == Spec => UnpauseOnlyByUser
<1> DEFINE ByUser == \A r \in Repo : auto_paused[r] /\ ~auto_paused'[r] =>
        manual[r] # 0 /\ manual'[r] = 0 /\ last_error_code'[r] = "null"
<1>1. IInv /\ [Next]_vars => [ByUser]_vars
  <2> SUFFICES ASSUME IInv, [Next]_vars, NEW r \in Repo, auto_paused[r], ~auto_paused'[r]
               PROVE  manual[r] # 0 /\ manual'[r] = 0 /\ last_error_code'[r] = "null"
    OBVIOUS
  <2>1. ManualEnd(r)
    <3>1. job[r].pc = "idle"
      BY DEF IInv, PauseInv
    <3>2. auto_paused'[r] # auto_paused[r] /\ TypeOK
      BY DEF IInv
    <3> QED
      BY <3>1, <3>2, PauseWriters DEF JobRun, JobRecord
  <2>2. manual[r] # 0 /\ manual'[r] = 0
    BY <2>1 DEF ManualEnd, IInv, TypeOK
  <2>3. last_error_code'[r] = "null"
    BY <2>1 DEF ManualEnd, ManualSucceeds, ManualFails, ManualBreaks, WriteRun, IInv, TypeOK
  <2> QED
    BY <2>2, <2>3
<1> QED
  BY <1>1, Invariant, PTL DEF Spec, UnpauseOnlyByUser
=============================================================================
