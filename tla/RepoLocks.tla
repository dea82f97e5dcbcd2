------------------------------ MODULE RepoLocks ------------------------------
(***************************************************************************)
(* Who may run git in which working tree.                                  *)
(*                                                                         *)
(* RepoSync has four sources of git work: the scheduler's tick             *)
(* (scheduler.rs, run_due / run_job), the tray's "Check All Now" burst     *)
(* (commands/mod.rs, check_all_enabled), the manual check / update         *)
(* commands, and repo_remove, which runs no git but deletes the row the    *)
(* others work on.  They meet in two places: the per-repo async mutexes of *)
(* RepoLocks and the global semaphore.  Both are FIFO (tokio).             *)
(*                                                                         *)
(* This module keeps that control and abstracts everything a repo's row    *)
(* holds to "is it tracked" and "is it due"; Schedule models the columns.  *)
(*                                                                         *)
(* A task is a pair <<kind, repo id>>: the scheduled job of a repo, the    *)
(* task of one burst for a repo, one manual command on it, its removal.    *)
(***************************************************************************)
EXTENDS Naturals, FiniteSets, Sequences

CONSTANTS
    Repo,         \* row ids; AUTOINCREMENT, so an id is never used twice
    Tree,         \* working trees on disk
    TreeOf,       \* repos.local_path: the working tree a row id stands for
    Manual,       \* slots for concurrent repo_check_now / repo_update_now calls
    Burst,        \* slots for concurrent check_all_enabled calls
    Permits,      \* permits of the scheduler's semaphore
    MaxInFlight,  \* tasks one burst keeps in flight
    Commanded     \* bound: the ids users send commands about

ASSUME RepoLocksAssumption ==
    /\ IsFiniteSet(Repo) /\ IsFiniteSet(Manual) /\ IsFiniteSet(Burst)
    /\ TreeOf \in [Repo -> Tree]
    /\ Commanded \subseteq Repo
    /\ Permits \in Nat \ {0}
    /\ MaxInFlight \in Nat \ {0}
    /\ Manual \cap Burst = {}
    /\ {"job", "remove"} \cap (Manual \cup Burst) = {}

Kind == {"job", "remove"} \cup Manual \cup Burst
Task == Kind \X Repo

\* The kinds of task that take a semaphore permit; manual commands do not.
Bounded == {"job"} \cup Burst

\* A repo id has the mutex that requests find before its removal and, after the
\* eviction, at most one more: repo_remove evicts only when it deleted the row.
Gen == 1..2

Stage == {"idle", "spawned", "queued", "permit", "ready", "git", "record", "evict"}

VARIABLES
    row,        \* repos: is the id still unused, tracked, or deleted
    due,        \* enabled, not auto-paused and next_check_at NULL or past
    gen,        \* which mutex the lock map holds for the id
    queue,      \* each mutex: its holder first, then its waiters in FIFO order
    mutex,      \* the mutex each task got from lock_handle
    waiters,    \* the semaphore's FIFO queue
    permitted,  \* the tasks that hold a permit
    pc,         \* how far each task is
    pending     \* check_all_enabled: targets not yet admitted

vars == <<row, due, gen, queue, mutex, waiters, permitted, pc, pending>>

TypeOK ==
    /\ row \in [Repo -> {"unused", "tracked", "gone"}]
    /\ due \in [Repo -> BOOLEAN]
    /\ gen \in [Repo -> Gen]
    /\ queue \in [Repo -> [Gen -> Seq(Task)]]
    /\ mutex \in [Task -> Gen]
    /\ waiters \in Seq(Task)
    /\ permitted \in SUBSET Task
    /\ pc \in [Task -> Stage]
    /\ pending \in [Burst -> SUBSET Repo]

Init ==
    /\ row \in [Repo -> {"unused", "tracked"}]
    /\ \A r, s \in Repo : row[r] = "tracked" /\ row[s] = "tracked" /\ TreeOf[r] = TreeOf[s] => r = s
    /\ due = [r \in Repo |-> row[r] = "tracked"]
    /\ gen = [r \in Repo |-> 1]
    /\ queue = [r \in Repo |-> [g \in Gen |-> <<>>]]
    /\ mutex = [t \in Task |-> 1]
    /\ waiters = <<>>
    /\ permitted = {}
    /\ pc = [t \in Task |-> "idle"]
    /\ pending = [b \in Burst |-> {}]

-----------------------------------------------------------------------------
(* The locks *)

Tracked == {r \in Repo : row[r] = "tracked"}

\* Mutant: every task that asked for the mutex behaves as if it had it.
HoldsMutexUnlocked(t) == pc[t] \notin {"idle", "spawned"}

\* lock_owned().await has returned and the guard is not dropped yet.
HoldsMutex(t) ==
    LET q == queue[t[2]][mutex[t]]
    IN  q # <<>> /\ Head(q) = t

\* A task's first poll: look the mutex up in the map and join its FIFO queue.
\* (The lookup and the join are two steps of the code, but a task between them
\* is on the mutex it looked up either way.)
Enqueue(t) ==
    LET r == t[2] IN
    /\ pc[t] = "spawned"
    /\ pc' = [pc EXCEPT ![t] = "queued"]
    /\ mutex' = [mutex EXCEPT ![t] = gen[r]]
    /\ queue' = [queue EXCEPT ![r][gen[r]] = Append(@, t)]
    /\ UNCHANGED <<row, due, gen, waiters, permitted, pending>>

\* Mutant: the permit is asked for before the mutex is held.
MayAskPermitUnlocked(t) == pc[t] = "queued"

\* The fixed lock order: a permit is asked for under the repo's mutex.
MayAskPermit(t) == pc[t] = "queued" /\ HoldsMutex(t)

AskPermit(t) ==
    /\ t[1] \in Bounded
    /\ MayAskPermit(t)
    /\ pc' = [pc EXCEPT ![t] = "permit"]
    /\ waiters' = Append(waiters, t)
    /\ UNCHANGED <<row, due, gen, queue, mutex, permitted, pending>>

\* Mutant: one permit too many.
PermitFreeOffByOne == Cardinality(permitted) <= Permits

PermitFree == Cardinality(permitted) < Permits

GrantPermit ==
    /\ waiters # <<>>
    /\ PermitFree
    /\ permitted' = permitted \cup {Head(waiters)}
    /\ pc' = [pc EXCEPT ![Head(waiters)] = "ready"]
    /\ waiters' = Tail(waiters)
    /\ UNCHANGED <<row, due, gen, queue, mutex, pending>>

-----------------------------------------------------------------------------
(* The git work *)

\* A bounded task starts once it has its permit, a manual command at once.
MayBegin(t) ==
    /\ HoldsMutex(t)
    /\ \/ t[1] \in Bounded /\ pc[t] = "ready"
       \/ t[1] \in Manual /\ pc[t] = "queued"

\* The work starts by reading the repo's row, and runs git in its working tree.
Begin(t) ==
    /\ MayBegin(t)
    /\ row[t[2]] = "tracked"
    /\ pc' = [pc EXCEPT ![t] = "git"]
    /\ UNCHANGED <<row, due, gen, queue, mutex, waiters, permitted, pending>>

\* Mutant: the NotFound path leaks the permit.
NotFoundLeak(t) ==
    /\ MayBegin(t)
    /\ row[t[2]] # "tracked"
    /\ pc' = [pc EXCEPT ![t] = "record"]
    /\ UNCHANGED <<row, due, gen, queue, mutex, waiters, permitted, pending>>

\* The row is gone: AppError::NotFound, and no git runs.
NotFound(t) ==
    /\ MayBegin(t)
    /\ row[t[2]] # "tracked"
    /\ pc' = [pc EXCEPT ![t] = "record"]
    /\ permitted' = permitted \ {t}
    /\ UNCHANGED <<row, due, gen, queue, mutex, waiters, pending>>

\* The work returns (every git call is bounded by GIT_OP_TIMEOUT) and the permit
\* is dropped; the mutex is still held.
EndGit(t) ==
    /\ pc[t] = "git"
    /\ pc' = [pc EXCEPT ![t] = "record"]
    /\ permitted' = permitted \ {t}
    /\ UNCHANGED <<row, due, gen, queue, mutex, waiters, pending>>

\* Dropping the guard hands the mutex to the next waiter.
Unlock(t) ==
    /\ queue' = [queue EXCEPT ![t[2]][mutex[t]] = Tail(@)]
    /\ mutex' = [mutex EXCEPT ![t] = 1]
    /\ pc' = [pc EXCEPT ![t] = "idle"]

\* A scheduled job writes its outcome under the mutex: the repo stops being due,
\* or stays due when the write fails.  Other work does not touch the schedule.
Finish(t) ==
    /\ pc[t] = "record"
    /\ HoldsMutex(t)
    /\ Unlock(t)
    /\ \/ t[1] = "job" /\ due' = [due EXCEPT ![t[2]] = FALSE]
       \/ UNCHANGED due
    /\ UNCHANGED <<row, gen, waiters, permitted, pending>>

-----------------------------------------------------------------------------
(* Where tasks come from *)

\* Time passes or a command re-anchors the schedule: the repo becomes due.
BecomeDue(r) ==
    /\ row[r] = "tracked"
    /\ ~due[r]
    /\ due' = [due EXCEPT ![r] = TRUE]
    /\ UNCHANGED <<row, gen, queue, mutex, waiters, permitted, pc, pending>>

\* Mutant: a tick selects one repo, always the same one first.
SelectDueFirst(S) == {CHOOSE r \in S : TRUE}

\* select_due takes every due repo.
SelectDue(S) == S

\* One scheduler cycle: it starts only when the last one's jobs are all joined.
Tick ==
    LET selected == SelectDue({r \in Tracked : due[r]}) IN
    /\ {r \in Tracked : due[r]} # {}
    /\ \A r \in Repo : pc[<<"job", r>>] = "idle"
    /\ pc' = [t \in Task |-> IF t[1] = "job" /\ t[2] \in selected THEN "spawned" ELSE pc[t]]
    /\ UNCHANGED <<row, due, gen, queue, mutex, waiters, permitted, pending>>

InFlight(b) == {r \in Repo : pc[<<b, r>>] # "idle"}

\* "Check All Now": the enabled repos are the targets of the burst.
CheckAll(b) ==
    /\ pending[b] = {} /\ InFlight(b) = {}
    /\ \E targets \in SUBSET Tracked \ {{}} : pending' = [pending EXCEPT ![b] = targets]
    /\ UNCHANGED <<row, due, gen, queue, mutex, waiters, permitted, pc>>

\* Mutant: the whole burst is spawned at once.
RoomInBurstUnbounded(b) == TRUE

RoomInBurst(b) == Cardinality(InFlight(b)) < MaxInFlight

\* spawn_next: admission is bounded, and refilled as tasks are joined.
Admit(b) ==
    /\ RoomInBurst(b)
    /\ \E r \in pending[b] :
        /\ pending' = [pending EXCEPT ![b] = @ \ {r}]
        /\ pc' = [pc EXCEPT ![<<b, r>>] = "spawned"]
    /\ UNCHANGED <<row, due, gen, queue, mutex, waiters, permitted>>

\* A command may name an id that is already gone: the window that sent it had an
\* older list.
Command(t) ==
    /\ t[1] \in Manual \cup {"remove"} /\ t[2] \in Commanded
    /\ row[t[2]] # "unused"
    /\ pc[t] = "idle"
    /\ pc' = [pc EXCEPT ![t] = "spawned"]
    /\ UNCHANGED <<row, due, gen, queue, mutex, waiters, permitted, pending>>

\* repo_add_path: a fresh id, due at once, on a path no other row holds.
Add(r) ==
    /\ row[r] = "unused"
    /\ \A s \in Tracked : TreeOf[s] # TreeOf[r]
    /\ row' = [row EXCEPT ![r] = "tracked"]
    /\ due' = [due EXCEPT ![r] = TRUE]
    /\ UNCHANGED <<gen, queue, mutex, waiters, permitted, pc, pending>>

\* Mutant: the row is deleted without waiting for the repo's mutex.
MayDeleteUnlocked(t) == t[1] = "remove" /\ pc[t] = "queued"

MayDelete(t) == t[1] = "remove" /\ pc[t] = "queued" /\ HoldsMutex(t)

\* Mutant: the eviction runs even when there was no row to delete.
DeleteAlwaysEvicts(t) ==
    /\ MayDelete(t)
    /\ row' = [row EXCEPT ![t[2]] = "gone"]
    /\ due' = [due EXCEPT ![t[2]] = FALSE]
    /\ pc' = [pc EXCEPT ![t] = "evict"]
    /\ UNCHANGED <<gen, queue, mutex, waiters, permitted, pending>>

\* repo_remove deletes the row, under the mutex ...
Delete(t) ==
    /\ MayDelete(t)
    /\ IF row[t[2]] = "tracked"
       THEN /\ row' = [row EXCEPT ![t[2]] = "gone"]
            /\ due' = [due EXCEPT ![t[2]] = FALSE]
            /\ pc' = [pc EXCEPT ![t] = "evict"]
       ELSE /\ pc' = [pc EXCEPT ![t] = "record"]
            /\ UNCHANGED <<row, due>>
    /\ UNCHANGED <<gen, queue, mutex, waiters, permitted, pending>>

\* ... and then drops the map's entry: later requests get a new mutex while the
\* old one's waiters are still to be served.
Evict(t) ==
    /\ pc[t] = "evict"
    /\ gen' = [gen EXCEPT ![t[2]] = @ + 1]
    /\ pc' = [pc EXCEPT ![t] = "record"]
    /\ UNCHANGED <<row, due, queue, mutex, waiters, permitted, pending>>

-----------------------------------------------------------------------------

\* The steps of a task that has been spawned.
Step(t) ==
    \/ Enqueue(t) \/ AskPermit(t) \/ Begin(t) \/ NotFound(t) \/ EndGit(t)
    \/ Finish(t) \/ Delete(t) \/ Evict(t)

Next ==
    \/ \E t \in Task : Step(t) \/ Command(t)
    \/ \E r \in Repo : BecomeDue(r) \/ Add(r)
    \/ \E b \in Burst : CheckAll(b) \/ Admit(b)
    \/ GrantPermit
    \/ Tick

Spec == Init /\ [][Next]_vars

\* The runtime polls every task that can make progress, git calls time out, and
\* the minute interval keeps firing.  Users owe nothing.
FairSpec ==
    /\ Spec
    /\ \A t \in Task : WF_vars(Step(t))
    /\ \A b \in Burst : WF_vars(Admit(b))
    /\ WF_vars(GrantPermit)
    /\ WF_vars(Tick)

-----------------------------------------------------------------------------
(* Safety *)

\* Two git processes never run in one working tree at once, whichever of the
\* four sources started them and however removal, eviction and re-adding the
\* same folder under a new id fall between (run_job, the manual commands and
\* check_all_enabled all take RepoLocks; repo_remove holds it across the delete).
TreeExclusion ==
    \A t, u \in Task :
        pc[t] = "git" /\ pc[u] = "git" /\ TreeOf[t[2]] = TreeOf[u[2]] => t = u

\* Git never runs for a repo that has been removed: work that was waiting when
\* the row was deleted finds NotFound, work that had started delays the delete.
GitOnlyTracked == \A t \in Task : pc[t] = "git" => row[t[2]] = "tracked"

\* Scheduled jobs and bursts together never run more git than the semaphore has
\* permits, although they share it (check_all_semaphore is the scheduler's own).
BoundedGit == Cardinality({t \in Task : t[1] \in Bounded /\ pc[t] = "git"}) <= Permits

\* No task holds, or queues for, a permit while it waits for a repo's mutex: the
\* lock order that keeps one busy repo from starving the global cap.
PermitUnderMutex ==
    \A t \in Task : t \in permitted \/ pc[t] = "permit" => HoldsMutex(t)

\* A burst never occupies more repo mutexes than it can work on, so a large
\* library cannot stall the scheduler behind it (bounded admission).
BurstFootprint ==
    \A b \in Burst : Cardinality({r \in Repo : pc[<<b, r>>] # "idle" /\ HoldsMutex(<<b, r>>)}) <= MaxInFlight

\* What the scheduler's contract promises of all git work together.
GlobalGitCap == Cardinality({t \in Task : pc[t] = "git"}) <= Permits

-----------------------------------------------------------------------------
(* Refinement *)

CappedTask == {t \in Task : t[1] \in Bounded}

Busy == [w \in Tree |-> {t \in Task : pc[t] = "git" /\ TreeOf[t[2]] = w}]

Abstract == INSTANCE WorkingTrees WITH Capped <- CappedTask, busy <- Busy

\* The mutex map, its eviction and the semaphore together implement working trees that serve
\* one task at a time under a cap on all but manual commands, also while a folder is removed
\* (its old mutex still held and waited for) and added again under a new id.
ServesWorkingTrees == Abstract!Spec

-----------------------------------------------------------------------------
(* Liveness *)

\* Every spawned scheduled job ends, so every cycle ends and the next can start; a manual
\* command or a removal waits for the work in front of it and no longer; and a burst reaches
\* all its targets: mutex-then-permit on every side, and nobody waits on everybody.
EverythingEnds ==
    /\ \A k \in {"job", "remove"} \cup Manual : \A r \in Repo : []<>(pc[<<k, r>>] = "idle")
    /\ \A b \in Burst : []<>(pending[b] = {} /\ InFlight(b) = {})

\* A due repo is worked on and stops being due, or is removed: jobs whose outcome
\* write fails and repos that become due again cannot keep another one waiting.
DueServed ==
    \A r \in Repo : []<>(~due[r] \/ pc[<<"job", r>>] = "git")
=============================================================================
