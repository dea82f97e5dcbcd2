# RepoSync in TLA+

RepoSync is a desktop app that keeps many local Git clones current: a scheduler
checks, fetches or fast-forwards each repo on its cadence, and the user can do
the same by hand. This directory specifies the parts of it whose correctness
depends on the order of things, checks them with TLC and proves the most
important results with TLAPS. Paths below are relative to the repository;
"core" is `crates/reposync-core/src`, "edge" is `src-tauri/src`.

## 1. Inventory

| Component | State | Operations | What makes it correct |
|---|---|---|---|
| Scheduler (core `scheduler.rs`, loop in edge `lib.rs`) | `next_check_at`, `consecutive_failures`, `auto_paused`, `last_error_code`; the jobs of the running cycle | `run_due`, `run_job`, `record`, `reschedule_one_repo`, `reschedule_inherit_repos` | no due repo is forgotten; pauses are earned and explained; the cadence in force is the configured one |
| Repo locks and semaphore (core `scheduler.rs`) | a map from repo id to an async mutex; four permits | lock, evict, acquire | one git run per working tree; caps; nobody waits for good |
| Update policy (core `policy.rs`) | none | `decide`, `classify_failure` | never mutate a dirty, detached, untracked or diverged tree |
| Repo commands (core `repo.rs`) | the `repo_local_state` row, activity receipts | `add`, `check_now`, `update_now`, `update_now_scheduled` | what is shown and reported is true of the tree |
| Git engine (core `git/`) | the git executable in use | `inspect`, `fetch`, `pull_ff_only`, `ahead_behind`, `set_git` | every call ends; failures are classified conservatively |
| Registry (core `store.rs`) | `repos`, groups, `settings` | add, remove, enable, cadence, mode, groups, import | ids are not reused; paths are unique |
| IPC commands (edge `commands/mod.rs`) | none of its own | every command of the frontend, `check_all_enabled`, `settings_set` | the order of lock, permit, write, event |
| GitHub metadata (core `github.rs`) | cached metadata, ETags and last-checked times of three resources per repo; the hourly request window | `refresh_pass`, `repo_refresh_metadata`, conditional requests | the budget is kept; one bad repo does not starve the rest; an older answer never replaces a newer one |
| Settings save and autostart (edge `commands/mod.rs`, `autostart.rs`) | `settings`, the OS registration, the live engine and close flag | save, startup reconcile | setting, registration and live state agree, or the user is told |
| Notifications (core and edge `notify.rs`) | the notes of the cycle | collect, drain, coalesce | none during quiet hours, none lost |
| Activity log (core `activity.rs`) | `activity_records` | record, list, sweep | receipts kept for the retention, streams capped |
| Database (core `db.rs`) | the database file, what was set aside | open, migrate, recover | user data is never lost or silently replaced |
| Summary (core `summary.rs`), groups (core `store.rs`) | groups and memberships | three queries per answer | an answer that mixes moments is still true of some |
| Window, tray, single instance, launch (edge `windows/`, `tray.rs`, `single_instance.rs`, `lib.rs`) | visibility, the menu as last built, the pause flag | show, close, quit, refresh, toggle | the app can always be reached or left; the menu is true |
| Opener, updater (edge `opener.rs`, `updates.rs`) | none | open an editor, terminal or page; check and install | what was accepted when saved works when used |
| Logging (core and edge `logging.rs`) | log files, health counters | sweep, count, report | the newest evidence survives; a report does not contradict itself |
| Errors, redaction, paths | none | pure text | - |
| Frontend (`src/`), IPC types and events | query caches | rendering, sending commands | - |

How they interact. The loop ticks once a minute. A tick selects the due repos,
spawns one job for each and joins them all. A job waits out a jitter, takes the
repo's mutex, then a permit, runs the shared check-or-update path of `repo.rs`
(which writes the row), reads the failure count back, classifies the outcome and
records it. Manual commands run the same path under the mutex without a permit;
the tray's "Check All Now" runs it with both and bounded admission.
`repo_remove` deletes the row under the mutex and evicts it from the map. Enable,
cadence and settings commands write the rows without any lock. Nobody locks out
the user's own git commands or the remote. After a tick the loop fires the cycle's notes and, once
a day, sweeps the log. A second loop passes over the repos' metadata every ten
minutes and shares its request budget with the manual refresh. Whoever changes the
registry asks the tray for a refresh. A settings save moves the OS registration, persists,
and then has the close flag and the git engine follow; the launch reconciles them.

The hard parts are these, each listed at its line in `PROJECT.json` under
`hazards`: four sources of git work and a removal in every order; snapshots
(the due query's cadence and count, the first inspect of a run) that are stale
when used; a run that writes its row in one statement and its schedule in
another, with crashes, failed writes and commands between them; two-statement
cadence changes; reads, fetches and pulls that fail in the middle of a run;
bursts, jobs and commands that could wait on each other; notes held across ticks and
clock reads; requests counted at one time and sent at another; a save or a recovery
that dies half-way; answers put together from several reads.

## 2. Modules

| Module | Models | Actions and state |
|---|---|---|
| `WorkingTrees` | the promise of the locks, without locks | `busy`: who runs git in each tree |
| `RepoLocks` | `RepoLocks`, the semaphore, `run_due`, `run_job`, `check_all_enabled`, manual commands, `repo_add_path`, `repo_remove`, as far as they lock | `queue` is a mutex (its holder, then its FIFO waiters), `gen` which mutex the map holds, `waiters` / `permitted` the semaphore, `pc` each task's stage; one action per await point |
| `MCRepoLocks` | - | instances for TLC |
| `Policy` | `policy.rs` and the pure functions of `scheduler.rs` | operators only: the update grid, the failure state machine, cadence and quiet hours |
| `Schedule` | when a repo is checked, counted and paused | one variable per column, `job` / `manual` / `command` / `settings` the calls in flight; one action per SQL statement |
| `UpdateFlow` | one check or update against a changing tree and remote | `tree`, `remote`, `run` (its stage and its local variables), `row`; one action per read, git command and write |
| `RateBudget`, `Metadata` | the budgeter; `refresh_pass`, `refresh_one` and the manual refresh | `meta` the cached columns per repo and resource, `events` the budgeter's stamps, `queue` its mutex, `call` / `pass` / `manual` the calls in flight, `published` what GitHub has; one action per wait, request and statement |
| `Database`, `Autostart`, `Desktop` (`MCDesktop`) | `db.rs`'s open and recovery; the registration's tri-state; the process from launch to exit and `settings_set` in it | `disk` every database there ever was, `logs` where the write-ahead logs of those set aside lie, `os` the registration, `runnable` the gits, `app` the process and its stage, `save` / `lock` the saves; one action per fallible call |
| `Journal` (`MCJournal`) | `activity.rs`, both `notify.rs`, the loop of `lib.rs` | `log` receipts by age, `held` the collector, `loop` the iteration's stage and locals, `job` the cycle's jobs, `note` what became of each note; one action per statement, clock read and drain |
| `Tray` | `tray.rs`'s menu, the queries it shows, everybody who asks for a refresh | `menu` as built, `paused`, the refresh mutex and each caller's stage |
| `Civil`, `Summary` (`MCSummary`) | dates and local days; groups and `summary.rs` | the tables, and `reader` between its three queries |
| `Diagnostics` | `diagnostics_get` beside a save and the failing log writer | `stored` / `engine` under `settings_write_lock`; `last_failure` / `published` two atomics, each the sequence of its values, so that a relaxed load may be stale |
| `Remotes`, `Programs`, `GitReads`, `GitHubReads`, `LogFiles`, `Scan`, `Answers` | functions without a state: remote URLs; git, editor and terminal lookup; what git's and GitHub's answers are read as; the log budget; the folder scan; lists and sums | operators, and one property each or a few, over bounded inputs |
| `MCFunctions` | - | the assumptions in which TLC evaluates those properties |
| `RepoLocksProofs`, `ScheduleProofs`, `UpdateFlowProofs`, `JournalProofs`, `MetadataProofs`, `DesktopProofs`, `TrayProofs`, `SummaryProofs` (with those of `Diagnostics`) | - | theorems |

`RepoLocks`, `Schedule` and `UpdateFlow` cut the system along the repo's mutex.
`RepoLocks` shows that runs exclude each other; `Schedule` takes that as a guard
(`ManualBegin`, `JobStart`) and models what consecutive runs do to the columns;
`UpdateFlow` looks inside one run, where only the user and the remote interfere.
`Schedule` and `UpdateFlow` share `Policy`.

The later modules take the same cuts. `Journal` takes from `RepoLocks` that the jobs of
a cycle are joined before its notes fire, and writes the receipts of the runs that
`UpdateFlow` looks into. `Desktop` covers a save but for its cadence, which is
`Schedule`'s; `Diagnostics` reads what such a save changes, and repeats only its two
writes. `Metadata` is joined to the rest by nothing but the rows it reads. `GitReads` and
`GitHubReads` justify the classes of outcome that `UpdateFlow`, `Policy` and `Metadata`
take as given: that a failure is never read as good news.

Variables marked *history* in a comment are not in the code; they only
remember what a property speaks of (the real streak of failures, whether anybody
disturbed a run) and no guard of a modelled action reads them. Operators
introduced by "Mutant:" are not part of the specifications: each is a plausible
bug that a property must notice, and `PROJECT.json` pairs them.

## 3. Runs

| Run | Shows |
|---|---|
| `RepoLocks.cfg` (on `MCRepoLocks`) | A folder, removed and added again under a new id, and another one; one manual slot, a burst and the scheduler, one permit: no two tasks in one tree (`TreeExclusion`), no git for a removed repo (`GitOnlyTracked`), the cap on capped work (`BoundedGit`), the lock order (`PermitUnderMutex`), bounded admission (`BurstFootprint`); and the locks implement `WorkingTrees` (`ServesWorkingTrees`). |
| `RepoLocksLive.cfg` (on `MCRepoLocks`) | The same instance, with fairness: every job, manual command, removal and burst ends (`EverythingEnds`), and due repos are served (`DueServed`). |
| `Schedule.cfg` | Counts are earned (`FailuresEarned`), pauses are earned (`AutoPauseEarned`), have a reason (`PausedHasReason`) and end only by a manual success (`UnpauseOnlyByUser`); a started check is never lost (`OwedStaysDue`); the configured cadence is in force once things settle (`CadenceInForce`). |
| `UpdateFlow.cfg` | No pull over uncommitted work (`NeverPullsDirty`); the stored row describes the tree (`RowTrue`); an update that claims to be current is, and one that skips has the reason it gives (`OutcomeTrue`); a check is an honest preview of the update (`PreviewTrue`). |
| `Metadata.cfg` | An ETag stands beside the data it belongs to (`EtagMatchesData`), and a last-checked time is not newer than what it vouches for (`AsOfHonest`); the hourly budget holds against the requests really sent, up to what a call's stamp lags behind them and what a failure leaves uncharged (`HourlyBudget`); an older answer never replaces a newer (`NeverRegress`); a pass comes to every due repo, though some fail (`PassComplete`); a release is announced once (`ToastOnce`). |
| `Desktop.cfg` (on `MCDesktop`) | Setting and registration agree or the reason is on record (`AutostartHonest`); close flag and engine follow the row (`LiveFollowsStored`); what a save reports of the things it changed is so (`SaveReportTrue`); no window without a way back (`NeverStranded`); no database is lost, nor the log beside it but by a move that failed or was cut off (`DataPreserved`), none is replaced while healthy, or reset in silence (`ResetOnlyCorrupt`, `ResetIsTold`). |
| `Journal.cfg` (on `MCJournal`) | A failure's note is told once, withheld or lost for a named reason, or held, and nothing is told in quiet hours as the settings define them (`NotesKept`); no check counts without its receipt and none is swept early (`ReceiptsKept`); the loop keeps ticking, sweeping and delivering (`LoopServes`). The run also evaluates `MCFunctions`. |

Five runs must find a violation; see section 6.

Three modules have a configuration of their own but are not among the runs of
`PROJECT.json`; `tlc -config X.cfg M` checks them in a minute or two each:

| Configuration | Shows |
|---|---|
| `Tray.cfg` | The submenu is current once nobody has a refresh to do (`MenuCurrent`); the pause item says what a click does (`LabelTrue`). 1.4 million states. |
| `Summary.cfg` (on `MCSummary`) | Each list of an answer is bracketed by what was true throughout and what was true at some time (`AnswerBracketed`); no repo is both listed and quiet (`BucketsDisjoint`); no dangling membership or receipt (`TablesAgree`). |
| `Diagnostics.cfg` | A view never shows a path as ignored that a running save is about to put in force (`NoFalseAlarm`, which needs `settings_write_lock`), nor "1 failed, last never" (`FailureDated`, which needs the Release and the Acquire). 2.2 million states. |

The assumptions of `MCFunctions`, each over every input within its bounds:
`PageOfCoords` (the browser's page and the API's coordinates are of one repo),
`SavedCommandLaunches` and `HonoredIfRuns` (a saved program is found again; the verdict
on the configured git), `SweepKeepsNewest`, `OneFailureOneClass` and `NeverGuessesWell`
(a failed git call or read is never taken for a clean tree or a success),
`ErrorsAreNotData`, `BackoffIsSound` and `PullsAddUp` (the same of GitHub's answers),
`FindsTopmost` (the scan finds every repo and none inside another), `RecentIsNewest`,
`BurstAddsUp`, `PageIsNewest`.

Bounds and why they are enough:

- *Locks.* Three row ids on two trees give the one case with a new mutex for an
  old folder; a fourth source of the same kind adds no new order. One permit and
  `MaxInFlight` 1 make every cap bind. `Commanded` limits manual commands and
  removals to one id to keep the run small; the theorems have no such limit.
  The liveness run has the same instance: a manual slot, a removal and a folder that is
  added again wait for jobs and burst there too.
  `Gen` is 1..2 because `repo_remove` evicts only after it deleted the row and
  ids are never reused, so an id's mutex is replaced at most once (proved, as
  part of `TypeCorrect`).
- *Schedule.* Repos meet only in the global cadence and in the joining of a
  cycle, so one repo has every interleaving of its own columns. The clock stops
  at `MaxTime` (2 for the passing run, 3 where a finding needs it) with cadences
  1 and 3, so that one is shorter and one longer than the run; a day has 3
  minutes and quiet hours take one of them, so that the window opens and closes.
- *UpdateFlow.* One remote commit and two changes by the user or the remote at
  any point, from every tree: clean or dirty, attached or detached, tracked,
  pruned or unconfigured, behind, ahead or diverged. A run misreads the tree at
  most once, at any of its inspects; the two modes that are not in V1 are left
  out, since `decide` rejects them unseen. A second commit with one change was run
  too and adds nothing: the grid tells only zero from more.

- *Metadata.* Two repos, a window that funds one repo and a request more, refresh and
  rate windows of two time units in a run of three: the budget refuses, the window
  reopens, and everything is stale once. One publication, which may retract a release,
  and one fault, of one watched repo; the other is there to be starved.
- *Desktop.* Two callers, symmetric, two saves, two faults, two changes from outside:
  each pair of things that can disagree is disturbed twice. One second for files set
  aside, so that two recoveries collide. Every corrupt database is taken to have commits in
  its log, the case in which there is most to lose. One lock retry stands for the code's two.
- *Journal.* Two repos and two runs in all, so that a cycle may have one more note than the
  cap on single toasts; days of two minutes, one of them quiet, and retentions of one and two
  days; ages up to five, so that a receipt outlives every retention. One fault, one
  save and one slow step.
- *Tray, Summary, Diagnostics.* Two rows for a submenu of one; one repo and one group
  with one receipt at a time; two failed writes and four other disturbances.

`CHECK_DEADLOCK FALSE` where the system may really stop: when all tasks are idle
and nothing becomes due, or when the bounded clock has run out.

Fairness (`FairSpec` of `RepoLocks`): weak fairness of each task's own step, of
burst admission, of the permit's hand-over and of the tick. The code justifies it:
tokio polls a task that can go on, its mutex and semaphore are FIFO, each git call
is killed after `GIT_OP_TIMEOUT`, and the minute interval keeps firing. The
pause and git gates of the loop are taken to be open for liveness. The user owes
nothing: commands, time passing and additions have no fairness. The properties say of each
task that it is infinitely often at rest; since a task that rests starts again only by a
step of its own, this is that each of its runs ends.

Fairness (`FairSpec` of `Journal`): weak fairness of the passing of time, and of the loop's
step or any job's, together, since the loop awaits its jobs and something runs as long as
either can; each job's git call is killed by its timeout, and the interval of the loop does
not stop. Saves, crashes, launches
and manual checks owe nothing.

## 4. Proofs

TLAPS checks the eight proof modules without open obligations, for every value of the
constants that the named assumptions allow.

`RepoLocksProofs` (from `RepoLocksAssumption`: finite sets of repos and slots,
positive caps, disjoint kinds of task):

- `Invariant` proves `IInv`, a conjunction of parts that each need the others.
  `LockInv` says that a task past its queue is at the head of its mutex; this is
  what excludes others, but eviction gives one id two mutexes, so `MapInv` is
  needed: a second mutex exists only for a deleted row. `RowInv` (unique paths)
  carries this from ids to trees. `WaitInv` and `PermitInv` tie the semaphore's
  queue and permits to the stages of the tasks, so that the cardinality of
  `permitted` bounds the tasks in git. `BurstInv` counts a burst's tasks.
- `TreesExclusive`, `GitNeedsRow`, `GitBounded`, `PermitsUnderMutex`,
  `BurstBounded` and `TypeCorrect` follow.
- `Implements` is the refinement: each step of the locks is a step of
  `WorkingTrees` or a stutter. `EndGit` of a task maps to `Stop` of its tree
  because, by `TreesExclusive`, it is alone there.

`ScheduleProofs` (from `ScheduleAssumption`):

- `Invariant` proves `IInv`: types; `MutexInv` (a run and a manual command never
  overlap); `CountInv` (the count a job is about to record is covered by real
  failures, which is what re-reading it under the mutex buys); `PauseInv` (a
  paused repo has a reason and no job, which is why no job can lift a pause);
  `OwedStaysDue`; `ClockInv` (no stored time lies in the future); `CadenceInv`
  (whoever is about to write an undisturbed repo's schedule knows its cadence).
- `CountEarned`, `PauseExplained`, `NothingLost`, `CadenceFollowed`, `PauseEarned`,
  `UnpauseByUser` and `TypeCorrect` follow.

`UpdateFlowProofs` (from `UpdateFlowAssumption`):

- `Invariant` proves `IInv`: types; `TreeInv` (the branch has no more of the
  remote's commits than its ref, nor the ref than the remote: without it `behind`
  could be negative and the types would not be inductive); `PullInv` (a run about to
  pull saw a clean tree, so a dirty one was edited since). The lemmas on `Sane` show
  that a fetch, every way a pull can end, and every change by the user keep `TreeInv`.
- `PullsClean` (which is `NeverPullsDirty`) and `TypeCorrect` follow.
- `Truth` proves `TruthInv`, which rests on the first. `RunInv` says, stage by stage, what
  a run knows that nobody disturbed: what it read is the tree (`Looked`), the verdict is
  what the grid says of the tree (`Decided`), the answer is so (`Ended`), and a check's
  promise still stands (`Promised`). Its core is `Settled`: a verdict that depends on the
  counts was given after a fetch, and a second fetch would change nothing. `RowInv`
  and `PreviewInv` carry this beyond the run, to the stored row and to the check that
  precedes an update; `LinkInv` (an upstream needs a remote) is needed so that a check
  without a fetch has nothing to miss. `RowIsTrue`, `OutcomeIsTrue` and `PreviewIsTrue`
  follow.
- `FetchedWhereItMatters` says of the grid alone that `needs_remote_fetch` is exact: under
  `PullFfOnly` it asks for a fetch if and only if two different counts would give two
  different verdicts.

`MetadataProofs` (from `MetadataAssumption`) proves three layers, each from the one below:

- `Base`: types; `QueueInv` (the budget's mutex is held or awaited by those in a refresh,
  each once); `PassInv`; `CallInv` (a stamp lies in the past, and only a call that has
  sent something owes for it); `RoomInv` (whoever has sent was let in with room for all
  three requests, which bounds `events`). `TypeCorrect` follows.
- `Data`: `RowOK` says of each row that it is empty or shows a version that was current
  at its mark, and `AnswerOK` the same of an answer on its way, with the conditional
  request's ETag still the row's: nobody else can write it, because the mutex is held
  from the read to the write. `ToastInv` ties what was announced to what is cached.
  `EtagsMatch`, `AsOfIsHonest`, `NoRegress` and `ToastsOnce` follow.
- `Budget`: the hourly bound speaks of requests, the code counts stamps, and a
  stamp is taken before the request it pays for. `BackedInv` gives each stamp a request of
  its own, no earlier; `ChargedInv` says of every time `t` that a request sent after
  `t` and the call's lag has a stamp after `t`, is one of a call under way, or is among
  those that a failure leaves uncharged. Since the stamps in a window are capped, and pruning
  removes none that is in it, the requests in any window up to now are bounded
  (`Recent`); a past window is a window that was once current. `WithinBudget`
  follows.

`PassCompletes` needs the third layer too: a pass that ends before its last row has an
excuse, and the excuse that the budget was spent speaks of requests really sent, of which
every stamp that the mutex's holder counts is one (`KeptSent`).
`MetadataAssumption` asks for a finite set of repos that are numbers, a refresh window of at
least 1 and a clock that ticks (`MaxTime` at least 1); `RateBudgetAssumption` for a rate
window of at least 1.

`JournalProofs` (from `JournalAssumption`): `IInv` is types, `JobInv` (a job has a
run of its own, not yet noted), `LoopInv` (what the loop holds at each stage: drained
notes only outside the quiet hours it read, a cutoff no shorter than the retention),
`NotesAccounted` (buffer and hand hold each unsettled note once) and `ReceiptsAccounted`
(no check is without a receipt, and the log is the logged runs). `NotesAreKept`,
`ReceiptsAreKept` and `TypeCorrect` follow; the two conservation laws are what makes the
properties, which speak of single steps, inductive. `QuietHoursRight` proves the arithmetic of
the quiet hours for every window: `InQuietHours`, which compares minutes in two cases, is
being fewer minutes after the start of the window than it is long, midnight wrapped and a
width of zero included.

`DesktopProofs` (from `DesktopAssumption`): `IInv` is types, `FileInv` (which databases
lie where, `made` many and each of its own), `LogsKept` (a log that is not beside its
database is about to follow it, or is on record as torn from it), `ResetInv` (the next launch finds the database of
the last session or a corrupt one, or a reset is on record as untold),
`WindowInv` (a hidden window has a tray), `LockInv` (one caller past the lock) and
`SaveInv` (what a save at each stage knows of row, registration and engine). The
destination of a backup is unique by the pigeonhole principle, from
`FiniteSetTheorems`. All seven properties of the run and `TypeCorrect` follow.

`TrayProofs` (from `TrayAssumption`): `IInv` is types, `QueueInv` (the refresh mutex),
`StartInv` (before the tray is up nobody refreshes), `RunInv`, `RowInv`, `LabelInv`,
`GateInv` (the gate's memory is the menu, but for the refresh that is between the two) and `FreshInv` (a menu that is
stale has somebody who has yet to refresh it). `MenuIsCurrent` and `LabelIsTrue` follow.

`SummaryProofs` (from `SummaryAssumption`): `NextDay`, `Epoch` and `ReleaseDay` prove the
calendar for every year; `IInv` is types, `TablesAgree`, `Watched` (the repos that belonged throughout
are among those that belonged at some time, and what is stored now is between) and
`Got`. `AnswersTrue`, `QuietOnlyUnlisted`, `TablesStayTrue` follow; `ScopingScopesAll`
says that the summary of a group is that of all, restricted to its members.

The module also holds the theorems about `Diagnostics`, through an instance of it (from
`DiagnosticsAssumption`: no path is called "system" or "none"). `ViewIInv` is types,
`HealthInv` (the log writer stores a time before it counts the failure, and times do not go
back, so that a reader who has seen a count cannot be shown an earlier time), `CountInv`,
`LockInv` (who holds `settings_write_lock`) and `ForceInv` (what is stored and what runs are
in force together, except while a save is between its two writes). `AlarmIsTrue` and
`FailureIsDated` follow.

`TrayAssumption`, `SummaryAssumption` and `DiagnosticsAssumption` are definitions that each
theorem assumes, as no listed run extends their modules.

With this every invariant and every safety property that a passing run checks is also a
theorem, and so are those of `Tray`, `Summary` and `Diagnostics`. Only model-checked:
liveness (`EverythingEnds`, `DueServed`, `LoopServes`; it rests on fairness and `ENABLED`,
which this prover does not handle), and the functions of `MCFunctions`, for inputs within
bounds (most recurse over their input, and induction over data is out of reach here).

## 5. What is not modelled

- In `RepoLocks`: a burst task whose repo's mutex was looked up before the eviction
  but polled after it (it is on the mutex it looked up either way); the entry that
  a late command leaves in the map for a deleted id; a second process on the same
  database (`BL-NI-73`).
- In `Schedule`: startup jitter is time passing before `JobStart`; integer widths; a
  clock that goes backwards; two cadence commands on one repo at once; the global
  cadence and the row are read in one step when a cadence is resolved.
- In `UpdateFlow`: force pushes, and pushes by the user; which branch a reattached
  HEAD is on; a git child that outlives a crash of the app; unborn branches; the
  error code, failure count and pause, which are `Schedule`'s; the receipt's
  contents. The first inspect and the look for an origin are one step.
- In `Schedule` and `RepoLocks` the loop's gates (pause, no git) only make a tick
  optional.
- In `Journal`: the capping of stored streams; the receipts that a removal deletes
  (`Summary` has them); widths, so that a very large retention does not overflow; a run's
  receipt carries its start. Release toasts are `Metadata`'s.
- In `Metadata`: what the fields say (a version stands for them); a commit fill that the
  code leaves for later; the token. A repo that fails every time stays first in the
  order and may use up the budget of each hour: no property promises otherwise.
- In `Desktop`: the WAL files of the database in use and of a sibling, which SQLite keeps,
  and `-shm`, which holds no data; migrations by version;
  the fields of a save that nothing live follows; a refused cadence reschedule, after
  which a save that is in force reports an error.
- In `Tray`: that a command holds its repo's mutex while it refreshes the menu (the
  model allows more). In `Summary`: what is shown of a repo, and widths.
- In `Diagnostics`: counters that stand alone (cycles, bytes, dropped lines), and the
  clock before 1970, which would store the 0 that means never.
- In `Remotes`: a `#` or `?` inside the authority. In `Scan`: case in paths.
- Without a module: error kinds and their texts, redaction and paths (functions on
  text); the IPC types and events (data definitions); the frontend (rendering; the
  commands it sends come at any time in the models); test fixtures; the log subscriber;
  the updater but for the end of the process, since its plugin does the verifying; the
  jitter's random numbers (a started job waits any time).

About half of the counted lines are tests inside the source files. Of the rest
somewhat under half is mapped; what remains is for the greater part the above:
types, texts, fixtures, comments and the wiring of commands to the functions modelled.

## 6. Findings

- **Global cap** (`RepoLocksGlobalCap.cfg`). The E-08 spec promises at most four
  git operations globally; manual commands take no permit, so there may be more.
- **Cadence change under a job** (`ScheduleCadence.cfg`). A job records the next
  check from the cadence it was selected with, over a change that was applied
  meanwhile. The command's comment says the change takes effect immediately.
- **Quiet hours** (`ScheduleQuiet.cfg`). They gate selection; a job that was
  selected just before and waited starts its check inside the window.
- **Broken first run** (`ScheduleUnchecked.cfg`). A scheduled first run that
  cannot run at all leaves a repo that was never checked and is not due; both
  reschedules skip it on the stated ground that it is due.
- **Commit range** (`UpdateFlowRange.cfg`). The range compares HEAD at the first
  inspect with HEAD after the pull. If the user pulls in between, the result says
  `up_to_date` and still carries a range that the run did not produce.

Read or seen while modelling, and not the subject of a run of their own:

- `notify.rs` (core): `drain_if` approves at one clock reading, the coalescing reads the
  clock again; if quiet hours begin in between the drained notes are gone, though the
  comment at edge `notify.rs:128` says that every path that declines leaves the buffer
  intact. And a toast that the OS does not show (edge `notify.rs:82`, no permission or no
  service) is logged and dropped after the drain. `NotesKept` names both losses ("missed"
  and "unshown").
- `github.rs`: the documentation (lines 22-23, 796-797) says that a 403 on the release is
  "authoritative" and clears it. `fetch_release` takes only a 404 for "no release" and keeps
  the cached one on a 403 (line 1475). The model follows the code, and `AsOfHonest` would be
  violated by the documented behaviour: a release would be missing that GitHub has.
- `github.rs`: the hourly cap is said to hold "in any rolling hour EVEN when a manual refresh
  interleaves" (lines 1253-1257; also line 60), and the accounting to stay "exact" (lines
  1208-1210). A call's requests are charged at the time the call was stamped, which is before
  it waited for the budget's mutex and before they went out, so the window may reopen early;
  a database error leaves `refresh_one_budgeted` by its `?` (line 1224), before the requests
  are recorded; and a restart forgets them all. `HourlyBudget` states what is left of the
  promise, with the delay (`lag`) and the forgotten requests (`uncharged`) named, and
  `WithinBudget` proves it; without either of the two allowances it is violated.
- `autostart.rs` (edge): the comments at lines 25-28 and 173-183 describe a save as
  persist-then-apply: the requested value is stored before the call, stays after a failure and
  is retried by the next launch. `settings_set` applies first (`commands/mod.rs:906`), stores
  what the OS says after a failure, and the launch adopts what the OS holds.
  `AutostartHonest` states the code's contract, and the documented one would violate it.
- `db.rs`: "data is never silently deleted", but a corrupt database's `-wal` is renamed after
  it (line 306). When that fails, or the process dies between the renames, the log stays
  under the old path, where opening the fresh database deletes it with the commits it
  holds. A failed rename leaves a line in the log file, the user is told only of the reset; a
  death in between leaves nothing. `DataPreserved` names this loss (`torn`).
- `policy.rs:92`: `Deleted` means that the configured tracking branch was pruned;
  `classify_upstream` (`repo.rs:1013`) tells it from `None` by whether there is an `origin`, so
  a branch of a clone that never had an upstream is reported as deleted upstream too.
  `OutcomeTrue` takes the reason in the code's sense.
- `activity.rs`: a settings row that cannot be read falls back to 90 days, shorter than a
  longer retention the user chose.
- `commands/mod.rs`: the comment "any disagreement seen at startup really was made
  outside RepoSync" is not true after a crash between actuating and persisting. A save
  repeated with the git path that was just refused reports success while the old engine
  runs, since the path no longer changes; the Diagnostics view then says so.
  `SaveReportTrue` therefore speaks of the engine only if the save changed the path, and so
  names what "Settings saved" does not promise; "a false `Settings saved`" (line 965) is
  what refusing a path was meant to end.
- `db.rs`: a launch that dies after setting a corrupt database aside and before creating
  the new one leaves a reset that nobody is told of.
- `tray.rs`: a click on the pause item while a rebuilt menu is handed over leaves the
  label stale, against "a rebuilt menu must keep the label the user last set"; a refresh
  asked for before the tray exists is lost.
- `summary.rs`: three reads without a transaction; the quiet count may count a repo that
  was quiet at no one moment, which is why `AnswerBracketed` bounds it only from below.
- `git/cli.rs`: a URL that contains "403" turns a network failure into an authentication
  failure. `git/mod.rs`: `resolve_and_probe`'s invariant assumes that git does not disappear
  between two spawns.
- `store.rs`: `already_tracked` of the scan ignores case, the unique path of `add` does not.

## 7. Plan

Done: the locks and their refinement, the schedule, the update flow, settings and
database, metadata, notes and receipts, tray, summary, the functions, and the safety
proofs of them all. Next:

1. Theorems about those functions of `MCFunctions` that need no induction: the verdict on
   the configured git, the classes of a git failure, the backoff.
2. A refinement of `UpdateFlow`: an undisturbed run as one step that takes the tree to what
   the grid says of it.
3. The stream caps of `activity.rs`, and `UpdateFlow` joined to `Journal` by its receipts.
