------------------------------ MODULE UpdateFlow ------------------------------
(***************************************************************************)
(* One check or update of one repo, from its first look at the working     *)
(* tree to its result (repo.rs: check_now, update_now).                    *)
(*                                                                         *)
(* The repo's mutex keeps other runs out (RepoLocks), but not the user,    *)
(* who edits, commits, switches branches and pulls with tools of their     *)
(* own, nor the remote: between two reads of a run the tree and the remote *)
(* may have changed.  Every read and every git command of a run is a step, *)
(* and may fail; only the look for an origin shares the step of the first  *)
(* inspect.  What a run writes of failures and pauses is in Schedule.      *)
(*                                                                         *)
(* History is abstracted to what the grid tells apart: how many of the     *)
(* remote's commits the branch and its remote-tracking ref contain, and    *)
(* whether the branch has commits of its own.                              *)
(***************************************************************************)
EXTENDS Policy

CONSTANTS
    Modes,        \* the update modes in use
    MaxCommits,   \* bound: commits on the remote's branch
    MaxMeddling   \* bound: changes by the user and by the remote

ASSUME UpdateFlowAssumption ==
    /\ Modes \subseteq UpdateMode
    /\ MaxCommits \in Nat \ {0}
    /\ MaxMeddling \in Nat

VARIABLES
    tree,       \* the working tree and its repository
    remote,     \* the upstream branch on the remote
    run,        \* the run under the repo's mutex
    row,        \* repo_local_state: what the app shows of the tree
    meddling,   \* how often the user or the remote has changed something
    preview,    \* history: what the last check said an update will do, while that should hold
    current     \* history: the row should describe the tree: nothing has changed since

vars == <<tree, remote, run, row, meddling, preview, current>>

Commits == 0..MaxCommits

\* link: the branch's upstream resolves, is configured but pruned, or is not configured.
Tree == [dirty : BOOLEAN, detached : BOOLEAN, origin : BOOLEAN,
         link : {"live", "pruned", "none"}, head : Commits, own : BOOLEAN, ref : Commits]
Remote == [commits : Commits, exists : BOOLEAN]

\* What identifies HEAD.
Head(t) == <<t.head, t.own>>
Heads == Commits \X BOOLEAN

\* InspectResult.
View == [dirty : BOOLEAN, detached : BOOLEAN, tracked : BOOLEAN, head : Heads]
NoView == [dirty |-> FALSE, detached |-> FALSE, tracked |-> FALSE, head |-> <<0, FALSE>>]
Inspect(t) ==
    [dirty |-> t.dirty, detached |-> t.detached, tracked |-> ~t.detached /\ t.link = "live",
     head |-> Head(t)]

\* inspect as a whole fails only if the repository does not open; of its parts, an
\* unreadable status is dirty, an unreadable HEAD is not detached and an unreadable
\* upstream is none.
Views(t) == {Inspect(t)}
       \cup {[Inspect(t) EXCEPT !.dirty = TRUE], [Inspect(t) EXCEPT !.detached = FALSE],
             [Inspect(t) EXCEPT !.tracked = FALSE]}

\* classify_upstream: a branch without upstream in a clone is taken for a pruned one.
ClassifyUpstream(view, origin) ==
    IF view.tracked THEN "tracking"
    ELSE IF ~view.detached /\ origin THEN "deleted" ELSE "none"

\* Mutant: a pull brings its own fetch, so only fetch_only needs one.
NeedsNoFetchToPull(mode, view, origin) ==
    mode = "fetch_only" /\ (view.detached \/ ClassifyUpstream(view, origin) = "tracking")

\* needs_remote_fetch: only the cells that local state does not settle.
NeedsRemoteFetch(mode, view, origin) ==
    LET tracking == ClassifyUpstream(view, origin) = "tracking" IN
    \/ mode = "fetch_only" /\ (view.detached \/ tracking)
    \/ mode = "pull_ff_only" /\ ~view.dirty /\ ~view.detached /\ tracking

Counts == [ahead : {0, 1, Unknown}, behind : Commits \cup {Unknown}]
NoCounts == [ahead |-> Unknown, behind |-> Unknown]
CountsOf(t) == [ahead |-> IF t.own THEN 1 ELSE 0, behind |-> t.ref - t.head]

\* compute_ahead_behind: a local rev-list of HEAD as it is now against the upstream the
\* view names; None when the view names none, it does not resolve or the read fails.
Resolves(view) == view.tracked /\ tree.origin /\ tree.link # "pruned"
Compared(view) == {NoCounts} \cup (IF Resolves(view) THEN {CountsOf(tree)} ELSE {})
Miscounted(view, counts) == Resolves(view) /\ counts = NoCounts

GridStateOf(view, origin, counts) ==
    [dirty |-> view.dirty, detached |-> view.detached, upstream |-> ClassifyUpstream(view, origin),
     ahead |-> counts.ahead, behind |-> counts.behind]

\* What is stored of a view.
RowOf(view, origin, counts) ==
    [view |-> view, upstream |-> ClassifyUpstream(view, origin), counts |-> counts]
Row == [view : View, upstream : UpstreamState, counts : Counts]

\* FetchClass and PullClass.
FetchFailure == {"auth_failed", "offline", "fetch_failed"}
PullFailure == {"auth_failed", "offline", "ff_not_possible", "command_failed"}
FetchClass == {"updated", "noop"} \cup FetchFailure

Verdict == Action \cup SkipReason
Stage == {"idle", "inspected", "fetched", "viewed", "decided", "guard", "pull", "pulled",
          "acted", "posted", "done"}
Outcome == {"none", "updated", "up_to_date", "skipped", "failed"}

\* The two ends of a move of HEAD; <<>> is none.
Move == {<<>>} \cup (Heads \X Heads)
MoveOf(from, to) == IF from = to THEN <<>> ELSE <<from, to>>

Run == [pc : Stage, kind : {"check", "update"}, mode : UpdateMode, origin : BOOLEAN,
        before : View, fetch : {"none"} \cup FetchClass, view : View, counts : Counts,
        verdict : {"none"} \cup Verdict, outcome : Outcome,
        reason : {"none"} \cup SkipReason \cup FetchFailure \cup PullFailure,
        commitRange : Move,
        moved : Move,          \* history: how the run's own pull moved HEAD
        blind : BOOLEAN,       \* history: a read failed, and something else was used
        meddled : BOOLEAN,     \* history: the user or the remote changed something meanwhile
        edited : BOOLEAN,      \* history: the tree was edited since the look before the pull
        promise : {"none"} \cup Verdict]   \* history: what a check had said of this run

NoRun == [pc |-> "idle", kind |-> "check", mode |-> "check_only", origin |-> FALSE,
          before |-> NoView, fetch |-> "none", view |-> NoView, counts |-> NoCounts,
          verdict |-> "none", outcome |-> "none", reason |-> "none", commitRange |-> <<>>,
          moved |-> <<>>, blind |-> FALSE, meddled |-> FALSE, edited |-> FALSE,
          promise |-> "none"]

NoPreview == [mode |-> "check_only", verdict |-> "none"]

TypeOK ==
    /\ tree \in Tree
    /\ remote \in Remote
    /\ run \in Run
    /\ row \in Row
    /\ meddling \in 0..MaxMeddling
    /\ preview \in [mode : UpdateMode, verdict : {"none"} \cup Verdict]
    /\ current \in BOOLEAN

\* A working tree in any state, stored as add stores it: without a comparison.
Init ==
    /\ remote \in [commits : Commits, exists : {TRUE}]
    /\ tree \in {t \in Tree : /\ t.head <= t.ref /\ t.ref <= remote.commits
                              /\ t.link # "none" => t.origin}
    /\ run = NoRun
    /\ row = RowOf(Inspect(tree), tree.origin, NoCounts)
    /\ meddling = 0
    /\ preview = NoPreview
    /\ current = FALSE
-----------------------------------------------------------------------------
(* A run *)

\* What a run sees of the tree, or falls back to.  Bound: a run misreads it once at most.
Looks(fallback) == IF run.blind THEN {Inspect(tree)} ELSE Views(tree) \cup fallback

Failing(reason) == [run EXCEPT !.pc = "acted", !.outcome = "failed", !.reason = reason]
Skipping(reason) == [run EXCEPT !.pc = "acted", !.outcome = "skipped", !.reason = reason]

\* The first inspect.  One that fails ends the run before it has changed anything here.
Begin(kind, mode) ==
    /\ run.pc = "idle"
    /\ \E view \in Views(tree), origin \in {tree.origin, FALSE} :
         run' = [NoRun EXCEPT
                   !.pc = "inspected", !.kind = kind, !.mode = mode, !.origin = origin,
                   !.before = view, !.view = view,
                   !.blind = (view # Inspect(tree) \/ origin # tree.origin),
                   !.promise = IF kind = "update" /\ preview.mode = mode
                               THEN preview.verdict ELSE "none"]
    /\ preview' = NoPreview
    /\ UNCHANGED <<tree, remote, row, meddling, current>>

\* git fetch --all --prune.
Fetched(t) ==
    CASE t.link = "none" -> t
      [] t.link # "none" /\ remote.exists  -> [t EXCEPT !.link = "live", !.ref = remote.commits]
      [] t.link # "none" /\ ~remote.exists -> [t EXCEPT !.link = "pruned"]

\* The fetch, if the mode needs one.  A fetch that fails may have updated refs before;
\* it is what a check reports, and ends an update before anything is decided.
Fetch ==
    /\ run.pc = "inspected"
    /\ \/ /\ ~NeedsRemoteFetch(run.mode, run.before, run.origin)
          /\ run' = [run EXCEPT !.pc = "viewed"]
          /\ UNCHANGED tree
       \/ /\ NeedsRemoteFetch(run.mode, run.before, run.origin)
          /\ tree' = Fetched(tree)
          /\ \E class \in {"updated"} \cup (IF tree' = tree THEN {"noop"} ELSE {}) :
               run' = [run EXCEPT !.pc = "fetched", !.fetch = class]
       \/ /\ NeedsRemoteFetch(run.mode, run.before, run.origin)
          /\ tree' \in {tree, Fetched(tree)}
          /\ \E class \in FetchFailure :
               run' = IF run.kind = "check"
                      THEN [run EXCEPT !.pc = "viewed", !.fetch = class]
                      ELSE Failing(class)
    /\ current' = (current /\ tree' = tree)
    /\ UNCHANGED <<remote, row, meddling, preview>>

\* Mutant: the inspect before the fetch is good enough.
ReinspectNot ==
    /\ run.pc = "fetched"
    /\ run' = [run EXCEPT !.pc = "viewed"]
    /\ UNCHANGED <<tree, remote, row, meddling, preview, current>>

\* The inspect after a fetch, or the one before it if this one fails.
Reinspect ==
    /\ run.pc = "fetched"
    /\ \E view \in Looks({run.before}) :
         run' = [run EXCEPT !.pc = "viewed", !.view = view,
                            !.blind = (@ \/ view # Inspect(tree))]
    /\ UNCHANGED <<tree, remote, row, meddling, preview, current>>

\* Mutant: the reason of a skip goes where the outcome belongs.
ActingMislabelled(verdict) ==
    LET decided == [run EXCEPT !.view = NoView, !.fetch = "none"] IN
    CASE verdict = "pull" -> [decided EXCEPT !.pc = "guard"]
      [] verdict \in SkipReason -> [decided EXCEPT !.pc = "acted", !.outcome = verdict]
      [] OTHER -> [decided EXCEPT !.pc = "acted", !.outcome = "up_to_date"]

\* What a verdict leads to; the reads behind it go out of scope.
Acting(verdict) ==
    LET decided == [run EXCEPT !.view = NoView, !.fetch = "none"] IN
    CASE verdict = "pull" -> [decided EXCEPT !.pc = "guard"]
      [] verdict \in SkipReason ->
           [decided EXCEPT !.pc = "acted", !.outcome = "skipped", !.reason = verdict]
      [] verdict = "fetch" /\ run.fetch = "updated" ->
           [decided EXCEPT !.pc = "acted", !.outcome = "updated"]
      [] OTHER -> [decided EXCEPT !.pc = "acted", !.outcome = "up_to_date"]

\* The comparison and the verdict.  A check whose fetch failed has none.
DecideStep ==
    /\ run.pc = "viewed"
    /\ \E counts \in Compared(run.view) :
         LET verdict == IF run.fetch \in FetchFailure THEN "none"
                        ELSE Decide(GridStateOf(run.view, run.origin, counts), run.mode)
         IN run' = [IF run.kind = "check" THEN [run EXCEPT !.pc = "decided", !.counts = counts]
                                          ELSE Acting(verdict)
                      EXCEPT !.verdict = verdict,
                             !.blind = (@ \/ Miscounted(run.view, counts))]
    /\ UNCHANGED <<tree, remote, row, meddling, preview, current>>

\* The end of a check: one transaction for the row and the receipt.
Commit ==
    /\ run.pc = "decided"
    /\ row' = RowOf(run.view, run.origin, run.counts)
    /\ LET sound == ~run.blind /\ ~run.meddled /\ run.fetch \notin FetchFailure IN
       /\ current' = sound
       /\ preview' = IF sound THEN [mode |-> run.mode, verdict |-> run.verdict] ELSE NoPreview
    /\ run' = NoRun
    /\ UNCHANGED <<tree, remote, meddling>>
-----------------------------------------------------------------------------
(* The one mutation *)

\* Mutant: the tree was clean when it was decided.
GuardNot ==
    /\ run.pc = "guard"
    /\ run' = [run EXCEPT !.pc = "pull", !.edited = FALSE]
    /\ UNCHANGED <<tree, remote, row, meddling, preview, current>>

\* The last look at the tree before the pull; an unreadable tree counts as dirty.
Guard ==
    /\ run.pc = "guard"
    /\ \E view \in Looks({}) :
         run' = [IF view.dirty THEN Skipping("dirty") ELSE [run EXCEPT !.pc = "pull"]
                   EXCEPT !.edited = FALSE, !.blind = (@ \/ view.dirty # tree.dirty)]
    /\ UNCHANGED <<tree, remote, row, meddling, preview, current>>

\* What git pull --ff-only does: its own fetch, without prune, then the fast-forward.
Pullable(t) == ~t.detached /\ t.link # "none" /\ remote.exists
Pulling(t) == [t EXCEPT !.link = "live", !.ref = remote.commits]
FastForward(t) == [t EXCEPT !.head = t.ref]

\* git pull --ff-only: how it ends, and the tree it leaves.  It refuses edits only where
\* they conflict.  It may fail for reasons of its own at any time, and a timeout, which is
\* reported as offline, may kill it anywhere: with all done, or in the middle of the checkout.
PullEnds(t) ==
    LET f == Pulling(t) IN
    {[class |-> class, tree |-> t] : class \in {"auth_failed", "offline", "command_failed"}}
    \cup
    (IF ~Pullable(t) THEN {}
     ELSE {[class |-> class, tree |-> f] : class \in {"offline", "command_failed"}} \cup
          CASE f.head = f.ref -> {[class |-> "noop", tree |-> f]}
            [] f.head # f.ref /\ f.own -> {[class |-> "ff_not_possible", tree |-> f]}
            [] f.head # f.ref /\ ~f.own ->
                 {[class |-> "updated", tree |-> FastForward(f)],
                  [class |-> "offline", tree |-> FastForward(f)],
                  [class |-> "offline", tree |-> [f EXCEPT !.dirty = TRUE]]})

Pull ==
    /\ run.pc = "pull"
    /\ \E end \in PullEnds(tree) :
         /\ tree' = end.tree
         /\ run' = [CASE end.class = "updated" -> [run EXCEPT !.pc = "pulled", !.outcome = "updated"]
                      [] end.class = "noop" -> [run EXCEPT !.pc = "pulled", !.outcome = "up_to_date"]
                      [] end.class \in PullFailure -> Failing(end.class)
                    EXCEPT !.moved = MoveOf(Head(tree), Head(tree'))]
    /\ current' = (current /\ tree' = tree)
    /\ UNCHANGED <<remote, row, meddling, preview>>

\* The inspect after a pull that succeeded, for the commit range; none if it fails.
CaptureRange ==
    /\ run.pc = "pulled"
    /\ \E range \in {MoveOf(run.before.head, Head(tree)), <<>>} :
         run' = [run EXCEPT !.pc = "acted", !.commitRange = range]
    /\ UNCHANGED <<tree, remote, row, meddling, preview, current>>
-----------------------------------------------------------------------------
(* The end of an update *)

\* The inspect after the work, or the first one if this one fails.
Postinspect ==
    /\ run.pc = "acted"
    /\ \E view \in Looks({run.before}) :
         run' = [run EXCEPT !.pc = "posted", !.view = view,
                            !.blind = (@ \/ view # Inspect(tree))]
    /\ UNCHANGED <<tree, remote, row, meddling, preview, current>>

\* Mutant: the row is written from the reads the decision was made on.
WriteBefore ==
    /\ run.pc = "posted"
    /\ row' \in {RowOf(run.before, run.origin, counts) : counts \in Compared(run.before)}
    /\ run' = [run EXCEPT !.pc = "done"]
    /\ current' = (~run.blind /\ ~run.meddled)
    /\ UNCHANGED <<tree, remote, meddling, preview>>

\* The comparison after the work and the one UPDATE of the row.
Write ==
    /\ run.pc = "posted"
    /\ \E counts \in Compared(run.view) :
         LET blind == run.blind \/ Miscounted(run.view, counts) IN
         /\ row' = RowOf(run.view, run.origin, counts)
         /\ run' = [run EXCEPT !.pc = "done", !.blind = blind]
         /\ current' = (~blind /\ ~run.meddled)
    /\ UNCHANGED <<tree, remote, meddling, preview>>

\* The result is returned; its receipt is best effort (activity::record).
Finish ==
    /\ run.pc = "done"
    /\ run' = NoRun
    /\ UNCHANGED <<tree, remote, row, meddling, preview, current>>

\* A run that ends early leaves the row as it was: a missing git at the fetch or the pull,
\* a failed write of the row (after which only the error code is written), or a crash.
Stop ==
    /\ run.pc \notin {"idle", "done"}
    /\ run' = NoRun
    /\ UNCHANGED <<tree, remote, row, meddling, preview, current>>
-----------------------------------------------------------------------------
(* The others *)

\* Somebody changes the tree or the remote; all that was known of them may be wrong.
Meddle ==
    /\ meddling < MaxMeddling
    /\ meddling' = meddling + 1
    /\ run' = IF run.pc = "idle" THEN run
              ELSE [run EXCEPT !.meddled = TRUE, !.edited = (@ \/ tree' # tree)]
    /\ preview' = NoPreview
    /\ current' = FALSE
    /\ UNCHANGED row

\* The user edits, cleans, commits, detaches or reattaches HEAD, pulls, drops the
\* branch's upstream or the origin.
UserTree ==
    {[tree EXCEPT !.dirty = TRUE], [tree EXCEPT !.dirty = FALSE],
     [tree EXCEPT !.dirty = FALSE, !.own = TRUE], [tree EXCEPT !.detached = ~@],
     [tree EXCEPT !.link = "none"], [tree EXCEPT !.link = "none", !.origin = FALSE]}
    \cup (IF Pullable(tree) /\ ~tree.own THEN {FastForward(Pulling(tree))} ELSE {})

User ==
    /\ tree' \in UserTree \ {tree}
    /\ UNCHANGED remote
    /\ Meddle

\* Someone pushes to the remote's branch, deletes it or creates it again.
Remotely ==
    /\ remote' \in {[remote EXCEPT !.exists = ~@]}
            \cup (IF remote.exists /\ remote.commits < MaxCommits
                  THEN {[remote EXCEPT !.commits = @ + 1]} ELSE {})
    /\ UNCHANGED tree
    /\ Meddle

Next ==
    \/ \E kind \in {"check", "update"}, mode \in Modes : Begin(kind, mode)
    \/ Fetch \/ Reinspect \/ DecideStep \/ Commit
    \/ Guard \/ Pull \/ CaptureRange
    \/ Postinspect \/ Write \/ Finish \/ Stop
    \/ User \/ Remotely

Spec == Init /\ [][Next]_vars
-----------------------------------------------------------------------------
(* Properties *)

\* A run nobody disturbed and whose reads all succeeded.
Undisturbed == ~run.blind /\ ~run.meddled

\* The rule the tool is built around: no pull of a run moves HEAD under uncommitted
\* work, except work that began after the look right before the pull (repo.rs, H-1;
\* spec E-07 AC3).  A tree edited while the run was fetching or deciding is not moved.
NeverPullsDirty ==
    [][run.pc = "pull" /\ Head(tree') # Head(tree) /\ run'.pc # "pull" /\ tree.dirty
         => run.edited]_vars

\* What the app shows of a repo is so: a run nobody disturbed leaves the row describing
\* the tree as it is after the run's own fetch, prune and fast-forward, a failed update
\* included, until somebody changes something (BL-NI-77, M-3).
RowTrue ==
    current /\ run.pc = "idle" =>
        row = RowOf(Inspect(tree), tree.origin,
                    IF Inspect(tree).tracked THEN CountsOf(tree) ELSE NoCounts)

\* An undisturbed pull_ff_only update tells the truth: unless it failed, either the
\* branch now has all of the remote's commits, or the reason it gives for not pulling
\* holds of the tree (spec E-07: decisions over fresh data; repo.rs, M-1).
OutcomeTrue ==
    run.pc = "done" /\ Undisturbed /\ run.mode = "pull_ff_only" =>
        \/ run.outcome \in {"updated", "up_to_date"} /\ tree.head = remote.commits
        \/ run.outcome = "failed"
        \/ /\ run.outcome = "skipped"
           /\ \/ run.reason = "dirty" /\ tree.dirty
              \/ run.reason = "detached" /\ tree.detached
              \/ run.reason = "no_upstream" /\ ~tree.origin
              \/ run.reason = "deleted_upstream" /\ tree.link # "live"
              \/ run.reason = "ff_not_possible" /\ tree.own /\ tree.head < remote.commits

\* A check is an honest preview: if nothing changes, the update in the same mode decides
\* what the check reported, and a fast-forward it announced happens, or fails for a reason
\* outside the repo (check_now: "reports a would-be fast-forward").
PreviewTrue ==
    run.promise # "none" /\ run.verdict # "none" /\ Undisturbed =>
        /\ run.verdict = run.promise
        /\ run.pc = "done" /\ run.promise = "pull" =>
             \/ run.outcome = "updated"
             \/ run.outcome = "failed" /\ run.reason # "ff_not_possible"

\* Said of UpdateResult: commit_range carries before..after when a fast-forward
\* advanced the tree.
CommitRangeTrue == run.pc = "done" /\ run.commitRange # <<>> => run.moved # <<>>
=============================================================================
