--------------------------- MODULE UpdateFlowProofs ---------------------------
(***************************************************************************)
(* For any number of commits and changes: the types of UpdateFlow, that a  *)
(* run never pulls over uncommitted work, and that what an undisturbed run *)
(* shows, answers and announces is so.                                     *)
(***************************************************************************)
EXTENDS UpdateFlow, TLAPS

\* Counts are never negative: a branch has no more of the remote's commits than its
\* remote-tracking ref, nor the ref than the remote.
TreeInv == tree.head <= tree.ref /\ tree.ref <= remote.commits

\* A run about to pull saw a clean tree; if it is dirty now, it was edited since.
PullInv == run.pc = "pull" /\ tree.dirty => run.edited

IInv == TypeOK /\ TreeInv /\ PullInv

-----------------------------------------------------------------------------
(* What the reads and the verdict return *)

\* Whatever is read of a tree is a view.
LEMMA ViewsType ==
  ASSUME NEW t \in Tree
  PROVE  Inspect(t) \in View /\ Views(t) \subseteq View
<1>1. Head(t) \in Heads /\ t.dirty \in BOOLEAN /\ t.detached \in BOOLEAN
  BY DEF Head, Heads, Tree
<1>2. (~t.detached /\ t.link = "live") \in BOOLEAN
  OBVIOUS
<1>3. Inspect(t) \in View
  BY <1>1, <1>2 DEF Inspect, View
<1> HIDE DEF Inspect
<1>4. \A view \in View : /\ [view EXCEPT !.dirty = TRUE] \in View
                         /\ [view EXCEPT !.detached = FALSE] \in View
                         /\ [view EXCEPT !.tracked = FALSE] \in View
  BY DEF View
<1> QED
  BY <1>3, <1>4 DEF Views

\* A comparison is a pair of counts.
LEMMA CountsType ==
  ASSUME TypeOK, TreeInv, NEW view
  PROVE  Compared(view) \subseteq Counts
<1>1. NoCounts \in Counts
  BY DEF NoCounts, Counts
<1>2. tree.head \in Nat /\ tree.ref \in Nat /\ tree.ref <= MaxCommits /\ MaxCommits \in Nat
  BY UpdateFlowAssumption DEF TypeOK, Tree, Commits
<1>3. tree.ref - tree.head \in Commits
  BY <1>2 DEF TreeInv, Commits
<1>4. CountsOf(tree) \in Counts
  BY <1>3 DEF CountsOf, Counts
<1> QED
  BY <1>1, <1>4 DEF Compared

\* The grid always has a verdict.
LEMMA DecideType ==
  ASSUME NEW s, NEW mode
  PROVE  Decide(s, mode) \in Verdict
<1>1. DecidePullFf(s) \in Verdict
  BY DEF DecidePullFf, NoFetchSource, Verdict, Action, SkipReason
<1> QED
  BY <1>1 DEF Decide, NoFetchSource, Verdict, Action, SkipReason

\* What is stored of a view is a row.
LEMMA RowType ==
  ASSUME NEW view \in View, NEW origin, NEW counts \in Counts
  PROVE  RowOf(view, origin, counts) \in Row
  BY DEF RowOf, Row, ClassifyUpstream, UpstreamState

\* No run is a run.
LEMMA NoRunType == NoRun \in Run /\ NoRun.pc = "idle" /\ NoView \in View
<1>1. 0 \in Commits
  BY UpdateFlowAssumption DEF Commits
<1>2. NoView \in View
  <2>1. <<0, FALSE>> \in Heads
    BY <1>1 DEF Heads
  <2> QED
    BY <2>1 DEF NoView, View
<1>3. NoCounts \in Counts
  BY DEF NoCounts, Counts
<1>4. <<>> \in Move
  BY DEF Move
<1>5. "idle" \in Stage /\ "check_only" \in UpdateMode /\ "none" \in Outcome
  BY DEF Stage, UpdateMode, V1Mode, Outcome
<1> QED
  BY <1>2, <1>3, <1>4, <1>5 DEF NoRun, Run

\* The two ends of a move are heads.
LEMMA MoveType ==
  ASSUME NEW from \in Heads, NEW to \in Heads
  PROVE  MoveOf(from, to) \in Move
  BY DEF MoveOf, Move

-----------------------------------------------------------------------------
(* What git does to the tree *)

\* A tree as it can be: its counts make sense against a remote.
Sane(t, commits) == t \in Tree /\ t.head <= t.ref /\ t.ref <= commits

\* The fetch and the fast-forward of a pull keep the counts sensible.
LEMMA PullingSane ==
  ASSUME remote \in Remote, NEW t, Sane(t, remote.commits)
  PROVE  /\ Sane(Pulling(t), remote.commits)
         /\ Sane(FastForward(Pulling(t)), remote.commits)
         /\ Sane([Pulling(t) EXCEPT !.dirty = TRUE], remote.commits)
<1>1. remote.commits \in Commits /\ remote.commits \in Int
  BY DEF Remote, Commits
<1>2. t \in Tree /\ t.head <= t.ref /\ t.ref <= remote.commits
  BY DEF Sane
<1>3. t.head \in Commits /\ t.ref \in Commits
  BY <1>2 DEF Tree
<1>4. Pulling(t) \in Tree /\ Pulling(t).ref = remote.commits /\ Pulling(t).head = t.head
  BY <1>1, <1>2 DEF Pulling, Tree
<1>5. t.head <= remote.commits
  BY <1>1, <1>2, <1>3 DEF Commits
<1>9. remote.commits <= remote.commits
  BY <1>1
<1>6. Sane(Pulling(t), remote.commits)
  BY <1>1, <1>4, <1>5, <1>9 DEF Sane
<1> DEFINE f == Pulling(t)
<1> HIDE DEF f
<1>7. f \in Tree /\ f.ref = remote.commits /\ f.head <= remote.commits
  BY <1>4, <1>5 DEF f
<1>8. Sane(FastForward(f), remote.commits) /\ Sane([f EXCEPT !.dirty = TRUE], remote.commits)
  <2>1. FastForward(f) \in Tree /\ FastForward(f).head = f.ref /\ FastForward(f).ref = f.ref
    BY <1>1, <1>7 DEF FastForward, Tree
  <2>2. /\ [f EXCEPT !.dirty = TRUE] \in Tree
        /\ [f EXCEPT !.dirty = TRUE].head = f.head
        /\ [f EXCEPT !.dirty = TRUE].ref = f.ref
    BY <1>7 DEF Tree
  <2> QED
    BY <2>1, <2>2, <1>7, <1>9 DEF Sane
<1> QED
  BY <1>6, <1>8 DEF f

\* A fetch leaves the branch where it is and takes the ref no further than the remote.
LEMMA FetchedSane ==
  ASSUME remote \in Remote, NEW t, Sane(t, remote.commits)
  PROVE  Sane(Fetched(t), remote.commits)
<1>1. CASE t.link = "none"
  BY <1>1 DEF Fetched
<1>2. CASE t.link # "none" /\ remote.exists
  <2>1. Fetched(t) = Pulling(t)
    BY <1>2 DEF Fetched, Pulling
  <2> QED
    BY <2>1, PullingSane
<1>3. CASE t.link # "none" /\ ~remote.exists
  <2>1. t \in Tree
    BY DEF Sane
  <2>2. Fetched(t) = [t EXCEPT !.link = "pruned"]
    BY <1>3 DEF Fetched
  <2>3. Fetched(t) \in Tree /\ Fetched(t).head = t.head /\ Fetched(t).ref = t.ref
    BY <2>1, <2>2 DEF Tree
  <2> QED
    BY <2>3 DEF Sane
<1>4. remote.exists \in BOOLEAN
  BY DEF Remote
<1> QED
  BY <1>1, <1>2, <1>3, <1>4

\* However a pull ends, it leaves a tree as it can be.
LEMMA PullEndsSane ==
  ASSUME remote \in Remote, NEW t, Sane(t, remote.commits), NEW end \in PullEnds(t)
  PROVE  /\ Sane(end.tree, remote.commits)
         /\ end.class \in {"updated", "noop"} \cup PullFailure
<1> DEFINE f == Pulling(t)
<1>1. /\ Sane(f, remote.commits)
      /\ Sane(FastForward(f), remote.commits)
      /\ Sane([f EXCEPT !.dirty = TRUE], remote.commits)
  BY PullingSane
<1> HIDE DEF f
<1>2. \/ /\ end.tree \in {t, f, FastForward(f), [f EXCEPT !.dirty = TRUE]}
         /\ end.class \in {"updated", "noop", "auth_failed", "offline", "command_failed",
                           "ff_not_possible"}
  BY DEF PullEnds, f
<1> QED
  BY <1>1, <1>2 DEF PullFailure

\* What the user does to a tree is something that can be done to it.
LEMMA UserSane ==
  ASSUME remote \in Remote, Sane(tree, remote.commits), tree' \in UserTree
  PROVE  Sane(tree', remote.commits)
<1>1. tree \in Tree /\ tree.head <= tree.ref /\ tree.ref <= remote.commits
  BY DEF Sane
<1>2. CASE tree' = FastForward(Pulling(tree))
  BY <1>2, PullingSane
<1>3. CASE tree' # FastForward(Pulling(tree))
  <2>1. tree' \in {[tree EXCEPT !.dirty = TRUE], [tree EXCEPT !.dirty = FALSE],
                   [tree EXCEPT !.dirty = FALSE, !.own = TRUE], [tree EXCEPT !.detached = ~@],
                   [tree EXCEPT !.link = "none"], [tree EXCEPT !.link = "none", !.origin = FALSE]}
    BY <1>3 DEF UserTree
  <2>2. tree' \in Tree /\ tree'.head = tree.head /\ tree'.ref = tree.ref
    BY <1>1, <2>1 DEF Tree
  <2> QED
    BY <1>1, <2>2 DEF Sane
<1> QED
  BY <1>2, <1>3

-----------------------------------------------------------------------------
(* The inductive invariant *)

\* The initial states satisfy it.
LEMMA InitInv == Init => IInv
<1> SUFFICES ASSUME Init PROVE IInv
  OBVIOUS
<1>1. tree \in Tree /\ TreeInv
  BY DEF Init, TreeInv
<1>2. remote \in Remote
  BY DEF Init, Remote
<1>3. run \in Run /\ run.pc # "pull"
  BY NoRunType DEF Init
<1>4. Inspect(tree) \in View
  BY <1>1, ViewsType
<1>5. NoCounts \in Counts
  BY DEF NoCounts, Counts
<1>6. row \in Row
  BY <1>4, <1>5, RowType DEF Init
<1>7. meddling \in 0..MaxMeddling
  BY UpdateFlowAssumption DEF Init
<1>8. preview \in [mode : UpdateMode, verdict : {"none"} \cup Verdict]
  BY DEF Init, NoPreview, UpdateMode, V1Mode
<1>9. current \in BOOLEAN
  BY DEF Init
<1> QED
  BY <1>1, <1>2, <1>3, <1>6, <1>7, <1>8, <1>9 DEF IInv, TypeOK, PullInv

\* A run begins from a view of the tree, and with what a check promised it.
LEMMA BeginInv ==
  ASSUME IInv, NEW kind \in {"check", "update"}, NEW mode \in Modes, Begin(kind, mode)
  PROVE  IInv'
<1> USE DEF IInv, TypeOK
<1> DEFINE promise == IF kind = "update" /\ preview.mode = mode THEN preview.verdict ELSE "none"
           blind(view, origin) == view # Inspect(tree) \/ origin # tree.origin
<1>1. PICK view \in Views(tree), origin \in {tree.origin, FALSE} :
        run' = [NoRun EXCEPT
                  !.pc = "inspected", !.kind = kind, !.mode = mode, !.origin = origin,
                  !.before = view, !.view = view, !.blind = blind(view, origin),
                  !.promise = promise]
  BY DEF Begin
<1>2. view \in View
  BY ViewsType
<1>3. origin \in BOOLEAN /\ mode \in UpdateMode
  BY UpdateFlowAssumption DEF Tree
<1>4. promise \in {"none"} \cup Verdict
  OBVIOUS
<1>5. blind(view, origin) \in BOOLEAN
  OBVIOUS
<1>6. "inspected" \in Stage
  BY DEF Stage
<1>7. run' \in Run /\ run'.pc # "pull"
  <2> DEFINE b == blind(view, origin)
             opened == [NoRun EXCEPT !.pc = "inspected", !.kind = kind, !.mode = mode,
                                     !.origin = origin]
  <2>1. run' = [opened EXCEPT !.before = view, !.view = view, !.blind = b, !.promise = promise]
    BY <1>1, NoRunType DEF Run
  <2> HIDE DEF promise, blind, b, IInv, TypeOK
  <2>2. opened \in Run /\ opened.pc = "inspected"
    BY <1>3, <1>6, NoRunType DEF Run
  <2>3. b \in BOOLEAN
    BY <1>5 DEF b
  <2> HIDE DEF opened
  <2> QED
    BY <2>1, <2>2, <2>3, <1>2, <1>4 DEF Run
<1>8. preview' \in [mode : UpdateMode, verdict : {"none"} \cup Verdict]
  BY DEF Begin, NoPreview, UpdateMode, V1Mode
<1> QED
  BY <1>7, <1>8 DEF Begin, PullInv, TreeInv

\* A fetch leaves a tree as it can be; it never leads to the pull.
LEMMA FetchInv ==
  ASSUME IInv, Fetch
  PROVE  IInv'
<1> USE DEF IInv, TypeOK
<1>1. Sane(tree, remote.commits)
  BY DEF Sane, TreeInv
<1>2. Sane(tree', remote'.commits)
  BY <1>1, FetchedSane DEF Fetch
<1>3. tree' \in Tree /\ TreeInv'
  BY <1>2 DEF Sane, TreeInv
<1>4. run' \in Run /\ run'.pc # "pull"
  <2>1. /\ {"viewed", "fetched", "acted"} \subseteq Stage
        /\ "failed" \in Outcome
        /\ {"updated", "noop"} \cup FetchFailure \subseteq FetchClass
    BY DEF Stage, Outcome, FetchClass
  <2>2. \/ run' = [run EXCEPT !.pc = "viewed"]
        \/ \E class \in FetchClass :
             \/ run' = [run EXCEPT !.pc = "fetched", !.fetch = class]
             \/ run' = [run EXCEPT !.pc = "viewed", !.fetch = class]
        \/ \E class \in FetchFailure : run' = Failing(class)
    BY <2>1 DEF Fetch
  <2> HIDE DEF IInv, TypeOK
  <2>3. run \in Run
    BY DEF IInv, TypeOK
  <2>4. CASE run' = [run EXCEPT !.pc = "viewed"]
    BY <2>1, <2>3, <2>4 DEF Run
  <2>5. ASSUME NEW class \in FetchClass,
               \/ run' = [run EXCEPT !.pc = "fetched", !.fetch = class]
               \/ run' = [run EXCEPT !.pc = "viewed", !.fetch = class]
        PROVE  run' \in Run /\ run'.pc # "pull"
    <3>1. CASE run' = [run EXCEPT !.pc = "fetched", !.fetch = class]
      BY <2>1, <2>3, <3>1 DEF Run
    <3>2. CASE run' = [run EXCEPT !.pc = "viewed", !.fetch = class]
      BY <2>1, <2>3, <3>2 DEF Run
    <3> QED
      BY <2>5, <3>1, <3>2
  <2>6. ASSUME NEW class \in FetchFailure, run' = Failing(class)
        PROVE  run' \in Run /\ run'.pc # "pull"
    BY <2>1, <2>3, <2>6 DEF Run, Failing
  <2> QED
    BY <2>2, <2>4, <2>5, <2>6
<1>5. current' \in BOOLEAN
  BY DEF Fetch
<1> QED
  BY <1>3, <1>4, <1>5 DEF Fetch, PullInv

\* What a look returns is a view; a clean one is of a clean tree.
LEMMA LooksType ==
  ASSUME TypeOK, NEW fallback \in SUBSET View
  PROVE  /\ Looks(fallback) \subseteq View
         /\ \A view \in Looks({}) : ~view.dirty => ~tree.dirty
<1>1. tree \in Tree /\ Inspect(tree) \in View /\ Views(tree) \subseteq View
  BY ViewsType DEF TypeOK
<1>2. Looks(fallback) \subseteq View
  BY <1>1 DEF Looks
<1>3. ASSUME NEW view \in Views(tree), ~view.dirty
      PROVE  ~tree.dirty
  BY <1>3, <1>1 DEF Views, Inspect, View
<1>4. \A view \in Looks({}) : view \in Views(tree)
  BY DEF Looks, Views
<1> QED
  BY <1>2, <1>3, <1>4

\* Another inspect brings another view, and no pull.
LEMMA ReinspectInv ==
  ASSUME IInv, Reinspect \/ Postinspect
  PROVE  IInv'
<1>1. run \in Run /\ run.before \in View /\ TypeOK
  BY DEF IInv, TypeOK, Run
<1>2. Looks({run.before}) \subseteq View
  BY <1>1, LooksType
<1>3. PICK view \in View, pc \in {"viewed", "posted"} :
        run' = [run EXCEPT !.pc = pc, !.view = view, !.blind = (@ \/ view # Inspect(tree))]
  BY <1>2 DEF Reinspect, Postinspect
<1> DEFINE blind == run.blind \/ view # Inspect(tree)
<1>4. pc \in Stage /\ blind \in BOOLEAN
  BY DEF Stage
<1>5. run' = [run EXCEPT !.pc = pc, !.view = view, !.blind = blind]
  BY <1>3
<1>6. run' \in Run /\ run'.pc # "pull"
  <2> HIDE DEF blind
  <2> QED
    BY <1>1, <1>4, <1>5 DEF Run
<1> QED
  BY <1>6 DEF Reinspect, Postinspect, IInv, TypeOK, TreeInv, PullInv

\* Acting on a verdict is at most the way to the guard.
LEMMA ActingType ==
  ASSUME run \in Run, NEW verdict \in {"none"} \cup Verdict
  PROVE  Acting(verdict) \in Run /\ Acting(verdict).pc # "pull"
<1> DEFINE decided == [run EXCEPT !.view = NoView, !.fetch = "none"]
<1>1. decided \in Run
  BY NoRunType DEF Run
<1>2. {"guard", "acted"} \subseteq Stage /\ {"skipped", "updated", "up_to_date"} \subseteq Outcome
  BY DEF Stage, Outcome
<1>3. \/ Acting(verdict) = [decided EXCEPT !.pc = "guard"]
      \/ /\ verdict \in SkipReason
         /\ Acting(verdict) = [decided EXCEPT !.pc = "acted", !.outcome = "skipped",
                                              !.reason = verdict]
      \/ Acting(verdict) = [decided EXCEPT !.pc = "acted", !.outcome = "updated"]
      \/ Acting(verdict) = [decided EXCEPT !.pc = "acted", !.outcome = "up_to_date"]
  <2>1. CASE verdict = "pull"
    BY <2>1 DEF Acting
  <2>2. CASE verdict # "pull" /\ verdict \in SkipReason
    BY <2>2 DEF Acting
  <2>3. CASE verdict # "pull" /\ verdict \notin SkipReason /\ verdict = "fetch" /\ run.fetch = "updated"
    BY <2>3 DEF Acting
  <2>4. CASE verdict # "pull" /\ verdict \notin SkipReason /\ ~(verdict = "fetch" /\ run.fetch = "updated")
    BY <2>4 DEF Acting
  <2> QED
    BY <2>1, <2>2, <2>3, <2>4
<1> HIDE DEF decided
<1>4. CASE Acting(verdict) = [decided EXCEPT !.pc = "guard"]
  BY <1>1, <1>2, <1>4 DEF Run
<1>5. CASE /\ verdict \in SkipReason
           /\ Acting(verdict) = [decided EXCEPT !.pc = "acted", !.outcome = "skipped",
                                                !.reason = verdict]
  <2>1. Acting(verdict).pc = "acted"
    BY <1>1, <1>5 DEF Run
  <2>2. Acting(verdict) \in Run
    BY <1>1, <1>2, <1>5 DEF Run
  <2> QED
    BY <2>1, <2>2
<1>6. CASE Acting(verdict) = [decided EXCEPT !.pc = "acted", !.outcome = "updated"]
  <2>1. Acting(verdict).pc = "acted"
    BY <1>1, <1>6 DEF Run
  <2>2. Acting(verdict) \in Run
    BY <1>1, <1>2, <1>6 DEF Run
  <2> QED
    BY <2>1, <2>2
<1>7. CASE Acting(verdict) = [decided EXCEPT !.pc = "acted", !.outcome = "up_to_date"]
  <2>1. Acting(verdict).pc = "acted"
    BY <1>1, <1>7 DEF Run
  <2>2. Acting(verdict) \in Run
    BY <1>1, <1>2, <1>7 DEF Run
  <2> QED
    BY <2>1, <2>2
<1> QED
  BY <1>3, <1>4, <1>5, <1>6, <1>7

\* A verdict by itself changes nothing but the run.
LEMMA DecideInv ==
  ASSUME IInv, DecideStep
  PROVE  IInv'
<1>1. run \in Run /\ TypeOK /\ TreeInv
  BY DEF IInv, TypeOK
<1> DEFINE verdictOf(counts) ==
             IF run.fetch \in FetchFailure THEN "none"
             ELSE Decide(GridStateOf(run.view, run.origin, counts), run.mode)
           next(counts) == IF run.kind = "check"
                           THEN [run EXCEPT !.pc = "decided", !.counts = counts]
                           ELSE Acting(verdictOf(counts))
<1>2. PICK counts \in Compared(run.view) :
        run' = [next(counts) EXCEPT !.verdict = verdictOf(counts),
                                    !.blind = (@ \/ Miscounted(run.view, counts))]
  BY DEF DecideStep
<1>3. counts \in Counts
  BY <1>1, CountsType
<1>4. verdictOf(counts) \in {"none"} \cup Verdict
  BY DecideType
<1>5. next(counts) \in Run /\ next(counts).pc # "pull"
  <2> HIDE DEF verdictOf
  <2>1. CASE run.kind = "check"
    BY <1>1, <1>3, <2>1 DEF Run, Stage
  <2>2. CASE run.kind # "check"
    BY <1>1, <1>4, <2>2, ActingType
  <2> QED
    BY <2>1, <2>2
<1> DEFINE blind == next(counts).blind \/ Miscounted(run.view, counts)
<1>6. blind \in BOOLEAN
  OBVIOUS
<1>7. run' \in Run /\ run'.pc # "pull"
  <2>1. run' = [next(counts) EXCEPT !.verdict = verdictOf(counts), !.blind = blind]
    BY <1>2, <1>5 DEF Run
  <2> HIDE DEF next, verdictOf, blind
  <2> QED
    BY <2>1, <1>4, <1>5, <1>6 DEF Run
<1> QED
  BY <1>1, <1>7 DEF DecideStep, TypeOK, IInv, TreeInv, PullInv

\* A check ends with a row of the view and the counts it holds.
LEMMA CommitInv ==
  ASSUME IInv, Commit
  PROVE  IInv'
<1>1. run \in Run /\ TypeOK /\ TreeInv
  BY DEF IInv, TypeOK
<1>2. run.view \in View /\ run.counts \in Counts /\ run.mode \in UpdateMode
      /\ run.verdict \in {"none"} \cup Verdict
  BY <1>1 DEF Run
<1>3. row' \in Row
  BY <1>2, RowType DEF Commit
<1>4. run' \in Run /\ run'.pc # "pull"
  BY NoRunType DEF Commit
<1>5. preview' \in [mode : UpdateMode, verdict : {"none"} \cup Verdict]
  BY <1>2 DEF Commit, NoPreview, UpdateMode, V1Mode
<1>6. current' \in BOOLEAN
  BY DEF Commit
<1> QED
  BY <1>1, <1>3, <1>4, <1>5, <1>6 DEF Commit, TypeOK, IInv, TreeInv, PullInv

\* The pull is reached from a clean tree only.
LEMMA GuardInv ==
  ASSUME IInv, Guard
  PROVE  IInv'
<1>1. run \in Run /\ TypeOK /\ TreeInv
  BY DEF IInv, TypeOK
<1> DEFINE next(view) == IF view.dirty THEN Skipping("dirty") ELSE [run EXCEPT !.pc = "pull"]
<1>2. PICK view \in Looks({}) :
        run' = [next(view) EXCEPT !.edited = FALSE,
                                  !.blind = (@ \/ view.dirty # tree.dirty)]
  BY DEF Guard
<1>3. view.dirty \in BOOLEAN /\ (~view.dirty => ~tree.dirty)
  BY <1>1, LooksType DEF View
<1>4. next(view) \in Run /\ (view.dirty => next(view).pc = "acted")
  <2>1. {"acted", "pull"} \subseteq Stage /\ "skipped" \in Outcome /\ "dirty" \in SkipReason
    BY DEF Stage, Outcome, SkipReason
  <2>2. CASE view.dirty
    <3>1. next(view) = [run EXCEPT !.pc = "acted", !.outcome = "skipped", !.reason = "dirty"]
      BY <2>2 DEF Skipping
    <3> HIDE DEF next
    <3>2. next(view).pc = "acted"
      BY <1>1, <3>1 DEF Run
    <3>3. next(view) \in Run
      BY <1>1, <2>1, <3>1 DEF Run
    <3> QED
      BY <3>2, <3>3
  <2>3. CASE ~view.dirty
    <3>1. next(view) = [run EXCEPT !.pc = "pull"]
      BY <2>3
    <3> HIDE DEF next
    <3>2. next(view) \in Run
      BY <1>1, <2>1, <3>1 DEF Run
    <3> QED
      BY <2>3, <3>2
  <2> QED
    BY <2>2, <2>3
<1> DEFINE blind == next(view).blind \/ view.dirty # tree.dirty
<1>5. blind \in BOOLEAN
  OBVIOUS
<1>6. run' = [next(view) EXCEPT !.edited = FALSE, !.blind = blind]
  BY <1>2, <1>4 DEF Run
<1>7. run' \in Run /\ run'.pc = next(view).pc
  <2> HIDE DEF next, blind
  <2> QED
    BY <1>4, <1>5, <1>6 DEF Run
<1>8. tree' = tree
  BY DEF Guard
<1>9. PullInv'
  <2> HIDE DEF next
  <2> QED
    BY <1>3, <1>4, <1>7, <1>8 DEF PullInv
<1> QED
  BY <1>1, <1>7, <1>9 DEF Guard, TypeOK, IInv, TreeInv

\* The pull itself leaves a tree as it can be, and the run past it.
LEMMA PullActInv ==
  ASSUME IInv, Pull
  PROVE  IInv'
<1>1. run \in Run /\ TypeOK /\ TreeInv /\ tree \in Tree
  BY DEF IInv, TypeOK
<1>2. Sane(tree, remote.commits)
  BY <1>1 DEF Sane, TreeInv
<1> DEFINE next(class) ==
             CASE class = "updated" -> [run EXCEPT !.pc = "pulled", !.outcome = "updated"]
               [] class = "noop" -> [run EXCEPT !.pc = "pulled", !.outcome = "up_to_date"]
               [] class \in PullFailure -> Failing(class)
           move == MoveOf(Head(tree), Head(tree'))
<1>3. PICK end \in PullEnds(tree) :
        /\ tree' = end.tree
        /\ run' = [next(end.class) EXCEPT !.moved = move]
  BY DEF Pull
<1>4. Sane(tree', remote.commits) /\ end.class \in {"updated", "noop"} \cup PullFailure
  BY <1>1, <1>2, <1>3, PullEndsSane DEF TypeOK
<1>5. tree' \in Tree /\ TreeInv'
  BY <1>4 DEF Sane, TreeInv, Pull
<1>6. Head(tree) \in Heads /\ Head(tree') \in Heads
  BY <1>1, <1>5 DEF Head, Heads, Tree
<1>7. move \in Move
  BY <1>6, MoveType
<1>8. next(end.class) \in Run /\ next(end.class).pc # "pull"
  <2>1. {"pulled", "acted"} \subseteq Stage /\ {"updated", "up_to_date", "failed"} \subseteq Outcome
    BY DEF Stage, Outcome
  <2>2. CASE end.class = "updated"
    <3>1. next(end.class) = [run EXCEPT !.pc = "pulled", !.outcome = "updated"]
      BY <2>2 DEF PullFailure
    <3> HIDE DEF next
    <3>2. next(end.class).pc = "pulled"
      BY <1>1, <3>1 DEF Run
    <3>3. next(end.class) \in Run
      BY <1>1, <2>1, <3>1 DEF Run
    <3> QED
      BY <3>2, <3>3
  <2>3. CASE end.class = "noop"
    <3>1. next(end.class) = [run EXCEPT !.pc = "pulled", !.outcome = "up_to_date"]
      BY <2>3 DEF PullFailure
    <3> HIDE DEF next
    <3>2. next(end.class).pc = "pulled"
      BY <1>1, <3>1 DEF Run
    <3>3. next(end.class) \in Run
      BY <1>1, <2>1, <3>1 DEF Run
    <3> QED
      BY <3>2, <3>3
  <2>4. CASE end.class \in PullFailure
    <3>1. next(end.class) = [run EXCEPT !.pc = "acted", !.outcome = "failed", !.reason = end.class]
      BY <2>4 DEF PullFailure, Failing
    <3> HIDE DEF next
    <3>2. next(end.class).pc = "acted"
      BY <1>1, <3>1 DEF Run
    <3>3. next(end.class) \in Run
      BY <1>1, <2>1, <2>4, <3>1 DEF Run
    <3> QED
      BY <3>2, <3>3
  <2> QED
    BY <1>4, <2>2, <2>3, <2>4
<1>9. run' \in Run /\ run'.pc # "pull"
  <2> HIDE DEF next, move
  <2> QED
    BY <1>3, <1>7, <1>8 DEF Run
<1>10. current' \in BOOLEAN
  BY DEF Pull
<1> QED
  BY <1>1, <1>5, <1>9, <1>10 DEF Pull, TypeOK, IInv, PullInv

\* The commit range is between two heads.
LEMMA CaptureInv ==
  ASSUME IInv, CaptureRange
  PROVE  IInv'
<1>1. run \in Run /\ TypeOK /\ TreeInv /\ tree \in Tree
  BY DEF IInv, TypeOK
<1>2. Head(tree) \in Heads
  BY <1>1 DEF Head, Heads, Tree
<1>3. run.before.head \in Heads
  BY <1>1 DEF Run, View
<1>4. {MoveOf(run.before.head, Head(tree)), <<>>} \subseteq Move
  BY <1>2, <1>3, MoveType DEF Move
<1>5. PICK range \in Move : run' = [run EXCEPT !.pc = "acted", !.commitRange = range]
  BY <1>4 DEF CaptureRange
<1>6. run' \in Run /\ run'.pc # "pull"
  BY <1>1, <1>5 DEF Run, Stage
<1> QED
  BY <1>1, <1>6 DEF CaptureRange, TypeOK, IInv, TreeInv, PullInv

\* The row written at the end of an update is one.
LEMMA WriteInv ==
  ASSUME IInv, Write
  PROVE  IInv'
<1>1. run \in Run /\ TypeOK /\ TreeInv
  BY DEF IInv, TypeOK
<1> DEFINE blind(counts) == run.blind \/ Miscounted(run.view, counts)
<1>2. PICK counts \in Compared(run.view) :
        /\ row' = RowOf(run.view, run.origin, counts)
        /\ run' = [run EXCEPT !.pc = "done", !.blind = blind(counts)]
  BY DEF Write
<1>3. counts \in Counts /\ run.view \in View
  BY <1>1, CountsType DEF Run
<1>4. row' \in Row
  BY <1>2, <1>3, RowType
<1>5. blind(counts) \in BOOLEAN
  OBVIOUS
<1>6. run' \in Run /\ run'.pc # "pull"
  <2> HIDE DEF blind
  <2> QED
    BY <1>1, <1>2, <1>5 DEF Run, Stage
<1>7. current' \in BOOLEAN
  BY DEF Write
<1> QED
  BY <1>1, <1>4, <1>6, <1>7 DEF Write, TypeOK, IInv, TreeInv, PullInv

\* A run that ends leaves no run.
LEMMA EndInv ==
  ASSUME IInv, Finish \/ Stop
  PROVE  IInv'
<1>1. run' \in Run /\ run'.pc # "pull"
  BY NoRunType DEF Finish, Stop
<1> QED
  BY <1>1 DEF Finish, Stop, TypeOK, IInv, TreeInv, PullInv

\* Whoever dirties the tree during a run has edited it.
LEMMA MeddleInv ==
  ASSUME IInv, User \/ Remotely
  PROVE  IInv'
<1>1. run \in Run /\ TypeOK /\ TreeInv /\ PullInv /\ tree \in Tree /\ remote \in Remote
  BY DEF IInv, TypeOK
<1>2. Meddle
  BY DEF User, Remotely
<1>3. Sane(tree, remote.commits)
  BY <1>1 DEF Sane, TreeInv
<1>4. remote' \in Remote /\ Sane(tree', remote'.commits)
  <2>1. CASE User
    BY <1>1, <1>3, <2>1, UserSane DEF User
  <2>2. CASE Remotely
    <3>1. remote.commits \in Commits /\ remote.exists \in BOOLEAN
      BY <1>1 DEF Remote
    <3>2. tree.ref \in Int /\ remote.commits \in Int /\ MaxCommits \in Nat
      BY <1>1, <3>1, UpdateFlowAssumption DEF Tree, Commits
    <3>3. CASE remote' = [remote EXCEPT !.exists = ~@]
      BY <1>1, <1>3, <2>2, <3>1, <3>3 DEF Remotely, Remote, Sane
    <3>4. CASE /\ remote.commits < MaxCommits
               /\ remote' = [remote EXCEPT !.commits = @ + 1]
      <4>1. remote.commits + 1 \in Commits
        BY <3>1, <3>2, <3>4 DEF Commits
      <4>2. remote' \in Remote /\ remote'.commits = remote.commits + 1
        BY <1>1, <3>4, <4>1 DEF Remote
      <4>3. tree.ref <= remote'.commits
        BY <1>3, <3>2, <4>2 DEF Sane
      <4> QED
        BY <1>3, <2>2, <4>2, <4>3 DEF Remotely, Sane
    <3> QED
      BY <2>2, <3>3, <3>4 DEF Remotely
  <2> QED
    BY <2>1, <2>2
<1>5. tree' \in Tree /\ TreeInv'
  BY <1>4 DEF Sane, TreeInv
<1>6. meddling' \in 0..MaxMeddling
  BY <1>1, <1>2, UpdateFlowAssumption DEF TypeOK, Meddle
<1>7. preview' \in [mode : UpdateMode, verdict : {"none"} \cup Verdict]
  BY <1>2 DEF Meddle, NoPreview, UpdateMode, V1Mode
<1>8. run' \in Run /\ PullInv'
  <2>1. CASE run.pc = "idle"
    BY <1>1, <1>2, <2>1 DEF Meddle, PullInv
  <2>2. CASE run.pc # "idle"
    <3> DEFINE edited == run.edited \/ tree' # tree
    <3>1. edited \in BOOLEAN
      OBVIOUS
    <3>2. run' = [run EXCEPT !.meddled = TRUE, !.edited = edited]
      BY <1>2, <2>2 DEF Meddle
    <3>3. run' \in Run /\ run'.pc = run.pc /\ run'.edited = edited
      <4> HIDE DEF edited
      <4> QED
        BY <1>1, <3>1, <3>2 DEF Run
    <3> QED
      BY <1>1, <3>3 DEF PullInv
  <2> QED
    BY <2>1, <2>2
<1> QED
  BY <1>1, <1>2, <1>4, <1>5, <1>6, <1>7, <1>8 DEF Meddle, TypeOK, IInv

\* Every step preserves it.
LEMMA NextInv == IInv /\ [Next]_vars => IInv'
<1> SUFFICES ASSUME IInv, [Next]_vars PROVE IInv'
  OBVIOUS
<1>1. ASSUME NEW kind \in {"check", "update"}, NEW mode \in Modes, Begin(kind, mode)
      PROVE  IInv'
  BY <1>1, BeginInv
<1>2. CASE Fetch
  BY <1>2, FetchInv
<1>3. CASE Reinspect \/ Postinspect
  BY <1>3, ReinspectInv
<1>4. CASE DecideStep
  BY <1>4, DecideInv
<1>5. CASE Commit
  BY <1>5, CommitInv
<1>6. CASE Guard
  BY <1>6, GuardInv
<1>7. CASE Pull
  BY <1>7, PullActInv
<1>8. CASE CaptureRange
  BY <1>8, CaptureInv
<1>9. CASE Write
  BY <1>9, WriteInv
<1>10. CASE Finish \/ Stop
  BY <1>10, EndInv
<1>11. CASE User \/ Remotely
  BY <1>11, MeddleInv
<1>12. CASE UNCHANGED vars
  BY <1>12 DEF vars, IInv, TypeOK, TreeInv, PullInv
<1> QED
  BY <1>1, <1>2, <1>3, <1>4, <1>5, <1>6, <1>7, <1>8, <1>9, <1>10, <1>11, <1>12 DEF Next

\* The inductive invariant: types, sensible counts, and a clean tree before the pull.
THEOREM Invariant == Spec => []IInv
<1> QED
  BY InitInv, NextInv, PTL DEF Spec

-----------------------------------------------------------------------------
(* The theorems *)

\* Type correctness: the counts of a row are never negative, however fetches, pulls and
\* the user interleave.
THEOREM TypeCorrect == Spec => []TypeOK
<1>1. IInv => TypeOK
  BY DEF IInv
<1> QED
  BY <1>1, Invariant, PTL

\* No run's pull moves HEAD under uncommitted work, unless that work began after the
\* look right before the pull.
THEOREM PullsClean == Spec => NeverPullsDirty
<1>1. IInv /\ [Next]_vars =>
        [run.pc = "pull" /\ Head(tree') # Head(tree) /\ run'.pc # "pull" /\ tree.dirty
           => run.edited]_vars
  BY DEF IInv, PullInv
<1> QED
  BY <1>1, Invariant, PTL DEF Spec, NeverPullsDirty

-----------------------------------------------------------------------------
(* What an undisturbed run knows *)

\* What the app shows of a tree, what a run decides over it, and whether a fetch
\* would change anything.
TrueCounts(t) == IF Inspect(t).tracked THEN CountsOf(t) ELSE NoCounts
Says(t, mode) == Decide(GridStateOf(Inspect(t), t.origin, TrueCounts(t)), mode)
Fresh == Fetched(tree) = tree
Settled(mode) == NeedsRemoteFetch(mode, Inspect(tree), tree.origin) => Fresh

\* A tree that a fast-forward takes to the remote's last commit.
Ready ==
    /\ ~tree.dirty /\ ~tree.detached /\ tree.link = "live" /\ ~tree.own
    /\ tree.head < tree.ref /\ tree.ref = remote.commits /\ remote.exists

\* A branch with an upstream has a remote.
LinkInv == tree.link # "none" => tree.origin

\* The row describes the tree while nothing has changed.
RowInv == current => row = RowOf(Inspect(tree), tree.origin, TrueCounts(tree))

\* Nothing is decided before the last look.
Undecided == run.pc \in {"inspected", "fetched", "viewed"} => run.verdict = "none"

\* What a run knows at each stage, when nobody disturbed it.
Looked ==
    /\ run.pc # "idle" => run.origin = tree.origin
    /\ run.pc = "inspected" => run.before = Inspect(tree) /\ run.view = Inspect(tree)
                               /\ run.fetch = "none"
    /\ run.pc = "fetched" => run.fetch \notin FetchFailure /\ Fresh
    /\ run.pc = "viewed" /\ run.fetch \notin FetchFailure =>
         run.view = Inspect(tree) /\ Settled(run.mode)
    /\ run.pc = "viewed" /\ run.kind = "update" => run.fetch \notin FetchFailure

Decided ==
    /\ run.pc = "decided" /\ run.fetch \notin FetchFailure =>
         /\ run.view = Inspect(tree) /\ run.counts = TrueCounts(tree)
         /\ run.verdict = Says(tree, run.mode) /\ Settled(run.mode)
    /\ run.pc \in {"guard", "pull"} => run.verdict = "pull" /\ Ready
    /\ run.pc = "pulled" => run.outcome = "updated" /\ tree.head = remote.commits

\* The answer of a run, in the words of OutcomeTrue and PreviewTrue.
Told ==
    \/ run.outcome \in {"updated", "up_to_date"} /\ tree.head = remote.commits
    \/ run.outcome = "failed"
    \/ /\ run.outcome = "skipped"
       /\ \/ run.reason = "dirty" /\ tree.dirty
          \/ run.reason = "detached" /\ tree.detached
          \/ run.reason = "no_upstream" /\ ~tree.origin
          \/ run.reason = "deleted_upstream" /\ tree.link # "live"
          \/ run.reason = "ff_not_possible" /\ tree.own /\ tree.head < remote.commits
Kept == run.outcome = "updated" \/ (run.outcome = "failed" /\ run.reason # "ff_not_possible")

Ended ==
    /\ run.pc \in {"acted", "posted", "done"} =>
         /\ run.mode = "pull_ff_only" => Told
         /\ run.verdict = "pull" => Kept
    /\ run.pc = "posted" => run.view = Inspect(tree)

\* What a check has said of the update that follows it.
Promised ==
    run.promise # "none" =>
        /\ run.pc \in {"inspected", "fetched", "viewed"} =>
             run.promise = Says(tree, run.mode) /\ Settled(run.mode)
        /\ run.verdict # "none" => run.verdict = run.promise

RunInv == Undisturbed => Looked /\ Decided /\ Ended /\ Promised

PreviewInv ==
    preview.verdict # "none" =>
        run.pc = "idle" /\ preview.verdict = Says(tree, preview.mode) /\ Settled(preview.mode)

TruthInv == LinkInv /\ RowInv /\ Undecided /\ RunInv /\ PreviewInv

\* The fetch is idempotent, keeps the origin, and leaves a branch without upstream so.
LEMMA FetchedFresh ==
  ASSUME TypeOK, remote' = remote, tree' = Fetched(tree)
  PROVE  Fresh' /\ tree'.origin = tree.origin /\ (LinkInv => LinkInv')
<1>1. tree \in Tree /\ remote.exists \in BOOLEAN /\ remote.commits \in Commits
  BY DEF TypeOK, Remote
<1>2. CASE tree.link = "none"
  BY <1>2 DEF Fetched, Fresh, LinkInv
<1>3. CASE tree.link # "none" /\ remote.exists
  <2>1. tree' = [tree EXCEPT !.link = "live", !.ref = remote.commits]
    BY <1>3 DEF Fetched
  <2>2. /\ tree' \in Tree
        /\ tree'.link = "live" /\ tree'.ref = remote.commits /\ tree'.origin = tree.origin
    BY <1>1, <2>1 DEF Tree
  <2>3. [tree' EXCEPT !.link = "live", !.ref = remote.commits] = tree'
    BY <2>2 DEF Tree
  <2> QED
    BY <1>3, <2>2, <2>3 DEF Fetched, Fresh, LinkInv
<1>4. CASE tree.link # "none" /\ ~remote.exists
  <2>1. tree' = [tree EXCEPT !.link = "pruned"]
    BY <1>4 DEF Fetched
  <2>2. tree' \in Tree /\ tree'.link = "pruned" /\ tree'.origin = tree.origin
    BY <1>1, <2>1 DEF Tree
  <2>3. [tree' EXCEPT !.link = "pruned"] = tree'
    BY <2>2 DEF Tree
  <2> QED
    BY <1>4, <2>2, <2>3 DEF Fetched, Fresh, LinkInv
<1> QED
  BY <1>1, <1>2, <1>3, <1>4

\* What a fetch would bring is there already: the upstream has the remote's commits.
LEMMA FreshLive ==
  ASSUME TypeOK, Fresh, tree.link = "live"
  PROVE  tree.ref = remote.commits /\ remote.exists
<1>1. tree \in Tree /\ remote.exists \in BOOLEAN
  BY DEF TypeOK, Remote
<1>2. CASE remote.exists
  <2>1. tree = [tree EXCEPT !.link = "live", !.ref = remote.commits]
    BY <1>2 DEF Fresh, Fetched
  <2>2. [tree EXCEPT !.link = "live", !.ref = remote.commits].ref = remote.commits
    BY <1>1 DEF Tree
  <2> QED
    BY <1>2, <2>1, <2>2
<1>3. CASE ~remote.exists
  <2>1. tree = [tree EXCEPT !.link = "pruned"]
    BY <1>3 DEF Fresh, Fetched
  <2>2. [tree EXCEPT !.link = "pruned"].link = "pruned"
    BY <1>1 DEF Tree
  <2> QED
    BY <2>1, <2>2
<1> QED
  BY <1>1, <1>2, <1>3

\* Nothing that a step leaves alone becomes stale by it.
LEMMA SameFresh ==
  ASSUME tree' = tree, remote' = remote
  PROVE  Fresh' <=> Fresh
  BY DEF Fresh, Fetched

\* A comparison that does not fail, of a tree as it was just seen, is true.
LEMMA CountsTrue ==
  ASSUME LinkInv, NEW view, view = Inspect(tree), NEW counts \in Compared(view),
         ~Miscounted(view, counts)
  PROVE  counts = TrueCounts(tree)
<1>1. view.tracked = (~tree.detached /\ tree.link = "live")
  BY DEF Inspect
<1>2. CASE view.tracked
  <2>1. Resolves(view)
    BY <1>1, <1>2 DEF Resolves, LinkInv
  <2> QED
    BY <1>2, <2>1 DEF Compared, Miscounted, TrueCounts
<1>3. CASE ~view.tracked
  <2>1. ~Resolves(view)
    BY <1>3 DEF Resolves
  <2> QED
    BY <1>3, <2>1 DEF Compared, TrueCounts
<1> QED
  BY <1>2, <1>3

\* What the grid says of a tree with the counts it has, for the one mode that pulls.
LEMMA SaysPullFf ==
  ASSUME TypeOK, TreeInv, Settled("pull_ff_only"), NEW v, v = Says(tree, "pull_ff_only")
  PROVE  /\ v = "pull" => Ready
         /\ v = "report" => tree.head = remote.commits
         /\ v \in {"pull", "report", "dirty", "detached", "no_upstream", "deleted_upstream",
                   "ff_not_possible"}
         /\ v = "dirty" => tree.dirty
         /\ v = "detached" => tree.detached
         /\ v = "no_upstream" => ~tree.origin
         /\ v = "deleted_upstream" => tree.link # "live"
         /\ v = "ff_not_possible" => tree.own /\ tree.head < remote.commits
<1>1. /\ tree.dirty \in BOOLEAN /\ tree.detached \in BOOLEAN /\ tree.origin \in BOOLEAN
      /\ tree.own \in BOOLEAN /\ tree.head \in Int /\ tree.ref \in Int /\ remote.commits \in Int
  BY UpdateFlowAssumption DEF TypeOK, Tree, Remote, Commits
<1> DEFINE up == IF ~tree.detached /\ tree.link = "live" THEN "tracking"
                 ELSE IF ~tree.detached /\ tree.origin THEN "deleted" ELSE "none"
           s == [dirty |-> tree.dirty, detached |-> tree.detached, upstream |-> up,
                 ahead |-> TrueCounts(tree).ahead, behind |-> TrueCounts(tree).behind]
<1>2. v = DecidePullFf(s)
  BY DEF Says, Decide, GridStateOf, ClassifyUpstream, Inspect
<1>3. CASE tree.dirty
  BY <1>2, <1>3 DEF DecidePullFf
<1>4. CASE ~tree.dirty /\ tree.detached
  BY <1>2, <1>4 DEF DecidePullFf
<1>5. CASE ~tree.dirty /\ ~tree.detached /\ tree.link # "live"
  <2>1. up = IF tree.origin THEN "deleted" ELSE "none"
    BY <1>5
  <2>2. v = NoFetchSource(up)
    BY <1>2, <1>5, <2>1 DEF DecidePullFf
  <2> QED
    BY <1>1, <1>5, <2>1, <2>2 DEF NoFetchSource
<1>6. CASE ~tree.dirty /\ ~tree.detached /\ tree.link = "live"
  <2>1. tree.ref = remote.commits /\ remote.exists
    <3>1. NeedsRemoteFetch("pull_ff_only", Inspect(tree), tree.origin)
      BY <1>6 DEF NeedsRemoteFetch, ClassifyUpstream, Inspect
    <3> QED
      BY <1>6, <3>1, FreshLive DEF Settled
  <2>2. TrueCounts(tree) = CountsOf(tree)
    BY <1>6 DEF TrueCounts, Inspect
  <2>3. up = "tracking"
    BY <1>6
  <2>4. s.ahead = (IF tree.own THEN 1 ELSE 0) /\ s.behind = tree.ref - tree.head
    BY <2>2 DEF CountsOf
  <2>5. /\ ~s.dirty /\ ~s.detached /\ s.upstream = "tracking"
    BY <1>6, <2>3
  <2> HIDE DEF s, up
  <2>6. v = CASE s.behind > 0 /\ s.ahead > 0  -> "ff_not_possible"
              [] s.behind > 0 /\ s.ahead <= 0 -> "pull"
              [] OTHER                        -> "report"
    BY <1>2, <2>5 DEF DecidePullFf
  <2>7. CASE tree.ref - tree.head > 0 /\ tree.own
    <3>1. v = "ff_not_possible"
      BY <2>4, <2>6, <2>7
    <3> QED
      BY <1>1, <2>1, <2>7, <3>1
  <2>8. CASE tree.ref - tree.head > 0 /\ ~tree.own
    <3>1. v = "pull"
      BY <2>4, <2>6, <2>8
    <3> QED
      BY <1>1, <1>6, <2>1, <2>8, <3>1 DEF Ready
  <2>9. CASE ~(tree.ref - tree.head > 0)
    <3>1. v = "report"
      BY <2>4, <2>6, <2>9
    <3>2. tree.head = tree.ref
      BY <1>1, <2>9 DEF TreeInv
    <3> QED
      BY <2>1, <3>1, <3>2
  <2> QED
    BY <2>7, <2>8, <2>9
<1> QED
  BY <1>1, <1>3, <1>4, <1>5, <1>6

\* Only that mode pulls.
LEMMA SaysPull ==
  ASSUME NEW t, NEW mode, Says(t, mode) = "pull"
  PROVE  mode = "pull_ff_only"
  BY DEF Says, Decide, NoFetchSource

-----------------------------------------------------------------------------
(* It stays true *)

\* No run knows anything.
LEMMA IdleTruth == run = NoRun => RunInv /\ Undecided
  BY DEF NoRun, RunInv, Undecided, Looked, Decided, Ended, Promised

\* The initial states: a row stored without a comparison is not said to be current.
LEMMA InitTruth == Init => TruthInv
<1> SUFFICES ASSUME Init PROVE TruthInv
  OBVIOUS
<1>1. RunInv /\ Undecided
  BY IdleTruth DEF Init
<1>2. LinkInv
  BY DEF Init, LinkInv
<1>3. RowInv /\ PreviewInv
  BY DEF Init, RowInv, PreviewInv, NoPreview
<1> QED
  BY <1>1, <1>2, <1>3 DEF TruthInv

\* A run begins knowing the tree; what a check said of it still holds.
LEMMA BeginTruth ==
  ASSUME IInv, TruthInv, NEW kind \in {"check", "update"}, NEW mode \in Modes, Begin(kind, mode)
  PROVE  TruthInv'
<1> DEFINE promise == IF kind = "update" /\ preview.mode = mode THEN preview.verdict ELSE "none"
           blind(view, origin) == view # Inspect(tree) \/ origin # tree.origin
<1>1. tree' = tree /\ remote' = remote /\ row' = row /\ current' = current /\ preview' = NoPreview
  BY DEF Begin
<1>2. PICK view \in Views(tree), origin \in {tree.origin, FALSE} :
        run' = [NoRun EXCEPT
                  !.pc = "inspected", !.kind = kind, !.mode = mode, !.origin = origin,
                  !.before = view, !.view = view, !.blind = blind(view, origin),
                  !.promise = promise]
  BY DEF Begin
<1>3. /\ run'.pc = "inspected" /\ run'.mode = mode /\ run'.origin = origin
      /\ run'.before = view /\ run'.view = view /\ run'.blind = blind(view, origin)
      /\ run'.promise = promise /\ run'.verdict = "none" /\ run'.fetch = "none"
  <2> HIDE DEF promise, blind
  <2> QED
    BY <1>2 DEF NoRun
<1>4. LinkInv' /\ RowInv' /\ PreviewInv'
  BY <1>1 DEF TruthInv, LinkInv, RowInv, PreviewInv, NoPreview
<1>5. Undecided'
  BY <1>3 DEF Undecided
<1>6. ASSUME Undisturbed' PROVE Looked' /\ Decided' /\ Ended'
  BY <1>1, <1>3, <1>6 DEF Undisturbed, Looked, Decided, Ended
<1>7. Promised'
  <2>1. CASE promise = "none"
    BY <1>3, <2>1 DEF Promised
  <2>2. CASE promise # "none"
    <3>1. promise = preview.verdict /\ preview.mode = mode
      BY <2>2
    <3>2. promise = Says(tree, mode) /\ Settled(mode)
      BY <2>2, <3>1 DEF TruthInv, PreviewInv
    <3>3. Fresh' <=> Fresh
      BY <1>1, SameFresh
    <3> HIDE DEF promise
    <3> QED
      BY <1>1, <1>3, <3>2, <3>3 DEF Promised, Settled
  <2> QED
    BY <2>1, <2>2
<1> QED
  BY <1>4, <1>5, <1>6, <1>7 DEF TruthInv, RunInv

\* The fetch settles what the remote can change, and touches nothing a check foresaw.
LEMMA FetchTruth ==
  ASSUME IInv, TruthInv, Fetch
  PROVE  TruthInv'
<1>1. /\ run \in Run /\ TypeOK /\ run.pc = "inspected" /\ run.verdict = "none"
      /\ remote' = remote /\ row' = row /\ preview' = preview
      /\ current' = (current /\ tree' = tree)
  BY DEF IInv, TypeOK, Fetch, TruthInv, Undecided
<1>2. preview'.verdict = "none"
  BY <1>1 DEF TruthInv, PreviewInv
<1>3. tree' = tree \/ tree' = Fetched(tree)
  BY DEF Fetch
<1>4. LinkInv' /\ tree'.origin = tree.origin
  <2>1. CASE tree' = tree
    BY <2>1 DEF TruthInv, LinkInv
  <2>2. CASE tree' = Fetched(tree)
    BY <1>1, <2>2, FetchedFresh DEF TruthInv
  <2> QED
    BY <1>3, <2>1, <2>2
<1>5. RowInv' /\ PreviewInv'
  BY <1>1, <1>2 DEF TruthInv, RowInv, PreviewInv
<1> DEFINE need == NeedsRemoteFetch(run.mode, run.before, run.origin)
<1>6. \/ ~need /\ tree' = tree /\ run' = [run EXCEPT !.pc = "viewed"]
      \/ /\ need /\ tree' = Fetched(tree)
         /\ \E class \in {"updated", "noop"} :
              run' = [run EXCEPT !.pc = "fetched", !.fetch = class]
      \/ /\ need
         /\ \E class \in FetchFailure :
              \/ /\ run.kind = "check"
                 /\ run' = [run EXCEPT !.pc = "viewed", !.fetch = class]
              \/ run' = Failing(class)
  BY DEF Fetch
<1>7. /\ run'.mode = run.mode /\ run'.verdict = "none" /\ run'.promise = run.promise
      /\ run'.blind = run.blind /\ run'.meddled = run.meddled /\ run'.origin = run.origin
      /\ run'.view = run.view /\ run'.kind = run.kind
      /\ \/ run'.pc = "viewed" /\ run'.fetch = run.fetch /\ ~need /\ tree' = tree
         \/ run'.pc = "fetched" /\ run'.fetch \in {"updated", "noop"} /\ need /\ tree' = Fetched(tree)
         \/ run'.pc = "viewed" /\ run'.fetch \in FetchFailure /\ need /\ run.kind = "check"
         \/ run'.pc = "acted" /\ run'.outcome = "failed" /\ need
  <2> HIDE DEF need
  <2>1. CASE ~need /\ tree' = tree /\ run' = [run EXCEPT !.pc = "viewed"]
    BY <1>1, <2>1 DEF Run
  <2>2. ASSUME NEW class \in {"updated", "noop"}, need, tree' = Fetched(tree),
               run' = [run EXCEPT !.pc = "fetched", !.fetch = class]
        PROVE  <1>7!:
    BY <1>1, <2>2 DEF Run
  <2>3. ASSUME NEW class \in FetchFailure, need, run.kind = "check",
               run' = [run EXCEPT !.pc = "viewed", !.fetch = class]
        PROVE  <1>7!:
    BY <1>1, <2>3 DEF Run
  <2>4. ASSUME NEW class \in FetchFailure, need, run' = Failing(class)
        PROVE  <1>7!:
    BY <1>1, <2>4 DEF Run, Failing
  <2> QED
    BY <1>6, <2>1, <2>2, <2>3, <2>4
<1>8. Undecided'
  BY <1>7 DEF Undecided
<1>9. ASSUME Undisturbed' PROVE Looked' /\ Decided' /\ Ended' /\ Promised'
  <2>1. Undisturbed
    BY <1>7, <1>9 DEF Undisturbed
  <2>2. Looked /\ Promised
    BY <2>1 DEF TruthInv, RunInv
  <2>3. /\ run.origin = tree.origin /\ run.before = Inspect(tree) /\ run.view = Inspect(tree)
        /\ run.fetch = "none"
    BY <1>1, <2>2 DEF Looked
  <2>4. need = NeedsRemoteFetch(run.mode, Inspect(tree), tree.origin)
    BY <2>3
  <2>5. tree' = Fetched(tree) => Fresh'
    BY <1>1, FetchedFresh
  <2>6. tree' = tree => (Fresh' <=> Fresh)
    BY <1>1, SameFresh
  <2>7. Looked'
    <3>1. run'.pc = "fetched" => run'.fetch \notin FetchFailure /\ Fresh'
      BY <1>7, <2>5 DEF FetchFailure
    <3>2. run'.pc = "viewed" /\ run'.fetch \notin FetchFailure => tree' = tree /\ ~need
      BY <1>7
    <3>3. run'.pc = "viewed" /\ run'.kind = "update" => run'.fetch \notin FetchFailure
      BY <1>7, <2>3 DEF FetchFailure
    <3> HIDE DEF need
    <3> QED
      BY <1>4, <1>7, <2>3, <2>4, <3>1, <3>2, <3>3 DEF Looked, Settled
  <2>8. Decided'
    BY <1>7 DEF Decided
  <2>9. Ended'
    <3>1. run'.pc = "acted" => Told'
      BY <1>7 DEF Told
    <3> QED
      BY <1>7, <3>1 DEF Ended
  <2>10. Promised'
    <3>1. CASE run.promise = "none"
      BY <1>7, <3>1 DEF Promised
    <3>2. CASE run.promise # "none"
      <4>1. run.promise = Says(tree, run.mode) /\ Settled(run.mode)
        BY <1>1, <2>2, <3>2 DEF Promised
      <4>2. need => Fresh
        BY <2>4, <4>1 DEF Settled
      <4>3. tree' = tree
        BY <1>3, <1>7, <4>2 DEF Fresh
      <4> HIDE DEF need
      <4> QED
        BY <1>7, <2>6, <4>1, <4>3 DEF Promised, Settled
    <3> QED
      BY <3>1, <3>2
  <2> QED
    BY <2>7, <2>8, <2>9, <2>10
<1> QED
  BY <1>4, <1>5, <1>8, <1>9 DEF TruthInv, RunInv

\* A step within a run that changes neither the tree, the remote nor the row.
LEMMA QuietTruth ==
  ASSUME TruthInv, run.pc # "idle", UNCHANGED <<tree, remote, row, preview, current>>
  PROVE  LinkInv' /\ RowInv' /\ PreviewInv' /\ (Fresh' <=> Fresh)
<1>1. preview.verdict = "none"
  BY DEF TruthInv, PreviewInv
<1> QED
  BY <1>1, SameFresh DEF TruthInv, LinkInv, RowInv, PreviewInv

\* After the fetch, the tree is looked at again.
LEMMA ReinspectTruth ==
  ASSUME IInv, TruthInv, Reinspect
  PROVE  TruthInv'
<1>1. run \in Run /\ run.pc = "fetched" /\ run.verdict = "none"
  BY DEF IInv, TypeOK, Reinspect, TruthInv, Undecided
<1>2. tree' = tree /\ remote' = remote
  BY DEF Reinspect
<1>3. LinkInv' /\ RowInv' /\ PreviewInv' /\ (Fresh' <=> Fresh)
  BY <1>1, QuietTruth DEF Reinspect
<1>4. PICK view \in Looks({run.before}) :
        run' = [run EXCEPT !.pc = "viewed", !.view = view,
                           !.blind = (@ \/ view # Inspect(tree))]
  BY DEF Reinspect
<1>5. /\ run'.pc = "viewed" /\ run'.view = view /\ run'.verdict = "none"
      /\ run'.blind = (run.blind \/ view # Inspect(tree)) /\ run'.meddled = run.meddled
      /\ run'.mode = run.mode /\ run'.origin = run.origin /\ run'.fetch = run.fetch
      /\ run'.promise = run.promise
  BY <1>1, <1>4 DEF Run
<1>6. Undecided'
  BY <1>5 DEF Undecided
<1>7. ASSUME Undisturbed' PROVE Looked' /\ Decided' /\ Ended' /\ Promised'
  <2>1. Undisturbed /\ view = Inspect(tree)
    BY <1>5, <1>7 DEF Undisturbed
  <2>2. Looked /\ Promised
    BY <2>1 DEF TruthInv, RunInv
  <2>3. Looked'
    BY <1>1, <1>2, <1>3, <1>5, <2>1, <2>2 DEF Looked, Settled
  <2>4. Decided' /\ Ended'
    BY <1>5 DEF Decided, Ended
  <2>5. Promised'
    BY <1>1, <1>2, <1>3, <1>5, <2>2 DEF Promised, Settled
  <2> QED
    BY <2>3, <2>4, <2>5
<1> QED
  BY <1>3, <1>6, <1>7 DEF TruthInv, RunInv

\* What acting on a verdict leaves in the run.
LEMMA ActingIs ==
  ASSUME run \in Run, NEW verdict, NEW next, next = Acting(verdict)
  PROVE  /\ next.mode = run.mode /\ next.promise = run.promise /\ next.origin = run.origin
         /\ next.blind = run.blind /\ next.meddled = run.meddled
         /\ \/ verdict = "pull" /\ next.pc = "guard"
            \/ /\ verdict \in SkipReason /\ verdict # "pull" /\ next.pc = "acted"
               /\ next.outcome = "skipped" /\ next.reason = verdict
            \/ /\ verdict \notin SkipReason /\ verdict # "pull" /\ next.pc = "acted"
               /\ next.outcome \in {"updated", "up_to_date"}
<1> DEFINE goal ==
         /\ next.mode = run.mode /\ next.promise = run.promise /\ next.origin = run.origin
         /\ next.blind = run.blind /\ next.meddled = run.meddled
         /\ \/ verdict = "pull" /\ next.pc = "guard"
            \/ /\ verdict \in SkipReason /\ verdict # "pull" /\ next.pc = "acted"
               /\ next.outcome = "skipped" /\ next.reason = verdict
            \/ /\ verdict \notin SkipReason /\ verdict # "pull" /\ next.pc = "acted"
               /\ next.outcome \in {"updated", "up_to_date"}
<1>1. CASE verdict = "pull"
  <2>1. next = [[run EXCEPT !.view = NoView, !.fetch = "none"] EXCEPT !.pc = "guard"]
    BY <1>1 DEF Acting, SkipReason
  <2>2. goal
    BY <1>1, <2>1 DEF Run
  <2> QED
    BY <2>2
<1>2. CASE verdict # "pull" /\ verdict \in SkipReason
  <2>1. next = [[run EXCEPT !.view = NoView, !.fetch = "none"]
                  EXCEPT !.pc = "acted", !.outcome = "skipped", !.reason = verdict]
    BY <1>2 DEF Acting, SkipReason
  <2>2. goal
    BY <1>2, <2>1 DEF Run
  <2> QED
    BY <2>2
<1>3. CASE verdict # "pull" /\ verdict \notin SkipReason
  <2>1. \E outcome \in {"updated", "up_to_date"} :
          next = [[run EXCEPT !.view = NoView, !.fetch = "none"]
                    EXCEPT !.pc = "acted", !.outcome = outcome]
    <3>1. CASE verdict = "fetch" /\ run.fetch = "updated"
      BY <1>3, <3>1 DEF Acting
    <3>2. CASE ~(verdict = "fetch" /\ run.fetch = "updated")
      BY <1>3, <3>2 DEF Acting
    <3> QED
      BY <3>1, <3>2
  <2>2. goal
    BY <1>3, <2>1 DEF Run
  <2> QED
    BY <2>2
<1> QED
  BY <1>1, <1>2, <1>3

\* The verdict is the grid's over the tree as it is; what follows from it is so.
LEMMA DecideTruth ==
  ASSUME IInv, TruthInv, DecideStep
  PROVE  TruthInv'
<1>1. run \in Run /\ TypeOK /\ TreeInv /\ run.pc = "viewed"
  BY DEF IInv, TypeOK, DecideStep
<1>2. tree' = tree /\ remote' = remote
  BY DEF DecideStep
<1>3. LinkInv' /\ RowInv' /\ PreviewInv' /\ (Fresh' <=> Fresh)
  BY <1>1, QuietTruth DEF DecideStep
<1> DEFINE verdictOf(counts) ==
             IF run.fetch \in FetchFailure THEN "none"
             ELSE Decide(GridStateOf(run.view, run.origin, counts), run.mode)
           next(counts) == IF run.kind = "check"
                           THEN [run EXCEPT !.pc = "decided", !.counts = counts]
                           ELSE Acting(verdictOf(counts))
<1>4. PICK counts \in Compared(run.view) :
        run' = [next(counts) EXCEPT !.verdict = verdictOf(counts),
                                    !.blind = (@ \/ Miscounted(run.view, counts))]
  BY DEF DecideStep
<1> DEFINE verdict == verdictOf(counts)
           chosen == next(counts)
           blind == chosen.blind \/ Miscounted(run.view, counts)
<1>5. chosen \in Run
  <2>1. counts \in Counts /\ verdict \in {"none"} \cup Verdict
    BY <1>1, CountsType, DecideType
  <2> HIDE DEF verdict, verdictOf
  <2>2. CASE run.kind = "check"
    BY <1>1, <2>1, <2>2 DEF Run, Stage
  <2>3. CASE run.kind # "check"
    BY <1>1, <2>1, <2>3, ActingType DEF verdict
  <2> QED
    BY <2>2, <2>3
<1>6. /\ run'.verdict = verdict /\ run'.blind = blind
      /\ run'.pc = chosen.pc /\ run'.mode = chosen.mode /\ run'.promise = chosen.promise
      /\ run'.origin = chosen.origin /\ run'.meddled = chosen.meddled
      /\ run'.fetch = chosen.fetch /\ run'.view = chosen.view /\ run'.counts = chosen.counts
      /\ run'.outcome = chosen.outcome /\ run'.reason = chosen.reason
  <2>1. run' = [chosen EXCEPT !.verdict = verdict, !.blind = blind]
    BY <1>4, <1>5 DEF Run
  <2> HIDE DEF chosen, verdict, blind
  <2> QED
    BY <1>5, <2>1 DEF Run
<1>7. /\ chosen.mode = run.mode /\ chosen.promise = run.promise /\ chosen.origin = run.origin
      /\ chosen.blind = run.blind /\ chosen.meddled = run.meddled
      /\ \/ /\ run.kind = "check" /\ chosen.pc = "decided"
            /\ chosen.fetch = run.fetch /\ chosen.view = run.view /\ chosen.counts = counts
         \/ run.kind # "check" /\ verdict = "pull" /\ chosen.pc = "guard"
         \/ /\ run.kind # "check" /\ verdict \in SkipReason /\ verdict # "pull"
            /\ chosen.pc = "acted" /\ chosen.outcome = "skipped" /\ chosen.reason = verdict
         \/ /\ run.kind # "check" /\ verdict \notin SkipReason /\ verdict # "pull"
            /\ chosen.pc = "acted" /\ chosen.outcome \in {"updated", "up_to_date"}
  <2>1. CASE run.kind = "check"
    <3>1. chosen = [run EXCEPT !.pc = "decided", !.counts = counts]
      BY <2>1
    <3> HIDE DEF chosen
    <3> QED
      BY <1>1, <2>1, <3>1 DEF Run
  <2>2. CASE run.kind # "check"
    <3>1. chosen = Acting(verdict)
      BY <2>2
    <3> HIDE DEF chosen, verdict
    <3> QED
      BY <1>1, <2>2, <3>1, ActingIs
  <2> QED
    BY <2>1, <2>2
<1>8. ASSUME Undisturbed, ~Miscounted(run.view, counts), run.fetch \notin FetchFailure
      PROVE  /\ run.view = Inspect(tree) /\ run.origin = tree.origin /\ Settled(run.mode)
             /\ counts = TrueCounts(tree) /\ verdict = Says(tree, run.mode)
  <2>1. run.view = Inspect(tree) /\ run.origin = tree.origin /\ Settled(run.mode)
    BY <1>1, <1>8 DEF TruthInv, RunInv, Looked
  <2>2. counts = TrueCounts(tree)
    BY <1>8, <2>1, CountsTrue DEF TruthInv
  <2>3. verdict = Decide(GridStateOf(run.view, run.origin, counts), run.mode)
    BY <1>8
  <2> HIDE DEF verdict
  <2>4. verdict = Says(tree, run.mode)
    BY <2>1, <2>2, <2>3 DEF Says
  <2> QED
    BY <2>1, <2>2, <2>4
<1>9. run.fetch \in FetchFailure => verdict = "none"
  OBVIOUS
<1> HIDE DEF chosen, verdict
<1>10. Undecided'
  BY <1>6, <1>7 DEF Undecided
<1>11. ASSUME Undisturbed' PROVE Looked' /\ Decided' /\ Ended' /\ Promised'
  <2>1. Undisturbed /\ ~Miscounted(run.view, counts)
    BY <1>6, <1>7, <1>11 DEF Undisturbed
  <2>2. Looked /\ Promised
    BY <2>1 DEF TruthInv, RunInv
  <2>3. Looked'
    BY <1>1, <1>2, <1>6, <1>7, <2>2 DEF Looked
  <2>4. run.kind # "check" => run.fetch \notin FetchFailure
    BY <1>1, <2>2 DEF Looked, Run
  <2>5. ASSUME run.fetch \notin FetchFailure
        PROVE  /\ verdict = "pull" => run.mode = "pull_ff_only" /\ Ready
               /\ run.mode = "pull_ff_only" =>
                    /\ verdict \in SkipReason =>
                         \/ verdict = "dirty" /\ tree.dirty
                         \/ verdict = "detached" /\ tree.detached
                         \/ verdict = "no_upstream" /\ ~tree.origin
                         \/ verdict = "deleted_upstream" /\ tree.link # "live"
                         \/ verdict = "ff_not_possible" /\ tree.own /\ tree.head < remote.commits
                    /\ verdict \notin SkipReason => verdict = "pull" \/ tree.head = remote.commits
    <3>1. verdict = Says(tree, run.mode) /\ Settled(run.mode)
      BY <1>8, <2>1, <2>5
    <3>2. verdict = "pull" => run.mode = "pull_ff_only"
      BY <3>1, SaysPull
    <3>3. CASE run.mode # "pull_ff_only"
      BY <3>2, <3>3
    <3>4. CASE run.mode = "pull_ff_only"
      <4>1. Settled("pull_ff_only") /\ verdict = Says(tree, "pull_ff_only")
        BY <3>1, <3>4
      <4>2. /\ verdict = "pull" => Ready
            /\ verdict = "report" => tree.head = remote.commits
            /\ verdict \in {"pull", "report", "dirty", "detached", "no_upstream",
                            "deleted_upstream", "ff_not_possible"}
            /\ verdict = "dirty" => tree.dirty
            /\ verdict = "detached" => tree.detached
            /\ verdict = "no_upstream" => ~tree.origin
            /\ verdict = "deleted_upstream" => tree.link # "live"
            /\ verdict = "ff_not_possible" => tree.own /\ tree.head < remote.commits
        BY <1>1, <4>1, SaysPullFf
      <4>3. "pull" \notin SkipReason /\ "report" \notin SkipReason
            /\ {"dirty", "detached", "no_upstream", "deleted_upstream", "ff_not_possible"}
                  \subseteq SkipReason
        BY DEF SkipReason
      <4> QED
        BY <3>4, <4>2, <4>3
    <3> QED
      BY <3>3, <3>4
  <2>6. Decided'
    <3>1. run'.pc = "decided" /\ run'.fetch \notin FetchFailure =>
            /\ run'.view = Inspect(tree) /\ run'.counts = TrueCounts(tree)
            /\ run'.verdict = Says(tree, run'.mode) /\ Settled(run'.mode)
      BY <1>6, <1>7, <1>8, <2>1
    <3>2. run'.pc \in {"guard", "pull"} => run'.verdict = "pull" /\ Ready
      BY <1>6, <1>7, <2>4, <2>5
    <3>3. run'.pc # "pulled"
      BY <1>6, <1>7
    <3> QED
      BY <1>2, <1>3, <3>1, <3>2, <3>3 DEF Decided, Settled, Ready
  <2>7. Ended'
    <3>1. run'.pc \in {"acted", "posted", "done"} =>
            run'.pc = "acted" /\ run'.verdict # "pull" /\ run.fetch \notin FetchFailure
      BY <1>6, <1>7, <2>4
    <3>2. run'.pc = "acted" /\ run'.mode = "pull_ff_only" => Told'
      <4>1. SUFFICES ASSUME run'.pc = "acted", run'.mode = "pull_ff_only" PROVE Told'
        OBVIOUS
      <4>2. CASE verdict \in SkipReason
        BY <1>2, <1>6, <1>7, <2>5, <3>1, <4>1, <4>2 DEF Told
      <4>3. CASE verdict \notin SkipReason
        BY <1>2, <1>6, <1>7, <2>5, <3>1, <4>1, <4>3 DEF Told
      <4> QED
        BY <4>2, <4>3
    <3> QED
      BY <3>1, <3>2 DEF Ended
  <2>8. Promised'
    <3>1. run'.pc \notin {"inspected", "fetched", "viewed"} /\ run'.promise = run.promise
          /\ run'.verdict = verdict
      BY <1>6, <1>7
    <3>2. run.promise # "none" => run.promise = Says(tree, run.mode)
      BY <1>1, <2>2 DEF Promised
    <3> QED
      BY <1>8, <1>9, <2>1, <3>1, <3>2 DEF Promised
  <2> QED
    BY <2>3, <2>6, <2>7, <2>8
<1> QED
  BY <1>3, <1>10, <1>11 DEF TruthInv, RunInv

\* A sound check leaves a row of what it saw, and says what an update will do.
LEMMA CommitTruth ==
  ASSUME IInv, TruthInv, Commit
  PROVE  TruthInv'
<1>1. run.pc = "decided" /\ tree' = tree /\ remote' = remote
  BY DEF Commit
<1>2. LinkInv' /\ (Fresh' <=> Fresh)
  BY <1>1, SameFresh DEF TruthInv, LinkInv
<1>3. RunInv' /\ Undecided' /\ run'.pc = "idle"
  BY DEF Commit, NoRun, RunInv, Undecided, Looked, Decided, Ended, Promised
<1>4. CASE ~run.blind /\ ~run.meddled /\ run.fetch \notin FetchFailure
  <2>1. /\ run.view = Inspect(tree) /\ run.counts = TrueCounts(tree) /\ run.origin = tree.origin
        /\ run.verdict = Says(tree, run.mode) /\ Settled(run.mode)
    BY <1>1, <1>4 DEF TruthInv, RunInv, Undisturbed, Looked, Decided
  <2>2. /\ row' = RowOf(run.view, run.origin, run.counts)
        /\ preview' = [mode |-> run.mode, verdict |-> run.verdict]
    BY <1>4 DEF Commit
  <2>3. RowInv'
    BY <1>1, <2>1, <2>2 DEF RowInv
  <2>4. preview'.mode = run.mode /\ preview'.verdict = run.verdict
    BY <2>2
  <2>5. PreviewInv'
    BY <1>1, <1>2, <1>3, <2>1, <2>4 DEF PreviewInv, Settled
  <2> QED
    BY <1>2, <1>3, <2>3, <2>5 DEF TruthInv
<1>5. CASE ~(~run.blind /\ ~run.meddled /\ run.fetch \notin FetchFailure)
  <2>1. current' = FALSE /\ preview' = NoPreview
    BY <1>5 DEF Commit
  <2> QED
    BY <1>2, <1>3, <2>1 DEF TruthInv, RowInv, PreviewInv, NoPreview
<1> QED
  BY <1>4, <1>5

\* The tree that was to be pulled is still ready for it, unless somebody disturbed it.
LEMMA GuardTruth ==
  ASSUME IInv, TruthInv, Guard
  PROVE  TruthInv'
<1>1. run \in Run /\ run.pc = "guard" /\ tree' = tree /\ remote' = remote
  BY DEF IInv, TypeOK, Guard
<1>2. LinkInv' /\ RowInv' /\ PreviewInv' /\ (Fresh' <=> Fresh)
  BY <1>1, QuietTruth DEF Guard
<1> DEFINE next(view) == IF view.dirty THEN Skipping("dirty") ELSE [run EXCEPT !.pc = "pull"]
<1>3. PICK view \in Looks({}) :
        run' = [next(view) EXCEPT !.edited = FALSE,
                                  !.blind = (@ \/ view.dirty # tree.dirty)]
  BY DEF Guard
<1> DEFINE chosen == next(view)
           blind == chosen.blind \/ view.dirty # tree.dirty
<1>4. /\ chosen \in Run /\ chosen.blind = run.blind /\ chosen.meddled = run.meddled
      /\ chosen.origin = run.origin /\ chosen.verdict = run.verdict
      /\ chosen.promise = run.promise /\ chosen.mode = run.mode
      /\ chosen.pc \in {"acted", "pull"} /\ (~view.dirty => chosen.pc = "pull")
  <2>1. CASE view.dirty
    <3>1. chosen = [run EXCEPT !.pc = "acted", !.outcome = "skipped", !.reason = "dirty"]
      BY <2>1 DEF Skipping
    <3> HIDE DEF chosen
    <3> QED
      BY <1>1, <2>1, <3>1 DEF Run, Stage, Outcome, SkipReason
  <2>2. CASE ~view.dirty
    <3>1. chosen = [run EXCEPT !.pc = "pull"]
      BY <2>2
    <3> HIDE DEF chosen
    <3> QED
      BY <1>1, <2>2, <3>1 DEF Run, Stage
  <2> QED
    BY <2>1, <2>2
<1>5. /\ run'.pc = chosen.pc /\ run'.blind = blind /\ run'.meddled = chosen.meddled
      /\ run'.origin = chosen.origin /\ run'.verdict = chosen.verdict
      /\ run'.promise = chosen.promise /\ run'.mode = chosen.mode
  <2>1. run' = [chosen EXCEPT !.edited = FALSE, !.blind = blind]
    BY <1>3, <1>4 DEF Run
  <2> HIDE DEF chosen, blind
  <2> QED
    BY <1>4, <2>1 DEF Run
<1>6. blind = (run.blind \/ view.dirty # tree.dirty)
  BY <1>4
<1> HIDE DEF chosen, blind
<1>7. Undecided'
  BY <1>4, <1>5 DEF Undecided
<1>8. ASSUME Undisturbed' PROVE Looked' /\ Decided' /\ Ended' /\ Promised'
  <2>1. Undisturbed /\ view.dirty = tree.dirty
    BY <1>4, <1>5, <1>6, <1>8 DEF Undisturbed
  <2>2. Looked /\ Decided /\ Promised
    BY <2>1 DEF TruthInv, RunInv
  <2>3. run.verdict = "pull" /\ Ready
    BY <1>1, <2>2 DEF Decided
  <2>4. run'.pc = "pull"
    BY <1>4, <1>5, <2>1, <2>3 DEF Ready
  <2>5. Looked'
    BY <1>1, <1>4, <1>5, <2>2, <2>4 DEF Looked
  <2>6. Decided'
    BY <1>1, <1>4, <1>5, <2>3, <2>4 DEF Decided, Ready
  <2>7. Ended'
    BY <2>4 DEF Ended
  <2>8. Promised'
    BY <1>1, <1>4, <1>5, <2>2, <2>4 DEF Promised
  <2> QED
    BY <2>5, <2>6, <2>7, <2>8
<1> QED
  BY <1>2, <1>7, <1>8 DEF TruthInv, RunInv

\* A tree that is ready is fast-forwarded, or the pull fails for a reason of its own.
LEMMA ReadyEnds ==
  ASSUME TypeOK, Ready, NEW end \in PullEnds(tree)
  PROVE  \/ end.class = "updated" /\ end.tree.head = remote.commits
         \/ end.class \in {"auth_failed", "offline", "command_failed"}
<1> DEFINE f == Pulling(tree)
<1>1. tree \in Tree /\ remote.commits \in Commits
  BY DEF TypeOK, Remote
<1>2. f \in Tree /\ f.head = tree.head /\ f.ref = remote.commits /\ f.own = tree.own
  BY <1>1 DEF Pulling, Tree
<1>3. f.head # f.ref /\ ~f.own
  <2>1. tree.head # remote.commits
    BY <1>1 DEF Ready, Tree, Commits
  <2> QED
    BY <1>2, <2>1 DEF Ready
<1> HIDE DEF f
<1>4. FastForward(f).head = remote.commits
  BY <1>2 DEF FastForward, Tree
<1>5. \/ end.class \in {"auth_failed", "offline", "command_failed"}
      \/ end = [class |-> "updated", tree |-> FastForward(f)]
  BY <1>3 DEF PullEnds, f
<1> QED
  BY <1>4, <1>5

\* A pull changes what the fetch and the fast-forward change, and not the origin.
LEMMA PullLink ==
  ASSUME TypeOK, LinkInv, NEW end \in PullEnds(tree), tree' = end.tree
  PROVE  LinkInv' /\ tree'.origin = tree.origin
<1> DEFINE f == Pulling(tree)
<1>1. tree \in Tree /\ remote.commits \in Commits
  BY DEF TypeOK, Remote
<1>2. f \in Tree /\ f.origin = tree.origin
  BY <1>1 DEF Pulling, Tree
<1> HIDE DEF f
<1>3. CASE Pullable(tree)
  <2>1. tree.origin
    BY <1>3 DEF Pullable, LinkInv
  <2>2. tree' \in {tree, f, FastForward(f), [f EXCEPT !.dirty = TRUE]}
    BY DEF PullEnds, f
  <2>3. FastForward(f).origin = f.origin /\ [f EXCEPT !.dirty = TRUE].origin = f.origin
    BY <1>2 DEF FastForward, Tree
  <2> QED
    BY <1>2, <2>1, <2>2, <2>3 DEF LinkInv
<1>4. CASE ~Pullable(tree)
  <2>1. tree' = tree
    BY <1>4 DEF PullEnds
  <2> QED
    BY <2>1 DEF LinkInv
<1> QED
  BY <1>3, <1>4

\* The pull brings the branch to the remote's last commit, or the run has failed.
LEMMA PullTruth ==
  ASSUME IInv, TruthInv, Pull
  PROVE  TruthInv'
<1>1. run \in Run /\ run.pc = "pull" /\ TypeOK /\ remote' = remote /\ row' = row
      /\ preview' = preview /\ current' = (current /\ tree' = tree)
  BY DEF IInv, TypeOK, Pull
<1>2. preview'.verdict = "none"
  BY <1>1 DEF TruthInv, PreviewInv
<1> DEFINE next(class) ==
             CASE class = "updated" -> [run EXCEPT !.pc = "pulled", !.outcome = "updated"]
               [] class = "noop" -> [run EXCEPT !.pc = "pulled", !.outcome = "up_to_date"]
               [] class \in PullFailure -> Failing(class)
           move == MoveOf(Head(tree), Head(tree'))
<1>3. PICK end \in PullEnds(tree) :
        /\ tree' = end.tree
        /\ run' = [next(end.class) EXCEPT !.moved = move]
  BY DEF Pull
<1>4. LinkInv' /\ tree'.origin = tree.origin
  BY <1>1, <1>3, PullLink DEF TruthInv
<1>5. RowInv' /\ PreviewInv'
  BY <1>1, <1>2 DEF TruthInv, RowInv, PreviewInv
<1>6. end.class \in {"updated", "noop"} \cup PullFailure
  <2>1. Sane(tree, remote.commits) /\ remote \in Remote
    BY <1>1 DEF IInv, TreeInv, TypeOK, Sane
  <2> QED
    BY <2>1, PullEndsSane
<1>7. /\ run'.blind = run.blind /\ run'.meddled = run.meddled /\ run'.mode = run.mode
      /\ run'.origin = run.origin /\ run'.verdict = run.verdict /\ run'.promise = run.promise
      /\ \/ run'.pc = "pulled" /\ end.class = "updated" /\ run'.outcome = "updated"
         \/ run'.pc = "pulled" /\ end.class = "noop"
         \/ run'.pc = "acted" /\ end.class \in PullFailure /\ run'.outcome = "failed"
            /\ run'.reason = end.class
  <2> HIDE DEF move
  <2>1. CASE end.class = "updated"
    <3>1. next(end.class) = [run EXCEPT !.pc = "pulled", !.outcome = "updated"]
      BY <2>1 DEF PullFailure
    <3> HIDE DEF next
    <3> QED
      BY <1>1, <1>3, <2>1, <3>1 DEF Run
  <2>2. CASE end.class = "noop"
    <3>1. next(end.class) = [run EXCEPT !.pc = "pulled", !.outcome = "up_to_date"]
      BY <2>2 DEF PullFailure
    <3> HIDE DEF next
    <3> QED
      BY <1>1, <1>3, <2>2, <3>1 DEF Run
  <2>3. CASE end.class \in PullFailure
    <3>1. next(end.class) = Failing(end.class)
      BY <2>3 DEF PullFailure
    <3> HIDE DEF next
    <3> QED
      BY <1>1, <1>3, <2>3, <3>1 DEF Run, Failing
  <2> QED
    BY <1>6, <2>1, <2>2, <2>3
<1>8. Undecided'
  BY <1>7 DEF Undecided
<1>9. ASSUME Undisturbed' PROVE Looked' /\ Decided' /\ Ended' /\ Promised'
  <2>1. Undisturbed
    BY <1>7, <1>9 DEF Undisturbed
  <2>2. Looked /\ Promised /\ run.verdict = "pull" /\ Ready
    BY <1>1, <2>1 DEF TruthInv, RunInv, Decided
  <2>3. \/ end.class = "updated" /\ tree'.head = remote.commits
        \/ end.class \in {"auth_failed", "offline", "command_failed"}
    BY <1>1, <1>3, <2>2, ReadyEnds
  <2>4. \/ run'.pc = "pulled" /\ run'.outcome = "updated" /\ tree'.head = remote.commits
        \/ run'.pc = "acted" /\ run'.outcome = "failed" /\ run'.reason # "ff_not_possible"
    BY <1>7, <2>3 DEF PullFailure
  <2>5. Looked'
    BY <1>1, <1>4, <1>7, <2>2, <2>4 DEF Looked
  <2>6. Decided'
    BY <1>1, <1>7, <2>2, <2>4 DEF Decided
  <2>7. Ended'
    BY <2>4 DEF Ended, Told, Kept
  <2>8. Promised'
    BY <1>1, <1>7, <2>2, <2>4 DEF Promised
  <2> QED
    BY <2>5, <2>6, <2>7, <2>8
<1> QED
  BY <1>4, <1>5, <1>8, <1>9 DEF TruthInv, RunInv

\* The range is captured after a fast-forward that succeeded.
LEMMA CaptureTruth ==
  ASSUME IInv, TruthInv, CaptureRange
  PROVE  TruthInv'
<1>1. run \in Run /\ run.pc = "pulled" /\ tree' = tree /\ remote' = remote
  BY DEF IInv, TypeOK, CaptureRange
<1>2. LinkInv' /\ RowInv' /\ PreviewInv'
  BY <1>1, QuietTruth DEF CaptureRange
<1>3. PICK range : run' = [run EXCEPT !.pc = "acted", !.commitRange = range]
  BY DEF CaptureRange
<1>4. /\ run'.pc = "acted" /\ run'.blind = run.blind /\ run'.meddled = run.meddled
      /\ run'.mode = run.mode /\ run'.origin = run.origin /\ run'.verdict = run.verdict
      /\ run'.promise = run.promise /\ run'.outcome = run.outcome
  BY <1>1, <1>3 DEF Run
<1>5. Undecided'
  BY <1>4 DEF Undecided
<1>6. ASSUME Undisturbed' PROVE Looked' /\ Decided' /\ Ended' /\ Promised'
  <2>1. Looked /\ Promised /\ run.outcome = "updated" /\ tree.head = remote.commits
    BY <1>1, <1>4, <1>6 DEF Undisturbed, TruthInv, RunInv, Decided
  <2>2. Looked' /\ Decided' /\ Promised'
    BY <1>1, <1>4, <2>1 DEF Looked, Decided, Promised
  <2>3. Ended'
    BY <1>1, <1>4, <2>1 DEF Ended, Told, Kept
  <2> QED
    BY <2>2, <2>3
<1> QED
  BY <1>2, <1>5, <1>6 DEF TruthInv, RunInv

\* The last look is of the tree the work left.
LEMMA PostinspectTruth ==
  ASSUME IInv, TruthInv, Postinspect
  PROVE  TruthInv'
<1>1. run \in Run /\ run.pc = "acted" /\ tree' = tree /\ remote' = remote
  BY DEF IInv, TypeOK, Postinspect
<1>2. LinkInv' /\ RowInv' /\ PreviewInv'
  BY <1>1, QuietTruth DEF Postinspect
<1>3. PICK view \in Looks({run.before}) :
        run' = [run EXCEPT !.pc = "posted", !.view = view,
                           !.blind = (@ \/ view # Inspect(tree))]
  BY DEF Postinspect
<1>4. /\ run'.pc = "posted" /\ run'.view = view
      /\ run'.blind = (run.blind \/ view # Inspect(tree)) /\ run'.meddled = run.meddled
      /\ run'.mode = run.mode /\ run'.origin = run.origin /\ run'.verdict = run.verdict
      /\ run'.promise = run.promise /\ run'.outcome = run.outcome /\ run'.reason = run.reason
  BY <1>1, <1>3 DEF Run
<1>5. Undecided'
  BY <1>4 DEF Undecided
<1>6. ASSUME Undisturbed' PROVE Looked' /\ Decided' /\ Ended' /\ Promised'
  <2>1. Undisturbed /\ view = Inspect(tree)
    BY <1>4, <1>6 DEF Undisturbed
  <2>2. Looked /\ Promised /\ Ended
    BY <2>1 DEF TruthInv, RunInv
  <2>3. Looked' /\ Decided' /\ Promised'
    BY <1>1, <1>4, <2>2 DEF Looked, Decided, Promised
  <2>4. Ended'
    BY <1>1, <1>4, <2>1, <2>2 DEF Ended, Told, Kept
  <2> QED
    BY <2>3, <2>4
<1> QED
  BY <1>2, <1>5, <1>6 DEF TruthInv, RunInv

\* The row is written from that look.
LEMMA WriteTruth ==
  ASSUME IInv, TruthInv, Write
  PROVE  TruthInv'
<1>1. run \in Run /\ run.pc = "posted" /\ tree' = tree /\ remote' = remote /\ preview' = preview
  BY DEF IInv, TypeOK, Write
<1>2. LinkInv' /\ PreviewInv'
  BY <1>1 DEF TruthInv, LinkInv, PreviewInv
<1> DEFINE blind(counts) == run.blind \/ Miscounted(run.view, counts)
<1>3. PICK counts \in Compared(run.view) :
        /\ row' = RowOf(run.view, run.origin, counts)
        /\ run' = [run EXCEPT !.pc = "done", !.blind = blind(counts)]
        /\ current' = (~blind(counts) /\ ~run.meddled)
  BY DEF Write
<1>4. /\ run'.pc = "done" /\ run'.blind = blind(counts) /\ run'.meddled = run.meddled
      /\ run'.mode = run.mode /\ run'.origin = run.origin /\ run'.verdict = run.verdict
      /\ run'.promise = run.promise /\ run'.outcome = run.outcome /\ run'.reason = run.reason
  <2> HIDE DEF blind
  <2> QED
    BY <1>1, <1>3 DEF Run
<1>5. Undecided'
  BY <1>4 DEF Undecided
<1>6. RowInv'
  <2>1. SUFFICES ASSUME current' PROVE row' = RowOf(Inspect(tree), tree.origin, TrueCounts(tree))
    BY <1>1 DEF RowInv
  <2>2. Undisturbed /\ ~Miscounted(run.view, counts)
    BY <1>3, <2>1 DEF Undisturbed
  <2>3. run.view = Inspect(tree) /\ run.origin = tree.origin
    BY <1>1, <2>2 DEF TruthInv, RunInv, Looked, Ended
  <2>4. counts = TrueCounts(tree)
    BY <2>2, <2>3, CountsTrue DEF TruthInv
  <2> QED
    BY <1>3, <2>3, <2>4
<1>7. ASSUME Undisturbed' PROVE Looked' /\ Decided' /\ Ended' /\ Promised'
  <2>1. Looked /\ Promised /\ Ended
    BY <1>4, <1>7 DEF Undisturbed, TruthInv, RunInv
  <2>2. Looked' /\ Decided' /\ Promised'
    BY <1>1, <1>4, <2>1 DEF Looked, Decided, Promised
  <2>3. Ended'
    BY <1>1, <1>4, <2>1 DEF Ended, Told, Kept
  <2> QED
    BY <2>2, <2>3
<1> QED
  BY <1>2, <1>5, <1>6, <1>7 DEF TruthInv, RunInv

\* Nobody knows anything of a run that is over, and what was so stays so.
LEMMA EndTruth ==
  ASSUME IInv, TruthInv, Finish \/ Stop
  PROVE  TruthInv'
<1>1. run.pc # "idle" /\ run' = NoRun /\ UNCHANGED <<tree, remote, row, preview, current>>
  BY DEF Finish, Stop
<1>2. LinkInv' /\ RowInv' /\ PreviewInv'
  BY <1>1, QuietTruth
<1>3. RunInv' /\ Undecided'
  BY <1>1 DEF NoRun, RunInv, Undecided, Looked, Decided, Ended, Promised
<1> QED
  BY <1>2, <1>3 DEF TruthInv

\* Whoever changes something, nothing is claimed of it afterwards.
LEMMA MeddleTruth ==
  ASSUME IInv, TruthInv, User \/ Remotely
  PROVE  TruthInv'
<1>1. run \in Run /\ TypeOK /\ tree \in Tree
  BY DEF IInv, TypeOK
<1>2. preview' = NoPreview /\ current' = FALSE
  BY DEF User, Remotely, Meddle
<1>3. RowInv' /\ PreviewInv'
  BY <1>2 DEF RowInv, PreviewInv, NoPreview
<1>4. LinkInv'
  <2>1. CASE Remotely
    BY <2>1 DEF Remotely, TruthInv, LinkInv
  <2>2. CASE User
    <3>1. tree' \in UserTree
      BY <2>2 DEF User
    <3>2. CASE Pullable(tree) /\ tree' = FastForward(Pulling(tree))
      <4>1. tree.origin
        BY <3>2 DEF Pullable, TruthInv, LinkInv
      <4>2. tree'.origin = tree.origin
        BY <1>1, <3>2 DEF FastForward, Pulling, Tree
      <4> QED
        BY <4>1, <4>2 DEF LinkInv
    <3>3. CASE tree' \in {[tree EXCEPT !.dirty = TRUE], [tree EXCEPT !.dirty = FALSE],
                          [tree EXCEPT !.dirty = FALSE, !.own = TRUE],
                          [tree EXCEPT !.detached = ~@]}
      <4>1. tree'.link = tree.link /\ tree'.origin = tree.origin
        BY <1>1, <3>3 DEF Tree
      <4> QED
        BY <4>1 DEF TruthInv, LinkInv
    <3>4. CASE tree' \in {[tree EXCEPT !.link = "none"],
                          [tree EXCEPT !.link = "none", !.origin = FALSE]}
      <4>1. tree'.link = "none"
        BY <1>1, <3>4 DEF Tree
      <4> QED
        BY <4>1 DEF LinkInv
    <3> QED
      BY <3>1, <3>2, <3>3, <3>4 DEF UserTree
  <2> QED
    BY <2>1, <2>2
<1>5. RunInv' /\ Undecided'
  <2>1. CASE run.pc = "idle"
    <3>1. run' = run
      BY <2>1 DEF User, Remotely, Meddle
    <3>2. Undisturbed => Promised
      BY DEF TruthInv, RunInv
    <3> QED
      BY <2>1, <3>1, <3>2 DEF RunInv, Undisturbed, Undecided, Looked, Decided, Ended, Promised
  <2>2. CASE run.pc # "idle"
    <3> DEFINE edited == run.edited \/ tree' # tree
    <3>1. run' = [run EXCEPT !.meddled = TRUE, !.edited = edited]
      BY <2>2 DEF User, Remotely, Meddle
    <3>2. run'.meddled = TRUE /\ run'.pc = run.pc /\ run'.verdict = run.verdict
      <4> HIDE DEF edited
      <4> QED
        BY <1>1, <3>1 DEF Run
    <3> QED
      BY <3>2 DEF RunInv, Undisturbed, TruthInv, Undecided
  <2> QED
    BY <2>1, <2>2
<1> QED
  BY <1>3, <1>4, <1>5 DEF TruthInv

\* Every step preserves it.
LEMMA NextTruth == IInv /\ TruthInv /\ [Next]_vars => TruthInv'
<1> SUFFICES ASSUME IInv, TruthInv, [Next]_vars PROVE TruthInv'
  OBVIOUS
<1>1. ASSUME NEW kind \in {"check", "update"}, NEW mode \in Modes, Begin(kind, mode)
      PROVE  TruthInv'
  BY <1>1, BeginTruth
<1>2. CASE Fetch
  BY <1>2, FetchTruth
<1>3. CASE Reinspect
  BY <1>3, ReinspectTruth
<1>4. CASE DecideStep
  BY <1>4, DecideTruth
<1>5. CASE Commit
  BY <1>5, CommitTruth
<1>6. CASE Guard
  BY <1>6, GuardTruth
<1>7. CASE Pull
  BY <1>7, PullTruth
<1>8. CASE CaptureRange
  BY <1>8, CaptureTruth
<1>9. CASE Postinspect
  BY <1>9, PostinspectTruth
<1>10. CASE Write
  BY <1>10, WriteTruth
<1>11. CASE Finish \/ Stop
  BY <1>11, EndTruth
<1>12. CASE User \/ Remotely
  BY <1>12, MeddleTruth
<1>13. CASE UNCHANGED vars
  <2>1. /\ tree' = tree /\ remote' = remote /\ run' = run /\ row' = row /\ preview' = preview
        /\ current' = current /\ (Fresh' <=> Fresh)
    BY <1>13, SameFresh DEF vars
  <2>2. LinkInv' /\ RowInv' /\ PreviewInv' /\ Undecided'
    BY <2>1 DEF TruthInv, LinkInv, RowInv, PreviewInv, Undecided, Settled
  <2>3. RunInv'
    <3>1. SUFFICES ASSUME Undisturbed PROVE Looked' /\ Decided' /\ Ended' /\ Promised'
      BY <2>1 DEF RunInv, Undisturbed
    <3>2. Looked /\ Decided /\ Ended /\ Promised
      BY <3>1 DEF TruthInv, RunInv
    <3>3. Looked'
      BY <2>1, <3>2 DEF Looked, Settled
    <3>4. Decided'
      BY <2>1, <3>2 DEF Decided, Settled, Ready
    <3>5. Ended'
      BY <2>1, <3>2 DEF Ended, Told, Kept
    <3>6. Promised'
      BY <2>1, <3>2 DEF Promised, Settled
    <3> QED
      BY <3>3, <3>4, <3>5, <3>6
  <2> QED
    BY <2>2, <2>3 DEF TruthInv
<1> QED
  BY <1>1, <1>2, <1>3, <1>4, <1>5, <1>6, <1>7, <1>8, <1>9, <1>10, <1>11, <1>12, <1>13 DEF Next

\* What an undisturbed run knows at each of its stages is so, whatever ran before it.
THEOREM Truth == Spec => []TruthInv
<1> QED
  BY InitTruth, NextTruth, Invariant, PTL DEF Spec

-----------------------------------------------------------------------------
(* What the user is told *)

\* The row of a repo describes its tree after a run that nobody disturbed and whose reads
\* succeeded, a failed update included, until somebody changes something.
THEOREM RowIsTrue == Spec => []RowTrue
<1>1. TruthInv => RowTrue
  BY DEF TruthInv, RowInv, RowTrue, TrueCounts
<1> QED
  BY <1>1, Truth, PTL

\* An undisturbed pull_ff_only update has brought the branch to the remote's last commit,
\* has failed, or gives a reason that holds of the tree.
THEOREM OutcomeIsTrue == Spec => []OutcomeTrue
<1>1. TruthInv => OutcomeTrue
  BY DEF TruthInv, RunInv, Ended, Told, OutcomeTrue
<1> QED
  BY <1>1, Truth, PTL

\* An update nobody disturbed decides what the check before it announced, and a
\* fast-forward that was announced happens, or fails for a reason outside the repo.
THEOREM PreviewIsTrue == Spec => []PreviewTrue
<1>1. TruthInv => PreviewTrue
  BY DEF TruthInv, RunInv, Ended, Kept, Promised, PreviewTrue
<1> QED
  BY <1>1, Truth, PTL

-----------------------------------------------------------------------------
(* Where a fetch matters *)

\* needs_remote_fetch is exact.  In pull_ff_only an update is fetched for if and only if
\* the verdict depends on the counts, which are all that a fetch can change of what the
\* grid reads of a tracking branch; in no other mode does the verdict depend on them.
THEOREM FetchedWhereItMatters ==
  ASSUME NEW view \in View, NEW origin \in BOOLEAN, NEW mode \in UpdateMode
  PROVE  (\E c, d \in Counts : Decide(GridStateOf(view, origin, c), mode)
                                 # Decide(GridStateOf(view, origin, d), mode))
           <=> mode = "pull_ff_only" /\ NeedsRemoteFetch(mode, view, origin)
<1> DEFINE says(c) == Decide(GridStateOf(view, origin, c), mode)
           up == ClassifyUpstream(view, origin)
<1>1. \A c : /\ GridStateOf(view, origin, c).dirty = view.dirty
             /\ GridStateOf(view, origin, c).detached = view.detached
             /\ GridStateOf(view, origin, c).upstream = up
             /\ GridStateOf(view, origin, c).ahead = c.ahead
             /\ GridStateOf(view, origin, c).behind = c.behind
  BY DEF GridStateOf
<1>2. view.dirty \in BOOLEAN /\ view.detached \in BOOLEAN
  BY DEF View
<1> HIDE DEF up
<1>3. CASE mode # "pull_ff_only"
  <2>1. \A c, d : says(c) = says(d)
    <3> SUFFICES ASSUME NEW c, NEW d PROVE says(c) = says(d)
      OBVIOUS
    <3> DEFINE s == GridStateOf(view, origin, c)
               t == GridStateOf(view, origin, d)
    <3>1. s.detached = t.detached /\ s.upstream = t.upstream
      BY <1>1
    <3> HIDE DEF s, t
    <3>2. Decide(s, mode) = Decide(t, mode)
      BY <1>3, <3>1 DEF Decide
    <3> QED
      BY <3>2 DEF s, t
  <2> QED
    BY <1>3, <2>1
<1>4. CASE mode = "pull_ff_only"
  <2>1. NeedsRemoteFetch(mode, view, origin) <=> ~view.dirty /\ ~view.detached /\ up = "tracking"
    BY <1>4 DEF NeedsRemoteFetch, up
  <2>2. \A c : says(c) = DecidePullFf(GridStateOf(view, origin, c))
    BY <1>4 DEF Decide
  <2>3. ASSUME ~(~view.dirty /\ ~view.detached /\ up = "tracking")
        PROVE  \A c, d : says(c) = says(d)
    <3> SUFFICES ASSUME NEW c, NEW d PROVE says(c) = says(d)
      OBVIOUS
    <3> DEFINE s == GridStateOf(view, origin, c)
               t == GridStateOf(view, origin, d)
    <3>1. /\ s.dirty = view.dirty /\ s.detached = view.detached /\ s.upstream = up
          /\ t.dirty = view.dirty /\ t.detached = view.detached /\ t.upstream = up
      BY <1>1
    <3>2. says(c) = DecidePullFf(s) /\ says(d) = DecidePullFf(t)
      BY <2>2
    <3> HIDE DEF s, t, says
    <3>3. DecidePullFf(s) = DecidePullFf(t)
      BY <1>2, <2>3, <3>1 DEF DecidePullFf
    <3> QED
      BY <3>2, <3>3
  <2>4. ASSUME ~view.dirty, ~view.detached, up = "tracking"
        PROVE  \E c, d \in Counts : says(c) # says(d)
    <3> DEFINE even == [ahead |-> 0, behind |-> 0]
               late == [ahead |-> 0, behind |-> 1]
               s == GridStateOf(view, origin, even)
               t == GridStateOf(view, origin, late)
    <3>1. even \in Counts /\ late \in Counts
      BY UpdateFlowAssumption DEF Counts, Commits
    <3>2. /\ ~s.dirty /\ ~s.detached /\ s.upstream = "tracking" /\ s.ahead = 0 /\ s.behind = 0
          /\ ~t.dirty /\ ~t.detached /\ t.upstream = "tracking" /\ t.ahead = 0 /\ t.behind = 1
      BY <1>1, <1>2, <2>4
    <3>3. says(even) = DecidePullFf(s) /\ says(late) = DecidePullFf(t)
      BY <2>2
    <3> HIDE DEF s, t, even, late
    <3>4. DecidePullFf(s) = "report"
      BY <3>2 DEF DecidePullFf
    <3>5. DecidePullFf(t) = "pull"
      BY <3>2 DEF DecidePullFf
    <3> QED
      BY <3>1, <3>3, <3>4, <3>5
  <2> QED
    BY <1>4, <2>1, <2>3, <2>4
<1> QED
  BY <1>3, <1>4
=============================================================================
