------------------------------ MODULE GitReads -----------------------------
(***************************************************************************)
(* What the git engine makes of what git says (cli.rs and inspect.rs).     *)
(*                                                                         *)
(* The classes and readings that UpdateFlow and Policy take as given come  *)
(* from here.  A failure must never be read as good news.                  *)
(***************************************************************************)
EXTENDS Naturals, Sequences, FiniteSets

\* What is absent or not known.
None == <<>>

-----------------------------------------------------------------------------
(* A command's capture: its exit code, and which of the phrases that the engine *)
(* looks for its output has.  "unable": unable to access; "reason": timed out,  *)
(* resolve or connect without the words of a network failure; "divergence":     *)
(* one of the ways in which git refuses to fast-forward.                        *)
Captured ==
    [exit_code : {<<0>>, <<1>>, None},
     stdout : SUBSET {"arrow", "up to date"},
     stderr : SUBSET {"auth", "network", "unable", "403", "reason", "divergence"}]

\* git was killed after GIT_OP_TIMEOUT: the capture says "operation timed out".
TimedOut == [exit_code |-> None, stdout |-> {}, stderr |-> {"network"}]

Succeeded(c) == c.exit_code = <<0>>

StderrIsAuthFailure(c) == "auth" \in c.stderr \/ {"unable", "403"} \subseteq c.stderr
StderrIsNetworkFailure(c) == "network" \in c.stderr \/ {"unable", "reason"} \subseteq c.stderr
StderrIsFfNotPossible(c) == "divergence" \in c.stderr

ClassifyFetch(c) ==
    IF Succeeded(c) THEN IF "arrow" \in c.stdout THEN "success" ELSE "no_op"
    ELSE IF StderrIsAuthFailure(c) THEN "auth_failure"
    ELSE IF StderrIsNetworkFailure(c) THEN "network_failure"
    ELSE "unknown"

ClassifyPull(c) ==
    IF Succeeded(c) THEN IF "up to date" \in c.stdout THEN "no_op" ELSE "success"
    ELSE IF StderrIsAuthFailure(c) THEN "auth_failure"
    ELSE IF StderrIsNetworkFailure(c) THEN "network_failure"
    ELSE IF StderrIsFfNotPossible(c) THEN "ff_not_possible"
    ELSE "unknown"

-----------------------------------------------------------------------------
(* A working tree as git2 finds it.  What it asks for is read call by call, and *)
(* each of the calls may fail.  tip, remote: the commits of HEAD and of the     *)
(* remote-tracking ref (absent when it was pruned); changes: the kinds of       *)
(* entries that git status lists.                                               *)
Tree ==
    [head : {"branch", "detached", "unborn"},
     tracks : BOOLEAN,
     remote : {None, <<"equal">>, <<"ahead">>},
     changes : SUBSET {"ordinary", "unmerged", "untracked", "ignored"}]

Call == {"head_detached", "head", "peel", "statuses", "upstream", "graph"}

Dirty(t) == t.changes \ {"ignored"} # {}

\* HEAD of a repo without commits is an error too, with a code of its own.
HeadRead(t, fails) == "head" \notin fails /\ t.head # "unborn"

HeadStateOf(t, fails) ==
    IF "head_detached" \in fails THEN None
    ELSE IF t.head = "detached" THEN <<"detached">>
    ELSE IF HeadRead(t, fails) THEN <<"branch">>
    ELSE IF "head" \notin fails THEN <<"unborn">>
    ELSE None

OnBranch(t, fails) == HeadRead(t, fails) /\ t.head = "branch"

\* The configured upstream must still resolve.
UpstreamFor(t, fails) ==
    OnBranch(t, fails) /\ t.tracks /\ t.remote # None /\ "upstream" \notin fails

Inspect(t, fails) ==
    [head_sha |-> HeadRead(t, fails) /\ "peel" \notin fails,
     active_branch |-> OnBranch(t, fails),
     is_dirty |-> "statuses" \in fails \/ Dirty(t),
     is_detached |-> "head_detached" \notin fails /\ t.head = "detached",
     upstream_branch |-> UpstreamFor(t, fails),
     head_state |-> HeadStateOf(t, fails)]

\* ahead_behind_in of git2.
AheadBehind(t, fails) ==
    IF UpstreamFor(t, fails) /\ "graph" \notin fails THEN t.remote ELSE None

\* The same two readings by the git command, for the fallback that uses no git2.
ParsePorcelainV2(entries) ==
    [has_tracked_changes |-> {"ordinary", "unmerged"} \cap entries # {},
     has_untracked |-> "untracked" \in entries]
IsDirty(status) == status.has_tracked_changes \/ status.has_untracked

\* None: the error CommandFailed.
Status(t, exit_code) ==
    IF exit_code = <<0>> THEN <<ParsePorcelainV2(t.changes)>> ELSE None

CliAheadBehind(t, exit_code) ==
    IF exit_code = <<0>> THEN t.remote ELSE None

-----------------------------------------------------------------------------
(* One failure of git has one class, whether it was met while fetching or while *)
(* pulling, but for a divergence that only a pull meets; a command that was     *)
(* killed by its timeout is a network failure to both, which is retried, and no *)
(* command that did not exit with 0 counts as a success.                        *)
OneFailureOneClass ==
    /\ \A c \in Captured :
         LET fetch == ClassifyFetch(c)
             pull == ClassifyPull(c)
         IN  /\ fetch \in {"success", "no_op"} <=> pull \in {"success", "no_op"}
             /\ ~Succeeded(c) => \/ fetch = pull /\ fetch \notin {"success", "no_op"}
                                 \/ fetch = "unknown" /\ pull = "ff_not_possible"
    /\ ClassifyFetch(TimedOut) = "network_failure"
    /\ ClassifyPull(TimedOut) = "network_failure"

(* Whichever reads of a tree fail: a tree is not called clean unless it is, nor  *)
(* without commits or detached or on a branch unless it is so; counts are given  *)
(* only against an upstream that the inspection reports too, and they are right. *)
(* The git command never makes anything else of the same tree than git2 does.    *)
NeverGuessesWell ==
    \A t \in Tree, fails \in SUBSET Call, exit_code \in {<<0>>, <<1>>, None} :
        LET seen == Inspect(t, fails)
            counts == AheadBehind(t, fails)
            status == Status(t, exit_code)
        IN  /\ ~seen.is_dirty => ~Dirty(t)
            /\ seen.head_state \in {None, <<t.head>>}
            /\ seen.is_detached => seen.head_state = <<"detached">>
            /\ counts # None =>
                 /\ seen.upstream_branch /\ seen.active_branch
                 /\ counts = t.remote
                 /\ counts \in {None, CliAheadBehind(t, <<0>>)}
            /\ status # None => IsDirty(status[1]) = Dirty(t)

=============================================================================
