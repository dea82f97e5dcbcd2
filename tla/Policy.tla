-------------------------------- MODULE Policy --------------------------------
(***************************************************************************)
(* The pure decisions: the scheduler's (scheduler.rs), the failure state   *)
(* machine's and the update grid's (policy.rs).  No state, no clock.  Time *)
(* is in minutes.                                                          *)
(***************************************************************************)
EXTENDS Integers

\* The floor under both the per-repo and the global cadence.
DEFAULT_FREQUENCY_MIN == 360

\* A repo's own cadence, or the global one when it inherits (0).
EffectiveFrequency(repoFreq, globalDefault) ==
    CASE repoFreq > 0                        -> repoFreq
      [] repoFreq <= 0 /\ globalDefault > 0  -> globalDefault
      [] OTHER                               -> DEFAULT_FREQUENCY_MIN

NextCheckAt(now, freq) == now + (IF freq > 0 THEN freq ELSE DEFAULT_FREQUENCY_MIN)

\* RESCHEDULE_SET_AND_GUARD's SET: anchored on the last check, never in the past.
Rescheduled(now, lastChecked, freq) ==
    IF lastChecked + freq > now THEN lastChecked + freq ELSE now

NoWindow == -1

\* Mutant: a window over midnight is none.
InQuietHoursUnwrapped(minute, start, end) ==
    start # NoWindow /\ end # NoWindow /\ start <= minute /\ minute < end

\* Half-open, wraps midnight when start > end, empty when start = end.
InQuietHours(minute, start, end) ==
    /\ start # NoWindow /\ end # NoWindow
    /\ \/ start < end /\ start <= minute /\ minute < end
       \/ start > end /\ (start <= minute \/ minute < end)

-----------------------------------------------------------------------------
(* The failure state machine *)

AUTO_PAUSE_THRESHOLD == 3

Failure == {"AuthFailure", "NetworkFailure", "FfNotPossible"}
RunOutcome == {"Success"} \cup Failure

\* RepoStatus, with the count that Retry carries (0 for the others).
Status(name, failures) == [name |-> name, consecutive_failures |-> failures]

RepoStatus ==
    {Status(n, 0) : n \in {"Active", "PausedOnAuth", "AutoPaused"}}
        \cup {Status("Retry", n) : n \in 1..(AUTO_PAUSE_THRESHOLD - 1)}

\* Mutant: the count reaches the threshold and the repo is not paused.
ClassifyFailureLate(prior, outcome) ==
    CASE outcome = "Success"     -> Status("Active", 0)
      [] outcome = "AuthFailure" -> Status("PausedOnAuth", 0)
      [] OTHER -> IF prior + 1 > AUTO_PAUSE_THRESHOLD
                  THEN Status("AutoPaused", 0)
                  ELSE Status("Retry", prior + 1)

\* Mutant: the repo is paused one failure early.
ClassifyFailureEarly(prior, outcome) ==
    CASE outcome = "Success"     -> Status("Active", 0)
      [] outcome = "AuthFailure" -> Status("PausedOnAuth", 0)
      [] OTHER -> IF prior + 2 >= AUTO_PAUSE_THRESHOLD
                  THEN Status("AutoPaused", 0)
                  ELSE Status("Retry", prior + 1)

ClassifyFailure(prior, outcome) ==
    CASE outcome = "Success"     -> Status("Active", 0)
      [] outcome = "AuthFailure" -> Status("PausedOnAuth", 0)
      [] OTHER -> IF prior + 1 >= AUTO_PAUSE_THRESHOLD
                  THEN Status("AutoPaused", 0)
                  ELSE Status("Retry", prior + 1)

\* persist_columns: the counter and the auto_paused flag of a status.
PersistedFailures(status) == status.consecutive_failures
PersistedPause(status) == status.name \in {"PausedOnAuth", "AutoPaused"}

\* The frozen error codes are kept as "some code" or NULL.
Code == {"null", "error"}

\* Mutant: a pause is not given a code.
StatusErrorCodeRetryOnly(status) == IF status.name = "Retry" THEN "error" ELSE "null"

StatusErrorCode(status) == IF status.name = "Active" THEN "null" ELSE "error"

-----------------------------------------------------------------------------
(* The update grid *)

V1Mode == {"check_only", "fetch_only", "pull_ff_only"}
UpdateMode == V1Mode \cup {"pull_standard", "pull_rebase"}

UpstreamState == {"tracking", "none", "deleted"}

\* No comparison base: the None of ahead and behind.
Unknown == -1

\* RepoState: what the grid decides over.
GridState == [dirty : BOOLEAN, detached : BOOLEAN, upstream : UpstreamState,
              ahead : Nat \cup {Unknown}, behind : Nat \cup {Unknown}]

Action == {"report", "fetch", "pull"}
SkipReason == {"dirty", "detached", "no_upstream", "deleted_upstream", "ff_not_possible",
               "mode_not_available"}

NoFetchSource(upstream) == IF upstream = "none" THEN "no_upstream" ELSE "deleted_upstream"

\* The one mutating column, its guards in safety order: a dirty tree, then the
\* branch, then the fast-forward.
DecidePullFf(s) ==
    IF s.dirty THEN "dirty"
    ELSE IF s.detached THEN "detached"
    ELSE IF s.upstream # "tracking" THEN NoFetchSource(s.upstream)
    ELSE CASE s.behind > 0 /\ s.ahead > 0  -> "ff_not_possible"
           [] s.behind > 0 /\ s.ahead <= 0 -> "pull"
           [] OTHER                        -> "report"

\* The verdict: an action or the reason for none.
Decide(s, mode) ==
    CASE mode = "check_only"   -> "report"
      [] mode = "fetch_only"   -> IF s.detached \/ s.upstream = "tracking" THEN "fetch"
                                  ELSE NoFetchSource(s.upstream)
      [] mode = "pull_ff_only" -> DecidePullFf(s)
      [] OTHER                 -> "mode_not_available"
=============================================================================
