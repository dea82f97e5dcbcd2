---------------------------- MODULE GitHubReads -----------------------------
(***************************************************************************)
(* What the app makes of an answer of GitHub (github.rs), answer by        *)
(* answer; Metadata follows the answers through time and the cache, and    *)
(* takes the classes given here.                                           *)
(***************************************************************************)
EXTENDS Integers, Sequences, FiniteSets, FiniteSetsExt

CONSTANTS
    MaxInt,                       \* i64::MAX
    RATE_LIMIT_BACKOFF_PERCENT,
    PULLS_PER_PAGE,
    Branch                        \* names of branches

\* What a header or a field may lack, or hold in another form than the app reads.
None == <<>>
Maybe(S) == {None} \cup {<<x>> : x \in S}
OrElse(value, default) == IF value = None THEN default ELSE value[1]

-----------------------------------------------------------------------------
(* The budget, from the X-RateLimit headers.                                 *)

RateLimitFrom(headers) ==
    [remaining |-> OrElse(headers.remaining, MaxInt),
     limit |-> OrElse(headers.limit, 60),
     reset_at |-> OrElse(headers.reset_at, 0)]

\* saturating_mul
Floor(limit) == Min({limit * RATE_LIMIT_BACKOFF_PERCENT, MaxInt}) \div 100

ShouldBackoff(budget) == budget.limit > 0 /\ budget.remaining <= Floor(budget.limit)

\* Of several with the fewest left, the first.
WorstBudget(budgets) ==
    LET least == {i \in DOMAIN budgets :
                    \A j \in DOMAIN budgets : budgets[i].remaining <= budgets[j].remaining}
    IN  IF least = {} THEN None ELSE <<budgets[Min(least)]>>

-----------------------------------------------------------------------------
(* The three resources.  An answer: its status, its budget, and whether its  *)
(* body is JSON; 0 is the status of a request without an answer.             *)

Success(status) == status \in 200 .. 299

ClassifyRepoStatus(status, budget) ==
    IF status = 304 THEN <<"not_modified">>
    ELSE IF status = 404 THEN <<"not_found">>
    ELSE IF status = 403 /\ budget.remaining <= 0 THEN <<"rate_limited">>
    ELSE IF Success(status) THEN None
    ELSE <<"api_error">>

FetchRepo(answer) ==
    IF answer.status = 0 THEN "network_lost"
    ELSE OrElse(ClassifyRepoStatus(answer.status, answer.budget),
                IF answer.json THEN "modified" ELSE "network_lost")

FetchRelease(answer) ==
    CASE answer.status = 304 -> "not_modified"
      [] answer.status = 404 -> "no_release"
      [] Success(answer.status) /\ answer.json -> "modified"
      [] OTHER -> "unknown"

FetchPulls(answer) ==
    CASE answer.status = 304 -> "not_modified"
      [] Success(answer.status) /\ answer.json -> "modified"
      [] OTHER -> "unknown"

-----------------------------------------------------------------------------
(* The bodies.                                                               *)

\* The pages of GitHub hold at most PULLS_PER_PAGE pulls; each names its base, or does not.
MapPullCounts(body, default_branch) ==
    [open |-> Len(body),
     default_branch |-> Cardinality({i \in DOMAIN body :
                                       default_branch # None /\ body[i] = default_branch})]

-----------------------------------------------------------------------------
Status == {0, 200, 204, 301, 304, 401, 403, 404, 500}

(* Only a rate limit is called one, and only silence or a body that is no JSON a *)
(* lost network; of an answer that is an error, or whose body is no JSON, none   *)
(* of the three resources takes over data, and only a 404 clears a release.      *)
ErrorsAreNotData(remaining) ==
    \A status \in Status, json \in BOOLEAN, left \in Maybe(remaining) :
      LET budget == RateLimitFrom([remaining |-> left, limit |-> None, reset_at |-> None])
          answer == [status |-> status, json |-> json, budget |-> budget]
          kinds == {FetchRepo(answer), FetchRelease(answer), FetchPulls(answer)}
      IN  /\ "rate_limited" \in kinds => status = 403 /\ left # None /\ left[1] <= 0
          /\ "network_lost" \in kinds => status = 0 \/ (Success(status) /\ ~json)
          /\ "modified" \in kinds => Success(status) /\ json /\ kinds = {"modified"}
          /\ "no_release" \in kinds => status = 404

(* An answer without the headers never asks the app to back off, one with nothing *)
(* left does, nor does having more left ever ask for it where having less did     *)
(* not; over several answers of one limit the worst speaks for all, however large *)
(* the limit.                                                                     *)
BackoffIsSound(remaining, limits) ==
    \A limit \in limits, a, b, c \in Maybe(remaining) :
      LET budget(left) ==
            RateLimitFrom([remaining |-> left, limit |-> limit, reset_at |-> None])
          several == <<budget(a), budget(b), budget(c)>>
      IN  /\ a = None => ~ShouldBackoff(budget(a))
          /\ a = <<0>> /\ budget(a).limit > 0 => ShouldBackoff(budget(a))
          /\ ShouldBackoff(budget(a)) /\ budget(b).remaining <= budget(a).remaining =>
               ShouldBackoff(budget(b))
          /\ ShouldBackoff(WorstBudget(several)[1])
               <=> \E i \in DOMAIN several : ShouldBackoff(several[i])

(* The pulls into the default branch are among the open ones, all of them when    *)
(* every pull aims there; while the default branch is unknown there are none.     *)
PullsAddUp ==
    \A n \in 0 .. PULLS_PER_PAGE :
      \A body \in [1 .. n -> Maybe(Branch)], default \in Maybe(Branch) :
        LET counts == MapPullCounts(body, default)
            elsewhere == {i \in DOMAIN body : body[i] # default}
        IN  /\ counts.open = n
            /\ default # None => counts.default_branch + Cardinality(elsewhere) = n
            /\ default = None => counts.default_branch = 0

=============================================================================
