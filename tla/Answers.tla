------------------------------- MODULE Answers ------------------------------
(***************************************************************************)
(* What the user is shown of the registry, the activity log and a burst    *)
(* (store.rs, activity.rs, commands/mod.rs).                               *)
(*                                                                         *)
(* Each answer is one read of the database, or the sum of a burst that is  *)
(* over; what can go wrong is the order of its steps: filter, sort, cut.   *)
(***************************************************************************)
EXTENDS Integers, FiniteSets, FiniteSetsExt, SequencesExt

CONSTANTS
    Repo,       \* ids of repos
    Time,       \* the times of activity; 0 stands for none
    ACTIVITY_DEFAULT_LIMIT, ACTIVITY_MAX_LIMIT

None == <<>>

\* The first limit members of the set S, in the order of Before.
Page(S, Before(_, _), limit) ==
    LET sorted == SetToSortSeq(S, Before)
    IN  SubSeq(sorted, 1, IF limit < Len(sorted) THEN limit ELSE Len(sorted))

-----------------------------------------------------------------------------
(* The registry: the times of its repos' activity.                           *)

\* What sorts the recent repos; times: of its creation, its last update and last check.
LastActive(row) == Max(row.times \cup {0})

\* The tray's Open recent: the newest first, of two the one added later.
RecentRepos(rows, limit) ==
    Page(rows, LAMBDA a, b : \/ LastActive(a) > LastActive(b)
                             \/ LastActive(a) = LastActive(b) /\ a.id > b.id, limit)

-----------------------------------------------------------------------------
(* A burst: how the check of each of its targets ended.                      *)

Ending == {"succeeded", "git.auth_failed", "net.offline", "other_failure", "error", "panicked"}
SoftFailure == {"git.auth_failed", "net.offline", "other_failure"}

Ended(ending, kinds) == Cardinality({r \in DOMAIN ending : ending[r] \in kinds})

\* The counters that the loop over the ended tasks keeps.
Checked(ending) == Ended(ending, {"succeeded"} \cup SoftFailure)

\* succeeded is what is left of completed.
SummarizeCheckAll(ending) ==
    [targeted |-> Cardinality(DOMAIN ending),
     completed |-> Checked(ending),
     succeeded |-> Checked(ending) - Ended(ending, SoftFailure),
     no_result |-> Ended(ending, {"error"}),
     failed_check |-> Ended(ending, SoftFailure)]

CheckAllFailureSignal(ending) ==
    IF Ended(ending, SoftFailure) = 0 THEN None
    ELSE IF Ended(ending, {"git.auth_failed"}) > 0 THEN <<"AuthFailed">>
    ELSE IF Ended(ending, {"net.offline"}) > 0 THEN <<"Offline">>
    ELSE <<"FetchFailed">>

\* What is shown to the user: each error at once, and one signal for the rest.
Toasts(ending) ==
    Ended(ending, {"error"}) + Len(CheckAllFailureSignal(ending))

-----------------------------------------------------------------------------
(* The activity log: a page of the newest receipts that pass the filters.    *)

Limit(limit) ==
    IF limit = None \/ limit[1] <= 0 THEN ACTIVITY_DEFAULT_LIMIT
    ELSE IF limit[1] > ACTIVITY_MAX_LIMIT THEN ACTIVITY_MAX_LIMIT ELSE limit[1]

\* Of a receipt only its repo (absent for the app's own) and its time matter; two of
\* one second come in any order, and here there are none.
ActivityList(receipts, members, filter) ==
    Page({e \in receipts : /\ filter.repo_id \in {None, e.repo_id}
                           /\ filter.group => e.repo_id # None /\ e.repo_id[1] \in members},
         LAMBDA a, b : a.timestamp > b.timestamp,
         Limit(filter.limit))

-----------------------------------------------------------------------------
(* A repo that Open recent leaves out has not been active after one that it     *)
(* lists, whether by an update or by a check, and it is as long as it may be.   *)
RecentIsNewest(limits) ==
    \A ids \in SUBSET Repo, limit \in limits :
      \A times \in [ids -> SUBSET Time] :
        LET rows == {[id |-> r, times |-> times[r]] :
                       r \in ids}
            recent == RecentRepos(rows, limit)
        IN  /\ Len(recent) = Min({limit, Cardinality(ids)})
            /\ \A a \in rows, i, j \in DOMAIN recent :
                 /\ a \notin ToSet(recent) => LastActive(a) <= LastActive(recent[i])
                 /\ i < j => LastActive(recent[i]) >= LastActive(recent[j])

(* Every target of a burst is counted once, except where a task panicked; the   *)
(* user hears of a burst in which anything failed, once for all the failed      *)
(* checks, and an authentication failure is never hidden behind another kind.   *)
BurstAddsUp ==
    \A ids \in SUBSET Repo :
      \A ending \in [ids -> Ending] :
        LET sum == SummarizeCheckAll(ending) IN
          /\ sum.succeeded = Ended(ending, {"succeeded"})
          /\ sum.targeted = sum.succeeded + sum.failed_check + sum.no_result
                              + Ended(ending, {"panicked"})
          /\ Toasts(ending) = 0 <=> sum.failed_check + sum.no_result = 0
          /\ Toasts(ending) <= sum.no_result + 1
          /\ (\E r \in ids : ending[r] = "git.auth_failed") =>
               CheckAllFailureSignal(ending) = <<"AuthFailed">>

(* A page of the log is the newest of what passes the filters, not what passes  *)
(* of the newest: a receipt that is left out although it passes is older than   *)
(* each of a full page; no page is longer than the maximum.                     *)
PageIsNewest(limits) ==
    \A owner \in [1 .. 3 -> {None} \cup {<<r>> : r \in Repo}], members \in SUBSET Repo :
      \A filter \in [repo_id : {None} \cup {<<r>> : r \in Repo}, group : BOOLEAN, limit : limits] :
        LET receipts == {[repo_id |-> owner[t], timestamp |-> t] : t \in 1 .. 3}
            page == ActivityList(receipts, members, filter)
            passes(e) == /\ filter.repo_id \in {None, e.repo_id}
                         /\ filter.group => \E r \in members : e.repo_id = <<r>>
        IN  /\ \A i \in DOMAIN page : passes(page[i])
            /\ Len(page) <= ACTIVITY_MAX_LIMIT
            /\ \A e \in receipts : passes(e) /\ e \notin ToSet(page) =>
                 /\ Len(page) = Limit(filter.limit)
                 /\ \A i \in DOMAIN page : page[i].timestamp > e.timestamp

=============================================================================
