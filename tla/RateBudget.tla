------------------------------ MODULE RateBudget ------------------------------
(***************************************************************************)
(* RateBudgeter of github.rs: the stamps of the requests charged so far,   *)
(* oldest at the front, and the questions asked of them.  Only the front   *)
(* is pruned, so a stamp that was recorded out of order keeps the ones     *)
(* behind it.                                                              *)
(***************************************************************************)
EXTENDS Integers, Sequences

CONSTANTS
    MaxPerWindow,          \* MAX_REQUESTS_PER_HOUR
    RateWindow             \* RATE_WINDOW_SECS

ASSUME RateBudgetAssumption == MaxPerWindow \in Nat /\ RateWindow \in Nat \ {0}

\* MAX_REQUESTS_PER_REPO: the repo, its latest release, its pull requests.
MAX_REQUESTS_PER_REPO == 3

Live(events, now) == {i \in DOMAIN events : events[i] > now - RateWindow}

Prune(events, now) ==
    IF Live(events, now) = {} THEN <<>>
    ELSE LET first == CHOOSE i \in Live(events, now) : \A j \in Live(events, now) : i <= j
         IN SubSeq(events, first, Len(events))

Remaining(events, now) ==
    LET used == Len(Prune(events, now))
    IN IF used < MaxPerWindow THEN MaxPerWindow - used ELSE 0

\* Mutant: the gate asks for any room at all.
CanSpendAny(events, now, count) == Remaining(events, now) > 0

CanSpend(events, now, count) == Remaining(events, now) >= count

\* Mutant: a refresh counts as one request.
RecordOnce(events, now, count) == Append(events, now)

Record(events, now, count) == events \o [i \in 1..count |-> now]
=============================================================================
