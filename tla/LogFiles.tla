------------------------------ MODULE LogFiles -----------------------------
(***************************************************************************)
(* The size budget of the log directory (logging.rs, both crates).         *)
(*                                                                         *)
(* The sweep of a launch deletes the oldest log files until the rest fits. *)
(* What it deletes is the evidence that someone may need, and the last of  *)
(* it is the file that the appender has open.                              *)
(***************************************************************************)
EXTENDS Integers, FiniteSets, SequencesExt

CONSTANTS
    Day,            \* the days that a file may be of, in the order of their names
    Size,           \* the sizes of files
    MIN, MAX,       \* the bounds of a budget
    DEFAULT         \* the budget when the environment names none

\* Our files by day; others are the sizes of what else lies in the directory.
LogDir == [ours : UNION {[days -> Size] : days \in SUBSET Day}, others : SUBSET Size]

\* Only our files are counted.
Bytes(dir, days) == SumFunctionOnSet(dir.ours, days)

-----------------------------------------------------------------------------
\* A setting that cannot be read gives the default, one out of bounds the bound.
RetentionFromEnv(raw) ==
    IF raw = <<>> THEN DEFAULT
    ELSE IF raw[1] < MIN THEN MIN ELSE IF raw[1] > MAX THEN MAX ELSE raw[1]

\* What the Diagnostics view shows of the directory.
LogDirStats(dir) ==
    [file_count |-> Cardinality(DOMAIN dir.ours), total_bytes |-> Bytes(dir, DOMAIN dir.ours)]

(* One turn of the sweep's loop, at the file of day d.  attempt: what deleting a *)
(* file comes to ("gone": something else deleted it first).                      *)
PruneOne(dir, budget, attempt, s, d) ==
    IF s.done \/ s.total <= budget \/ \A e \in DOMAIN dir.ours : e <= d
    THEN [s EXCEPT !.done = TRUE]
    ELSE IF attempt[d] = "fails"
    THEN [s EXCEPT !.done = TRUE, !.failed = TRUE]
    ELSE [s EXCEPT !.total = @ - dir.ours[d],
                   !.removed = IF attempt[d] = "removed" THEN Append(@, d) ELSE @]

PruneToSizeBudget(dir, budget, attempt) ==
    FoldLeft(LAMBDA s, d : PruneOne(dir, budget, attempt, s, d),
             [total |-> Bytes(dir, DOMAIN dir.ours), removed |-> <<>>,
              done |-> FALSE, failed |-> FALSE],
             SetToSortSeq(DOMAIN dir.ours, <))

-----------------------------------------------------------------------------
(* Whatever the environment says and whichever deletions fail: the sweep deletes *)
(* no file that fits the budget together with the newer ones, and never the      *)
(* newest; it passes over an older file only when that is gone already; and what *)
(* the Diagnostics view then counts is within the budget, or one file, or the    *)
(* sweep has said that it failed.                                                *)
SweepKeepsNewest(raws) ==
    \A dir \in LogDir, raw \in raws :
      \A attempt \in [DOMAIN dir.ours -> {"removed", "gone", "fails"}] :
        LET budget == RetentionFromEnv(raw)
            days == DOMAIN dir.ours
            swept == PruneToSizeBudget(dir, budget, attempt)
            left == days \ ToSet(swept.removed)
            there == {d \in left : \/ attempt[d] # "gone"
                                   \/ Bytes(dir, {e \in days : e >= d}) <= budget
                                   \/ \A e \in days : e <= d}
            stats == LogDirStats([dir EXCEPT !.ours = [d \in there |-> @[d]]])
        IN  /\ \A d \in ToSet(swept.removed) :
                 /\ Bytes(dir, {e \in days : e >= d}) > budget
                 /\ \E e \in left : e > d
                 /\ \A e \in left : e < d => attempt[e] = "gone"
            /\ swept.failed \/ stats.total_bytes <= budget \/ stats.file_count = 1

=============================================================================
