---------------------------- MODULE WorkingTrees ----------------------------
(***************************************************************************)
(* What RepoSync's locking promises, without its locks: git runs in a      *)
(* working tree for one task at a time, and tasks of the capped kinds run  *)
(* in at most Permits trees at once.  RepoLocks implements this.           *)
(***************************************************************************)
EXTENDS Naturals, FiniteSets

CONSTANTS Tree, Task, Capped, Permits

VARIABLE busy  \* the tasks running git in each tree

Init == busy = [w \in Tree |-> {}]

Running == UNION {busy[w] : w \in Tree}

Start(w, t) ==
    /\ busy[w] = {}
    /\ t \in Capped => Cardinality(Running \cap Capped) < Permits
    /\ busy' = [busy EXCEPT ![w] = {t}]

Stop(w) ==
    /\ busy[w] # {}
    /\ busy' = [busy EXCEPT ![w] = {}]

\* The task that starts is the one that then runs there.
Next == \E w \in Tree : Stop(w) \/ \E t \in Task \cap busy'[w] : Start(w, t)

Spec == Init /\ [][Next]_busy
=============================================================================
