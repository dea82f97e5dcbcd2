------------------------------- MODULE Autostart -------------------------------
(***************************************************************************)
(* Launch on login: the OS registration, the decisions about it            *)
(* (autostart.rs of the core and of the shell, and the rules of            *)
(* settings_set in commands/mod.rs), and what actuating it may do.  The    *)
(* OS may refuse to say what it holds, and a call that fails may have had  *)
(* its effect all the same.                                                *)
(***************************************************************************)

Switch == {"on", "off"}
Unknown == "unknown"
Reading == Switch \cup {Unknown}

\* What one call of apply did: the reading it acted on, what the OS holds afterwards,
\* and whether it had nothing to do, changed the registration, or failed.
Actuation == [seen : Reading, os : Switch, result : {"noop", "changed", "failed"}]

\* apply: a registration that already is as desired is left alone; everything else,
\* an unreadable one included, is set.
Actuations(os, desired) ==
    {act \in Actuation :
        /\ act.seen \in {os, Unknown}
        /\ IF act.seen = desired THEN act.result = "noop" /\ act.os = os
           ELSE \/ act.result = "changed" /\ act.os = desired
                \/ act.result = "failed" /\ act.os \in {os, desired}}

\* rollback_target: only a change from a state that was seen is undone, towards that
\* state.  A blind success counts as "noop" there, and a failure is not ours to undo.
CanRollBack(act) == act.result = "changed" /\ act.seen # Unknown

\* Mutant: a failed call is taken to have changed nothing.
AutostartToPersistPrevious(requested, previous, act, after) ==
    IF act.result # "failed" THEN requested ELSE previous

\* autostart_to_persist: after a failed call, what the OS says it holds; if it will not
\* say, the last value that was stored.
AutostartToPersist(requested, previous, act, after) ==
    CASE act.result # "failed" -> requested
      [] act.result = "failed" /\ after # Unknown -> after
      [] OTHER -> previous

\* Mutant: the setting wins, as it did before BL-NI-18.
AdoptedNever(reading, setting) == setting

\* reconcile: at launch the OS wins, if it answers.
Adopted(reading, setting) == IF reading = Unknown THEN setting ELSE reading
=============================================================================
