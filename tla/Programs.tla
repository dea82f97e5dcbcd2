------------------------------ MODULE Programs -----------------------------
(***************************************************************************)
(* Programs the user names: git, the editor and the terminal (discover.rs, *)
(* git/mod.rs, opener.rs).                                                 *)
(*                                                                         *)
(* A name is resolved when it is saved and again when it is used, by the   *)
(* rules of the operating system; what the user was told about it at the   *)
(* one time should be true at the other.                                   *)
(***************************************************************************)
EXTENDS Naturals, Sequences, SequencesExt

CONSTANTS
    Dir,        \* directories
    Stem,       \* file names without their extensions
    Ext         \* extensions

\* What may be absent is a sequence of at most one.
None == <<>>

FirstWhere(s, Test(_)) ==
    LET passing == SelectSeq(s, Test) IN
      IF passing = <<>> THEN None ELSE <<Head(passing)>>

-----------------------------------------------------------------------------
(* The editor and the terminal.                                              *)

\* "C:\Tools\code.cmd", "code.cmd" or "code"; padded: with space around it.
Command == [dir : {None} \cup {<<d>> : d \in Dir}, stem : Stem,
            exts : {<<>>} \cup {<<e>> : e \in Ext}, padded : BOOLEAN]

Trimmed(cmd) == [cmd EXCEPT !.padded = FALSE]

\* Where a command may be: as given when it has an extension, then with each of
\* PATHEXT, and last as given though it has none.
Candidates(cmd, dir, pathext) ==
    LET base == [dir |-> dir, stem |-> cmd.stem, exts |-> cmd.exts]
        longer == [i \in DOMAIN pathext |-> [base EXCEPT !.exts = Append(@, pathext[i])]]
    IN  IF cmd.exts # <<>> THEN <<base>> \o longer ELSE Append(longer, base)

\* A path is not searched for.  No file has a padded name.
ResolveInPaths(cmd, dirs, pathext, files) ==
    LET searched == IF cmd.dir # None THEN cmd.dir ELSE dirs
        all == FlattenSeq([i \in DOMAIN searched |-> Candidates(cmd, searched[i], pathext)])
    IN  IF cmd.padded THEN None ELSE FirstWhere(all, LAMBDA f : f \in files)

IsExecutable(file, pathext) ==
    file.exts # <<>> /\ Last(file.exts) \in ToSet(pathext)

(* Whether a command may be saved.  Elsewhere than on Windows there is no PATHEXT *)
(* and the executable bit decides (files are then the executable ones).           *)
ValidateCommandValue(cmd, dirs, pathext, files, windows) ==
    LET file == ResolveInPaths(Trimmed(cmd), dirs, pathext, files) IN
      file # None /\ (windows => IsExecutable(file[1], pathext))

\* settings_set trims what it checks and stores; None refuses the save.
Saved(cmd, dirs, pathext, files, windows) ==
    IF ValidateCommandValue(Trimmed(cmd), dirs, pathext, files, windows)
    THEN <<Trimmed(cmd)>>
    ELSE None

\* On Windows both launchers resolve the command themselves, elsewhere the system does.
OpenEditor(cmd, dirs, pathext, files) == ResolveInPaths(cmd, dirs, pathext, files)
OpenTerminal(cmd, dirs, pathext, files, windows) ==
    ResolveInPaths(IF windows THEN Trimmed(cmd) ELSE cmd, dirs, pathext, files)

-----------------------------------------------------------------------------
(* git.                                                                      *)

\* What `git --version` says: a version below the floor, one above it, or nothing
\* that can be read.
MIN_GIT_VERSION == 30
Unread == 0
Printed == {Unread, MIN_GIT_VERSION - 1, MIN_GIT_VERSION}

\* The explicit path wins over git on PATH, and both over the known places.
CandidatePaths(explicit, known) ==
    explicit \o <<"git">> \o known

ResolveFromCandidates(paths, runs) ==
    FirstWhere(paths, LAMBDA p : runs[p])

MeetsFloor(version) == version >= MIN_GIT_VERSION

(* Each candidate is run to see whether it starts, and the one that does again for *)
(* its version; between the two it may change.  A version that was not read counts *)
(* as good.                                                                        *)
ResolveAndProbe(explicit, known, runs, later) ==
    LET exe == ResolveFromCandidates(CandidatePaths(explicit, known), runs) IN
      [exe |-> exe,
       availability |->
         IF exe = None THEN "unavailable"
         ELSE IF later[exe[1]] # Unread /\ ~MeetsFloor(later[exe[1]]) THEN "below_floor"
         ELSE "available"]

\* Without git every command of it ends in GitNotFound.
RequireExe(engine) == engine.exe # None

\* Whether the Diagnostics view says that the configured git is the one in use; it
\* says nothing when none is configured or none was found.
ExplicitPathHonored(explicit, engine) ==
    IF explicit = None \/ engine.exe = None THEN "cannot_say"
    ELSE IF explicit = engine.exe THEN "honored" ELSE "ignored"

-----------------------------------------------------------------------------
(* A command that a save accepted is launched as the very file that was checked, *)
(* as long as nothing is installed or removed: by the editor's launcher, which   *)
(* does not trim, as by the terminal's, which does.                              *)
SavedCommandLaunches(dirs, pathext, windows) ==
    \A cmd \in Command :
      \A files \in SUBSET [dir : ToSet(dirs), stem : {cmd.stem},
                           exts : {<<>>} \cup {<<e>> : e \in Ext}
                                    \cup {<<e, x>> : e \in Ext, x \in ToSet(pathext)}] :
        LET saved == Saved(cmd, dirs, pathext, files, windows) IN
          saved # None =>
            LET editor == OpenEditor(saved[1], dirs, pathext, files) IN
              /\ editor # None
              /\ editor = OpenTerminal(saved[1], dirs, pathext, files, windows)
              /\ windows => IsExecutable(editor[1], pathext)

(* The view calls a configured git ignored only when that git does not run, and   *)
(* honored only when it does: with the fallback that keeps the app working, this  *)
(* warning is all that tells the user that another git is used.  And an engine    *)
(* without git is one for which no candidate ran.                                 *)
HonoredIfRuns(paths, known) ==
    \A explicit \in {None} \cup {<<p>> : p \in paths}, runs \in [paths -> BOOLEAN],
       later \in [paths -> Printed] :
        LET engine == ResolveAndProbe(explicit, known, runs, later)
            verdict == ExplicitPathHonored(explicit, engine)
        IN  /\ verdict = "ignored" => ~runs[explicit[1]]
            /\ verdict = "honored" => runs[explicit[1]]
            /\ ~RequireExe(engine) <=>
                 \A p \in ToSet(CandidatePaths(explicit, known)) : ~runs[p]

=============================================================================
