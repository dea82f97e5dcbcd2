-------------------------------- MODULE Scan -------------------------------
(***************************************************************************)
(* The search of a folder for repos to add (store.rs).                     *)
(*                                                                         *)
(* A walk of the file system: what it reports is what the user can add, so *)
(* it must find every repo of a folder of clones and nothing inside one.   *)
(***************************************************************************)
EXTENDS Naturals, FiniteSets, Sequences, SequencesExt

CONSTANTS
    Name,               \* names of directories, ".git" among them
    SCAN_MAX_DEPTH

\* A directory is the sequence of names that leads to it; <<>> is the parent scanned.
Path == SeqOf(Name, SCAN_MAX_DEPTH + 1)

(* A file system: its directories, of which some are repos, some reached by a *)
(* symbolic link and some unreadable.                                         *)
FileSystem(dirs) ==
    [dirs : {dirs}, repo : SUBSET dirs, link : SUBSET (dirs \ {<<>>}), closed : SUBSET dirs]

Children(fs, dir) == {p \in fs.dirs : p # <<>> /\ Front(p) = dir}

\* git2 opens what is a repo, inside its .git too.
InspectOk(fs, dir) ==
    \/ dir \in fs.repo
    \/ dir # <<>> /\ Last(dir) = ".git" /\ Front(dir) \in fs.repo

RECURSIVE WalkForRepos(_, _, _)
WalkForRepos(fs, dir, depth) ==
    IF depth > SCAN_MAX_DEPTH THEN {}
    ELSE IF InspectOk(fs, dir) THEN {dir}
    ELSE IF dir \in fs.closed THEN {}
    ELSE UNION {WalkForRepos(fs, p, depth + 1) :
                  p \in {p \in Children(fs, dir) : p \notin fs.link /\ Last(p) # ".git"}}

\* The parent must be a directory; each repo found says whether it is tracked.
RepoScanParent(fs, parent, tracked) ==
    IF parent \notin fs.dirs THEN "path.missing"
    ELSE {[path |-> p, already_tracked |-> p \in tracked] : p \in WalkForRepos(fs, parent, 0)}

-----------------------------------------------------------------------------
Above(p) == {SubSeq(p, 1, i) : i \in 0 .. Len(p) - 1}

(* A scan finds exactly the repos that lie in no other repo, are reached through *)
(* readable directories without links, and are no deeper than SCAN_MAX_DEPTH;    *)
(* and nothing of .git.                                                          *)
FindsTopmost(dirs) ==
    \A fs \in FileSystem(dirs), tracked \in SUBSET {p \in dirs : Len(p) = 1} :
        RepoScanParent(fs, <<>>, tracked) =
          {[path |-> p, already_tracked |-> p \in tracked] : p \in
             {p \in fs.repo :
                /\ Len(p) <= SCAN_MAX_DEPTH
                /\ Above(p) \cap (fs.repo \cup fs.closed) = {}
                /\ ({p} \cup Above(p)) \cap fs.link = {}
                /\ \A i \in DOMAIN p : p[i] # ".git"}}

=============================================================================
