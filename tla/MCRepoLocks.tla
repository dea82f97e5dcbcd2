---------------------------- MODULE MCRepoLocks ----------------------------
(* Instances of RepoLocks for TLC: which row ids stand for which folders. *)
EXTENDS RepoLocks, TLC

CONSTANTS r1, r2, r3, t1, t2

\* r1 and r2 are one folder, removed and added again; r3 is another.
ReAddedFolder == (r1 :> t1) @@ (r2 :> t1) @@ (r3 :> t2)

\* Two folders that compete only for permits.
TwoFolders == (r1 :> t1) @@ (r2 :> t2)
=============================================================================
