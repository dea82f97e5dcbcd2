------------------------------- MODULE Database -------------------------------
(***************************************************************************)
(* The database file, what can be wrong with it, and how db.rs sets a      *)
(* corrupt one aside.  A database is known by its generation (the order in *)
(* which they were created), and carries the settings and its damage.      *)
(* Backups and siblings are named after a second, in which more than one   *)
(* may be made.  Committed data may lie in the write-ahead log beside its  *)
(* database; it is renamed after it, at best effort, and SQLite deletes a  *)
(* log it finds beside a file that is absent or empty.                     *)
(***************************************************************************)
EXTENDS Naturals, FiniteSets

\* "foreign" stands for a version or checksum mismatch, and any other failing migration.
Damage == {"none", "corrupt", "foreign"}

\* The row settings_get seeds: the defaults of the schema.  No path means "search PATH".
NoPath == "none"
DefaultSettings == [autostart |-> "off", close |-> TRUE, path |-> NoPath]

NewDb(gen) == [gen |-> gen, damage |-> "none", settings |-> DefaultSettings]
NoDb == NewDb(0)

\* Mutant: what cannot be opened is reset.
ClassifyInitFailureBroad(cause) == IF cause = "locked" THEN "Locked" ELSE "Corrupt"

ClassifyInitFailure(cause) ==
    CASE cause = "corrupt" -> "Corrupt"
      [] cause = "locked" -> "Locked"
      [] OTHER -> "Fatal"

\* Mutant: a second backup of the same second takes the name of the first.
UniqueBackupDestFirst(aside, stamp) == <<stamp, 0>>

\* unique_backup_dest: the first free name of this second.
UniqueBackupDest(aside, stamp) ==
    LET taken == {n \in 0..Cardinality(DOMAIN aside) : <<stamp, n>> \in DOMAIN aside}
        free == 0..Cardinality(DOMAIN aside) \ taken
    IN <<stamp, CHOOSE n \in free : \A k \in free : n <= k>>

Put(files, name, db) == [f \in DOMAIN files \cup {name} |-> IF f = name THEN db ELSE files[f]]

\* move_db_aside, the .db file; a path without a file needs no move.
MoveAside(disk, stamp) ==
    [disk EXCEPT !.main = NoDb,
                 !.aside = IF disk.main = NoDb THEN @
                           ELSE Put(@, UniqueBackupDest(@, stamp), disk.main)]

\* Where the log of a database is that was moved aside: beside it, left behind under the main
\* path, or gone; and whether its move failed or was cut off.  Each is taken to have a log with
\* commits, as after an unclean end: one without has less to lose.
Log == [at : {"beside", "behind", "gone"}, torn : BOOLEAN]
Beside == [at |-> "beside", torn |-> FALSE]

LeftBehind(logs) == {g \in DOMAIN logs : logs[g].at = "behind"}
\* What was left behind is now somewhere else; all else stays.
Relocated(logs, log) == [g \in DOMAIN logs |-> IF g \in LeftBehind(logs) THEN log ELSE logs[g]]

\* The .db file of a generation is renamed, and its sidecars are not yet.
Behind(logs, gen) ==
    [g \in DOMAIN logs \cup {gen} |->
        IF g = gen THEN [at |-> "behind", torn |-> FALSE] ELSE logs[g]]

\* Mutant: the sidecars are not moved.
FollowedNot(logs) == logs

\* move_db_aside, the sidecars: they follow, or they do not.
Followed(logs) == Relocated(logs, Beside)
Torn(logs) == Relocated(logs, [at |-> "behind", torn |-> TRUE])

\* SQLite opens a path whose database is absent: a log found there is deleted.
Overwritten(logs) ==
    [g \in DOMAIN logs |-> IF g \in LeftBehind(logs) THEN [logs[g] EXCEPT !.at = "gone"] ELSE logs[g]]

\* The file a pool is opened on (a sibling goes by its second), and that file written back.
Main == 0
At(disk, where) == IF where = Main THEN disk.main ELSE disk.fresh[where]
With(disk, where, db) ==
    IF where = Main THEN [disk EXCEPT !.main = db] ELSE [disk EXCEPT !.fresh = Put(@, where, db)]

\* open_pool and run_migrations: an absent file becomes a new database, a present one is opened.
Opened(disk, where, new) ==
    IF where = Main
    THEN IF disk.main = NoDb THEN With(disk, Main, new) ELSE disk
    ELSE IF where \in DOMAIN disk.fresh THEN disk ELSE With(disk, where, new)

Files(disk) == ({disk.main} \ {NoDb}) \cup {disk.aside[f] : f \in DOMAIN disk.aside}
                                      \cup {disk.fresh[f] : f \in DOMAIN disk.fresh}
=============================================================================
