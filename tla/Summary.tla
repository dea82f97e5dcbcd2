------------------------------ MODULE Summary ------------------------------
(***************************************************************************)
(* Groups and the daily summary (store.rs, groups; summary.rs).            *)
(*                                                                         *)
(* The summary of a day counts repos in four buckets, of all repos or of   *)
(* one group.  It is computed by three queries, one after the other and in *)
(* no transaction, while repos are added and removed, regrouped, checked   *)
(* and updated: what the answer says need not be true of any one moment.   *)
(***************************************************************************)
EXTENDS Civil

CONSTANTS
    MaxRepo,    \* repo ids end here
    MaxGroup,   \* group ids end here
    Name,       \* names of groups
    Color,      \* their colors
    All,        \* the scope that is no group
    Day,        \* seconds of a day
    Offset,     \* the session's offset from UTC
    MaxTime     \* the clock stops here

Repo == 1 .. MaxRepo
GroupId == 1 .. MaxGroup
Scope == {All} \cup GroupId
Time == 0 .. MaxTime

\* What the theorems take for granted of the constants.
SummaryAssumption ==
    /\ MaxRepo \in Nat /\ MaxGroup \in Nat /\ MaxTime \in Nat
    /\ All \notin GroupId
    /\ Day \in Nat \ {0} /\ Offset \in Int

VARIABLES
    now,        \* the wall clock
    repos,      \* the tracked repos
    nextRepo,   \* AUTOINCREMENT: ids grow and are never used again
    groups,     \* the groups, by id: name and color
    nextGroup,  \* AUTOINCREMENT
    member,     \* repo_groups
    log,        \* activity_records
    state,      \* the columns of each repo that ask for attention
    release,    \* latest_release_at, 0 is NULL
    reader,     \* the summary under way or last answered
    may,        \* history: the repos that were in a bucket at some moment of it
    must        \* history: the repos that were in a bucket all through it

tables == <<repos, nextRepo, groups, nextGroup, member, log, state, release>>
seen == <<may, must>>
vars == <<now, tables, reader, seen>>

Group == [name : Name, color : Color]
\* A warning counts like a failure, a fetch like a check, a pull like an update.
Receipt == [repo : Repo, at : Time, status : {"success", "skipped", "failed"},
            action : {"update", "check", "admin"}, range : BOOLEAN]
State == [errored : BOOLEAN, dirty : BOOLEAN]
Fine == [errored |-> FALSE, dirty |-> FALSE]

Bucket == [updated : SUBSET Repo, calm : SUBSET Repo, attention : SUBSET Repo,
           releases : SUBSET Repo]
Empty == [updated |-> {}, calm |-> {}, attention |-> {}, releases |-> {}]
Window == [from : Int, until : Int]

-----------------------------------------------------------------------------
(* What each query selects, of the tables at one moment.  Counts are of repos. *)

Members(g) == {r \in repos : <<r, g>> \in member}

InScope(s) == IF s = All THEN repos ELSE Members(s)

ClassifyRow(e) ==
    CASE e.status = "success" /\ e.action = "update" -> IF e.range THEN "updated" ELSE "no_change"
      [] e.status = "success" /\ e.action = "check"  -> "no_change"
      [] e.status = "skipped"                        -> "no_change"
      [] OTHER                                       -> "none"

Active(s, w, bucket) ==
    {r \in InScope(s) :
        \E e \in log : e.repo = r /\ Within(w, e.at) /\ ClassifyRow(e) = bucket}

Updated(s, w) == Active(s, w, "updated")

\* Updated wins over no change.
NoChange(s, w) == Active(s, w, "no_change") \ Updated(s, w)

Attention(s) == {r \in InScope(s) : state[r].errored \/ state[r].dirty}

NewReleases(s, w) == {r \in InScope(s) : release[r] # 0 /\ Within(w, release[r])}

\* The summary that one transaction would give.
AtOnce(s, w) ==
    [updated   |-> Updated(s, w),
     calm      |-> NoChange(s, w) \ Attention(s),
     attention |-> Attention(s),
     releases  |-> NewReleases(s, w)]

-----------------------------------------------------------------------------
TypeOK ==
    /\ now \in Time
    /\ repos \subseteq Repo
    /\ nextRepo \in 1 .. MaxRepo + 1
    /\ DOMAIN groups \subseteq GroupId
    /\ groups \in [DOMAIN groups -> Group]
    /\ nextGroup \in 1 .. MaxGroup + 1
    /\ member \subseteq Repo \X GroupId
    /\ log \subseteq Receipt
    /\ state \in [Repo -> State]
    /\ release \in [Repo -> Time]
    /\ reader \in [stage : {"idle", "asked", "rows", "states", "done"}, scope : Scope,
                   window : Window, got : Bucket]
    /\ may \in Bucket /\ must \in Bucket

Idle == [stage |-> "idle", scope |-> All, window |-> DayWindow(0, Offset, Day), got |-> Empty]

Init ==
    /\ now = 0
    /\ repos = {} /\ nextRepo = 1
    /\ groups = [g \in {} |-> 0] /\ nextGroup = 1
    /\ member = {}
    /\ log = {}
    /\ state = [r \in Repo |-> Fine]
    /\ release = [r \in Repo |-> 0]
    /\ reader = Idle
    /\ may = Empty /\ must = Empty

-----------------------------------------------------------------------------
(* The registry and what runs, passes and sweeps write to it. *)

Tick ==
    /\ now < MaxTime
    /\ now' = now + 1
    /\ UNCHANGED <<tables, reader>>

AddRepo ==
    /\ nextRepo \in Repo
    /\ nextRepo' = nextRepo + 1
    /\ repos' = repos \cup {nextRepo}
    /\ \E dirty \in BOOLEAN : state' = [state EXCEPT ![nextRepo] = [Fine EXCEPT !.dirty = dirty]]
    /\ UNCHANGED <<now, groups, nextGroup, member, log, release, reader>>

\* Its rows go with it.
RemoveRepo(r) ==
    /\ r \in repos
    /\ repos' = repos \ {r}
    /\ member' = {m \in member : m[1] # r}
    /\ log' = {e \in log : e.repo # r}
    /\ state' = [state EXCEPT ![r] = Fine]
    /\ release' = [release EXCEPT ![r] = 0]
    /\ UNCHANGED <<now, nextRepo, groups, nextGroup, reader>>

\* A check or an update ends: the row, and its receipt beside it or not.
EndRun(r) ==
    /\ r \in repos
    /\ \E health \in State : state' = [state EXCEPT ![r] = health]
    /\ \/ \E e \in Receipt : e.repo = r /\ e.at = now /\ log' = log \cup {e}
       \/ UNCHANGED log
    /\ UNCHANGED <<now, repos, nextRepo, groups, nextGroup, member, release, reader>>

\* A refresh stores the latest release, or that there is none any more.
Refresh(r) ==
    /\ r \in repos
    /\ \E at \in Time : release' = [release EXCEPT ![r] = at]
    /\ UNCHANGED <<now, repos, nextRepo, groups, nextGroup, member, log, state, reader>>

Sweep ==
    /\ \E cutoff \in Time : log' = {e \in log : e.at >= cutoff}
    /\ UNCHANGED <<now, repos, nextRepo, groups, nextGroup, member, state, release, reader>>

-----------------------------------------------------------------------------
(* Groups.  A command that is refused changes nothing. *)

Taken(name, but) == \E g \in DOMAIN groups \ but : groups[g].name = name

GroupCreate(name, color) ==
    /\ ~Taken(name, {})
    /\ nextGroup \in GroupId
    /\ nextGroup' = nextGroup + 1
    /\ groups' = [g \in DOMAIN groups \cup {nextGroup} |->
                    IF g = nextGroup THEN [name |-> name, color |-> color] ELSE groups[g]]
    /\ UNCHANGED <<now, repos, nextRepo, member, log, state, release, reader>>

GroupRename(g, name) ==
    /\ g \in DOMAIN groups /\ ~Taken(name, {g})
    /\ groups' = [groups EXCEPT ![g].name = name]
    /\ UNCHANGED <<now, repos, nextRepo, nextGroup, member, log, state, release, reader>>

GroupUpdate(g, name, color) ==
    /\ g \in DOMAIN groups /\ ~Taken(name, {g})
    /\ groups' = [groups EXCEPT ![g] = [name |-> name, color |-> color]]
    /\ UNCHANGED <<now, repos, nextRepo, nextGroup, member, log, state, release, reader>>

GroupDelete(g) ==
    /\ groups' = [h \in DOMAIN groups \ {g} |-> groups[h]]
    /\ member' = {m \in member : m[2] # g}
    /\ UNCHANGED <<now, repos, nextRepo, nextGroup, log, state, release, reader>>

GroupAssign(r, g) ==
    /\ r \in repos /\ g \in DOMAIN groups
    /\ member' = member \cup {<<r, g>>}
    /\ UNCHANGED <<now, repos, nextRepo, groups, nextGroup, log, state, release, reader>>

GroupUnassign(r, g) ==
    /\ member' = member \ {<<r, g>>}
    /\ UNCHANGED <<now, repos, nextRepo, groups, nextGroup, log, state, release, reader>>

-----------------------------------------------------------------------------
(* summary_today, query by query. *)

Reading == reader.stage \in {"asked", "rows", "states"}

Ask(s) ==
    /\ ~Reading
    /\ reader' = [stage |-> "asked", scope |-> s, window |-> DayWindow(now, Offset, Day),
                  got |-> Empty]
    /\ UNCHANGED <<now, tables>>

\* The aggregate of the rows keeps the repos without an update for later.
ReadRows ==
    /\ reader.stage = "asked"
    /\ reader' = [reader EXCEPT
         !.stage = "rows",
         !.got.updated = Updated(reader.scope, reader.window),
         !.got.calm = NoChange(reader.scope, reader.window)]
    /\ UNCHANGED <<now, tables>>

\* Attention wins over no change.
ReadStates ==
    /\ reader.stage = "rows"
    /\ LET attention == Attention(reader.scope) IN
         reader' = [reader EXCEPT
           !.stage = "states",
           !.got.attention = attention,
           !.got.calm = @ \ attention]
    /\ UNCHANGED <<now, tables>>

ReadReleases ==
    /\ reader.stage = "states"
    /\ reader' = [reader EXCEPT
         !.stage = "done",
         !.got.releases = NewReleases(reader.scope, reader.window)]
    /\ UNCHANGED <<now, tables>>

ReadFails ==
    /\ Reading
    /\ reader' = Idle
    /\ UNCHANGED <<now, tables>>

-----------------------------------------------------------------------------
Both(f, g) ==
    [updated   |-> f.updated \cap g.updated,
     calm      |-> f.calm \cap g.calm,
     attention |-> f.attention \cap g.attention,
     releases  |-> f.releases \cap g.releases]

Either(f, g) ==
    [updated   |-> f.updated \cup g.updated,
     calm      |-> f.calm \cup g.calm,
     attention |-> f.attention \cup g.attention,
     releases  |-> f.releases \cup g.releases]

\* What the summary under way would be if all of it were read now.
Now == AtOnce(reader.scope, reader.window)

Watch ==
    IF reader.stage # "asked" /\ reader'.stage = "asked"
    THEN may' = Now' /\ must' = Now'
    ELSE IF Reading
    THEN may' = Either(may, Now') /\ must' = Both(must, Now')
    ELSE UNCHANGED seen

Write ==
    \/ AddRepo
    \/ \E r \in Repo : RemoveRepo(r) \/ EndRun(r) \/ Refresh(r)
    \/ Sweep

Regroup ==
    \/ \E name \in Name, color \in Color : GroupCreate(name, color)
    \/ \E g \in GroupId :
         \/ \E name \in Name : GroupRename(g, name)
         \/ \E name \in Name, color \in Color : GroupUpdate(g, name, color)
         \/ GroupDelete(g)
         \/ \E r \in Repo : GroupAssign(r, g) \/ GroupUnassign(r, g)

Read == (\E s \in Scope : Ask(s)) \/ ReadRows \/ ReadStates \/ ReadReleases \/ ReadFails

Next == (Tick \/ Write \/ Regroup \/ Read) /\ Watch

Spec == Init /\ [][Next]_vars

-----------------------------------------------------------------------------
Between(S, low, high) == low \subseteq S /\ S \subseteq high

(* Every list of an answer is true of the time it was read in: it has each    *)
(* repo that belonged there all through, and none that never did.  The number *)
(* of quiet repos counts each one that was quiet all through.  (It may count  *)
(* one that never was: checked with an error before, updated without one      *)
(* after the rows were read.)                                                 *)
AnswerBracketed ==
    reader.stage = "done" =>
        /\ Between(reader.got.updated, must.updated, may.updated)
        /\ Between(reader.got.attention, must.attention, may.attention)
        /\ Between(reader.got.releases, must.releases, may.releases)
        /\ must.calm \subseteq reader.got.calm

(* Whatever moments an answer mixes, it never counts a repo as quiet that it  *)
(* lists as updated or as wanting attention.                                  *)
BucketsDisjoint ==
    reader.stage = "done" =>
        reader.got.calm \cap (reader.got.updated \cup reader.got.attention) = {}

(* Memberships and receipts are of repos and groups that exist, and two groups *)
(* never have one name, through every order of removals and renames.           *)
TablesAgree ==
    /\ member \subseteq repos \X DOMAIN groups
    /\ \A e \in log : e.repo \in repos
    /\ \A g, h \in DOMAIN groups : groups[g].name = groups[h].name => g = h

=============================================================================
