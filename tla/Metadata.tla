------------------------------- MODULE Metadata -------------------------------
(***************************************************************************)
(* The cached GitHub metadata (github.rs): the background refresh_pass and *)
(* the manual repo_refresh_metadata command, which share one request       *)
(* budget and hold its mutex for one repo's refresh at a time.             *)
(*                                                                         *)
(* A refresh asks for up to three resources, each under its own ETag and   *)
(* its own last-checked time, and stores every answer in a statement of    *)
(* its own.  Between asking and storing, time passes, GitHub publishes     *)
(* something newer, the repo is removed, or the app is restarted.          *)
(*                                                                         *)
(* What a resource says is a version: how often it has been published.     *)
(* Its ETag is its version; 0 stands for NULL in every column.  Beside the *)
(* columns, ver remembers which version the last answer was about.         *)
(***************************************************************************)
EXTENDS RateBudget, FiniteSets

CONSTANTS
    Repo,                  \* ids of the tracked GitHub repos
    RefreshWindow,         \* REFRESH_WINDOW_SECS
    Retracted,             \* versions at which a release has been taken back
    MaxTime,               \* bound: the clock stops here
    Watched,               \* bound: the repos that publish, and that the user handles
    MaxPublish,            \* bound on what they publish
    MaxFaults              \* bound on failed requests, reads and writes, removals and restarts

ASSUME MetadataAssumption ==
    /\ Repo \subseteq Nat /\ IsFiniteSet(Repo)
    /\ RefreshWindow \in Nat \ {0}
    /\ Retracted \subseteq Nat \ {0} /\ Watched \subseteq Repo
    /\ MaxTime \in Nat \ {0} /\ {MaxPublish, MaxFaults} \subseteq Nat

VARIABLES
    tracked,               \* the repos that have a row
    meta,                  \* repo_remote_meta: data, ETag and last-checked of each resource
    published,             \* GitHub: when each resource got each of its versions
    clock,
    events,                \* the budgeter's stamps
    queue,                 \* its mutex: the holder, then who waits
    call,                  \* the refresh_one_budgeted call of each caller
    pass,                  \* refresh_pass: the rows it read and has not yet come to
    manual,                \* repo_refresh_metadata: its repo and the tag seen before
    faults,                \* counts the bounded faults
    issued,                \* history: when each request was sent
    lag,                   \* history: the longest a request followed its call's stamp
    uncharged,             \* history: requests sent that the budgeter does not hold against us
    toasted,               \* history: the releases announced to the user
    excused                \* history: the pass met a removed repo or a failing database

callers == <<queue, call, pass, manual>>
history == <<issued, lag, uncharged, toasted, excused>>
vars == <<tracked, meta, published, clock, events, callers, faults, history>>

Time == 1..MaxTime
Caller == {"pass", "manual"}
Resource == {"repo", "release", "pr"}

Cached == [shown : Nat, etag : Nat, at : Nat, ver : Nat]
NothingCached == [res \in Resource |-> [shown |-> 0, etag |-> 0, at |-> 0, ver |-> 0]]

Version(r, res) == Len(published[r][res])
NoRelease(ver) == ver = 0 \/ ver \in Retracted

\* What a fetch found, as the transport reports it (RepoFetch, ReleaseFetch, PrFetch).
Kind == {"modified", "not_modified", "no_release", "unknown", "failed", "rate_limited"}
Answer == [kind : Kind, ver : Nat]
NoAnswer == [kind |-> "unknown", ver |-> 0]

\* "queued" for the mutex, or with a request "sent" whose answer is to be stored; only
\* the command lives on to "report".
Stage == {"idle", "queued", "sent", "report"}
Call == [stage : Stage, repo : Repo \cup {0}, now : Nat, due : SUBSET Resource,
         etag : [Resource -> Nat], answer : Answer, made : 0..MAX_REQUESTS_PER_REPO]
NoCall == [stage |-> "idle", repo |-> 0, now |-> 0, due |-> {},
           etag |-> [res \in Resource |-> 0], answer |-> NoAnswer, made |-> 0]

NoPass == [todo |-> {}, oldest |-> [r \in Repo |-> 0]]
Unread == -1

TypeOK ==
    /\ tracked \subseteq Repo
    /\ meta \in [Repo -> [Resource -> Cached]]
    /\ published \in [Repo -> [Resource -> Seq(Time)]]
    /\ clock \in Time
    /\ events \in Seq(Time) /\ Len(events) <= MaxPerWindow
    /\ queue \in Seq(Caller)
    /\ call \in [Caller -> Call]
    /\ pass \in [todo : SUBSET Repo, oldest : [Repo -> Nat]]
    /\ manual \in Nat \cup {Unread}
    /\ faults \in 0..MaxFaults
    /\ issued \in Seq(Time)
    /\ lag \in Nat /\ uncharged \in Nat
    /\ toasted \in [Repo -> SUBSET Nat]
    /\ excused \in BOOLEAN

\* Tracked repos that were never fetched, on a GitHub that has something to say of each.
Init ==
    /\ tracked = Repo
    /\ meta = [r \in Repo |-> NothingCached]
    /\ published = [r \in Repo |-> [res \in Resource |-> <<1>>]]
    /\ clock = 1
    /\ events = <<>>
    /\ queue = <<>>
    /\ call = [c \in Caller |-> NoCall]
    /\ pass = NoPass
    /\ manual = Unread
    /\ faults = 0
    /\ issued = <<>>
    /\ lag = 0 /\ uncharged = 0
    /\ toasted = [r \in Repo |-> {}]
    /\ excused = FALSE
-----------------------------------------------------------------------------
(* What is due, and in which order *)

\* ~is_within_refresh_window
Stale(at, now) == at = 0 \/ now - at >= RefreshWindow

DueResources(r, now) == {res \in Resource : Stale(meta[r][res].at, now)}

\* ORDER BY the earliest of a repo's three last-checked times, then its id.
OldestCheck(r) == CHOOSE t \in {meta[r][res].at : res \in Resource} :
                      \A res \in Resource : t <= meta[r][res].at

FirstOf(todo, oldest) ==
    CHOOSE r \in todo : \A q \in todo : oldest[r] < oldest[q] \/ (oldest[r] = oldest[q] /\ r <= q)

NextResource(due) ==
    IF "repo" \in due THEN "repo" ELSE IF "release" \in due THEN "release" ELSE "pr"

-----------------------------------------------------------------------------
(* The HTTP boundary *)

\* "limited" is a 403 whose X-RateLimit-Remaining is spent, "lost" no answer at all.
Status == {"200", "304", "403", "404", "5xx", "limited", "lost"}

\* A reachable GitHub honours If-None-Match, and has no release to show before the first one.
Reply(r, res, etag) ==
    IF res = "release" /\ NoRelease(Version(r, res)) THEN "404"
    ELSE IF etag # 0 /\ etag = Version(r, res) THEN "304" ELSE "200"

BadReply(res) == {"403", "5xx", "limited", "lost"} \cup (IF res = "release" THEN {} ELSE {"404"})

\* classify_repo_status: only a rate-limited answer is told from the other failures.
RepoFetch(status) ==
    CASE status = "200" -> "modified"
      [] status = "304" -> "not_modified"
      [] status = "limited" -> "rate_limited"
      [] OTHER -> "failed"

\* Mutant: a 403 clears the release, as the documentation of github.rs has it.
ReleaseFetchEager(status) ==
    CASE status = "200" -> "modified"
      [] status = "304" -> "not_modified"
      [] status \in {"403", "404"} -> "no_release"
      [] OTHER -> "unknown"

ReleaseFetch(status) ==
    CASE status = "200" -> "modified"
      [] status = "304" -> "not_modified"
      [] status = "404" -> "no_release"
      [] OTHER -> "unknown"

PrFetch(status) ==
    CASE status = "200" -> "modified"
      [] status = "304" -> "not_modified"
      [] OTHER -> "unknown"

Fetch(res, status) ==
    CASE res = "repo" -> RepoFetch(status)
      [] res = "release" -> ReleaseFetch(status)
      [] res = "pr" -> PrFetch(status)

-----------------------------------------------------------------------------
(* The end of a call *)

\* Mutant: the calls do not exclude each other.
HoldsBudgetUnlocked(c) == call[c].stage # "idle"

HoldsBudget(c) == queue # <<>> /\ Head(queue) = c

Queued(r, now) == [NoCall EXCEPT !.stage = "queued", !.repo = r, !.now = now]

\* Mutant: a repo that cannot be fetched stops the pass.
PassGoesOnIfFetched(outcome) == outcome = "refreshed"

\* refresh_pass goes on with the next row unless its budget, GitHub or an error stops it.
PassGoesOn(outcome) == outcome \in {"refreshed", "failed"}

\* The budget's mutex is released; a pass that goes on queues for it again, behind a
\* waiting command.  The stamp of its calls stays the time it started.
LeavePass(outcome) ==
    LET rest == pass.todo \ {call["pass"].repo}
    IN IF PassGoesOn(outcome) /\ rest # {}
       THEN /\ pass' = [pass EXCEPT !.todo = rest]
            /\ call' = [call EXCEPT !["pass"] = Queued(FirstOf(rest, pass.oldest), @.now)]
            /\ queue' = Append(Tail(queue), "pass")
       ELSE /\ pass' = NoPass
            /\ call' = [call EXCEPT !["pass"] = NoCall]
            /\ queue' = Tail(queue)

\* refresh_report_error: a repo that could not be fetched is an error to the user.
LeaveManual(outcome) ==
    /\ queue' = Tail(queue)
    /\ call' = [call EXCEPT !["manual"] =
                  IF outcome = "refreshed" THEN [NoCall EXCEPT !.stage = "report", !.repo = call["manual"].repo]
                  ELSE NoCall]
    /\ UNCHANGED pass

Leave(c, outcome) == IF c = "pass" THEN LeavePass(outcome) ELSE LeaveManual(outcome)

\* What a property may hold against a pass that stopped early: nothing, if so.
Excuse(c, cause) == excused' = (excused \/ (c = "pass" /\ cause))

-----------------------------------------------------------------------------
(* One budgeted refresh *)

\* How many requests really went out after from, up to and including to.
Sent(from, to) == Cardinality({i \in DOMAIN issued : issued[i] > from /\ issued[i] <= to})

\* The gate reserves the worst case.  What it refuses is not charged.
Refuse(c) ==
    /\ HoldsBudget(c) /\ call[c].stage = "queued"
    /\ ~CanSpend(events, call[c].now, MAX_REQUESTS_PER_REPO)
    /\ events' = Prune(events, call[c].now)
    /\ Leave(c, "exhausted")
    /\ Excuse(c, Sent(call[c].now - RateWindow, clock) + MAX_REQUESTS_PER_REPO > MaxPerWindow)
    /\ UNCHANGED <<tracked, meta, published, clock, manual, faults, issued, lag, uncharged, toasted>>

Funded(c) ==
    /\ HoldsBudget(c) /\ call[c].stage = "queued"
    /\ CanSpend(events, call[c].now, MAX_REQUESTS_PER_REPO)
    /\ events' = Prune(events, call[c].now)

\* The next due resource is requested, with the ETag that was read at the start; what
\* GitHub sees when the request arrives is what the call will store.
Send(c, k) ==
    LET res == NextResource(k.due)
        honest == Reply(k.repo, res, k.etag[res])
    IN /\ \E status \in {honest} \cup BadReply(res) :
            /\ status # honest => faults < MaxFaults
            /\ faults' = IF status = honest THEN faults ELSE faults + 1
            /\ call' = [call EXCEPT ![c] = [k EXCEPT !.stage = "sent", !.made = @ + 1,
                          !.answer = [kind |-> Fetch(res, status), ver |-> Version(k.repo, res)]]]
       /\ issued' = Append(issued, clock)
       /\ lag' = IF clock - k.now > lag THEN clock - k.now ELSE lag
       /\ UNCHANGED <<queue, pass>>

\* refresh_one reads the row, the ETags and the last-checked times; a manual refresh is
\* forced.  With nothing due it is served from the cache, and nothing is charged.
Start(c) ==
    LET r == call[c].repo
        due == IF c = "manual" THEN Resource ELSE DueResources(r, call[c].now)
    IN /\ Funded(c)
       /\ r \in tracked
       /\ IF due = {} THEN Leave(c, "refreshed") /\ UNCHANGED <<faults, issued, lag>>
          ELSE Send(c, [call[c] EXCEPT !.due = due,
                          !.etag = [res \in Resource |-> meta[r][res].etag]])
       /\ UNCHANGED <<tracked, meta, published, clock, manual, uncharged, toasted, excused>>

\* The repo was removed while the call waited: NotFound, and a pass breaks off.
NotFound(c) ==
    /\ Funded(c)
    /\ call[c].repo \notin tracked
    /\ Leave(c, "error")
    /\ Excuse(c, TRUE)
    /\ UNCHANGED <<tracked, meta, published, clock, manual, faults, issued, lag, uncharged, toasted>>

Fetched(shown, ver, now) == [shown |-> shown, etag |-> shown, at |-> now, ver |-> ver]

\* Mutant: an inconclusive answer counts as a check.
WrittenAlways(cached, answer, now) ==
    CASE answer.kind = "modified" -> Fetched(answer.ver, answer.ver, now)
      [] answer.kind = "no_release" -> Fetched(0, answer.ver, now)
      [] OTHER -> [cached EXCEPT !.at = now]

\* Mutant: a release that is gone keeps its ETag.
WrittenKeepingEtag(cached, answer, now) ==
    CASE answer.kind = "modified" -> Fetched(answer.ver, answer.ver, now)
      [] answer.kind = "no_release" -> [cached EXCEPT !.shown = 0, !.at = now, !.ver = answer.ver]
      [] answer.kind = "not_modified" -> [cached EXCEPT !.at = now]
      [] OTHER -> cached

\* The row after an answer.  A retracted release clears its columns and its ETag; what
\* could not be told leaves everything as it is, the last-checked time included.
Written(cached, answer, now) ==
    CASE answer.kind = "modified" -> Fetched(answer.ver, answer.ver, now)
      [] answer.kind = "no_release" -> Fetched(0, answer.ver, now)
      [] answer.kind = "not_modified" -> [cached EXCEPT !.at = now]
      [] OTHER -> cached

\* The call is over: it charges what it sent and releases the budget.
Charge(c) == events' = Record(events, call[c].now, call[c].made)

\* The repo resource could not be had: nothing is written and nothing more is asked.
StoreFailure(c) ==
    /\ call[c].stage = "sent"
    /\ call[c].answer.kind \in {"failed", "rate_limited"}
    /\ Charge(c)
    /\ Leave(c, call[c].answer.kind)
    /\ Excuse(c, call[c].answer.kind = "rate_limited")
    /\ UNCHANGED <<tracked, meta, published, clock, manual, faults, issued, lag, uncharged, toasted>>

\* An answer is stored, each resource in its own statement.  Updating the row of a
\* removed repo changes nothing; inserting one for it breaks its foreign key.
Store(c) ==
    LET r == call[c].repo
        res == NextResource(call[c].due)
        rest == call[c].due \ {res}
    IN /\ call[c].stage = "sent"
       /\ call[c].answer.kind \notin {"failed", "rate_limited"}
       /\ res = "repo" => r \in tracked
       /\ meta' = IF r \in tracked
                  THEN [meta EXCEPT ![r][res] = Written(@, call[c].answer, call[c].now)]
                  ELSE meta
       /\ IF rest = {} THEN Charge(c) /\ Leave(c, "refreshed") /\ UNCHANGED <<faults, issued, lag>>
          ELSE Send(c, [call[c] EXCEPT !.due = rest]) /\ UNCHANGED events
       /\ UNCHANGED <<tracked, published, clock, manual, uncharged, toasted, excused>>

\* A failing statement, or the foreign key of a removed repo: the error leaves
\* refresh_one_budgeted before it charges anything.
Breaks(c) ==
    LET orphan == /\ NextResource(call[c].due) = "repo"
                  /\ call[c].answer.kind \in {"modified", "not_modified"}
                  /\ call[c].repo \notin tracked
    IN /\ call[c].stage = "sent"
       /\ orphan \/ faults < MaxFaults
       /\ faults' = IF orphan THEN faults ELSE faults + 1
       /\ Leave(c, "error")
       /\ Excuse(c, TRUE)
       /\ uncharged' = uncharged + call[c].made
       /\ UNCHANGED <<tracked, meta, published, clock, events, manual, issued, lag, toasted>>

-----------------------------------------------------------------------------
(* The callers *)

\* refresh_pass reads every row once and skips, with the time it started, those with
\* nothing due.
PassStart ==
    LET due == {r \in tracked : DueResources(r, clock) # {}}
        oldest == [r \in Repo |-> OldestCheck(r)]
    IN /\ call["pass"].stage = "idle"
       /\ due # {}
       /\ pass' = [todo |-> due, oldest |-> oldest]
       /\ call' = [call EXCEPT !["pass"] = Queued(FirstOf(due, oldest), clock)]
       /\ queue' = Append(queue, "pass")
       /\ excused' = FALSE
       /\ UNCHANGED <<tracked, meta, published, clock, events, manual, faults, issued, lag,
                      uncharged, toasted>>

Tag(r) == meta[r]["release"].shown

\* repo_refresh_metadata: the tag is read before the wait for the budget, at best effort.
ManualBegin(r) ==
    /\ call["manual"].stage = "idle"
    /\ r \in tracked
    /\ \/ manual' = Tag(r) /\ UNCHANGED faults
       \/ manual' = Unread /\ faults < MaxFaults /\ faults' = faults + 1
    /\ call' = [call EXCEPT !["manual"] = Queued(r, clock)]
    /\ queue' = Append(queue, "manual")
    /\ UNCHANGED <<tracked, meta, published, clock, events, pass, history>>

\* Mutant: any release is news.
ReleaseChangeAny(before, after) == after # 0

\* release_change: a tag that is there now and was not before.
ReleaseChange(before, after) == after # 0 /\ after # before

\* The updated detail is read back, and a new release is announced.
ManualReport ==
    LET r == call["manual"].repo
    IN /\ call["manual"].stage = "report"
       /\ call' = [call EXCEPT !["manual"] = NoCall]
       /\ manual' = Unread
       /\ toasted' = IF r \in tracked /\ ReleaseChange(manual, Tag(r))
                     THEN [toasted EXCEPT ![r] = @ \cup {Tag(r)}] ELSE toasted
       /\ UNCHANGED <<tracked, meta, published, clock, events, queue, pass, faults, issued, lag,
                      uncharged, excused>>

-----------------------------------------------------------------------------
(* The rest of the world *)

\* repo_remove, whose cascade clears the cached row.
Remove(r) ==
    /\ r \in tracked
    /\ faults < MaxFaults
    /\ faults' = faults + 1
    /\ tracked' = tracked \ {r}
    /\ meta' = [meta EXCEPT ![r] = NothingCached]
    /\ UNCHANGED <<published, clock, events, callers, history>>

Publications == Cardinality({x \in Repo \X Resource \X Time : x[3] \in DOMAIN published[x[1]][x[2]]})
Publish(r, res) ==
    /\ Publications < Cardinality(Repo \X Resource) + MaxPublish
    /\ published' = [published EXCEPT ![r][res] = Append(@, clock)]
    /\ UNCHANGED <<tracked, meta, clock, events, callers, faults, history>>

Pass ==
    /\ clock < MaxTime
    /\ clock' = clock + 1
    /\ UNCHANGED <<tracked, meta, published, events, callers, faults, history>>

\* The process ends and starts again: the budget and every call are forgotten, what was
\* stored stays.
Restart ==
    /\ faults < MaxFaults
    /\ faults' = faults + 1
    /\ events' = <<>>
    /\ queue' = <<>>
    /\ call' = [c \in Caller |-> NoCall]
    /\ pass' = NoPass
    /\ manual' = Unread
    /\ uncharged' = uncharged + Cardinality(Live(events, clock)) + call["pass"].made + call["manual"].made
    /\ excused' = TRUE
    /\ UNCHANGED <<tracked, meta, published, clock, issued, lag, toasted>>

-----------------------------------------------------------------------------

Progress(c) == Refuse(c) \/ Start(c) \/ NotFound(c) \/ StoreFailure(c) \/ Store(c) \/ Breaks(c)

Next ==
    \/ \E c \in Caller : Progress(c)
    \/ PassStart \/ ManualReport \/ Pass \/ Restart
    \/ \E r \in Watched : ManualBegin(r) \/ Remove(r) \/ \E res \in Resource : Publish(r, res)

Spec == Init /\ [][Next]_vars

-----------------------------------------------------------------------------
(* Properties *)

\* A stored ETag belongs to the stored data, so a 304 can only confirm what is there:
\* the columns and their ETag are written together and cleared together.
EtagMatchesData ==
    \A r \in tracked : \A res \in Resource :
        meta[r][res].etag # 0 => meta[r][res].etag = meta[r][res].shown

\* "As of" is honest: what is shown was GitHub's at or after the time it is marked with,
\* although the mark is the call's stamp and the answer comes later, and a release is
\* missing only if GitHub had none, which a 404 says.  A 403 says nothing, and the row stays
\* as it was: so fetch_release, against the documentation of github.rs (lines 22 and 796),
\* which counts a 403 as "no release" too.
AsOfHonest ==
    \A r \in tracked : \A res \in Resource :
        LET cached == meta[r][res]
            gone == res = "release" /\ NoRelease(cached.ver)
        IN cached.at # 0 =>
             /\ cached.shown = IF gone THEN 0 ELSE cached.ver
             /\ cached.ver < Version(r, res) => published[r][res][cached.ver + 1] >= cached.at

\* A pass and a command on one repo never overwrite newer data with older: the budget's
\* mutex is also what keeps them from fetching the same repo at once.
NeverRegress ==
    [][\A r \in tracked \cap tracked' : \A res \in Resource :
        meta'[r][res].ver >= meta[r][res].ver]_vars

\* The hourly budget as far as the code keeps it: in any window that is shorter than an hour
\* by the longest delay between a call's stamp and its requests, no more than the budget goes
\* out, but for requests a failing database or a restart made it forget.  github.rs promises
\* more, the budget "in any rolling hour" (line 1256, and lines 60 and 1210), which a call
\* that is delayed after its stamp, or that ends in a database error, can break.
HourlyBudget ==
    \A t \in Time : Sent(t - (RateWindow - lag), t) <= MaxPerWindow + uncharged

\* A pass that stops has come to every row it selected, unless the requests of the last
\* hour leave no room, GitHub limits us, or a removal, the database or a restart broke it:
\* a repo that cannot be fetched does not keep the others from their turn.
PassComplete ==
    [][pass # NoPass /\ pass' = NoPass => pass.todo = {call["pass"].repo} \/ excused']_vars

\* One toast per release: the command announces no release that it announced before,
\* unless it could not read what was cached (repo_refresh_metadata: "raise ONE release toast").
ToastOnce ==
    [][call["manual"].stage = "report" /\ call'["manual"].stage = "idle" /\ manual # Unread
        /\ call["manual"].repo \in tracked /\ ReleaseChange(manual, Tag(call["manual"].repo))
        => Tag(call["manual"].repo) \notin toasted[call["manual"].repo]]_vars
=============================================================================
