----------------------------- MODULE MetadataProofs -----------------------------
(***************************************************************************)
(* For any repos, budget, windows and stretch of time: the cached metadata *)
(* is GitHub's, a pass comes to every row it selected, and the requests    *)
(* stay within the hourly budget.                                          *)
(***************************************************************************)
EXTENDS Metadata, FiniteSetTheorems, SequenceTheorems, WellFoundedInduction, TLAPS

-----------------------------------------------------------------------------
(* The calls *)

\* The budget's mutex is held and waited for by those who are in a refresh, each once.
Queues == {<<>>, <<"pass">>, <<"manual">>, <<"pass", "manual">>, <<"manual", "pass">>}
Waits(c) == \E i \in 1..Len(queue) : queue[i] = c

QueueInv ==
    /\ queue \in Queues
    /\ \A c \in Caller : Waits(c) <=> call[c].stage \in {"queued", "sent"}
    /\ \A c \in Caller : call[c].stage = "sent" => HoldsBudget(c)
    /\ call["pass"].stage # "report"

\* A pass is at a row that it still has to do.
PassInv ==
    /\ call["pass"].stage = "idle" => pass = NoPass
    /\ call["pass"].stage # "idle" => call["pass"].repo \in pass.todo

\* The place of a resource in the order of the requests.
Place(res) == IF res = "repo" THEN 1 ELSE IF res = "release" THEN 2 ELSE 3

\* A call's stamp lies in the past, and only a call that has sent something owes for it.
CallInv ==
    \A c \in Caller :
        LET k == call[c]
        IN /\ k.stage # "sent" => k.made = 0
           /\ k.stage # "idle" => k.repo \in Repo
           /\ k.stage \in {"queued", "sent"} => 1 <= k.now /\ k.now <= clock
           /\ k.stage = "sent" => /\ k.due # {}
                                  /\ 1 <= k.made /\ k.made <= Place(NextResource(k.due))

\* Whoever has sent a request was let in with room for three.
RoomInv ==
    \A c \in Caller : call[c].stage = "sent" => Len(events) + MAX_REQUESTS_PER_REPO <= MaxPerWindow

BaseInv == TypeOK /\ QueueInv /\ PassInv /\ CallInv /\ RoomInv

-----------------------------------------------------------------------------
(* The data *)

\* What GitHub said of a resource at some time after at, or still says.
CurrentSince(r, res, ver, at) ==
    /\ ver <= Version(r, res)
    /\ ver < Version(r, res) => published[r][res][ver + 1] >= at

Gone(res, ver) == res = "release" /\ NoRelease(ver)

PublishedInv == \A r \in Repo : \A res \in Resource : Version(r, res) >= 1

\* A row is empty, or it shows a version that was current at its mark.
RowOK(r, res, cached) ==
    /\ cached.etag # 0 => cached.etag = cached.ver /\ cached.shown = cached.ver
    /\ cached.at = 0 => cached = NothingCached[res]
    /\ cached.at # 0 => /\ cached.shown = IF Gone(res, cached.ver) THEN 0 ELSE cached.ver
                        /\ cached.at <= clock
    /\ CurrentSince(r, res, cached.ver, cached.at)

MetaInv == \A r \in Repo : \A res \in Resource : RowOK(r, res, meta[r][res])

\* What came back says of a version what GitHub said of it, and no less than was cached.
AnswerOK(k) ==
    LET res == NextResource(k.due)
        ver == k.answer.ver
    IN /\ CurrentSince(k.repo, res, ver, k.now)
       /\ k.answer.kind = "modified" => ver # 0 /\ ~Gone(res, ver)
       /\ k.answer.kind = "no_release" => Gone(res, ver)
       /\ k.answer.kind = "not_modified" => ver # 0 /\ k.etag[res] = ver /\ ~Gone(res, ver)
       /\ k.repo \in tracked =>
            /\ \A d \in k.due : k.etag[d] = meta[k.repo][d].etag
            /\ meta[k.repo][res].ver <= ver

AnswerInv == \A c \in Caller : call[c].stage = "sent" => AnswerOK(call[c])

\* What was announced is no later than what is cached, and what a command read before
\* is what is shown now unless a later release was stored.
ToastInv ==
    /\ \A r \in tracked : \A tag \in toasted[r] : tag # 0 /\ tag <= meta[r]["release"].ver
    /\ call["manual"].stage # "idle" /\ manual # Unread /\ call["manual"].repo \in tracked
         => \A tag \in toasted[call["manual"].repo] : tag = Tag(call["manual"].repo) => tag = manual

DataInv == PublishedInv /\ MetaInv /\ AnswerInv /\ ToastInv

-----------------------------------------------------------------------------
(* The requests *)

\* The requests of the call that holds the budget, which are not charged yet.
Pending == call["pass"].made + call["manual"].made

InOrder(times) == \A i, j \in DOMAIN times : i <= j => times[i] <= times[j]

\* The requests went out in order, and none after now.
IssuedInv ==
    /\ \A i \in DOMAIN issued : issued[i] <= clock
    /\ InOrder(issued)

\* Behind every stamp there is a request of its own, no earlier than the stamp: counted
\* from the back, but for the n pending ones, they come in the order of the stamps.
Backed(stamps, times, n) ==
    \A i \in DOMAIN stamps :
        LET back == Len(times) - n - (Len(stamps) - i)
        IN back >= 1 /\ times[back] >= stamps[i]

BackedInv ==
    /\ Backed(events, issued, Pending)
    /\ \A c \in Caller : call[c].stage = "sent" =>
         /\ Len(issued) >= call[c].made
         /\ issued[Len(issued) - call[c].made + 1] >= call[c].now

\* How many of a sequence's times lie after a time.
After(times, t) == Cardinality({i \in DOMAIN times : times[i] > t})

PendingAfter(t) ==
    (IF call["pass"].now > t THEN call["pass"].made ELSE 0)
    + (IF call["manual"].now > t THEN call["manual"].made ELSE 0)

\* A request that went out after t + lag has a stamp after t, is pending under such a
\* stamp, or is not held against us.  A stamp no later than clock - RateWindow may be gone.
ChargedInv ==
    \A t \in (clock - RateWindow)..MaxTime :
        After(issued, t + lag) <= After(events, t) + PendingAfter(t) + uncharged

BudgetInv == IssuedInv /\ BackedInv /\ ChargedInv

-----------------------------------------------------------------------------
(* The operators *)

\* A set of natural numbers has a least one.
LEMMA LeastOf ==
  ASSUME NEW S \in SUBSET Nat, S # {}
  PROVE  \E m \in S : \A n \in S : m <= n
<1>1. PICK m \in S : \A n \in S : ~ (<<n, m>> \in OpToRel(<, Nat))
  BY NatLessThanWellFounded, WFMin, Zenon
<1>2. ASSUME NEW n \in S PROVE m <= n
  <2>1. ~ (n < m)
    BY <1>1 DEF OpToRel
  <2> QED
    BY <2>1
<1> QED
  BY <1>2

\* The first of some repos is one of them.
LEMMA FirstOfIn ==
  ASSUME NEW todo \in SUBSET Nat, todo # {}, NEW oldest, \A r \in todo : oldest[r] \in Nat
  PROVE  FirstOf(todo, oldest) \in todo
<1>1. PICK t \in {oldest[r] : r \in todo} : \A u \in {oldest[r] : r \in todo} : t <= u
  <2>1. {oldest[r] : r \in todo} \in SUBSET Nat /\ {oldest[r] : r \in todo} # {}
    OBVIOUS
  <2> HIDE DEF FirstOf
  <2> QED
    BY <2>1, LeastOf
<1> DEFINE longest == {r \in todo : oldest[r] = t}
<1>2. longest \in SUBSET Nat /\ longest # {}
  BY <1>1
<1>3. PICK r \in longest : \A q \in longest : r <= q
  BY <1>2, LeastOf
<1>4. \A q \in todo : oldest[r] < oldest[q] \/ (oldest[r] = oldest[q] /\ r <= q)
  <2> TAKE q \in todo
  <2>1. oldest[r] <= oldest[q] /\ oldest[r] \in Nat /\ oldest[q] \in Nat
    BY <1>1, <1>3
  <2>2. oldest[r] = oldest[q] => q \in longest
    BY <1>3
  <2> QED
    BY <2>1, <2>2, <1>3
<1> QED
  BY <1>3, <1>4 DEF FirstOf

\* The earliest of a row's marks is a time.
LEMMA OldestCheckType ==
  ASSUME NEW r, \A res \in Resource : meta[r][res].at \in Nat
  PROVE  OldestCheck(r) \in Nat
<1> DEFINE ats == {meta[r][res].at : res \in Resource}
<1>1. ats \in SUBSET Nat /\ ats # {}
  BY DEF Resource
<1>2. \E t \in ats : \A u \in ats : t <= u
  BY <1>1, LeastOf
<1>3. \E t \in ats : \A res \in Resource : t <= meta[r][res].at
  BY <1>2
<1> QED
  BY <1>1, <1>3 DEF OldestCheck

\* Pruning drops dead stamps from the front, up to the first live one.
LEMMA PruneIs ==
  ASSUME NEW stamps \in Seq(Int), NEW now \in Int
  PROVE  \/ /\ Live(stamps, now) = {} /\ Prune(stamps, now) = <<>>
         \/ \E first \in Live(stamps, now) :
              /\ \A j \in Live(stamps, now) : first <= j
              /\ Prune(stamps, now) = SubSeq(stamps, first, Len(stamps))
<1> SUFFICES ASSUME Live(stamps, now) # {}
             PROVE  \E first \in Live(stamps, now) :
                      /\ \A j \in Live(stamps, now) : first <= j
                      /\ Prune(stamps, now) = SubSeq(stamps, first, Len(stamps))
  BY DEF Prune
<1> DEFINE first == CHOOSE i \in Live(stamps, now) : \A j \in Live(stamps, now) : i <= j
<1>1. Live(stamps, now) \in SUBSET Nat
  BY DEF Live
<1>2. \E i \in Live(stamps, now) : \A j \in Live(stamps, now) : i <= j
  BY <1>1, LeastOf
<1>3. first \in Live(stamps, now) /\ \A j \in Live(stamps, now) : first <= j
  BY <1>2
<1>4. Prune(stamps, now) = SubSeq(stamps, first, Len(stamps))
  BY DEF Prune
<1> QED
  BY <1>3, <1>4

\* What is left are stamps, and no more of them.
LEMMA PruneType ==
  ASSUME NEW S \in SUBSET Int, NEW stamps \in Seq(S), NEW now \in Int
  PROVE  Prune(stamps, now) \in Seq(S) /\ Len(Prune(stamps, now)) <= Len(stamps)
<1>1. stamps \in Seq(Int)
  BY SeqMonotonic
<1>2. CASE Prune(stamps, now) = <<>>
  BY <1>2
<1>3. CASE \E first \in Live(stamps, now) : Prune(stamps, now) = SubSeq(stamps, first, Len(stamps))
  <2> PICK first \in 1..Len(stamps) : Prune(stamps, now) = SubSeq(stamps, first, Len(stamps))
    BY <1>3 DEF Live
  <2> QED
    OBVIOUS
<1> QED
  BY <1>1, <1>2, <1>3, PruneIs

\* The gate lets a refresh in exactly when what is left keeps room for its three requests.
LEMMA CanSpendIs ==
  ASSUME RateBudgetAssumption, NEW stamps \in Seq(Int), NEW now \in Int
  PROVE  CanSpend(stamps, now, MAX_REQUESTS_PER_REPO)
           <=> Len(Prune(stamps, now)) + MAX_REQUESTS_PER_REPO <= MaxPerWindow
<1>1. Len(Prune(stamps, now)) \in Nat
  BY PruneType
<1> QED
  BY <1>1 DEF RateBudgetAssumption, CanSpend, Remaining, MAX_REQUESTS_PER_REPO

\* Recording adds as many stamps as there were requests.
LEMMA RecordIs ==
  ASSUME NEW S, NEW stamps \in Seq(S), NEW now \in S, NEW n \in Nat
  PROVE  Record(stamps, now, n) \in Seq(S) /\ Len(Record(stamps, now, n)) = Len(stamps) + n
<1> DEFINE new == [i \in 1..n |-> now]
<1>1. new \in Seq(S) /\ Len(new) = n
  OBVIOUS
<1> HIDE DEF new
<1>2. stamps \o new \in Seq(S) /\ Len(stamps \o new) = Len(stamps) + n
  BY <1>1
<1> QED
  BY <1>2 DEF Record, new

\* It keeps those that are there and appends the new one, once per request.
LEMMA RecordAt ==
  ASSUME NEW stamps \in Seq(Int), NEW now \in Int, NEW n \in Nat
  PROVE  /\ Record(stamps, now, n) \in Seq(Int)
         /\ Len(Record(stamps, now, n)) = Len(stamps) + n
         /\ \A i \in 1..Len(stamps) : Record(stamps, now, n)[i] = stamps[i]
         /\ \A i \in Len(stamps) + 1..Len(stamps) + n : Record(stamps, now, n)[i] = now
<1> DEFINE new == [i \in 1..n |-> now]
<1>1. new \in Seq(Int) /\ Len(new) = n
  OBVIOUS
<1> HIDE DEF new
<1>2. /\ stamps \o new \in Seq(Int) /\ Len(stamps \o new) = Len(stamps) + n
      /\ \A i \in 1..Len(stamps) : (stamps \o new)[i] = stamps[i]
      /\ \A i \in Len(stamps) + 1..Len(stamps) + n : (stamps \o new)[i] = new[i - Len(stamps)]
  <2>1. stamps \o new \in Seq(Int) /\ Len(stamps \o new) = Len(stamps) + n
    BY <1>1
  <2>2. \A i \in 1..Len(stamps) : (stamps \o new)[i] = stamps[i]
    BY <1>1
  <2>3. \A i \in Len(stamps) + 1..Len(stamps) + n : (stamps \o new)[i] = new[i - Len(stamps)]
    BY <1>1
  <2> QED
    BY <2>1, <2>2, <2>3
<1>3. ASSUME NEW i \in Len(stamps) + 1..Len(stamps) + n PROVE (stamps \o new)[i] = now
  <2>1. i - Len(stamps) \in 1..n
    OBVIOUS
  <2> QED
    BY <1>2, <2>1 DEF new
<1> QED
  BY <1>2, <1>3 DEF Record, new

\* What a fetch found is of a known kind.
LEMMA FetchType ==
  ASSUME NEW res \in Resource, NEW status
  PROVE  Fetch(res, status) \in Kind
BY DEF Fetch, RepoFetch, ReleaseFetch, PrFetch, Resource, Kind

\* The next resource is one of those due, and the first of them.
LEMMA NextResourceIn ==
  ASSUME NEW due \in SUBSET Resource, due # {}
  PROVE  /\ NextResource(due) \in due
         /\ \A res \in due : Place(NextResource(due)) <= Place(res)
         /\ Place(NextResource(due)) \in 1..3
<1>1. NextResource(due) \in due
  BY DEF NextResource, Resource
<1>2. Place("repo") = 1 /\ Place("release") = 2 /\ Place("pr") = 3
  BY DEF Place
<1>3. ASSUME NEW res \in due PROVE Place(NextResource(due)) <= Place(res)
  <2>1. CASE NextResource(due) = "repo"
    BY <1>2, <2>1 DEF Resource
  <2>2. CASE NextResource(due) = "release"
    <3>1. "repo" \notin due
      BY <2>2 DEF NextResource
    <3> QED
      BY <1>2, <2>2, <3>1 DEF Resource
  <2>3. CASE NextResource(due) = "pr"
    <3>1. "repo" \notin due /\ "release" \notin due
      BY <2>3 DEF NextResource
    <3> QED
      BY <1>2, <2>3, <3>1 DEF Resource
  <2> QED
    BY <1>1, <2>1, <2>2, <2>3 DEF Resource
<1>4. Place(NextResource(due)) \in {1, 2, 3}
  BY DEF Place
<1> QED
  BY <1>1, <1>3, <1>4

\* Each request is about a later resource than the one before.
LEMMA NextPlace ==
  ASSUME NEW due \in SUBSET Resource, due \ {NextResource(due)} # {}
  PROVE  Place(NextResource(due)) + 1 <= Place(NextResource(due \ {NextResource(due)}))
<1>1. CASE "repo" \in due
  BY <1>1 DEF NextResource, Resource, Place
<1>2. CASE "repo" \notin due /\ "release" \in due
  BY <1>2 DEF NextResource, Resource, Place
<1>3. CASE "repo" \notin due /\ "release" \notin due
  BY <1>3 DEF NextResource, Resource, Place
<1> QED
  BY <1>1, <1>2, <1>3

-----------------------------------------------------------------------------
(* The end of a call *)

Other(c) == IF c = "pass" THEN "manual" ELSE "pass"

\* The holder is at the front, alone or before the other.
LEMMA HolderQueue ==
  ASSUME NEW c \in Caller, queue \in Queues, HoldsBudget(c)
  PROVE  queue = <<c>> \/ queue = <<c, Other(c)>>
BY DEF Caller, Queues, HoldsBudget, Other

\* Then the other waits for it or is not in the queue.
LEMMA OtherWaits ==
  ASSUME NEW c \in Caller, QueueInv, HoldsBudget(c)
  PROVE  /\ Other(c) \in Caller /\ Other(c) # c
         /\ call[Other(c)].stage # "sent"
         /\ Waits(Other(c)) <=> queue = <<c, Other(c)>>
<1>1. Other(c) \in Caller /\ Other(c) # c
  BY DEF Caller, Other
<1>2. queue = <<c>> \/ queue = <<c, Other(c)>>
  BY HolderQueue DEF QueueInv
<1>3. ~HoldsBudget(Other(c))
  BY <1>1, <1>2 DEF HoldsBudget
<1>4. Waits(Other(c)) <=> queue = <<c, Other(c)>>
  BY <1>1, <1>2 DEF Waits
<1> QED
  BY <1>1, <1>3, <1>4 DEF QueueInv

\* A call that waits for the budget.
LEMMA QueuedIs ==
  ASSUME NEW r \in Repo, NEW now \in Nat
  PROVE  /\ Queued(r, now) \in Call
         /\ Queued(r, now).stage = "queued" /\ Queued(r, now).repo = r
         /\ Queued(r, now).now = now /\ Queued(r, now).made = 0
<1>1. NoCall \in Call
  BY DEF NoCall, Call, Stage, NoAnswer, Answer, Kind, MAX_REQUESTS_PER_REPO
<1> QED
  BY <1>1 DEF Queued, NoCall, Call, Stage

\* What a call that is over becomes.
Rest(c, k) ==
    /\ k \in Call /\ k.made = 0
    /\ k.stage # "idle" => k.repo \in Repo
    /\ c = "pass" => k.stage \in {"idle", "queued"}
    /\ c = "manual" => k.stage \in {"idle", "report"}
    /\ k.stage = "queued" => k.now = call[c].now

\* The queues are short.
LEMMA ShortQueues ==
  ASSUME NEW c \in Caller, NEW d \in Caller
  PROVE  /\ Tail(<<c>>) = <<>> /\ Tail(<<c, d>>) = <<d>>
         /\ Append(<<>>, c) = <<c>> /\ Append(<<d>>, c) = <<d, c>>
<1>1. <<c>> \in Seq(Caller) /\ <<d>> \in Seq(Caller) /\ <<c, d>> \in Seq(Caller)
  OBVIOUS
<1>2. Tail(<<c>>) = <<>> /\ Tail(<<c, d>>) = <<d>>
  BY <1>1
<1>3. Append(<<>>, c) = <<c>>
  <2>1. Append(<<>>, c) \in Seq(Caller) /\ Len(Append(<<>>, c)) = 1 /\ Append(<<>>, c)[1] = c
    OBVIOUS
  <2> QED
    BY <1>1, <2>1, SeqEqual
<1>4. Append(<<d>>, c) = <<d, c>>
  <2> DEFINE q == Append(<<d>>, c)
             p == <<d, c>>
  <2>1. q \in Seq(Caller) /\ Len(q) = 2 /\ q[1] = d /\ q[2] = c
    BY <1>1
  <2>2. p \in Seq(Caller) /\ Len(p) = 2 /\ p[1] = d /\ p[2] = c
    BY <1>1
  <2> HIDE DEF p, q
  <2>3. \A i \in 1..Len(q) : q[i] = p[i]
    BY <2>1, <2>2
  <2>4. q = p
    BY <2>1, <2>2, <2>3, SeqEqual
  <2> QED
    BY <2>4 DEF p, q
<1> QED
  BY <1>2, <1>3, <1>4

\* Who leaves the front, for good or to wait behind the other.
LEMMA QueueMoves ==
  ASSUME QueueInv, NEW c \in Caller, HoldsBudget(c), call'[Other(c)] = call[Other(c)],
         \/ (queue' = Tail(queue) /\ call'[c].stage \in {"idle", "report"})
         \/ (queue' = Append(Tail(queue), c) /\ call'[c].stage = "queued"),
         c = "pass" => call'[c].stage # "report"
  PROVE  QueueInv'
<1> DEFINE d == Other(c)
<1>1. d \in Caller /\ d # c /\ Caller = {c, d}
  BY DEF Caller, Other
<1>2. queue = <<c>> \/ queue = <<c, d>>
  BY HolderQueue DEF QueueInv
<1>3. call[d].stage # "sent" /\ (Waits(d) <=> queue = <<c, d>>)
  BY OtherWaits
<1>4. Waits(d) <=> call[d].stage = "queued"
  BY <1>1, <1>3 DEF QueueInv
<1>5. call'[d] = call[d] /\ call'[d].stage # "sent"
  BY <1>3
<1>6. "pass" \in {c, d} /\ call["pass"].stage # "report"
  BY <1>1 DEF Caller, QueueInv
<1>7. call'["pass"].stage # "report"
  BY <1>5, <1>6
<1> HIDE DEF d
<1>8. CASE queue' = Tail(queue) /\ call'[c].stage \in {"idle", "report"}
  <2>1. (queue' = <<>> /\ queue = <<c>>) \/ (queue' = <<d>> /\ queue = <<c, d>>)
    BY <1>1, <1>2, <1>8, ShortQueues
  <2>2. queue' \in Queues
    BY <1>1, <2>1 DEF Queues, Caller
  <2>3. (Waits(c))' = FALSE /\ ((Waits(d))' <=> queue = <<c, d>>)
    <3>1. (Waits(c))' = FALSE
      BY <1>1, <2>1 DEF Waits
    <3>2. (Waits(d))' <=> queue = <<c, d>>
      BY <1>1, <2>1 DEF Waits
    <3> QED
      BY <3>1, <3>2
  <2> QED
    BY <1>1, <1>3, <1>4, <1>5, <1>7, <1>8, <2>2, <2>3 DEF QueueInv
<1>9. CASE queue' = Append(Tail(queue), c) /\ call'[c].stage = "queued"
  <2>1. (queue' = <<c>> /\ queue = <<c>>) \/ (queue' = <<d, c>> /\ queue = <<c, d>>)
    BY <1>1, <1>2, <1>9, ShortQueues
  <2>2. queue' \in Queues
    BY <1>1, <2>1 DEF Queues, Caller
  <2>3. (Waits(c))' = TRUE /\ ((Waits(d))' <=> queue = <<c, d>>)
    <3>1. (Waits(c))' = TRUE
      <4>1. CASE queue' = <<c>>
        <5>1. 1 \in 1..Len(queue') /\ queue'[1] = c
          BY <4>1
        <5> QED
          BY <5>1 DEF Waits
      <4>2. CASE queue' = <<d, c>>
        <5>1. 2 \in 1..Len(queue') /\ queue'[2] = c
          BY <4>2
        <5> QED
          BY <5>1 DEF Waits
      <4> QED
        BY <2>1, <4>1, <4>2
    <3>2. (Waits(d))' <=> queue = <<c, d>>
      BY <1>1, <2>1 DEF Waits
    <3> QED
      BY <3>1, <3>2
  <2> QED
    BY <1>1, <1>3, <1>4, <1>5, <1>7, <1>9, <2>2, <2>3 DEF QueueInv
<1> QED
  BY <1>8, <1>9

\* A call that is over lets go of the budget: nothing is pending for it any more, and
\* only a pass with rows left comes back for the next of them.
LEMMA LeaveIs ==
  ASSUME MetadataAssumption, TypeOK, QueueInv, PassInv, CallInv,
         NEW c \in Caller, HoldsBudget(c), NEW outcome, Leave(c, outcome)
  PROVE  /\ call' = [call EXCEPT ![c] = call'[c]]
         /\ Rest(c, call'[c])
         /\ pass' \in [todo : SUBSET Repo, oldest : [Repo -> Nat]]
         /\ queue' \in Queues
         /\ QueueInv' /\ PassInv'
         /\ c = "manual" => /\ pass' = pass
                            /\ call'[c].stage # "idle" => call'[c].repo = call[c].repo
         /\ c = "pass" /\ pass' = NoPass /\ PassGoesOn(outcome) => pass.todo = {call["pass"].repo}
<1> DEFINE rest == pass.todo \ {call["pass"].repo}
<1>1. call \in [Caller -> Call] /\ call[c] \in Call
  BY DEF TypeOK
<1>2. call[c].stage \in {"queued", "sent"}
  <2>1. Waits(c)
    BY HolderQueue DEF Waits, QueueInv
  <2> QED
    BY <2>1 DEF QueueInv
<1>3. pass \in [todo : SUBSET Repo, oldest : [Repo -> Nat]]
  BY DEF TypeOK
<1>4. Other(c) \in Caller /\ Other(c) # c
  BY OtherWaits
<1>5. NoCall \in Call /\ NoCall.made = 0 /\ NoCall.stage = "idle" /\ NoCall.repo = 0
  BY DEF NoCall, Call, Stage, NoAnswer, Answer, Kind, MAX_REQUESTS_PER_REPO
<1>6. NoPass \in [todo : SUBSET Repo, oldest : [Repo -> Nat]]
  BY DEF NoPass
<1>7. call[c].now \in Nat /\ call[c].repo \in Repo
  BY <1>1, <1>2 DEF Call, CallInv
<1>8. CASE c = "pass" /\ PassGoesOn(outcome) /\ rest # {}
  <2> DEFINE k == Queued(FirstOf(rest, pass.oldest), call["pass"].now)
  <2>1. /\ pass' = [pass EXCEPT !.todo = rest]
        /\ call' = [call EXCEPT !["pass"] = k]
        /\ queue' = Append(Tail(queue), "pass")
    BY <1>8 DEF Leave, LeavePass
  <2>2. FirstOf(rest, pass.oldest) \in rest
    BY <1>3, <1>8, FirstOfIn DEF MetadataAssumption
  <2>3. /\ k \in Call /\ k.stage = "queued" /\ k.repo = FirstOf(rest, pass.oldest)
        /\ k.now = call["pass"].now /\ k.made = 0
    <3>1. FirstOf(rest, pass.oldest) \in Repo /\ call["pass"].now \in Nat
      BY <1>3, <1>7, <1>8, <2>2
    <3>2. ASSUME NEW r \in Repo, NEW now \in Nat, k = Queued(r, now)
          PROVE  /\ k \in Call /\ k.stage = "queued" /\ k.repo = r
                 /\ k.now = now /\ k.made = 0
      BY <3>2, QueuedIs
    <3> QED
      BY <3>1, <3>2
  <2> HIDE DEF k
  <2>4. call'[c] = k /\ call' = [call EXCEPT ![c] = call'[c]] /\ call'[Other(c)] = call[Other(c)]
    BY <1>1, <1>4, <1>8, <2>1
  <2>5. QueueInv'
    BY <1>8, <2>1, <2>3, <2>4, QueueMoves
  <2>6. pass'.todo = rest /\ pass' \in [todo : SUBSET Repo, oldest : [Repo -> Nat]]
    BY <1>3, <2>1
  <2>7. PassInv' /\ pass' # NoPass
    BY <1>8, <2>2, <2>3, <2>4, <2>6 DEF PassInv, NoPass
  <2>8. Rest(c, call'[c])
    BY <1>3, <1>8, <2>2, <2>3, <2>4 DEF Rest
  <2> QED
    BY <1>8, <2>4, <2>5, <2>6, <2>7, <2>8 DEF QueueInv
<1>9. CASE c = "pass" /\ ~(PassGoesOn(outcome) /\ rest # {})
  <2>1. pass' = NoPass /\ call' = [call EXCEPT !["pass"] = NoCall] /\ queue' = Tail(queue)
    BY <1>9 DEF Leave, LeavePass
  <2>2. call'[c] = NoCall /\ call' = [call EXCEPT ![c] = call'[c]] /\ call'[Other(c)] = call[Other(c)]
    BY <1>1, <1>4, <1>9, <2>1
  <2>3. QueueInv'
    BY <1>5, <1>9, <2>1, <2>2, QueueMoves
  <2>4. PassInv' /\ Rest(c, call'[c])
    BY <1>5, <1>9, <2>1, <2>2 DEF PassInv, Rest
  <2>5. PassGoesOn(outcome) => pass.todo = {call["pass"].repo}
    BY <1>2, <1>9 DEF PassInv
  <2> QED
    BY <1>6, <1>9, <2>1, <2>2, <2>3, <2>4, <2>5 DEF QueueInv
<1>10. CASE c = "manual"
  <2> DEFINE k == IF outcome = "refreshed"
                  THEN [NoCall EXCEPT !.stage = "report", !.repo = call["manual"].repo] ELSE NoCall
  <2>1. queue' = Tail(queue) /\ call' = [call EXCEPT !["manual"] = k] /\ pass' = pass
    BY <1>10 DEF Leave, LeaveManual
  <2>2. k \in Call /\ k.made = 0 /\ k.stage \in {"idle", "report"}
    BY <1>5, <1>7, <1>10 DEF Call, Stage
  <2>3. k.stage # "idle" => k.repo = call["manual"].repo
    BY <1>5 DEF NoCall
  <2> HIDE DEF k
  <2>4. call'[c] = k /\ call' = [call EXCEPT ![c] = call'[c]] /\ call'[Other(c)] = call[Other(c)]
    BY <1>1, <1>4, <1>10, <2>1
  <2>5. QueueInv'
    BY <1>10, <2>1, <2>2, <2>4, QueueMoves
  <2>6. call'["pass"] = call["pass"]
    BY <1>10, <2>4 DEF Other
  <2>7. PassInv'
    BY <2>1, <2>6 DEF PassInv
  <2>8. Rest(c, call'[c])
    BY <1>7, <1>10, <2>2, <2>3, <2>4 DEF Rest
  <2> QED
    BY <1>3, <1>10, <2>1, <2>3, <2>4, <2>5, <2>7, <2>8 DEF QueueInv
<1> QED
  BY <1>8, <1>9, <1>10 DEF Caller

\* After a call is over no request is pending.
LEMMA LeaveBase ==
  ASSUME MetadataAssumption, BaseInv, NEW c \in Caller, HoldsBudget(c),
         NEW outcome, Leave(c, outcome), clock' = clock
  PROVE  /\ call' \in [Caller -> Call] /\ queue' \in Seq(Caller)
         /\ pass' \in [todo : SUBSET Repo, oldest : [Repo -> Nat]]
         /\ \A d \in Caller : call'[d].stage # "sent"
         /\ QueueInv' /\ PassInv' /\ CallInv' /\ RoomInv'
<1> USE DEF BaseInv
<1>1. /\ call' = [call EXCEPT ![c] = call'[c]]
      /\ Rest(c, call'[c])
      /\ pass' \in [todo : SUBSET Repo, oldest : [Repo -> Nat]]
      /\ queue' \in Queues /\ QueueInv' /\ PassInv'
  BY LeaveIs
<1>2. call \in [Caller -> Call] /\ Other(c) \in Caller /\ Other(c) # c /\ Caller = {c, Other(c)}
      /\ call[Other(c)].stage # "sent"
  <2>1. Caller = {c, Other(c)}
    BY DEF Caller, Other
  <2> QED
    BY <2>1, OtherWaits DEF TypeOK
<1>3. call'[c] \in Call /\ call'[c].made = 0 /\ call'[c].stage # "sent"
  BY <1>1 DEF Rest, Caller
<1>4. call' \in [Caller -> Call] /\ call'[Other(c)] = call[Other(c)]
  BY <1>1, <1>2, <1>3
<1>5. queue' \in Seq(Caller)
  <2>1. Queues \subseteq Seq(Caller)
    BY DEF Queues, Caller
  <2> QED
    BY <1>1, <2>1
<1>6. \A d \in Caller : call'[d].stage # "sent"
  BY <1>2, <1>3, <1>4
<1>7. call[c].stage \in {"queued", "sent"}
  <2>1. Waits(c)
    BY HolderQueue DEF Waits, QueueInv
  <2> QED
    BY <2>1 DEF QueueInv
<1>8. 1 <= call[c].now /\ call[c].now <= clock
  BY <1>7 DEF CallInv
<1>9. CallInv'
  <2> SUFFICES ASSUME NEW d \in Caller
               PROVE  /\ call'[d].made = 0
                      /\ call'[d].stage # "idle" => call'[d].repo \in Repo
                      /\ call'[d].stage = "queued" => 1 <= call'[d].now /\ call'[d].now <= clock
    BY <1>6 DEF CallInv
  <2>1. CASE d = c
    BY <1>1, <1>3, <1>8, <2>1 DEF Rest
  <2>2. CASE d = Other(c)
    <3>1. call'[d] = call[d] /\ call[d].stage # "sent"
      BY <1>2, <1>4, <2>2
    <3> QED
      BY <3>1 DEF CallInv
  <2> QED
    BY <1>2, <2>1, <2>2
<1> QED
  BY <1>1, <1>4, <1>5, <1>6, <1>9 DEF RoomInv

-----------------------------------------------------------------------------
(* A request *)

\* What an answer says, GitHub said: a 200 of a version that is there and was not asked
\* for, a 304 of the version that was, a missing release of one that is gone.
LEMMA HonestAnswer ==
  ASSUME NEW r, NEW res \in Resource, NEW etag,
         NEW status \in {Reply(r, res, etag)} \cup BadReply(res)
  PROVE  /\ Fetch(res, status) = "modified" => ~Gone(res, Version(r, res))
         /\ Fetch(res, status) = "no_release" => Gone(res, Version(r, res))
         /\ Fetch(res, status) = "not_modified" =>
              etag # 0 /\ etag = Version(r, res) /\ ~Gone(res, Version(r, res))
<1>1. Fetch(res, status) = "modified" => status = "200"
  BY DEF Fetch, RepoFetch, ReleaseFetch, PrFetch, Resource
<1>2. Fetch(res, status) = "no_release" => res = "release" /\ status = "404"
  BY DEF Fetch, RepoFetch, ReleaseFetch, PrFetch, Resource
<1>3. Fetch(res, status) = "not_modified" => status = "304"
  BY DEF Fetch, RepoFetch, ReleaseFetch, PrFetch, Resource
<1>4. status = "200" => ~Gone(res, Version(r, res))
  BY DEF BadReply, Reply, Gone
<1>5. res = "release" /\ status = "404" => Gone(res, Version(r, res))
  BY DEF BadReply, Reply, Gone
<1>6. status = "304" => etag # 0 /\ etag = Version(r, res) /\ ~Gone(res, Version(r, res))
  BY DEF BadReply, Reply, Gone
<1> QED
  BY <1>1, <1>2, <1>3, <1>4, <1>5, <1>6

\* A call that may send its next request.
Asks(c, k) ==
    /\ k \in Call /\ k.repo \in Repo
    /\ k.repo = call[c].repo /\ k.now = call[c].now
    /\ k.due # {}
    /\ k.made + 1 <= Place(NextResource(k.due))

\* What sending does: the answer is the one GitHub has for the version it is at, the
\* request is on record, and the longest delay covers it.
Asked(c, k) ==
    LET res == NextResource(k.due)
    IN /\ call' = [call EXCEPT ![c] = call'[c]]
       /\ call'[c] \in Call /\ call'[c].stage = "sent"
       /\ call'[c].repo = k.repo /\ call'[c].now = k.now
       /\ call'[c].due = k.due /\ call'[c].etag = k.etag
       /\ call'[c].made = k.made + 1
       /\ call'[c].answer.ver = Version(k.repo, res)
       /\ call'[c].answer.kind = "modified" => ~Gone(res, Version(k.repo, res))
       /\ call'[c].answer.kind = "no_release" => Gone(res, Version(k.repo, res))
       /\ call'[c].answer.kind = "not_modified" =>
            /\ k.etag[res] # 0 /\ k.etag[res] = Version(k.repo, res)
            /\ ~Gone(res, Version(k.repo, res))
       /\ issued' = Append(issued, clock)
       /\ lag' \in Nat /\ lag' >= lag /\ lag' >= clock - k.now
       /\ faults' \in 0..MaxFaults
       /\ queue' = queue /\ pass' = pass

LEMMA SendIs ==
  ASSUME MetadataAssumption, TypeOK, NEW c \in Caller, NEW k, Asks(c, k), Send(c, k)
  PROVE  Asked(c, k)
<1> DEFINE res == NextResource(k.due)
           honest == Reply(k.repo, res, k.etag[res])
<1>1. /\ k.due \in SUBSET Resource /\ k.due # {} /\ k.repo \in Repo /\ k.now \in Nat
      /\ k.made \in 0..3 /\ k.etag \in [Resource -> Nat]
  BY DEF Asks, Call, MAX_REQUESTS_PER_REPO
<1>2. res \in Resource /\ Place(res) \in 1..3
  BY <1>1, NextResourceIn
<1>3. k.made + 1 \in 0..3
  BY <1>1, <1>2 DEF Asks
<1>4. Version(k.repo, res) \in Nat
  BY <1>1, <1>2 DEF Version, TypeOK
<1>5. PICK status \in {honest} \cup BadReply(res) :
        /\ status # honest => faults < MaxFaults
        /\ faults' = IF status = honest THEN faults ELSE faults + 1
        /\ call' = [call EXCEPT ![c] = [k EXCEPT !.stage = "sent", !.made = @ + 1,
                      !.answer = [kind |-> Fetch(res, status), ver |-> Version(k.repo, res)]]]
  BY DEF Send
<1>6. /\ issued' = Append(issued, clock)
      /\ lag' = IF clock - k.now > lag THEN clock - k.now ELSE lag
      /\ queue' = queue /\ pass' = pass
  BY DEF Send
<1> DEFINE answer == [kind |-> Fetch(res, status), ver |-> Version(k.repo, res)]
           sent == [k EXCEPT !.stage = "sent", !.made = @ + 1, !.answer = answer]
<1>7. answer \in Answer /\ answer.kind = Fetch(res, status) /\ answer.ver = Version(k.repo, res)
  BY <1>2, <1>4, FetchType DEF Answer
<1> HIDE DEF answer
<1>8. sent \in Call /\ sent.stage = "sent" /\ sent.repo = k.repo /\ sent.now = k.now
      /\ sent.due = k.due /\ sent.etag = k.etag /\ sent.made = k.made + 1 /\ sent.answer = answer
  BY <1>3, <1>7 DEF Asks, Call, Stage, MAX_REQUESTS_PER_REPO
<1>9. call' = [call EXCEPT ![c] = sent]
  BY <1>5 DEF answer
<1> HIDE DEF sent
<1>10. call'[c] = sent /\ call' = [call EXCEPT ![c] = call'[c]]
  BY <1>9 DEF TypeOK
<1>11. /\ answer.kind = "modified" => ~Gone(res, Version(k.repo, res))
       /\ answer.kind = "no_release" => Gone(res, Version(k.repo, res))
       /\ answer.kind = "not_modified" =>
            k.etag[res] # 0 /\ k.etag[res] = Version(k.repo, res) /\ ~Gone(res, Version(k.repo, res))
  BY <1>2, <1>7, HonestAnswer
<1>12. faults' \in 0..MaxFaults
  BY <1>5 DEF TypeOK, MetadataAssumption
<1>13. lag' \in Nat /\ lag' >= lag /\ lag' >= clock - k.now
  <2> DEFINE delay == clock - k.now
  <2>1. lag \in Nat /\ delay \in Int
    BY <1>1 DEF TypeOK, Time
  <2>2. lag' = IF delay > lag THEN delay ELSE lag
    BY <1>6
  <2> HIDE DEF delay
  <2>3. lag' \in Nat /\ lag' >= lag /\ lag' >= delay
    BY <2>1, <2>2
  <2> QED
    BY <2>3 DEF delay
<1> HIDE DEF res
<1> QED
  BY <1>6, <1>7, <1>8, <1>10, <1>11, <1>12, <1>13 DEF Asked, res

\* The one that sends holds the budget, and sends no more than there is room for.
LEMMA SendBase ==
  ASSUME MetadataAssumption, BaseInv, NEW c \in Caller, HoldsBudget(c), NEW k,
         Asks(c, k), Asked(c, k), clock' = clock,
         Len(events') + MAX_REQUESTS_PER_REPO <= MaxPerWindow
  PROVE  /\ call' \in [Caller -> Call] /\ queue' \in Seq(Caller)
         /\ pass' \in [todo : SUBSET Repo, oldest : [Repo -> Nat]]
         /\ issued' \in Seq(Time) /\ lag' \in Nat /\ faults' \in 0..MaxFaults
         /\ QueueInv' /\ PassInv' /\ CallInv' /\ RoomInv'
<1> USE DEF BaseInv
<1>1. /\ call' = [call EXCEPT ![c] = call'[c]] /\ call'[c] \in Call
      /\ call'[c].stage = "sent" /\ call'[c].repo = k.repo /\ call'[c].now = k.now
      /\ call'[c].due = k.due /\ call'[c].made = k.made + 1
      /\ issued' = Append(issued, clock) /\ lag' \in Nat /\ faults' \in 0..MaxFaults
      /\ queue' = queue /\ pass' = pass
  BY DEF Asked
<1>2. Caller = {c, Other(c)} /\ Other(c) # c /\ call[Other(c)].stage # "sent"
  <2>1. Caller = {c, Other(c)}
    BY DEF Caller, Other
  <2> QED
    BY <2>1, OtherWaits
<1>3. call' \in [Caller -> Call] /\ call'[Other(c)] = call[Other(c)]
  BY <1>1, <1>2 DEF TypeOK
<1>4. queue' \in Seq(Caller) /\ pass' \in [todo : SUBSET Repo, oldest : [Repo -> Nat]]
  BY <1>1 DEF TypeOK
<1>5. issued' \in Seq(Time)
  BY <1>1 DEF TypeOK
<1>6. call[c].stage \in {"queued", "sent"} /\ Waits(c)
  <2>1. Waits(c)
    BY HolderQueue DEF Waits, QueueInv
  <2> QED
    BY <2>1 DEF QueueInv
<1>7. \A d \in Caller : (Waits(d))' <=> Waits(d)
  BY <1>1 DEF Waits
<1>8. \A d \in Caller : call'[d].stage \in {"queued", "sent"} <=> call[d].stage \in {"queued", "sent"}
  BY <1>1, <1>2, <1>3, <1>6
<1>9. QueueInv'
  <2>1. (HoldsBudget(c))'
    BY <1>1 DEF HoldsBudget
  <2>2. \A d \in Caller : call'[d].stage = "sent" => (HoldsBudget(d))'
    BY <1>2, <1>3, <2>1
  <2>3. call'["pass"].stage # "report"
    BY <1>1, <1>2, <1>3 DEF QueueInv, Caller
  <2> QED
    BY <1>1, <1>7, <1>8, <2>2, <2>3 DEF QueueInv
<1>10. PassInv'
  <2>1. CASE c = "pass"
    BY <1>1, <1>6, <2>1 DEF PassInv, Asks
  <2>2. CASE c # "pass"
    <3>1. call'["pass"] = call["pass"]
      BY <1>2, <1>3, <2>2 DEF Caller
    <3> QED
      BY <1>1, <3>1 DEF PassInv
  <2> QED
    BY <2>1, <2>2
<1>11. CallInv'
  <2>1. /\ k.repo \in Repo /\ k.due # {} /\ k.made \in 0..3
        /\ k.made + 1 <= Place(NextResource(k.due))
        /\ 1 <= k.now /\ k.now <= clock
    BY <1>6 DEF Asks, Call, MAX_REQUESTS_PER_REPO, CallInv
  <2>2. /\ call'[c].stage # "idle" => call'[c].repo \in Repo
        /\ 1 <= call'[c].now /\ call'[c].now <= clock'
        /\ call'[c].due # {} /\ 1 <= call'[c].made
        /\ call'[c].made <= Place(NextResource(call'[c].due))
    BY <1>1, <2>1
  <2> SUFFICES ASSUME NEW d \in Caller
               PROVE  /\ call'[d].stage # "sent" => call'[d].made = 0
                      /\ call'[d].stage # "idle" => call'[d].repo \in Repo
                      /\ call'[d].stage \in {"queued", "sent"} =>
                           1 <= call'[d].now /\ call'[d].now <= clock'
                      /\ call'[d].stage = "sent" =>
                           /\ call'[d].due # {} /\ 1 <= call'[d].made
                           /\ call'[d].made <= Place(NextResource(call'[d].due))
    BY DEF CallInv
  <2>3. CASE d = c
    BY <1>1, <2>2, <2>3
  <2>4. CASE d = Other(c)
    <3>1. call'[d] = call[d] /\ call[d].stage # "sent"
      BY <1>2, <1>3, <2>4
    <3> QED
      BY <3>1 DEF CallInv
  <2> QED
    BY <1>2, <2>3, <2>4
<1>12. RoomInv'
  BY DEF RoomInv
<1> QED
  BY <1>1, <1>3, <1>4, <1>5, <1>9, <1>10, <1>11, <1>12

-----------------------------------------------------------------------------
(* The steps of a call *)

\* A call in the queue has a repo and a stamp.
LEMMA HolderIs ==
  ASSUME BaseInv, NEW c \in Caller, HoldsBudget(c)
  PROVE  /\ call[c] \in Call /\ call[c].stage \in {"queued", "sent"}
         /\ call[c].repo \in Repo /\ call[c].now \in Nat
         /\ 1 <= call[c].now /\ call[c].now <= clock
<1>1. Waits(c)
  BY HolderQueue DEF Waits, BaseInv, QueueInv
<1>2. call[c].stage \in {"queued", "sent"} /\ call[c] \in Call
  BY <1>1 DEF BaseInv, QueueInv, TypeOK
<1> QED
  BY <1>2 DEF BaseInv, CallInv, Call

\* A stamp is a time.
LEMMA StampType ==
  ASSUME BaseInv, NEW c \in Caller, HoldsBudget(c)
  PROVE  call[c].now \in Time
<1>1. call[c].now \in Nat /\ 1 <= call[c].now /\ call[c].now <= clock
  BY HolderIs
<1>2. clock \in 1..MaxTime
  BY DEF BaseInv, TypeOK, Time
<1> QED
  BY <1>1, <1>2, MetadataAssumption DEF MetadataAssumption, Time

\* What is kept of the budget's stamps.
LEMMA KeptStamps ==
  ASSUME BaseInv, NEW c \in Caller, HoldsBudget(c), events' = Prune(events, call[c].now)
  PROVE  events' \in Seq(Time) /\ Len(events') <= MaxPerWindow
<1>1. Time \in SUBSET Int /\ call[c].now \in Int
  BY HolderIs DEF Time
<1>2. events \in Seq(Time) /\ Len(events) <= MaxPerWindow
  BY DEF BaseInv, TypeOK
<1>3. events' \in Seq(Time) /\ Len(events') <= Len(events)
  BY <1>1, <1>2, PruneType
<1>4. Len(events') \in Nat /\ Len(events) \in Nat /\ MaxPerWindow \in Nat
  BY <1>2, <1>3, RateBudgetAssumption DEF RateBudgetAssumption
<1> QED
  BY <1>2, <1>3, <1>4

\* Who is let in has room for three.
LEMMA FundedRoom ==
  ASSUME BaseInv, NEW c \in Caller, Funded(c)
  PROVE  /\ HoldsBudget(c) /\ call[c].stage = "queued" /\ call[c].made = 0
         /\ events' = Prune(events, call[c].now)
         /\ events' \in Seq(Time) /\ Len(events') <= MaxPerWindow
         /\ Len(events') + MAX_REQUESTS_PER_REPO <= MaxPerWindow
<1>1. HoldsBudget(c) /\ call[c].stage = "queued" /\ events' = Prune(events, call[c].now)
  BY DEF Funded
<1>2. events \in Seq(Int) /\ call[c].now \in Int
  <2>1. events \in Seq(Time) /\ Time \subseteq Int
    BY DEF BaseInv, TypeOK, Time
  <2>2. events \in Seq(Int)
    BY <2>1, SeqMonotonic
  <2> QED
    BY <1>1, <2>2, HolderIs
<1>3. Len(events') + MAX_REQUESTS_PER_REPO <= MaxPerWindow
  BY <1>1, <1>2, CanSpendIs, RateBudgetAssumption DEF Funded
<1>4. call[c].made = 0
  BY <1>1 DEF BaseInv, CallInv
<1> QED
  BY <1>1, <1>3, <1>4, KeptStamps

\* Who has sent a request holds the budget and has a resource to store.
LEMMA SenderIs ==
  ASSUME BaseInv, NEW c \in Caller, call[c].stage = "sent"
  PROVE  /\ HoldsBudget(c)
         /\ call[c].due \in SUBSET Resource /\ call[c].due # {}
         /\ NextResource(call[c].due) \in call[c].due
         /\ NextResource(call[c].due) \in Resource
         /\ call[c].made \in 1..3
         /\ call[c].made <= Place(NextResource(call[c].due))
         /\ Len(events) + MAX_REQUESTS_PER_REPO <= MaxPerWindow
<1>1. HoldsBudget(c) /\ Len(events) + MAX_REQUESTS_PER_REPO <= MaxPerWindow
  BY DEF BaseInv, QueueInv, RoomInv
<1>2. call[c] \in Call /\ call[c].due # {} /\ 1 <= call[c].made
      /\ call[c].made <= Place(NextResource(call[c].due))
  BY DEF BaseInv, TypeOK, CallInv
<1>3. call[c].due \in SUBSET Resource /\ call[c].made \in 1..3
  BY <1>2 DEF Call, MAX_REQUESTS_PER_REPO
<1> QED
  BY <1>1, <1>2, <1>3, NextResourceIn

\* A charge fits.
LEMMA ChargeIs ==
  ASSUME BaseInv, NEW c \in Caller, call[c].stage = "sent", Charge(c)
  PROVE  events' \in Seq(Time) /\ Len(events') <= MaxPerWindow
<1>1. events \in Seq(Time) /\ Len(events) \in Nat /\ MaxPerWindow \in Nat
  BY RateBudgetAssumption DEF BaseInv, TypeOK, RateBudgetAssumption
<1>2. call[c].now \in Time /\ call[c].made \in 1..3 /\ Len(events) + 3 <= MaxPerWindow
  BY SenderIs, StampType DEF MAX_REQUESTS_PER_REPO
<1>3. events' \in Seq(Time) /\ Len(events') = Len(events) + call[c].made
  <2> DEFINE n == call[c].made
             now == call[c].now
  <2>1. n \in Nat /\ now \in Time
    BY <1>2
  <2> HIDE DEF n, now
  <2>2. Record(events, now, n) \in Seq(Time) /\ Len(Record(events, now, n)) = Len(events) + n
    BY <1>1, <2>1, RecordIs
  <2> QED
    BY <2>2 DEF Charge, n, now
<1> QED
  BY <1>1, <1>2, <1>3

\* A refresh starts: it is served from the cache or asks for the first resource due.
LEMMA StartIs ==
  ASSUME MetadataAssumption, BaseInv, NEW c \in Caller, Start(c)
  PROVE  \/ /\ Leave(c, "refreshed")
            /\ UNCHANGED <<faults, issued, lag>>
         \/ \E due \in SUBSET Resource :
              LET k == [call[c] EXCEPT !.due = due,
                          !.etag = [res \in Resource |-> meta[call[c].repo][res].etag]]
              IN /\ Asks(c, k) /\ Asked(c, k)
                 /\ k.repo = call[c].repo /\ k.now = call[c].now /\ k.made = call[c].made
                 /\ k.due = due
                 /\ k.etag = [res \in Resource |-> meta[call[c].repo][res].etag]
<1> DEFINE r == call[c].repo
           due == IF c = "manual" THEN Resource ELSE DueResources(r, call[c].now)
           etag == [res \in Resource |-> meta[r][res].etag]
           k == [call[c] EXCEPT !.due = due, !.etag = etag]
<1>1. /\ Funded(c)
      /\ IF due = {} THEN Leave(c, "refreshed") /\ UNCHANGED <<faults, issued, lag>> ELSE Send(c, k)
  BY DEF Start
<1>2. HoldsBudget(c) /\ call[c].made = 0 /\ call[c] \in Call /\ r \in Repo
  BY <1>1, FundedRoom, HolderIs
<1>3. due \in SUBSET Resource
  BY DEF DueResources
<1>4. etag \in [Resource -> Nat]
  <2>1. meta[r] \in [Resource -> Cached]
    BY <1>2 DEF BaseInv, TypeOK
  <2> QED
    BY <2>1 DEF Cached
<1> HIDE DEF due, etag
<1>5. /\ k \in Call /\ k.repo = r /\ k.now = call[c].now /\ k.made = call[c].made
      /\ k.due = due /\ k.etag = etag
  BY <1>2, <1>3, <1>4 DEF Call
<1>6. ASSUME due # {} PROVE Asks(c, k) /\ Asked(c, k)
  <2>1. Place(NextResource(due)) \in 1..3
    BY <1>3, <1>6, NextResourceIn
  <2>2. k.made + 1 <= Place(NextResource(k.due))
    BY <1>2, <1>5, <2>1
  <2> HIDE DEF k
  <2>3. Asks(c, k)
    BY <1>2, <1>5, <1>6, <2>2 DEF Asks
  <2>4. Send(c, k)
    BY <1>1, <1>6
  <2> QED
    BY <2>3, <2>4, SendIs DEF BaseInv
<1> QED
  BY <1>1, <1>3, <1>5, <1>6 DEF etag

\* An answer is stored: the call is over or asks for the next resource due.
LEMMA StoreIs ==
  ASSUME MetadataAssumption, BaseInv, NEW c \in Caller, Store(c)
  PROVE  LET rest == call[c].due \ {NextResource(call[c].due)}
             k == [call[c] EXCEPT !.due = rest]
         IN \/ /\ Charge(c) /\ Leave(c, "refreshed")
               /\ UNCHANGED <<faults, issued, lag>>
            \/ /\ Asks(c, k) /\ Asked(c, k) /\ events' = events
               /\ k.repo = call[c].repo /\ k.now = call[c].now /\ k.made = call[c].made
               /\ k.due = rest /\ k.etag = call[c].etag
<1> DEFINE rest == call[c].due \ {NextResource(call[c].due)}
           k == [call[c] EXCEPT !.due = rest]
<1>1. /\ call[c].stage = "sent"
      /\ IF rest = {} THEN Charge(c) /\ Leave(c, "refreshed") /\ UNCHANGED <<faults, issued, lag>>
         ELSE Send(c, k) /\ UNCHANGED events
  BY DEF Store
<1>2. /\ call[c] \in Call /\ call[c].repo \in Repo
      /\ call[c].due \in SUBSET Resource /\ call[c].made \in 1..3
      /\ call[c].made <= Place(NextResource(call[c].due))
  BY <1>1, SenderIs, HolderIs
<1>3. /\ k \in Call /\ k.repo = call[c].repo /\ k.now = call[c].now /\ k.made = call[c].made
      /\ k.due = rest /\ k.etag = call[c].etag
  BY <1>2 DEF Call
<1>4. ASSUME rest # {} PROVE Asks(c, k) /\ Asked(c, k)
  <2>1. Place(NextResource(call[c].due)) + 1 <= Place(NextResource(rest))
    BY <1>2, <1>4, NextPlace
  <2>2. Place(NextResource(call[c].due)) \in 1..3 /\ Place(NextResource(rest)) \in 1..3
    <3>1. rest \in SUBSET Resource /\ call[c].due # {}
      BY <1>2, <1>4
    <3> QED
      BY <1>2, <1>4, <3>1, NextResourceIn
  <2>3. k.made + 1 <= Place(NextResource(k.due))
    <3> HIDE DEF k, rest
    <3> QED
      BY <1>2, <1>3, <2>1, <2>2
  <2>4. Send(c, k)
    BY <1>1, <1>4
  <2> HIDE DEF k, rest
  <2>5. Asks(c, k)
    BY <1>2, <1>3, <1>4, <2>3 DEF Asks
  <2> QED
    BY <2>4, <2>5, SendIs DEF BaseInv
<1> QED
  BY <1>1, <1>3, <1>4

-----------------------------------------------------------------------------
(* Types and the queue *)

\* The start.
LEMMA InitBase == MetadataAssumption /\ RateBudgetAssumption /\ Init => BaseInv
<1> SUFFICES ASSUME MetadataAssumption, RateBudgetAssumption, Init PROVE BaseInv
  OBVIOUS
<1>1. NoCall \in Call /\ NoCall.stage = "idle" /\ NoCall.made = 0
  BY DEF NoCall, Call, Stage, NoAnswer, Answer, Kind, MAX_REQUESTS_PER_REPO
<1>2. clock \in Time /\ <<1>> \in Seq(Time)
  BY DEF Init, Time, MetadataAssumption
<1>3. \A c \in Caller : call[c] = NoCall
  BY DEF Init
<1>4. TypeOK
  <2>1. meta \in [Repo -> [Resource -> Cached]]
    BY DEF Init, NothingCached, Cached
  <2>2. published \in [Repo -> [Resource -> Seq(Time)]]
    BY <1>2 DEF Init
  <2>3. call \in [Caller -> Call] /\ pass \in [todo : SUBSET Repo, oldest : [Repo -> Nat]]
    BY <1>1 DEF Init, NoPass
  <2>4. events \in Seq(Time) /\ Len(events) <= MaxPerWindow /\ queue \in Seq(Caller) /\ issued \in Seq(Time)
    BY DEF Init, RateBudgetAssumption
  <2>5. toasted \in [Repo -> SUBSET Nat] /\ excused \in BOOLEAN /\ lag \in Nat /\ uncharged \in Nat
    BY DEF Init
  <2>6. manual \in Nat \cup {Unread} /\ faults \in 0..MaxFaults /\ tracked \subseteq Repo
    BY DEF Init, MetadataAssumption
  <2> QED
    BY <1>2, <2>1, <2>2, <2>3, <2>4, <2>5, <2>6 DEF TypeOK
<1>5. QueueInv
  <2>1. queue \in Queues /\ \A c \in Caller : ~Waits(c)
    BY DEF Init, Queues, Waits
  <2> QED
    BY <1>1, <1>3, <2>1 DEF QueueInv, Caller
<1>6. PassInv
  BY <1>1, <1>3 DEF Init, PassInv, Caller
<1>7. CallInv /\ RoomInv
  BY <1>1, <1>3 DEF CallInv, RoomInv
<1> QED
  BY <1>4, <1>5, <1>6, <1>7 DEF BaseInv

\* A step that ends a call.
LEMMA EndBase ==
  ASSUME MetadataAssumption, BaseInv, NEW c \in Caller, HoldsBudget(c),
         NEW outcome, Leave(c, outcome),
         events' \in Seq(Time), Len(events') <= MaxPerWindow,
         faults' \in 0..MaxFaults, uncharged' \in Nat, excused' \in BOOLEAN,
         meta' \in [Repo -> [Resource -> Cached]],
         UNCHANGED <<tracked, published, clock, manual, issued, lag, toasted>>
  PROVE  BaseInv'
<1>1. /\ call' \in [Caller -> Call] /\ queue' \in Seq(Caller)
      /\ pass' \in [todo : SUBSET Repo, oldest : [Repo -> Nat]]
      /\ QueueInv' /\ PassInv' /\ CallInv' /\ RoomInv'
  BY LeaveBase
<1>2. TypeOK'
  BY <1>1 DEF BaseInv, TypeOK
<1> QED
  BY <1>1, <1>2 DEF BaseInv

\* A step that asks for a resource.
LEMMA AskBase ==
  ASSUME MetadataAssumption, BaseInv, NEW c \in Caller, HoldsBudget(c), NEW k,
         Asks(c, k), Asked(c, k),
         events' \in Seq(Time), Len(events') <= MaxPerWindow,
         Len(events') + MAX_REQUESTS_PER_REPO <= MaxPerWindow,
         meta' \in [Repo -> [Resource -> Cached]],
         UNCHANGED <<tracked, published, clock, manual, uncharged, toasted, excused>>
  PROVE  BaseInv'
<1>1. /\ call' \in [Caller -> Call] /\ queue' \in Seq(Caller)
      /\ pass' \in [todo : SUBSET Repo, oldest : [Repo -> Nat]]
      /\ issued' \in Seq(Time) /\ lag' \in Nat /\ faults' \in 0..MaxFaults
      /\ QueueInv' /\ PassInv' /\ CallInv' /\ RoomInv'
  BY SendBase
<1>2. TypeOK'
  BY <1>1 DEF BaseInv, TypeOK
<1> QED
  BY <1>1, <1>2 DEF BaseInv

\* An answer is written into a row.
LEMMA WrittenType ==
  ASSUME NEW cached \in Cached, NEW answer \in Answer, NEW now \in Nat
  PROVE  Written(cached, answer, now) \in Cached
BY DEF Written, Fetched, Cached, Answer

\* The row that an answer leaves.
LEMMA StoredType ==
  ASSUME BaseInv, NEW c \in Caller, Store(c)
  PROVE  meta' \in [Repo -> [Resource -> Cached]]
<1> DEFINE r == call[c].repo
           res == NextResource(call[c].due)
<1>1. meta \in [Repo -> [Resource -> Cached]]
  BY DEF BaseInv, TypeOK
<1>2. r \in Repo /\ res \in Resource /\ call[c].now \in Nat /\ call[c].answer \in Answer
  BY SenderIs, HolderIs DEF Store, Call
<1>3. meta' = IF r \in tracked
              THEN [meta EXCEPT ![r][res] = Written(@, call[c].answer, call[c].now)] ELSE meta
  BY DEF Store
<1>4. Written(meta[r][res], call[c].answer, call[c].now) \in Cached
  BY <1>1, <1>2, WrittenType
<1> QED
  BY <1>1, <1>2, <1>3, <1>4

\* The steps of a call keep the types and the queue.
LEMMA ProgressBase ==
  ASSUME MetadataAssumption, BaseInv, NEW c \in Caller, Progress(c)
  PROVE  BaseInv'
<1>0. /\ meta \in [Repo -> [Resource -> Cached]] /\ faults \in 0..MaxFaults
      /\ uncharged \in Nat /\ excused \in BOOLEAN
      /\ events \in Seq(Time) /\ Len(events) <= MaxPerWindow
  BY DEF BaseInv, TypeOK
<1>1. CASE Refuse(c)
  <2>1. HoldsBudget(c) /\ Leave(c, "exhausted") /\ events' = Prune(events, call[c].now)
    BY <1>1 DEF Refuse
  <2>2. excused' \in BOOLEAN
    BY <1>1 DEF Refuse, Excuse
  <2>3. UNCHANGED <<tracked, meta, published, clock, manual, faults, issued, lag, uncharged, toasted>>
    BY <1>1 DEF Refuse
  <2>4. events' \in Seq(Time) /\ Len(events') <= MaxPerWindow
    BY <2>1, KeptStamps
  <2> QED
    BY <1>0, <2>1, <2>2, <2>3, <2>4, EndBase
<1>2. CASE Start(c)
  <2>1. Funded(c)
    BY <1>2 DEF Start
  <2>2. /\ HoldsBudget(c) /\ events' \in Seq(Time) /\ Len(events') <= MaxPerWindow
        /\ Len(events') + MAX_REQUESTS_PER_REPO <= MaxPerWindow
    BY <2>1, FundedRoom
  <2>3. UNCHANGED <<tracked, meta, published, clock, manual, uncharged, toasted, excused>>
    BY <1>2 DEF Start
  <2>4. CASE Leave(c, "refreshed") /\ UNCHANGED <<faults, issued, lag>>
    BY <1>0, <2>2, <2>3, <2>4, EndBase
  <2>5. CASE \E k : Asks(c, k) /\ Asked(c, k)
    BY <1>0, <2>2, <2>3, <2>5, AskBase
  <2> QED
    BY <1>2, <2>4, <2>5, StartIs
<1>3. CASE NotFound(c)
  <2>1. Funded(c) /\ Leave(c, "error")
    BY <1>3 DEF NotFound
  <2>2. excused' \in BOOLEAN
    BY <1>3 DEF NotFound, Excuse
  <2>3. UNCHANGED <<tracked, meta, published, clock, manual, faults, issued, lag, uncharged, toasted>>
    BY <1>3 DEF NotFound
  <2>4. HoldsBudget(c) /\ events' \in Seq(Time) /\ Len(events') <= MaxPerWindow
    BY <2>1, FundedRoom
  <2> QED
    BY <1>0, <2>1, <2>2, <2>3, <2>4, EndBase
<1>4. CASE StoreFailure(c)
  <2>1. call[c].stage = "sent" /\ Charge(c) /\ Leave(c, call[c].answer.kind)
    BY <1>4 DEF StoreFailure
  <2>2. excused' \in BOOLEAN
    BY <1>4 DEF StoreFailure, Excuse
  <2>3. UNCHANGED <<tracked, meta, published, clock, manual, faults, issued, lag, uncharged, toasted>>
    BY <1>4 DEF StoreFailure
  <2>4. HoldsBudget(c) /\ events' \in Seq(Time) /\ Len(events') <= MaxPerWindow
    BY <2>1, SenderIs, ChargeIs
  <2> QED
    BY <1>0, <2>1, <2>2, <2>3, <2>4, EndBase
<1>5. CASE Store(c)
  <2>1. call[c].stage = "sent" /\ meta' \in [Repo -> [Resource -> Cached]]
    BY <1>5, StoredType DEF Store
  <2>2. UNCHANGED <<tracked, published, clock, manual, uncharged, toasted, excused>>
    BY <1>5 DEF Store
  <2>3. HoldsBudget(c) /\ Len(events) + MAX_REQUESTS_PER_REPO <= MaxPerWindow
    BY <2>1, SenderIs
  <2>4. CASE Charge(c) /\ Leave(c, "refreshed") /\ UNCHANGED <<faults, issued, lag>>
    <3>1. events' \in Seq(Time) /\ Len(events') <= MaxPerWindow
      BY <2>1, <2>4, ChargeIs
    <3> QED
      BY <1>0, <2>1, <2>2, <2>3, <2>4, <3>1, EndBase
  <2>5. CASE \E k : Asks(c, k) /\ Asked(c, k) /\ events' = events
    BY <1>0, <2>1, <2>2, <2>3, <2>5, AskBase
  <2> QED
    BY <1>5, <2>4, <2>5, StoreIs
<1>6. CASE Breaks(c)
  <2>1. call[c].stage = "sent" /\ Leave(c, "error")
    BY <1>6 DEF Breaks
  <2>2. excused' \in BOOLEAN
    BY <1>6 DEF Breaks, Excuse
  <2>3. /\ UNCHANGED <<tracked, meta, published, clock, events, manual, issued, lag, toasted>>
        /\ uncharged' = uncharged + call[c].made
    BY <1>6 DEF Breaks
  <2>4. faults' \in 0..MaxFaults
    BY <1>0, <1>6 DEF Breaks, MetadataAssumption
  <2>5. HoldsBudget(c) /\ call[c].made \in 1..3
    BY <2>1, SenderIs
  <2>6. uncharged' \in Nat
    BY <1>0, <2>3, <2>5
  <2> QED
    BY <1>0, <2>1, <2>2, <2>3, <2>4, <2>5, <2>6, EndBase
<1> QED
  BY <1>1, <1>2, <1>3, <1>4, <1>5, <1>6 DEF Progress

\* Joining the queue: alone, or behind the other.
LEMMA JoinBase ==
  ASSUME MetadataAssumption, BaseInv, NEW c \in Caller, call[c].stage = "idle",
         NEW r \in Repo, call' = [call EXCEPT ![c] = Queued(r, clock)],
         queue' = Append(queue, c), UNCHANGED <<clock, events>>
  PROVE  /\ call' \in [Caller -> Call] /\ queue' \in Seq(Caller)
         /\ call'[c].stage = "queued" /\ call'[c].repo = r /\ call'[c].now = clock
         /\ call'[c].made = 0
         /\ call'[Other(c)] = call[Other(c)]
         /\ QueueInv' /\ CallInv' /\ RoomInv'
<1> DEFINE d == Other(c)
           k == Queued(r, clock)
<1>1. d \in Caller /\ d # c /\ Caller = {c, d}
  BY DEF Caller, Other
<1>2. call \in [Caller -> Call] /\ clock \in 1..MaxTime /\ MaxTime \in Nat /\ clock \in Nat
      /\ 1 <= clock
  BY DEF BaseInv, TypeOK, Time, MetadataAssumption
<1>3. /\ k \in Call /\ k.stage = "queued" /\ k.repo = r /\ k.now = clock /\ k.made = 0
  BY <1>2, QueuedIs
<1> HIDE DEF k
<1>4. call'[c] = k /\ call'[d] = call[d] /\ call' \in [Caller -> Call]
  <2>1. call' = [call EXCEPT ![c] = k]
    BY DEF k
  <2> QED
    BY <1>1, <1>2, <1>3, <2>1
<1>5. queue = <<>> \/ queue = <<d>>
  <2>1. queue \in Queues /\ ~Waits(c)
    BY DEF BaseInv, QueueInv
  <2> QED
    BY <2>1 DEF Queues, Caller, Waits, Other
<1>6. (queue = <<>> /\ queue' = <<c>>) \/ (queue = <<d>> /\ queue' = <<d, c>>)
  BY <1>1, <1>5, ShortQueues
<1>7. Waits(d) <=> queue = <<d>>
  BY <1>5 DEF Waits
<1>8. (Waits(d))' <=> queue = <<d>>
  BY <1>1, <1>6 DEF Waits
<1>9. (Waits(c))' = TRUE
  BY <1>1, <1>6 DEF Waits
<1>10. queue' \in Queues
  BY <1>1, <1>6 DEF Queues, Caller
<1>11. queue' \in Seq(Caller)
  <2>1. Queues \subseteq Seq(Caller)
    BY DEF Queues, Caller
  <2> QED
    BY <1>10, <2>1
<1>12. QueueInv'
  <2>1. call'[d].stage = "sent" => (HoldsBudget(d))'
    <3>1. call[d].stage = "sent" => queue = <<d>>
      BY <1>1, <1>7 DEF BaseInv, QueueInv
    <3>2. queue = <<d>> => (HoldsBudget(d))'
      BY <1>1, <1>6 DEF HoldsBudget
    <3> QED
      BY <1>4, <3>1, <3>2
  <2>2. (Waits(d))' <=> call'[d].stage \in {"queued", "sent"}
    BY <1>1, <1>4, <1>7, <1>8 DEF BaseInv, QueueInv
  <2>3. call'["pass"].stage # "report"
    BY <1>1, <1>3, <1>4 DEF BaseInv, QueueInv, Caller
  <2> QED
    BY <1>1, <1>3, <1>4, <1>9, <1>10, <2>1, <2>2, <2>3 DEF QueueInv
<1>13. CallInv'
  <2> SUFFICES ASSUME NEW e \in Caller
               PROVE  /\ call'[e].stage # "sent" => call'[e].made = 0
                      /\ call'[e].stage # "idle" => call'[e].repo \in Repo
                      /\ call'[e].stage \in {"queued", "sent"} =>
                           1 <= call'[e].now /\ call'[e].now <= clock
                      /\ call'[e].stage = "sent" =>
                           /\ call'[e].due # {} /\ 1 <= call'[e].made
                           /\ call'[e].made <= Place(NextResource(call'[e].due))
    BY DEF CallInv
  <2>1. CASE e = c
    BY <1>2, <1>3, <1>4, <2>1
  <2>2. CASE e = d
    BY <1>4, <2>2 DEF BaseInv, CallInv
  <2> QED
    BY <1>1, <2>1, <2>2
<1>14. RoomInv'
  BY <1>1, <1>3, <1>4 DEF BaseInv, RoomInv
<1> HIDE DEF d
<1> QED
  BY <1>3, <1>4, <1>11, <1>12, <1>13, <1>14 DEF d

\* A pass begins.
LEMMA PassStartBase ==
  ASSUME MetadataAssumption, BaseInv, PassStart
  PROVE  BaseInv'
<1> DEFINE due == {r \in tracked : DueResources(r, clock) # {}}
           oldest == [r \in Repo |-> OldestCheck(r)]
<1>1. /\ call["pass"].stage = "idle" /\ due # {}
      /\ pass' = [todo |-> due, oldest |-> oldest]
      /\ call' = [call EXCEPT !["pass"] = Queued(FirstOf(due, oldest), clock)]
      /\ queue' = Append(queue, "pass") /\ excused' = FALSE
      /\ UNCHANGED <<tracked, meta, published, clock, events, manual, faults, issued, lag,
                     uncharged, toasted>>
  BY DEF PassStart
<1>2. due \in SUBSET Repo
  BY DEF BaseInv, TypeOK
<1>3. oldest \in [Repo -> Nat]
  <2> SUFFICES ASSUME NEW r \in Repo PROVE OldestCheck(r) \in Nat
    OBVIOUS
  <2>1. \A res \in Resource : meta[r][res].at \in Nat
    BY DEF BaseInv, TypeOK, Cached
  <2> QED
    BY <2>1, OldestCheckType
<1> HIDE DEF due, oldest
<1>4. FirstOf(due, oldest) \in due
  <2>1. due \in SUBSET Nat /\ \A r \in due : oldest[r] \in Nat
    BY <1>2, <1>3 DEF MetadataAssumption
  <2> QED
    BY <1>1, <2>1, FirstOfIn
<1>5. "pass" \in Caller /\ FirstOf(due, oldest) \in Repo
  BY <1>2, <1>4 DEF Caller
<1>6. /\ call' \in [Caller -> Call] /\ queue' \in Seq(Caller)
      /\ call'["pass"].stage = "queued" /\ call'["pass"].repo = FirstOf(due, oldest)
      /\ QueueInv' /\ CallInv' /\ RoomInv'
  BY <1>1, <1>5, JoinBase
<1>7. PassInv'
  BY <1>1, <1>4, <1>6 DEF PassInv
<1>8. TypeOK'
  BY <1>1, <1>2, <1>3, <1>6 DEF BaseInv, TypeOK
<1> QED
  BY <1>6, <1>7, <1>8 DEF BaseInv

\* The columns of a row are numbers.
LEMMA CachedType ==
  ASSUME BaseInv, NEW r \in Repo, NEW res \in Resource
  PROVE  /\ meta[r][res] \in Cached
         /\ meta[r][res].shown \in Nat /\ meta[r][res].etag \in Nat
         /\ meta[r][res].at \in Nat /\ meta[r][res].ver \in Nat
<1>1. meta[r][res] \in Cached
  BY DEF BaseInv, TypeOK
<1> QED
  BY <1>1 DEF Cached

\* A command begins.
LEMMA ManualBeginBase ==
  ASSUME MetadataAssumption, BaseInv, NEW r \in Repo, ManualBegin(r)
  PROVE  BaseInv'
<1>1. /\ call["manual"].stage = "idle"
      /\ call' = [call EXCEPT !["manual"] = Queued(r, clock)]
      /\ queue' = Append(queue, "manual")
      /\ UNCHANGED <<tracked, meta, published, clock, events, pass, issued, lag,
                     uncharged, toasted, excused>>
  BY DEF ManualBegin, history
<1>2. "manual" \in Caller /\ Other("manual") = "pass"
  BY DEF Caller, Other
<1>3. /\ call' \in [Caller -> Call] /\ queue' \in Seq(Caller)
      /\ call'["pass"] = call["pass"]
      /\ QueueInv' /\ CallInv' /\ RoomInv'
  BY <1>1, <1>2, JoinBase
<1>4. PassInv'
  BY <1>1, <1>3 DEF BaseInv, PassInv
<1>5. manual' \in Nat \cup {Unread} /\ faults' \in 0..MaxFaults
  <2>1. meta[r]["release"].shown \in Nat
    BY CachedType DEF Resource
  <2>2. faults \in 0..MaxFaults /\ MaxFaults \in Nat
    BY DEF BaseInv, TypeOK, MetadataAssumption
  <2> QED
    BY <2>1, <2>2 DEF ManualBegin, Tag
<1>6. TypeOK'
  BY <1>1, <1>3, <1>5 DEF BaseInv, TypeOK
<1> QED
  BY <1>3, <1>4, <1>6 DEF BaseInv

\* A command reports.
LEMMA ManualReportBase ==
  ASSUME MetadataAssumption, BaseInv, ManualReport
  PROVE  BaseInv'
<1>1. /\ call["manual"].stage = "report"
      /\ call' = [call EXCEPT !["manual"] = NoCall]
      /\ manual' = Unread
      /\ UNCHANGED <<tracked, meta, published, clock, events, queue, pass, faults, issued, lag,
                     uncharged, excused>>
  BY DEF ManualReport
<1>2. NoCall \in Call /\ NoCall.stage = "idle" /\ NoCall.made = 0
  BY DEF NoCall, Call, Stage, NoAnswer, Answer, Kind, MAX_REQUESTS_PER_REPO
<1>3. /\ call' \in [Caller -> Call] /\ call'["pass"] = call["pass"] /\ call'["manual"] = NoCall
      /\ Caller = {"pass", "manual"}
  BY <1>1, <1>2 DEF BaseInv, TypeOK, Caller
<1>4. toasted' \in [Repo -> SUBSET Nat]
  <2> DEFINE r == call["manual"].repo
  <2>1. r \in Repo
    BY <1>1, <1>3 DEF BaseInv, CallInv
  <2>2. Tag(r) \in Nat
    BY <2>1, CachedType DEF Resource, Tag
  <2>3. toasted' = toasted \/ toasted' = [toasted EXCEPT ![r] = @ \cup {Tag(r)}]
    BY DEF ManualReport
  <2>4. toasted \in [Repo -> SUBSET Nat]
    BY DEF BaseInv, TypeOK
  <2>5. toasted[r] \cup {Tag(r)} \in SUBSET Nat
    BY <2>1, <2>2, <2>4
  <2> QED
    BY <2>3, <2>4, <2>5
<1>5. QueueInv'
  <2>1. \A c \in Caller : (Waits(c))' <=> Waits(c)
    BY <1>1 DEF Waits
  <2>2. \A c \in Caller : (HoldsBudget(c))' <=> HoldsBudget(c)
    BY <1>1 DEF HoldsBudget
  <2> QED
    BY <1>1, <1>2, <1>3, <2>1, <2>2 DEF BaseInv, QueueInv
<1>6. PassInv' /\ RoomInv'
  BY <1>1, <1>2, <1>3 DEF BaseInv, PassInv, RoomInv
<1>7. CallInv'
  BY <1>1, <1>2, <1>3 DEF BaseInv, CallInv
<1>8. TypeOK'
  BY <1>1, <1>3, <1>4 DEF BaseInv, TypeOK
<1> QED
  BY <1>5, <1>6, <1>7, <1>8 DEF BaseInv

\* What leaves the callers and the budget alone leaves their invariants alone.
LEMMA AsideBase ==
  ASSUME BaseInv, TypeOK', UNCHANGED <<events, queue, call, pass>>,
         clock' = clock \/ clock' = clock + 1
  PROVE  BaseInv'
<1>1. QueueInv'
  BY DEF BaseInv, QueueInv, Waits, HoldsBudget
<1>2. PassInv' /\ RoomInv'
  BY DEF BaseInv, PassInv, RoomInv
<1>3. CallInv'
  <2>1. \A c \in Caller : call[c].now \in Nat
    BY DEF BaseInv, TypeOK, Call
  <2>2. clock \in Int /\ \A now \in Nat : now <= clock => now <= clock'
    BY DEF BaseInv, TypeOK, Time
  <2> QED
    BY <2>1, <2>2 DEF BaseInv, CallInv
<1> QED
  BY <1>1, <1>2, <1>3 DEF BaseInv

\* The rest of the world.
LEMMA WorldBase ==
  ASSUME MetadataAssumption, BaseInv, Pass \/ \E r \in Repo : Remove(r) \/ \E res \in Resource : Publish(r, res)
  PROVE  BaseInv'
<1>1. CASE Pass
  <2>1. clock' = clock + 1 /\ clock' \in Time
    BY <1>1 DEF Pass, BaseInv, TypeOK, Time, MetadataAssumption
  <2>2. UNCHANGED <<tracked, meta, published, events, queue, call, pass, manual, faults,
                    issued, lag, uncharged, toasted, excused>>
    BY <1>1 DEF Pass, callers, history
  <2>3. TypeOK'
    BY <2>1, <2>2 DEF BaseInv, TypeOK
  <2> QED
    BY <2>1, <2>2, <2>3, AsideBase
<1>2. ASSUME NEW r \in Repo, Remove(r) PROVE BaseInv'
  <2>1. UNCHANGED <<published, clock, events, queue, call, pass, manual,
                    issued, lag, uncharged, toasted, excused>>
    BY <1>2 DEF Remove, callers, history
  <2>2. tracked' \subseteq Repo /\ faults' \in 0..MaxFaults
    BY <1>2 DEF Remove, BaseInv, TypeOK, MetadataAssumption
  <2>3. meta' \in [Repo -> [Resource -> Cached]]
    <3>1. NothingCached \in [Resource -> Cached]
      BY DEF NothingCached, Cached
    <3> QED
      BY <1>2, <3>1 DEF Remove, BaseInv, TypeOK
  <2>4. TypeOK'
    BY <2>1, <2>2, <2>3 DEF BaseInv, TypeOK
  <2> QED
    BY <2>1, <2>4, AsideBase
<1>3. ASSUME NEW r \in Repo, NEW res \in Resource, Publish(r, res) PROVE BaseInv'
  <2>1. UNCHANGED <<tracked, meta, clock, events, queue, call, pass, manual, faults,
                    issued, lag, uncharged, toasted, excused>>
    BY <1>3 DEF Publish, callers, history
  <2>2. published' \in [Repo -> [Resource -> Seq(Time)]]
    <3>1. published' = [published EXCEPT ![r][res] = Append(@, clock)]
      BY <1>3 DEF Publish
    <3>2. Append(published[r][res], clock) \in Seq(Time)
      BY DEF BaseInv, TypeOK
    <3> QED
      BY <3>1, <3>2 DEF BaseInv, TypeOK
  <2>3. TypeOK'
    BY <2>1, <2>2 DEF BaseInv, TypeOK
  <2> QED
    BY <2>1, <2>3, AsideBase
<1> QED
  BY <1>1, <1>2, <1>3

\* The live stamps can be counted.
LEMMA LiveCount ==
  ASSUME NEW stamps \in Seq(Int), NEW now
  PROVE  IsFiniteSet(Live(stamps, now)) /\ Cardinality(Live(stamps, now)) \in Nat
<1>1. IsFiniteSet(1..Len(stamps))
  BY FS_Interval
<1>2. Live(stamps, now) \in SUBSET (1..Len(stamps))
  BY DEF Live
<1> QED
  BY <1>1, <1>2, FS_Subset, FS_CardinalityType

\* A restart.
LEMMA RestartBase ==
  ASSUME MetadataAssumption, BaseInv, Restart
  PROVE  BaseInv'
<1>1. /\ events' = <<>> /\ queue' = <<>> /\ call' = [c \in Caller |-> NoCall]
      /\ pass' = NoPass /\ manual' = Unread /\ excused' = TRUE
      /\ UNCHANGED <<tracked, meta, published, clock, issued, lag, toasted>>
  BY DEF Restart
<1>2. NoCall \in Call /\ NoCall.stage = "idle" /\ NoCall.made = 0
  BY DEF NoCall, Call, Stage, NoAnswer, Answer, Kind, MAX_REQUESTS_PER_REPO
<1>3. faults' \in 0..MaxFaults
  BY DEF Restart, BaseInv, TypeOK, MetadataAssumption
<1>4. uncharged' \in Nat
  <2>1. events \in Seq(Int)
    <3>1. events \in Seq(Time) /\ Time \subseteq Int
      BY DEF BaseInv, TypeOK, Time
    <3> QED
      BY <3>1, SeqMonotonic
  <2>2. call["pass"].made \in Nat /\ call["manual"].made \in Nat /\ uncharged \in Nat
    BY DEF BaseInv, TypeOK, Call, Caller, MAX_REQUESTS_PER_REPO
  <2>3. Cardinality(Live(events, clock)) \in Nat
    BY <2>1, LiveCount
  <2>4. uncharged' = uncharged + Cardinality(Live(events, clock)) + call["pass"].made + call["manual"].made
    BY DEF Restart
  <2> QED
    BY <2>2, <2>3, <2>4
<1>5. \A c \in Caller : call'[c] = NoCall
  BY <1>1
<1>6. TypeOK'
  <2>1. call' \in [Caller -> Call] /\ NoPass \in [todo : SUBSET Repo, oldest : [Repo -> Nat]]
    BY <1>1, <1>2 DEF NoPass
  <2>2. events' \in Seq(Time) /\ Len(events') <= MaxPerWindow /\ queue' \in Seq(Caller)
    BY <1>1, RateBudgetAssumption DEF RateBudgetAssumption
  <2> QED
    BY <1>1, <1>3, <1>4, <2>1, <2>2 DEF BaseInv, TypeOK
<1>7. QueueInv'
  <2>1. queue' \in Queues /\ \A c \in Caller : ~(Waits(c))'
    BY <1>1 DEF Queues, Waits
  <2> QED
    BY <1>2, <1>5, <2>1 DEF QueueInv, Caller
<1>8. PassInv' /\ CallInv' /\ RoomInv'
  BY <1>1, <1>2, <1>5 DEF PassInv, CallInv, RoomInv, Caller
<1> QED
  BY <1>6, <1>7, <1>8 DEF BaseInv

\* Every step keeps the types, the queue and the room in the budget.
LEMMA NextBase ==
  ASSUME MetadataAssumption, BaseInv, [Next]_vars
  PROVE  BaseInv'
<1>1. CASE UNCHANGED vars
  <2>1. UNCHANGED <<tracked, meta, published, clock, events, queue, call, pass, manual, faults,
                    issued, lag, uncharged, toasted, excused>>
    BY <1>1 DEF vars, callers, history
  <2>2. TypeOK'
    BY <2>1 DEF BaseInv, TypeOK
  <2> QED
    BY <2>1, <2>2, AsideBase
<1>2. ASSUME NEW c \in Caller, Progress(c) PROVE BaseInv'
  BY <1>2, ProgressBase
<1>3. ASSUME NEW r \in Watched, ManualBegin(r) PROVE BaseInv'
  BY <1>3, ManualBeginBase DEF MetadataAssumption
<1>4. CASE Pass \/ \E r \in Watched : Remove(r) \/ \E res \in Resource : Publish(r, res)
  BY <1>4, WorldBase DEF MetadataAssumption
<1> QED
  BY <1>1, <1>2, <1>3, <1>4, PassStartBase, ManualReportBase, RestartBase DEF Next

\* The calls queue for the budget one at a time, a pass is at one of its rows, and the
\* stamps never exceed the budget: repo refreshes hold the mutex over RateBudgeter.
THEOREM Base == Spec => []BaseInv
<1>1. Init => BaseInv
  BY InitBase, MetadataAssumption, RateBudgetAssumption
<1>2. BaseInv /\ [Next]_vars => BaseInv'
  BY NextBase, MetadataAssumption
<1> QED
  BY <1>1, <1>2, PTL DEF Spec

\* Every variable of the metadata client keeps its type, and the budgeter never holds
\* more stamps than the hour allows (RateBudgeter::record after can_spend).
THEOREM TypeCorrect == Spec => []TypeOK
<1>1. BaseInv => TypeOK
  BY DEF BaseInv
<1> QED
  BY <1>1, Base, PTL

-----------------------------------------------------------------------------
(* What is stored *)

\* What an answer leaves of a row is a version that was current at its mark, and no
\* earlier one than before.
LEMMA StoredRow ==
  ASSUME BaseInv, DataInv, NEW c \in Caller, Store(c), call[c].repo \in tracked
  PROVE  LET r == call[c].repo
             res == NextResource(call[c].due)
             row == Written(meta[r][res], call[c].answer, call[c].now)
         IN /\ r \in Repo /\ res \in Resource /\ row \in Cached
            /\ RowOK(r, res, row)
            /\ meta[r][res].ver <= row.ver
            /\ meta' = [meta EXCEPT ![r][res] = row]
<1> DEFINE r == call[c].repo
           res == NextResource(call[c].due)
           k == call[c]
           cached == meta[r][res]
           row == Written(cached, k.answer, k.now)
<1>1. call[c].stage = "sent"
  BY DEF Store
<1>2. /\ r \in Repo /\ res \in Resource /\ res \in k.due /\ k.now \in Nat
      /\ 1 <= k.now /\ k.now <= clock /\ k.answer \in Answer
  BY <1>1, SenderIs, HolderIs DEF Call
<1>3. /\ cached \in Cached /\ cached.etag \in Nat /\ cached.shown \in Nat
      /\ cached.ver \in Nat /\ cached.at \in Nat
  BY <1>2, CachedType
<1>4. RowOK(r, res, cached)
  BY <1>2 DEF DataInv, MetaInv
<1>5. AnswerOK(k)
  BY <1>1 DEF DataInv, AnswerInv
<1>6. /\ CurrentSince(r, res, k.answer.ver, k.now)
      /\ k.answer.kind = "modified" => k.answer.ver # 0 /\ ~Gone(res, k.answer.ver)
      /\ k.answer.kind = "no_release" => Gone(res, k.answer.ver)
      /\ k.answer.kind = "not_modified" =>
           k.answer.ver # 0 /\ k.etag[res] = k.answer.ver /\ ~Gone(res, k.answer.ver)
      /\ k.etag[res] = cached.etag /\ cached.ver <= k.answer.ver
  BY <1>2, <1>5 DEF AnswerOK
<1>7. meta' = [meta EXCEPT ![r][res] = row]
  BY DEF Store
<1>8. row \in Cached
  BY <1>2, <1>3, WrittenType
<1>9. k.answer.ver \in Nat
  BY <1>2 DEF Answer
<1> HIDE DEF res, r, cached, k
<1>10. RowOK(r, res, row) /\ cached.ver <= row.ver
  <2>1. CASE k.answer.kind = "modified"
    <3>1. row = Fetched(k.answer.ver, k.answer.ver, k.now)
      BY <2>1 DEF Written
    <3>2. row.shown = k.answer.ver /\ row.etag = k.answer.ver /\ row.at = k.now /\ row.ver = k.answer.ver
      BY <3>1 DEF Fetched
    <3> HIDE DEF row
    <3> QED
      BY <1>2, <1>6, <2>1, <3>2 DEF RowOK
  <2>2. CASE k.answer.kind = "no_release"
    <3>1. row = Fetched(0, k.answer.ver, k.now)
      BY <2>2 DEF Written
    <3>2. row.shown = 0 /\ row.etag = 0 /\ row.at = k.now /\ row.ver = k.answer.ver
      BY <3>1 DEF Fetched
    <3> HIDE DEF row
    <3> QED
      BY <1>2, <1>6, <2>2, <3>2 DEF RowOK
  <2>3. CASE k.answer.kind = "not_modified"
    <3>1. row = [cached EXCEPT !.at = k.now]
      BY <2>3 DEF Written
    <3>2. row.shown = cached.shown /\ row.etag = cached.etag /\ row.at = k.now /\ row.ver = cached.ver
      BY <1>3, <3>1 DEF Cached
    <3>3. /\ cached.etag = k.answer.ver /\ cached.etag # 0
          /\ cached.ver = k.answer.ver /\ cached.shown = k.answer.ver /\ ~Gone(res, k.answer.ver)
      BY <1>4, <1>6, <2>3 DEF RowOK
    <3> HIDE DEF row
    <3> QED
      BY <1>2, <1>3, <1>6, <1>9, <3>2, <3>3 DEF RowOK
  <2>4. CASE k.answer.kind \notin {"modified", "no_release", "not_modified"}
    <3>1. row = cached
      BY <2>4 DEF Written
    <3> QED
      BY <1>3, <1>4, <3>1
  <2> QED
    BY <2>1, <2>2, <2>3, <2>4
<1> QED
  BY <1>2, <1>7, <1>8, <1>10 DEF res, r, cached, k

\* Then every row is kept or is the one stored, and no version regresses.
LEMMA StoredMeta ==
  ASSUME BaseInv, DataInv, NEW c \in Caller, Store(c)
  PROVE  /\ MetaInv'
         /\ \A r \in Repo : \A res \in Resource : meta[r][res].ver <= meta'[r][res].ver
         /\ \A res \in Resource :
              res # NextResource(call[c].due)
                => meta'[call[c].repo][res] = meta[call[c].repo][res]
<1> DEFINE r == call[c].repo
           res == NextResource(call[c].due)
           row == Written(meta[r][res], call[c].answer, call[c].now)
<1>1. UNCHANGED <<published, clock>> /\ r \in Repo /\ res \in Resource
  BY SenderIs, HolderIs DEF Store
<1>2. meta \in [Repo -> [Resource -> Cached]]
  BY DEF BaseInv, TypeOK
<1>3. ASSUME NEW q \in Repo, NEW s \in Resource
      PROVE  meta[q][s].ver \in Nat /\ RowOK(q, s, meta[q][s])
  BY CachedType DEF DataInv, MetaInv
<1>4. ASSUME r \in tracked
      PROVE  /\ row \in Cached /\ RowOK(r, res, row) /\ meta[r][res].ver <= row.ver
             /\ meta' = [meta EXCEPT ![r][res] = row]
  BY <1>4, StoredRow
<1>5. r \notin tracked => meta' = meta
  BY DEF Store
<1> HIDE DEF row, r, res
<1>6. ASSUME NEW q \in Repo, NEW s \in Resource
      PROVE  /\ RowOK(q, s, meta'[q][s]) /\ meta[q][s].ver <= meta'[q][s].ver
             /\ ~(q = r /\ s = res) => meta'[q][s] = meta[q][s]
  <2>1. CASE r \in tracked /\ q = r /\ s = res
    <3>1. meta'[q][s] = row
      BY <1>1, <1>2, <1>4, <2>1
    <3> QED
      BY <1>4, <2>1, <3>1
  <2>2. CASE ~(r \in tracked /\ q = r /\ s = res)
    <3>1. meta'[q][s] = meta[q][s]
      BY <1>1, <1>2, <1>4, <1>5, <2>2
    <3> QED
      BY <1>3, <2>2, <3>1
  <2> QED
    BY <2>1, <2>2
<1>7. MetaInv'
  BY <1>1, <1>6 DEF MetaInv, RowOK, CurrentSince, Version
<1>8. \A s \in Resource : s # res => meta'[r][s] = meta[r][s]
  BY <1>1, <1>6
<1> QED
  BY <1>6, <1>7, <1>8 DEF r, res

\* A version that is cached and shown is the tag; of two that are cached in turn, the
\* same one is shown alike.
LEMMA TagIs ==
  ASSUME BaseInv, MetaInv, NEW r \in Repo
  PROVE  /\ Tag(r) \in Nat /\ meta[r]["release"].ver \in Nat
         /\ Tag(r) # 0 => Tag(r) = meta[r]["release"].ver /\ ~Gone("release", Tag(r))
         /\ meta[r]["release"].ver # 0 /\ ~Gone("release", meta[r]["release"].ver)
              => Tag(r) = meta[r]["release"].ver
<1> DEFINE cached == meta[r]["release"]
<1>1. cached.shown \in Nat /\ cached.ver \in Nat /\ cached.at \in Nat /\ RowOK(r, "release", cached)
  BY CachedType DEF MetaInv, Resource
<1>2. NothingCached["release"].ver = 0 /\ NothingCached["release"].shown = 0
  BY DEF NothingCached, Resource
<1> HIDE DEF cached
<1>3. cached.shown # 0 => cached.shown = cached.ver /\ ~Gone("release", cached.ver)
  BY <1>1, <1>2 DEF RowOK
<1>4. cached.ver # 0 /\ ~Gone("release", cached.ver) => cached.shown = cached.ver
  BY <1>1, <1>2 DEF RowOK
<1> QED
  BY <1>1, <1>3, <1>4 DEF Tag, cached

\* What was announced stays announced as long as no row regresses and no command begins.
LEMMA ToastKept ==
  ASSUME BaseInv, BaseInv', DataInv, MetaInv',
         UNCHANGED <<tracked, toasted, manual>>,
         \A r \in Repo : \A res \in Resource : meta[r][res].ver <= meta'[r][res].ver,
         call'["manual"].stage # "idle" =>
           call["manual"].stage # "idle" /\ call'["manual"].repo = call["manual"].repo
  PROVE  ToastInv'
<1>1. tracked \subseteq Repo /\ toasted \in [Repo -> SUBSET Nat] /\ "release" \in Resource
  BY DEF BaseInv, TypeOK, Resource
<1>2. ASSUME NEW r \in tracked, NEW tag \in toasted[r]
      PROVE  /\ tag \in Nat /\ tag # 0 /\ tag <= meta[r]["release"].ver
             /\ tag <= meta'[r]["release"].ver
             /\ (Tag(r))' = tag => Tag(r) = tag
  <2>1. r \in Repo /\ tag \in Nat /\ tag # 0 /\ tag <= meta[r]["release"].ver
    BY <1>1 DEF DataInv, ToastInv
  <2>2. meta[r]["release"].ver <= meta'[r]["release"].ver
    BY <1>1, <2>1
  <2>3. /\ meta[r]["release"].ver \in Nat
        /\ meta[r]["release"].ver # 0 /\ ~Gone("release", meta[r]["release"].ver)
             => Tag(r) = meta[r]["release"].ver
    BY <2>1, TagIs DEF DataInv
  <2>4. /\ meta'[r]["release"].ver \in Nat
        /\ (Tag(r))' # 0 => (Tag(r))' = meta'[r]["release"].ver /\ ~Gone("release", (Tag(r))')
    <3> DEFINE row == meta'[r]["release"]
    <3>1. row \in Cached
      BY <1>1, <2>1 DEF BaseInv, TypeOK
    <3>2. /\ row.at = 0 => row = NothingCached["release"]
          /\ row.at # 0 => row.shown = IF Gone("release", row.ver) THEN 0 ELSE row.ver
      BY <1>1, <2>1 DEF MetaInv, RowOK, Gone, NoRelease
    <3>3. NothingCached["release"].shown = 0
      BY <1>1 DEF NothingCached
    <3>4. (Tag(r))' = row.shown
      BY DEF Tag
    <3> HIDE DEF row
    <3>5. row.ver \in Nat /\ (row.shown # 0 => row.shown = row.ver /\ ~Gone("release", row.shown))
      BY <3>1, <3>2, <3>3 DEF Cached
    <3> QED
      BY <3>4, <3>5 DEF row
  <2> QED
    BY <2>1, <2>2, <2>3, <2>4
<1> QED
  BY <1>1, <1>2 DEF DataInv, ToastInv

\* An answer stays as good as it was while its call, the rows and GitHub do.
LEMMA SameAnswer ==
  ASSUME NEW c \in Caller, AnswerOK(call[c]), call'[c] = call[c],
         UNCHANGED <<tracked, meta, published>>
  PROVE  (AnswerOK(call[c]))'
<1>1. ASSUME NEW k, AnswerOK(k) PROVE (AnswerOK(k))'
  BY <1>1 DEF AnswerOK, CurrentSince, Version, Gone, NoRelease
<1> QED
  BY <1>1 DEF AnswerOK, CurrentSince, Version, Gone, NoRelease

\* A request is answered about a version that is current, and no earlier one than is cached.
LEMMA AskedAnswer ==
  ASSUME BaseInv, DataInv, NEW c \in Caller, HoldsBudget(c), NEW k, Asks(c, k), Asked(c, k),
         1 <= k.now, k.now <= clock, MetaInv',
         UNCHANGED <<tracked, published, clock>>,
         k.repo \in tracked => \A res \in k.due : k.etag[res] = meta'[k.repo][res].etag
  PROVE  AnswerInv'
<1> DEFINE res == NextResource(k.due)
           sent == call'[c]
<1>1. Caller = {c, Other(c)} /\ call'[Other(c)] = call[Other(c)] /\ call[Other(c)].stage # "sent"
  <2>1. Caller = {c, Other(c)}
    BY DEF Caller, Other
  <2>2. call' = [call EXCEPT ![c] = call'[c]] /\ call \in [Caller -> Call]
    BY DEF Asked, BaseInv, TypeOK
  <2> QED
    BY <2>1, <2>2, OtherWaits DEF BaseInv
<1>2. /\ k.due \in SUBSET Resource /\ k.due # {} /\ k.repo \in Repo /\ k.now \in Nat
  BY DEF Asks, Call
<1>3. res \in Resource /\ res \in k.due
  BY <1>2, NextResourceIn
<1>4. Version(k.repo, res) \in Nat /\ Version(k.repo, res) >= 1
  BY <1>2, <1>3 DEF DataInv, PublishedInv, Version, BaseInv, TypeOK
<1>5. /\ sent.repo = k.repo /\ sent.now = k.now /\ sent.due = k.due /\ sent.etag = k.etag
      /\ sent.answer.ver = Version(k.repo, res)
      /\ sent.answer.kind = "modified" => ~Gone(res, Version(k.repo, res))
      /\ sent.answer.kind = "no_release" => Gone(res, Version(k.repo, res))
      /\ sent.answer.kind = "not_modified" =>
           /\ k.etag[res] # 0 /\ k.etag[res] = Version(k.repo, res)
           /\ ~Gone(res, Version(k.repo, res))
  BY DEF Asked
<1>6. \A ver \in {Version(k.repo, res)} : CurrentSince(k.repo, res, ver, k.now)
  BY <1>4 DEF CurrentSince
<1>7. meta'[k.repo][res].ver <= Version(k.repo, res)
  <2>1. \A r \in Repo : \A s \in Resource : meta'[r][s].ver <= Len(published'[r][s])
    BY DEF MetaInv, RowOK, CurrentSince, Version
  <2> QED
    BY <1>2, <1>3, <2>1 DEF Version
<1> HIDE DEF sent, res
<1>8. /\ NextResource(sent.due) = res /\ CurrentSince(sent.repo, res, sent.answer.ver, sent.now)
      /\ sent.answer.kind = "modified" => sent.answer.ver # 0 /\ ~Gone(res, sent.answer.ver)
      /\ sent.answer.kind = "no_release" => Gone(res, sent.answer.ver)
      /\ sent.answer.kind = "not_modified" =>
           sent.answer.ver # 0 /\ sent.etag[res] = sent.answer.ver /\ ~Gone(res, sent.answer.ver)
      /\ sent.repo \in tracked =>
           /\ \A d \in sent.due : sent.etag[d] = meta'[sent.repo][d].etag
           /\ meta'[sent.repo][res].ver <= sent.answer.ver
  BY <1>4, <1>5, <1>6, <1>7 DEF res
<1>9. (AnswerOK(call[c]))'
  BY <1>8 DEF AnswerOK, CurrentSince, Version, Gone, NoRelease, sent
<1> QED
  BY <1>1, <1>9 DEF AnswerInv

\* What a command is about, when a call is over or asks: what it was about.
LEMMA SameManual ==
  ASSUME MetadataAssumption, BaseInv, NEW c \in Caller, HoldsBudget(c),
         \/ \E outcome : Leave(c, outcome)
         \/ \E k : Asks(c, k) /\ Asked(c, k)
  PROVE  call'["manual"].stage # "idle" =>
           call["manual"].stage # "idle" /\ call'["manual"].repo = call["manual"].repo
<1>1. call[c].stage \in {"queued", "sent"} /\ call \in [Caller -> Call]
  BY HolderIs DEF BaseInv, TypeOK
<1>2. CASE \E outcome : Leave(c, outcome)
  <2>1. /\ call' = [call EXCEPT ![c] = call'[c]]
        /\ c = "manual" => (call'[c].stage # "idle" => call'[c].repo = call[c].repo)
    BY <1>2, LeaveIs DEF BaseInv
  <2> QED
    BY <1>1, <2>1 DEF Caller
<1>3. CASE \E k : Asks(c, k) /\ Asked(c, k)
  <2>1. call' = [call EXCEPT ![c] = call'[c]] /\ call'[c].repo = call[c].repo
    BY <1>3 DEF Asks, Asked
  <2> QED
    BY <1>1, <2>1 DEF Caller
<1> QED
  BY <1>2, <1>3

\* A step that ends a call keeps the data, whatever it stored.
LEMMA EndData ==
  ASSUME MetadataAssumption, BaseInv, BaseInv', DataInv, NEW c \in Caller, HoldsBudget(c),
         NEW outcome, Leave(c, outcome), MetaInv',
         UNCHANGED <<tracked, published, clock, manual, toasted>>,
         \A r \in Repo : \A res \in Resource : meta[r][res].ver <= meta'[r][res].ver
  PROVE  DataInv'
<1>1. \A d \in Caller : call'[d].stage # "sent"
  BY LeaveBase
<1>2. AnswerInv'
  BY <1>1 DEF AnswerInv
<1>3. PublishedInv'
  BY DEF DataInv, PublishedInv, Version
<1>4. ToastInv'
  BY SameManual, ToastKept
<1> QED
  BY <1>2, <1>3, <1>4 DEF DataInv

\* So does a step that asks.
LEMMA AskData ==
  ASSUME MetadataAssumption, BaseInv, BaseInv', DataInv, NEW c \in Caller, HoldsBudget(c),
         NEW k, Asks(c, k), Asked(c, k), MetaInv',
         UNCHANGED <<tracked, published, clock, manual, toasted>>,
         \A r \in Repo : \A res \in Resource : meta[r][res].ver <= meta'[r][res].ver,
         k.repo \in tracked => \A res \in k.due : k.etag[res] = meta'[k.repo][res].etag
  PROVE  DataInv'
<1>1. 1 <= k.now /\ k.now <= clock
  <2>1. k.now = call[c].now
    BY DEF Asks
  <2> QED
    BY <2>1, HolderIs
<1>2. AnswerInv'
  BY <1>1, AskedAnswer
<1>3. PublishedInv'
  BY DEF DataInv, PublishedInv, Version
<1>4. ToastInv'
  BY SameManual, ToastKept
<1> QED
  BY <1>2, <1>3, <1>4 DEF DataInv

\* Rows that nobody touches.
LEMMA SameRows ==
  ASSUME BaseInv, DataInv, UNCHANGED <<meta, published, clock>>
  PROVE  /\ MetaInv'
         /\ \A r \in Repo : \A res \in Resource : meta[r][res].ver <= meta'[r][res].ver
<1>1. \A r \in Repo : \A res \in Resource : meta[r][res].ver \in Nat
  BY CachedType
<1>2. MetaInv'
  BY DEF DataInv, MetaInv, RowOK, CurrentSince, Version
<1> QED
  BY <1>1, <1>2

\* The steps of a call keep the data.
LEMMA ProgressData ==
  ASSUME MetadataAssumption, BaseInv, BaseInv', DataInv, NEW c \in Caller, Progress(c)
  PROVE  DataInv'
<1>1. CASE Refuse(c) \/ NotFound(c)
  <2>1. /\ HoldsBudget(c) /\ \E outcome : Leave(c, outcome)
        /\ UNCHANGED <<tracked, meta, published, clock, manual, toasted>>
    BY <1>1 DEF Refuse, NotFound, Funded
  <2> QED
    BY <2>1, SameRows, EndData
<1>2. CASE StoreFailure(c) \/ Breaks(c)
  <2>1. /\ call[c].stage = "sent" /\ \E outcome : Leave(c, outcome)
        /\ UNCHANGED <<tracked, meta, published, clock, manual, toasted>>
    BY <1>2 DEF StoreFailure, Breaks
  <2> QED
    BY <2>1, SenderIs, SameRows, EndData
<1>3. CASE Start(c)
  <2>1. /\ HoldsBudget(c) /\ UNCHANGED <<tracked, meta, published, clock, manual, toasted>>
    BY <1>3 DEF Start, Funded
  <2>2. /\ MetaInv'
        /\ \A r \in Repo : \A res \in Resource : meta[r][res].ver <= meta'[r][res].ver
    BY <2>1, SameRows
  <2>3. CASE Leave(c, "refreshed")
    BY <2>1, <2>2, <2>3, EndData
  <2>4. ASSUME NEW due \in SUBSET Resource, NEW k, Asks(c, k), Asked(c, k), k.repo = call[c].repo, k.due = due,
               k.etag = [res \in Resource |-> meta[call[c].repo][res].etag]
        PROVE  DataInv'
    <3>1. \A res \in k.due : k.etag[res] = meta'[k.repo][res].etag
      BY <2>1, <2>4
    <3> QED
      BY <2>1, <2>2, <2>4, <3>1, AskData
  <2> QED
    BY <1>3, <2>3, <2>4, StartIs
<1>4. CASE Store(c)
  <2> DEFINE rest == call[c].due \ {NextResource(call[c].due)}
  <2>1. call[c].stage = "sent" /\ UNCHANGED <<tracked, published, clock, manual, toasted>>
    BY <1>4 DEF Store
  <2>2. HoldsBudget(c)
    BY <2>1, SenderIs
  <2>3. /\ MetaInv'
        /\ \A r \in Repo : \A res \in Resource : meta[r][res].ver <= meta'[r][res].ver
        /\ \A res \in Resource : res # NextResource(call[c].due)
             => meta'[call[c].repo][res] = meta[call[c].repo][res]
    BY <1>4, StoredMeta
  <2>4. CASE Leave(c, "refreshed")
    BY <2>1, <2>2, <2>3, <2>4, EndData
  <2>5. ASSUME NEW k, Asks(c, k), Asked(c, k), k.repo = call[c].repo,
               k.due = rest, k.etag = call[c].etag
        PROVE  DataInv'
    <3>1. AnswerOK(call[c]) /\ call[c].due \in SUBSET Resource
      BY <2>1, SenderIs DEF DataInv, AnswerInv
    <3>2. k.repo \in tracked => \A res \in k.due : k.etag[res] = meta'[k.repo][res].etag
      BY <2>3, <2>5, <3>1 DEF AnswerOK
    <3> QED
      BY <2>1, <2>2, <2>3, <2>5, <3>2, AskData
  <2> QED
    BY <1>4, <2>4, <2>5, StoreIs
<1> QED
  BY <1>1, <1>2, <1>3, <1>4 DEF Progress

\* A command announces what is new, and a later one will not announce it again.
LEMMA ManualReportData ==
  ASSUME MetadataAssumption, BaseInv, DataInv, ManualReport
  PROVE  DataInv'
<1> DEFINE r == call["manual"].repo
<1>1. /\ call["manual"].stage = "report" /\ call' = [call EXCEPT !["manual"] = NoCall]
      /\ UNCHANGED <<tracked, meta, published, clock>>
      /\ toasted' = IF r \in tracked /\ ReleaseChange(manual, Tag(r))
                    THEN [toasted EXCEPT ![r] = @ \cup {Tag(r)}] ELSE toasted
  BY DEF ManualReport
<1>2. /\ call'["manual"].stage = "idle" /\ call'["pass"] = call["pass"]
      /\ toasted \in [Repo -> SUBSET Nat] /\ tracked \subseteq Repo
  BY <1>1 DEF BaseInv, TypeOK, Caller, NoCall
<1>3. MetaInv' /\ PublishedInv'
  BY <1>1, SameRows DEF DataInv, PublishedInv, Version
<1>4. AnswerInv'
  <2>1. ASSUME NEW c \in Caller, call'[c].stage = "sent" PROVE (AnswerOK(call[c]))'
    <3>1. c = "pass" /\ AnswerOK(call["pass"])
      BY <1>2, <2>1 DEF Caller, DataInv, AnswerInv
    <3> QED
      BY <1>1, <1>2, <3>1, SameAnswer
  <2> QED
    BY <2>1 DEF AnswerInv
<1>5. ToastInv'
  <2> SUFFICES ASSUME NEW q \in tracked, NEW tag \in toasted'[q]
               PROVE  tag # 0 /\ tag <= meta[q]["release"].ver
    BY <1>1, <1>2 DEF ToastInv
  <2>1. CASE tag \in toasted[q]
    BY <2>1 DEF DataInv, ToastInv
  <2>2. CASE tag \notin toasted[q]
    <3>1. q = r /\ tag = Tag(r) /\ ReleaseChange(manual, Tag(r))
      BY <1>1, <1>2, <2>2
    <3>2. Tag(r) # 0
      BY <3>1 DEF ReleaseChange
    <3>3. r \in Repo
      BY <1>2, <3>1
    <3>4. Tag(r) \in Nat /\ Tag(r) = meta[r]["release"].ver
      BY <3>2, <3>3, TagIs DEF DataInv
    <3> QED
      BY <3>1, <3>2, <3>4
  <2> QED
    BY <2>1, <2>2
<1> QED
  BY <1>3, <1>4, <1>5 DEF DataInv

\* A caller that joins the queue.
LEMMA JoinData ==
  ASSUME MetadataAssumption, BaseInv, DataInv, NEW c \in Caller, call[c].stage = "idle",
         NEW r \in Repo, call' = [call EXCEPT ![c] = Queued(r, clock)],
         queue' = Append(queue, c), UNCHANGED <<clock, events, tracked, meta, published, toasted>>,
         c = "pass" => manual' = manual,
         c = "manual" => manual' \in {Unread, Tag(r)}
  PROVE  DataInv'
<1>1. /\ call'[c].stage = "queued" /\ call'[c].repo = r /\ call'[Other(c)] = call[Other(c)]
      /\ Caller = {c, Other(c)}
  <2>1. Caller = {c, Other(c)}
    BY DEF Caller, Other
  <2> QED
    BY <2>1, JoinBase
<1>2. MetaInv' /\ PublishedInv'
  BY SameRows DEF DataInv, PublishedInv, Version
<1>3. AnswerInv'
  <2>1. ASSUME NEW d \in Caller, call'[d].stage = "sent" PROVE (AnswerOK(call[d]))'
    <3>1. call'[d] = call[d] /\ AnswerOK(call[d])
      BY <1>1, <2>1 DEF DataInv, AnswerInv
    <3> QED
      BY <3>1, SameAnswer
  <2> QED
    BY <2>1 DEF AnswerInv
<1>4. ToastInv'
  <2>1. CASE c = "pass"
    <3>1. call'["manual"] = call["manual"]
      BY <1>1, <2>1 DEF Other
    <3> QED
      BY <2>1, <3>1 DEF DataInv, ToastInv, Tag
  <2>2. CASE c = "manual"
    <3>1. (Tag(call["manual"].repo))' = Tag(r)
      BY <1>1, <2>2 DEF Tag
    <3> QED
      BY <2>2, <3>1 DEF DataInv, ToastInv
  <2> QED
    BY <2>1, <2>2 DEF Caller
<1> QED
  BY <1>2, <1>3, <1>4 DEF DataInv

\* A publication comes after every stamp.
LEMMA PublishedSince ==
  ASSUME MetadataAssumption, BaseInv, NEW r \in Repo, NEW res \in Resource, Publish(r, res),
         NEW q \in Repo, NEW s \in Resource, NEW ver \in Nat, NEW at \in Nat, at <= clock,
         CurrentSince(q, s, ver, at)
  PROVE  (CurrentSince(q, s, ver, at))'
<1> DEFINE old == published[q][s]
           new == published'[q][s]
<1>1. published \in [Repo -> [Resource -> Seq(Time)]] /\ clock \in Time /\ clock \in Nat
  BY DEF BaseInv, TypeOK, Time
<1>2. published' = [published EXCEPT ![r][res] = Append(@, clock)]
  BY DEF Publish
<1>3. old \in Seq(Time) /\ (new = old \/ new = Append(old, clock))
  BY <1>1, <1>2
<1>4. ver <= Len(old) /\ (ver < Len(old) => old[ver + 1] >= at)
  BY DEF CurrentSince, Version
<1> HIDE DEF old, new
<1>5. ver <= Len(new) /\ (ver < Len(new) => new[ver + 1] >= at)
  <2>1. CASE new = old
    BY <1>4, <2>1
  <2>2. CASE new = Append(old, clock)
    <3>1. /\ Len(new) = Len(old) + 1 /\ Len(old) \in Nat /\ new[Len(old) + 1] = clock
          /\ \A i \in 1..Len(old) : new[i] = old[i]
      BY <1>1, <1>3, <2>2
    <3>2. ver <= Len(new)
      BY <1>4, <3>1
    <3>3. CASE ver < Len(old)
      <4>1. ver + 1 \in 1..Len(old)
        BY <3>1, <3>3
      <4> QED
        BY <1>4, <3>1, <3>2, <3>3, <4>1
    <3>4. CASE ver = Len(old)
      BY <1>1, <3>1, <3>2, <3>4
    <3> QED
      BY <1>4, <3>1, <3>3, <3>4
  <2> QED
    BY <1>3, <2>1, <2>2
<1> QED
  BY <1>5 DEF CurrentSince, Version, new

\* A new version outdates answers and rows, no earlier than their marks.
LEMMA PublishData ==
  ASSUME MetadataAssumption, BaseInv, DataInv, NEW r \in Repo, NEW res \in Resource, Publish(r, res)
  PROVE  DataInv'
<1>1. UNCHANGED <<tracked, meta, clock, call, manual, toasted>>
  BY DEF Publish, callers, history
<1>2. published' = [published EXCEPT ![r][res] = Append(@, clock)]
  BY DEF Publish
<1>3. PublishedInv'
  <2> SUFFICES ASSUME NEW q \in Repo, NEW s \in Resource PROVE Len(published'[q][s]) >= 1
    BY DEF PublishedInv, Version
  <2>1. published \in [Repo -> [Resource -> Seq(Time)]] /\ clock \in Time
    BY DEF BaseInv, TypeOK
  <2>2. published[q][s] \in Seq(Time) /\ Len(published[q][s]) >= 1
    BY <2>1 DEF DataInv, PublishedInv, Version
  <2>3. published'[q][s] \in {published[q][s], Append(published[q][s], clock)}
    BY <1>2, <2>1
  <2>4. Len(Append(published[q][s], clock)) = Len(published[q][s]) + 1 /\ Len(published[q][s]) \in Nat
    BY <2>1, <2>2
  <2> QED
    BY <2>2, <2>3, <2>4
<1>4. MetaInv'
  <2> SUFFICES ASSUME NEW q \in Repo, NEW s \in Resource PROVE (RowOK(q, s, meta[q][s]))'
    BY DEF MetaInv
  <2> DEFINE cached == meta[q][s]
  <2>1. RowOK(q, s, cached) /\ cached.at \in Nat /\ cached.ver \in Nat /\ 0 <= clock /\ clock \in Nat
    <3>1. RowOK(q, s, cached)
      BY DEF DataInv, MetaInv
    <3>2. clock \in Nat /\ 0 <= clock
      BY DEF BaseInv, TypeOK, Time
    <3> QED
      BY <3>1, <3>2, CachedType
  <2>2. CurrentSince(q, s, cached.ver, cached.at) /\ cached.at <= clock
    <3> HIDE DEF cached
    <3> QED
      BY <2>1 DEF RowOK
  <2>3. \A ver \in {cached.ver}, at \in {cached.at} : (CurrentSince(q, s, ver, at))'
    BY <2>1, <2>2, PublishedSince
  <2>4. (CurrentSince(q, s, cached.ver, cached.at))'
    BY <1>1, <2>3 DEF CurrentSince
  <2> QED
    BY <1>1, <2>1, <2>4 DEF RowOK, Gone, NoRelease
<1>5. AnswerInv'
  <2> SUFFICES ASSUME NEW c \in Caller, call[c].stage = "sent" PROVE (AnswerOK(call[c]))'
    BY <1>1 DEF AnswerInv
  <2> DEFINE k == call[c]
             next == NextResource(k.due)
  <2>1. AnswerOK(k)
    BY DEF DataInv, AnswerInv
  <2>2. /\ k.repo \in Repo /\ next \in Resource /\ k.now \in Nat /\ k.now <= clock
        /\ k.answer.ver \in Nat
    <3>1. HoldsBudget(c) /\ next \in Resource
      BY SenderIs
    <3>2. k \in Call
      BY DEF BaseInv, TypeOK
    <3> QED
      BY <3>1, <3>2, HolderIs DEF Call, Answer
  <2>3. CurrentSince(k.repo, next, k.answer.ver, k.now)
    BY <2>1 DEF AnswerOK
  <2>4. \A q \in {k.repo}, s \in {next}, ver \in {k.answer.ver}, at \in {k.now} :
          (CurrentSince(q, s, ver, at))'
    <3> HIDE DEF k, next
    <3> QED
      BY <2>2, <2>3, PublishedSince
  <2>5. (CurrentSince(k.repo, next, k.answer.ver, k.now))'
    BY <1>1, <2>4 DEF CurrentSince, Version
  <2> QED
    BY <1>1, <2>1, <2>5 DEF AnswerOK, Gone, NoRelease
<1>6. ToastInv'
  BY <1>1 DEF DataInv, ToastInv, Tag
<1> QED
  BY <1>3, <1>4, <1>5, <1>6 DEF DataInv

\* A removed repo's row is empty, and nothing that was asked of it counts any more.
LEMMA RemoveData ==
  ASSUME MetadataAssumption, BaseInv, DataInv, NEW r \in Repo, Remove(r)
  PROVE  DataInv'
<1>1. /\ UNCHANGED <<published, clock, call, manual, toasted>>
      /\ tracked' = tracked \ {r} /\ meta' = [meta EXCEPT ![r] = NothingCached]
  BY DEF Remove, callers, history
<1>2. meta \in [Repo -> [Resource -> Cached]] /\ tracked \subseteq Repo
  BY DEF BaseInv, TypeOK
<1>3. \A q \in tracked' : q # r /\ meta'[q] = meta[q] /\ q \in tracked /\ q \in Repo
  BY <1>1, <1>2
<1>4. PublishedInv'
  BY <1>1 DEF DataInv, PublishedInv, Version
<1>5. MetaInv'
  <2> SUFFICES ASSUME NEW q \in Repo, NEW s \in Resource PROVE (RowOK(q, s, meta[q][s]))'
    BY DEF MetaInv
  <2>1. CASE q = r
    <3>1. meta'[q][s] = [shown |-> 0, etag |-> 0, at |-> 0, ver |-> 0]
      BY <1>1, <1>2, <2>1 DEF NothingCached
    <3>2. published'[q][s] = published[q][s] /\ Len(published[q][s]) >= 1
      BY <1>1 DEF DataInv, PublishedInv, Version
    <3>3. published[q][s][1] >= 0 /\ published[q][s] \in Seq(Time) /\ Len(published[q][s]) \in Nat
      <4>1. published[q][s] \in Seq(Time)
        BY DEF BaseInv, TypeOK
      <4>2. published[q][s][1] \in Time /\ Len(published[q][s]) \in Nat
        BY <3>2, <4>1
      <4> QED
        BY <4>1, <4>2 DEF Time
    <3>4. (CurrentSince(q, s, 0, 0))'
      BY <3>2, <3>3 DEF CurrentSince, Version
    <3>5. meta'[q][s] = NothingCached[s]
      BY <3>1 DEF NothingCached
    <3> QED
      BY <3>1, <3>4, <3>5 DEF RowOK
  <2>2. CASE q # r
    <3>1. meta'[q][s] = meta[q][s] /\ RowOK(q, s, meta[q][s])
      BY <1>1, <1>2, <2>2 DEF DataInv, MetaInv
    <3> QED
      BY <1>1, <3>1 DEF RowOK, CurrentSince, Version, Gone, NoRelease
  <2> QED
    BY <2>1, <2>2
<1>6. AnswerInv'
  <2> SUFFICES ASSUME NEW c \in Caller, call[c].stage = "sent" PROVE (AnswerOK(call[c]))'
    BY <1>1 DEF AnswerInv
  <2>1. AnswerOK(call[c])
    BY DEF DataInv, AnswerInv
  <2> QED
    BY <1>1, <1>3, <2>1 DEF AnswerOK, CurrentSince, Version, Gone, NoRelease
<1>7. ToastInv'
  BY <1>1, <1>3 DEF DataInv, ToastInv, Tag
<1> QED
  BY <1>4, <1>5, <1>6, <1>7 DEF DataInv

\* Time makes nothing that is marked older than it is.
LEMMA PassData ==
  ASSUME BaseInv, DataInv, Pass \/ UNCHANGED vars
  PROVE  DataInv'
<1>1. /\ UNCHANGED <<tracked, meta, published, call, manual, toasted>>
      /\ clock' = clock + 1 \/ clock' = clock
  BY DEF Pass, vars, callers, history
<1>2. clock \in Nat
  BY DEF BaseInv, TypeOK, Time
<1>3. MetaInv'
  <2> SUFFICES ASSUME NEW q \in Repo, NEW s \in Resource PROVE (RowOK(q, s, meta[q][s]))'
    BY DEF MetaInv
  <2>1. RowOK(q, s, meta[q][s]) /\ meta[q][s].at \in Nat
    BY CachedType DEF DataInv, MetaInv
  <2> QED
    BY <1>1, <1>2, <2>1 DEF RowOK, CurrentSince, Version, Gone, NoRelease
<1>4. AnswerInv'
  BY <1>1 DEF DataInv, AnswerInv, AnswerOK, CurrentSince, Version, Gone, NoRelease
<1>5. PublishedInv' /\ ToastInv'
  BY <1>1 DEF DataInv, PublishedInv, Version, ToastInv, Tag
<1> QED
  BY <1>3, <1>4, <1>5 DEF DataInv

\* After a restart the rows are as they were, and nobody waits for an answer.
LEMMA RestartData ==
  ASSUME MetadataAssumption, BaseInv, DataInv, Restart
  PROVE  DataInv'
<1>1. /\ UNCHANGED <<tracked, meta, published, clock, toasted>>
      /\ call' = [c \in Caller |-> NoCall]
  BY DEF Restart
<1>2. MetaInv' /\ PublishedInv'
  BY <1>1, SameRows DEF DataInv, PublishedInv, Version
<1>3. \A c \in Caller : call'[c].stage = "idle"
  BY <1>1 DEF NoCall
<1>4. AnswerInv'
  BY <1>3 DEF AnswerInv
<1>5. ToastInv'
  BY <1>1, <1>3 DEF DataInv, ToastInv, Caller
<1> QED
  BY <1>2, <1>4, <1>5 DEF DataInv

\* The start.
LEMMA InitData == MetadataAssumption /\ Init => DataInv
<1> SUFFICES ASSUME MetadataAssumption, Init PROVE DataInv
  OBVIOUS
<1>1. \A c \in Caller : call[c].stage = "idle"
  BY DEF Init, NoCall
<1>2. \A r \in Repo : \A res \in Resource :
        /\ published[r][res] = <<1>>
        /\ meta[r][res] = [shown |-> 0, etag |-> 0, at |-> 0, ver |-> 0]
        /\ meta[r][res] = NothingCached[res]
  BY DEF Init, NothingCached
<1>3. PublishedInv
  BY <1>2 DEF PublishedInv, Version
<1>4. MetaInv
  <2> SUFFICES ASSUME NEW r \in Repo, NEW res \in Resource PROVE RowOK(r, res, meta[r][res])
    BY DEF MetaInv
  <2>1. CurrentSince(r, res, 0, 0)
    BY <1>2 DEF CurrentSince, Version
  <2> QED
    BY <1>2, <2>1 DEF RowOK
<1>5. AnswerInv
  BY <1>1 DEF AnswerInv
<1>6. ToastInv
  BY <1>1 DEF Init, ToastInv, Caller
<1> QED
  BY <1>3, <1>4, <1>5, <1>6 DEF DataInv

\* Every step keeps the data.
LEMMA NextData ==
  ASSUME MetadataAssumption, BaseInv, BaseInv', DataInv, [Next]_vars
  PROVE  DataInv'
<1>1. CASE PassStart
  <2> DEFINE due == {r \in tracked : DueResources(r, clock) # {}}
             oldest == [r \in Repo |-> OldestCheck(r)]
             first == FirstOf(due, oldest)
  <2>1. /\ call["pass"].stage = "idle" /\ call' = [call EXCEPT !["pass"] = Queued(first, clock)]
        /\ queue' = Append(queue, "pass")
        /\ UNCHANGED <<tracked, meta, published, clock, events, manual, toasted>>
        /\ pass' = [todo |-> due, oldest |-> oldest]
    BY <1>1 DEF PassStart
  <2>2. first \in Repo
    <3>1. "pass" \in Caller /\ call \in [Caller -> Call]
      BY DEF BaseInv, TypeOK, Caller
    <3>2. Queued(first, clock).stage = "queued" /\ Queued(first, clock).repo = first
      BY DEF Queued, NoCall
    <3> HIDE DEF first
    <3>3. call'["pass"].stage # "idle" /\ call'["pass"].repo = first
      BY <2>1, <3>1, <3>2
    <3> QED
      BY <3>1, <3>3 DEF BaseInv, CallInv
  <2> HIDE DEF first
  <2> QED
    BY <2>1, <2>2, JoinData DEF Caller
<1>2. ASSUME NEW r \in Watched, ManualBegin(r) PROVE DataInv'
  <2>1. /\ call["manual"].stage = "idle" /\ call' = [call EXCEPT !["manual"] = Queued(r, clock)]
        /\ queue' = Append(queue, "manual") /\ manual' \in {Unread, Tag(r)}
        /\ UNCHANGED <<tracked, meta, published, clock, events, toasted>>
    BY <1>2 DEF ManualBegin, history
  <2> QED
    BY <2>1, JoinData DEF Caller, MetadataAssumption
<1>3. ASSUME NEW r \in Watched, Remove(r) PROVE DataInv'
  BY <1>3, RemoveData DEF MetadataAssumption
<1>4. ASSUME NEW r \in Watched, NEW res \in Resource, Publish(r, res) PROVE DataInv'
  BY <1>4, PublishData DEF MetadataAssumption
<1> QED
  BY <1>1, <1>2, <1>3, <1>4, ProgressData, ManualReportData, PassData, RestartData DEF Next

\* The data invariant holds on top of the types and the queue.
THEOREM Data == Spec => []DataInv
<1>1. Init => DataInv
  BY InitData, MetadataAssumption
<1>2. BaseInv /\ BaseInv' /\ DataInv /\ [Next]_vars => DataInv'
  BY NextData, MetadataAssumption
<1> QED
  BY <1>1, <1>2, Base, PTL DEF Spec

\* A stored ETag belongs to the stored data, whatever was answered, removed or restarted
\* in between (refresh_one writes the columns and their ETag in one statement).
THEOREM EtagsMatch == Spec => []EtagMatchesData
<1>1. BaseInv /\ DataInv => EtagMatchesData
  BY DEF BaseInv, TypeOK, DataInv, MetaInv, RowOK, EtagMatchesData
<1> QED
  BY <1>1, Base, Data, PTL

\* What is shown was GitHub's at or after the time it is marked with, for any number of
\* publications, restarts and overlapping refreshes (BL-NI-15a/b).
THEOREM AsOfIsHonest == Spec => []AsOfHonest
<1>1. BaseInv /\ DataInv => AsOfHonest
  BY DEF BaseInv, TypeOK, DataInv, MetaInv, RowOK, CurrentSince, Gone, AsOfHonest
<1> QED
  BY <1>1, Base, Data, PTL

\* No stored version is ever replaced by an earlier one: the budget's mutex keeps a pass
\* and a command from fetching one repo at once.
THEOREM NoRegress == Spec => NeverRegress
<1>1. BaseInv /\ DataInv /\ [Next]_vars
        => [\A r \in tracked \cap tracked' : \A res \in Resource :
              meta'[r][res].ver >= meta[r][res].ver]_vars
  <2> SUFFICES ASSUME BaseInv, DataInv, Next, NEW r \in tracked \cap tracked', NEW res \in Resource
               PROVE  meta'[r][res].ver >= meta[r][res].ver
    OBVIOUS
  <2>1. r \in Repo /\ meta \in [Repo -> [Resource -> Cached]] /\ meta[r][res].ver \in Nat
    BY CachedType DEF BaseInv, TypeOK
  <2>2. ASSUME NEW c \in Caller, Store(c) PROVE meta'[r][res].ver >= meta[r][res].ver
    <3>1. meta[r][res].ver <= meta'[r][res].ver
      BY <2>1, <2>2, StoredMeta
    <3> QED
      BY <3>1
  <2>3. ASSUME NEW q \in Watched, Remove(q) PROVE meta'[r][res].ver >= meta[r][res].ver
    <3>1. r # q /\ meta' = [meta EXCEPT ![q] = NothingCached]
      BY <2>3 DEF Remove
    <3> QED
      BY <2>1, <3>1
  <2>4. CASE meta' = meta
    BY <2>1, <2>4
  <2>5. \/ meta' = meta
        \/ \E c \in Caller : Store(c)
        \/ \E q \in Watched : Remove(q)
    BY DEF Next, Progress, Refuse, Start, NotFound, StoreFailure, Breaks, PassStart, ManualReport,
           Pass, Restart, ManualBegin, Publish
  <2> QED
    BY <2>2, <2>3, <2>4, <2>5
<1> QED
  BY <1>1, Base, Data, PTL DEF Spec, NeverRegress

\* One toast per release: a command that could read what was cached announces no release
\* that it announced before (repo_refresh_metadata and release_change).
THEOREM ToastsOnce == Spec => ToastOnce
<1>1. BaseInv /\ DataInv /\ [Next]_vars
        => [call["manual"].stage = "report" /\ call'["manual"].stage = "idle" /\ manual # Unread
            /\ call["manual"].repo \in tracked /\ ReleaseChange(manual, Tag(call["manual"].repo))
              => Tag(call["manual"].repo) \notin toasted[call["manual"].repo]]_vars
  BY DEF DataInv, ToastInv, ReleaseChange
<1> QED
  BY <1>1, Base, Data, PTL DEF Spec, ToastOnce

-----------------------------------------------------------------------------
(* Counting times *)

\* Later times are fewer.
LEMMA AfterType ==
  ASSUME NEW times \in Seq(Int), NEW t \in Int
  PROVE  /\ After(times, t) \in Nat /\ After(times, t) <= Len(times)
         /\ IsFiniteSet({i \in DOMAIN times : times[i] > t})
         /\ \A u \in Int : t <= u => After(times, u) <= After(times, t)
<1> DEFINE S(u) == {i \in DOMAIN times : times[i] > u}
<1>1. IsFiniteSet(1..Len(times)) /\ Cardinality(1..Len(times)) = Len(times)
  <2> DEFINE n == Len(times)
  <2>1. n \in Nat
    OBVIOUS
  <2> HIDE DEF n
  <2>2. IsFiniteSet(1..n) /\ Cardinality(1..n) = IF 1 > n THEN 0 ELSE n - 1 + 1
    BY <2>1, FS_Interval
  <2>3. Cardinality(1..n) = n
    BY <2>1, <2>2
  <2> QED
    BY <2>2, <2>3 DEF n
<1>2. \A u \in Int : S(u) \in SUBSET (1..Len(times))
  OBVIOUS
<1>3. \A u \in Int : IsFiniteSet(S(u)) /\ Cardinality(S(u)) \in Nat /\ Cardinality(S(u)) <= Len(times)
  BY <1>1, <1>2, FS_Subset, FS_CardinalityType
<1>4. ASSUME NEW u \in Int, t <= u PROVE Cardinality(S(u)) <= Cardinality(S(t))
  <2>1. S(u) \in SUBSET S(t)
    BY <1>4
  <2> HIDE DEF S
  <2> QED
    BY <1>3, <2>1, FS_Subset
<1> QED
  BY <1>3, <1>4 DEF After

\* One more time counts if it is late enough.
LEMMA AfterAppend ==
  ASSUME NEW times \in Seq(Int), NEW v \in Int, NEW t \in Int
  PROVE  After(Append(times, v), t) = After(times, t) + (IF v > t THEN 1 ELSE 0)
<1> DEFINE n == Len(times) + 1
           S == {i \in DOMAIN times : times[i] > t}
           T == {i \in DOMAIN Append(times, v) : Append(times, v)[i] > t}
<1>1. /\ DOMAIN Append(times, v) = 1..n /\ DOMAIN times = 1..Len(times) /\ n \in Nat
      /\ Append(times, v)[n] = v
      /\ \A i \in 1..Len(times) : Append(times, v)[i] = times[i]
  OBVIOUS
<1>2. IsFiniteSet(S) /\ Cardinality(S) \in Nat
  BY AfterType, FS_CardinalityType
<1>3. n \notin S
  BY <1>1
<1>4. v > t => Cardinality(T) = Cardinality(S) + 1
  <2> SUFFICES ASSUME v > t PROVE Cardinality(T) = Cardinality(S) + 1
    OBVIOUS
  <2>1. T = S \cup {n}
    BY <1>1
  <2> HIDE DEF S, T, n
  <2> QED
    BY <1>2, <1>3, <2>1, FS_AddElement
<1>5. ~(v > t) => T = S
  BY <1>1
<1> HIDE DEF S, T
<1>6. Cardinality(T) = Cardinality(S) + (IF v > t THEN 1 ELSE 0)
  BY <1>2, <1>4, <1>5
<1> QED
  BY <1>6 DEF After, S, T

\* So do as many as are recorded.
LEMMA AfterRecord ==
  ASSUME NEW times \in Seq(Int), NEW v \in Int, NEW t \in Int, NEW n \in 0..3
  PROVE  After(Record(times, v, n), t) = After(times, t) + (IF v > t THEN n ELSE 0)
<1>1. Record(times, v, 0) = times
  <2>1. Len(Record(times, v, 0)) = Len(times) /\ Record(times, v, 0) \in Seq(Int)
        /\ \A i \in 1..Len(times) : Record(times, v, 0)[i] = times[i]
    BY RecordAt
  <2> QED
    BY <2>1, SeqEqual
<1>2. ASSUME NEW m \in 0..2 PROVE Record(times, v, m + 1) = Append(Record(times, v, m), v)
  <2> DEFINE q == Record(times, v, m + 1)
             r == Record(times, v, m)
             p == Append(r, v)
  <2>1. m \in Nat /\ m + 1 \in Nat /\ Len(times) \in Nat
    OBVIOUS
  <2>2. /\ q \in Seq(Int) /\ Len(q) = Len(times) + (m + 1)
        /\ \A i \in 1..Len(times) : q[i] = times[i]
        /\ \A i \in Len(times) + 1..Len(times) + (m + 1) : q[i] = v
    BY <2>1, RecordAt
  <2>3. /\ r \in Seq(Int) /\ Len(r) = Len(times) + m
        /\ \A i \in 1..Len(times) : r[i] = times[i]
        /\ \A i \in Len(times) + 1..Len(times) + m : r[i] = v
    BY <2>1, RecordAt
  <2> HIDE DEF q, r
  <2>4. /\ p \in Seq(Int) /\ Len(p) = Len(times) + (m + 1)
        /\ \A i \in 1..Len(times) : p[i] = times[i]
        /\ \A i \in Len(times) + 1..Len(times) + (m + 1) : p[i] = v
    BY <2>1, <2>3
  <2> HIDE DEF p
  <2>5. ASSUME NEW i \in 1..Len(q) PROVE q[i] = p[i]
    <3>1. i \in 1..Len(times) \/ i \in Len(times) + 1..Len(times) + (m + 1)
      BY <2>1, <2>2
    <3> QED
      BY <2>2, <2>4, <3>1
  <2>6. q = p
    BY <2>2, <2>4, <2>5, SeqEqual
  <2> QED
    BY <2>6 DEF p, q, r
<1>3. ASSUME NEW m \in 0..2,
             After(Record(times, v, m), t) = After(times, t) + (IF v > t THEN m ELSE 0)
      PROVE  After(Record(times, v, m + 1), t) = After(times, t) + (IF v > t THEN m + 1 ELSE 0)
  <2>1. Record(times, v, m) \in Seq(Int)
    BY RecordAt
  <2>2. After(Record(times, v, m + 1), t) = After(Record(times, v, m), t) + (IF v > t THEN 1 ELSE 0)
    <3>1. \A p \in Seq(Int) : After(Append(p, v), t) = After(p, t) + (IF v > t THEN 1 ELSE 0)
      BY AfterAppend
    <3> QED
      BY <1>2, <2>1, <3>1, Zenon
  <2>3. After(times, t) \in Nat
    BY AfterType
  <2> QED
    BY <1>3, <2>2, <2>3
<1>4. After(Record(times, v, 0), t) = After(times, t) + (IF v > t THEN 0 ELSE 0)
  <2>1. After(times, t) \in Nat /\ After(Record(times, v, 0), t) = After(times, t)
    BY <1>1, AfterType
  <2> QED
    BY <2>1
<1>5. After(Record(times, v, 1), t) = After(times, t) + (IF v > t THEN 1 ELSE 0)
  BY <1>3, <1>4
<1>6. After(Record(times, v, 2), t) = After(times, t) + (IF v > t THEN 2 ELSE 0)
  BY <1>3, <1>5
<1>7. After(Record(times, v, 3), t) = After(times, t) + (IF v > t THEN 3 ELSE 0)
  BY <1>3, <1>6
<1> QED
  BY <1>4, <1>5, <1>6, <1>7

\* Pruning drops no live stamp.
LEMMA AfterPrune ==
  ASSUME RateBudgetAssumption, NEW stamps \in Seq(Int), NEW now \in Int, NEW t \in Int,
         now - RateWindow <= t
  PROVE  After(stamps, t) <= After(Prune(stamps, now), t)
<1> DEFINE S == {i \in DOMAIN stamps : stamps[i] > t}
           kept == Prune(stamps, now)
           T == {i \in DOMAIN kept : kept[i] > t}
<1>1. S \subseteq Live(stamps, now) /\ IsFiniteSet(S)
  <2>1. IsFiniteSet(S)
    BY AfterType
  <2>2. now - RateWindow \in Int /\ \A i \in DOMAIN stamps : stamps[i] \in Int
    BY DEF RateBudgetAssumption
  <2>3. \A v, u \in Int : u <= t /\ v > t => v > u
    OBVIOUS
  <2>4. S \subseteq Live(stamps, now)
    BY <2>2, <2>3 DEF Live
  <2> QED
    BY <2>1, <2>4
<1>2. kept \in Seq(Int)
  BY PruneType
<1>3. IsFiniteSet(T) /\ Cardinality(T) \in Nat
  BY <1>2, AfterType, FS_CardinalityType
<1>4. CASE Live(stamps, now) = {}
  <2>1. S = {}
    BY <1>1, <1>4
  <2>2. Cardinality(S) = 0
    BY <2>1, FS_EmptySet
  <2> QED
    BY <1>3, <2>2 DEF After
<1>5. ASSUME NEW first \in Live(stamps, now), \A j \in Live(stamps, now) : first <= j,
             kept = SubSeq(stamps, first, Len(stamps))
      PROVE  Cardinality(S) <= Cardinality(T)
  <2>1. first \in 1..Len(stamps) /\ Len(stamps) \in Nat
    BY DEF Live
  <2>2. /\ DOMAIN kept = 1..Len(stamps) - first + 1
        /\ \A i \in 1..Len(stamps) - first + 1 : kept[i] = stamps[first + i - 1]
    <3>1. kept = SubSeq(stamps, first, Len(stamps))
      BY <1>5
    <3> HIDE DEF kept
    <3>2. DOMAIN kept = 1..Len(stamps) - first + 1
      BY <2>1, <3>1
    <3>3. \A i \in 1..Len(stamps) - first + 1 : kept[i] = stamps[first + i - 1]
      BY <2>1, <3>1
    <3> QED
      BY <3>2, <3>3, Zenon
  <2> DEFINE shift == [i \in S |-> i - first + 1]
  <2>3. ASSUME NEW i \in S PROVE shift[i] \in T
    <3>1. i \in first..Len(stamps) /\ i \in Int
      BY <1>1, <1>5, <2>1
    <3>2. i - first + 1 \in 1..Len(stamps) - first + 1 /\ first + (i - first + 1) - 1 = i
      BY <2>1, <3>1
    <3>3. kept[i - first + 1] = stamps[i]
      BY <2>2, <3>2
    <3> QED
      BY <2>2, <3>2, <3>3
  <2>4. \A i, j \in S : shift[i] = shift[j] => i = j
    BY <2>1
  <2>5. shift \in Injection(S, T)
    <3>1. shift \in [S -> T]
      BY <2>3
    <3> HIDE DEF shift, S, T
    <3> QED
      BY <2>4, <3>1 DEF Injection, IsInjective
  <2> HIDE DEF shift, S, T
  <2> QED
    BY <1>3, <2>5, FS_Injection
<1> QED
  BY <1>4, <1>5, PruneIs DEF After

-----------------------------------------------------------------------------
(* Stamps and the requests behind them *)

\* Every stamp that is kept has the request it had.
LEMMA BackedPrune ==
  ASSUME NEW stamps \in Seq(Int), NEW times \in Seq(Int), NEW n \in Nat, NEW now \in Int,
         Backed(stamps, times, n)
  PROVE  Backed(Prune(stamps, now), times, n)
<1> DEFINE kept == Prune(stamps, now)
<1>1. CASE kept = <<>>
  BY <1>1 DEF Backed
<1>2. ASSUME NEW first \in Live(stamps, now), kept = SubSeq(stamps, first, Len(stamps))
      PROVE  Backed(kept, times, n)
  <2>1. first \in 1..Len(stamps) /\ Len(stamps) \in Nat
    BY DEF Live
  <2>2. /\ Len(kept) = Len(stamps) - first + 1 /\ DOMAIN kept = 1..Len(stamps) - first + 1
        /\ \A i \in 1..Len(stamps) - first + 1 : kept[i] = stamps[first + i - 1]
    <3>1. kept = SubSeq(stamps, first, Len(stamps))
      BY <1>2
    <3> HIDE DEF kept
    <3>2. Len(kept) = Len(stamps) - first + 1 /\ DOMAIN kept = 1..Len(stamps) - first + 1
      BY <2>1, <3>1
    <3>3. \A i \in 1..Len(stamps) - first + 1 : kept[i] = stamps[first + i - 1]
      BY <2>1, <3>1
    <3> QED
      BY <3>2, <3>3, Zenon
  <2>3. ASSUME NEW i \in DOMAIN kept
        PROVE  LET back == Len(times) - n - (Len(kept) - i)
               IN back >= 1 /\ times[back] >= kept[i]
    <3>1. first + i - 1 \in DOMAIN stamps /\ kept[i] = stamps[first + i - 1] /\ i \in Int
      <4>1. i \in 1..Len(stamps) - first + 1
        BY <2>2
      <4>2. i \in Int /\ first + i - 1 \in 1..Len(stamps)
        BY <2>1, <4>1
      <4> QED
        BY <2>2, <4>1, <4>2
    <3>2. Len(times) - n - (Len(stamps) - (first + i - 1)) = Len(times) - n - (Len(kept) - i)
      BY <2>1, <2>2, <3>1
    <3> QED
      BY <3>1, <3>2 DEF Backed
  <2> HIDE DEF kept
  <2> QED
    BY <2>3 DEF Backed
<1> QED
  BY <1>1, <1>2, PruneIs

\* One more request, which is pending.
LEMMA BackedAppend ==
  ASSUME NEW stamps \in Seq(Int), NEW times \in Seq(Int), NEW n \in Nat, NEW v \in Int,
         Backed(stamps, times, n)
  PROVE  Backed(stamps, Append(times, v), n + 1)
<1> DEFINE more == Append(times, v)
<1>1. /\ Len(more) = Len(times) + 1 /\ Len(times) \in Nat
      /\ \A i \in 1..Len(times) : more[i] = times[i]
  OBVIOUS
<1> HIDE DEF more
<1>2. ASSUME NEW i \in DOMAIN stamps
      PROVE  LET back == Len(more) - (n + 1) - (Len(stamps) - i)
             IN back >= 1 /\ more[back] >= stamps[i]
  <2> DEFINE back == Len(times) - n - (Len(stamps) - i)
  <2>1. i \in 1..Len(stamps) /\ Len(stamps) \in Nat
    OBVIOUS
  <2>2. back >= 1 /\ times[back] >= stamps[i]
    BY DEF Backed
  <2>3. back \in 1..Len(times) /\ Len(more) - (n + 1) - (Len(stamps) - i) = back
    <3> DEFINE l == Len(stamps)
               m == Len(times)
    <3>1. l \in Nat /\ m \in Nat /\ i \in Int /\ i <= l /\ Len(more) = m + 1
      BY <1>1, <2>1
    <3>2. m - n - (l - i) >= 1
      BY <2>2
    <3> HIDE DEF l, m
    <3>3. m - n - (l - i) \in 1..m
      BY <3>1, <3>2
    <3>4. m + 1 - (n + 1) - (l - i) = m - n - (l - i)
      BY <3>1
    <3> QED
      BY <3>1, <3>3, <3>4 DEF l, m
  <2> HIDE DEF back
  <2>4. more[back] = times[back]
    BY <1>1, <2>3
  <2> QED
    BY <2>2, <2>3, <2>4
<1> QED
  BY <1>2 DEF Backed, more

\* The pending requests are stamped: each went out at the stamp or later.
LEMMA BackedRecord ==
  ASSUME NEW stamps \in Seq(Int), NEW times \in Seq(Int), NEW n \in Nat \ {0}, NEW now \in Int,
         Backed(stamps, times, n), InOrder(times),
         Len(times) >= n, times[Len(times) - n + 1] >= now
  PROVE  Backed(Record(stamps, now, n), times, 0)
<1> DEFINE charged == Record(stamps, now, n)
<1>1. /\ charged \in Seq(Int) /\ Len(charged) = Len(stamps) + n
      /\ \A i \in 1..Len(stamps) : charged[i] = stamps[i]
      /\ \A i \in Len(stamps) + 1..Len(stamps) + n : charged[i] = now
  BY RecordAt
<1>2. Len(stamps) \in Nat /\ Len(times) \in Nat /\ \A i \in 1..Len(times) : times[i] \in Int
  OBVIOUS
<1> HIDE DEF charged
<1>3. ASSUME NEW i \in DOMAIN charged
      PROVE  LET back == Len(times) - 0 - (Len(charged) - i)
             IN back >= 1 /\ times[back] >= charged[i]
  <2> DEFINE back == Len(times) - 0 - (Len(charged) - i)
  <2>1. i \in 1..Len(stamps) + n /\ i \in Int
    BY <1>1
  <2>2. CASE i \in 1..Len(stamps)
    <3>1. back = Len(times) - n - (Len(stamps) - i)
      BY <1>1, <1>2, <2>1
    <3> HIDE DEF back
    <3>2. charged[i] = stamps[i] /\ i \in DOMAIN stamps
      <4>1. DOMAIN stamps = 1..Len(stamps)
        OBVIOUS
      <4>2. charged[i] = stamps[i]
        BY <1>1, <2>2
      <4> QED
        BY <2>2, <4>1, <4>2
    <3>3. back >= 1 /\ times[back] >= charged[i]
      BY <3>1, <3>2 DEF Backed
    <3> QED
      BY <3>3 DEF back
  <2>3. CASE i \in Len(stamps) + 1..Len(stamps) + n
    <3>1. back \in 1..Len(times) /\ Len(times) - n + 1 \in 1..Len(times) /\ Len(times) - n + 1 <= back
      <4> DEFINE l == Len(stamps)
                 m == Len(times)
      <4>1. l \in Nat /\ m \in Nat /\ l + 1 <= i /\ i <= l + n /\ i \in Int /\ m >= n
        BY <1>2, <2>1, <2>3
      <4>2. back = m - (l + n - i)
        BY <1>1, <1>2, <2>1
      <4> HIDE DEF l, m, back
      <4>3. back \in Int /\ m - n + 1 \in 1..m
        BY <4>1, <4>2
      <4>4. back <= m /\ m - n + 1 <= back
        <5>1. \A a, b, c, j \in Int : a + 1 <= j /\ j <= a + c
                => b - (a + c - j) <= b /\ b - c + 1 <= b - (a + c - j)
          OBVIOUS
        <5>2. l \in Int /\ m \in Int /\ n \in Int
          BY <4>1
        <5> QED
          BY <4>1, <4>2, <5>1, <5>2, Zenon
      <4>5. back \in 1..m /\ m - n + 1 \in 1..m /\ m - n + 1 <= back
        BY <4>1, <4>3, <4>4
      <4> QED
        BY <4>5 DEF m
    <3> HIDE DEF back
    <3>2. times[Len(times) - n + 1] <= times[back]
      <4>1. \A k, j \in 1..Len(times) : k <= j => times[k] <= times[j]
        BY DEF InOrder
      <4> QED
        BY <3>1, <4>1, Zenon
    <3>3. charged[i] = now
      BY <1>1, <2>3
    <3>4. times[back] >= charged[i] /\ back >= 1
      <4>1. times[back] \in Int /\ times[Len(times) - n + 1] \in Int /\ back >= 1
        BY <1>2, <3>1
      <4> QED
        BY <3>2, <3>3, <4>1
    <3> QED
      BY <3>4 DEF back
  <2>4. i \in 1..Len(stamps) \/ i \in Len(stamps) + 1..Len(stamps) + n
    BY <1>2, <2>1
  <2> QED
    BY <2>2, <2>3, <2>4
<1> QED
  BY <1>3 DEF Backed, charged

\* The pending requests are forgotten: a stamp is backed by the later ones as well.
LEMMA BackedForget ==
  ASSUME NEW stamps \in Seq(Int), NEW times \in Seq(Int), NEW n \in Nat,
         Backed(stamps, times, n), InOrder(times)
  PROVE  Backed(stamps, times, 0)
<1>1. Len(stamps) \in Nat /\ Len(times) \in Nat /\ \A i \in 1..Len(times) : times[i] \in Int
  OBVIOUS
<1>2. ASSUME NEW i \in DOMAIN stamps
      PROVE  LET back == Len(times) - 0 - (Len(stamps) - i)
             IN back >= 1 /\ times[back] >= stamps[i]
  <2> DEFINE back == Len(times) - 0 - (Len(stamps) - i)
             before == Len(times) - n - (Len(stamps) - i)
  <2>1. before >= 1 /\ times[before] >= stamps[i]
    BY DEF Backed
  <2>2. i \in Int /\ 1 <= i /\ i <= Len(stamps) /\ stamps[i] \in Int
    OBVIOUS
  <2>3. before \in 1..Len(times) /\ back \in 1..Len(times) /\ before <= back
    <3> DEFINE l == Len(stamps)
               m == Len(times)
    <3>1. l \in Nat /\ m \in Nat /\ i <= l /\ m - n - (l - i) >= 1
      BY <1>1, <2>1, <2>2
    <3> HIDE DEF l, m
    <3>2. m - n - (l - i) \in 1..m
      BY <2>2, <3>1
    <3> DEFINE b == l - i
    <3>5. b \in Int /\ b >= 0 /\ m - n - b >= 1
      BY <2>2, <3>1
    <3> HIDE DEF b
    <3>6. m - n - b <= m - 0 - b /\ m - 0 - b \in 1..m
      BY <3>1, <3>5
    <3>3. m - n - (l - i) <= m - 0 - (l - i)
      BY <3>6 DEF b
    <3>4. m - 0 - (l - i) \in 1..m
      BY <3>6 DEF b
    <3> QED
      BY <3>2, <3>3, <3>4 DEF l, m
  <2> HIDE DEF before, back
  <2>4. times[before] <= times[back]
    <3>1. \A k, j \in 1..Len(times) : k <= j => times[k] <= times[j]
      BY DEF InOrder
    <3> QED
      BY <2>3, <3>1, Zenon
  <2>5. times[back] >= stamps[i] /\ back >= 1
    <3>1. times[back] \in Int /\ times[before] \in Int /\ back >= 1
      BY <1>1, <2>3
    <3> QED
      BY <2>1, <2>2, <2>4, <3>1
  <2> QED
    BY <2>5 DEF back
<1> QED
  BY <1>2 DEF Backed

-----------------------------------------------------------------------------
(* What is pending *)

\* Only the holder has requests pending.
LEMMA PendingIs ==
  ASSUME BaseInv, NEW c \in Caller, HoldsBudget(c)
  PROVE  /\ call[c].made \in 0..3 /\ call[Other(c)].made = 0
         /\ Pending = call[c].made
         /\ \A t \in Int : PendingAfter(t) = IF call[c].now > t THEN call[c].made ELSE 0
<1>1. call[c].made \in 0..3
  BY HolderIs DEF Call, MAX_REQUESTS_PER_REPO
<1>2. call[Other(c)].made = 0
  BY OtherWaits DEF BaseInv, CallInv
<1>3. (c = "pass" /\ Other(c) = "manual") \/ (c = "manual" /\ Other(c) = "pass")
  BY DEF Caller, Other
<1> QED
  BY <1>1, <1>2, <1>3 DEF Pending, PendingAfter

\* How much may be pending.
LEMMA PendingMost ==
  ASSUME BaseInv, NEW t \in Int
  PROVE  /\ Pending \in Nat /\ PendingAfter(t) \in Nat /\ PendingAfter(t) <= Pending
<1>1. call["pass"].made \in Nat /\ call["manual"].made \in Nat
  BY DEF BaseInv, TypeOK, Caller, Call
<1> QED
  BY <1>1 DEF Pending, PendingAfter

\* The sequences of times.
LEMMA TimesType ==
  ASSUME BaseInv
  PROVE  /\ events \in Seq(Int) /\ issued \in Seq(Int) /\ Len(events) <= MaxPerWindow
         /\ clock \in Int /\ 1 <= clock /\ clock <= MaxTime /\ MaxTime \in Nat
         /\ lag \in Nat /\ uncharged \in Nat
<1>1. events \in Seq(Time) /\ issued \in Seq(Time) /\ Time \subseteq Int
  BY DEF BaseInv, TypeOK, Time
<1>2. events \in Seq(Int) /\ issued \in Seq(Int)
  BY <1>1, SeqMonotonic
<1> QED
  BY <1>2, MetadataAssumption DEF BaseInv, TypeOK, Time, MetadataAssumption

\* A stamp of the past that is live at the end of the range was live all along.
LEMMA RangeIs ==
  ASSUME BaseInv, NEW now \in Int, now <= clock, NEW t \in (clock - RateWindow)..MaxTime
  PROVE  t \in Int /\ now - RateWindow <= t
<1>1. clock \in Int /\ RateWindow \in Int /\ MaxTime \in Int
  BY TimesType, RateBudgetAssumption DEF RateBudgetAssumption
<1>2. t \in Int /\ clock - RateWindow <= t
  BY <1>1
<1> QED
  BY <1>1, <1>2

-----------------------------------------------------------------------------
(* The requests stay accounted for *)

\* A call that is over: what it sent is charged, or else not held against us.
LEMMA EndBudget ==
  ASSUME MetadataAssumption, BaseInv, BudgetInv, NEW c \in Caller, HoldsBudget(c),
         NEW outcome, Leave(c, outcome), UNCHANGED <<clock, issued, lag>>,
         events' \in Seq(Int), Backed(events', issued, 0), uncharged' \in Nat,
         \A t \in (clock - RateWindow)..MaxTime :
            After(events, t) + (IF call[c].now > t THEN call[c].made ELSE 0) + uncharged
              <= After(events', t) + uncharged'
  PROVE  BudgetInv'
<1>1. /\ call' \in [Caller -> Call] /\ CallInv' /\ \A d \in Caller : call'[d].stage # "sent"
  BY LeaveBase
<1>2. call'["pass"].made = 0 /\ call'["manual"].made = 0
  BY <1>1 DEF CallInv, Caller
<1>3. Pending' = 0 /\ \A t \in Int : (PendingAfter(t))' = 0
  BY <1>2 DEF Pending, PendingAfter
<1>4. IssuedInv'
  BY DEF BudgetInv, IssuedInv, InOrder
<1>5. BackedInv'
  BY <1>1, <1>3 DEF BackedInv, Backed
<1>6. ChargedInv'
  <2> SUFFICES ASSUME NEW t \in (clock - RateWindow)..MaxTime
               PROVE  After(issued, t + lag) <= After(events', t) + (PendingAfter(t))' + uncharged'
    BY DEF ChargedInv, After
  <2>1. t \in Int /\ t + lag \in Int
    BY TimesType, RateBudgetAssumption DEF RateBudgetAssumption
  <2>2. After(issued, t + lag) <= After(events, t) + PendingAfter(t) + uncharged
    BY DEF BudgetInv, ChargedInv
  <2>3. PendingAfter(t) = IF call[c].now > t THEN call[c].made ELSE 0
    BY <2>1, PendingIs
  <2>4. (PendingAfter(t))' = 0
    BY <1>3, <2>1
  <2>5. After(events, t) + PendingAfter(t) + uncharged <= After(events', t) + uncharged'
    BY <2>3
  <2>6. After(issued, t + lag) \in Nat /\ After(events, t) \in Nat /\ After(events', t) \in Nat
        /\ PendingAfter(t) \in Nat /\ uncharged \in Nat /\ uncharged' \in Nat
    BY <2>1, AfterType, TimesType, PendingMost
  <2> QED
    BY <2>2, <2>4, <2>5, <2>6
<1> QED
  BY <1>4, <1>5, <1>6 DEF BudgetInv

\* A call that is over before it sent anything.
LEMMA EndUnsentBudget ==
  ASSUME MetadataAssumption, BaseInv, BudgetInv, NEW c \in Caller, HoldsBudget(c),
         call[c].stage = "queued", NEW outcome, Leave(c, outcome),
         UNCHANGED <<clock, issued, lag, uncharged>>, events' = Prune(events, call[c].now)
  PROVE  BudgetInv'
<1>1. call[c].made = 0 /\ call[c].now \in Int /\ call[c].now <= clock
  BY HolderIs DEF BaseInv, CallInv
<1>2. events' \in Seq(Int)
  BY <1>1, TimesType, PruneType
<1>3. Backed(events', issued, 0)
  <2>1. Backed(events, issued, 0)
    BY <1>1, PendingIs DEF BudgetInv, BackedInv
  <2> QED
    BY <1>1, <2>1, TimesType, BackedPrune
<1>4. ASSUME NEW t \in (clock - RateWindow)..MaxTime
      PROVE  After(events, t) + (IF call[c].now > t THEN call[c].made ELSE 0) + uncharged
               <= After(events', t) + uncharged'
  <2>1. t \in Int /\ call[c].now - RateWindow <= t
    BY <1>1, RangeIs
  <2>2. After(events, t) <= After(events', t)
    BY <1>1, <2>1, TimesType, RateBudgetAssumption, AfterPrune
  <2>3. After(events, t) \in Nat /\ After(events', t) \in Nat /\ uncharged \in Nat
    BY <1>2, <2>1, AfterType, TimesType
  <2> QED
    BY <1>1, <2>2, <2>3
<1>5. uncharged' \in Nat
  BY TimesType
<1> QED
  BY <1>2, <1>3, <1>4, <1>5, EndBudget

\* A call that is over and charges what it sent.
LEMMA EndChargedBudget ==
  ASSUME MetadataAssumption, BaseInv, BudgetInv, NEW c \in Caller, call[c].stage = "sent",
         NEW outcome, Leave(c, outcome),
         UNCHANGED <<clock, issued, lag, uncharged>>, Charge(c)
  PROVE  BudgetInv'
<1> DEFINE n == call[c].made
           now == call[c].now
<1>1. HoldsBudget(c) /\ n \in 1..3 /\ now \in Int
  BY SenderIs, HolderIs
<1>2. events' = Record(events, now, n)
  BY DEF Charge
<1>3. Backed(events, issued, n) /\ InOrder(issued) /\ Len(issued) >= n /\ issued[Len(issued) - n + 1] >= now
  BY <1>1, PendingIs DEF BudgetInv, BackedInv, IssuedInv
<1>4. \A t \in Int : After(events', t) = After(events, t) + (IF now > t THEN n ELSE 0)
  <2> HIDE DEF n, now
  <2>1. n \in 0..3 /\ events \in Seq(Int)
    BY <1>1, TimesType
  <2>2. \A t \in Int : After(Record(events, now, n), t) = After(events, t) + (IF now > t THEN n ELSE 0)
    BY <1>1, <2>1, AfterRecord
  <2> QED
    BY <1>2, <2>2
<1>5. events' \in Seq(Int) /\ Backed(events', issued, 0)
  <2> HIDE DEF n, now
  <2>1. n \in Nat \ {0} /\ n \in Nat
    BY <1>1
  <2>2. Record(events, now, n) \in Seq(Int)
    BY <1>1, <2>1, TimesType, RecordAt
  <2>3. Backed(Record(events, now, n), issued, 0)
    BY <1>1, <1>3, <2>1, TimesType, BackedRecord
  <2> QED
    BY <1>2, <2>2, <2>3
<1>6. ASSUME NEW t \in (clock - RateWindow)..MaxTime
      PROVE  After(events, t) + (IF now > t THEN n ELSE 0) + uncharged <= After(events', t) + uncharged'
  <2> HIDE DEF n, now
  <2>1. t \in Int
    BY TimesType, RangeIs
  <2>2. After(events, t) \in Nat /\ uncharged \in Nat /\ n \in 1..3
    BY <1>1, <2>1, AfterType, TimesType
  <2> QED
    BY <1>4, <2>1, <2>2
<1>7. uncharged' \in Nat
  BY TimesType
<1> QED
  BY <1>1, <1>5, <1>6, <1>7, EndBudget

\* A call that breaks off: what it sent is forgotten.
LEMMA EndForgottenBudget ==
  ASSUME MetadataAssumption, BaseInv, BudgetInv, NEW c \in Caller, call[c].stage = "sent",
         NEW outcome, Leave(c, outcome),
         UNCHANGED <<clock, issued, lag, events>>, uncharged' = uncharged + call[c].made
  PROVE  BudgetInv'
<1>1. HoldsBudget(c) /\ call[c].made \in 1..3 /\ call[c].now \in Int
  BY SenderIs, HolderIs
<1>2. Backed(events, issued, call[c].made) /\ InOrder(issued)
  BY <1>1, PendingIs DEF BudgetInv, BackedInv, IssuedInv
<1>3. events' \in Seq(Int) /\ uncharged' \in Nat
  <2>1. events \in Seq(Int) /\ uncharged \in Nat
    BY TimesType
  <2>2. events' \in Seq(Int)
    BY <2>1
  <2>3. uncharged' \in Nat
    BY <1>1, <2>1
  <2> QED
    BY <2>2, <2>3
<1>4. Backed(events', issued, 0)
  <2>1. issued \in Seq(Int) /\ events \in Seq(Int) /\ call[c].made \in Nat
    <3>1. issued \in Seq(Int) /\ events \in Seq(Int)
      BY TimesType
    <3> QED
      BY <1>1, <3>1
  <2>2. Backed(events, issued, 0)
    BY <1>2, <2>1, BackedForget
  <2> QED
    BY <2>2
<1>5. ASSUME NEW t \in (clock - RateWindow)..MaxTime
      PROVE  After(events, t) + (IF call[c].now > t THEN call[c].made ELSE 0) + uncharged
               <= After(events', t) + uncharged'
  <2>1. t \in Int
    BY TimesType, RangeIs
  <2>2. After(events, t) \in Nat /\ uncharged \in Nat
    BY <2>1, AfterType, TimesType
  <2> QED
    BY <1>1, <2>2
<1> QED
  BY <1>1, <1>3, <1>4, <1>5, EndBudget

\* A request goes out: it is pending, under the stamp that the longest delay covers.
LEMMA AskBudget ==
  ASSUME MetadataAssumption, BaseInv, BudgetInv, NEW c \in Caller, HoldsBudget(c), NEW k,
         Asks(c, k), Asked(c, k), k.made = call[c].made, UNCHANGED <<clock, uncharged>>,
         events' \in Seq(Int), Backed(events', issued, call[c].made),
         \A t \in (clock - RateWindow)..MaxTime : After(events, t) <= After(events', t)
  PROVE  BudgetInv'
<1> DEFINE now == call[c].now
           n == call[c].made
<1>1. /\ call' = [call EXCEPT ![c] = call'[c]]
      /\ call'[c].now = now /\ call'[c].made = n + 1
      /\ issued' = Append(issued, clock) /\ lag' \in Nat /\ lag' >= lag /\ lag' >= clock - now
  BY DEF Asked, Asks
<1>2. /\ n \in 0..3 /\ call[Other(c)].made = 0 /\ Pending = n
      /\ \A t \in Int : PendingAfter(t) = IF now > t THEN n ELSE 0
      /\ now \in Nat /\ now <= clock
  BY PendingIs, HolderIs
<1>3. Caller = {c, Other(c)} /\ Other(c) # c /\ call[Other(c)].stage # "sent"
  <2>1. Caller = {c, Other(c)}
    BY DEF Caller, Other
  <2> QED
    BY <2>1, OtherWaits DEF BaseInv
<1>4. call'[Other(c)] = call[Other(c)]
  BY <1>1, <1>3 DEF BaseInv, TypeOK
<1>5. Pending' = n + 1 /\ \A t \in Int : (PendingAfter(t))' = IF now > t THEN n + 1 ELSE 0
  <2>1. (c = "pass" /\ Other(c) = "manual") \/ (c = "manual" /\ Other(c) = "pass")
    BY DEF Caller, Other
  <2>2. call'[Other(c)].made = 0
    BY <1>2, <1>4
  <2> HIDE DEF n, now
  <2> QED
    BY <1>1, <1>2, <2>1, <2>2 DEF Pending, PendingAfter
<1>6. /\ Len(issued') = Len(issued) + 1 /\ Len(issued) \in Nat
      /\ \A i \in 1..Len(issued) : issued'[i] = issued[i] /\ issued[i] \in Int
      /\ issued'[Len(issued) + 1] = clock
      /\ DOMAIN issued' = 1..Len(issued) + 1 /\ DOMAIN issued = 1..Len(issued)
  BY <1>1, TimesType
<1> HIDE DEF now, n
<1>7. \A i \in 1..Len(issued) : issued[i] <= clock
  BY <1>6 DEF BudgetInv, IssuedInv
<1>8. IssuedInv'
  <2>1. \A i \in DOMAIN issued' : issued'[i] <= clock'
    <3> SUFFICES ASSUME NEW i \in DOMAIN issued' PROVE issued'[i] <= clock
      OBVIOUS
    <3>1. i \in 1..Len(issued) \/ i = Len(issued) + 1
      BY <1>6
    <3> QED
      BY <1>6, <1>7, <3>1, TimesType
  <2>2. ASSUME NEW i \in DOMAIN issued', NEW j \in DOMAIN issued', i <= j PROVE issued'[i] <= issued'[j]
    <3>1. i \in 1..Len(issued) \/ i = Len(issued) + 1
      BY <1>6
    <3>2. j \in 1..Len(issued) \/ (j = Len(issued) + 1 /\ issued'[j] = clock)
      BY <1>6
    <3>3. CASE j \in 1..Len(issued)
      <4>1. i \in 1..Len(issued)
        BY <1>6, <2>2, <3>1, <3>3
      <4>2. issued[i] <= issued[j]
        BY <1>6, <2>2, <3>3, <4>1 DEF BudgetInv, IssuedInv, InOrder
      <4> QED
        BY <1>6, <3>3, <4>1, <4>2
    <3>4. CASE issued'[j] = clock
      BY <2>1, <3>4
    <3> QED
      BY <3>2, <3>3, <3>4
  <2> QED
    BY <2>1, <2>2 DEF IssuedInv, InOrder
<1>9. BackedInv'
  <2>1. Backed(events', issued', Pending')
    <3>1. n \in Nat /\ Backed(events', issued, n)
      BY <1>2 DEF n
    <3>2. Backed(events', Append(issued, clock), n + 1)
      BY <3>1, TimesType, BackedAppend
    <3> QED
      BY <1>1, <1>5, <3>2
  <2>2. Len(issued') >= n + 1 /\ issued'[Len(issued') - (n + 1) + 1] >= now
    <3>1. CASE n = 0
      <4>1. Len(issued') - (n + 1) + 1 = Len(issued) + 1 /\ Len(issued') >= n + 1
        BY <1>6, <3>1
      <4>2. clock >= now
        BY <1>2, TimesType
      <4> QED
        BY <1>6, <4>1, <4>2
    <3>2. CASE n # 0
      <4>1. call[c].stage = "sent"
        BY <3>2 DEF BaseInv, CallInv, n
      <4>2. Len(issued) >= n /\ issued[Len(issued) - n + 1] >= now
        BY <4>1 DEF BudgetInv, BackedInv, n, now
      <4>3. Len(issued) - n + 1 \in 1..Len(issued) /\ Len(issued') - (n + 1) + 1 = Len(issued) - n + 1
        BY <1>2, <1>6, <3>2, <4>2
      <4>4. Len(issued') >= n + 1
        BY <1>2, <1>6, <4>2
      <4> QED
        BY <1>6, <4>2, <4>3, <4>4
    <3> QED
      BY <3>1, <3>2
  <2>3. \A d \in Caller : call'[d].stage = "sent" => d = c
    BY <1>3, <1>4
  <2> QED
    BY <1>1, <2>1, <2>2, <2>3 DEF BackedInv, Backed
<1>10. ChargedInv'
  <2> SUFFICES ASSUME NEW t \in (clock - RateWindow)..MaxTime
               PROVE  After(issued', t + lag') <= After(events', t) + (PendingAfter(t))' + uncharged
    BY DEF ChargedInv, After
  <2>1. t \in Int /\ t + lag \in Int /\ t + lag' \in Int /\ t + lag <= t + lag'
    <3>1. t \in Int
      BY TimesType, RateBudgetAssumption DEF RateBudgetAssumption
    <3>2. lag \in Int /\ lag' \in Int /\ lag <= lag'
      BY <1>1, TimesType
    <3>3. \A i, j, n0 \in Int : i <= j => n0 + i \in Int /\ n0 + j \in Int /\ n0 + i <= n0 + j
      OBVIOUS
    <3> QED
      BY <3>1, <3>2, <3>3, Zenon
  <2>2. After(issued, t + lag) <= After(events, t) + (IF now > t THEN n ELSE 0) + uncharged
    BY <1>2, <2>1 DEF BudgetInv, ChargedInv
  <2>3. After(issued, t + lag') <= After(issued, t + lag)
    BY <2>1, TimesType, AfterType
  <2>4. After(issued', t + lag') = After(issued, t + lag') + (IF clock > t + lag' THEN 1 ELSE 0)
    BY <1>1, <2>1, TimesType, AfterAppend
  <2>5. (PendingAfter(t))' = IF now > t THEN n + 1 ELSE 0
    BY <1>5, <2>1
  <2>6. After(events, t) <= After(events', t)
    OBVIOUS
  <2>7. /\ After(issued, t + lag) \in Nat /\ After(issued, t + lag') \in Nat
        /\ After(events, t) \in Nat /\ After(events', t) \in Nat /\ uncharged \in Nat
    BY <2>1, AfterType, TimesType
  <2>8. clock > t + lag' => now > t
    <3>1. \A l, i, j, m \in Int : l >= i - j /\ i > m + l => j > m
      OBVIOUS
    <3>2. lag' \in Int /\ clock \in Int /\ now \in Int /\ t \in Int /\ lag' >= clock - now
      BY <1>1, <1>2, <2>1, TimesType
    <3> QED
      BY <3>1, <3>2, Zenon
  <2> DEFINE sent == After(issued, t + lag)
             still == After(issued, t + lag')
             charged == After(events, t)
             kept == After(events', t)
  <2>9. /\ \A a, b, x, y, u, v \in Nat : a <= b /\ x <= y /\ b <= x + v + u
             => a + 1 <= y + (v + 1) + u /\ a <= y + (v + 1) + u
        /\ \A a, b, x, y, u \in Nat : a <= b /\ x <= y /\ b <= x + 0 + u => a <= y + 0 + u
    <3>1. \A a, b, x, y, u, v \in Nat : a <= b /\ x <= y /\ b <= x + v + u
             => a + 1 <= y + (v + 1) + u /\ a <= y + (v + 1) + u
      OBVIOUS
    <3>2. \A a, b, x, y, u \in Nat : a <= b /\ x <= y /\ b <= x + 0 + u => a <= y + 0 + u
      OBVIOUS
    <3> QED
      BY <3>1, <3>2
  <2> HIDE DEF n
  <2> HIDE DEF sent, still, charged, kept
  <2>10. CASE now > t
    <3>0. still \in Nat /\ \A a \in Nat : a + 0 = a
      BY <2>7 DEF still
    <3>1. /\ After(issued', t + lag') = still \/ After(issued', t + lag') = still + 1
          /\ sent <= charged + n + uncharged
      <4>1. sent <= charged + n + uncharged
        BY <2>2, <2>10 DEF sent, charged
      <4>2. After(issued', t + lag') = still + (IF clock > t + lag' THEN 1 ELSE 0)
        BY <2>4 DEF still
      <4>3. CASE clock > t + lag'
        BY <4>1, <4>2, <4>3
      <4>4. CASE ~(clock > t + lag')
        BY <3>0, <4>1, <4>2, <4>4
      <4> QED
        BY <4>3, <4>4
    <3>2. still + 1 <= kept + (n + 1) + uncharged /\ still <= kept + (n + 1) + uncharged
      <4>1. n \in Nat
        BY <1>2
      <4> QED
        BY <2>3, <2>6, <2>7, <2>9, <3>1, <4>1, Zenon DEF sent, still, charged, kept
    <3> QED
      BY <2>5, <2>7, <2>10, <3>1, <3>2 DEF kept, still
  <2>11. CASE ~(now > t)
    <3>1. After(issued', t + lag') = still /\ sent <= charged + 0 + uncharged
      BY <2>2, <2>4, <2>7, <2>8, <2>11 DEF sent, still, charged
    <3>2. still <= kept + 0 + uncharged
      BY <2>3, <2>6, <2>7, <2>9, <3>1, Zenon DEF sent, still, charged, kept
    <3> QED
      BY <2>5, <2>11, <3>1, <3>2 DEF kept
  <2> QED
    BY <2>10, <2>11
<1> QED
  BY <1>8, <1>9, <1>10 DEF BudgetInv

\* A step that sends nothing and ends no call with requests pending.
LEMMA QuietBudget ==
  ASSUME BaseInv, BudgetInv, UNCHANGED <<events, issued, lag, uncharged>>,
         clock' = clock \/ clock' = clock + 1,
         \A c \in Caller : \/ call'[c] = call[c]
                           \/ call[c].made = 0 /\ call'[c].made = 0 /\ call'[c].stage # "sent"
  PROVE  BudgetInv'
<1>1. /\ \A c \in Caller : call'[c].made = call[c].made
      /\ \A c \in Caller : call'[c].stage = "sent" => call'[c] = call[c]
  OBVIOUS
<1>2. Pending' = Pending
  BY <1>1 DEF Pending, Caller
<1>3. \A t \in Int : (PendingAfter(t))' = PendingAfter(t)
  BY DEF PendingAfter, Caller
<1>4. clock \in Int /\ clock' \in Int /\ clock <= clock'
  BY TimesType
<1>5. IssuedInv'
  <2>1. \A i \in DOMAIN issued : issued[i] \in Int
    BY TimesType
  <2> QED
    BY <1>4, <2>1 DEF BudgetInv, IssuedInv, InOrder
<1>6. BackedInv'
  <2>1. Backed(events', issued', Pending')
    BY <1>2 DEF BudgetInv, BackedInv
  <2>2. \A c \in Caller : call'[c].stage = "sent" =>
          /\ Len(issued) >= call'[c].made
          /\ issued[Len(issued) - call'[c].made + 1] >= call'[c].now
    BY <1>1 DEF BudgetInv, BackedInv
  <2> QED
    BY <2>1, <2>2 DEF BackedInv, Backed
<1>7. ChargedInv'
  <2> SUFFICES ASSUME NEW t \in (clock' - RateWindow)..MaxTime
               PROVE  After(issued, t + lag) <= After(events, t) + (PendingAfter(t))' + uncharged
    BY DEF ChargedInv, After
  <2>1. t \in (clock - RateWindow)..MaxTime /\ t \in Int
    <3>1. RateWindow \in Int /\ MaxTime \in Int
      BY TimesType, RateBudgetAssumption DEF RateBudgetAssumption
    <3>2. \A now \in Int : clock <= now => \A u \in (now - RateWindow)..MaxTime :
            u \in (clock - RateWindow)..MaxTime /\ u \in Int
      BY <1>4, <3>1
    <3> QED
      BY <1>4, <3>2
  <2> QED
    BY <1>3, <2>1 DEF BudgetInv, ChargedInv
<1> QED
  BY <1>5, <1>6, <1>7 DEF BudgetInv

\* A restart forgets the stamps and what was pending, and counts both.
LEMMA RestartBudget ==
  ASSUME MetadataAssumption, BaseInv, BudgetInv, Restart
  PROVE  BudgetInv'
<1>1. /\ events' = <<>> /\ call' = [c \in Caller |-> NoCall]
      /\ uncharged' = uncharged + Cardinality(Live(events, clock)) + call["pass"].made + call["manual"].made
      /\ UNCHANGED <<clock, issued, lag>>
  BY DEF Restart
<1>2. Cardinality(Live(events, clock)) = After(events, clock - RateWindow)
  BY DEF Live, After
<1>3. /\ call'["pass"].made = 0 /\ call'["manual"].made = 0
      /\ \A c \in Caller : call'[c].stage # "sent"
  BY <1>1 DEF Caller, NoCall
<1>4. Pending' = 0 /\ \A t \in Int : (PendingAfter(t))' = 0
  BY <1>3 DEF Pending, PendingAfter
<1>5. IssuedInv'
  BY <1>1 DEF BudgetInv, IssuedInv, InOrder
<1>6. BackedInv'
  BY <1>1, <1>3 DEF BackedInv, Backed
<1>7. ChargedInv'
  <2> SUFFICES ASSUME NEW t \in (clock - RateWindow)..MaxTime
               PROVE  After(issued, t + lag) <= After(<<>>, t) + (PendingAfter(t))' + uncharged'
    BY <1>1 DEF ChargedInv, After
  <2>1. t \in Int /\ t + lag \in Int /\ clock - RateWindow \in Int /\ clock - RateWindow <= t
    BY TimesType, RateBudgetAssumption DEF RateBudgetAssumption
  <2>2. After(issued, t + lag) <= After(events, t) + PendingAfter(t) + uncharged
    BY DEF BudgetInv, ChargedInv
  <2>3. After(events, t) <= After(events, clock - RateWindow)
    BY <2>1, TimesType, AfterType
  <2>4. PendingAfter(t) <= Pending /\ PendingAfter(t) \in Nat /\ Pending \in Nat
    BY <2>1, PendingMost
  <2>5. After(<<>>, t) \in Nat
    <3>1. <<>> \in Seq(Int)
      OBVIOUS
    <3> QED
      BY <2>1, <3>1, AfterType
  <2>6. (PendingAfter(t))' = 0
    BY <1>4, <2>1
  <2>7. uncharged' = uncharged + After(events, clock - RateWindow) + Pending
    <3>1. call["pass"].made \in Nat /\ call["manual"].made \in Nat
      BY DEF BaseInv, TypeOK, Caller, Call
    <3>2. After(events, clock - RateWindow) \in Nat /\ uncharged \in Nat
      BY <2>1, TimesType, AfterType
    <3> QED
      BY <1>1, <1>2, <3>1, <3>2 DEF Pending
  <2>8. /\ After(issued, t + lag) \in Nat /\ After(events, t) \in Nat
        /\ After(events, clock - RateWindow) \in Nat /\ uncharged \in Nat
    BY <2>1, AfterType, TimesType
  <2>9. \A i, a, b, p, q, u \in Nat : i <= a + p + u /\ a <= b /\ p <= q => i <= u + b + q
    OBVIOUS
  <2>10. After(issued, t + lag) <= uncharged'
    BY <2>2, <2>3, <2>4, <2>7, <2>8, <2>9, Zenon
  <2>11. uncharged' \in Nat
    BY <2>4, <2>7, <2>8
  <2> QED
    BY <2>5, <2>6, <2>8, <2>10, <2>11
<1> QED
  BY <1>5, <1>6, <1>7 DEF BudgetInv

\* The steps of a call.
LEMMA ProgressBudget ==
  ASSUME MetadataAssumption, BaseInv, BudgetInv, NEW c \in Caller, Progress(c)
  PROVE  BudgetInv'
<1>1. CASE Refuse(c)
  <2>1. /\ HoldsBudget(c) /\ call[c].stage = "queued" /\ Leave(c, "exhausted")
        /\ events' = Prune(events, call[c].now)
        /\ UNCHANGED <<clock, issued, lag, uncharged>>
    BY <1>1 DEF Refuse
  <2> QED
    BY <2>1, EndUnsentBudget
<1>2. CASE Start(c)
  <2>1. Funded(c) /\ UNCHANGED <<clock, uncharged>>
    BY <1>2 DEF Start
  <2>2. /\ HoldsBudget(c) /\ call[c].stage = "queued" /\ call[c].made = 0
        /\ events' = Prune(events, call[c].now)
    BY <2>1, FundedRoom
  <2>3. CASE Leave(c, "refreshed") /\ UNCHANGED <<faults, issued, lag>>
    BY <2>1, <2>2, <2>3, EndUnsentBudget
  <2>4. CASE \E k : Asks(c, k) /\ Asked(c, k) /\ k.made = call[c].made
    <3>1. call[c].now \in Int /\ call[c].now <= clock
      BY <2>2, HolderIs
    <3>2. events' \in Seq(Int)
      BY <2>2, <3>1, TimesType, PruneType
    <3>3. Backed(events', issued, call[c].made)
      <4>1. Backed(events, issued, 0)
        BY <2>2, PendingIs DEF BudgetInv, BackedInv
      <4> QED
        BY <2>2, <3>1, <4>1, TimesType, BackedPrune
    <3>4. ASSUME NEW t \in (clock - RateWindow)..MaxTime PROVE After(events, t) <= After(events', t)
      <4>1. t \in Int /\ call[c].now - RateWindow <= t
        BY <3>1, RangeIs
      <4> QED
        BY <2>2, <3>1, <4>1, TimesType, RateBudgetAssumption, AfterPrune
    <3> QED
      BY <2>1, <2>2, <2>4, <3>2, <3>3, <3>4, AskBudget
  <2> QED
    BY <1>2, <2>3, <2>4, StartIs
<1>3. CASE NotFound(c)
  <2>1. Funded(c) /\ Leave(c, "error") /\ UNCHANGED <<clock, issued, lag, uncharged>>
    BY <1>3 DEF NotFound
  <2>2. /\ HoldsBudget(c) /\ call[c].stage = "queued"
        /\ events' = Prune(events, call[c].now)
    BY <2>1, FundedRoom
  <2> QED
    BY <2>1, <2>2, EndUnsentBudget
<1>4. CASE StoreFailure(c)
  <2>1. /\ call[c].stage = "sent" /\ Charge(c) /\ Leave(c, call[c].answer.kind)
        /\ UNCHANGED <<clock, issued, lag, uncharged>>
    BY <1>4 DEF StoreFailure
  <2> QED
    BY <2>1, EndChargedBudget
<1>5. CASE Store(c)
  <2>1. call[c].stage = "sent" /\ UNCHANGED <<clock, uncharged>>
    BY <1>5 DEF Store
  <2>2. HoldsBudget(c)
    BY <2>1, SenderIs
  <2>3. CASE Charge(c) /\ Leave(c, "refreshed") /\ UNCHANGED <<faults, issued, lag>>
    BY <2>1, <2>3, EndChargedBudget
  <2>4. CASE \E k : Asks(c, k) /\ Asked(c, k) /\ events' = events /\ k.made = call[c].made
    <3>1. events' \in Seq(Int) /\ Backed(events', issued, call[c].made)
      BY <2>2, <2>4, TimesType, PendingIs DEF BudgetInv, BackedInv
    <3>2. ASSUME NEW t \in (clock - RateWindow)..MaxTime PROVE After(events, t) <= After(events', t)
      <4>1. t \in Int
        BY TimesType, RateBudgetAssumption DEF RateBudgetAssumption
      <4>2. events' = events /\ After(events, t) \in Nat
        BY <2>4, <4>1, TimesType, AfterType
      <4> QED
        BY <4>2
    <3> QED
      BY <2>1, <2>2, <2>4, <3>1, <3>2, AskBudget
  <2> QED
    BY <1>5, <2>3, <2>4, StoreIs
<1>6. CASE Breaks(c)
  <2>1. /\ call[c].stage = "sent" /\ Leave(c, "error")
        /\ UNCHANGED <<clock, issued, lag, events>> /\ uncharged' = uncharged + call[c].made
    BY <1>6 DEF Breaks
  <2> QED
    BY <2>1, EndForgottenBudget
<1> QED
  BY <1>1, <1>2, <1>3, <1>4, <1>5, <1>6 DEF Progress

\* Every step.
LEMMA NextBudget ==
  ASSUME MetadataAssumption, BaseInv, BudgetInv, [Next]_vars
  PROVE  BudgetInv'
<1>1. ASSUME NEW c \in Caller, Progress(c) PROVE BudgetInv'
  BY <1>1, ProgressBudget
<1>2. call \in [Caller -> Call] /\ "pass" \in Caller /\ "manual" \in Caller
  BY DEF BaseInv, TypeOK, Caller
<1>3. \A r : \A now : Queued(r, now).made = 0 /\ Queued(r, now).stage # "sent"
  BY DEF Queued, NoCall
<1>4. CASE PassStart
  <2>1. \E k : k.made = 0 /\ k.stage # "sent" /\ call' = [call EXCEPT !["pass"] = k]
    BY <1>3, <1>4 DEF PassStart
  <2>2. call["pass"].made = 0
    BY <1>2, <1>4 DEF PassStart, BaseInv, CallInv
  <2>3. UNCHANGED <<clock, events, issued, lag, uncharged>>
    BY <1>4 DEF PassStart
  <2> QED
    BY <1>2, <2>1, <2>2, <2>3, QuietBudget
<1>5. ASSUME NEW r \in Watched, ManualBegin(r) PROVE BudgetInv'
  <2>1. \E k : k.made = 0 /\ k.stage # "sent" /\ call' = [call EXCEPT !["manual"] = k]
    BY <1>3, <1>5 DEF ManualBegin
  <2>2. call["manual"].made = 0
    BY <1>2, <1>5 DEF ManualBegin, BaseInv, CallInv
  <2>3. UNCHANGED <<clock, events, issued, lag, uncharged>>
    BY <1>5 DEF ManualBegin, history
  <2> QED
    BY <1>2, <2>1, <2>2, <2>3, QuietBudget
<1>6. CASE ManualReport
  <2>1. \E k : k.made = 0 /\ k.stage # "sent" /\ call' = [call EXCEPT !["manual"] = k]
    BY <1>6 DEF ManualReport, NoCall
  <2>2. call["manual"].made = 0
    BY <1>2, <1>6 DEF ManualReport, BaseInv, CallInv
  <2>3. UNCHANGED <<clock, events, issued, lag, uncharged>>
    BY <1>6 DEF ManualReport
  <2> QED
    BY <1>2, <2>1, <2>2, <2>3, QuietBudget
<1>7. CASE Restart
  BY <1>7, RestartBudget
<1>8. CASE \/ Pass \/ UNCHANGED vars
           \/ \E r \in Watched : Remove(r) \/ \E res \in Resource : Publish(r, res)
  <2>1. UNCHANGED <<events, issued, lag, uncharged, call>> /\ (clock' = clock \/ clock' = clock + 1)
    BY <1>8 DEF Pass, Remove, Publish, vars, callers, history
  <2> QED
    BY <2>1, QuietBudget
<1> QED
  BY <1>1, <1>4, <1>5, <1>6, <1>7, <1>8 DEF Next

\* Requests and stamps correspond (github.rs, RateBudgeter and refresh_one_budgeted).
THEOREM Budget == Spec => []BudgetInv
<1>1. Init => BudgetInv
  <2> SUFFICES ASSUME Init PROVE BudgetInv
    OBVIOUS
  <2>1. events = <<>> /\ issued = <<>> /\ lag = 0 /\ uncharged = 0 /\ \A c \in Caller : call[c] = NoCall
    BY DEF Init
  <2>2. \A c \in Caller : call[c].stage # "sent"
    BY <2>1 DEF NoCall
  <2>3. IssuedInv /\ BackedInv
    BY <2>1, <2>2 DEF IssuedInv, InOrder, BackedInv, Backed
  <2>4. BaseInv
    BY InitBase, MetadataAssumption, RateBudgetAssumption
  <2>5. ChargedInv
    <3> SUFFICES ASSUME NEW t \in (clock - RateWindow)..MaxTime
                 PROVE  After(issued, t + lag) <= After(events, t) + PendingAfter(t) + uncharged
      BY DEF ChargedInv
    <3>1. t \in Int /\ t + lag \in Int
      BY <2>4, TimesType, RateBudgetAssumption DEF RateBudgetAssumption
    <3>2. /\ After(issued, t + lag) \in Nat /\ After(issued, t + lag) <= Len(issued)
          /\ After(events, t) \in Nat /\ PendingAfter(t) \in Nat
      BY <2>4, <3>1, AfterType, TimesType, PendingMost
    <3>3. After(issued, t + lag) = 0
      BY <2>1, <3>2
    <3> QED
      BY <2>1, <3>2, <3>3
  <2> QED
    BY <2>3, <2>5 DEF BudgetInv
<1>2. BaseInv /\ BudgetInv /\ [Next]_vars => BudgetInv'
  BY NextBudget, MetadataAssumption
<1> QED
  BY <1>1, <1>2, Base, PTL DEF Spec

-----------------------------------------------------------------------------
(* The hourly budget *)

\* What is charged and what is pending fit into the budget together.
LEMMA BudgetHolds ==
  ASSUME BaseInv, NEW t \in Int
  PROVE  After(events, t) + PendingAfter(t) <= MaxPerWindow
<1>1. /\ After(events, t) \in Nat /\ After(events, t) <= Len(events) /\ Len(events) \in Nat
      /\ Len(events) <= MaxPerWindow /\ MaxPerWindow \in Nat
  <2>1. events \in Seq(Int) /\ Len(events) <= MaxPerWindow
    BY TimesType
  <2>2. After(events, t) \in Nat /\ After(events, t) <= Len(events)
    BY <2>1, AfterType
  <2> QED
    BY <2>1, <2>2, RateBudgetAssumption DEF RateBudgetAssumption
<1>2. CASE \E c \in Caller : call[c].stage = "sent"
  <2> PICK c \in Caller : call[c].stage = "sent"
    BY <1>2
  <2>1. HoldsBudget(c) /\ call[c].made \in 1..3 /\ Len(events) + 3 <= MaxPerWindow
    BY SenderIs DEF MAX_REQUESTS_PER_REPO
  <2>2. PendingAfter(t) = IF call[c].now > t THEN call[c].made ELSE 0
    BY <2>1, PendingIs
  <2> QED
    BY <1>1, <2>1, <2>2
<1>3. CASE ~ \E c \in Caller : call[c].stage = "sent"
  <2>1. call["pass"].made = 0 /\ call["manual"].made = 0
    BY <1>3 DEF BaseInv, CallInv, Caller
  <2>2. PendingAfter(t) = 0
    BY <2>1 DEF PendingAfter
  <2> QED
    BY <1>1, <2>2
<1> QED
  BY <1>2, <1>3

\* A narrower span holds no more requests.
LEMMA SentIs ==
  ASSUME NEW times \in Seq(Int), NEW from \in Int, NEW to \in Int
  PROVE  LET S == {i \in DOMAIN times : times[i] > from /\ times[i] <= to}
         IN /\ IsFiniteSet(S) /\ Cardinality(S) \in Nat
            /\ Cardinality(S) <= After(times, from)
            /\ \A T \in SUBSET S : Cardinality(T) \in Nat /\ Cardinality(T) <= Cardinality(S)
<1> DEFINE S == {i \in DOMAIN times : times[i] > from /\ times[i] <= to}
           U == {i \in DOMAIN times : times[i] > from}
<1>1. IsFiniteSet(U) /\ S \in SUBSET U
  BY AfterType
<1>2. Cardinality(U) = After(times, from)
  BY DEF After
<1> HIDE DEF S, U
<1>3. IsFiniteSet(S) /\ Cardinality(S) <= Cardinality(U)
  BY <1>1, FS_Subset
<1>4. \A T \in SUBSET S : IsFiniteSet(T) /\ Cardinality(T) <= Cardinality(S)
  BY <1>3, FS_Subset
<1> QED
  BY <1>2, <1>3, <1>4, FS_CardinalityType DEF S

\* The windows that end now or later.
Recent ==
    \A t \in Time : t >= clock => Sent(t - (RateWindow - lag), t) <= MaxPerWindow + uncharged

LEMMA RecentHolds ==
  ASSUME BaseInv, BudgetInv
  PROVE  Recent
<1> SUFFICES ASSUME NEW t \in Time, t >= clock
             PROVE  Sent(t - (RateWindow - lag), t) <= MaxPerWindow + uncharged
  BY DEF Recent
<1> DEFINE from == t - (RateWindow - lag)
           u == t - RateWindow
<1>1. t \in Int /\ from \in Int /\ u \in (clock - RateWindow)..MaxTime /\ u \in Int /\ from = u + lag
  <2>1. t \in Int /\ t <= MaxTime /\ RateWindow \in Nat /\ lag \in Nat /\ clock \in Int /\ MaxTime \in Nat
    BY TimesType, RateBudgetAssumption DEF Time, RateBudgetAssumption
  <2> QED
    BY <2>1
<1> HIDE DEF from, u
<1>2. Sent(from, t) \in Nat /\ Sent(from, t) <= After(issued, from) /\ After(issued, from) \in Nat
  BY <1>1, SentIs, AfterType, TimesType DEF Sent
<1>3. After(issued, from) <= After(events, u) + PendingAfter(u) + uncharged
  BY <1>1 DEF BudgetInv, ChargedInv
<1>4. After(events, u) + PendingAfter(u) <= MaxPerWindow
  BY <1>1, BudgetHolds
<1>5. After(events, u) \in Nat /\ PendingAfter(u) \in Nat /\ uncharged \in Nat /\ MaxPerWindow \in Nat
  BY <1>1, AfterType, TimesType, PendingMost, RateBudgetAssumption DEF RateBudgetAssumption
<1>6. Sent(from, t) <= MaxPerWindow + uncharged
  BY <1>2, <1>3, <1>4, <1>5
<1> QED
  BY <1>6 DEF from

\* A step sends at most one request, and that now; delays and losses only grow.
LEMMA StepSends ==
  ASSUME MetadataAssumption, BaseInv, [Next]_vars
  PROVE  /\ lag' \in Nat /\ lag' >= lag /\ uncharged' \in Nat /\ uncharged' >= uncharged
         /\ \/ issued' = issued /\ (clock' = clock \/ clock' = clock + 1)
            \/ issued' = Append(issued, clock) /\ clock' = clock
<1>0. lag \in Nat /\ uncharged \in Nat /\ clock \in Int
  BY TimesType
<1>1. ASSUME NEW c \in Caller, Start(c) \/ Store(c)
      PROVE  /\ uncharged' = uncharged /\ clock' = clock
             /\ \/ issued' = issued /\ lag' = lag
                \/ issued' = Append(issued, clock) /\ lag' \in Nat /\ lag' >= lag
  <2>1. uncharged' = uncharged /\ clock' = clock
    BY <1>1 DEF Start, Store
  <2>2. (issued' = issued /\ lag' = lag) \/ \E k : Asked(c, k)
    BY <1>1, StartIs, StoreIs
  <2>3. ASSUME NEW k, Asked(c, k)
        PROVE  issued' = Append(issued, clock) /\ lag' \in Nat /\ lag' >= lag
    BY <2>3 DEF Asked
  <2> QED
    BY <2>1, <2>2, <2>3
<1>2. ASSUME NEW c \in Caller, Breaks(c)
      PROVE  /\ uncharged' \in Nat /\ uncharged' >= uncharged /\ clock' = clock
             /\ issued' = issued /\ lag' = lag
  <2>1. call[c].made \in Nat
    BY DEF BaseInv, TypeOK, Call
  <2> QED
    BY <1>0, <1>2, <2>1 DEF Breaks
<1>3. CASE Restart
  <2>1. /\ uncharged' = uncharged + Cardinality(Live(events, clock)) + call["pass"].made + call["manual"].made
        /\ clock' = clock /\ issued' = issued /\ lag' = lag
    BY <1>3 DEF Restart
  <2>2. Cardinality(Live(events, clock)) = After(events, clock - RateWindow)
    BY DEF Live, After
  <2>3. clock - RateWindow \in Int
    BY <1>0, RateBudgetAssumption DEF RateBudgetAssumption
  <2>4. Cardinality(Live(events, clock)) \in Nat
    BY <2>2, <2>3, TimesType, AfterType
  <2>5. call["pass"].made \in Nat /\ call["manual"].made \in Nat
    BY DEF BaseInv, TypeOK, Caller, Call
  <2> QED
    BY <1>0, <2>1, <2>4, <2>5
<1>4. \/ UNCHANGED <<lag, uncharged, issued>> /\ (clock' = clock \/ clock' = clock + 1)
      \/ \E c \in Caller : Start(c) \/ Store(c) \/ Breaks(c)
      \/ Restart
  BY DEF Next, Progress, Refuse, NotFound, StoreFailure, PassStart, ManualReport,
         Pass, ManualBegin, Remove, Publish, vars, history, callers
<1> QED
  BY <1>0, <1>1, <1>2, <1>3, <1>4

\* A window that lies in the past gains no request.
LEMMA PastSent ==
  ASSUME MetadataAssumption, BaseInv, [Next]_vars, NEW t \in Time, ~(t >= clock')
  PROVE  /\ (Sent(t - (RateWindow - lag), t))' \in Nat
         /\ Sent(t - (RateWindow - lag), t) \in Nat
         /\ (Sent(t - (RateWindow - lag), t))' <= Sent(t - (RateWindow - lag), t)
<1> DEFINE before == t - (RateWindow - lag)
           after == t - (RateWindow - lag')
           S == {i \in DOMAIN issued : issued[i] > before /\ issued[i] <= t}
           T == {i \in DOMAIN issued' : issued'[i] > after /\ issued'[i] <= t}
<1>1. before \in Int /\ after \in Int /\ before <= after /\ t \in Int
  <2>1. t \in Int /\ RateWindow \in Int /\ lag \in Int /\ lag' \in Int /\ lag <= lag'
    BY StepSends, TimesType, RateBudgetAssumption DEF RateBudgetAssumption, Time
  <2>2. \A i, j \in Int : i <= j => t - (RateWindow - i) <= t - (RateWindow - j)
    BY <2>1
  <2>3. before \in Int /\ after \in Int
    BY <2>1
  <2> QED
    BY <2>1, <2>2, <2>3
<1> HIDE DEF before, after
<1>2. issued \in Seq(Int) /\ clock \in Int
  BY TimesType
<1>3. T \in SUBSET S
  <2>1. CASE issued' = issued
    BY <1>1, <1>2, <2>1
  <2>2. CASE issued' = Append(issued, clock) /\ clock' = clock
    <3>1. /\ DOMAIN issued' = 1..Len(issued) + 1 /\ DOMAIN issued = 1..Len(issued)
          /\ Len(issued) \in Nat /\ issued'[Len(issued) + 1] = clock
          /\ \A i \in 1..Len(issued) : issued'[i] = issued[i] /\ issued[i] \in Int
      BY <1>2, <2>2
    <3>2. ASSUME NEW i \in T PROVE i \in S
      <4>1. i # Len(issued) + 1
        BY <1>1, <1>2, <2>2, <3>1
      <4>2. i \in 1..Len(issued)
        BY <3>1, <4>1
      <4> QED
        BY <1>1, <3>1, <4>2
    <3> QED
      BY <3>2
  <2> QED
    BY <2>1, <2>2, StepSends
<1>4. Cardinality(S) \in Nat /\ Cardinality(T) \in Nat /\ Cardinality(T) <= Cardinality(S)
  BY <1>1, <1>2, <1>3, SentIs
<1>5. Sent(t - (RateWindow - lag), t) = Cardinality(S)
  BY DEF Sent, before
<1>6. (Sent(t - (RateWindow - lag), t))' = Cardinality(T)
  BY DEF Sent, after
<1> HIDE DEF S, T
<1> QED
  BY <1>4, <1>5, <1>6

\* In any window that is shorter than an hour by the longest delay between a call's stamp
\* and its requests, no more requests than the budget go out, but for those that a failing
\* database or a restart made it forget; whatever the budget and the window.
THEOREM WithinBudget == Spec => []HourlyBudget
<1>1. BaseInv /\ BudgetInv => Recent
  BY RecentHolds
<1>2. Init /\ Recent => HourlyBudget
  BY DEF Init, Recent, HourlyBudget, Time
<1>3. BaseInv /\ HourlyBudget /\ Recent' /\ [Next]_vars => HourlyBudget'
  <2> SUFFICES ASSUME BaseInv, HourlyBudget, Recent', [Next]_vars, NEW t \in Time
               PROVE  (Sent(t - (RateWindow - lag), t))' <= MaxPerWindow + uncharged'
    BY DEF HourlyBudget
  <2>1. CASE t >= clock'
    BY <2>1 DEF Recent
  <2>2. CASE ~(t >= clock')
    <3>1. Sent(t - (RateWindow - lag), t) <= MaxPerWindow + uncharged
      BY DEF HourlyBudget
    <3>2. /\ (Sent(t - (RateWindow - lag), t))' \in Nat
          /\ Sent(t - (RateWindow - lag), t) \in Nat
          /\ (Sent(t - (RateWindow - lag), t))' <= Sent(t - (RateWindow - lag), t)
      BY <2>2, PastSent, MetadataAssumption
    <3>3. uncharged \in Nat /\ uncharged' \in Nat /\ uncharged' >= uncharged /\ MaxPerWindow \in Nat
      BY StepSends, TimesType, MetadataAssumption, RateBudgetAssumption DEF RateBudgetAssumption
    <3> QED
      BY <3>1, <3>2, <3>3
  <2> QED
    BY <2>1, <2>2
<1> QED
  BY <1>1, <1>2, <1>3, Base, Budget, PTL DEF Spec

-----------------------------------------------------------------------------
(* A pass that stops *)

\* What the budgeter counts was really sent.
LEMMA KeptSent ==
  ASSUME BaseInv, BudgetInv, NEW now \in Int, Pending = 0
  PROVE  /\ Len(Prune(events, now)) <= Sent(now - RateWindow, clock)
         /\ Sent(now - RateWindow, clock) \in Nat /\ Len(Prune(events, now)) \in Nat
<1> DEFINE from == now - RateWindow
           S == {i \in DOMAIN issued : issued[i] > from /\ issued[i] <= clock}
<1>1. from \in Int /\ issued \in Seq(Int) /\ events \in Seq(Int) /\ clock \in Int
  BY TimesType, RateBudgetAssumption DEF RateBudgetAssumption
<1>2. Cardinality(S) \in Nat /\ \A T \in SUBSET S : Cardinality(T) <= Cardinality(S)
  <2> HIDE DEF from
  <2> QED
    BY <1>1, SentIs
<1>3. Sent(from, clock) = Cardinality(S)
  BY DEF Sent
<1>4. Len(Prune(events, now)) \in Nat
  BY <1>1, PruneType
<1>5. CASE Prune(events, now) = <<>>
  BY <1>2, <1>3, <1>5
<1>6. ASSUME NEW first \in Live(events, now), Prune(events, now) = SubSeq(events, first, Len(events))
      PROVE  Len(Prune(events, now)) <= Cardinality(S)
  <2>1. first \in 1..Len(events) /\ Len(events) \in Nat /\ events[first] \in Int /\ events[first] > from
    BY <1>1 DEF Live
  <2> DEFINE m == Len(issued)
             back == m - 0 - (Len(events) - first)
  <2>2. back >= 1 /\ issued[back] >= events[first]
    BY <2>1 DEF BudgetInv, BackedInv, Backed
  <2>3. m \in Nat /\ back \in 1..m /\ m - back + 1 = Len(events) - first + 1
    BY <1>1, <2>1, <2>2
  <2>4. Len(Prune(events, now)) = Len(events) - first + 1
    BY <1>1, <1>6, <2>1
  <2>5. DOMAIN issued = 1..m /\ \A i \in 1..m : issued[i] \in Int /\ issued[i] <= clock
    BY <1>1 DEF BudgetInv, IssuedInv
  <2> HIDE DEF back, m, from
  <2>6. back..m \in SUBSET S
    <3> SUFFICES ASSUME NEW i \in back..m PROVE i \in S
      OBVIOUS
    <3>1. i \in 1..m /\ back <= i
      BY <2>3
    <3>2. issued[back] <= issued[i]
      BY <2>3, <2>5, <3>1 DEF BudgetInv, IssuedInv, InOrder
    <3>3. issued[i] \in Int /\ issued[back] \in Int /\ issued[i] <= clock /\ i \in DOMAIN issued
      BY <2>3, <2>5, <3>1
    <3>4. issued[i] > from
      BY <1>1, <2>1, <2>2, <3>2, <3>3
    <3> QED
      BY <3>3, <3>4
  <2>7. Cardinality(back..m) = m - back + 1
    <3>1. back \in Int /\ m \in Int /\ ~(back > m)
      BY <2>3
    <3> QED
      BY <3>1, FS_Interval
  <2> HIDE DEF S
  <2> QED
    BY <1>2, <2>3, <2>4, <2>6, <2>7
<1> QED
  BY <1>1, <1>2, <1>3, <1>4, <1>5, <1>6, PruneIs

\* A step of the command leaves the pass alone.
LEMMA ManualAside ==
  ASSUME MetadataAssumption, BaseInv, Progress("manual")
  PROVE  pass' = pass
<1>1. "manual" \in Caller
  BY DEF Caller
<1>2. ASSUME NEW outcome, HoldsBudget("manual"), Leave("manual", outcome) PROVE pass' = pass
  BY <1>2 DEF Leave, LeaveManual
<1>3. ASSUME NEW k, Asked("manual", k) PROVE pass' = pass
  BY <1>3 DEF Asked
<1>4. (\E outcome : Leave("manual", outcome)) \/ \E k : Asked("manual", k)
  BY <1>1, StartIs, StoreIs DEF Progress, Refuse, NotFound, StoreFailure, Breaks
<1> QED
  BY <1>3, <1>4 DEF Leave, LeaveManual

\* A pass that stops has come to its last row, or there is a reason.
LEMMA PassStops ==
  ASSUME MetadataAssumption, BaseInv, BudgetInv, Progress("pass"), pass # NoPass, pass' = NoPass
  PROVE  pass.todo = {call["pass"].repo} \/ excused'
<1>1. "pass" \in Caller
  BY DEF Caller
<1>2. ASSUME NEW outcome \in {"refreshed", "failed"}, HoldsBudget("pass"), Leave("pass", outcome)
      PROVE  pass.todo = {call["pass"].repo}
  <2>1. PassGoesOn(outcome)
    BY DEF PassGoesOn
  <2> QED
    BY <1>1, <1>2, <2>1, LeaveIs DEF BaseInv
<1>3. ASSUME NEW k, Asked("pass", k) PROVE FALSE
  BY <1>3 DEF Asked
<1>4. CASE Refuse("pass")
  <2> DEFINE now == call["pass"].now
             sent == Sent(now - RateWindow, clock)
  <2>1. /\ HoldsBudget("pass") /\ call["pass"].stage = "queued"
        /\ ~CanSpend(events, now, MAX_REQUESTS_PER_REPO)
        /\ Excuse("pass", sent + MAX_REQUESTS_PER_REPO > MaxPerWindow)
    BY <1>4 DEF Refuse
  <2>2. now \in Int /\ Pending = 0
    BY <1>1, <2>1, HolderIs, PendingIs DEF BaseInv, CallInv
  <2>3. ~(Len(Prune(events, now)) + MAX_REQUESTS_PER_REPO <= MaxPerWindow)
    BY <2>1, <2>2, TimesType, CanSpendIs, RateBudgetAssumption
  <2>4. Len(Prune(events, now)) <= sent /\ sent \in Nat /\ Len(Prune(events, now)) \in Nat
    BY <2>2, KeptSent
  <2>5. sent + MAX_REQUESTS_PER_REPO > MaxPerWindow
    <3> HIDE DEF sent
    <3> QED
      BY <2>3, <2>4, RateBudgetAssumption DEF MAX_REQUESTS_PER_REPO, RateBudgetAssumption
  <2> QED
    BY <2>1, <2>5 DEF Excuse
<1>5. CASE Start("pass")
  <2>1. HoldsBudget("pass")
    BY <1>5 DEF Start, Funded
  <2>2. Leave("pass", "refreshed") \/ \E k : Asked("pass", k)
    BY <1>1, <1>5, StartIs
  <2> QED
    BY <1>2, <1>3, <2>1, <2>2
<1>6. CASE NotFound("pass") \/ Breaks("pass")
  BY <1>6 DEF NotFound, Breaks, Excuse
<1>7. CASE StoreFailure("pass")
  <2>1. /\ call["pass"].stage = "sent"
        /\ call["pass"].answer.kind \in {"failed", "rate_limited"}
        /\ Leave("pass", call["pass"].answer.kind)
        /\ Excuse("pass", call["pass"].answer.kind = "rate_limited")
    BY <1>7 DEF StoreFailure
  <2>2. HoldsBudget("pass")
    BY <1>1, <2>1, SenderIs
  <2>3. CASE call["pass"].answer.kind = "failed"
    <3>1. Leave("pass", "failed")
      BY <2>1, <2>3
    <3> QED
      BY <1>2, <2>2, <3>1
  <2>4. CASE call["pass"].answer.kind = "rate_limited"
    BY <2>1, <2>4 DEF Excuse
  <2> QED
    BY <2>1, <2>3, <2>4
<1>8. CASE Store("pass")
  <2>1. HoldsBudget("pass")
    BY <1>1, <1>8, SenderIs DEF Store
  <2>2. Leave("pass", "refreshed") \/ \E k : Asked("pass", k)
    BY <1>1, <1>8, StoreIs
  <2> QED
    BY <1>2, <1>3, <2>1, <2>2
<1> QED
  BY <1>4, <1>5, <1>6, <1>7, <1>8 DEF Progress

\* A pass that stops has come to every row it selected, unless the requests of the last
\* hour leave no room, GitHub limits us, or a removal, the database or a restart broke it
\* (refresh_pass): what the budgeter refuses, it refuses for requests that were sent.
THEOREM PassCompletes == Spec => PassComplete
<1>1. BaseInv /\ BudgetInv /\ [Next]_vars
        => [pass # NoPass /\ pass' = NoPass => pass.todo = {call["pass"].repo} \/ excused']_vars
  <2> SUFFICES ASSUME BaseInv, BudgetInv, Next, pass # NoPass, pass' = NoPass
               PROVE  pass.todo = {call["pass"].repo} \/ excused'
    OBVIOUS
  <2>1. CASE Progress("pass")
    BY <2>1, PassStops, MetadataAssumption
  <2>2. CASE Progress("manual")
    BY <2>2, ManualAside, MetadataAssumption
  <2>3. CASE PassStart
    BY <2>3 DEF PassStart, BaseInv, PassInv
  <2>4. CASE Restart
    BY <2>4 DEF Restart
  <2>5. CASE \/ ManualReport \/ Pass
             \/ \E r \in Watched : ManualBegin(r) \/ Remove(r) \/ \E res \in Resource : Publish(r, res)
    BY <2>5 DEF ManualReport, Pass, ManualBegin, Remove, Publish, callers
  <2> QED
    BY <2>1, <2>2, <2>3, <2>4, <2>5 DEF Next, Caller
<1> QED
  BY <1>1, Base, Budget, PTL DEF Spec, PassComplete
=============================================================================
