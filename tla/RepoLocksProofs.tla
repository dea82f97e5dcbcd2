--------------------------- MODULE RepoLocksProofs ---------------------------
(***************************************************************************)
(* Proofs about RepoLocks, for every set of repos, working trees, commands *)
(* and bursts and every number of permits.                                 *)
(*                                                                         *)
(* The argument: a task that is past its mutex stays at the head of that   *)
(* mutex's queue (LockInv); as long as a repo's row exists there is one    *)
(* mutex for it (MapInv), and a tree has one row (RowInv); so two tasks in *)
(* one tree are at the head of one queue.  The permits are a separate      *)
(* argument: whoever runs bounded git is in permitted (PermitInv).         *)
(***************************************************************************)
EXTENDS RepoLocks, FiniteSetTheorems, SequenceTheorems, TLAPS

\* The stages at which a task has its mutex for certain.
Inside == {"permit", "ready", "git", "record", "evict"}

LockInv == \A t \in Task : pc[t] \in Inside => HoldsMutex(t)

\* A row that was never deleted has its first mutex, and an eviction under way is
\* the first of its id.
MapInv ==
    /\ \A r \in Repo : row[r] # "gone" => gen[r] = 1
    /\ \A t \in Task : gen[t[2]] = 1 => mutex[t] = 1
    /\ \A t \in Task : pc[t] = "evict" => row[t[2]] = "gone" /\ gen[t[2]] = 1

\* repos.local_path is unique.
RowInv ==
    \A r, s \in Repo : row[r] = "tracked" /\ row[s] = "tracked" /\ TreeOf[r] = TreeOf[s] => r = s

Distinct(q) == \A i, j \in 1..Len(q) : q[i] = q[j] => i = j

\* The semaphore's queue holds, once each, tasks that wait for a permit.
WaitInv == Distinct(waiters) /\ \A i \in 1..Len(waiters) : pc[waiters[i]] = "permit"

\* A burst admits a target once, and never more than it can work on.
BurstInv ==
    \A b \in Burst :
        /\ \A r \in pending[b] : pc[<<b, r>>] = "idle"
        /\ Cardinality(InFlight(b)) <= MaxInFlight

PermitInv ==
    /\ \A t \in permitted : t[1] \in Bounded /\ pc[t] \in {"ready", "git"}
    /\ \A t \in Task : pc[t] = "permit" => t[1] \in Bounded
    /\ \A t \in Task : pc[t] \in {"ready", "git"} /\ t[1] \in Bounded => t \in permitted
    /\ Cardinality(permitted) <= Permits

-----------------------------------------------------------------------------
(* What the parameters and the queues are *)

\* A task's parts.
LEMMA TaskParts ==
  /\ \A t \in Task : t[1] \in Kind /\ t[2] \in Repo /\ t = <<t[1], t[2]>>
  /\ \A k \in Kind, r \in Repo : <<k, r>> \in Task
  BY DEF Task

\* There are finitely many tasks.
LEMMA TaskFinite == IsFiniteSet(Task)
<1>1. IsFiniteSet({"job", "remove"})
  <2>1. IsFiniteSet({"job"}) /\ {"job", "remove"} = {"job"} \cup {"remove"}
    BY FS_Singleton
  <2> QED
    BY <2>1, FS_AddElement
<1>2. IsFiniteSet(Kind)
  BY <1>1, RepoLocksAssumption, FS_Union DEF Kind
<1> QED
  BY <1>2, RepoLocksAssumption, FS_Product DEF Task

\* Joining a queue does not change its holder, and leaving one keeps it a queue.
LEMMA JoinQueue ==
  ASSUME NEW S, NEW q \in Seq(S), NEW e \in S
  PROVE  /\ Append(q, e) \in Seq(S)
         /\ Append(q, e) # <<>>
         /\ q # <<>> => Head(Append(q, e)) = Head(q)
         /\ Len(Append(q, e)) = Len(q) + 1
         /\ \A i \in 1..Len(q) : Append(q, e)[i] = q[i]
         /\ Append(q, e)[Len(q) + 1] = e
<1>1. /\ Append(q, e) \in Seq(S)
      /\ Len(Append(q, e)) = Len(q) + 1
      /\ \A i \in 1..Len(q) : Append(q, e)[i] = q[i]
      /\ Append(q, e)[Len(q) + 1] = e
  OBVIOUS
<1>2. Append(q, e) # <<>>
  BY <1>1, LenProperties, EmptySeq
<1>3. ASSUME q # <<>> PROVE Head(Append(q, e)) = Head(q)
  <2>1. Len(q) \in Nat \ {0}
    BY <1>3, EmptySeq
  <2>2. Head(q) = q[1]
    OBVIOUS
  <2>3. Head(Append(q, e)) = Append(q, e)[1]
    BY <1>1, <1>2
  <2> QED
    BY <1>1, <2>1, <2>2, <2>3
<1> QED
  BY <1>1, <1>2, <1>3

\* A queue without repetitions keeps none when a newcomer joins, ...
LEMMA JoinDistinct ==
  ASSUME NEW S, NEW q \in Seq(S), NEW e \in S, Distinct(q), \A i \in 1..Len(q) : q[i] # e
  PROVE  Distinct(Append(q, e))
<1> DEFINE p == Append(q, e)
<1>1. Len(q) \in Nat
  BY LenProperties
<1>2. Len(p) = Len(q) + 1 /\ (\A i \in 1..Len(q) : p[i] = q[i]) /\ p[Len(q) + 1] = e
  BY JoinQueue
<1> HIDE DEF p
<1>3. ASSUME NEW i \in 1..Len(p), NEW j \in 1..Len(p), p[i] = p[j] PROVE i = j
  <2>1. (i \in 1..Len(q) \/ i = Len(q) + 1) /\ (j \in 1..Len(q) \/ j = Len(q) + 1)
    BY <1>1, <1>2
  <2> QED
    BY <1>2, <1>3, <2>1 DEF Distinct
<1>4. Distinct(p)
  BY <1>3 DEF Distinct
<1> QED
  BY <1>4 DEF p

\* ... and when its head leaves, which is then no longer in it.
LEMMA LeaveDistinct ==
  ASSUME NEW S, NEW q \in Seq(S), q # <<>>, Distinct(q)
  PROVE  /\ Distinct(Tail(q))
         /\ \A i \in 1..Len(Tail(q)) : /\ i + 1 \in 1..Len(q)
                                       /\ Tail(q)[i] = q[i + 1]
                                       /\ Tail(q)[i] # Head(q)
<1> DEFINE p == Tail(q)
<1>1. Len(q) \in Nat \ {0} /\ Head(q) = q[1]
  BY EmptySeq
<1>2. Len(p) = Len(q) - 1 /\ \A i \in 1..Len(p) : p[i] = q[i + 1]
  BY HeadTailProperties
<1> HIDE DEF p
<1>3. \A i \in 1..Len(p) : i + 1 \in 1..Len(q) /\ i + 1 # 1
  BY <1>1, <1>2
<1>4. \A i \in 1..Len(p) : p[i] # Head(q)
  <2>1. 1 \in 1..Len(q)
    BY <1>1
  <2> QED
    BY <1>1, <1>2, <1>3, <2>1 DEF Distinct
<1>5. ASSUME NEW i \in 1..Len(p), NEW j \in 1..Len(p), p[i] = p[j] PROVE i = j
  <2>1. i + 1 = j + 1
    BY <1>2, <1>3, <1>5 DEF Distinct
  <2> QED
    BY <2>1
<1>6. Distinct(p)
  BY <1>5 DEF Distinct
<1> QED
  BY <1>2, <1>3, <1>4, <1>6 DEF p

-----------------------------------------------------------------------------
(* Types *)

\* A step keeps the types, as long as an eviction is the first of its id.
LEMMA TypeStep ==
  ASSUME TypeOK, [Next]_vars, \A t \in Task : pc[t] = "evict" => gen[t[2]] = 1
  PROVE  TypeOK'
<1> USE TaskParts DEF TypeOK, Stage, Gen
<1>1. ASSUME NEW t \in Task, Enqueue(t) PROVE TypeOK'
  <2>1. Append(queue[t[2]][gen[t[2]]], t) \in Seq(Task)
    BY JoinQueue
  <2> QED
    BY <1>1, <2>1 DEF Enqueue
<1>2. ASSUME NEW t \in Task, AskPermit(t) PROVE TypeOK'
  BY <1>2, JoinQueue DEF AskPermit
<1>3. ASSUME NEW t \in Task, Begin(t) \/ NotFound(t) \/ EndGit(t) PROVE TypeOK'
  BY <1>3 DEF Begin, NotFound, EndGit
<1>4. ASSUME NEW t \in Task, Finish(t) PROVE TypeOK'
  <2> DEFINE q == queue[t[2]][mutex[t]]
  <2>1. HoldsMutex(t)
    BY <1>4 DEF Finish
  <2>2. q # <<>>
    BY <2>1, Zenon DEF HoldsMutex
  <2>3. q \in Seq(Task)
    OBVIOUS
  <2>4. Tail(q) \in Seq(Task)
    BY <2>2, <2>3, HeadTailProperties
  <2>5. queue' \in [Repo -> [Gen -> Seq(Task)]]
    BY <1>4, <2>4 DEF Finish, Unlock
  <2>6. pc' \in [Task -> Stage] /\ mutex' \in [Task -> Gen]
    BY <1>4 DEF Finish, Unlock
  <2>7. due' \in [Repo -> BOOLEAN]
    BY <1>4 DEF Finish
  <2> QED
    BY <1>4, <2>5, <2>6, <2>7 DEF Finish
<1>5. ASSUME NEW t \in Task, Delete(t) PROVE TypeOK'
  BY <1>5 DEF Delete
<1>6. ASSUME NEW t \in Task, Evict(t) PROVE TypeOK'
  BY <1>6 DEF Evict
<1>7. ASSUME NEW t \in Task, Command(t) PROVE TypeOK'
  BY <1>7 DEF Command
<1>8. ASSUME NEW r \in Repo, BecomeDue(r) \/ Add(r) PROVE TypeOK'
  BY <1>8 DEF BecomeDue, Add
<1>9. ASSUME NEW b \in Burst, CheckAll(b) PROVE TypeOK'
  BY <1>9 DEF CheckAll, Tracked
<1>10. ASSUME NEW b \in Burst, Admit(b) PROVE TypeOK'
  BY <1>10 DEF Admit
<1>11. CASE GrantPermit
  BY <1>11, HeadTailProperties DEF GrantPermit
<1>12. CASE Tick
  BY <1>12 DEF Tick
<1>13. CASE UNCHANGED vars
  BY <1>13 DEF vars
<1> QED
  BY <1>1, <1>2, <1>3, <1>4, <1>5, <1>6, <1>7, <1>8, <1>9, <1>10, <1>11, <1>12, <1>13
     DEF Next, Step

-----------------------------------------------------------------------------
(* The semaphore's queue *)

\* The task that the next permit goes to.
LEMMA FirstWaiter ==
  ASSUME TypeOK, WaitInv, waiters # <<>>
  PROVE  Head(waiters) \in Task /\ pc[Head(waiters)] = "permit"
<1>1. waiters \in Seq(Task)
  BY DEF TypeOK
<1>2. 1 \in 1..Len(waiters) /\ Head(waiters) = waiters[1]
  <2>1. Len(waiters) \in Nat \ {0}
    BY <1>1, EmptySeq
  <2> QED
    BY <1>1, <2>1
<1>3. Head(waiters) \in Task
  BY <1>1, HeadTailProperties
<1> QED
  BY <1>2, <1>3 DEF WaitInv

\* The semaphore's queue keeps holding, once each, tasks that wait for a permit.
LEMMA WaitStep ==
  ASSUME TypeOK, WaitInv, BurstInv, [Next]_vars
  PROVE  WaitInv'
<1> USE TaskParts DEF TypeOK
<1>0. Len(waiters) \in Nat /\ \A i \in 1..Len(waiters) : waiters[i] \in Task
  BY LenProperties
<1>1. ASSUME UNCHANGED waiters, \A t \in Task : pc[t] = "permit" => pc'[t] = "permit"
      PROVE  WaitInv'
  BY <1>0, <1>1 DEF WaitInv, Distinct
<1>2. ASSUME NEW t \in Task, AskPermit(t) PROVE WaitInv'
  <2>1. pc[t] = "queued" /\ pc' = [pc EXCEPT ![t] = "permit"] /\ waiters' = Append(waiters, t)
    BY <1>2 DEF AskPermit, MayAskPermit
  <2>2. \A i \in 1..Len(waiters) : waiters[i] # t
    BY <2>1 DEF WaitInv
  <2>3. Distinct(waiters')
    BY <2>1, <2>2, JoinDistinct DEF WaitInv
  <2>4. ASSUME NEW i \in 1..Len(waiters') PROVE pc'[waiters'[i]] = "permit"
    <3>1. CASE i \in 1..Len(waiters)
      <4>1. waiters'[i] = waiters[i]
        BY <2>1, <3>1, JoinQueue
      <4>2. waiters[i] # t /\ waiters[i] \in Task /\ pc[waiters[i]] = "permit"
        BY <1>0, <2>2, <3>1 DEF WaitInv
      <4> QED
        BY <2>1, <4>1, <4>2
    <3>2. CASE i = Len(waiters) + 1
      BY <2>1, <3>2, JoinQueue
    <3>3. Len(waiters') = Len(waiters) + 1
      BY <2>1, JoinQueue
    <3>4. i \in 1..Len(waiters) \/ i = Len(waiters) + 1
      BY <1>0, <3>3
    <3> QED
      BY <3>1, <3>2, <3>4
  <2> QED
    BY <2>3, <2>4 DEF WaitInv
<1>3. CASE GrantPermit
  <2>1. /\ waiters # <<>>
        /\ waiters' = Tail(waiters)
        /\ pc' = [pc EXCEPT ![Head(waiters)] = "ready"]
    BY <1>3 DEF GrantPermit
  <2>2. Distinct(waiters')
    BY <2>1, LeaveDistinct DEF WaitInv
  <2>3. ASSUME NEW i \in 1..Len(waiters') PROVE pc'[waiters'[i]] = "permit"
    <3>1. i + 1 \in 1..Len(waiters) /\ waiters'[i] = waiters[i + 1] /\ waiters'[i] # Head(waiters)
      BY <2>1, LeaveDistinct DEF WaitInv
    <3> QED
      BY <1>0, <2>1, <3>1 DEF WaitInv
  <2> QED
    BY <2>2, <2>3 DEF WaitInv
<1>4. ASSUME NEW t \in Task, Enqueue(t) PROVE WaitInv'
  BY <1>1, <1>4 DEF Enqueue
<1>5. ASSUME NEW t \in Task, Begin(t) \/ NotFound(t) \/ EndGit(t) PROVE WaitInv'
  <2>1. \E s \in Stage : pc[t] # "permit" /\ pc' = [pc EXCEPT ![t] = s] /\ UNCHANGED waiters
    BY <1>5 DEF Begin, NotFound, EndGit, MayBegin, Stage
  <2> QED
    BY <1>1, <2>1
<1>10. ASSUME NEW t \in Task, Finish(t) \/ Delete(t) \/ Evict(t) \/ Command(t) PROVE WaitInv'
  <2>1. \E s \in Stage : pc[t] # "permit" /\ pc' = [pc EXCEPT ![t] = s] /\ UNCHANGED waiters
    BY <1>10 DEF Finish, Unlock, Delete, MayDelete, Evict, Command, Stage
  <2> QED
    BY <1>1, <2>1
<1>6. ASSUME NEW r \in Repo, BecomeDue(r) \/ Add(r) PROVE WaitInv'
  BY <1>1, <1>6 DEF BecomeDue, Add
<1>7. ASSUME NEW b \in Burst, CheckAll(b) \/ Admit(b) PROVE WaitInv'
  BY <1>1, <1>7 DEF CheckAll, Admit, BurstInv
<1>8. CASE Tick
  BY <1>1, <1>8 DEF Tick
<1>9. CASE UNCHANGED vars
  BY <1>1, <1>9 DEF vars
<1> QED
  BY <1>2, <1>3, <1>4, <1>5, <1>6, <1>7, <1>8, <1>9, <1>10 DEF Next, Step

-----------------------------------------------------------------------------
(* The mutexes *)

\* Whoever is past its mutex stays at the head of the mutex's queue: others only
\* join behind it, and only the holder leaves.
LEMMA LockStep ==
  ASSUME TypeOK, WaitInv, BurstInv, LockInv, [Next]_vars
  PROVE  LockInv'
<1> USE TaskParts
<1>1. ASSUME UNCHANGED <<queue, mutex>>,
             \A u \in Task : pc'[u] \in Inside => pc[u] \in Inside \/ HoldsMutex(u)
      PROVE  LockInv'
  BY <1>1 DEF LockInv, HoldsMutex
<1>2. ASSUME NEW t \in Task, Enqueue(t) PROVE LockInv'
  <2> SUFFICES ASSUME NEW u \in Task, pc'[u] \in Inside
               PROVE  HoldsMutex(u)'
    BY DEF LockInv
  <2>1. /\ pc' = [pc EXCEPT ![t] = "queued"]
        /\ mutex' = [mutex EXCEPT ![t] = gen[t[2]]]
        /\ queue' = [queue EXCEPT ![t[2]][gen[t[2]]] = Append(@, t)]
    BY <1>2 DEF Enqueue
  <2>2. u # t /\ pc[u] \in Inside /\ mutex'[u] = mutex[u]
    BY <2>1 DEF TypeOK, Inside
  <2>3. queue[u[2]][mutex[u]] # <<>> /\ Head(queue[u[2]][mutex[u]]) = u
    BY <2>2 DEF LockInv, HoldsMutex
  <2>4. CASE u[2] = t[2] /\ mutex[u] = gen[t[2]]
    <3>1. queue'[u[2]][mutex[u]] = Append(queue[u[2]][mutex[u]], t)
      BY <2>1, <2>4 DEF TypeOK
    <3>2. queue[u[2]][mutex[u]] \in Seq(Task)
      BY DEF TypeOK
    <3> QED
      BY <2>2, <2>3, <3>1, <3>2, JoinQueue DEF HoldsMutex
  <2>5. CASE ~(u[2] = t[2] /\ mutex[u] = gen[t[2]])
    <3>1. queue'[u[2]][mutex[u]] = queue[u[2]][mutex[u]]
      BY <2>1, <2>5 DEF TypeOK
    <3> QED
      BY <2>2, <2>3, <3>1 DEF HoldsMutex
  <2> QED
    BY <2>4, <2>5
<1>3. ASSUME NEW t \in Task, Finish(t) PROVE LockInv'
  <2> SUFFICES ASSUME NEW u \in Task, pc'[u] \in Inside
               PROVE  HoldsMutex(u)'
    BY DEF LockInv
  <2>1. /\ pc' = [pc EXCEPT ![t] = "idle"]
        /\ mutex' = [mutex EXCEPT ![t] = 1]
        /\ queue' = [queue EXCEPT ![t[2]][mutex[t]] = Tail(@)]
        /\ HoldsMutex(t)
    BY <1>3 DEF Finish, Unlock
  <2>2. u # t /\ pc[u] \in Inside /\ mutex'[u] = mutex[u]
    BY <2>1 DEF TypeOK, Inside
  <2>3. queue[u[2]][mutex[u]] # <<>> /\ Head(queue[u[2]][mutex[u]]) = u
    BY <2>2 DEF LockInv, HoldsMutex
  <2>4. ~(u[2] = t[2] /\ mutex[u] = mutex[t])
    BY <2>1, <2>2, <2>3 DEF HoldsMutex
  <2>5. queue'[u[2]][mutex[u]] = queue[u[2]][mutex[u]]
    BY <2>1, <2>4 DEF TypeOK
  <2> QED
    BY <2>2, <2>3, <2>5 DEF HoldsMutex
<1>4. ASSUME NEW t \in Task, AskPermit(t) \/ Begin(t) \/ NotFound(t) \/ EndGit(t) \/ Delete(t)
      PROVE  LockInv'
  <2>1. /\ UNCHANGED <<queue, mutex>>
        /\ pc[t] \in Inside \/ HoldsMutex(t)
        /\ \E s \in Stage : pc' = [pc EXCEPT ![t] = s]
    BY <1>4 DEF AskPermit, MayAskPermit, Begin, NotFound, MayBegin, EndGit, Delete, MayDelete,
                Inside, Stage
  <2> QED
    BY <1>1, <2>1 DEF TypeOK
<1>5. ASSUME NEW t \in Task, Evict(t) PROVE LockInv'
  BY <1>1, <1>5 DEF Evict, TypeOK, Inside
<1>6. ASSUME NEW t \in Task, Command(t) PROVE LockInv'
  BY <1>1, <1>6 DEF Command, TypeOK, Inside
<1>7. ASSUME NEW r \in Repo, BecomeDue(r) \/ Add(r) PROVE LockInv'
  BY <1>1, <1>7 DEF BecomeDue, Add
<1>8. ASSUME NEW b \in Burst, CheckAll(b) \/ Admit(b) PROVE LockInv'
  BY <1>1, <1>8 DEF CheckAll, Admit, TypeOK, Inside
<1>9. CASE GrantPermit
  <2>1. /\ waiters # <<>>
        /\ pc' = [pc EXCEPT ![Head(waiters)] = "ready"]
        /\ UNCHANGED <<queue, mutex>>
    BY <1>9 DEF GrantPermit
  <2>2. Head(waiters) \in Task /\ pc[Head(waiters)] = "permit"
    BY <2>1, FirstWaiter
  <2> QED
    BY <1>1, <2>1, <2>2 DEF TypeOK, Inside
<1>10. CASE Tick
  BY <1>1, <1>10 DEF Tick, TypeOK, Inside
<1>11. CASE UNCHANGED vars
  BY <1>1, <1>11 DEF vars
<1> QED
  BY <1>2, <1>3, <1>4, <1>5, <1>6, <1>7, <1>8, <1>9, <1>10, <1>11 DEF Next, Step

\* Two tasks that hold the mutex of a repo which never had another are one.
LEMMA Exclusive ==
  ASSUME TypeOK, MapInv, NEW t \in Task, NEW u \in Task,
         t[2] = u[2], gen[t[2]] = 1, HoldsMutex(t), HoldsMutex(u)
  PROVE  t = u
<1>1. mutex[t] = 1 /\ mutex[u] = 1
  BY TaskParts DEF TypeOK, MapInv, Gen
<1> QED
  BY <1>1 DEF HoldsMutex

\* Only the removal that deletes a row evicts its mutex, and it does so once.
LEMMA MapStep ==
  ASSUME TypeOK, WaitInv, BurstInv, LockInv, MapInv, [Next]_vars
  PROVE  MapInv'
<1> USE TaskParts
<1>1. ASSUME UNCHANGED <<row, gen, mutex>>,
             \A u \in Task : pc'[u] = "evict" => pc[u] = "evict"
      PROVE  MapInv'
  BY <1>1 DEF MapInv
<1>2. ASSUME NEW t \in Task, Enqueue(t) PROVE MapInv'
  BY <1>2 DEF Enqueue, MapInv, TypeOK, Gen
<1>3. ASSUME NEW t \in Task, Finish(t) PROVE MapInv'
  <2>1. /\ mutex' = [mutex EXCEPT ![t] = 1]
        /\ pc' = [pc EXCEPT ![t] = "idle"]
        /\ UNCHANGED <<row, gen>>
    BY <1>3 DEF Finish, Unlock
  <2>2. \A u \in Task : gen[u[2]] = 1 => mutex'[u] = 1
    BY <2>1 DEF MapInv, TypeOK, Gen
  <2>3. \A u \in Task : pc'[u] = "evict" => pc[u] = "evict"
    BY <2>1 DEF TypeOK
  <2> QED
    BY <2>1, <2>2, <2>3 DEF MapInv
<1>4. ASSUME NEW t \in Task, AskPermit(t) \/ Begin(t) \/ NotFound(t) \/ EndGit(t) PROVE MapInv'
  <2>1. /\ UNCHANGED <<row, gen, mutex>>
        /\ \E s \in {"permit", "git", "record"} : pc' = [pc EXCEPT ![t] = s]
    BY <1>4 DEF AskPermit, Begin, NotFound, EndGit
  <2> QED
    BY <1>1, <2>1 DEF TypeOK
<1>5. ASSUME NEW t \in Task, Delete(t) PROVE MapInv'
  <2>1. CASE row[t[2]] = "tracked"
    <3>1. /\ row' = [row EXCEPT ![t[2]] = "gone"]
          /\ pc' = [pc EXCEPT ![t] = "evict"]
          /\ UNCHANGED <<gen, mutex>>
      BY <1>5, <2>1 DEF Delete
    <3>2. gen[t[2]] = 1
      BY <2>1 DEF MapInv
    <3> QED
      BY <3>1, <3>2 DEF MapInv, TypeOK
  <2>2. CASE row[t[2]] # "tracked"
    BY <1>1, <1>5, <2>2 DEF Delete, TypeOK
  <2> QED
    BY <2>1, <2>2
<1>6. ASSUME NEW t \in Task, Evict(t) PROVE MapInv'
  <2>1. /\ pc[t] = "evict" /\ row[t[2]] = "gone" /\ gen[t[2]] = 1
        /\ gen' = [gen EXCEPT ![t[2]] = @ + 1]
        /\ pc' = [pc EXCEPT ![t] = "record"]
        /\ UNCHANGED <<row, mutex>>
    BY <1>6 DEF Evict, MapInv
  <2>2. \A u \in Task : pc[u] = "evict" /\ u[2] = t[2] => u = t
    BY <2>1, Exclusive DEF LockInv, Inside
  <2>3. \A r \in Repo : gen'[r] = IF r = t[2] THEN 2 ELSE gen[r]
    BY <2>1 DEF TypeOK
  <2>4. \A u \in Task : gen'[u[2]] = 1 => mutex'[u] = 1
    BY <2>1, <2>3 DEF MapInv, TypeOK, Gen
  <2>5. \A u \in Task : pc'[u] = "evict" => pc[u] = "evict" /\ u[2] # t[2]
    BY <2>1, <2>2 DEF TypeOK
  <2> QED
    BY <2>1, <2>3, <2>4, <2>5 DEF MapInv
<1>7. ASSUME NEW t \in Task, Command(t) PROVE MapInv'
  BY <1>1, <1>7 DEF Command, TypeOK
<1>8. ASSUME NEW r \in Repo, BecomeDue(r) \/ Add(r) PROVE MapInv'
  BY <1>8 DEF BecomeDue, Add, MapInv, TypeOK
<1>9. ASSUME NEW b \in Burst, CheckAll(b) \/ Admit(b) PROVE MapInv'
  BY <1>1, <1>9 DEF CheckAll, Admit, TypeOK
<1>10. CASE GrantPermit
  BY <1>1, <1>10, FirstWaiter DEF GrantPermit, TypeOK
<1>11. CASE Tick
  BY <1>1, <1>11 DEF Tick, TypeOK
<1>12. CASE UNCHANGED vars
  BY <1>1, <1>12 DEF vars
<1> QED
  BY <1>2, <1>3, <1>4, <1>5, <1>6, <1>7, <1>8, <1>9, <1>10, <1>11, <1>12 DEF Next, Step

\* A folder is added only while no row has it.
LEMMA RowStep ==
  ASSUME TypeOK, RowInv, [Next]_vars
  PROVE  RowInv'
<1>1. ASSUME NEW r \in Repo, Add(r) PROVE RowInv'
  BY <1>1 DEF Add, RowInv, TypeOK, Tracked
<1>2. ASSUME NEW t \in Task, Delete(t) PROVE RowInv'
  BY <1>2, TaskParts DEF Delete, RowInv, TypeOK
<1>3. ASSUME UNCHANGED row PROVE RowInv'
  BY <1>3 DEF RowInv
<1> QED
  BY <1>1, <1>2, <1>3
     DEF Next, Step, vars, Enqueue, AskPermit, Begin, NotFound, EndGit, Finish, Evict, Command,
         BecomeDue, CheckAll, Admit, GrantPermit, Tick

\* A row is deleted only by a task that holds its mutex, and then no git runs for it.
LEMMA GitStep ==
  ASSUME TypeOK, WaitInv, BurstInv, LockInv, MapInv, GitOnlyTracked, [Next]_vars
  PROVE  GitOnlyTracked'
<1> USE TaskParts
<1>1. ASSUME UNCHANGED row, \A u \in Task : pc'[u] = "git" => pc[u] = "git"
      PROVE  GitOnlyTracked'
  BY <1>1 DEF GitOnlyTracked
<1>2. ASSUME NEW t \in Task, Begin(t) PROVE GitOnlyTracked'
  BY <1>2 DEF Begin, GitOnlyTracked, TypeOK
<1>3. ASSUME NEW t \in Task, Delete(t) PROVE GitOnlyTracked'
  <2>1. CASE row[t[2]] = "tracked"
    <3>1. /\ row' = [row EXCEPT ![t[2]] = "gone"]
          /\ pc' = [pc EXCEPT ![t] = "evict"]
          /\ pc[t] = "queued" /\ HoldsMutex(t)
      BY <1>3, <2>1 DEF Delete, MayDelete
    <3>2. \A u \in Task : pc[u] = "git" => u[2] # t[2]
      BY <2>1, <3>1, Exclusive DEF MapInv, LockInv, Inside
    <3> QED
      BY <3>1, <3>2 DEF GitOnlyTracked, TypeOK
  <2>2. CASE row[t[2]] # "tracked"
    BY <1>1, <1>3, <2>2 DEF Delete, TypeOK
  <2> QED
    BY <2>1, <2>2
<1>4. ASSUME NEW t \in Task,
             Enqueue(t) \/ AskPermit(t) \/ NotFound(t) \/ EndGit(t) \/ Finish(t) \/ Evict(t) \/ Command(t)
      PROVE  GitOnlyTracked'
  <2>1. /\ UNCHANGED row
        /\ \E s \in Stage \ {"git"} : pc' = [pc EXCEPT ![t] = s]
    BY <1>4 DEF Enqueue, AskPermit, NotFound, EndGit, Finish, Unlock, Evict, Command, Stage
  <2> QED
    BY <1>1, <2>1 DEF TypeOK
<1>5. ASSUME NEW r \in Repo, BecomeDue(r) \/ Add(r) PROVE GitOnlyTracked'
  BY <1>5 DEF BecomeDue, Add, GitOnlyTracked, TypeOK
<1>6. ASSUME NEW b \in Burst, CheckAll(b) \/ Admit(b) PROVE GitOnlyTracked'
  BY <1>1, <1>6 DEF CheckAll, Admit, TypeOK
<1>7. CASE GrantPermit
  BY <1>1, <1>7, FirstWaiter DEF GrantPermit, TypeOK
<1>8. CASE Tick
  BY <1>1, <1>8 DEF Tick, TypeOK
<1>9. CASE UNCHANGED vars
  BY <1>1, <1>9 DEF vars
<1> QED
  BY <1>2, <1>3, <1>4, <1>5, <1>6, <1>7, <1>8, <1>9 DEF Next, Step

-----------------------------------------------------------------------------
(* The bursts *)

\* Nothing but its own admission takes a burst's task from "idle".
LEMMA BurstStep ==
  ASSUME TypeOK, WaitInv, BurstInv, [Next]_vars
  PROVE  BurstInv'
<1> USE TaskParts DEF Kind
<1>1. ASSUME UNCHANGED pending,
             \A u \in Task : u[1] \in Burst /\ pc[u] = "idle" => pc'[u] = "idle"
      PROVE  BurstInv'
  <2> SUFFICES ASSUME NEW b \in Burst
               PROVE  /\ \A r \in pending'[b] : pc'[<<b, r>>] = "idle"
                      /\ Cardinality(InFlight(b)') <= MaxInFlight
    BY DEF BurstInv
  <2>1. \A r \in pending'[b] : pc'[<<b, r>>] = "idle"
    BY <1>1 DEF BurstInv, TypeOK
  <2>2. InFlight(b)' \subseteq InFlight(b) /\ InFlight(b) \subseteq Repo
    BY <1>1 DEF InFlight
  <2>3. Cardinality(InFlight(b)') <= Cardinality(InFlight(b))
        /\ Cardinality(InFlight(b)') \in Nat /\ Cardinality(InFlight(b)) \in Nat
    BY <2>2, FS_Subset, FS_CardinalityType, RepoLocksAssumption
  <2> QED
    BY <2>1, <2>3, RepoLocksAssumption DEF BurstInv
<1>2. ASSUME NEW b \in Burst, CheckAll(b) PROVE BurstInv'
  <2>1. /\ UNCHANGED pc
        /\ InFlight(b) = {}
        /\ \E targets \in SUBSET Repo : pending' = [pending EXCEPT ![b] = targets]
    BY <1>2 DEF CheckAll, Tracked
  <2>2. \A r \in Repo : pc[<<b, r>>] = "idle"
    BY <2>1 DEF InFlight
  <2>3. \A c \in Burst : InFlight(c)' = InFlight(c)
    BY <2>1 DEF InFlight
  <2>4. \A c \in Burst : \A r \in pending'[c] : pc'[<<c, r>>] = "idle"
    <3>1. PICK targets \in SUBSET Repo : pending' = [pending EXCEPT ![b] = targets]
      BY <2>1
    <3>2. pending'[b] = targets /\ \A c \in Burst \ {b} : pending'[c] = pending[c]
      BY <3>1 DEF TypeOK
    <3> QED
      BY <2>1, <2>2, <3>2 DEF BurstInv
  <2> QED
    BY <2>3, <2>4 DEF BurstInv
<1>3. ASSUME NEW b \in Burst, Admit(b) PROVE BurstInv'
  <2>1. PICK r \in pending[b] : /\ pending' = [pending EXCEPT ![b] = @ \ {r}]
                                /\ pc' = [pc EXCEPT ![<<b, r>>] = "spawned"]
    BY <1>3 DEF Admit
  <2>2. r \in Repo /\ Cardinality(InFlight(b)) < MaxInFlight
    BY <1>3 DEF Admit, RoomInBurst, TypeOK
  <2>3. \A c \in Burst : \A s \in pending'[c] : pc'[<<c, s>>] = "idle"
    BY <2>1, <2>2 DEF BurstInv, TypeOK
  <2>4. InFlight(b)' = InFlight(b) \cup {r}
    BY <2>1, <2>2 DEF InFlight, TypeOK
  <2>5. \A c \in Burst \ {b} : InFlight(c)' = InFlight(c)
    BY <2>1, <2>2 DEF InFlight, TypeOK
  <2>6. Cardinality(InFlight(b)') <= MaxInFlight
    <3>1. IsFiniteSet(InFlight(b)) /\ Cardinality(InFlight(b)) \in Nat
      BY FS_Subset, FS_CardinalityType, RepoLocksAssumption DEF InFlight
    <3>2. Cardinality(InFlight(b)') <= Cardinality(InFlight(b)) + 1
      BY <2>4, <3>1, FS_AddElement
    <3>3. Cardinality(InFlight(b)') \in Nat
      BY <2>4, <3>1, FS_AddElement, FS_CardinalityType
    <3> QED
      BY <2>2, <3>1, <3>2, <3>3, RepoLocksAssumption
  <2> QED
    BY <2>3, <2>5, <2>6 DEF BurstInv
<1>4. ASSUME NEW t \in Task, Step(t) PROVE BurstInv'
  <2>1. /\ UNCHANGED pending
        /\ pc[t] # "idle"
        /\ \E s \in Stage : pc' = [pc EXCEPT ![t] = s]
    BY <1>4 DEF Step, Enqueue, AskPermit, MayAskPermit, Begin, NotFound, MayBegin, EndGit, Finish,
                Unlock, Delete, MayDelete, Evict, Stage
  <2> QED
    BY <1>1, <2>1 DEF TypeOK
<1>5. ASSUME NEW t \in Task, Command(t) PROVE BurstInv'
  <2>1. /\ UNCHANGED pending
        /\ t[1] \notin Burst
        /\ pc' = [pc EXCEPT ![t] = "spawned"]
    BY <1>5, RepoLocksAssumption DEF Command
  <2> QED
    BY <1>1, <2>1 DEF TypeOK
<1>6. ASSUME NEW r \in Repo, BecomeDue(r) \/ Add(r) PROVE BurstInv'
  BY <1>1, <1>6 DEF BecomeDue, Add
<1>7. CASE GrantPermit
  BY <1>1, <1>7, FirstWaiter DEF GrantPermit, TypeOK
<1>8. CASE Tick
  BY <1>1, <1>8, RepoLocksAssumption DEF Tick, TypeOK
<1>9. CASE UNCHANGED vars
  BY <1>1, <1>9 DEF vars
<1> QED
  BY <1>2, <1>3, <1>4, <1>5, <1>6, <1>7, <1>8, <1>9 DEF Next

-----------------------------------------------------------------------------
(* The permits *)

\* The tasks that hold a permit are the bounded ones that may run git.
LEMMA PermitStep ==
  ASSUME TypeOK, WaitInv, BurstInv, PermitInv, [Next]_vars
  PROVE  PermitInv'
<1> USE TaskParts
<1>0. IsFiniteSet(permitted) /\ Cardinality(permitted) \in Nat
  BY TaskFinite, FS_Subset, FS_CardinalityType DEF TypeOK
<1>1. ASSUME UNCHANGED permitted,
             \A u \in Task : \/ pc'[u] = pc[u]
                             \/ /\ pc[u] \notin {"ready", "git"}
                                /\ pc'[u] \notin {"permit", "ready", "git"}
      PROVE  PermitInv'
  BY <1>1 DEF PermitInv, TypeOK
<1>2. ASSUME NEW t \in Task, AskPermit(t) PROVE PermitInv'
  BY <1>2 DEF AskPermit, MayAskPermit, PermitInv, TypeOK
<1>3. CASE GrantPermit
  <2> DEFINE h == Head(waiters)
  <2>1. /\ h \in Task /\ pc[h] = "permit"
        /\ pc' = [pc EXCEPT ![h] = "ready"]
        /\ permitted' = permitted \cup {h}
        /\ Cardinality(permitted) < Permits
    BY <1>3, FirstWaiter DEF GrantPermit, PermitFree
  <2> HIDE DEF h
  <2>2. Cardinality(permitted') <= Permits
    <3>1. \/ Cardinality(permitted') = Cardinality(permitted)
          \/ Cardinality(permitted') = Cardinality(permitted) + 1
      BY <1>0, <2>1, FS_AddElement
    <3> QED
      BY <1>0, <2>1, <3>1, RepoLocksAssumption
  <2> QED
    BY <2>1, <2>2 DEF PermitInv, TypeOK
<1>4. ASSUME NEW t \in Task, Begin(t) PROVE PermitInv'
  <2>1. /\ pc' = [pc EXCEPT ![t] = "git"]
        /\ UNCHANGED permitted
        /\ \/ t[1] \in Bounded /\ pc[t] = "ready"
           \/ t[1] \notin Bounded /\ pc[t] = "queued"
    BY <1>4, RepoLocksAssumption DEF Begin, MayBegin, Bounded
  <2> QED
    BY <2>1 DEF PermitInv, TypeOK
<1>5. ASSUME NEW t \in Task, NotFound(t) \/ EndGit(t) PROVE PermitInv'
  <2>1. pc' = [pc EXCEPT ![t] = "record"] /\ permitted' = permitted \ {t}
    BY <1>5 DEF NotFound, EndGit
  <2>2. Cardinality(permitted') <= Cardinality(permitted) /\ Cardinality(permitted') \in Nat
    BY <1>0, <2>1, FS_Subset, FS_CardinalityType
  <2>3. Cardinality(permitted') <= Permits
    BY <1>0, <2>2, RepoLocksAssumption DEF PermitInv
  <2> QED
    BY <2>1, <2>3 DEF PermitInv, TypeOK
<1>6. ASSUME NEW t \in Task,
             Enqueue(t) \/ Finish(t) \/ Delete(t) \/ Evict(t) \/ Command(t)
      PROVE  PermitInv'
  <2>1. /\ UNCHANGED permitted
        /\ pc[t] \notin {"ready", "git"}
        /\ \E s \in Stage \ {"permit", "ready", "git"} : pc' = [pc EXCEPT ![t] = s]
    BY <1>6 DEF Enqueue, Finish, Unlock, Delete, MayDelete, Evict, Command, Stage
  <2> QED
    BY <1>1, <2>1 DEF TypeOK
<1>7. ASSUME NEW r \in Repo, BecomeDue(r) \/ Add(r) PROVE PermitInv'
  BY <1>1, <1>7 DEF BecomeDue, Add
<1>8. ASSUME NEW b \in Burst, CheckAll(b) \/ Admit(b) PROVE PermitInv'
  <2>1. CASE CheckAll(b)
    BY <1>1, <2>1 DEF CheckAll
  <2>2. CASE Admit(b)
    <3>1. /\ UNCHANGED permitted
          /\ \E r \in Repo : pc[<<b, r>>] = "idle" /\ pc' = [pc EXCEPT ![<<b, r>>] = "spawned"]
      BY <2>2 DEF Admit, BurstInv, TypeOK
    <3> QED
      BY <1>1, <3>1 DEF TypeOK
  <2> QED
    BY <1>8, <2>1, <2>2
<1>9. CASE Tick
  BY <1>1, <1>9 DEF Tick, TypeOK
<1>10. CASE UNCHANGED vars
  BY <1>1, <1>10 DEF vars
<1> QED
  BY <1>2, <1>3, <1>4, <1>5, <1>6, <1>7, <1>8, <1>9, <1>10 DEF Next, Step

-----------------------------------------------------------------------------
(* The inductive invariant *)

IInv ==
    /\ TypeOK
    /\ WaitInv
    /\ BurstInv
    /\ LockInv
    /\ MapInv
    /\ RowInv
    /\ GitOnlyTracked
    /\ PermitInv

\* It holds of a program that has just started.
LEMMA InvInit == Init => IInv
<1> SUFFICES ASSUME Init PROVE IInv
  OBVIOUS
<1> USE TaskParts, RepoLocksAssumption
<1>1. TypeOK
  <2>1. <<>> \in Seq(Task)
    BY EmptySeq
  <2> QED
    BY <2>1 DEF Init, TypeOK, Gen, Stage
<1>2. WaitInv
  <2>1. Len(waiters) = 0 /\ 1..0 = {}
    BY EmptySeq DEF Init
  <2> QED
    BY <2>1 DEF WaitInv, Distinct
<1>3. BurstInv
  <2>1. \A b \in Burst : InFlight(b) = {}
    BY DEF Init, InFlight, Kind
  <2>2. \A b \in Burst : pending[b] = {}
    BY DEF Init
  <2>3. \A b \in Burst : Cardinality(InFlight(b)) <= MaxInFlight
    BY <2>1, FS_EmptySet
  <2> QED
    BY <2>2, <2>3 DEF BurstInv
<1>4. LockInv /\ MapInv /\ RowInv /\ GitOnlyTracked
  BY DEF Init, LockInv, Inside, MapInv, RowInv, GitOnlyTracked
<1>5. PermitInv
  BY FS_EmptySet DEF Init, PermitInv
<1> QED
  BY <1>1, <1>2, <1>3, <1>4, <1>5 DEF IInv

\* And every step keeps it.
LEMMA InvStep == IInv /\ [Next]_vars => IInv'
<1> SUFFICES ASSUME IInv, [Next]_vars PROVE IInv'
  OBVIOUS
<1> USE DEF IInv
<1>1. TypeOK'
  BY TypeStep DEF MapInv
<1> QED
  BY <1>1, WaitStep, BurstStep, LockStep, MapStep, RowStep, GitStep, PermitStep

\* The inductive invariant holds in every state that jobs, bursts, commands and removals
\* can reach together.
THEOREM Invariant == Spec => []IInv
  BY InvInit, InvStep, PTL DEF Spec

\* The variables keep their types; in particular no id ever gets a third mutex.
THEOREM TypeCorrect == Spec => []TypeOK
<1>1. IInv => TypeOK
  BY DEF IInv
<1> QED
  BY <1>1, Invariant, PTL

-----------------------------------------------------------------------------
(* Safety *)

\* Two tasks that run git in one working tree are the same task.
LEMMA OneTaskPerTree ==
  ASSUME IInv, NEW t \in Task, NEW u \in Task, HoldsMutex(t), HoldsMutex(u),
         row[t[2]] = "tracked", row[u[2]] = "tracked", TreeOf[t[2]] = TreeOf[u[2]]
  PROVE  t = u
<1>1. t[2] = u[2]
  BY TaskParts DEF IInv, RowInv
<1>2. gen[t[2]] = 1
  BY TaskParts DEF IInv, MapInv
<1> QED
  BY <1>1, <1>2, Exclusive DEF IInv

\* Git never runs twice in one working tree, for any number of repos, commands and
\* bursts: run_job, repo_check_now, repo_update_now, check_all_enabled and
\* repo_remove, with the lock map's eviction between them.
THEOREM TreesExclusive == Spec => []TreeExclusion
<1>1. IInv => TreeExclusion
  BY OneTaskPerTree DEF IInv, LockInv, Inside, GitOnlyTracked, TreeExclusion
<1> QED
  BY <1>1, Invariant, PTL

\* Git never runs for a repo whose row is gone.
THEOREM GitNeedsRow == Spec => []GitOnlyTracked
<1>1. IInv => GitOnlyTracked
  BY DEF IInv
<1> QED
  BY <1>1, Invariant, PTL

\* A permit is only ever held, or waited for, under the repo's mutex.
THEOREM PermitsUnderMutex == Spec => []PermitUnderMutex
<1>1. IInv => PermitUnderMutex
  BY DEF IInv, PermitInv, LockInv, Inside, PermitUnderMutex, TypeOK
<1> QED
  BY <1>1, Invariant, PTL

\* Scheduled jobs and bursts together run git in at most Permits trees.
THEOREM GitBounded == Spec => []BoundedGit
<1>1. IInv => BoundedGit
  <2> SUFFICES ASSUME IInv PROVE BoundedGit
    OBVIOUS
  <2> DEFINE running == {t \in Task : t[1] \in Bounded /\ pc[t] = "git"}
  <2>1. running \subseteq permitted
    BY DEF IInv, PermitInv
  <2>2. IsFiniteSet(permitted)
    BY TaskFinite, FS_Subset DEF IInv, TypeOK
  <2>3. /\ Cardinality(running) <= Cardinality(permitted)
        /\ Cardinality(running) \in Nat /\ Cardinality(permitted) \in Nat
    BY <2>1, <2>2, FS_Subset, FS_CardinalityType
  <2>4. Cardinality(permitted) <= Permits
    BY DEF IInv, PermitInv
  <2>5. Cardinality(running) <= Permits
    BY <2>3, <2>4, RepoLocksAssumption
  <2> QED
    BY <2>5 DEF BoundedGit
<1> QED
  BY <1>1, Invariant, PTL

\* A burst never holds more repos' mutexes than the tasks it may have in flight.
THEOREM BurstBounded == Spec => []BurstFootprint
<1>1. IInv => BurstFootprint
  <2> SUFFICES ASSUME IInv, NEW b \in Burst
               PROVE  Cardinality({r \in Repo : pc[<<b, r>>] # "idle" /\ HoldsMutex(<<b, r>>)})
                        <= MaxInFlight
    BY DEF BurstFootprint
  <2> DEFINE held == {r \in Repo : pc[<<b, r>>] # "idle" /\ HoldsMutex(<<b, r>>)}
  <2>1. held \subseteq InFlight(b) /\ IsFiniteSet(InFlight(b))
    BY RepoLocksAssumption, FS_Subset DEF InFlight
  <2>2. /\ Cardinality(held) <= Cardinality(InFlight(b))
        /\ Cardinality(held) \in Nat /\ Cardinality(InFlight(b)) \in Nat
    BY <2>1, FS_Subset, FS_CardinalityType
  <2>3. Cardinality(InFlight(b)) <= MaxInFlight
    BY DEF IInv, BurstInv
  <2> HIDE DEF held
  <2>4. Cardinality(held) <= MaxInFlight
    BY <2>2, <2>3, RepoLocksAssumption
  <2> QED
    BY <2>4 DEF held
<1> QED
  BY <1>1, Invariant, PTL

-----------------------------------------------------------------------------
(* The refinement *)

\* No step but Begin and EndGit starts or ends git work.
LEMMA OthersKeepBusy ==
  ASSUME IInv, [Next]_vars, \A t \in Task : ~Begin(t) /\ ~EndGit(t)
  PROVE  Busy' = Busy
<1> USE TaskParts
<1>1. ASSUME \A u \in Task : pc'[u] = "git" <=> pc[u] = "git"
      PROVE  Busy' = Busy
  BY <1>1 DEF Busy
<1>2. ASSUME NEW t \in Task, Step(t) \/ Command(t) PROVE Busy' = Busy
  <2>1. /\ pc[t] # "git"
        /\ \E s \in Stage \ {"git"} : pc' = [pc EXCEPT ![t] = s]
    BY <1>2 DEF Step, Enqueue, AskPermit, MayAskPermit, NotFound, MayBegin, Finish, Unlock,
                Delete, MayDelete, Evict, Command, Stage
  <2> QED
    BY <1>1, <2>1 DEF IInv, TypeOK
<1>3. ASSUME NEW r \in Repo, BecomeDue(r) \/ Add(r) PROVE Busy' = Busy
  BY <1>1, <1>3 DEF BecomeDue, Add
<1>4. ASSUME NEW b \in Burst, CheckAll(b) PROVE Busy' = Busy
  BY <1>1, <1>4 DEF CheckAll
<1>5. ASSUME NEW b \in Burst, Admit(b) PROVE Busy' = Busy
  <2>1. \E r \in Repo : pc[<<b, r>>] = "idle" /\ pc' = [pc EXCEPT ![<<b, r>>] = "spawned"]
    BY <1>5 DEF Admit, IInv, BurstInv, TypeOK
  <2> QED
    BY <1>1, <2>1 DEF IInv, TypeOK
<1>6. CASE GrantPermit
  BY <1>1, <1>6, FirstWaiter DEF GrantPermit, IInv, TypeOK
<1>7. CASE Tick
  BY <1>1, <1>7 DEF Tick, IInv, TypeOK
<1>8. CASE UNCHANGED vars
  BY <1>1, <1>8 DEF vars
<1> QED
  BY <1>2, <1>3, <1>4, <1>5, <1>6, <1>7, <1>8 DEF Next

\* A task starts git in a tree that nobody works in and, if it is capped, under the cap.
LEMMA BeginStarts ==
  ASSUME IInv, NEW t \in Task, Begin(t)
  PROVE  Abstract!Start(TreeOf[t[2]], t) /\ t \in Busy'[TreeOf[t[2]]]
<1> DEFINE w == TreeOf[t[2]]
<1>1. /\ pc' = [pc EXCEPT ![t] = "git"]
      /\ pc[t] # "git"
      /\ row[t[2]] = "tracked"
      /\ HoldsMutex(t)
  BY DEF Begin, MayBegin
<1>2. w \in Tree
  BY TaskParts, RepoLocksAssumption
<1>3. \A u \in Task : pc[u] = "git" => TreeOf[u[2]] # w
  BY <1>1, OneTaskPerTree DEF IInv, LockInv, Inside, GitOnlyTracked
<1>4. Busy[w] = {}
  BY <1>2, <1>3 DEF Busy
<1>5. ASSUME t \in CappedTask PROVE Cardinality(Abstract!Running \cap CappedTask) < Permits
  <2> DEFINE running == Abstract!Running \cap CappedTask
  <2>1. running \subseteq permitted \ {t}
    BY <1>1 DEF Abstract!Running, Busy, CappedTask, IInv, PermitInv
  <2>2. t \in permitted
    BY <1>5, RepoLocksAssumption DEF Begin, MayBegin, CappedTask, Bounded, IInv, PermitInv
  <2>3. IsFiniteSet(permitted) /\ Cardinality(permitted) \in Nat
    BY TaskFinite, FS_Subset, FS_CardinalityType DEF IInv, TypeOK
  <2>4. IsFiniteSet(permitted \ {t}) /\ Cardinality(permitted \ {t}) = Cardinality(permitted) - 1
    BY <2>2, <2>3, FS_RemoveElement
  <2>5. Cardinality(running) <= Cardinality(permitted \ {t}) /\ Cardinality(running) \in Nat
    BY <2>1, <2>4, FS_Subset, FS_CardinalityType
  <2>6. Cardinality(permitted) <= Permits
    BY DEF IInv, PermitInv
  <2> HIDE DEF running
  <2>7. Cardinality(running) < Permits
    BY <2>3, <2>4, <2>5, <2>6, RepoLocksAssumption
  <2> QED
    BY <2>7 DEF running
<1>6. Busy' = [Busy EXCEPT ![w] = {t}]
  <2>1. \A u \in Task : pc'[u] = "git" <=> pc[u] = "git" \/ u = t
    BY <1>1 DEF IInv, TypeOK
  <2>2. \A v \in Tree : Busy'[v] = IF v = w THEN {t} ELSE Busy[v]
    BY <1>3, <2>1 DEF Busy
  <2> QED
    BY <2>2 DEF Busy
<1> QED
  <2>1. \A S : Abstract!Cardinality(S) = Cardinality(S)
    BY DEF Abstract!Cardinality, Cardinality
  <2>2. Abstract!Start(w, t)
    BY <1>4, <1>5, <1>6, <2>1, Zenon DEF Abstract!Start
  <2>3. t \in Busy'[w]
    BY <1>2, <1>6 DEF Busy
  <2> QED
    BY <2>2, <2>3

\* The end of git work frees the tree.
LEMMA EndGitStops ==
  ASSUME IInv, NEW t \in Task, EndGit(t)
  PROVE  Abstract!Stop(TreeOf[t[2]])
<1> DEFINE w == TreeOf[t[2]]
<1>1. pc[t] = "git" /\ pc' = [pc EXCEPT ![t] = "record"] /\ w \in Tree
  BY TaskParts, RepoLocksAssumption DEF EndGit
<1>2. \A u \in Task : pc[u] = "git" /\ TreeOf[u[2]] = w => u = t
  BY <1>1, OneTaskPerTree DEF IInv, LockInv, Inside, GitOnlyTracked
<1>3. Busy[w] # {}
  BY <1>1 DEF Busy
<1>4. Busy' = [Busy EXCEPT ![w] = {}]
  <2>1. \A u \in Task : pc'[u] = "git" <=> pc[u] = "git" /\ u # t
    BY <1>1 DEF IInv, TypeOK
  <2>2. \A v \in Tree : Busy'[v] = IF v = w THEN {} ELSE Busy[v]
    BY <1>2, <2>1 DEF Busy
  <2> QED
    BY <2>2 DEF Busy
<1> QED
  BY <1>3, <1>4 DEF Abstract!Stop

\* The lock map, its eviction and the semaphore implement working trees that serve
\* one task at a time under a cap.
THEOREM Implements == Spec => ServesWorkingTrees
<1>1. Init => Abstract!Init
  BY DEF Init, Abstract!Init, Busy
<1>2. IInv /\ [Next]_vars => [Abstract!Next]_Busy
  <2> SUFFICES ASSUME IInv, [Next]_vars PROVE Abstract!Next \/ Busy' = Busy
    OBVIOUS
  <2>1. \A t \in Task : TreeOf[t[2]] \in Tree
    BY TaskParts, RepoLocksAssumption
  <2>2. ASSUME NEW t \in Task, Begin(t) PROVE Abstract!Next
    <3>1. Abstract!Start(TreeOf[t[2]], t) /\ t \in Task \cap Busy'[TreeOf[t[2]]]
      BY <2>2, BeginStarts
    <3> QED
      BY <2>1, <3>1 DEF Abstract!Next
  <2>3. ASSUME NEW t \in Task, EndGit(t) PROVE Abstract!Next
    BY <2>1, <2>3, EndGitStops DEF Abstract!Next
  <2> QED
    BY <2>2, <2>3, OthersKeepBusy
<1> QED
  BY <1>1, <1>2, Invariant, PTL DEF Spec, ServesWorkingTrees, Abstract!Spec
=============================================================================
