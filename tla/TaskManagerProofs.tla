------------------------- MODULE TaskManagerProofs -------------------------
(***************************************************************************)
(* Machine-checked theorems about the durable task manager, for any finite *)
(* set of tasks, any number of workers and any number of crashes, failed   *)
(* writes and cancellations.                                               *)
(*                                                                         *)
(* The queue and the owners of tasks are kept by IInv; on it rest WakeShape*)
(* (no wake-up is lost), AInv (answers to a cancel), DInv (files against   *)
(* memory), EInv (a budget of executions) and, for the refinement of       *)
(* JobQueue, JInv.                                                         *)
(***************************************************************************)
EXTENDS TaskManagerJobs, FiniteSetTheorems, SequenceTheorems, TLAPS

-----------------------------------------------------------------------------
(* Facts about the sequences the queue is built from.                      *)

\* An enumeration of a finite set (SetToSeqs, the order in which load_state
\* appends the ids missing from the queue file) lists each element once.
LEMMA EnumerationLemma ==
  ASSUME NEW S, IsFiniteSet(S), NEW f \in SetToSeqs(S)
  PROVE  /\ f \in Seq(S)
         /\ DOMAIN f = 1..Cardinality(S)
         /\ Range(f) = S
         /\ IsInjective(f)
<1> DEFINE n == Cardinality(S)
<1>1. n \in Nat
  BY FS_CardinalityType
<1>2. f \in [1..n -> S] /\ \A i, j \in 1..n : i # j => f[i] # f[j]
  BY DEF SetToSeqs
<1>3. IsFiniteSet(1..n) /\ Cardinality(1..n) = n
  BY <1>1, FS_Interval
<1>4. IsInjective(f)
  BY <1>2 DEF IsInjective
<1>5. f \in Injection(1..n, S)
  BY <1>2, <1>4 DEF Injection
<1>6. f \in Surjection(1..n, S)
  BY <1>3, <1>5, FS_Injection
<1>7. Range(f) = S
  BY <1>2, <1>6 DEF Surjection, Range
<1>8. f \in Seq(S)
  BY <1>1, <1>2
<1> QED BY <1>2, <1>4, <1>7, <1>8

\* What VecDeque::retain leaves: the queue's elements that are in S, and no
\* duplicate where there was none.
LEMMA RetainedLemma ==
  ASSUME NEW T, NEW q \in Seq(T), NEW S, NEW r \in Retained(q, S)
  PROVE  /\ r \in Seq(T)
         /\ Range(r) = Range(q) \cap S
         /\ IsInjective(q) => IsInjective(r)
<1> DEFINE I == {i \in DOMAIN q : q[i] \in S}
<1>1. DOMAIN q = 1..Len(q) /\ Len(q) \in Nat /\ \A i \in DOMAIN q : q[i] \in T
  BY LenProperties
<1>2. IsFiniteSet(I)
  <2>1. IsFiniteSet(DOMAIN q)
    BY <1>1, FS_Interval
  <2> QED BY <2>1, FS_Subset
<1>3. PICK g \in Increasing(I) : r = [k \in DOMAIN g |-> q[g[k]]]
  BY DEF Retained
<1>4. g \in SetToSeqs(I)
  BY DEF Increasing
<1>5. g \in Seq(I) /\ DOMAIN g = 1..Cardinality(I) /\ Range(g) = I /\ IsInjective(g)
  BY <1>2, <1>4, EnumerationLemma
<1>6. Cardinality(I) \in Nat
  BY <1>2, FS_CardinalityType
<1>7. \A k \in DOMAIN g : g[k] \in I
  BY <1>5 DEF Range
<1>8. r \in Seq(T)
  <2> DEFINE n == Cardinality(I)
  <2>1. n \in Nat /\ DOMAIN g = 1..n
    BY <1>5, <1>6
  <2> HIDE DEF n
  <2>2. r \in [1..n -> T]
    BY <1>1, <1>3, <1>7, <2>1
  <2> QED BY <2>1, <2>2
<1>9. Range(r) = Range(q) \cap S
  <2>1. \A x \in Range(r) : x \in Range(q) \cap S
    BY <1>3, <1>7 DEF Range
  <2>2. \A x \in Range(q) \cap S : x \in Range(r)
    BY <1>3, <1>5 DEF Range
  <2> QED BY <2>1, <2>2
<1>10. IsInjective(q) => IsInjective(r)
  BY <1>3, <1>5, <1>7 DEF IsInjective
<1> QED BY <1>8, <1>9, <1>10

\* Joining two duplicate-free sequences with nothing in common.
LEMMA ConcatLemma ==
  ASSUME NEW T, NEW a \in Seq(T), NEW b \in Seq(T)
  PROVE  /\ a \o b \in Seq(T)
         /\ Range(a \o b) = Range(a) \cup Range(b)
         /\ (IsInjective(a) /\ IsInjective(b) /\ Range(a) \cap Range(b) = {})
              => IsInjective(a \o b)
<1> DEFINE c == a \o b
<1>1. /\ Len(a) \in Nat /\ DOMAIN a = 1..Len(a)
      /\ Len(b) \in Nat /\ DOMAIN b = 1..Len(b)
  BY LenProperties
<1>2. /\ c \in Seq(T)
      /\ Len(c) = Len(a) + Len(b)
      /\ \A i \in 1..(Len(a) + Len(b)) :
           c[i] = IF i <= Len(a) THEN a[i] ELSE b[i - Len(a)]
  BY ConcatProperties
<1>3. DOMAIN c = 1..(Len(a) + Len(b))
  BY <1>2, LenProperties
<1> HIDE DEF c
<1>4. Range(c) = Range(a) \cup Range(b)
  <2>1. ASSUME NEW i \in DOMAIN c PROVE c[i] \in Range(a) \cup Range(b)
    <3>1. CASE i <= Len(a)
      BY <3>1, <1>1, <1>2, <1>3 DEF Range
    <3>2. CASE ~(i <= Len(a))
      <4>1. i - Len(a) \in DOMAIN b /\ c[i] = b[i - Len(a)]
        BY <3>2, <1>1, <1>2, <1>3
      <4> QED BY <4>1 DEF Range
    <3> QED BY <3>1, <3>2
  <2>2. ASSUME NEW i \in DOMAIN a PROVE a[i] \in Range(c)
    <3>1. i \in DOMAIN c /\ c[i] = a[i]
      BY <1>1, <1>2, <1>3
    <3> QED BY <3>1 DEF Range
  <2>3. ASSUME NEW i \in DOMAIN b PROVE b[i] \in Range(c)
    <3>1. i + Len(a) \in DOMAIN c /\ c[i + Len(a)] = b[i]
      BY <1>1, <1>2, <1>3
    <3> QED BY <3>1 DEF Range
  <2> QED BY <2>1, <2>2, <2>3 DEF Range
<1>5. ASSUME IsInjective(a), IsInjective(b), Range(a) \cap Range(b) = {}
      PROVE  IsInjective(c)
  <2> SUFFICES ASSUME NEW i \in DOMAIN c, NEW j \in DOMAIN c, c[i] = c[j]
               PROVE  i = j
    BY DEF IsInjective
  <2>1. \A k \in DOMAIN c : k <= Len(a) => k \in DOMAIN a /\ c[k] = a[k]
    BY <1>1, <1>2, <1>3
  <2>2. \A k \in DOMAIN c : ~(k <= Len(a)) =>
           k - Len(a) \in DOMAIN b /\ c[k] = b[k - Len(a)]
    BY <1>1, <1>2, <1>3
  <2>3. \A k \in DOMAIN a, l \in DOMAIN b : a[k] # b[l]
    BY <1>5 DEF Range
  <2>4. CASE i <= Len(a) /\ j <= Len(a)
    BY <2>1, <2>4, <1>5 DEF IsInjective
  <2>5. CASE ~(i <= Len(a)) /\ ~(j <= Len(a))
    <3>1. i - Len(a) = j - Len(a)
      BY <2>2, <2>5, <1>5 DEF IsInjective
    <3> QED BY <3>1, <1>1, <1>3
  <2>6. CASE i <= Len(a) /\ ~(j <= Len(a))
    BY <2>1, <2>2, <2>3, <2>6
  <2>7. CASE ~(i <= Len(a)) /\ j <= Len(a)
    BY <2>1, <2>2, <2>3, <2>7
  <2> QED BY <2>4, <2>5, <2>6, <2>7
<1> QED BY <1>2, <1>4, <1>5 DEF c

\* push_back: one element joins at the end.
LEMMA AppendLemma ==
  ASSUME NEW T, NEW q \in Seq(T), NEW t \in T
  PROVE  /\ Append(q, t) \in Seq(T)
         /\ Range(Append(q, t)) = Range(q) \cup {t}
         /\ (IsInjective(q) /\ t \notin Range(q)) => IsInjective(Append(q, t))
<1>1. /\ Len(q) \in Nat /\ DOMAIN q = 1..Len(q)
      /\ Append(q, t) \in Seq(T)
      /\ DOMAIN Append(q, t) = 1..(Len(q) + 1)
      /\ \A i \in 1..Len(q) : Append(q, t)[i] = q[i]
      /\ Append(q, t)[Len(q) + 1] = t
  OBVIOUS
<1> DEFINE a == Append(q, t)
<1> HIDE DEF a
<1>2. Range(a) = Range(q) \cup {t}
  <2>1. \A x \in Range(a) : x \in Range(q) \cup {t}
    BY <1>1 DEF Range, a
  <2>2. \A x \in Range(q) : x \in Range(a)
    BY <1>1 DEF Range, a
  <2>3. t \in Range(a)
    BY <1>1 DEF Range, a
  <2> QED BY <2>1, <2>2, <2>3
<1>3. (IsInjective(q) /\ t \notin Range(q)) => IsInjective(a)
  BY <1>1 DEF IsInjective, Range, a
<1> QED BY <1>1, <1>2, <1>3 DEF a

\* pop_front: of a duplicate-free queue, exactly the head is gone.
LEMMA PopLemma ==
  ASSUME NEW T, NEW q \in Seq(T), q # <<>>
  PROVE  /\ Head(q) \in T /\ Head(q) \in Range(q)
         /\ Tail(q) \in Seq(T)
         /\ IsInjective(q) => IsInjective(Tail(q)) /\ Range(Tail(q)) = Range(q) \ {Head(q)}
<1>1. /\ Len(q) \in Nat /\ Len(q) > 0 /\ DOMAIN q = 1..Len(q)
      /\ Head(q) = q[1]
      /\ Tail(q) \in Seq(T)
      /\ DOMAIN Tail(q) = 1..(Len(q) - 1)
      /\ \A i \in 1..(Len(q) - 1) : Tail(q)[i] = q[i + 1]
      /\ \A i \in DOMAIN q : q[i] \in T
  OBVIOUS
<1> DEFINE r == Tail(q)
<1> HIDE DEF r
<1>2. Head(q) \in T /\ Head(q) \in Range(q)
  BY <1>1 DEF Range
<1>3. ASSUME IsInjective(q) PROVE IsInjective(r)
  BY <1>1, <1>3 DEF IsInjective, r
<1>4. ASSUME IsInjective(q) PROVE Range(r) = Range(q) \ {Head(q)}
  <2>1. ASSUME NEW i \in DOMAIN r PROVE r[i] \in Range(q) \ {Head(q)}
    <3>1. i + 1 \in DOMAIN q /\ r[i] = q[i + 1] /\ 1 \in DOMAIN q
      BY <1>1 DEF r
    <3>2. q[i + 1] # q[1]
      BY <3>1, <1>1, <1>4 DEF IsInjective, r
    <3> QED BY <3>1, <3>2, <1>1 DEF Range
  <2>2. ASSUME NEW i \in DOMAIN q, q[i] # Head(q) PROVE q[i] \in Range(r)
    <3>1. i # 1 /\ i \in 1..Len(q)
      BY <2>2, <1>1
    <3>2. i - 1 \in DOMAIN r /\ r[i - 1] = q[i]
      BY <3>1, <1>1 DEF r
    <3> QED BY <3>2 DEF Range
  <2> QED BY <2>1, <2>2 DEF Range
<1> QED BY <1>1, <1>2, <1>3, <1>4 DEF r

-----------------------------------------------------------------------------
(* The inductive invariant.  QueueExact and RunningIsOwned are not         *)
(* inductive on their own: replaying the files needs a duplicate-free      *)
(* queue file, promoting a staged task needs that its id is still unused,  *)
(* and both need to know what a stopped or booting process looks like.     *)

ProcessShape ==
  /\ proc # "up" => running_cancel = {} /\ \A w \in Workers : pc[w] = "off"
  /\ proc = "down" => lock = Free /\ \A t \in Tasks : task[t] = Absent
  /\ proc = "boot" <=> lock.op = "boot"

AddShape ==
  lock.op \in {"add_queue", "add_promote"} =>
    lock.task \in Tasks /\ proc = "up" /\ task[lock.task] = Absent

OwnerShape == \A w \in Workers : pc[w] \in OwnerPlaces => current[w] \in Tasks

DiskQueueShape == IsInjective(diskQueue)

IInv == /\ TypeOK /\ ProcessShape /\ AddShape /\ OwnerShape /\ DiskQueueShape
        /\ QueueExact /\ RunningIsOwned

\* The record held by the mutex, as TypeOK states it.
LockType == [op : LockOp, task : Tasks \cup {NoTask}, reply : Reply,
             todo : SUBSET (Tasks \cup {QueueFile})]

\* A new process holds nothing and owns nothing.
LEMMA InitInv == Init => IInv
<1> SUFFICES ASSUME Init PROVE IInv
  OBVIOUS
<1>1. TypeOK
  <2>1. lock \in LockType
    BY DEF Init, Free, LockType, LockOp, Reply
  <2>2. queue \in Seq(Tasks) /\ diskQueue \in Seq(Tasks)
    BY DEF Init
  <2>3. task \in [Tasks -> TaskRecord] /\ diskTask \in [Tasks -> TaskRecord]
    BY DEF Init, TaskRecord, Absent
  <2> QED BY <2>1, <2>2, <2>3 DEF Init, TypeOK, LockType, Place
<1>2. ProcessShape /\ AddShape /\ OwnerShape /\ QueueExact
  BY DEF Init, ProcessShape, AddShape, OwnerShape, OwnerPlaces, QueueExact, Free, Absent
<1>3. DiskQueueShape
  BY DEF Init, DiskQueueShape, IsInjective
<1>4. RunningIsOwned
  BY DEF Init, RunningIsOwned, Owns, OwnerPlaces, Absent
<1> QED BY <1>1, <1>2, <1>3, <1>4 DEF IInv

\* A step that changes neither the records, the queue, the tokens nor who
\* owns what preserves the invariant as soon as it preserves the rest.
LEMMA FrameLemma ==
  ASSUME IInv, TypeOK', ProcessShape', AddShape', OwnerShape', DiskQueueShape',
         UNCHANGED <<task, queue, running_cancel>>, proc' # "down" => proc # "down",
         \A w \in Workers, t \in Tasks : Owns(w, t)' <=> Owns(w, t)
  PROVE  IInv'
<1>1. QueueExact'
  BY DEF IInv, QueueExact, QueuedIn
<1>2. RunningIsOwned'
  BY DEF IInv, RunningIsOwned
<1> QED BY <1>1, <1>2 DEF IInv

\* The steps that only write files, pass the mutex on, move a worker or signal.
LEMMA FrameStepInv ==
  ASSUME IInv
  PROVE  /\ PersistQueue \/ PersistFails \/ BootDone \/ Shutdown \/ AddQueue
            \/ AddQueueFails \/ AddPromoteFails \/ CancelReply \/ UpdateReply => IInv'
         /\ \A t \in Tasks : PersistTask(t) \/ AddStage(t) \/ AddNotify(t)
                             \/ CancelFinished(t) \/ UpdateTask(t) => IInv'
         /\ \A w \in Workers : WorkerTop(w) \/ WorkerFindsEmpty(w) \/ WorkerStarted(w)
                               \/ WorkerWait(w) \/ WorkerSeesShutdown(w) \/ Interrupt(w)
                               \/ ExecutorPanics(w) \/ WorkerFinished(w) => IInv'
         /\ \A w \in Workers, outcome \in Outcome : ExecutionEnds(w, outcome) => IInv'
<1> USE DEF IInv, mem, disk, workers, signals, history
<1>1. ASSUME PersistQueue PROVE IInv'
  <2>1. TypeOK'
    BY <1>1 DEF PersistQueue, TypeOK
  <2>2. ProcessShape' /\ AddShape' /\ OwnerShape'
    BY <1>1 DEF PersistQueue, ProcessShape, AddShape, OwnerShape,
       OwnerPlaces, TypeOK
  <2>3. DiskQueueShape'
    BY <1>1 DEF PersistQueue, DiskQueueShape, QueueExact
  <2>4. \A v \in Workers, x \in Tasks : Owns(v, x)' <=> Owns(v, x)
    BY <1>1 DEF PersistQueue, Owns, OwnerPlaces, TypeOK, ProcessShape
  <2> QED
    BY <1>1, <2>1, <2>2, <2>3, <2>4, FrameLemma DEF PersistQueue
<1>2. ASSUME PersistFails PROVE IInv'
  <2>1. TypeOK'
    <3>1. lock' \in LockType
      BY <1>2 DEF PersistFails, TypeOK, LockType, Reply
    <3>2. faults' \in Nat
      BY <1>2 DEF PersistFails, TypeOK, Fault
    <3> QED
      BY <1>2, <3>1, <3>2 DEF PersistFails, TypeOK, LockType
  <2>2. ProcessShape' /\ AddShape' /\ OwnerShape'
    BY <1>2 DEF PersistFails, ProcessShape, AddShape, OwnerShape,
       OwnerPlaces, TypeOK
  <2>3. DiskQueueShape'
    BY <1>2 DEF PersistFails, DiskQueueShape
  <2>4. \A v \in Workers, x \in Tasks : Owns(v, x)' <=> Owns(v, x)
    BY <1>2 DEF PersistFails, Owns, OwnerPlaces, TypeOK, ProcessShape
  <2> QED
    BY <1>2, <2>1, <2>2, <2>3, <2>4, FrameLemma DEF PersistFails
<1>3. ASSUME BootDone PROVE IInv'
  <2>1. TypeOK'
    BY <1>3 DEF BootDone, TypeOK, Free, LockOp, Reply, Place, Written
  <2>2. ProcessShape' /\ AddShape' /\ OwnerShape'
    BY <1>3 DEF BootDone, ProcessShape, AddShape, OwnerShape, OwnerPlaces,
       TypeOK, Free, Written
  <2>3. DiskQueueShape'
    BY <1>3 DEF BootDone, DiskQueueShape
  <2>4. \A v \in Workers, x \in Tasks : Owns(v, x)' <=> Owns(v, x)
    BY <1>3 DEF BootDone, Owns, OwnerPlaces, TypeOK, ProcessShape
  <2> QED
    BY <1>3, <2>1, <2>2, <2>3, <2>4, FrameLemma DEF BootDone
<1>4. ASSUME Shutdown PROVE IInv'
  <2>1. TypeOK'
    BY <1>4 DEF Shutdown, TypeOK
  <2>2. ProcessShape' /\ AddShape' /\ OwnerShape'
    BY <1>4 DEF Shutdown, ProcessShape, AddShape, OwnerShape, OwnerPlaces,
       TypeOK
  <2>3. DiskQueueShape'
    BY <1>4 DEF Shutdown, DiskQueueShape
  <2>4. \A v \in Workers, x \in Tasks : Owns(v, x)' <=> Owns(v, x)
    BY <1>4 DEF Shutdown, Owns, OwnerPlaces, TypeOK, ProcessShape
  <2> QED
    BY <1>4, <2>1, <2>2, <2>3, <2>4, FrameLemma DEF Shutdown
<1>5. ASSUME AddQueue PROVE IInv'
  <2>1. Append(queue, lock.task) \in Seq(Tasks) /\ IsInjective(Append(queue, lock.task))
    <3>1. lock.task \in Tasks /\ proc = "up" /\ lock.task \notin QueuedIn(task)
      BY <1>5 DEF AddQueue, AddShape, QueuedIn, Absent
    <3> QED BY <3>1, AppendLemma DEF QueueExact, TypeOK
  <2>2. TypeOK'
    BY <1>5, <2>1 DEF AddQueue, TypeOK, LockOp
  <2>3. DiskQueueShape'
    BY <1>5, <2>1 DEF AddQueue, DiskQueueShape
  <2>4. ProcessShape' /\ AddShape' /\ OwnerShape'
    BY <1>5 DEF AddQueue, ProcessShape, AddShape, OwnerShape, TypeOK, Free
  <2>5. \A v \in Workers, x \in Tasks : Owns(v, x)' <=> Owns(v, x)
    BY <1>5 DEF AddQueue, Owns
  <2> QED
    BY <1>5, <2>2, <2>3, <2>4, <2>5, FrameLemma DEF AddQueue
<1>6. ASSUME AddQueueFails PROVE IInv'
  <2>1. TypeOK'
    BY <1>6 DEF AddQueueFails, TypeOK, Fault, CanFail, Free, LockOp, Reply
  <2>2. ProcessShape' /\ AddShape' /\ OwnerShape'
    BY <1>6 DEF AddQueueFails, ProcessShape, AddShape, OwnerShape,
       OwnerPlaces, TypeOK, Free
  <2>3. DiskQueueShape'
    BY <1>6 DEF AddQueueFails, DiskQueueShape
  <2>4. \A v \in Workers, x \in Tasks : Owns(v, x)' <=> Owns(v, x)
    BY <1>6 DEF AddQueueFails, Owns, OwnerPlaces, TypeOK, ProcessShape
  <2> QED
    BY <1>6, <2>1, <2>2, <2>3, <2>4, FrameLemma DEF AddQueueFails
<1>7. ASSUME AddPromoteFails PROVE IInv'
  <2>1. TypeOK'
    BY <1>7 DEF AddPromoteFails, TypeOK, Fault, CanFail, Free, LockOp,
       Reply
  <2>2. ProcessShape' /\ AddShape' /\ OwnerShape'
    BY <1>7 DEF AddPromoteFails, ProcessShape, AddShape, OwnerShape,
       OwnerPlaces, TypeOK, Free
  <2>3. DiskQueueShape'
    BY <1>7 DEF AddPromoteFails, DiskQueueShape, QueueExact, AddShape
  <2>4. \A v \in Workers, x \in Tasks : Owns(v, x)' <=> Owns(v, x)
    BY <1>7 DEF AddPromoteFails, Owns, OwnerPlaces, TypeOK, ProcessShape
  <2> QED
    BY <1>7, <2>1, <2>2, <2>3, <2>4, FrameLemma DEF AddPromoteFails
<1>8. ASSUME CancelReply PROVE IInv'
  <2>1. TypeOK'
    BY <1>8 DEF CancelReply, TypeOK, Written, Free, LockOp, Reply
  <2>2. ProcessShape' /\ AddShape' /\ OwnerShape'
    BY <1>8 DEF CancelReply, ProcessShape, AddShape, OwnerShape,
       OwnerPlaces, TypeOK, Free, Written
  <2>3. DiskQueueShape'
    BY <1>8 DEF CancelReply, DiskQueueShape
  <2>4. \A v \in Workers, x \in Tasks : Owns(v, x)' <=> Owns(v, x)
    BY <1>8 DEF CancelReply, Owns, OwnerPlaces, TypeOK, ProcessShape
  <2> QED
    BY <1>8, <2>1, <2>2, <2>3, <2>4, FrameLemma DEF CancelReply
<1>9. ASSUME UpdateReply PROVE IInv'
  <2>1. TypeOK'
    BY <1>9 DEF UpdateReply, TypeOK, Written, Free, LockOp, Reply
  <2>2. ProcessShape' /\ AddShape' /\ OwnerShape'
    BY <1>9 DEF UpdateReply, ProcessShape, AddShape, OwnerShape,
       OwnerPlaces, TypeOK, Free, Written
  <2>3. DiskQueueShape'
    BY <1>9 DEF UpdateReply, DiskQueueShape
  <2>4. \A v \in Workers, x \in Tasks : Owns(v, x)' <=> Owns(v, x)
    BY <1>9 DEF UpdateReply, Owns, OwnerPlaces, TypeOK, ProcessShape
  <2> QED
    BY <1>9, <2>1, <2>2, <2>3, <2>4, FrameLemma DEF UpdateReply
<1>10. ASSUME NEW t \in Tasks, PersistTask(t) PROVE IInv'
  <2>1. TypeOK'
    BY <1>10 DEF PersistTask, TypeOK
  <2>2. ProcessShape' /\ AddShape' /\ OwnerShape'
    BY <1>10 DEF PersistTask, ProcessShape, AddShape, OwnerShape,
       OwnerPlaces, TypeOK
  <2>3. DiskQueueShape'
    BY <1>10 DEF PersistTask, DiskQueueShape
  <2>4. \A v \in Workers, x \in Tasks : Owns(v, x)' <=> Owns(v, x)
    BY <1>10 DEF PersistTask, Owns, OwnerPlaces, TypeOK, ProcessShape
  <2> QED
    BY <1>10, <2>1, <2>2, <2>3, <2>4, FrameLemma DEF PersistTask
<1>11. ASSUME NEW t \in Tasks, AddStage(t) PROVE IInv'
  <2>1. TypeOK'
    BY <1>11 DEF AddStage, TypeOK, LockFree, Holding, Free, LockOp, Reply
  <2>2. ProcessShape' /\ AddShape' /\ OwnerShape'
    BY <1>11 DEF AddStage, ProcessShape, AddShape, OwnerShape,
       OwnerPlaces, TypeOK, LockFree, Holding, Free
  <2>3. DiskQueueShape'
    BY <1>11 DEF AddStage, DiskQueueShape
  <2>4. \A v \in Workers, x \in Tasks : Owns(v, x)' <=> Owns(v, x)
    BY <1>11 DEF AddStage, Owns, OwnerPlaces, TypeOK, ProcessShape
  <2> QED
    BY <1>11, <2>1, <2>2, <2>3, <2>4, FrameLemma DEF AddStage, LockFree
<1>12. ASSUME NEW t \in Tasks, AddNotify(t) PROVE IInv'
  <2>1. TypeOK'
    BY <1>12 DEF AddNotify, TypeOK, notify_one, Place
  <2>2. ProcessShape' /\ AddShape' /\ OwnerShape'
    BY <1>12 DEF AddNotify, ProcessShape, AddShape, OwnerShape,
       OwnerPlaces, TypeOK, notify_one
  <2>3. DiskQueueShape'
    BY <1>12 DEF AddNotify, DiskQueueShape
  <2>4. \A v \in Workers, x \in Tasks : Owns(v, x)' <=> Owns(v, x)
    BY <1>12 DEF AddNotify, Owns, OwnerPlaces, TypeOK, ProcessShape,
       notify_one
  <2> QED
    BY <1>12, <2>1, <2>2, <2>3, <2>4, FrameLemma DEF AddNotify
<1>13. ASSUME NEW t \in Tasks, CancelFinished(t) PROVE IInv'
  <2>1. TypeOK'
    BY <1>13 DEF CancelFinished, TypeOK, LockFree, Holding, Free, LockOp,
       Reply, AllFiles, Present
  <2>2. ProcessShape' /\ AddShape' /\ OwnerShape'
    BY <1>13 DEF CancelFinished, ProcessShape, AddShape, OwnerShape,
       OwnerPlaces, TypeOK, LockFree, Holding, Free
  <2>3. DiskQueueShape'
    BY <1>13 DEF CancelFinished, DiskQueueShape
  <2>4. \A v \in Workers, x \in Tasks : Owns(v, x)' <=> Owns(v, x)
    BY <1>13 DEF CancelFinished, Owns, OwnerPlaces, TypeOK, ProcessShape
  <2> QED
    BY <1>13, <2>1, <2>2, <2>3, <2>4, FrameLemma DEF CancelFinished,
       LockFree
<1>14. ASSUME NEW t \in Tasks, UpdateTask(t) PROVE IInv'
  <2>1. TypeOK'
    BY <1>14 DEF UpdateTask, TypeOK, LockFree, Holding, Free, LockOp,
       Reply
  <2>2. ProcessShape' /\ AddShape' /\ OwnerShape'
    BY <1>14 DEF UpdateTask, ProcessShape, AddShape, OwnerShape,
       OwnerPlaces, TypeOK, LockFree, Holding, Free
  <2>3. DiskQueueShape'
    BY <1>14 DEF UpdateTask, DiskQueueShape
  <2>4. \A v \in Workers, x \in Tasks : Owns(v, x)' <=> Owns(v, x)
    BY <1>14 DEF UpdateTask, Owns, OwnerPlaces, TypeOK, ProcessShape
  <2> QED
    BY <1>14, <2>1, <2>2, <2>3, <2>4, FrameLemma DEF UpdateTask, LockFree
<1>15. ASSUME NEW w \in Workers, WorkerTop(w) PROVE IInv'
  <2>1. TypeOK'
    BY <1>15 DEF WorkerTop, TypeOK, Goto, Place
  <2>2. ProcessShape' /\ AddShape' /\ OwnerShape'
    BY <1>15 DEF WorkerTop, ProcessShape, AddShape, OwnerShape,
       OwnerPlaces, TypeOK, Goto
  <2>3. DiskQueueShape'
    BY <1>15 DEF WorkerTop, DiskQueueShape
  <2>4. \A v \in Workers, x \in Tasks : Owns(v, x)' <=> Owns(v, x)
    BY <1>15 DEF WorkerTop, Owns, OwnerPlaces, TypeOK, ProcessShape, Goto
  <2> QED
    BY <1>15, <2>1, <2>2, <2>3, <2>4, FrameLemma DEF WorkerTop
<1>16. ASSUME NEW w \in Workers, WorkerFindsEmpty(w) PROVE IInv'
  <2>1. TypeOK'
    BY <1>16 DEF WorkerFindsEmpty, TypeOK, Goto, Place
  <2>2. ProcessShape' /\ AddShape' /\ OwnerShape'
    BY <1>16 DEF WorkerFindsEmpty, ProcessShape, AddShape, OwnerShape,
       OwnerPlaces, TypeOK, Goto, LockFree
  <2>3. DiskQueueShape'
    BY <1>16 DEF WorkerFindsEmpty, DiskQueueShape
  <2>4. \A v \in Workers, x \in Tasks : Owns(v, x)' <=> Owns(v, x)
    BY <1>16 DEF WorkerFindsEmpty, Owns, OwnerPlaces, TypeOK,
       ProcessShape, Goto, LockFree
  <2> QED
    BY <1>16, <2>1, <2>2, <2>3, <2>4, FrameLemma DEF WorkerFindsEmpty,
       LockFree
<1>17. ASSUME NEW w \in Workers, WorkerStarted(w) PROVE IInv'
  <2>1. TypeOK'
    <3>1. current[w] \in Tasks
      BY <1>17 DEF WorkerStarted, OwnerShape, OwnerPlaces
    <3> QED
      BY <1>17, <3>1 DEF WorkerStarted, TypeOK, Goto, Place, Written,
         Free, LockOp, Reply
  <2>2. ProcessShape' /\ AddShape' /\ OwnerShape'
    BY <1>17 DEF WorkerStarted, ProcessShape, AddShape, OwnerShape,
       OwnerPlaces, TypeOK, Goto, Written, Free
  <2>3. DiskQueueShape'
    BY <1>17 DEF WorkerStarted, DiskQueueShape
  <2>4. \A v \in Workers, x \in Tasks : Owns(v, x)' <=> Owns(v, x)
    BY <1>17 DEF WorkerStarted, Owns, OwnerPlaces, TypeOK, ProcessShape,
       Goto, Written, Free
  <2> QED
    BY <1>17, <2>1, <2>2, <2>3, <2>4, FrameLemma DEF WorkerStarted
<1>18. ASSUME NEW w \in Workers, WorkerWait(w) PROVE IInv'
  <2>1. TypeOK'
    BY <1>18 DEF WorkerWait, TypeOK, Goto, Place
  <2>2. ProcessShape' /\ AddShape' /\ OwnerShape'
    BY <1>18 DEF WorkerWait, ProcessShape, AddShape, OwnerShape,
       OwnerPlaces, TypeOK, Goto
  <2>3. DiskQueueShape'
    BY <1>18 DEF WorkerWait, DiskQueueShape
  <2>4. \A v \in Workers, x \in Tasks : Owns(v, x)' <=> Owns(v, x)
    BY <1>18 DEF WorkerWait, Owns, OwnerPlaces, TypeOK, ProcessShape, Goto
  <2> QED
    BY <1>18, <2>1, <2>2, <2>3, <2>4, FrameLemma DEF WorkerWait
<1>19. ASSUME NEW w \in Workers, WorkerSeesShutdown(w) PROVE IInv'
  <2>1. TypeOK'
    BY <1>19 DEF WorkerSeesShutdown, TypeOK, Goto, Place
  <2>2. ProcessShape' /\ AddShape' /\ OwnerShape'
    BY <1>19 DEF WorkerSeesShutdown, ProcessShape, AddShape, OwnerShape,
       OwnerPlaces, TypeOK, Goto
  <2>3. DiskQueueShape'
    BY <1>19 DEF WorkerSeesShutdown, DiskQueueShape
  <2>4. \A v \in Workers, x \in Tasks : Owns(v, x)' <=> Owns(v, x)
    BY <1>19 DEF WorkerSeesShutdown, Owns, OwnerPlaces, TypeOK,
       ProcessShape, Goto
  <2> QED
    BY <1>19, <2>1, <2>2, <2>3, <2>4, FrameLemma DEF WorkerSeesShutdown
<1>20. ASSUME NEW w \in Workers, Interrupt(w) PROVE IInv'
  <2>1. TypeOK'
    BY <1>20 DEF Interrupt, TypeOK, OwnerShape, OwnerPlaces
  <2>2. ProcessShape' /\ AddShape' /\ OwnerShape'
    BY <1>20 DEF Interrupt, ProcessShape, AddShape, OwnerShape,
       OwnerPlaces, TypeOK
  <2>3. DiskQueueShape'
    BY <1>20 DEF Interrupt, DiskQueueShape
  <2>4. \A v \in Workers, x \in Tasks : Owns(v, x)' <=> Owns(v, x)
    BY <1>20 DEF Interrupt, Owns, OwnerPlaces, TypeOK, ProcessShape
  <2> QED
    BY <1>20, <2>1, <2>2, <2>3, <2>4, FrameLemma DEF Interrupt
<1>21. ASSUME NEW w \in Workers, ExecutorPanics(w) PROVE IInv'
  <2>1. TypeOK'
    BY <1>21 DEF ExecutorPanics, TypeOK, Goto, Place
  <2>2. ProcessShape' /\ AddShape' /\ OwnerShape'
    BY <1>21 DEF ExecutorPanics, ProcessShape, AddShape, OwnerShape,
       OwnerPlaces, TypeOK, Goto
  <2>3. DiskQueueShape'
    BY <1>21 DEF ExecutorPanics, DiskQueueShape
  <2>4. \A v \in Workers, x \in Tasks : Owns(v, x)' <=> Owns(v, x)
    BY <1>21 DEF ExecutorPanics, Owns, OwnerPlaces, TypeOK, ProcessShape,
       Goto
  <2> QED
    BY <1>21, <2>1, <2>2, <2>3, <2>4, FrameLemma DEF ExecutorPanics
<1>22. ASSUME NEW w \in Workers, WorkerFinished(w) PROVE IInv'
  <2>1. TypeOK'
    BY <1>22 DEF WorkerFinished, TypeOK, Goto, Place, Written, Free,
       LockOp, Reply
  <2>2. ProcessShape' /\ AddShape' /\ OwnerShape'
    BY <1>22 DEF WorkerFinished, ProcessShape, AddShape, OwnerShape,
       OwnerPlaces, TypeOK, Goto, Written, Free
  <2>3. DiskQueueShape'
    BY <1>22 DEF WorkerFinished, DiskQueueShape
  <2>4. \A v \in Workers, x \in Tasks : Owns(v, x)' <=> Owns(v, x)
    BY <1>22 DEF WorkerFinished, Owns, OwnerPlaces, TypeOK, ProcessShape,
       Goto, Written, Free
  <2> QED
    BY <1>22, <2>1, <2>2, <2>3, <2>4, FrameLemma DEF WorkerFinished
<1>23. ASSUME NEW w \in Workers, NEW outcome \in Outcome, ExecutionEnds(w, outcome) PROVE IInv'
  <2>1. TypeOK'
    BY <1>23 DEF ExecutionEnds, TypeOK, Goto, Place
  <2>2. ProcessShape' /\ AddShape' /\ OwnerShape'
    BY <1>23 DEF ExecutionEnds, ProcessShape, AddShape, OwnerShape,
       OwnerPlaces, TypeOK, Goto
  <2>3. DiskQueueShape'
    BY <1>23 DEF ExecutionEnds, DiskQueueShape
  <2>4. \A v \in Workers, x \in Tasks : Owns(v, x)' <=> Owns(v, x)
    BY <1>23 DEF ExecutionEnds, Owns, OwnerPlaces, TypeOK, ProcessShape,
       Goto
  <2> QED
    BY <1>23, <2>1, <2>2, <2>3, <2>4, FrameLemma DEF ExecutionEnds
<1> QED
  BY <1>1, <1>2, <1>3, <1>4, <1>5, <1>6, <1>7, <1>8, <1>9, <1>10, <1>11,
     <1>12, <1>13, <1>14, <1>15, <1>16, <1>17, <1>18, <1>19, <1>20, <1>21,
     <1>22, <1>23

\* A lifecycle transition sets the status and keeps the record well-formed.
LEMMA AdvanceLemma ==
  ASSUME NEW rec \in TaskRecord, NEW s \in TaskStatus
  PROVE  Advance(rec, s) \in TaskRecord /\ Advance(rec, s).status = s
BY DEF Advance, TaskRecord

\* start_with_executor: the queue rebuilt from whatever the files hold lists
\* exactly the Queued tasks, and nothing is Running.
LEMMA BootInv == ASSUME IInv, Boot PROVE IInv'
<1> USE DEF IInv, mem, disk, workers, signals, history
<1> DEFINE Q == QueuedIn(Loaded)
<1>1. /\ proc = "down" /\ proc' = "boot"
      /\ task' = Loaded
      /\ UNCHANGED <<running_cancel, cancelled, diskTask, diskQueue, staged, pc, current,
                     result, shutdown, permit, notifying, accepted, acked, runs,
                     faults, crashes>>
      /\ lock' = Holding("boot", NoTask, "Ok",
                         {QueueFile} \cup {t \in Tasks : diskTask[t].status = "Running"})
  BY DEF Boot
<1>2. PICK kept \in Retained(diskQueue, Q) :
        \E missing \in SetToSeqs(Q \ Range(kept)) : queue' = kept \o missing
  BY DEF Boot
<1>3. PICK missing \in SetToSeqs(Q \ Range(kept)) : queue' = kept \o missing
  BY <1>2
<1>4. kept \in Seq(Tasks) /\ Range(kept) \subseteq Q /\ IsInjective(kept)
  BY <1>2, RetainedLemma DEF TypeOK, DiskQueueShape
<1>5. IsFiniteSet(Q \ Range(kept)) /\ Q \subseteq Tasks
  BY TasksAssumption, FS_Subset DEF QueuedIn
<1>6. /\ missing \in Seq(Q \ Range(kept)) /\ IsInjective(missing)
      /\ Range(missing) = Q \ Range(kept)
  BY <1>3, <1>5, EnumerationLemma
<1>7. missing \in Seq(Tasks)
  BY <1>5, <1>6, SeqMonotonic
<1>8. queue' \in Seq(Tasks) /\ Range(queue') = Q /\ IsInjective(queue')
  <2>1. Range(kept) \cap Range(missing) = {} /\ Range(kept) \cup Range(missing) = Q
    BY <1>4, <1>6
  <2> QED BY <1>3, <1>4, <1>6, <1>7, <2>1, ConcatLemma
<1>9. \A t \in Tasks : /\ task'[t] \in TaskRecord
                       /\ task'[t].status # "Running"
  <2> SUFFICES ASSUME NEW t \in Tasks
               PROVE  /\ task'[t] \in TaskRecord
                      /\ task'[t].status # "Running"
    OBVIOUS
  <2>1. diskTask[t] \in TaskRecord /\ "Failed" \in TaskStatus
    BY DEF TypeOK, TaskStatus, TerminalStatus
  <2>2. CASE diskTask[t].status = "Running"
    BY <1>1, <2>1, <2>2, AdvanceLemma DEF Recovered, Loaded
  <2>3. CASE diskTask[t].status # "Running"
    BY <1>1, <2>1, <2>3 DEF Recovered, Loaded
  <2> QED BY <2>2, <2>3
<1>10. TypeOK'
  <2>1. task' \in [Tasks -> TaskRecord]
    BY <1>1, <1>9 DEF Loaded
  <2>2. lock' \in LockType
    BY <1>1 DEF LockType, Holding, LockOp, Reply
  <2> QED BY <1>1, <1>8, <2>1, <2>2 DEF TypeOK, LockType
<1>11. ProcessShape' /\ AddShape' /\ OwnerShape' /\ DiskQueueShape'
  BY <1>1 DEF ProcessShape, AddShape, OwnerShape, DiskQueueShape, Holding
<1>12. QueueExact'
  BY <1>1, <1>8 DEF QueueExact
<1>13. RunningIsOwned'
  BY <1>1, <1>9 DEF RunningIsOwned, Owns, OwnerPlaces, ProcessShape
<1> QED BY <1>10, <1>11, <1>12, <1>13

\* Losing the memory, by a crash or a start that fails.
LEMMA LoseMemoryInv ==
  ASSUME IInv, LoseMemory, crashes' \in Nat PROVE IInv'
<1> USE DEF IInv, LoseMemory, disk, history
<1>1. TypeOK'
  <2>1. lock' \in LockType
    BY DEF Free, LockType, LockOp, Reply
  <2>2. queue' \in Seq(Tasks)
    OBVIOUS
  <2>3. task' \in [Tasks -> TaskRecord]
    BY DEF TaskRecord, Absent
  <2> QED BY <2>1, <2>2, <2>3 DEF TypeOK, LockType, Place
<1>2. ProcessShape' /\ AddShape' /\ OwnerShape' /\ DiskQueueShape' /\ QueueExact'
  BY DEF ProcessShape, AddShape, OwnerShape, OwnerPlaces, DiskQueueShape, QueueExact, Free
<1>3. RunningIsOwned'
  BY DEF RunningIsOwned, Owns, OwnerPlaces, Absent
<1> QED BY <1>1, <1>2, <1>3

\* add_task publishes a record whose id was unused until then.
LEMMA AddPromoteInv == ASSUME IInv, AddPromote PROVE IInv'
<1> USE DEF IInv, AddPromote, workers, history
<1> DEFINE t == lock.task
<1>1. t \in Tasks /\ proc = "up" /\ task[t] = Absent /\ t \notin Range(queue)
  BY DEF AddShape, QueueExact, QueuedIn, Absent
<1>2. /\ Append(queue, t) \in Seq(Tasks) /\ IsInjective(Append(queue, t))
      /\ Range(Append(queue, t)) = QueuedIn(task) \cup {t}
  BY <1>1, AppendLemma DEF QueueExact, TypeOK
<1>3. TypeOK'
  BY <1>1, <1>2 DEF TypeOK, TaskRecord, TaskStatus, NewTask, Free, LockOp, Reply
<1>4. ProcessShape' /\ AddShape' /\ OwnerShape' /\ DiskQueueShape'
  BY <1>1 DEF ProcessShape, AddShape, OwnerShape, DiskQueueShape, Free
<1>5. QueueExact'
  <2>1. QueuedIn(task') = QueuedIn(task) \cup {t}
    BY <1>1 DEF QueuedIn, NewTask, TypeOK
  <2> QED BY <1>2, <2>1 DEF QueueExact
<1>6. RunningIsOwned'
  <2>1. \A x \in Tasks : task'[x].status = "Running" <=> task[x].status = "Running"
    BY <1>1 DEF TypeOK, NewTask, Absent
  <2> QED BY <2>1 DEF RunningIsOwned, Owns
<1> QED BY <1>3, <1>4, <1>5, <1>6

\* cancel_task on a Queued task takes it out of the records' Queued set and
\* out of the queue alike.
LEMMA CancelQueuedInv ==
  ASSUME IInv, NEW t \in Tasks, CancelQueued(t) PROVE IInv'
<1> USE DEF IInv, CancelQueued, disk, workers, signals, history
<1>1. /\ queue' \in Seq(Tasks) /\ IsInjective(queue')
      /\ Range(queue') = QueuedIn(task) \ {t}
  <2>1. queue' \in Retained(queue, Tasks \ {t})
    OBVIOUS
  <2>2. Range(queue') = Range(queue) \cap (Tasks \ {t})
    BY <2>1, RetainedLemma DEF TypeOK
  <2>3. queue' \in Seq(Tasks) /\ IsInjective(queue')
    BY <2>1, RetainedLemma DEF TypeOK, QueueExact, LockFree
  <2> QED BY <2>2, <2>3 DEF QueueExact, LockFree, QueuedIn
<1>2. /\ task' \in [Tasks -> TaskRecord]
      /\ task'[t].status = "Canceled"
      /\ \A x \in Tasks \ {t} : task'[x] = task[x]
  BY AdvanceLemma DEF TypeOK, TaskStatus, TerminalStatus
<1>3. TypeOK'
  <2>1. lock' \in LockType
    BY DEF LockType, Holding, LockOp, Reply, AllFiles, Present
  <2> QED BY <1>1, <1>2, <2>1 DEF TypeOK, LockType
<1>4. ProcessShape' /\ AddShape' /\ OwnerShape' /\ DiskQueueShape'
  BY DEF ProcessShape, AddShape, OwnerShape, DiskQueueShape, LockFree, Free, Holding
<1>5. QueueExact'
  <2>1. QueuedIn(task') = QueuedIn(task) \ {t}
    BY <1>2 DEF QueuedIn
  <2> QED BY <1>1, <2>1 DEF QueueExact
<1>6. RunningIsOwned'
  <2>1. \A x \in Tasks : task'[x].status = "Running" <=> task[x].status = "Running"
    BY <1>2
  <2> QED BY <2>1 DEF RunningIsOwned, Owns
<1> QED BY <1>3, <1>4, <1>5, <1>6

\* cancel_task on a Running task changes its sequence number and its token.
LEMMA CancelRunningInv ==
  ASSUME IInv, NEW t \in Tasks, CancelRunning(t) PROVE IInv'
<1> USE DEF IInv, CancelRunning, disk, workers, signals, history
<1>1. /\ task' \in [Tasks -> TaskRecord]
      /\ \A x \in Tasks : task'[x].status = task[x].status
  BY AdvanceLemma DEF TypeOK, TaskStatus
<1>2. TypeOK'
  <2>1. lock' \in LockType
    BY DEF LockType, Holding, LockOp, Reply, AllFiles, Present
  <2> QED BY <1>1, <2>1 DEF TypeOK, LockType
<1>3. ProcessShape' /\ AddShape' /\ OwnerShape' /\ DiskQueueShape'
  BY DEF ProcessShape, AddShape, OwnerShape, DiskQueueShape, LockFree, Free, Holding
<1>4. QueueExact' /\ RunningIsOwned'
  BY <1>1 DEF QueueExact, QueuedIn, RunningIsOwned, Owns
<1> QED BY <1>2, <1>3, <1>4

\* A worker takes the head of the queue: it is Queued, so it becomes Running,
\* and this worker, which owned nothing, is its only owner.
LEMMA WorkerPopInv ==
  ASSUME IInv, NEW w \in Workers, WorkerPop(w) PROVE IInv'
<1> USE DEF IInv, signals, history
<1>1. proc = "up" /\ pc[w] = "pop" /\ lock = Free /\ queue # <<>>
  BY DEF WorkerPop, LockFree
<1> PICK t \in Tasks : t = Head(queue)
  BY <1>1, PopLemma DEF TypeOK
<1>2. /\ t \in QueuedIn(task)
      /\ Tail(queue) \in Seq(Tasks) /\ IsInjective(Tail(queue))
      /\ Range(Tail(queue)) = QueuedIn(task) \ {t}
  BY <1>1, PopLemma DEF TypeOK, QueueExact
<1>3. task[t].status = "Queued"
  BY <1>2 DEF QueuedIn
<1>4. /\ queue' = Tail(queue)
      /\ task' = [task EXCEPT ![t] = Advance(@, "Running")]
      /\ running_cancel' = running_cancel \cup {t}
      /\ cancelled' = cancelled \ {t}
      /\ current' = [current EXCEPT ![w] = t]
      /\ pc' = [pc EXCEPT ![w] = "starting"]
      /\ lock' = Holding("start", t, "Ok", AllFiles(task))
      /\ UNCHANGED <<proc, diskQueue, diskTask, staged, result, shutdown, permit,
                     notifying, accepted, acked, runs, faults, crashes>>
  BY <1>3 DEF WorkerPop, Goto
<1>5. /\ task' \in [Tasks -> TaskRecord]
      /\ task'[t].status = "Running"
      /\ \A x \in Tasks \ {t} : task'[x] = task[x]
  BY <1>2, <1>4, AdvanceLemma DEF TypeOK, TaskStatus
<1>6. TypeOK'
  <2>1. lock' \in LockType
    BY <1>2, <1>4 DEF LockType, Holding, LockOp, Reply, AllFiles, Present
  <2> QED BY <1>2, <1>4, <1>5, <2>1 DEF TypeOK, LockType, Place
<1>7. ProcessShape' /\ AddShape' /\ OwnerShape' /\ DiskQueueShape'
  BY <1>1, <1>2, <1>4
     DEF ProcessShape, AddShape, OwnerShape, DiskQueueShape, Free, Holding, TypeOK
<1>8. QueueExact'
  <2>1. QueuedIn(task') = QueuedIn(task) \ {t}
    BY <1>2, <1>5 DEF QueuedIn
  <2> QED BY <1>2, <1>4, <2>1 DEF QueueExact
<1>9. RunningIsOwned'
  <2>1. \A v \in Workers : ~Owns(v, t)
    BY <1>2, <1>3 DEF RunningIsOwned
  <2>2. \A x \in Tasks : ~Owns(w, x)
    BY <1>1 DEF Owns, OwnerPlaces
  <2>3. \A x \in Tasks : Owns(w, x)' <=> x = t
    BY <1>4 DEF Owns, OwnerPlaces, TypeOK
  <2>4. \A v \in Workers \ {w}, x \in Tasks : Owns(v, x)' <=> Owns(v, x)
    BY <1>4 DEF Owns, TypeOK
  <2>5. \A x \in Tasks \ {t} :
          /\ task'[x].status = "Running" <=> x \in running_cancel'
          /\ task'[x].status = "Running" <=> \E v \in Workers : Owns(v, x)'
          /\ \A u, v \in Workers : Owns(u, x)' /\ Owns(v, x)' => u = v
    BY <1>4, <1>5, <2>2, <2>3, <2>4 DEF RunningIsOwned
  <2>6. /\ t \in running_cancel'
        /\ \E v \in Workers : Owns(v, t)'
        /\ \A u, v \in Workers : Owns(u, t)' /\ Owns(v, t)' => u = v
    BY <1>2, <1>4, <2>1, <2>3, <2>4
  <2> QED BY <1>5, <2>5, <2>6 DEF RunningIsOwned
<1> QED BY <1>6, <1>7, <1>8, <1>9

\* finish_task: the only owner of a Running task lets go of it as the task
\* becomes terminal and its token is removed.
LEMMA FinishTaskInv ==
  ASSUME IInv, NEW w \in Workers, FinishTask(w) PROVE IInv'
<1> USE DEF IInv, disk, signals, history
<1>1. proc = "up" /\ pc[w] = "ended" /\ lock = Free
  BY DEF FinishTask, LockFree
<1> PICK t \in Tasks : t = current[w]
  BY <1>1 DEF OwnerShape, OwnerPlaces
<1> DEFINE s == FinalStatus(result[w], t \in cancelled)
<1>2. /\ running_cancel' = running_cancel \ {t}
      /\ cancelled' = cancelled \ {t}
      /\ task' = [task EXCEPT ![t] = Advance(@, s)]
      /\ pc' = [pc EXCEPT ![w] = "finishing"]
      /\ UNCHANGED <<proc, queue, diskTask, diskQueue, staged, current, result,
                     shutdown, permit, notifying, accepted, acked, runs, crashes>>
      /\ \/ lock' = Holding("finish", t, "Ok", AllFiles(task)) /\ UNCHANGED faults
         \/ lock' = Holding("finish", t, "Err", {}) /\ faults' = faults + 1
  BY DEF FinishTask, Goto, Fault, CanFail
<1>3. Owns(w, t) /\ task[t].status = "Running"
  BY <1>1 DEF Owns, OwnerPlaces, RunningIsOwned
<1>4. s \in TerminalStatus
  BY DEF FinalStatus, TerminalStatus
<1>5. /\ task' \in [Tasks -> TaskRecord]
      /\ task'[t].status \in TerminalStatus
      /\ \A x \in Tasks \ {t} : task'[x] = task[x]
  <2> HIDE DEF s
  <2> QED BY <1>2, <1>3, <1>4, AdvanceLemma DEF TypeOK, TaskStatus
<1>6. TypeOK'
  <2>1. lock' \in LockType
    BY <1>2, <1>3 DEF LockType, Holding, LockOp, Reply, AllFiles, Present
  <2>2. faults' \in Nat
    BY <1>2 DEF TypeOK
  <2> QED BY <1>2, <1>5, <2>1, <2>2 DEF TypeOK, LockType, Place
<1>7. ProcessShape' /\ AddShape' /\ OwnerShape' /\ DiskQueueShape'
  <2>1. lock'.op = "finish"
    BY <1>2 DEF Holding
  <2> QED BY <1>1, <1>2, <2>1
      DEF ProcessShape, AddShape, OwnerShape, OwnerPlaces, DiskQueueShape, Free, TypeOK
<1>8. QueueExact'
  <2>1. QueuedIn(task') = QueuedIn(task)
    BY <1>3, <1>5 DEF QueuedIn, TerminalStatus
  <2> QED BY <1>2, <2>1 DEF QueueExact
<1>9. RunningIsOwned'
  <2>1. \A v \in Workers, x \in Tasks : Owns(v, x)' <=> Owns(v, x) /\ v # w
    BY <1>2 DEF Owns, OwnerPlaces, TypeOK
  <2>2. \A x \in Tasks \ {t} : ~Owns(w, x)
    BY DEF Owns
  <2>3. \A v \in Workers : ~Owns(v, t)'
    BY <1>3, <2>1 DEF RunningIsOwned
  <2>4. task'[t].status # "Running" /\ t \notin running_cancel'
    BY <1>2, <1>5 DEF TerminalStatus
  <2>5. \A x \in Tasks \ {t} :
          /\ task'[x].status = "Running" <=> x \in running_cancel'
          /\ task'[x].status = "Running" <=> \E v \in Workers : Owns(v, x)'
          /\ \A u, v \in Workers : Owns(u, x)' /\ Owns(v, x)' => u = v
    BY <1>2, <1>5, <2>1, <2>2 DEF RunningIsOwned
  <2> QED BY <2>3, <2>4, <2>5 DEF RunningIsOwned
<1> QED BY <1>6, <1>7, <1>8, <1>9

\* Every step of the manager, its clients, its workers and its failures.
LEMMA NextInv == IInv /\ [Next]_vars => IInv'
<1> SUFFICES ASSUME IInv, [Next]_vars PROVE IInv'
  OBVIOUS
<1>1. CASE UNCHANGED vars
  BY <1>1 DEF vars, mem, disk, workers, signals, history, IInv, TypeOK, ProcessShape,
     AddShape, OwnerShape, DiskQueueShape, QueueExact, QueuedIn, RunningIsOwned, Owns
<1>2. CASE Boot
  BY <1>2, BootInv
<1>3. CASE HolderStep
  <2>1. BootFails => crashes' \in Nat /\ LoseMemory
    BY DEF BootFails, IInv, TypeOK
  <2> QED BY <1>3, <2>1, FrameStepInv, LoseMemoryInv, AddPromoteInv DEF HolderStep
<1>4. CASE Failure
  <2>1. Crash => crashes' \in Nat /\ LoseMemory
    BY DEF Crash, IInv, TypeOK
  <2> QED BY <1>4, <2>1, FrameStepInv, LoseMemoryInv DEF Failure
<1>5. CASE \E t \in Tasks : ClientStep(t)
  BY <1>5, FrameStepInv, CancelQueuedInv, CancelRunningInv DEF ClientStep
<1>6. CASE \E w \in Workers : WorkerStep(w) \/ Interrupt(w)
  BY <1>6, FrameStepInv, WorkerPopInv, FinishTaskInv DEF WorkerStep
<1>7. CASE Shutdown
  BY <1>7, FrameStepInv
<1> QED BY <1>1, <1>2, <1>3, <1>4, <1>5, <1>6, <1>7 DEF Next

-----------------------------------------------------------------------------
\* The base invariant holds throughout.
LEMMA Invariance == Spec => []IInv
<1>1. Init => IInv
  BY InitInv
<1>2. IInv /\ [Next]_vars => IInv'
  BY NextInv
<1> QED BY <1>1, <1>2, PTL DEF Spec

\* The manager's variables keep their types.
THEOREM TypeCorrect == Spec => []TypeOK
<1>1. IInv => TypeOK
  BY DEF IInv
<1> QED BY <1>1, Invariance, PTL

\* The in-memory queue lists exactly the Queued tasks, each once, through
\* every add, cancel, pop, failed write, crash and replay of the files.
THEOREM QueueIsExact == Spec => []QueueExact
<1>1. IInv => QueueExact
  BY DEF IInv
<1> QED BY <1>1, Invariance, PTL

\* A task is Running exactly while it has a token and exactly one worker.
THEOREM RunningHasOneOwner == Spec => []RunningIsOwned
<1>1. IInv => RunningIsOwned
  BY DEF IInv
<1> QED BY <1>1, Invariance, PTL

-----------------------------------------------------------------------------
(***************************************************************************)
(* What the clients of the task manager rely on: a finished task stays as  *)
(* it is, a queued task has a worker coming, and the answer to a cancel    *)
(* remains true through failed writes, crashes and restarts.               *)
(***************************************************************************)

-----------------------------------------------------------------------------
(* Records change in few ways.                                             *)

\* The task a worker pops is Queued, so the branch that drops an entry is
\* never taken.
LEMMA PopsQueued ==
  ASSUME IInv, NEW w \in Workers, WorkerPop(w)
  PROVE  \E t \in Tasks :
           /\ task[t].status = "Queued"
           /\ task' = [task EXCEPT ![t] = Advance(@, "Running")]
           /\ cancelled' = cancelled \ {t}
           /\ pc' = [pc EXCEPT ![w] = "starting"]
           /\ lock' = Holding("start", t, "Ok", AllFiles(task))
           /\ UNCHANGED <<proc, diskTask, acked, shutdown, permit, notifying>>
<1>1. LockFree /\ queue # <<>>
  BY DEF WorkerPop
<1> PICK t \in Tasks : t = Head(queue)
  BY <1>1, PopLemma DEF IInv, TypeOK
<1>2. t \in Range(queue)
  BY <1>1, PopLemma DEF IInv, TypeOK, QueueExact, LockFree
<1>3. task[t].status = "Queued"
  BY <1>1, <1>2 DEF IInv, QueueExact, QueuedIn, LockFree
<1> QED BY <1>3 DEF WorkerPop, Goto, signals, history

\* The task a worker finishes is Running, and becomes terminal.
LEMMA FinishesRunning ==
  ASSUME IInv, NEW w \in Workers, FinishTask(w)
  PROVE  \E t \in Tasks :
           /\ task[t].status = "Running"
           /\ task' = [task EXCEPT ![t] = Advance(@, FinalStatus(result[w], t \in cancelled))]
           /\ cancelled' = cancelled \ {t}
           /\ pc' = [pc EXCEPT ![w] = "finishing"]
           /\ lock'.op = "finish"
           /\ UNCHANGED <<proc, diskTask, acked, shutdown, permit, notifying, queue>>
<1>1. pc[w] = "ended"
  BY DEF FinishTask
<1> PICK t \in Tasks : t = current[w]
  BY <1>1 DEF IInv, OwnerShape, OwnerPlaces
<1>2. task[t].status = "Running"
  BY <1>1 DEF IInv, RunningIsOwned, Owns, OwnerPlaces
<1>3. /\ task' = [task EXCEPT ![t] = Advance(@, FinalStatus(result[w], t \in cancelled))]
      /\ cancelled' = cancelled \ {t}
      /\ pc' = [pc EXCEPT ![w] = "finishing"]
      /\ lock'.op = "finish"
      /\ UNCHANGED <<proc, diskTask, acked, shutdown, permit, notifying, queue>>
  BY DEF FinishTask, Goto, Holding, disk, signals, history
<1> QED BY <1>2, <1>3, Zenon

\* Every other step that a running manager survives leaves a terminal record alone.
LEMMA TerminalStep ==
  ASSUME IInv, [Next]_vars, NEW t \in Tasks, task[t].status \in TerminalStatus,
         proc' # "down"
  PROVE  task'[t] = task[t]
<1> USE DEF mem, disk, workers, signals, history, TerminalStatus
<1>1. CASE UNCHANGED vars
  BY <1>1 DEF vars
<1>2. CASE Boot
  BY <1>2 DEF Boot, IInv, ProcessShape, Absent
<1>3. CASE HolderStep
  <2>1. CASE AddPromote
    <3>1. task' = [task EXCEPT ![lock.task] = NewTask] /\ task[lock.task] = Absent
      BY <2>1 DEF AddPromote, IInv, AddShape
    <3> QED BY <3>1 DEF IInv, TypeOK, Absent
  <2>2. CASE ~AddPromote
    BY <1>3, <2>2 DEF HolderStep, PersistQueue, PersistTask, BootDone, BootFails, LoseMemory,
       AddQueue, CancelReply, UpdateReply
  <2> QED BY <2>1, <2>2
<1>4. CASE Failure
  BY <1>4 DEF Failure, PersistFails, AddQueueFails, AddPromoteFails, Crash, LoseMemory,
     ExecutorPanics
<1>5. CASE \E x \in Tasks : ClientStep(x)
  <2> PICK x \in Tasks : ClientStep(x)
    BY <1>5
  <2>1. CASE CancelQueued(x) \/ CancelRunning(x)
    <3>1. /\ task[x].status \in {"Queued", "Running"}
          /\ \E s \in {"Canceled", "Running"} : task' = [task EXCEPT ![x] = Advance(@, s)]
      BY <2>1 DEF CancelQueued, CancelRunning
    <3> QED BY <3>1 DEF IInv, TypeOK
  <2>2. CASE ~(CancelQueued(x) \/ CancelRunning(x))
    BY <2>2 DEF ClientStep, AddStage, AddNotify, UpdateTask, CancelFinished
  <2> QED BY <2>1, <2>2
<1>6. CASE \E w \in Workers : WorkerStep(w) \/ Interrupt(w)
  <2> PICK w \in Workers : WorkerStep(w) \/ Interrupt(w)
    BY <1>6
  <2>1. CASE WorkerPop(w)
    <3> PICK x \in Tasks : /\ task[x].status = "Queued"
                           /\ task' = [task EXCEPT ![x] = Advance(@, "Running")]
      BY <2>1, PopsQueued
    <3> QED BY DEF IInv, TypeOK
  <2>2. CASE FinishTask(w)
    <3> PICK x \in Tasks :
          /\ task[x].status = "Running"
          /\ task' = [task EXCEPT ![x] = Advance(@, FinalStatus(result[w], x \in cancelled))]
      BY <2>2, FinishesRunning
    <3> QED BY DEF IInv, TypeOK
  <2>3. CASE ~(WorkerPop(w) \/ FinishTask(w))
    BY <2>3 DEF WorkerStep, WorkerTop, WorkerFindsEmpty, WorkerStarted, WorkerWait,
       WorkerSeesShutdown, ExecutionEnds, WorkerFinished, Interrupt
  <2> QED BY <2>1, <2>2, <2>3
<1>7. CASE Shutdown
  BY <1>7 DEF Shutdown
<1> QED BY <1>1, <1>2, <1>3, <1>4, <1>5, <1>6, <1>7 DEF Next

\* A terminal record in memory never changes while the process lives.
THEOREM FinishedStays == Spec => TerminalIsFinal
<1>1. IInv /\ [Next]_vars =>
        [\A t \in Tasks : task[t].status \in TerminalStatus /\ proc' # "down"
           => task'[t] = task[t]]_vars
  BY TerminalStep
<1> QED BY <1>1, Invariance, PTL DEF Spec, TerminalIsFinal

-----------------------------------------------------------------------------
(* A queued task has a worker coming.                                      *)

\* A worker at one of these places looks at the queue before it waits.
WillLook == {"top", "pop", "starting", "running", "ended", "finishing"}

\* Unlike in NoLostWakeup, a worker on its way to wait does not count.
WakeShape ==
  proc = "up" /\ ~shutdown /\ queue # <<>> /\ (\A w \in Workers : pc[w] # "dead") =>
    permit \/ notifying # {} \/ \E w \in Workers : pc[w] \in WillLook

\* Every step keeps a worker, a permit or a notification on the way.
LEMMA NextWake == IInv /\ WakeShape /\ [Next]_vars => WakeShape'
<1> SUFFICES ASSUME IInv, WakeShape, [Next]_vars PROVE WakeShape'
  OBVIOUS
<1> USE DEF mem, disk, workers, signals, history, WillLook
<1>1. CASE UNCHANGED vars
  BY <1>1 DEF vars, WakeShape
<1>2. CASE Boot
  BY <1>2 DEF Boot, WakeShape
<1>3. CASE HolderStep
  <2>1. CASE AddPromote
    BY <2>1 DEF AddPromote, WakeShape
  <2>2. CASE BootDone
    BY <2>2, WorkersAssumption DEF BootDone, WakeShape
  <2>3. CASE BootFails
    BY <2>3 DEF BootFails, LoseMemory, WakeShape
  <2>4. CASE ~(AddPromote \/ BootDone \/ BootFails)
    BY <1>3, <2>4 DEF HolderStep, PersistQueue, PersistTask, AddQueue, CancelReply,
       UpdateReply, WakeShape
  <2> QED BY <2>1, <2>2, <2>3, <2>4
<1>4. CASE Failure
  <2>1. CASE \E w \in Workers : ExecutorPanics(w)
    <3> PICK w \in Workers : ExecutorPanics(w)
      BY <2>1
    <3>1. pc'[w] = "dead"
      BY DEF ExecutorPanics, Goto, IInv, TypeOK
    <3> QED BY <3>1 DEF WakeShape
  <2>2. CASE Crash
    BY <2>2 DEF Crash, LoseMemory, WakeShape
  <2>3. CASE PersistFails \/ AddQueueFails \/ AddPromoteFails
    BY <2>3 DEF PersistFails, AddQueueFails, AddPromoteFails, WakeShape
  <2> QED BY <1>4, <2>1, <2>2, <2>3 DEF Failure
<1>5. CASE \E t \in Tasks : ClientStep(t)
  <2> PICK t \in Tasks : ClientStep(t)
    BY <1>5
  <2>1. CASE AddNotify(t)
    <3>1. CASE \E w \in Workers : pc[w] = "wait"
      <4> PICK w \in Workers : pc[w] = "wait" /\ pc' = [pc EXCEPT ![w] = "top"]
        BY <2>1, <3>1 DEF AddNotify, notify_one
      <4>1. pc'[w] = "top"
        BY DEF IInv, TypeOK
      <4> QED BY <4>1 DEF WakeShape
    <3>2. CASE ~\E w \in Workers : pc[w] = "wait"
      BY <2>1, <3>2 DEF AddNotify, notify_one, WakeShape
    <3> QED BY <3>1, <3>2
  <2>2. CASE CancelQueued(t)
    <3>1. queue' # <<>> => queue # <<>>
      <4> SUFFICES ASSUME queue = <<>> PROVE FALSE
        OBVIOUS
      <4>1. t \in Range(queue)
        BY <2>2 DEF CancelQueued, LockFree, IInv, QueueExact, QueuedIn
      <4> QED BY <4>1 DEF Range
    <3> QED BY <2>2, <3>1 DEF CancelQueued, WakeShape
  <2>3. CASE ~(AddNotify(t) \/ CancelQueued(t))
    BY <2>3 DEF ClientStep, AddStage, UpdateTask, CancelRunning, CancelFinished, WakeShape
  <2> QED BY <2>1, <2>2, <2>3
<1>6. CASE \E w \in Workers : WorkerStep(w) \/ Interrupt(w)
  <2> PICK w \in Workers : WorkerStep(w) \/ Interrupt(w)
    BY <1>6
  <2>0. pc \in [Workers -> Place]
    BY DEF IInv, TypeOK
  <2>1. CASE WorkerTop(w)
    BY <2>0, <2>1 DEF WorkerTop, Goto, WakeShape
  <2>2. CASE WorkerFindsEmpty(w)
    BY <2>2 DEF WorkerFindsEmpty, WakeShape
  <2>3. CASE WorkerPop(w)
    <3>1. pc' = [pc EXCEPT ![w] = "starting"]
      BY <2>3, PopsQueued
    <3> QED BY <2>0, <3>1 DEF WakeShape
  <2>4. CASE WorkerWait(w)
    BY <2>0, <2>4 DEF WorkerWait, Goto, WakeShape
  <2>5. CASE WorkerSeesShutdown(w)
    BY <2>5 DEF WorkerSeesShutdown, WakeShape
  <2>6. CASE FinishTask(w)
    <3>1. pc' = [pc EXCEPT ![w] = "finishing"]
      BY <2>6 DEF FinishTask, Goto
    <3> QED BY <2>0, <3>1 DEF WakeShape
  <2>7. CASE WorkerStarted(w) \/ WorkerFinished(w)
    BY <2>0, <2>7 DEF WorkerStarted, WorkerFinished, Goto, WakeShape
  <2>8. CASE \E outcome \in Outcome : ExecutionEnds(w, outcome)
    BY <2>0, <2>8 DEF ExecutionEnds, Goto, WakeShape
  <2>9. CASE Interrupt(w)
    BY <2>9 DEF Interrupt, WakeShape
  <2> QED BY <2>1, <2>2, <2>3, <2>4, <2>5, <2>6, <2>7, <2>8, <2>9 DEF WorkerStep
<1>7. CASE Shutdown
  BY <1>7 DEF Shutdown, WakeShape
<1> QED BY <1>1, <1>2, <1>3, <1>4, <1>5, <1>6, <1>7 DEF Next

\* No wake-up is lost: a non-empty queue of a running manager whose workers all
\* live has a worker coming, a stored permit or a notify_one still to come.
THEOREM QueuedIsNoticed == Spec => []NoLostWakeup
<1>1. Init => WakeShape
  BY DEF Init, WakeShape
<1>2. IInv /\ WakeShape /\ [Next]_vars => WakeShape'
  BY NextWake
<1>3. WakeShape => NoLostWakeup
  BY DEF WakeShape, NoLostWakeup, WillLook
<1> QED BY <1>1, <1>2, <1>3, Invariance, PTL DEF Spec

-----------------------------------------------------------------------------
(* The answer to a cancel remains true.                                    *)

\* What a task that was asked to stop may be recorded as.
Stopping == {"Running", "Failed", "Canceled"}

\* Answers that were given: on disk, so that a restart finds them, and in
\* memory; a task still running after its answer has its token cancelled.
GivenShape ==
  \A t \in Tasks :
    /\ acked[t] = "Forced" =>
         diskTask[t].status = "Canceled" /\ (proc # "down" => task[t].status = "Canceled")
    /\ acked[t] = "Requested" =>
         /\ diskTask[t].status \in Stopping
         /\ proc # "down" => task[t].status \in Stopping
         /\ task[t].status = "Running" => t \in cancelled

\* The answer being prepared: what is no longer left to write is on disk.
PreparedShape ==
  lock.op = "cancel" =>
    /\ lock.reply = "Forced" =>
         /\ lock.task \in Tasks /\ task[lock.task].status = "Canceled"
         /\ lock.task \notin lock.todo => diskTask[lock.task].status = "Canceled"
    /\ lock.reply = "Requested" =>
         /\ lock.task \in Tasks /\ task[lock.task].status = "Running"
         /\ lock.task \in cancelled
         /\ lock.task \notin lock.todo => diskTask[lock.task].status = "Running"

AInv == GivenShape /\ PreparedShape

\* Nothing that was answered or is about to be answered changes.
LEMMA QuietAck ==
  ASSUME AInv, UNCHANGED <<task, diskTask, acked>>, cancelled \subseteq cancelled',
         proc' # "down" => proc # "down",
         lock' = lock \/ lock'.op # "cancel"
  PROVE  AInv'
<1>1. GivenShape'
  BY DEF AInv, GivenShape
<1>2. PreparedShape'
  BY DEF AInv, PreparedShape
<1> QED BY <1>1, <1>2 DEF AInv

\* One record changes in memory while no answer is being prepared.
LEMMA RecordAck ==
  ASSUME IInv, AInv, NEW t \in Tasks, NEW rec, task' = [task EXCEPT ![t] = rec],
         UNCHANGED <<proc, diskTask, acked>>, PreparedShape',
         cancelled \ {t} \subseteq cancelled',
         acked[t] # "Forced",
         acked[t] = "Requested" => /\ rec.status \in Stopping
                                   /\ rec.status = "Running" => t \in cancelled'
  PROVE  AInv'
<1>1. task'[t] = rec /\ \A x \in Tasks \ {t} : task'[x] = task[x]
  BY DEF IInv, TypeOK
<1>2. GivenShape'
  BY <1>1 DEF AInv, GivenShape
<1> QED BY <1>2 DEF AInv

\* The process starts, stops and writes.
LEMMA ProcessAck ==
  ASSUME IInv, AInv
  PROVE  /\ Boot => AInv'
         /\ LoseMemory => AInv'
         /\ \A t \in Tasks : PersistTask(t) => AInv'
         /\ PersistQueue \/ PersistFails => AInv'
<1> USE DEF mem, disk, workers, signals, history
<1>1. ASSUME Boot PROVE AInv'
  <2>1. /\ task' = Loaded /\ lock'.op = "boot" /\ UNCHANGED <<diskTask, acked>>
    BY <1>1 DEF Boot, Holding
  <2>2. \A t \in Tasks :
          /\ diskTask[t].status = "Running" => task'[t].status = "Failed"
          /\ diskTask[t].status # "Running" => task'[t].status = diskTask[t].status
    BY <2>1 DEF Loaded, Recovered, Advance
  <2>3. GivenShape'
    BY <2>1, <2>2 DEF AInv, GivenShape, Stopping
  <2>4. PreparedShape'
    BY <2>1 DEF PreparedShape
  <2> QED BY <2>3, <2>4 DEF AInv
<1>2. ASSUME LoseMemory PROVE AInv'
  <2>1. /\ proc' = "down" /\ task' = [t \in Tasks |-> Absent] /\ lock'.op = "free"
        /\ UNCHANGED <<diskTask, acked>>
    BY <1>2 DEF LoseMemory, Free
  <2> QED BY <2>1 DEF AInv, GivenShape, PreparedShape, Absent
<1>3. ASSUME NEW t \in Tasks, PersistTask(t) PROVE AInv'
  <2>1. /\ proc # "down"
        /\ diskTask' = [diskTask EXCEPT ![t] = task[t]]
        /\ lock'.op = lock.op /\ lock'.task = lock.task /\ lock'.reply = lock.reply
        /\ lock'.todo = lock.todo \ {t}
        /\ UNCHANGED <<proc, task, cancelled, acked>>
    BY <1>3 DEF PersistTask, IInv, TypeOK
  <2>2. diskTask'[t] = task[t] /\ \A x \in Tasks \ {t} : diskTask'[x] = diskTask[x]
    BY <2>1 DEF IInv, TypeOK
  <2>3. GivenShape'
    BY <2>1, <2>2 DEF AInv, GivenShape
  <2>4. PreparedShape'
    BY <2>1, <2>2 DEF AInv, PreparedShape
  <2> QED BY <2>3, <2>4 DEF AInv
<1>4. ASSUME PersistQueue PROVE AInv'
  <2>1. /\ lock'.op = lock.op /\ lock'.task = lock.task /\ lock'.reply = lock.reply
        /\ lock'.todo = lock.todo \ {QueueFile}
        /\ UNCHANGED <<proc, task, diskTask, cancelled, acked>>
    BY <1>4 DEF PersistQueue, IInv, TypeOK
  <2> QED BY <2>1, FileAssumption DEF AInv, GivenShape, PreparedShape
<1>5. ASSUME PersistFails PROVE AInv'
  <2>1. lock'.reply = "Err" /\ UNCHANGED <<proc, task, diskTask, cancelled, acked>>
    BY <1>5 DEF PersistFails, IInv, TypeOK
  <2> QED BY <2>1 DEF AInv, GivenShape, PreparedShape
<1> QED BY <1>1, <1>2, <1>3, <1>4, <1>5

\* cancel_task itself: the memory changes, the files follow, the answer is given.
LEMMA CancelAck ==
  ASSUME IInv, AInv
  PROVE  /\ \A t \in Tasks : CancelQueued(t) => AInv'
         /\ \A t \in Tasks : CancelRunning(t) => AInv'
         /\ \A t \in Tasks : CancelFinished(t) => AInv'
         /\ CancelReply => AInv'
<1> USE DEF mem, disk, workers, signals, history
<1>1. ASSUME NEW t \in Tasks, CancelQueued(t) PROVE AInv'
  <2>1. /\ proc = "up" /\ task[t].status = "Queued"
        /\ task' = [task EXCEPT ![t] = Advance(task[t], "Canceled")]
        /\ lock' = Holding("cancel", t, "Forced", AllFiles(task))
        /\ UNCHANGED <<proc, diskTask, cancelled, acked>>
    BY <1>1 DEF CancelQueued, LockFree
  <2>2. /\ task'[t].status = "Canceled" /\ lock'.reply = "Forced"
        /\ lock'.task = t /\ t \in lock'.todo
    BY <2>1 DEF IInv, TypeOK, Advance, Holding, AllFiles, Present
  <2>3. acked[t] = "none"
    BY <2>1 DEF AInv, GivenShape, Stopping, IInv, TypeOK
  <2>4. PreparedShape'
    BY <2>2 DEF PreparedShape
  <2> QED BY <2>1, <2>3, <2>4, RecordAck
<1>2. ASSUME NEW t \in Tasks, CancelRunning(t) PROVE AInv'
  <2>1. /\ proc = "up" /\ task[t].status = "Running"
        /\ task' = [task EXCEPT ![t] = Advance(task[t], "Running")]
        /\ lock' = Holding("cancel", t, "Requested", AllFiles(task))
        /\ cancelled' = cancelled \cup ({t} \cap running_cancel)
        /\ UNCHANGED <<proc, diskTask, acked>>
    BY <1>2 DEF CancelRunning, LockFree
  <2>2. /\ task'[t].status = "Running" /\ Advance(task[t], "Running").status = "Running"
        /\ lock'.reply = "Requested" /\ lock'.task = t /\ t \in lock'.todo
    BY <2>1 DEF IInv, TypeOK, Advance, Holding, AllFiles, Present
  <2>3. t \in cancelled'
    BY <2>1 DEF IInv, RunningIsOwned
  <2>4. acked[t] # "Forced"
    BY <2>1 DEF AInv, GivenShape
  <2>5. PreparedShape'
    BY <2>2, <2>3 DEF PreparedShape
  <2> QED BY <2>1, <2>2, <2>3, <2>4, <2>5, RecordAck DEF Stopping
<1>3. ASSUME NEW t \in Tasks, CancelFinished(t) PROVE AInv'
  <2>1. lock'.reply = "AlreadyFinished" /\ UNCHANGED <<proc, task, diskTask, cancelled, acked>>
    BY <1>3 DEF CancelFinished, Holding
  <2> QED BY <2>1 DEF AInv, GivenShape, PreparedShape
<1>4. ASSUME CancelReply PROVE AInv'
  <2>1. /\ lock.op = "cancel" /\ lock.todo = {} /\ lock'.op = "free"
        /\ UNCHANGED <<proc, task, diskTask, cancelled>>
    BY <1>4 DEF CancelReply, Written, Free
  <2>2. PreparedShape'
    BY <2>1 DEF PreparedShape
  <2>3. CASE lock.reply \in {"Forced", "Requested"}
    <3>1. lock.task \in Tasks
      BY <2>1, <2>3 DEF AInv, PreparedShape
    <3>2. acked' = [acked EXCEPT ![lock.task] = lock.reply]
      BY <1>4, <2>3 DEF CancelReply
    <3>3. /\ acked'[lock.task] = lock.reply
          /\ \A x \in Tasks \ {lock.task} : acked'[x] = acked[x]
      BY <3>1, <3>2 DEF IInv, TypeOK
    <3>4. GivenShape'
      BY <2>1, <2>3, <3>1, <3>3 DEF AInv, GivenShape, PreparedShape, Stopping
    <3> QED BY <2>2, <3>4 DEF AInv
  <2>4. CASE lock.reply \notin {"Forced", "Requested"}
    <3>1. acked' = acked
      BY <1>4, <2>4 DEF CancelReply
    <3> QED BY <2>1, <2>2, <3>1 DEF AInv, GivenShape
  <2> QED BY <2>3, <2>4
<1> QED BY <1>1, <1>2, <1>3, <1>4

\* Every step keeps the answers true.
LEMMA NextAck == IInv /\ AInv /\ [Next]_vars => AInv'
<1> SUFFICES ASSUME IInv, AInv, [Next]_vars PROVE AInv'
  OBVIOUS
<1> USE DEF mem, disk, workers, signals, history
<1>1. CASE UNCHANGED vars
  BY <1>1, QuietAck DEF vars
<1>2. CASE Boot
  BY <1>2, ProcessAck
<1>3. CASE HolderStep
  <2>1. CASE AddPromote
    <3>1. lock.task \in Tasks /\ proc = "up" /\ task[lock.task].status = "Absent"
      BY <2>1 DEF AddPromote, IInv, AddShape, Absent
    <3> PICK t \in Tasks : t = lock.task
      BY <3>1
    <3>2. /\ task' = [task EXCEPT ![t] = NewTask]
          /\ diskTask' = [diskTask EXCEPT ![t] = NewTask]
          /\ lock'.op = "free" /\ UNCHANGED <<proc, cancelled, acked>>
      BY <2>1 DEF AddPromote, Free
    <3>3. acked[t] = "none"
      BY <3>1 DEF AInv, GivenShape, Stopping, IInv, TypeOK
    <3>4. \A x \in Tasks \ {t} : task'[x] = task[x] /\ diskTask'[x] = diskTask[x]
      BY <3>2 DEF IInv, TypeOK
    <3> QED BY <3>2, <3>3, <3>4 DEF AInv, GivenShape, PreparedShape
  <2>2. CASE BootDone
    BY <2>2, QuietAck DEF BootDone, Free
  <2>3. CASE AddQueue \/ UpdateReply
    <3>1. lock'.op # "cancel" /\ UNCHANGED <<proc, task, diskTask, cancelled, acked>>
      BY <2>3 DEF AddQueue, UpdateReply, Free, IInv, TypeOK
    <3> QED BY <3>1, QuietAck
  <2> QED BY <1>3, <2>1, <2>2, <2>3, ProcessAck, CancelAck DEF HolderStep, BootFails
<1>4. CASE Failure
  <2>1. CASE AddQueueFails \/ AddPromoteFails \/ \E w \in Workers : ExecutorPanics(w)
    <3>1. /\ lock' = lock \/ lock'.op # "cancel"
          /\ UNCHANGED <<proc, task, diskTask, cancelled, acked>>
      BY <2>1 DEF AddQueueFails, AddPromoteFails, ExecutorPanics, Free
    <3> QED BY <3>1, QuietAck
  <2> QED BY <1>4, <2>1, ProcessAck DEF Failure, Crash
<1>5. CASE \E t \in Tasks : ClientStep(t)
  <2> PICK t \in Tasks : ClientStep(t)
    BY <1>5
  <2>1. CASE AddStage(t) \/ AddNotify(t) \/ UpdateTask(t)
    <3>1. /\ lock' = lock \/ lock'.op # "cancel"
          /\ UNCHANGED <<proc, task, diskTask, cancelled, acked>>
      BY <2>1 DEF AddStage, AddNotify, UpdateTask, Holding
    <3> QED BY <3>1, QuietAck
  <2> QED BY <2>1, CancelAck DEF ClientStep
<1>6. CASE \E w \in Workers : WorkerStep(w) \/ Interrupt(w)
  <2> PICK w \in Workers : WorkerStep(w) \/ Interrupt(w)
    BY <1>6
  <2>1. CASE WorkerPop(w)
    <3> PICK t \in Tasks : /\ task[t].status = "Queued"
                           /\ task' = [task EXCEPT ![t] = Advance(@, "Running")]
                           /\ cancelled' = cancelled \ {t}
                           /\ lock' = Holding("start", t, "Ok", AllFiles(task))
                           /\ UNCHANGED <<proc, diskTask, acked>>
      BY <2>1, PopsQueued
    <3>1. proc = "up"
      BY <2>1 DEF WorkerPop, LockFree
    <3>2. acked[t] = "none"
      BY <3>1 DEF AInv, GivenShape, Stopping, IInv, TypeOK
    <3>3. PreparedShape'
      BY DEF PreparedShape, Holding
    <3> QED BY <3>2, <3>3, RecordAck
  <2>2. CASE FinishTask(w)
    <3> PICK t \in Tasks :
          /\ task[t].status = "Running"
          /\ task' = [task EXCEPT ![t] = Advance(@, FinalStatus(result[w], t \in cancelled))]
          /\ cancelled' = cancelled \ {t}
          /\ lock'.op = "finish"
          /\ UNCHANGED <<proc, diskTask, acked>>
      BY <2>2, FinishesRunning
    <3> DEFINE s == FinalStatus(result[w], t \in cancelled)
    <3>1. proc = "up"
      BY <2>2 DEF FinishTask, LockFree
    <3>2. acked[t] # "Forced"
      BY <3>1 DEF AInv, GivenShape
    <3>3. acked[t] = "Requested" => t \in cancelled
      BY DEF AInv, GivenShape
    <3>4. t \in cancelled => s \in {"Canceled", "Failed"}
      BY DEF FinalStatus
    <3> HIDE DEF s
    <3>5. Advance(task[t], s).status = s
      BY DEF Advance
    <3>6. PreparedShape'
      BY DEF PreparedShape
    <3>7. task' = [task EXCEPT ![t] = Advance(task[t], s)]
      BY DEF s
    <3> QED BY <3>2, <3>3, <3>4, <3>5, <3>6, <3>7, RecordAck DEF Stopping
  <2>3. CASE ~(WorkerPop(w) \/ FinishTask(w))
    <3>1. /\ lock' = lock \/ lock'.op # "cancel"
          /\ cancelled \subseteq cancelled'
          /\ UNCHANGED <<proc, task, diskTask, acked>>
      BY <2>3 DEF WorkerStep, WorkerTop, WorkerFindsEmpty, WorkerStarted, WorkerWait,
         WorkerSeesShutdown, ExecutionEnds, WorkerFinished, Interrupt, Free
    <3> QED BY <3>1, QuietAck
  <2> QED BY <2>1, <2>2, <2>3
<1>7. CASE Shutdown
  BY <1>7, QuietAck DEF Shutdown
<1> QED BY <1>1, <1>2, <1>3, <1>4, <1>5, <1>6, <1>7 DEF Next

\* What cancel_task answered holds for good: a task reported as canceled before
\* execution stays Canceled, one reported as asked to stop never completes,
\* whatever result its execution returns and whatever crashes.
THEOREM CancelAnswerHolds == Spec => []CancelAckHolds
<1>1. Init => AInv
  BY DEF Init, AInv, GivenShape, PreparedShape, Free
<1>2. IInv /\ AInv /\ [Next]_vars => AInv'
  BY NextAck
<1>3. AInv => CancelAckHolds
  BY DEF AInv, GivenShape, CancelAckHolds, Stopping
<1> QED BY <1>1, <1>2, <1>3, Invariance, PTL DEF Spec

-----------------------------------------------------------------------------
(* What the files hold: a task that add_task accepted is never lost, and   *)
(* without a failed write the files equal the memory whenever the mutex is *)
(* free.  Both rest on IInv.                                               *)

\* What the holder of the mutex has left to write: nothing outside of a
\* persist, and only records that exist.
TodoShape ==
  /\ lock.op \in {"free", "add_queue", "add_promote"} => lock.todo = {}
  /\ \A t \in Tasks : t \in lock.todo => task[t].status # "Absent"

\* A record exists in memory exactly when it has a file; a task that was
\* accepted, or is about to be, has one.
StoreShape ==
  /\ proc # "down" =>
       \A t \in Tasks : task[t].status = "Absent" <=> diskTask[t].status = "Absent"
  /\ \A t \in accepted \cup notifying : diskTask[t].status # "Absent"

\* Until a write fails, what is not left to write is on disk; between the two
\* writes of an add the queue file is one entry ahead.
SyncShape ==
  faults = 0 /\ proc # "down" =>
    /\ \A t \in Tasks : t \notin lock.todo => diskTask[t] = task[t]
    /\ QueueFile \notin lock.todo =>
         diskQueue = IF lock.op = "add_promote" THEN Append(queue, lock.task) ELSE queue

DInv == TodoShape /\ StoreShape /\ SyncShape

\* The parts of the state that DInv is about.
dvars == <<proc, task, queue, lock, diskTask, diskQueue, accepted, notifying, faults>>

\* At first nothing exists, in memory or on disk.
LEMMA InitDisk == Init => DInv
BY DEF Init, DInv, TodoShape, StoreShape, SyncShape, Free, Absent

\* A step that changes none of these parts keeps DInv.
LEMMA QuietDisk == ASSUME DInv, UNCHANGED dvars PROVE DInv'
BY DEF dvars, DInv, TodoShape, StoreShape, SyncShape

\* A step that only passes the mutex on after everything was written.
LEMMA ReleaseDisk ==
  ASSUME DInv, lock' = Free, lock.todo = {}, lock.op # "add_promote",
         UNCHANGED <<task, queue, diskTask, diskQueue, accepted, notifying, faults>>,
         proc # "down"
  PROVE  DInv'
<1>1. TodoShape'
  BY DEF Free, TodoShape
<1>2. StoreShape'
  BY DEF DInv, StoreShape
<1>3. SyncShape'
  BY DEF DInv, SyncShape, Free
<1> QED BY <1>1, <1>2, <1>3 DEF DInv

\* An operation that takes the free mutex, changes existing records and the
\* queue, and sets out to write every file (persist_all_locked).
LEMMA PersistAllDisk ==
  ASSUME DInv, IInv, LockFree, NEW op, NEW x, NEW reply,
         lock' = Holding(op, x, reply, AllFiles(task)),
         op \notin {"free", "add_queue", "add_promote"},
         \A t \in Tasks : task'[t].status = "Absent" <=> task[t].status = "Absent",
         \A t \in Tasks : task[t].status = "Absent" => task'[t] = task[t],
         UNCHANGED <<proc, diskTask, diskQueue, accepted, notifying, faults>>
  PROVE  DInv'
<1>1. lock'.op = op /\ lock'.todo = Present(task) \cup {QueueFile}
  BY DEF Holding, AllFiles
<1>2. TodoShape'
  BY <1>1, FileAssumption DEF TodoShape, Present
<1>3. StoreShape'
  BY DEF DInv, StoreShape
<1>4. SyncShape'
  <2> SUFFICES ASSUME faults = 0, proc # "down", NEW t \in Tasks, t \notin lock'.todo
               PROVE  diskTask'[t] = task'[t]
    BY <1>1 DEF SyncShape
  <2>1. task[t].status = "Absent"
    BY <1>1 DEF Present
  <2>2. diskTask[t] = task[t]
    BY DEF DInv, SyncShape, LockFree, Free
  <2> QED BY <2>1, <2>2
<1> QED BY <1>2, <1>3, <1>4 DEF DInv

\* The writes of persist_all_locked and their failure.
LEMMA PersistDisk ==
  ASSUME DInv, IInv
  PROVE  /\ PersistQueue => DInv'
         /\ \A t \in Tasks : PersistTask(t) => DInv'
         /\ PersistFails => DInv'
<1> USE DEF mem, workers, signals, history
<1>1. ASSUME PersistQueue PROVE DInv'
  <2>1. /\ lock'.op = lock.op /\ lock'.todo = lock.todo \ {QueueFile}
        /\ QueueFile \in lock.todo /\ diskQueue' = queue
        /\ UNCHANGED <<proc, task, queue, diskTask, accepted, notifying, faults>>
    BY <1>1 DEF PersistQueue, IInv, TypeOK
  <2>2. TodoShape'
    BY <2>1 DEF DInv, TodoShape
  <2>3. StoreShape'
    BY <2>1 DEF DInv, StoreShape
  <2>4. SyncShape'
    <3>1. lock.op # "add_promote"
      BY <2>1 DEF DInv, TodoShape
    <3> QED BY <2>1, <3>1, FileAssumption DEF DInv, SyncShape
  <2> QED BY <2>2, <2>3, <2>4 DEF DInv
<1>2. ASSUME NEW t \in Tasks, PersistTask(t) PROVE DInv'
  <2>1. /\ lock'.op = lock.op /\ lock'.todo = lock.todo \ {t} /\ lock'.task = lock.task
        /\ QueueFile \notin lock.todo /\ t \in lock.todo
        /\ diskTask' = [diskTask EXCEPT ![t] = task[t]]
        /\ UNCHANGED <<proc, task, queue, diskQueue, accepted, notifying, faults>>
    BY <1>2 DEF PersistTask, IInv, TypeOK
  <2>2. /\ diskTask'[t] = task[t] /\ task[t].status # "Absent"
        /\ \A x \in Tasks \ {t} : diskTask'[x] = diskTask[x]
    BY <2>1 DEF DInv, TodoShape, IInv, TypeOK
  <2>3. TodoShape'
    BY <2>1 DEF DInv, TodoShape
  <2>4. StoreShape'
    <3>1. accepted \cup notifying \subseteq Tasks
      BY DEF IInv, TypeOK
    <3> QED BY <2>1, <2>2, <3>1 DEF DInv, StoreShape
  <2>5. SyncShape'
    BY <2>1, <2>2 DEF DInv, SyncShape
  <2> QED BY <2>3, <2>4, <2>5 DEF DInv
<1>3. ASSUME PersistFails PROVE DInv'
  <2>1. /\ lock'.todo = {} /\ faults' # 0
        /\ UNCHANGED <<proc, task, queue, diskTask, diskQueue, accepted, notifying>>
    BY <1>3 DEF PersistFails, Fault, IInv, TypeOK, disk
  <2> QED BY <2>1 DEF DInv, TodoShape, StoreShape, SyncShape
<1> QED BY <1>1, <1>2, <1>3

\* Starting and losing the memory leave the files alone; load_state takes in
\* every file and rewrites the records it changes.
LEMMA ProcessDisk ==
  ASSUME DInv, IInv
  PROVE  /\ Boot => DInv'
         /\ BootDone => DInv'
         /\ LoseMemory => DInv'
<1> USE DEF mem, disk, signals, history
<1>1. ASSUME Boot PROVE DInv'
  <2>1. /\ proc' = "boot" /\ task' = Loaded
        /\ lock' = Holding("boot", NoTask, "Ok",
                     {QueueFile} \cup {t \in Tasks : diskTask[t].status = "Running"})
        /\ UNCHANGED <<diskTask, diskQueue, accepted, notifying, faults>>
    BY <1>1 DEF Boot
  <2>2. \A t \in Tasks :
          /\ diskTask[t].status = "Running" => task'[t].status = "Failed"
          /\ diskTask[t].status # "Running" => task'[t] = diskTask[t]
    BY <2>1 DEF Loaded, Recovered, Advance
  <2>3. /\ lock'.op = "boot" /\ QueueFile \in lock'.todo
        /\ \A t \in Tasks : t \in lock'.todo <=> diskTask[t].status = "Running"
    BY <2>1, FileAssumption DEF Holding
  <2>4. TodoShape'
    BY <2>2, <2>3 DEF TodoShape
  <2>5. StoreShape'
    BY <2>1, <2>2 DEF DInv, StoreShape
  <2>6. SyncShape'
    BY <2>1, <2>2, <2>3 DEF SyncShape
  <2> QED BY <2>4, <2>5, <2>6 DEF DInv
<1>2. ASSUME BootDone PROVE DInv'
  <2>1. /\ lock' = Free /\ lock.todo = {} /\ lock.op # "add_promote" /\ proc # "down"
        /\ UNCHANGED <<task, queue, diskTask, diskQueue, accepted, notifying, faults>>
    BY <1>2 DEF BootDone, Written
  <2> QED BY <2>1, ReleaseDisk
<1>3. ASSUME LoseMemory PROVE DInv'
  <2>1. /\ proc' = "down" /\ lock' = Free /\ notifying' = {}
        /\ UNCHANGED <<diskTask, accepted>>
    BY <1>3 DEF LoseMemory
  <2>2. TodoShape'
    BY <2>1 DEF TodoShape, Free
  <2>3. StoreShape'
    BY <2>1 DEF DInv, StoreShape
  <2>4. SyncShape'
    BY <2>1 DEF SyncShape
  <2> QED BY <2>2, <2>3, <2>4 DEF DInv
<1> QED BY <1>1, <1>2, <1>3

\* add_task: the queue file runs one entry ahead of the memory until the
\* record is promoted and published in one step; only then is it announced.
LEMMA AddDisk ==
  ASSUME DInv, IInv
  PROVE  /\ \A t \in Tasks : AddStage(t) \/ AddNotify(t) => DInv'
         /\ AddQueue \/ AddQueueFails \/ AddPromote \/ AddPromoteFails => DInv'
<1> USE DEF mem, disk, workers, signals, history
<1>1. ASSUME NEW t \in Tasks, AddStage(t) PROVE DInv'
  <2>1. /\ lock = Free /\ lock' = Holding("add_queue", t, "Ok", {})
        /\ UNCHANGED <<proc, task, queue, diskTask, diskQueue, accepted, notifying, faults>>
    BY <1>1 DEF AddStage, LockFree
  <2>2. TodoShape' /\ StoreShape'
    BY <2>1 DEF DInv, TodoShape, StoreShape, Holding
  <2>3. SyncShape'
    BY <2>1 DEF DInv, SyncShape, Holding, Free
  <2> QED BY <2>2, <2>3 DEF DInv
<1>2. ASSUME NEW t \in Tasks, AddNotify(t) PROVE DInv'
  <2>1. /\ t \in notifying /\ notifying' = notifying \ {t} /\ accepted' = accepted \cup {t}
        /\ UNCHANGED <<proc, task, queue, lock, diskTask, diskQueue, faults>>
    BY <1>2 DEF AddNotify
  <2> QED BY <2>1 DEF DInv, TodoShape, StoreShape, SyncShape
<1>3. ASSUME AddQueue PROVE DInv'
  <2>1. /\ lock.op = "add_queue" /\ lock'.op = "add_promote"
        /\ lock'.task = lock.task /\ lock'.todo = lock.todo
        /\ diskQueue' = Append(queue, lock.task)
        /\ UNCHANGED <<proc, task, queue, diskTask, accepted, notifying, faults>>
    BY <1>3 DEF AddQueue, IInv, TypeOK
  <2> QED BY <2>1 DEF DInv, TodoShape, StoreShape, SyncShape
<1>4. ASSUME AddQueueFails \/ AddPromoteFails PROVE DInv'
  <2>1. /\ lock' = Free /\ faults' # 0
        /\ UNCHANGED <<proc, task, diskTask, accepted, notifying>>
    BY <1>4 DEF AddQueueFails, AddPromoteFails, Fault, IInv, TypeOK
  <2> QED BY <2>1 DEF DInv, TodoShape, StoreShape, SyncShape, Free
<1>5. ASSUME AddPromote PROVE DInv'
  <2>1. lock.task \in Tasks /\ proc = "up" /\ lock.todo = {} /\ lock.op = "add_promote"
    BY <1>5 DEF AddPromote, DInv, TodoShape, IInv, AddShape
  <2>2. /\ lock' = Free
        /\ diskTask' = [diskTask EXCEPT ![lock.task] = NewTask]
        /\ task' = [task EXCEPT ![lock.task] = NewTask]
        /\ queue' = Append(queue, lock.task)
        /\ notifying' = notifying \cup {lock.task}
        /\ UNCHANGED <<proc, diskQueue, accepted, faults>>
    BY <1>5 DEF AddPromote
  <2> PICK t \in Tasks : t = lock.task
    BY <2>1
  <2>3. /\ diskTask'[t] = NewTask /\ task'[t] = NewTask /\ NewTask.status # "Absent"
        /\ \A x \in Tasks \ {t} : diskTask'[x] = diskTask[x] /\ task'[x] = task[x]
    BY <2>2 DEF IInv, TypeOK, NewTask
  <2>4. TodoShape'
    BY <2>2 DEF TodoShape, Free
  <2>5. StoreShape'
    <3>1. accepted \cup notifying \subseteq Tasks
      BY DEF IInv, TypeOK
    <3> QED BY <2>1, <2>2, <2>3, <3>1 DEF DInv, StoreShape
  <2>6. SyncShape'
    BY <2>1, <2>2, <2>3 DEF DInv, SyncShape, Free
  <2> QED BY <2>4, <2>5, <2>6 DEF DInv
<1> QED BY <1>1, <1>2, <1>3, <1>4, <1>5

\* cancel_task, updates and their answers.
LEMMA ClientDisk ==
  ASSUME DInv, IInv
  PROVE  /\ \A t \in Tasks : CancelQueued(t) \/ CancelRunning(t) \/ CancelFinished(t)
                             \/ UpdateTask(t) => DInv'
         /\ CancelReply \/ UpdateReply => DInv'
<1> USE DEF mem, disk, workers, signals, history
<1>1. ASSUME NEW t \in Tasks, CancelQueued(t) PROVE DInv'
  <2>1. /\ LockFree /\ task[t].status = "Queued"
        /\ task' = [task EXCEPT ![t] = Advance(@, "Canceled")]
        /\ lock' = Holding("cancel", t, "Forced", AllFiles(task))
        /\ UNCHANGED <<proc, diskTask, diskQueue, accepted, notifying, faults>>
    BY <1>1 DEF CancelQueued
  <2>2. task'[t].status = "Canceled" /\ \A x \in Tasks \ {t} : task'[x] = task[x]
    BY <2>1 DEF IInv, TypeOK, Advance
  <2> QED BY <2>1, <2>2, PersistAllDisk
<1>2. ASSUME NEW t \in Tasks, CancelRunning(t) PROVE DInv'
  <2>1. /\ LockFree /\ task[t].status = "Running"
        /\ task' = [task EXCEPT ![t] = Advance(@, "Running")]
        /\ lock' = Holding("cancel", t, "Requested", AllFiles(task))
        /\ UNCHANGED <<proc, diskTask, diskQueue, accepted, notifying, faults>>
    BY <1>2 DEF CancelRunning
  <2>2. task'[t].status = "Running" /\ \A x \in Tasks \ {t} : task'[x] = task[x]
    BY <2>1 DEF IInv, TypeOK, Advance
  <2> QED BY <2>1, <2>2, PersistAllDisk
<1>3. ASSUME NEW t \in Tasks, CancelFinished(t) PROVE DInv'
  <2>1. /\ LockFree /\ task' = task
        /\ lock' = Holding("cancel", t, "AlreadyFinished", AllFiles(task))
        /\ UNCHANGED <<proc, diskTask, diskQueue, accepted, notifying, faults>>
    BY <1>3 DEF CancelFinished
  <2> QED BY <2>1, PersistAllDisk
<1>4. ASSUME NEW t \in Tasks, UpdateTask(t) PROVE DInv'
  <2>1. /\ lock = Free /\ task[t].status # "Absent"
        /\ lock' = Holding("update", t, "Ok", {t})
        /\ UNCHANGED <<proc, task, queue, diskTask, diskQueue, accepted, notifying, faults>>
    BY <1>4 DEF UpdateTask, LockFree, Present
  <2>2. TodoShape' /\ StoreShape'
    BY <2>1 DEF DInv, TodoShape, StoreShape, Holding
  <2>3. SyncShape'
    BY <2>1 DEF DInv, SyncShape, Holding, Free
  <2> QED BY <2>2, <2>3 DEF DInv
<1>5. ASSUME CancelReply \/ UpdateReply PROVE DInv'
  <2>1. /\ lock' = Free /\ lock.todo = {} /\ lock.op \in {"cancel", "update"}
        /\ UNCHANGED <<proc, task, queue, diskTask, diskQueue, accepted, notifying, faults>>
    BY <1>5 DEF CancelReply, UpdateReply, Written
  <2>2. proc # "down"
    BY <2>1 DEF IInv, ProcessShape, Free
  <2> QED BY <2>1, <2>2, ReleaseDisk
<1> QED BY <1>1, <1>2, <1>3, <1>4, <1>5

\* Workers: a pop and a finish rewrite everything, the rest writes nothing.
LEMMA WorkerDisk ==
  ASSUME DInv, IInv, NEW w \in Workers
  PROVE  /\ WorkerPop(w) => DInv'
         /\ FinishTask(w) => DInv'
         /\ WorkerStarted(w) \/ WorkerFinished(w) => DInv'
         /\ WorkerTop(w) \/ WorkerFindsEmpty(w) \/ WorkerWait(w) \/ WorkerSeesShutdown(w)
            \/ Interrupt(w) \/ ExecutorPanics(w) => DInv'
         /\ \A outcome \in Outcome : ExecutionEnds(w, outcome) => DInv'
<1> USE DEF mem, disk, workers, signals, history
<1>1. ASSUME WorkerPop(w) PROVE DInv'
  <2>1. LockFree /\ queue # <<>>
    BY <1>1 DEF WorkerPop
  <2> PICK t \in Tasks : t = Head(queue)
    BY <2>1, PopLemma DEF IInv, TypeOK
  <2>2. task[t].status = "Queued"
    <3>1. t \in Range(queue)
      BY <2>1, PopLemma DEF IInv, TypeOK, QueueExact, LockFree
    <3> QED BY <2>1, <3>1 DEF IInv, QueueExact, QueuedIn, LockFree
  <2>3. /\ task' = [task EXCEPT ![t] = Advance(@, "Running")]
        /\ lock' = Holding("start", t, "Ok", AllFiles(task))
        /\ UNCHANGED <<proc, diskTask, diskQueue, accepted, notifying, faults>>
    BY <1>1, <2>2 DEF WorkerPop
  <2>4. task'[t].status = "Running" /\ \A x \in Tasks \ {t} : task'[x] = task[x]
    BY <2>3 DEF IInv, TypeOK, Advance
  <2> QED BY <2>1, <2>2, <2>3, <2>4, PersistAllDisk
<1>2. ASSUME FinishTask(w) PROVE DInv'
  <2>1. LockFree /\ pc[w] = "ended"
    BY <1>2 DEF FinishTask
  <2> PICK t \in Tasks : t = current[w]
    BY <2>1 DEF IInv, OwnerShape, OwnerPlaces
  <2> DEFINE s == FinalStatus(result[w], t \in cancelled)
  <2>2. task[t].status = "Running"
    BY <2>1 DEF IInv, RunningIsOwned, Owns, OwnerPlaces
  <2>3. s # "Absent"
    BY DEF FinalStatus
  <2>4. /\ task' = [task EXCEPT ![t] = Advance(@, s)]
        /\ UNCHANGED <<proc, queue, diskTask, diskQueue, accepted, notifying>>
        /\ \/ lock' = Holding("finish", t, "Ok", AllFiles(task)) /\ faults' = faults
           \/ lock' = Holding("finish", t, "Err", {}) /\ faults' = faults + 1
    BY <1>2 DEF FinishTask, Fault
  <2>5. task'[t].status = s /\ \A x \in Tasks \ {t} : task'[x] = task[x]
    <3> HIDE DEF s
    <3> QED BY <2>4 DEF IInv, TypeOK, Advance
  <2> HIDE DEF s
  <2>6. CASE lock' = Holding("finish", t, "Ok", AllFiles(task)) /\ faults' = faults
    BY <2>1, <2>2, <2>3, <2>4, <2>5, <2>6, PersistAllDisk
  <2>7. CASE lock' = Holding("finish", t, "Err", {}) /\ faults' = faults + 1
    <3>1. faults' # 0 /\ lock'.todo = {}
      BY <2>7 DEF IInv, TypeOK, Holding
    <3>2. TodoShape' /\ SyncShape'
      BY <3>1 DEF TodoShape, SyncShape
    <3>3. StoreShape'
      BY <2>2, <2>3, <2>4, <2>5 DEF DInv, StoreShape
    <3> QED BY <3>2, <3>3 DEF DInv
  <2> QED BY <2>4, <2>6, <2>7
<1>3. ASSUME WorkerStarted(w) \/ WorkerFinished(w) PROVE DInv'
  <2>1. /\ lock' = Free /\ lock.todo = {} /\ lock.op \in {"start", "finish"}
        /\ UNCHANGED <<proc, task, queue, diskTask, diskQueue, accepted, notifying, faults>>
    BY <1>3 DEF WorkerStarted, WorkerFinished, Written
  <2>2. proc # "down"
    BY <2>1 DEF IInv, ProcessShape, Free
  <2> QED BY <2>1, <2>2, ReleaseDisk
<1>4. ASSUME WorkerTop(w) \/ WorkerFindsEmpty(w) \/ WorkerWait(w) \/ WorkerSeesShutdown(w)
             \/ Interrupt(w) \/ ExecutorPanics(w)
      PROVE  DInv'
  <2>1. UNCHANGED dvars
    BY <1>4 DEF WorkerTop, WorkerFindsEmpty, WorkerWait, WorkerSeesShutdown, Interrupt,
       ExecutorPanics, dvars
  <2> QED BY <2>1, QuietDisk
<1>5. ASSUME NEW outcome \in Outcome, ExecutionEnds(w, outcome) PROVE DInv'
  <2>1. UNCHANGED dvars
    BY <1>5 DEF ExecutionEnds, dvars
  <2> QED BY <2>1, QuietDisk
<1> QED BY <1>1, <1>2, <1>3, <1>4, <1>5

-----------------------------------------------------------------------------
\* Every step keeps what the files promise.
LEMMA NextDisk == IInv /\ DInv /\ [Next]_vars => DInv'
<1> SUFFICES ASSUME IInv, DInv, [Next]_vars PROVE DInv'
  OBVIOUS
<1>1. CASE UNCHANGED vars
  BY <1>1, QuietDisk DEF vars, mem, disk, signals, history, dvars
<1>2. CASE Boot
  BY <1>2, ProcessDisk
<1>3. CASE HolderStep
  BY <1>3, PersistDisk, ProcessDisk, AddDisk, ClientDisk DEF HolderStep, BootFails
<1>4. CASE Failure
  BY <1>4, PersistDisk, ProcessDisk, AddDisk, WorkerDisk DEF Failure, Crash
<1>5. CASE \E t \in Tasks : ClientStep(t)
  BY <1>5, AddDisk, ClientDisk DEF ClientStep
<1>6. CASE \E w \in Workers : WorkerStep(w) \/ Interrupt(w)
  BY <1>6, WorkerDisk DEF WorkerStep
<1>7. CASE Shutdown
  <2>1. UNCHANGED dvars
    BY <1>7 DEF Shutdown, mem, disk, history, dvars
  <2> QED BY <2>1, QuietDisk
<1> QED BY <1>1, <1>2, <1>3, <1>4, <1>5, <1>6, <1>7 DEF Next

\* So does the invariant of the files.
LEMMA DiskInvariance == Spec => [](IInv /\ DInv)
<1>1. Init => DInv
  BY InitDisk
<1>2. IInv /\ DInv /\ [Next]_vars => DInv'
  BY NextDisk
<1> QED BY <1>1, <1>2, Invariance, PTL DEF Spec

\* A task that add_task reported as accepted keeps its file through every
\* failed write, crash and restart, and is in memory while a manager runs.
THEOREM AcceptedIsKept == Spec => []AcceptedNeverLost
<1>1. IInv /\ DInv => AcceptedNeverLost
  <2> SUFFICES ASSUME IInv, DInv, NEW t \in accepted
               PROVE  diskTask[t] # Absent /\ (proc # "down" => task[t] # Absent)
    BY DEF AcceptedNeverLost
  <2>1. t \in Tasks
    BY DEF IInv, TypeOK
  <2> QED BY <2>1 DEF DInv, StoreShape, Absent
<1> QED BY <1>1, DiskInvariance, PTL

\* Until a write fails, the files equal the memory whenever the mutex is free.
THEOREM FilesFollowMemory == Spec => []DiskMatchesMemory
<1>1. IInv /\ DInv => DiskMatchesMemory
  <2> SUFFICES ASSUME IInv, DInv, LockFree, faults = 0
               PROVE  diskTask = task /\ diskQueue = queue
    BY DEF DiskMatchesMemory
  <2>1. diskQueue = queue /\ \A t \in Tasks : diskTask[t] = task[t]
    BY DEF DInv, SyncShape, LockFree, Free
  <2> QED BY <2>1 DEF IInv, TypeOK
<1> QED BY <1>1, DiskInvariance, PTL

-----------------------------------------------------------------------------
(***************************************************************************)
(* How often an execution of one task begins: at most once, plus once for  *)
(* every operation in which a write failed, through any number of crashes. *)
(***************************************************************************)

\* A worker is about to begin t.
Starting(t) == \E w \in Workers : pc[w] = "starting" /\ current[w] = t

\* t may begin (again): it waits in memory, a worker is about to begin it, or
\* its file would make it wait after a restart.
Startable(t) ==
  \/ diskTask[t].status \in {"Absent", "Queued"}
  \/ proc # "down" /\ task[t].status \in {"Absent", "Queued"}
  \/ Starting(t)

\* The worker that is about to begin a task holds the mutex, and the task is Running.
StartShape ==
  /\ \A w \in Workers : pc[w] = "starting" => lock.op = "start" /\ lock.task = current[w]
  /\ lock.op = "start" => lock.task \in Tasks /\ task[lock.task].status = "Running"

\* The Running record about to be executed did not reach its file.
Unrecorded(t) ==
  lock.op = "start" /\ lock.task = t /\ t \notin lock.todo /\ diskTask[t].status = "Queued"

\* A task that may begin has a beginning to spare, one whose start was not
\* recorded has two.
ExecShape ==
  \A t \in Tasks : /\ runs[t] <= 1 + faults
                   /\ Startable(t) => runs[t] <= faults
                   /\ Unrecorded(t) => runs[t] + 1 <= faults

EInv == StartShape /\ ExecShape

\* Nothing has begun.
LEMMA InitExec == Init => EInv
BY DEF Init, EInv, StartShape, ExecShape, Unrecorded, Free

\* A step that begins no execution and makes no task startable.
LEMMA FrameExec ==
  ASSUME IInv, EInv, StartShape', runs' = runs, faults' \in Nat, faults' >= faults,
         \A t \in Tasks : Startable(t)' => Startable(t),
         \A t \in Tasks : Unrecorded(t)' => Unrecorded(t)
  PROVE  EInv'
<1>1. \A t \in Tasks : runs[t] \in Nat /\ faults \in Nat
  BY DEF IInv, TypeOK
<1> QED BY <1>1 DEF EInv, ExecShape

\* The mutex goes from a holder other than a starting worker to another such
\* holder, or to nobody; no record becomes Queued.
LEMMA OtherExec ==
  ASSUME IInv, EInv, lock.op # "start", lock'.op # "start",
         runs' = runs, faults' \in {faults, faults + 1},
         \A w \in Workers : pc'[w] # "starting",
         \A t \in Tasks : diskTask'[t].status \in {"Absent", "Queued"} => Startable(t),
         \A t \in Tasks : proc' # "down" /\ task'[t].status \in {"Absent", "Queued"}
                            => Startable(t)
  PROVE  EInv'
<1>1. StartShape'
  BY DEF StartShape
<1>2. \A t \in Tasks : Startable(t)' => Startable(t)
  BY DEF Startable, Starting
<1>3. \A t \in Tasks : ~Unrecorded(t)'
  BY DEF Unrecorded
<1>4. faults' \in Nat /\ faults' >= faults
  BY DEF IInv, TypeOK
<1> QED BY <1>1, <1>2, <1>3, <1>4, FrameExec

\* Nothing this invariant is about changes.
LEMMA QuietExec ==
  ASSUME IInv, EInv, UNCHANGED <<proc, task, lock, diskTask, current, runs, faults>>,
         \A w \in Workers : pc'[w] = "starting" <=> pc[w] = "starting"
  PROVE  EInv'
BY DEF EInv, StartShape, ExecShape, Startable, Starting, Unrecorded

\* While no worker holds the mutex to begin a task, none is at that place.
LEMMA NoneStarting ==
  ASSUME EInv, lock.op # "start" PROVE \A w \in Workers : pc[w] # "starting"
BY DEF EInv, StartShape

\* The writes of the mutex holder and their failure.
LEMMA PersistExec ==
  ASSUME IInv, EInv, DInv
  PROVE  /\ PersistQueue => EInv'
         /\ \A t \in Tasks : PersistTask(t) => EInv'
         /\ PersistFails => EInv'
<1> USE DEF mem, disk, workers, signals, history
<1>0. \A t \in Tasks : runs[t] \in Nat /\ faults \in Nat
  BY DEF IInv, TypeOK
<1>1. ASSUME PersistQueue PROVE EInv'
  <2>1. /\ lock'.op = lock.op /\ lock'.task = lock.task /\ lock'.todo = lock.todo \ {QueueFile}
        /\ UNCHANGED <<proc, task, diskTask, pc, current, runs, faults>>
    BY <1>1 DEF PersistQueue, IInv, TypeOK
  <2> QED BY <2>1, FileAssumption
      DEF EInv, StartShape, ExecShape, Startable, Starting, Unrecorded
<1>2. ASSUME NEW t \in Tasks, PersistTask(t) PROVE EInv'
  <2>1. /\ lock'.op = lock.op /\ lock'.task = lock.task /\ lock'.todo = lock.todo \ {t}
        /\ proc # "down" /\ t \in lock.todo
        /\ diskTask' = [diskTask EXCEPT ![t] = task[t]]
        /\ UNCHANGED <<proc, task, pc, current, runs, faults>>
    BY <1>2 DEF PersistTask, IInv, TypeOK
  <2>2. diskTask'[t] = task[t] /\ \A x \in Tasks \ {t} : diskTask'[x] = diskTask[x]
    BY <2>1 DEF IInv, TypeOK
  <2>3. StartShape'
    BY <2>1 DEF EInv, StartShape
  <2>4. \A x \in Tasks : Startable(x)' => Startable(x)
    BY <2>1, <2>2 DEF Startable, Starting
  <2>5. \A x \in Tasks : Unrecorded(x)' => Unrecorded(x)
    BY <2>1, <2>2 DEF Unrecorded, EInv, StartShape
  <2> QED BY <1>0, <2>1, <2>3, <2>4, <2>5, FrameExec
<1>3. ASSUME PersistFails PROVE EInv'
  <2>1. /\ lock'.op = lock.op /\ lock'.task = lock.task /\ faults' = faults + 1
        /\ UNCHANGED <<proc, task, diskTask, pc, current, runs>>
    BY <1>3 DEF PersistFails, Fault, IInv, TypeOK
  <2>2. StartShape'
    BY <2>1 DEF EInv, StartShape
  <2>3. \A t \in Tasks : Startable(t)' <=> Startable(t)
    BY <2>1 DEF Startable, Starting
  <2>4. \A t \in Tasks : Unrecorded(t)' => Startable(t)
    BY <2>1 DEF Unrecorded, Startable
  <2>5. faults \in Nat
    BY DEF IInv, TypeOK
  <2> QED BY <1>0, <2>1, <2>2, <2>3, <2>4, <2>5 DEF EInv, ExecShape
<1> QED BY <1>1, <1>2, <1>3

\* Starting and stopping the process: load_state takes Queued records as they
\* are, so only what the files already promised is startable.
LEMMA ProcessExec ==
  ASSUME IInv, EInv
  PROVE  /\ Boot => EInv'
         /\ BootDone => EInv'
         /\ LoseMemory => EInv'
<1> USE DEF mem, disk, workers, signals, history
<1>1. ASSUME Boot PROVE EInv'
  <2>1. /\ proc = "down" /\ task' = Loaded /\ lock = Free /\ lock'.op = "boot"
        /\ UNCHANGED <<diskTask, pc, current, runs, faults>>
    BY <1>1 DEF Boot, Holding, IInv, ProcessShape
  <2>2. \A t \in Tasks : task'[t].status \in {"Absent", "Queued"} =>
                           diskTask[t].status \in {"Absent", "Queued"}
    BY <2>1 DEF Loaded, Recovered, Advance
  <2>3. lock.op # "start"
    BY <2>1 DEF Free
  <2> QED BY <2>1, <2>2, <2>3, NoneStarting, OtherExec DEF Startable
<1>2. ASSUME BootDone PROVE EInv'
  <2>1. /\ lock.op = "boot" /\ lock' = Free /\ proc # "down"
        /\ \A w \in Workers : pc'[w] # "starting"
        /\ UNCHANGED <<task, diskTask, runs, faults>>
    BY <1>2 DEF BootDone, Written
  <2> QED BY <2>1, OtherExec DEF Startable, Free
<1>3. ASSUME LoseMemory PROVE EInv'
  <2>1. /\ proc' = "down" /\ lock' = Free /\ \A w \in Workers : pc'[w] # "starting"
        /\ UNCHANGED <<diskTask, runs, faults>>
    BY <1>3 DEF LoseMemory
  <2>2. StartShape' /\ \A t \in Tasks : ~Unrecorded(t)'
    BY <2>1 DEF StartShape, Unrecorded, Free
  <2>3. \A t \in Tasks : Startable(t)' => Startable(t)
    BY <2>1 DEF Startable, Starting
  <2>4. faults \in Nat
    BY DEF IInv, TypeOK
  <2> QED BY <2>1, <2>2, <2>3, <2>4, FrameExec
<1> QED BY <1>1, <1>2, <1>3

\* Adding: a task that is published was absent, so it was startable before.
LEMMA AddExec ==
  ASSUME IInv, EInv
  PROVE  /\ \A t \in Tasks : AddStage(t) \/ AddNotify(t) => EInv'
         /\ AddQueue \/ AddQueueFails \/ AddPromote \/ AddPromoteFails => EInv'
<1> USE DEF mem, disk, workers, signals, history
<1>1. ASSUME NEW t \in Tasks, AddStage(t) PROVE EInv'
  <2>1. /\ lock.op # "start" /\ lock'.op # "start"
        /\ UNCHANGED <<proc, task, diskTask, pc, current, runs, faults>>
    BY <1>1 DEF AddStage, LockFree, Free, Holding
  <2> QED BY <2>1, NoneStarting, OtherExec DEF Startable
<1>2. ASSUME NEW t \in Tasks, AddNotify(t) PROVE EInv'
  <2>1. UNCHANGED <<proc, task, lock, diskTask, current, runs, faults>>
    BY <1>2 DEF AddNotify
  <2>2. \A w \in Workers : pc'[w] = "starting" <=> pc[w] = "starting"
    BY <1>2 DEF AddNotify, notify_one, IInv, TypeOK
  <2> QED BY <2>1, <2>2, QuietExec
<1>3. ASSUME AddQueue \/ AddQueueFails \/ AddPromoteFails PROVE EInv'
  <2>1. /\ lock.op # "start" /\ lock'.op # "start" /\ faults' \in {faults, faults + 1}
        /\ UNCHANGED <<proc, task, diskTask, pc, current, runs>>
    BY <1>3 DEF AddQueue, AddQueueFails, AddPromoteFails, Fault, Free, IInv, TypeOK
  <2> QED BY <2>1, NoneStarting, OtherExec DEF Startable
<1>4. ASSUME AddPromote PROVE EInv'
  <2>1. /\ lock.op # "start" /\ lock'.op # "start"
        /\ proc = "up" /\ lock.task \in Tasks /\ task[lock.task].status = "Absent"
        /\ task' = [task EXCEPT ![lock.task] = NewTask]
        /\ diskTask' = [diskTask EXCEPT ![lock.task] = NewTask]
        /\ UNCHANGED <<proc, pc, current, runs, faults>>
    BY <1>4 DEF AddPromote, Free, IInv, AddShape, Absent
  <2>2. \A t \in Tasks \ {lock.task} : task'[t] = task[t] /\ diskTask'[t] = diskTask[t]
    BY <2>1 DEF IInv, TypeOK
  <2>3. Startable(lock.task)
    BY <2>1 DEF Startable
  <2>4. \A t \in Tasks : diskTask'[t].status \in {"Absent", "Queued"} => Startable(t)
    BY <2>2, <2>3 DEF Startable
  <2>5. \A t \in Tasks : proc' # "down" /\ task'[t].status \in {"Absent", "Queued"}
                           => Startable(t)
    BY <2>1, <2>2, <2>3 DEF Startable
  <2> QED BY <2>1, <2>4, <2>5, NoneStarting, OtherExec
<1> QED BY <1>1, <1>2, <1>3, <1>4

\* Cancelling and updating make no task startable.
LEMMA ClientExec ==
  ASSUME IInv, EInv
  PROVE  /\ \A t \in Tasks : CancelQueued(t) \/ CancelRunning(t) \/ CancelFinished(t)
                             \/ UpdateTask(t) => EInv'
         /\ CancelReply \/ UpdateReply => EInv'
<1> USE DEF mem, disk, workers, signals, history
<1>1. ASSUME NEW t \in Tasks, CancelQueued(t) \/ CancelRunning(t) PROVE EInv'
  <2>1. /\ lock.op # "start" /\ lock'.op # "start"
        /\ \E s \in {"Canceled", "Running"} : task' = [task EXCEPT ![t] = Advance(@, s)]
        /\ UNCHANGED <<proc, diskTask, pc, current, runs, faults>>
    BY <1>1 DEF CancelQueued, CancelRunning, LockFree, Free, Holding
  <2>2. /\ task'[t].status \in {"Canceled", "Running"}
        /\ \A x \in Tasks \ {t} : task'[x] = task[x]
    BY <2>1 DEF Advance, IInv, TypeOK
  <2>3. \A x \in Tasks : proc' # "down" /\ task'[x].status \in {"Absent", "Queued"}
                           => Startable(x)
    BY <2>1, <2>2 DEF Startable
  <2>4. \A x \in Tasks : diskTask'[x].status \in {"Absent", "Queued"} => Startable(x)
    BY <2>1 DEF Startable
  <2> QED BY <2>1, <2>3, <2>4, NoneStarting, OtherExec
<1>2. ASSUME NEW t \in Tasks, CancelFinished(t) \/ UpdateTask(t) PROVE EInv'
  <2>1. /\ lock.op # "start" /\ lock'.op # "start"
        /\ UNCHANGED <<proc, task, diskTask, pc, current, runs, faults>>
    BY <1>2 DEF CancelFinished, UpdateTask, LockFree, Free, Holding
  <2> QED BY <2>1, NoneStarting, OtherExec DEF Startable
<1>3. ASSUME CancelReply \/ UpdateReply PROVE EInv'
  <2>1. /\ lock.op # "start" /\ lock'.op # "start"
        /\ UNCHANGED <<proc, task, diskTask, pc, current, runs, faults>>
    BY <1>3 DEF CancelReply, UpdateReply, Written, Free
  <2> QED BY <2>1, NoneStarting, OtherExec DEF Startable
<1> QED BY <1>1, <1>2, <1>3

\* A pop takes the mutex for a Queued task and leaves its file to be written.
LEMMA PopExec ==
  ASSUME IInv, EInv, DInv, NEW w \in Workers, WorkerPop(w) PROVE EInv'
<1> USE DEF mem, disk, workers, signals, history
<1>1. LockFree /\ queue # <<>> /\ lock.op # "start"
  BY DEF WorkerPop, LockFree, Free
<1> PICK t \in Tasks : t = Head(queue)
  BY <1>1, PopLemma DEF IInv, TypeOK
<1>2. task[t].status = "Queued"
  <2>1. t \in Range(queue)
    BY <1>1, PopLemma DEF IInv, TypeOK, QueueExact, LockFree
  <2> QED BY <1>1, <2>1 DEF IInv, QueueExact, QueuedIn, LockFree
<1>3. /\ task' = [task EXCEPT ![t] = Advance(@, "Running")]
      /\ lock' = Holding("start", t, "Ok", AllFiles(task))
      /\ pc' = [pc EXCEPT ![w] = "starting"]
      /\ current' = [current EXCEPT ![w] = t]
      /\ UNCHANGED <<proc, diskTask, runs, faults>>
  BY <1>2 DEF WorkerPop, Goto
<1>4. task'[t].status = "Running" /\ \A x \in Tasks \ {t} : task'[x] = task[x]
  BY <1>3 DEF IInv, TypeOK, Advance
<1>5. lock'.op = "start" /\ lock'.task = t /\ t \in lock'.todo
  BY <1>2, <1>3 DEF Holding, AllFiles, Present
<1>6. \A v \in Workers : pc'[v] = "starting" => v = w /\ current'[v] = t
  BY <1>1, <1>3, NoneStarting DEF IInv, TypeOK
<1>7. StartShape'
  BY <1>4, <1>5, <1>6 DEF StartShape
<1>8. \A x \in Tasks : Startable(x)' => Startable(x)
  <2>1. Startable(t)
    BY <1>1, <1>2 DEF Startable, LockFree
  <2> QED BY <1>3, <1>4, <1>6, <2>1 DEF Startable, Starting
<1>9. \A x \in Tasks : ~Unrecorded(x)'
  BY <1>5 DEF Unrecorded
<1>10. faults \in Nat
  BY DEF IInv, TypeOK
<1> QED BY <1>3, <1>7, <1>8, <1>9, <1>10, FrameExec

\* run_task begins: it uses up the beginning its task had to spare, and if
\* the Running record is not on disk a failed write has paid for another.
LEMMA StartedExec ==
  ASSUME IInv, EInv, DInv, NEW w \in Workers, WorkerStarted(w) PROVE EInv'
<1> USE DEF mem, disk, signals
<1>1. pc[w] = "starting" /\ lock.op = "start" /\ lock.todo = {} /\ lock.task = current[w]
  BY DEF WorkerStarted, Written, EInv, StartShape
<1> PICK t \in Tasks : t = current[w]
  BY <1>1 DEF EInv, StartShape
<1>2. /\ pc' = [pc EXCEPT ![w] = "running"]
      /\ runs' = [runs EXCEPT ![t] = @ + 1]
      /\ lock' = Free
      /\ UNCHANGED <<proc, task, diskTask, current, faults>>
  BY DEF WorkerStarted, Goto
<1>3. proc # "down" /\ task[t].status = "Running" /\ diskTask[t].status # "Absent"
  BY <1>1 DEF EInv, StartShape, IInv, ProcessShape, Free, DInv, StoreShape
<1>4. \A v \in Workers : pc[v] = "starting" => v = w
  <2>1. \A v \in Workers : pc[v] = "starting" => Owns(v, t)
    BY <1>1 DEF EInv, StartShape, Owns, OwnerPlaces
  <2> QED BY <1>1, <2>1 DEF IInv, RunningIsOwned
<1>5. \A v \in Workers : pc'[v] # "starting"
  BY <1>2, <1>4 DEF IInv, TypeOK
<1>6. StartShape' /\ \A x \in Tasks : ~Unrecorded(x)'
  BY <1>2, <1>5 DEF StartShape, Unrecorded, Free
<1>7. /\ faults \in Nat
      /\ \A x \in Tasks : runs[x] \in Nat
      /\ runs'[t] = runs[t] + 1
      /\ \A x \in Tasks \ {t} : runs'[x] = runs[x]
  BY <1>2 DEF IInv, TypeOK
<1>8. \A x \in Tasks : Startable(x)' => Startable(x)
  BY <1>2, <1>5 DEF Startable, Starting
<1>9. Startable(t)' => Unrecorded(t)
  BY <1>1, <1>2, <1>3, <1>5 DEF Startable, Starting, Unrecorded
<1>10. Startable(t)
  BY <1>1 DEF Startable, Starting
<1>11. ExecShape'
  BY <1>2, <1>6, <1>7, <1>8, <1>9, <1>10 DEF EInv, ExecShape
<1> QED BY <1>6, <1>11 DEF EInv

\* The rest of a worker's life makes nothing startable.
LEMMA WorkerExec ==
  ASSUME IInv, EInv, NEW w \in Workers
  PROVE  /\ FinishTask(w) => EInv'
         /\ WorkerFinished(w) => EInv'
         /\ WorkerTop(w) \/ WorkerFindsEmpty(w) \/ WorkerWait(w) \/ WorkerSeesShutdown(w)
            \/ Interrupt(w) \/ ExecutorPanics(w) => EInv'
         /\ \A outcome \in Outcome : ExecutionEnds(w, outcome) => EInv'
<1> USE DEF mem, disk, workers, signals, history
<1>1. ASSUME FinishTask(w) PROVE EInv'
  <2>1. LockFree /\ pc[w] = "ended" /\ lock.op # "start"
    BY <1>1 DEF FinishTask, LockFree, Free
  <2> PICK t \in Tasks : t = current[w]
    BY <2>1 DEF IInv, OwnerShape, OwnerPlaces
  <2> DEFINE s == FinalStatus(result[w], t \in cancelled)
  <2>2. s \in TerminalStatus
    BY DEF FinalStatus, TerminalStatus
  <2>3. /\ task' = [task EXCEPT ![t] = Advance(@, s)]
        /\ pc' = [pc EXCEPT ![w] = "finishing"]
        /\ lock'.op = "finish" /\ faults' \in {faults, faults + 1}
        /\ UNCHANGED <<proc, diskTask, runs>>
    BY <1>1 DEF FinishTask, Fault, Goto, Holding
  <2> HIDE DEF s
  <2>4. task'[t].status \in TerminalStatus /\ \A x \in Tasks \ {t} : task'[x] = task[x]
    BY <2>2, <2>3 DEF IInv, TypeOK, Advance
  <2>5. \A v \in Workers : pc'[v] # "starting"
    BY <2>1, <2>3, NoneStarting DEF IInv, TypeOK
  <2>6. \A x \in Tasks : proc' # "down" /\ task'[x].status \in {"Absent", "Queued"}
                           => Startable(x)
    BY <2>3, <2>4 DEF Startable, TerminalStatus
  <2>7. \A x \in Tasks : diskTask'[x].status \in {"Absent", "Queued"} => Startable(x)
    BY <2>3 DEF Startable
  <2> QED BY <2>1, <2>3, <2>5, <2>6, <2>7, OtherExec
<1>2. ASSUME WorkerFinished(w) PROVE EInv'
  <2>1. /\ lock.op = "finish" /\ lock'.op # "start"
        /\ pc' = [pc EXCEPT ![w] = "top"]
        /\ UNCHANGED <<proc, task, diskTask, runs, faults>>
    BY <1>2 DEF WorkerFinished, Written, Goto, Free
  <2>2. \A v \in Workers : pc'[v] # "starting"
    BY <2>1, NoneStarting DEF IInv, TypeOK
  <2> QED BY <2>1, <2>2, OtherExec DEF Startable
<1>3. ASSUME WorkerTop(w) \/ WorkerFindsEmpty(w) \/ WorkerWait(w) \/ WorkerSeesShutdown(w)
             \/ Interrupt(w) \/ ExecutorPanics(w)
      PROVE  EInv'
  <2>1. UNCHANGED <<proc, task, lock, diskTask, current, runs, faults>>
    BY <1>3 DEF WorkerTop, WorkerFindsEmpty, WorkerWait, WorkerSeesShutdown, Interrupt,
       ExecutorPanics
  <2>2. \A v \in Workers : pc'[v] = "starting" <=> pc[v] = "starting"
    BY <1>3 DEF WorkerTop, WorkerFindsEmpty, WorkerWait, WorkerSeesShutdown, Interrupt,
       ExecutorPanics, Goto, IInv, TypeOK
  <2> QED BY <2>1, <2>2, QuietExec
<1>4. ASSUME NEW outcome \in Outcome, ExecutionEnds(w, outcome) PROVE EInv'
  <2>1. UNCHANGED <<proc, task, lock, diskTask, current, runs, faults>>
    BY <1>4 DEF ExecutionEnds
  <2>2. \A v \in Workers : pc'[v] = "starting" <=> pc[v] = "starting"
    BY <1>4 DEF ExecutionEnds, Goto, IInv, TypeOK
  <2> QED BY <2>1, <2>2, QuietExec
<1> QED BY <1>1, <1>2, <1>3, <1>4

-----------------------------------------------------------------------------
\* Every step keeps the count of beginnings within what was paid for.
LEMMA NextExec == IInv /\ DInv /\ EInv /\ [Next]_vars => EInv'
<1> SUFFICES ASSUME IInv, DInv, EInv, [Next]_vars PROVE EInv'
  OBVIOUS
<1>1. CASE UNCHANGED vars
  BY <1>1, QuietExec DEF vars, mem, disk, workers, history
<1>2. CASE Boot
  BY <1>2, ProcessExec
<1>3. CASE HolderStep
  BY <1>3, PersistExec, ProcessExec, AddExec, ClientExec DEF HolderStep, BootFails
<1>4. CASE Failure
  BY <1>4, PersistExec, ProcessExec, AddExec, WorkerExec DEF Failure, Crash
<1>5. CASE \E t \in Tasks : ClientStep(t)
  BY <1>5, AddExec, ClientExec DEF ClientStep
<1>6. CASE \E w \in Workers : WorkerStep(w) \/ Interrupt(w)
  BY <1>6, PopExec, StartedExec, WorkerExec DEF WorkerStep
<1>7. CASE Shutdown
  BY <1>7, QuietExec DEF Shutdown, mem, disk, workers, history
<1> QED BY <1>1, <1>2, <1>3, <1>4, <1>5, <1>6, <1>7 DEF Next

\* An execution of a task begins at most once, plus at most once for every
\* operation in which a write failed, whatever crashes in between.
THEOREM ExecutedOnce == Spec => []AtMostOncePerFault
<1>1. Init => EInv
  BY InitExec
<1>2. IInv /\ DInv /\ EInv /\ [Next]_vars => EInv'
  BY NextExec
<1>3. EInv => AtMostOncePerFault
  BY DEF EInv, ExecShape, AtMostOncePerFault
<1> QED BY <1>1, <1>2, <1>3, DiskInvariance, PTL DEF Spec

-----------------------------------------------------------------------------
(***************************************************************************)
(* The task manager implements JobQueue on every behaviour in which no     *)
(* write fails, whatever crashes: the step simulation, for any number of   *)
(* tasks, workers and crashes.                                             *)
(*                                                                         *)
(* Only three actions are visible in the files and the executions: a       *)
(* record is written, a staged record is promoted, an execution begins.    *)
(* The invariant says that what is about to be written is one legal move   *)
(* away from what the file says, and that only what was executed is        *)
(* Completed.                                                              *)
(***************************************************************************)

\* One step in the life of a job, or none.
Move(from, to) ==
  \/ from = to
  \/ from = "Queued" /\ to \in {"Running", "Canceled"}
  \/ from = "Running" /\ to \in TerminalStatus

\* A record in memory is at most one move ahead of its file.
MoveShape ==
  proc # "down" => \A t \in Tasks : Move(diskTask[t].status, task[t].status)

\* A worker past its start, and a Completed record, had an execution.
BegunPlaces == {"running", "ended", "dead"}
RanShape ==
  /\ \A w \in Workers : pc[w] \in BegunPlaces => runs[current[w]] > 0
  /\ \A t \in Tasks : task[t].status = "Completed" \/ diskTask[t].status = "Completed"
                        => runs[t] > 0

JInv == MoveShape /\ RanShape

\* What the induction may use.
Known == IInv /\ DInv /\ EInv /\ JInv /\ faults = 0

Simulated == (\E t \in Tasks : Jobs!JobStep(t)) \/ UNCHANGED Jobs!jobVars

-----------------------------------------------------------------------------
\* A step that no file shows and no record.
LEMMA QuietJobs ==
  ASSUME Known, UNCHANGED <<task, diskTask, runs>>, proc' # "down" => proc # "down",
         \A w \in Workers : pc'[w] \in BegunPlaces =>
                              pc[w] \in BegunPlaces /\ current'[w] = current[w]
  PROVE  JInv' /\ Simulated
<1>1. JInv' BY DEF Known, JInv, MoveShape, RanShape
<1>2. UNCHANGED Jobs!jobVars BY DEF Jobs!jobVars
<1> QED BY <1>1, <1>2 DEF Simulated

\* An operation takes the free mutex and moves one record in memory: memory and
\* file were equal before.
LEMMA MemoryMove ==
  ASSUME Known, LockFree, NEW t \in Tasks, NEW status \in TaskStatus,
         task' = [task EXCEPT ![t] = Advance(@, status)],
         Move(task[t].status, status), status = "Completed" => runs[t] > 0,
         UNCHANGED <<proc, diskTask, runs>>,
         \A w \in Workers : pc'[w] \in BegunPlaces =>
                              pc[w] \in BegunPlaces /\ current'[w] = current[w]
  PROVE  JInv' /\ Simulated
<1>1. \A x \in Tasks : diskTask[x] = task[x]
  BY DEF Known, DInv, SyncShape, LockFree, Free
<1>2. task'[t].status = status /\ \A x \in Tasks \ {t} : task'[x] = task[x]
  BY DEF Known, IInv, TypeOK, Advance
<1>3. MoveShape' BY <1>1, <1>2 DEF MoveShape, Move
<1>4. RanShape' BY <1>2 DEF Known, JInv, RanShape
<1>5. UNCHANGED Jobs!jobVars BY DEF Jobs!jobVars
<1> QED BY <1>3, <1>4, <1>5 DEF JInv, Simulated

\* A legal move of a file is a step of the job queue.
LEMMA FileMove ==
  ASSUME Known, NEW t \in Tasks, NEW rec \in TaskRecord,
         diskTask' = [diskTask EXCEPT ![t] = rec], runs' = runs,
         \/ Move(diskTask[t].status, rec.status)
         \/ diskTask[t].status = "Absent" /\ rec.status = "Queued",
         rec.status = "Completed" => runs[t] > 0
  PROVE  Simulated
<1> DEFINE old == [x \in Tasks |-> diskTask[x].status]
           new == [x \in Tasks |-> diskTask'[x].status]
           begun == {x \in Tasks : runs[x] > 0}
<1>1. new = [old EXCEPT ![t] = rec.status] BY DEF Known, IInv, TypeOK
<1>2. begun' = begun OBVIOUS
<1>3. old[t] = diskTask[t].status /\ (rec.status = "Completed" => t \in begun) OBVIOUS
<1>4. CASE rec.status = diskTask[t].status
  <2>1. new = old BY <1>1, <1>4
  <2>2. UNCHANGED Jobs!jobVars BY <1>2, <2>1 DEF Jobs!jobVars
  <2> QED BY <2>2 DEF Simulated
<1>5. CASE diskTask[t].status = "Absent" /\ rec.status = "Queued"
  <2>1. Jobs!Accept(t) BY <1>1, <1>2, <1>3, <1>5 DEF Jobs!Accept, Jobs!Become
  <2> QED BY <2>1 DEF Jobs!JobStep, Simulated
<1>6. CASE diskTask[t].status = "Queued" /\ rec.status = "Running"
  <2>1. Jobs!Start(t) BY <1>1, <1>2, <1>3, <1>6 DEF Jobs!Start, Jobs!Become
  <2> QED BY <2>1 DEF Jobs!JobStep, Simulated
<1>7. CASE diskTask[t].status = "Queued" /\ rec.status = "Canceled"
  <2>1. Jobs!Withdraw(t) BY <1>1, <1>2, <1>3, <1>7 DEF Jobs!Withdraw, Jobs!Become
  <2> QED BY <2>1 DEF Jobs!JobStep, Simulated
<1>8. CASE diskTask[t].status = "Running" /\ rec.status \in TerminalStatus
  <2>1. Jobs!Finish(t, rec.status)
    BY <1>1, <1>2, <1>3, <1>8 DEF Jobs!Finish, Jobs!Become
  <2>2. rec.status \in Jobs!TerminalJob BY <1>8 DEF TerminalStatus, Jobs!TerminalJob
  <2> QED BY <2>1, <2>2 DEF Jobs!JobStep, Simulated
<1> QED BY <1>4, <1>5, <1>6, <1>7, <1>8 DEF Move

-----------------------------------------------------------------------------
(* The actions.                                                            *)

\* A record is written: the file makes the move memory made before.
LEMMA PersistJobs ==
  ASSUME Known, NEW t \in Tasks, PersistTask(t)
  PROVE  JInv' /\ Simulated
<1>1. /\ proc # "down" /\ proc' = proc /\ task' = task /\ runs' = runs
      /\ diskTask' = [diskTask EXCEPT ![t] = task[t]]
      /\ pc' = pc /\ current' = current
  BY DEF PersistTask, mem, workers, history
<1>2. Move(diskTask[t].status, task[t].status) /\ task[t] \in TaskRecord
      /\ (task[t].status = "Completed" => runs[t] > 0)
  BY <1>1 DEF Known, JInv, MoveShape, RanShape, IInv, TypeOK
<1>3. Simulated BY <1>1, <1>2, FileMove
<1>4. diskTask'[t] = task[t] /\ \A x \in Tasks \ {t} : diskTask'[x] = diskTask[x]
  BY <1>1 DEF Known, IInv, TypeOK
<1>5. MoveShape' BY <1>1, <1>4 DEF Known, JInv, MoveShape, Move
<1>6. RanShape' BY <1>1, <1>4 DEF Known, JInv, RanShape
<1> QED BY <1>3, <1>5, <1>6 DEF JInv

\* The promotion of a staged record makes the job known.
LEMMA PromoteJobs ==
  ASSUME Known, AddPromote
  PROVE  JInv' /\ Simulated
<1>1. /\ lock.task \in Tasks /\ task[lock.task] = Absent /\ proc = "up" /\ proc' = proc
      /\ diskTask' = [diskTask EXCEPT ![lock.task] = NewTask]
      /\ task' = [task EXCEPT ![lock.task] = NewTask]
      /\ UNCHANGED <<pc, current, runs>>
  BY DEF AddPromote, Known, IInv, AddShape, workers, history
<1>2. NewTask \in TaskRecord /\ NewTask.status = "Queued"
  BY DEF NewTask, TaskRecord, TaskStatus
<1>3. diskTask[lock.task].status = "Absent"
  BY <1>1 DEF Known, DInv, StoreShape, Absent
<1>4. Simulated BY <1>1, <1>2, <1>3, FileMove
<1>5. /\ diskTask'[lock.task] = NewTask /\ task'[lock.task] = NewTask
      /\ \A x \in Tasks \ {lock.task} : diskTask'[x] = diskTask[x] /\ task'[x] = task[x]
  BY <1>1 DEF Known, IInv, TypeOK
<1>6. MoveShape' BY <1>1, <1>5 DEF Known, JInv, MoveShape, Move
<1>7. RanShape' BY <1>1, <1>2, <1>5 DEF Known, JInv, RanShape
<1> QED BY <1>4, <1>6, <1>7 DEF JInv

\* The execution begins when the Running record is on disk, and for the first time.
LEMMA StartedJobs ==
  ASSUME Known, NEW w \in Workers, WorkerStarted(w)
  PROVE  JInv' /\ Simulated
<1> DEFINE t == current[w]
<1>1. /\ pc[w] = "starting" /\ lock.op = "start" /\ lock.todo = {}
      /\ runs' = [runs EXCEPT ![t] = @ + 1] /\ pc' = [pc EXCEPT ![w] = "running"]
      /\ UNCHANGED <<proc, task, diskTask, current>>
  BY DEF WorkerStarted, Written, Goto, mem, disk
<1>2. lock.task = t /\ t \in Tasks /\ task[t].status = "Running"
  BY <1>1 DEF Known, EInv, StartShape
<1>3. proc # "down" /\ diskTask[t].status = "Running"
  BY <1>1, <1>2 DEF Known, IInv, ProcessShape, DInv, SyncShape
<1>4. runs[t] = 0
  <2>1. Startable(t) BY <1>1 DEF Startable, Starting
  <2>2. runs[t] <= 0 /\ runs[t] \in Nat
    BY <1>2, <2>1 DEF Known, EInv, ExecShape, IInv, TypeOK
  <2> QED BY <2>2
<1>5. runs'[t] = 1 /\ \A x \in Tasks \ {t} : runs'[x] = runs[x]
  BY <1>1, <1>2, <1>4 DEF Known, IInv, TypeOK
<1>6. Jobs!Execute(t)
  <2> DEFINE begun == {x \in Tasks : runs[x] > 0}
  <2>1. begun' = begun \cup {t} BY <1>2, <1>5
  <2>2. t \notin begun BY <1>4
  <2> QED BY <1>1, <1>2, <1>3, <2>1, <2>2 DEF Jobs!Execute
<1>7. MoveShape' BY <1>1 DEF Known, JInv, MoveShape
<1>8. RanShape'
  <2>1. \A x \in Tasks : runs[x] > 0 => runs'[x] > 0 BY <1>2, <1>4, <1>5
  <2>2. ASSUME NEW v \in Workers, pc'[v] \in BegunPlaces PROVE runs'[current'[v]] > 0
    <3>1. CASE v = w BY <1>1, <1>5, <3>1
    <3>2. CASE v # w
      <4>1. pc[v] \in BegunPlaces BY <1>1, <2>2, <3>2 DEF Known, IInv, TypeOK
      <4>2. current[v] \in Tasks /\ runs[current[v]] > 0
        BY <4>1 DEF Known, IInv, OwnerShape, OwnerPlaces, BegunPlaces, JInv, RanShape
      <4> QED BY <1>1, <2>1, <4>2
    <3> QED BY <3>1, <3>2
  <2> QED BY <1>1, <2>1, <2>2 DEF Known, JInv, RanShape
<1>9. PICK x \in Tasks : x = t BY <1>2
<1>10. Jobs!Execute(x) BY <1>6, <1>9 DEF Jobs!Execute
<1>11. Simulated BY <1>10 DEF Jobs!JobStep, Simulated
<1> QED BY <1>7, <1>8, <1>11 DEF JInv

\* The process starts and ends: what a restart loads is a move away from the files.
LEMMA ProcessJobs ==
  ASSUME Known, Boot \/ LoseMemory
  PROVE  JInv' /\ Simulated
<1>1. CASE Boot
  <2>1. /\ task' = Loaded /\ UNCHANGED <<diskTask, runs, pc, current>>
    BY <1>1 DEF Boot, disk, workers, history
  <2>2. \A t \in Tasks : diskTask[t] \in TaskRecord BY DEF Known, IInv, TypeOK
  <2>3. \A t \in Tasks : task'[t] = diskTask[t]
                         \/ (diskTask[t].status = "Running" /\ task'[t].status = "Failed")
    BY <2>1 DEF Loaded, Recovered, Advance
  <2>4. MoveShape' BY <2>1, <2>3 DEF MoveShape, Move, TerminalStatus
  <2>5. RanShape' BY <2>1, <2>3 DEF Known, JInv, RanShape
  <2>6. UNCHANGED Jobs!jobVars BY <2>1 DEF Jobs!jobVars
  <2> QED BY <2>4, <2>5, <2>6 DEF JInv, Simulated
<1>2. CASE LoseMemory
  <2>1. /\ proc' = "down" /\ UNCHANGED <<diskTask, runs>>
        /\ task' = [t \in Tasks |-> Absent] /\ pc' = [w \in Workers |-> "off"]
    BY <1>2 DEF LoseMemory, disk, history
  <2>2. MoveShape' BY <2>1 DEF MoveShape
  <2>3. RanShape' BY <2>1 DEF Known, JInv, RanShape, Absent, BegunPlaces
  <2>4. UNCHANGED Jobs!jobVars BY <2>1 DEF Jobs!jobVars
  <2> QED BY <2>2, <2>3, <2>4 DEF JInv, Simulated
<1> QED BY <1>1, <1>2

\* The operations that move one record in memory.
LEMMA MemoryJobs ==
  ASSUME Known,
         \/ \E t \in Tasks : CancelQueued(t) \/ CancelRunning(t)
         \/ \E w \in Workers : WorkerPop(w) \/ FinishTask(w)
  PROVE  JInv' /\ Simulated
<1>1. ASSUME NEW t \in Tasks, CancelQueued(t) PROVE JInv' /\ Simulated
  <2>1. /\ LockFree /\ task[t].status = "Queued"
        /\ task' = [task EXCEPT ![t] = Advance(@, "Canceled")]
        /\ UNCHANGED <<proc, diskTask, runs, pc, current>>
    BY <1>1 DEF CancelQueued, disk, workers, history
  <2>2. Move("Queued", "Canceled") /\ "Canceled" \in TaskStatus
    BY DEF Move, TaskStatus, TerminalStatus
  <2> QED BY <2>1, <2>2, MemoryMove
<1>2. ASSUME NEW t \in Tasks, CancelRunning(t) PROVE JInv' /\ Simulated
  <2>1. /\ LockFree /\ task[t].status = "Running"
        /\ task' = [task EXCEPT ![t] = Advance(@, "Running")]
        /\ UNCHANGED <<proc, diskTask, runs, pc, current>>
    BY <1>2 DEF CancelRunning, disk, workers, history
  <2>2. Move("Running", "Running") /\ "Running" \in TaskStatus BY DEF Move, TaskStatus
  <2> QED BY <2>1, <2>2, MemoryMove
<1>3. ASSUME NEW w \in Workers, WorkerPop(w) PROVE JInv' /\ Simulated
  <2>1. PICK t \in Tasks :
           /\ task[t].status = "Queued"
           /\ task' = [task EXCEPT ![t] = Advance(@, "Running")]
           /\ pc' = [pc EXCEPT ![w] = "starting"]
           /\ UNCHANGED <<proc, diskTask>>
    BY <1>3, PopsQueued DEF Known
  <2>2. LockFree /\ runs' = runs /\ \A v \in Workers \ {w} : current'[v] = current[v]
    BY <1>3 DEF WorkerPop, history, Known, IInv, TypeOK
  <2>3. \A v \in Workers : pc'[v] \in BegunPlaces =>
                             pc[v] \in BegunPlaces /\ current'[v] = current[v]
    BY <2>1, <2>2 DEF Known, IInv, TypeOK, BegunPlaces
  <2>4. Move("Queued", "Running") /\ "Running" \in TaskStatus BY DEF Move, TaskStatus
  <2> QED BY <2>1, <2>2, <2>3, <2>4, MemoryMove
<1>4. ASSUME NEW w \in Workers, FinishTask(w) PROVE JInv' /\ Simulated
  <2> DEFINE t == current[w]
             final == FinalStatus(result[w], t \in cancelled)
  <2>1. /\ pc[w] = "ended" /\ LockFree
        /\ task' = [task EXCEPT ![t] = Advance(@, final)]
        /\ pc' = [pc EXCEPT ![w] = "finishing"]
        /\ UNCHANGED <<proc, diskTask, runs, current>>
    BY <1>4 DEF FinishTask, Goto, disk, history
  <2>2. t \in Tasks /\ task[t].status = "Running" /\ runs[t] > 0
    BY <2>1 DEF Known, IInv, OwnerShape, OwnerPlaces, RunningIsOwned, Owns, JInv, RanShape,
                BegunPlaces
  <2>3. final \in TerminalStatus BY DEF FinalStatus, TerminalStatus
  <2>4. Move("Running", final) /\ final \in TaskStatus BY <2>3 DEF Move, TaskStatus
  <2>5. \A v \in Workers : pc'[v] \in BegunPlaces =>
                             pc[v] \in BegunPlaces /\ current'[v] = current[v]
    BY <2>1 DEF Known, IInv, TypeOK, BegunPlaces
  <2> HIDE DEF final
  <2> QED BY <2>1, <2>2, <2>4, <2>5, MemoryMove
<1> QED BY <1>1, <1>2, <1>3, <1>4

\* Every other step of the holder of the mutex or of a client.
LEMMA OtherJobs ==
  ASSUME Known,
         \/ Shutdown \/ PersistQueue \/ PersistFails \/ BootDone \/ AddQueue \/ AddQueueFails
         \/ AddPromoteFails \/ CancelReply \/ UpdateReply
         \/ \E t \in Tasks : AddStage(t) \/ AddNotify(t) \/ UpdateTask(t) \/ CancelFinished(t)
  PROVE  JInv' /\ Simulated
<1>1. UNCHANGED <<task, diskTask, runs, current>>
  BY DEF Shutdown, PersistQueue, PersistFails, BootDone, AddQueue, AddQueueFails,
         AddPromoteFails, CancelReply, UpdateReply, AddStage, AddNotify, UpdateTask,
         CancelFinished, mem, disk, workers, history
<1>2. proc' # "down" => proc # "down"
  BY DEF Shutdown, PersistQueue, PersistFails, BootDone, AddQueue, AddQueueFails,
         AddPromoteFails, CancelReply, UpdateReply, AddStage, AddNotify, UpdateTask,
         CancelFinished
<1>3. pc' = pc \/ BootDone \/ \E t \in Tasks : AddNotify(t)
  BY DEF Shutdown, PersistQueue, PersistFails, AddQueue, AddQueueFails,
         AddPromoteFails, CancelReply, UpdateReply, AddStage, UpdateTask,
         CancelFinished, workers
<1>4. \A w \in Workers : pc'[w] \in BegunPlaces => pc[w] \in BegunPlaces
  <2>1. CASE pc' = pc BY <2>1
  <2>2. CASE BootDone BY <2>2 DEF BootDone, BegunPlaces
  <2>3. CASE \E t \in Tasks : AddNotify(t)
    <3>1. pc' = pc \/ \E w \in Workers : pc' = [pc EXCEPT ![w] = "top"]
      BY <2>3 DEF AddNotify, notify_one
    <3> QED BY <3>1 DEF Known, IInv, TypeOK, BegunPlaces
  <2> QED BY <1>3, <2>1, <2>2, <2>3
<1> QED BY <1>1, <1>2, <1>4, QuietJobs

\* Every other step of a worker.
LEMMA WorkerJobs ==
  ASSUME Known, NEW w \in Workers,
         \/ WorkerTop(w) \/ WorkerFindsEmpty(w) \/ WorkerWait(w) \/ WorkerSeesShutdown(w)
         \/ (\E outcome \in Outcome : ExecutionEnds(w, outcome)) \/ WorkerFinished(w)
         \/ Interrupt(w) \/ ExecutorPanics(w)
  PROVE  JInv' /\ Simulated
<1>1. UNCHANGED <<task, diskTask, runs, proc>>
  BY DEF WorkerTop, WorkerFindsEmpty, WorkerWait, WorkerSeesShutdown, ExecutionEnds,
         WorkerFinished, Interrupt, ExecutorPanics, mem, disk, history
<1>2. CASE pc[w] = "running"
  <2>1. current' = current /\ (pc' = pc \/ \E l \in Place : pc' = [pc EXCEPT ![w] = l])
    BY <1>2 DEF WorkerTop, WorkerFindsEmpty, WorkerWait, WorkerSeesShutdown, ExecutionEnds,
         WorkerFinished, Interrupt, ExecutorPanics, workers, Goto, Place
  <2>2. \A v \in Workers : pc'[v] \in BegunPlaces => pc[v] \in BegunPlaces
    BY <1>2, <2>1 DEF Known, IInv, TypeOK, BegunPlaces
  <2> QED BY <1>1, <2>1, <2>2, QuietJobs
<1>3. CASE pc[w] # "running"
  <2>1. /\ \E l \in {"exited", "pop", "idle", "top", "wait"} : pc' = [pc EXCEPT ![w] = l]
        /\ \A v \in Workers \ {w} : current'[v] = current[v]
    BY <1>3 DEF WorkerTop, WorkerFindsEmpty, WorkerWait, WorkerSeesShutdown, ExecutionEnds,
         WorkerFinished, Interrupt, ExecutorPanics, Goto, Known, IInv, TypeOK
  <2>2. \A v \in Workers : pc'[v] \in BegunPlaces =>
                             pc[v] \in BegunPlaces /\ current'[v] = current[v]
    BY <2>1 DEF Known, IInv, TypeOK, BegunPlaces
  <2> QED BY <1>1, <2>2, QuietJobs
<1> QED BY <1>2, <1>3

\* Every step keeps the invariant and is a step of the job queue or invisible.
LEMMA NextJobs == Known /\ [Next]_vars => JInv' /\ Simulated
<1> SUFFICES ASSUME Known, [Next]_vars PROVE JInv' /\ Simulated
  OBVIOUS
<1>1. CASE UNCHANGED vars
  BY <1>1, QuietJobs DEF vars, mem, disk, workers, history
<1>2. CASE Boot \/ Shutdown BY <1>2, ProcessJobs, OtherJobs
<1>3. CASE HolderStep
  BY <1>3, OtherJobs, PersistJobs, ProcessJobs, PromoteJobs DEF HolderStep, BootFails
<1>4. CASE Failure
  BY <1>4, OtherJobs, ProcessJobs, WorkerJobs DEF Failure, Crash
<1>5. CASE \E t \in Tasks : ClientStep(t)
  BY <1>5, OtherJobs, MemoryJobs DEF ClientStep
<1>6. CASE \E w \in Workers : WorkerStep(w) \/ Interrupt(w)
  BY <1>6, MemoryJobs, StartedJobs, WorkerJobs DEF WorkerStep
<1> QED BY <1>1, <1>2, <1>3, <1>4, <1>5, <1>6 DEF Next

\* Initially there is no job.
LEMMA InitJobs == Init => JInv /\ Jobs!JobInit
<1> SUFFICES ASSUME Init PROVE JInv /\ Jobs!JobInit OBVIOUS
<1>1. JInv BY DEF Init, JInv, MoveShape, RanShape, BegunPlaces, Absent
<1>2. Jobs!JobInit
  <2>1. [t \in Tasks |-> diskTask[t].status] = [t \in Tasks |-> "Absent"]
    BY DEF Init, Absent
  <2>2. {t \in Tasks : runs[t] > 0} = {} BY DEF Init
  <2> QED BY <2>1, <2>2 DEF Jobs!JobInit
<1> QED BY <1>1, <1>2

\* As long as no write fails, clients see a JobQueue, through any number of
\* crashes, restarts, cancellations and workers: no job is lost or executed
\* twice, and its status moves one way (task_manager.rs as a whole).
THEOREM JobsImplemented == Spec /\ [](faults = 0) => ImplementsJobs
<1>1. Init => EInv BY InitExec
<1>2. IInv /\ DInv /\ EInv /\ [Next]_vars => EInv' BY NextExec
<1>3. Init => JInv /\ Jobs!JobInit BY InitJobs
<1>4. IInv /\ DInv /\ EInv /\ JInv /\ faults = 0 /\ [Next]_vars =>
        JInv' /\ [\E t \in Tasks : Jobs!JobStep(t)]_Jobs!jobVars
  BY NextJobs DEF Known, Simulated
<1> QED BY <1>1, <1>2, <1>3, <1>4, DiskInvariance, PTL DEF Spec, ImplementsJobs, Jobs!JobSpec
=============================================================================
