------------------------- MODULE FleetManagerProofs -------------------------
(***************************************************************************)
(* Proofs about the fleet manager, for any number of tasks, workers,       *)
(* drivers, operators, restarts, failures and deaths of drivers.           *)
(*                                                                         *)
(* A worker has one process that a driver looks after because there is one *)
(* driver in its loop (LockShape), because that driver's executor tracks   *)
(* each of its processes under the worker's name (Tracks), and because the *)
(* leases it is about to start a process for are of different workers it   *)
(* does not track (Works), long after it has read them: a task keeps its   *)
(* worker for good (LeaseShape).                                           *)
(*                                                                         *)
(* That a run is completed only when its tasks are needs that whoever is   *)
(* about to write it has seen it (ViewShape) and that, short of a restart, *)
(* tasks that are done stay done.                                          *)
(***************************************************************************)
EXTENDS FleetManager, TLAPS

\* The values of the variables.
TaskRecord == [status : {"absent", "Enqueued", "Leased"} \cup Terminal,
               leased_to : Workers \cup {None}, attempts : Nat]
AttemptRecord == [task : Tasks \cup {None}, attempt : Nat]
ProcessRecord == [owner : Drivers, worker : Workers, task : Tasks, attempt : Nat \ {0},
                  state : {"live", "ok", "bad"}, late : BOOLEAN]
Fields == {"pc", "observed", "err", "todo", "item", "view", "goal"}
OpFields == {"pc", "todo", "newer", "view"}

Types ==
  /\ task \in [Tasks -> TaskRecord]
  /\ drv = [d \in Drivers |-> drv[d]] /\ \A d \in Drivers : DOMAIN drv[d] = Fields
  /\ stream \in [Drivers -> [Workers -> AttemptRecord]]
  /\ proc \subseteq ProcessRecord
  /\ op = [o \in Operators |-> op[o]] /\ \A o \in Operators : DOMAIN op[o] = OpFields

\* A worker has one lease, and a task one worker for good.
LeaseShape ==
  /\ \A t \in Tasks :
       /\ task[t].status = "Leased" => task[t].leased_to \in Workers /\ task[t].attempts >= 1
       /\ task[t].status \in {"absent", "Enqueued"} => task[t].leased_to = None
       /\ t \in unsaved => task[t].status = "absent"
  /\ \A t, u \in Tasks :
       /\ task[t].status = "Leased" /\ task[u].status = "Leased"
       /\ task[t].leased_to = task[u].leased_to
       => t = u

\* The run's manager lock.
LockShape == \A d, e \in Drivers : drv[d].pc \in Looping /\ drv[e].pc \in Looping => d = e

\* The executor of a driver that has not left knows each of its processes,
\* and has one for each worker it tracks.
Tracks(d) ==
  drv[d].pc \notin Out =>
    /\ \A p \in proc : p.owner = d =>
         drv[d].pc \in Looping /\ stream[d][p.worker] = Attempt(p.task, p.attempt)
    /\ \A p, q \in proc : p.owner = d /\ q.owner = d /\ p.worker = q.worker => p = q
    /\ \A w \in Tracked(d) : \E p \in proc : p.owner = d /\ p.worker = w

\* An attempt that a driver has read from the ledger.
Startable(i) ==
  /\ i.task \in Tasks /\ i.attempt \in Nat \ {0} /\ i = Attempt(i.task, i.attempt)
  /\ task[i.task].leased_to \in Workers

WorkerOf(i) == task[i.task].leased_to

\* What a driver is about to do is about workers it may do it to.
Works(d) ==
  /\ drv[d].pc \in {"launching", "launched"} =>
       /\ \A i \in drv[d].todo : Startable(i)
       /\ \A i, j \in drv[d].todo : WorkerOf(i) = WorkerOf(j) => i = j
  /\ drv[d].pc = "launching" => \A i \in drv[d].todo : WorkerOf(i) \notin Tracked(d)
  /\ drv[d].pc = "launched" =>
       \A i \in drv[d].todo : i # stream[d][drv[d].item] => WorkerOf(i) \notin Tracked(d)
  /\ drv[d].pc \in {"launched", "poll", "ended", "record"} => drv[d].item \in Tracked(d)
  /\ drv[d].pc \in {"visit", "poll", "ended", "record"} => drv[d].todo \subseteq Tracked(d)
  /\ drv[d].pc \in {"poll", "ended", "record"} => drv[d].item \notin drv[d].todo

\* Drivers and operators come after the tasks.
SavedShape ==
  /\ unsaved = {} \/ \A d \in Drivers : drv[d].pc = "new"
  /\ unsaved = {} \/ \A o \in Operators : op[o].pc = "new"
  /\ unsaved = {} \/ \A t \in Tasks : task[t].leased_to = None

AllDone == unsaved = {} /\ \A t \in Tasks : task[t].status \in {"Completed", "absent"}
NoRestarts == \A d \in Drivers : drv[d].goal = NoAttempt

\* Who shows the run as completed, or is about to, has seen all tasks done.
ViewShape ==
  NoRestarts =>
    /\ run = "Completed" => AllDone
    /\ \A d \in Drivers : drv[d].view = "Completed" => AllDone
    /\ \A o \in Operators : op[o].view = "Completed" => AllDone

IInv == /\ Types /\ LeaseShape /\ LockShape /\ SavedShape /\ ViewShape
        /\ \A d \in Drivers : Tracks(d) /\ Works(d)

-----------------------------------------------------------------------------
(* Facts about the ledger, the drivers' and the operators' locals.         *)

\* A driver's locals after an assignment to some of them.
LEMMA SetFacts ==
  ASSUME Types, NEW d \in Drivers, NEW F, Set(d, F)
  PROVE  /\ drv' = [e \in Drivers |-> drv'[e]] /\ \A e \in Drivers : DOMAIN drv'[e] = Fields
         /\ \A e \in Drivers \ {d} : drv'[e] = drv[e]
         /\ drv'[d].pc = IF "pc" \in DOMAIN F THEN F["pc"] ELSE drv[d].pc
         /\ drv'[d].todo = IF "todo" \in DOMAIN F THEN F["todo"] ELSE drv[d].todo
         /\ drv'[d].item = IF "item" \in DOMAIN F THEN F["item"] ELSE drv[d].item
         /\ drv'[d].view = IF "view" \in DOMAIN F THEN F["view"] ELSE drv[d].view
         /\ drv'[d].goal = IF "goal" \in DOMAIN F THEN F["goal"] ELSE drv[d].goal
<1>1. drv = [e \in Drivers |-> drv[e]] /\ \A e \in Drivers : DOMAIN drv[e] = Fields
  BY DEF Types
<1>2. drv' = [drv EXCEPT ![d] = [f \in DOMAIN drv[d] |-> IF f \in DOMAIN F THEN F[f]
                                                         ELSE drv[d][f]]]
  BY DEF Set
<1>3. /\ drv' = [e \in Drivers |-> drv'[e]] /\ \A e \in Drivers \ {d} : drv'[e] = drv[e]
      /\ drv'[d] = [f \in Fields |-> IF f \in DOMAIN F THEN F[f] ELSE drv[d][f]]
  BY <1>1, <1>2
<1> QED BY <1>1, <1>3 DEF Fields

\* An operator's locals after an assignment to some of them.
LEMMA SetOpFacts ==
  ASSUME Types, NEW o \in Operators, NEW F, SetOp(o, F)
  PROVE  /\ op' = [e \in Operators |-> op'[e]] /\ \A e \in Operators : DOMAIN op'[e] = OpFields
         /\ \A e \in Operators \ {o} : op'[e] = op[e]
         /\ op'[o].pc = IF "pc" \in DOMAIN F THEN F["pc"] ELSE op[o].pc
         /\ op'[o].view = IF "view" \in DOMAIN F THEN F["view"] ELSE op[o].view
<1>1. op = [e \in Operators |-> op[e]] /\ \A e \in Operators : DOMAIN op[e] = OpFields
  BY DEF Types
<1>2. op' = [op EXCEPT ![o] = [f \in DOMAIN op[o] |-> IF f \in DOMAIN F THEN F[f]
                                                      ELSE op[o][f]]]
  BY DEF SetOp
<1>3. /\ op' = [e \in Operators |-> op'[e]] /\ \A e \in Operators \ {o} : op'[e] = op[e]
      /\ op'[o] = [f \in OpFields |-> IF f \in DOMAIN F THEN F[f] ELSE op[o][f]]
  BY <1>1, <1>2
<1> QED BY <1>1, <1>3 DEF OpFields

\* The operators are where they were, and see what they saw.
OpsKept ==
  /\ op' = [o \in Operators |-> op'[o]]
  /\ \A o \in Operators : /\ DOMAIN op'[o] = OpFields
                          /\ op'[o].pc = op[o].pc /\ op'[o].view = op[o].view

\* A heartbeat only touches what a resume is about to reconcile.
LEMMA TouchFacts ==
  ASSUME Types, NEW ws, Touch(ws)
  PROVE  OpsKept
<1>1. PICK later \in {{}, ws} :
        op' = [o \in Operators |->
                [op[o] EXCEPT
                  !.todo  = IF op[o].pc = "reconcile"
                            THEN {i \in @ : task[i.task].leased_to \notin ws} ELSE @,
                  !.newer = IF op[o].pc = "resume" THEN @ \cup later ELSE @]]
  BY DEF Touch
<1>2. \A o \in Operators : DOMAIN op[o] = OpFields BY DEF Types
<1>3. ASSUME NEW o \in Operators
      PROVE  DOMAIN op'[o] = OpFields /\ op'[o].pc = op[o].pc /\ op'[o].view = op[o].view
  <2>1. op'[o] = [op[o] EXCEPT
                    !.todo  = IF op[o].pc = "reconcile"
                              THEN {i \in @ : task[i.task].leased_to \notin ws} ELSE @,
                    !.newer = IF op[o].pc = "resume" THEN @ \cup later ELSE @]
    BY <1>1
  <2> QED BY <1>2, <2>1 DEF OpFields
<1>4. op' = [o \in Operators |-> op'[o]] BY <1>1
<1> QED BY <1>3, <1>4 DEF OpsKept

\* A step that leaves the operators alone.
LEMMA OpsUnchanged ==
  ASSUME Types, UNCHANGED op
  PROVE  OpsKept
BY DEF Types, OpsKept

\* The worker of a task that has one stays.
WorkersStay ==
  \A t \in Tasks : task[t].leased_to # None => task'[t].leased_to = task[t].leased_to

\* What a step may do to the ledger's tasks.
TasksKept ==
  /\ task' \in [Tasks -> TaskRecord] /\ LeaseShape' /\ WorkersStay /\ UNCHANGED unsaved

\* A step that leaves the tasks alone.
LEMMA TasksUnchanged ==
  ASSUME IInv, UNCHANGED <<task, unsaved>>
  PROVE  TasksKept /\ (AllDone => AllDone')
BY DEF IInv, Types, LeaseShape, TasksKept, WorkersStay, AllDone

\* An open task ends.
LEMMA EndFacts ==
  ASSUME IInv, UNCHANGED unsaved, NEW t, NEW s \in Terminal, End(t, s),
         t \in Tasks => task[t].status \in {"Enqueued", "Leased"}
  PROVE  TasksKept /\ (AllDone => AllDone')
<1>1. task \in [Tasks -> TaskRecord] BY DEF IInv, Types
<1>2. task' = [task EXCEPT ![t].status = s] BY DEF End
<1>3. \A u \in Tasks : task'[u] = IF u = t THEN [task[u] EXCEPT !.status = s] ELSE task[u]
  BY <1>1, <1>2
<1>4. \A u \in Tasks : /\ task'[u].status = IF u = t THEN s ELSE task[u].status
                       /\ task'[u].leased_to = task[u].leased_to
                       /\ task'[u].attempts = task[u].attempts
  BY <1>1, <1>3 DEF TaskRecord
<1>5. task' \in [Tasks -> TaskRecord]
  <2>1. \A u \in Tasks : task'[u] \in TaskRecord BY <1>1, <1>3 DEF TaskRecord
  <2> QED BY <1>1, <1>2, <2>1
<1>6. s \notin {"absent", "Enqueued", "Leased", "Queued"} BY DEF Terminal
<1>7. LeaseShape'
  <2>1. \A u \in Tasks :
          /\ task'[u].status = "Leased" => task'[u].leased_to \in Workers /\ task'[u].attempts >= 1
          /\ task'[u].status \in {"absent", "Enqueued"} => task'[u].leased_to = None
          /\ u \in unsaved' => task'[u].status = "absent"
    BY <1>4, <1>6 DEF IInv, LeaseShape
  <2>2. \A u, v \in Tasks :
          /\ task'[u].status = "Leased" /\ task'[v].status = "Leased"
          /\ task'[u].leased_to = task'[v].leased_to
          => u = v
    BY <1>4, <1>6 DEF IInv, LeaseShape
  <2> QED BY <2>1, <2>2 DEF LeaseShape
<1>8. AllDone => AllDone' BY <1>4 DEF AllDone
<1> QED BY <1>4, <1>5, <1>7, <1>8 DEF TasksKept, WorkersStay

\* A task is leased, again to its worker or for the first time to an idle one.
LEMMA LeaseFacts ==
  ASSUME IInv, unsaved = {}, UNCHANGED unsaved, NEW t, NEW w, NewLease(t, w),
         t \in Tasks => /\ w \in Workers /\ task[t].leased_to \in {None, w}
                        /\ task[t].status = "Leased" \/ w \notin Busy
  PROVE  TasksKept
<1>1. task \in [Tasks -> TaskRecord] BY DEF IInv, Types
<1>2. task' = [task EXCEPT ![t] = [status |-> "Leased", leased_to |-> w,
                                   attempts |-> task[t].attempts + 1]]
  BY DEF NewLease
<1>3. \A u \in Tasks : /\ u # t => task'[u] = task[u]
                       /\ u = t => /\ task'[u].status = "Leased" /\ task'[u].leased_to = w
                                   /\ task'[u].attempts = task[u].attempts + 1
  BY <1>1, <1>2
<1>4. \A u \in Tasks : task[u].attempts \in Nat BY <1>1 DEF TaskRecord
<1>5. task' \in [Tasks -> TaskRecord]
  <2>1. CASE t \in Tasks
    <3>1. [status |-> "Leased", leased_to |-> w, attempts |-> task[t].attempts + 1] \in TaskRecord
      BY <1>4, <2>1 DEF TaskRecord
    <3> QED BY <1>1, <1>2, <2>1, <3>1
  <2>2. CASE t \notin Tasks BY <1>1, <1>2, <2>2
  <2> QED BY <2>1, <2>2
<1>6. LeaseShape'
  <2>1. \A u \in Tasks :
          /\ task'[u].status = "Leased" => task'[u].leased_to \in Workers /\ task'[u].attempts >= 1
          /\ task'[u].status \in {"absent", "Enqueued"} => task'[u].leased_to = None
          /\ u \in unsaved' => task'[u].status = "absent"
    BY <1>3, <1>4 DEF IInv, LeaseShape
  <2>2. ASSUME NEW u \in Tasks, u # t, t \in Tasks, task[u].status = "Leased"
        PROVE  task[u].leased_to # w
    <3>1. CASE w \notin Busy BY <2>2, <3>1 DEF Busy, With
    <3>2. CASE task[t].status = "Leased"
      <4>1. task[t].leased_to \in Workers BY <2>2, <3>2 DEF IInv, LeaseShape
      <4>2. task[t].leased_to = w BY <2>2, <4>1, NoneAssumption
      <4> QED BY <2>2, <3>2, <4>2 DEF IInv, LeaseShape
    <3> QED BY <2>2, <3>1, <3>2
  <2>3. \A u, v \in Tasks :
          /\ task'[u].status = "Leased" /\ task'[v].status = "Leased"
          /\ task'[u].leased_to = task'[v].leased_to
          => u = v
    BY <1>3, <2>2 DEF IInv, LeaseShape
  <2> QED BY <2>1, <2>3 DEF LeaseShape
<1>7. WorkersStay BY <1>3 DEF WorkersStay
<1> QED BY <1>5, <1>6, <1>7 DEF TasksKept

\* A driver that takes no step is not concerned by the others' steps.
LEMMA OthersKept ==
  ASSUME NEW e \in Drivers, Tracks(e), Works(e), drv'[e] = drv[e], stream'[e] = stream[e],
         WorkersStay, \A p : p.owner = e => (p \in proc' <=> p \in proc)
  PROVE  Tracks(e)' /\ Works(e)'
<1>1. Tracked(e)' = Tracked(e) BY DEF Tracked
<1>2. Tracks(e)' BY <1>1 DEF Tracks
<1>3. ASSUME NEW i, Startable(i) PROVE Startable(i)' /\ WorkerOf(i)' = WorkerOf(i)
  <2>1. i.task \in Tasks /\ task[i.task].leased_to # None
    BY <1>3, NoneAssumption DEF Startable
  <2> QED BY <1>3, <2>1 DEF Startable, WorkerOf, WorkersStay
<1>4. Works(e)' BY <1>1, <1>3 DEF Works
<1> QED BY <1>2, <1>4

\* What is left to show of a step of driver d: of its own state, and of what
\* it does to the status of the run.
LEMMA DriverStep ==
  ASSUME IInv, NEW d \in Drivers, NEW F, Set(d, F), TasksKept, OpsKept,
         AllDone => AllDone', unsaved = {},
         stream' \in [Drivers -> [Workers -> AttemptRecord]], proc' \subseteq ProcessRecord,
         \A e \in Drivers \ {d} : stream'[e] = stream[e],
         \A p : p.owner # d => (p \in proc' <=> p \in proc),
         drv'[d].pc \in Looping => \/ drv[d].pc \in Looping
                                   \/ \A e \in Drivers \ {d} : drv[e].pc \notin Looping,
         drv'[d].goal = drv[d].goal,
         run' = "Completed" => run = "Completed" \/ drv[d].view = "Completed" \/ AllDone,
         drv'[d].view = "Completed" => drv[d].view = "Completed" \/ AllDone,
         Tracks(d)', Works(d)'
  PROVE  IInv'
<1>1. /\ drv' = [e \in Drivers |-> drv'[e]] /\ \A e \in Drivers : DOMAIN drv'[e] = Fields
      /\ \A e \in Drivers \ {d} : drv'[e] = drv[e]
  BY SetFacts DEF IInv
<1>2. Types' BY <1>1 DEF Types, TasksKept, OpsKept
<1>3. LeaseShape' BY DEF TasksKept
<1>4. LockShape' BY <1>1 DEF IInv, LockShape
<1>5. SavedShape' BY DEF SavedShape, TasksKept
<1>6. ViewShape'
  <2> SUFFICES ASSUME NoRestarts'
               PROVE  /\ run' = "Completed" => AllDone'
                      /\ \A e \in Drivers : drv'[e].view = "Completed" => AllDone'
                      /\ \A o \in Operators : op'[o].view = "Completed" => AllDone'
    BY DEF ViewShape
  <2>1. NoRestarts BY <1>1 DEF NoRestarts
  <2> QED BY <1>1, <2>1 DEF IInv, ViewShape, OpsKept
<1>7. ASSUME NEW e \in Drivers PROVE Tracks(e)' /\ Works(e)'
  <2>1. CASE e = d BY <2>1
  <2>2. CASE e # d
    <3>1. /\ drv'[e] = drv[e] /\ stream'[e] = stream[e] /\ WorkersStay
          /\ \A p : p.owner = e => (p \in proc' <=> p \in proc)
      BY <1>1, <2>2 DEF TasksKept
    <3> QED BY <3>1, OthersKept DEF IInv
  <2> QED BY <2>1, <2>2
<1> QED BY <1>2, <1>3, <1>4, <1>5, <1>6, <1>7 DEF IInv

-----------------------------------------------------------------------------
(* The steps of a driver that only go on.                                  *)

Busily == {"visit", "poll", "ended", "record", "launching", "launched"}

\* A driver that has begun found all tasks enqueued.
LEMMA Started ==
  ASSUME IInv, NEW d \in Drivers, drv[d].pc # "new"
  PROVE  unsaved = {}
BY DEF IInv, SavedShape

\* To a place where the driver has nothing at hand.
LEMMA PlainMove ==
  ASSUME IInv, NEW d \in Drivers, NEW F, Set(d, F), OpsKept, unsaved = {},
         UNCHANGED <<task, unsaved, stream, proc>>,
         drv[d].pc \notin Out, drv'[d].pc \notin Busily,
         drv[d].pc \in Looping => drv'[d].pc \in Looping \cup Out,
         drv'[d].pc \in Looping => \/ drv[d].pc \in Looping
                                   \/ \A e \in Drivers \ {d} : drv[e].pc \notin Looping,
         drv'[d].goal = drv[d].goal,
         run' = "Completed" => run = "Completed" \/ drv[d].view = "Completed" \/ AllDone,
         drv'[d].view = "Completed" => drv[d].view = "Completed" \/ AllDone
  PROVE  IInv'
<1>1. TasksKept /\ (AllDone => AllDone') BY TasksUnchanged
<1>2. Tracks(d)'
  <2>1. Tracked(d)' = Tracked(d) BY DEF Tracked
  <2> QED BY <2>1 DEF IInv, Tracks
<1>3. Works(d)' BY DEF Works, Busily
<1>4. stream' \in [Drivers -> [Workers -> AttemptRecord]] /\ proc' \subseteq ProcessRecord
  BY DEF IInv, Types
<1> QED BY <1>1, <1>2, <1>3, <1>4, DriverStep

\* Where a driver's program counter can be.
LEMMA Places ==
  /\ \A pc \in Looping \cup {"lock", "new", "activate", "restarted"} : pc \notin Out
  /\ \A pc \in {"lock", "new", "activate", "restarted", "done", "failed", "dead"} :
       pc \notin Looping /\ pc \notin Busily
  /\ {"schedule", "lease", "sched_refresh", "launch", "tick_refresh", "loop_refresh", "check"}
       \subseteq Looping \ Busily
  /\ Busily \subseteq Looping
BY DEF Looping, Out, Busily

\* Starting, waiting for the lock, scheduling and leaving.
LEMMA ControlSteps ==
  ASSUME IInv, NEW d \in Drivers,
         \/ activate_run(d) \/ Activated(d) \/ TryLock(d) \/ Schedule(d) \/ LeaseEnds(d)
         \/ LeaseRefused(d) \/ TickDone(d) \/ Check(d) \/ DriverDies(d)
  PROVE  IInv'
<1>1. Types /\ UNCHANGED <<task, unsaved, stream, proc>>
  BY DEF IInv, activate_run, Activated, TryLock, Schedule, LeaseEnds, LeaseRefused, TickDone,
         Check, DriverDies, ledger
<1>2. UNCHANGED op => OpsKept BY <1>1, OpsUnchanged
<1>3. CASE activate_run(d)
  <2>1. /\ unsaved = {} /\ drv[d].pc = "new" /\ UNCHANGED <<run, op>>
        /\ Goto(d, IF run = "Running" THEN "lock" ELSE "activate")
    BY <1>3 DEF activate_run, ledger
  <2>2. PICK pc \in {"lock", "activate"} : Set(d, [pc |-> pc]) BY <2>1 DEF Goto
  <2>3. drv'[d].pc = pc /\ drv'[d].goal = drv[d].goal /\ drv'[d].view = drv[d].view
    BY <1>1, <2>2, SetFacts
  <2> QED BY <1>1, <1>2, <2>1, <2>2, <2>3, Places, PlainMove
<1>4. CASE Activated(d)
  <2>1. /\ drv[d].pc \in {"activate", "restarted"} /\ run' = "Running" /\ UNCHANGED op
        /\ Set(d, [pc |-> "lock"])
    BY <1>4 DEF Activated, Goto
  <2>2. drv'[d].pc = "lock" /\ drv'[d].goal = drv[d].goal /\ drv'[d].view = drv[d].view
    BY <1>1, <2>1, SetFacts
  <2>3. unsaved = {} BY <2>1, Started
  <2> QED BY <1>1, <1>2, <2>1, <2>2, <2>3, Places, PlainMove
<1>5. CASE TryLock(d)
  <2>1. drv[d].pc = "lock" /\ UNCHANGED <<run, op>> BY <1>5 DEF TryLock, ledger
  <2>2. unsaved = {} BY <2>1, Started
  <2>3. CASE Locked(d) /\ Set(d, [observed |-> TRUE, pc |-> IF Open = {} THEN "done" ELSE "lock"])
    <3>1. drv'[d].pc \in {"done", "lock"} /\ drv'[d].goal = drv[d].goal
          /\ drv'[d].view = drv[d].view
      BY <1>1, <2>3, SetFacts
    <3>2. PICK F : Set(d, F) BY <2>3
    <3> QED BY <1>1, <1>2, <2>1, <2>2, <3>1, <3>2, Places, PlainMove
  <2>4. CASE ~Locked(d) /\ ~drv[d].observed /\ Goto(d, "schedule")
    <3>1. Set(d, [pc |-> "schedule"]) BY <2>4 DEF Goto
    <3>2. drv'[d].pc = "schedule" /\ drv'[d].goal = drv[d].goal /\ drv'[d].view = drv[d].view
      BY <1>1, <3>1, SetFacts
    <3>3. \A e \in Drivers \ {d} : drv[e].pc \notin Looping BY <2>4 DEF Locked
    <3> QED BY <1>1, <1>2, <2>1, <2>2, <3>1, <3>2, <3>3, Places, PlainMove
  <2>5. CASE ~Locked(d) /\ drv[d].observed /\ Goto(d, IF Open = {} THEN "done" ELSE "failed")
    <3>1. PICK pc \in {"done", "failed"} : Set(d, [pc |-> pc]) BY <2>5 DEF Goto
    <3>2. drv'[d].pc = pc /\ drv'[d].goal = drv[d].goal /\ drv'[d].view = drv[d].view
      BY <1>1, <3>1, SetFacts
    <3> QED BY <1>1, <1>2, <2>1, <2>2, <3>1, <3>2, Places, PlainMove
  <2> QED BY <1>5, <2>3, <2>4, <2>5 DEF TryLock
<1>6. CASE Schedule(d)
  <2>1. /\ drv[d].pc = "schedule" /\ UNCHANGED run /\ Touch(Busy)
        /\ Set(d, [pc |-> "lease", err |-> FALSE])
    BY <1>6 DEF Schedule
  <2>2. drv'[d].pc = "lease" /\ drv'[d].goal = drv[d].goal /\ drv'[d].view = drv[d].view
    BY <1>1, <2>1, SetFacts
  <2>3. unsaved = {} BY <2>1, Started
  <2>4. OpsKept BY <1>1, <2>1, TouchFacts
  <2> QED BY <1>1, <2>1, <2>2, <2>3, <2>4, Places, PlainMove
<1>7. CASE LeaseEnds(d) \/ TickDone(d)
  <2>1. /\ drv[d].pc \in {"lease", "visit"} /\ UNCHANGED <<run, op>>
        /\ Goto(d, "sched_refresh") \/ Goto(d, "tick_refresh")
    BY <1>7 DEF LeaseEnds, TickDone, ledger
  <2>2. PICK pc \in {"sched_refresh", "tick_refresh"} : Set(d, [pc |-> pc]) BY <2>1 DEF Goto
  <2>3. drv'[d].pc = pc /\ drv'[d].goal = drv[d].goal /\ drv'[d].view = drv[d].view
    BY <1>1, <2>2, SetFacts
  <2>4. unsaved = {} BY <2>1, Started
  <2>5. drv[d].pc \in Looping BY <2>1 DEF Looping
  <2> QED BY <1>1, <1>2, <2>1, <2>2, <2>3, <2>4, <2>5, Places, PlainMove
<1>8. CASE LeaseRefused(d)
  <2>1. /\ drv[d].pc = "lease" /\ UNCHANGED <<run, op>>
        /\ \/ Set(d, [pc |-> "sched_refresh"])
           \/ Set(d, [pc |-> "launch", err |-> TRUE])
    BY <1>8 DEF LeaseRefused, Goto, ledger
  <2>2. /\ drv'[d].pc \in {"sched_refresh", "launch"} /\ drv'[d].goal = drv[d].goal
        /\ drv'[d].view = drv[d].view
    BY <1>1, <2>1, SetFacts
  <2>3. PICK F : Set(d, F) BY <2>1
  <2>4. unsaved = {} BY <2>1, Started
  <2> QED BY <1>1, <1>2, <2>1, <2>2, <2>3, <2>4, Places, PlainMove
<1>9. CASE Check(d)
  <2>1. drv[d].pc = "check" /\ UNCHANGED <<run, op>> BY <1>9 DEF Check, ledger
  <2>2. PICK pc \in {"schedule", "failed", "done"} : Set(d, [pc |-> pc])
    BY <1>9 DEF Check, Goto
  <2>3. drv'[d].pc = pc /\ drv'[d].goal = drv[d].goal /\ drv'[d].view = drv[d].view
    BY <1>1, <2>2, SetFacts
  <2>4. unsaved = {} BY <2>1, Started
  <2>5. pc \in Looping \cup Out BY DEF Looping, Out
  <2> QED BY <1>1, <1>2, <2>1, <2>2, <2>3, <2>4, <2>5, Places, PlainMove
<1>10. CASE DriverDies(d)
  <2>1. /\ drv[d].pc \in Looping \cup {"lock", "activate", "restarted"} /\ UNCHANGED <<run, op>>
        /\ Set(d, [pc |-> "dead"])
    BY <1>10 DEF DriverDies, Goto, ledger
  <2>2. drv'[d].pc = "dead" /\ drv'[d].goal = drv[d].goal /\ drv'[d].view = drv[d].view
    BY <1>1, <2>1, SetFacts
  <2>3. drv[d].pc # "new" BY <2>1 DEF Looping
  <2>4. unsaved = {} BY <2>3, Started
  <2>5. "dead" \in Out BY DEF Out
  <2> QED BY <1>1, <1>2, <2>1, <2>2, <2>4, <2>5, Places, PlainMove
<1> QED BY <1>3, <1>4, <1>5, <1>6, <1>7, <1>8, <1>9, <1>10

\* What refresh_run_status reads when it reads "Completed".
LEMMA SeenDone ==
  ASSUME IInv, unsaved = {}, RunStatus = "Completed"
  PROVE  AllDone
<1>1. Open = {} /\ With("Failed") = {} /\ With("Cancelled") = {} BY DEF RunStatus
<1>2. ASSUME NEW t \in Tasks PROVE task[t].status \in {"Completed", "absent"}
  <2>1. task[t].status \in {"absent", "Enqueued", "Leased"} \cup Terminal
    BY DEF IInv, Types, TaskRecord
  <2>2. task[t].status \notin {"Enqueued", "Leased", "Failed", "Cancelled"}
    BY <1>1 DEF Open, With
  <2> QED BY <2>1, <2>2 DEF Terminal
<1> QED BY <1>2 DEF AllDone

\* The status is read in one transaction and written in another.
LEMMA RefreshStep ==
  ASSUME IInv, NEW d \in Drivers, Refresh(d)
  PROVE  IInv'
<1>1. /\ Types /\ UNCHANGED <<task, unsaved, stream, proc, op>>
      /\ drv[d].pc \in {"sched_refresh", "tick_refresh", "loop_refresh"}
  BY DEF IInv, Refresh, AfterRefresh
<1>2. OpsKept BY <1>1, OpsUnchanged
<1>3. unsaved = {} /\ drv[d].pc \in Looping \ Busily /\ drv[d].pc \notin Out
  BY <1>1, Started, Places
<1>4. CASE drv[d].view = None /\ Set(d, [view |-> RunStatus]) /\ UNCHANGED run
  <2>1. /\ drv'[d].pc = drv[d].pc /\ drv'[d].goal = drv[d].goal /\ drv'[d].view = RunStatus
    BY <1>1, <1>4, SetFacts
  <2>2. drv'[d].view = "Completed" => AllDone BY <1>3, <2>1, SeenDone
  <2>3. PICK F : Set(d, F) BY <1>4
  <2> QED BY <1>1, <1>2, <1>3, <1>4, <2>1, <2>2, <2>3, PlainMove
<1>5. CASE /\ drv[d].view # None /\ run' = drv[d].view
           /\ Set(d, [view |-> None, pc |-> AfterRefresh[drv[d].pc]])
  <2>1. /\ drv'[d].pc = AfterRefresh[drv[d].pc] /\ drv'[d].goal = drv[d].goal
        /\ drv'[d].view = None
    BY <1>1, <1>5, SetFacts
  <2>2. drv'[d].pc \in {"launch", "loop_refresh", "check"} BY <1>1, <2>1 DEF AfterRefresh
  <2>3. PICK F : Set(d, F) BY <1>5
  <2>4. drv'[d].view # "Completed" BY <2>1 DEF None
  <2> QED BY <1>1, <1>2, <1>3, <1>5, <2>1, <2>2, <2>3, <2>4, Places, PlainMove
<1> QED BY <1>4, <1>5 DEF Refresh

\* A lease goes to a worker nobody has a lease for and the driver does not track.
LEMMA LeaseStep ==
  ASSUME IInv, NEW d \in Drivers, Lease(d)
  PROVE  IInv'
<1>1. /\ drv[d].pc = "lease" /\ UNCHANGED <<run, breached, unsaved, drv, stream, proc, faults>>
  BY DEF Lease
<1>2. PICK w \in IdleWorkers(d), t \in With("Enqueued") : NewLease(t, w) /\ Touch({w})
  BY DEF Lease
<1>3. w \in Workers /\ w \notin Busy /\ t \in Tasks /\ task[t].status = "Enqueued"
      /\ task[t].leased_to = None
  BY <1>2 DEF IdleWorkers, With, IInv, LeaseShape
<1>4. unsaved = {} BY <1>1, Started
<1>5. TasksKept BY <1>1, <1>2, <1>3, <1>4, LeaseFacts
<1>6. OpsKept BY <1>2, TouchFacts DEF IInv
<1>7. ~AllDone BY <1>3 DEF AllDone
<1>8. Types' BY <1>1, <1>5, <1>6 DEF IInv, Types, TasksKept, OpsKept
<1>9. LeaseShape' /\ SavedShape' /\ LockShape'
  BY <1>1, <1>4, <1>5 DEF IInv, TasksKept, SavedShape, LockShape
<1>10. ViewShape' BY <1>1, <1>6, <1>7 DEF IInv, ViewShape, OpsKept, NoRestarts
<1>11. \A e \in Drivers : Tracks(e)' /\ Works(e)'
  BY <1>1, <1>5, OthersKept DEF IInv, TasksKept
<1> QED BY <1>8, <1>9, <1>10, <1>11 DEF IInv

-----------------------------------------------------------------------------
(* Starting processes.                                                     *)

\* The leases a driver starts processes for are of different, untracked workers.
LEMMA StartLeasedStep ==
  ASSUME IInv, NEW d \in Drivers, StartLeased(d)
  PROVE  IInv'
<1> DEFINE S == {u \in With("Leased") : task[u].leased_to \notin Tracked(d)}
<1>1. /\ drv[d].pc = "launch" /\ UNCHANGED <<task, run, beat, breached, unsaved, stream, proc,
                                             op, faults>>
      /\ Set(d, [pc |-> "launching", todo |-> {Attempt(t, task[t].attempts) : t \in S}])
  BY DEF StartLeased, ledger
<1>2. Types BY DEF IInv
<1>3. /\ drv'[d].pc = "launching" /\ drv'[d].goal = drv[d].goal /\ drv'[d].view = drv[d].view
      /\ drv'[d].todo = {Attempt(t, task[t].attempts) : t \in S}
  BY <1>1, <1>2, SetFacts
<1>4. unsaved = {} /\ OpsKept BY <1>1, <1>2, Started, OpsUnchanged
<1>5. TasksKept /\ (AllDone => AllDone') BY <1>1, TasksUnchanged
<1>6. Tracked(d)' = Tracked(d) BY <1>1 DEF Tracked
<1>7. drv[d].pc \in Looping /\ drv'[d].pc \in Looping BY <1>1, <1>3 DEF Looping
<1>8. Tracks(d)' BY <1>1, <1>6, <1>7, Places DEF IInv, Tracks
<1>9. ASSUME NEW t \in S
      PROVE  /\ t \in Tasks /\ task[t].status = "Leased" /\ task[t].attempts \in Nat \ {0}
             /\ task[t].leased_to \in Workers \ Tracked(d)
  BY <1>2, <1>9 DEF With, IInv, LeaseShape, Types, TaskRecord
<1>10. Works(d)'
  <2>1. ASSUME NEW i \in drv'[d].todo
        PROVE  \E t \in S : i = Attempt(t, task[t].attempts) /\ i.task = t
                            /\ i.attempt = task[t].attempts
    BY <1>3, <2>1 DEF Attempt
  <2> HIDE DEF S
  <2>2. \A i \in drv'[d].todo : Startable(i)' /\ WorkerOf(i)' \notin Tracked(d)
    BY <1>1, <1>9, <2>1 DEF Startable, WorkerOf
  <2>3. ASSUME NEW i \in drv'[d].todo, NEW j \in drv'[d].todo, WorkerOf(i)' = WorkerOf(j)'
        PROVE  i = j
    <3>1. PICK t \in S : i = Attempt(t, task[t].attempts) /\ i.task = t BY <2>1
    <3>2. PICK u \in S : j = Attempt(u, task[u].attempts) /\ j.task = u BY <2>1
    <3>3. t = u BY <1>1, <1>9, <2>3, <3>1, <3>2 DEF WorkerOf, IInv, LeaseShape
    <3> QED BY <3>1, <3>2, <3>3
  <2> QED BY <1>3, <1>6, <2>2, <2>3 DEF Works
<1>11. stream' \in [Drivers -> [Workers -> AttemptRecord]] /\ proc' \subseteq ProcessRecord
  BY <1>1, <1>2 DEF Types
<1>12. PICK F : Set(d, F) BY <1>1
<1> QED BY <1>1, <1>3, <1>4, <1>5, <1>7, <1>8, <1>10, <1>11, <1>12, DriverStep

\* The process a driver tracks for a worker.
LEMMA ProcOfFacts ==
  ASSUME IInv, NEW d \in Drivers, drv[d].pc \notin Out, NEW w \in Tracked(d)
  PROVE  /\ ProcOf(d, w) \in proc /\ ProcOf(d, w) \in ProcessRecord
         /\ ProcOf(d, w).owner = d /\ ProcOf(d, w).worker = w
         /\ Attempt(ProcOf(d, w).task, ProcOf(d, w).attempt) = stream[d][w]
         /\ ProcOf(d, w).task = stream[d][w].task /\ ProcOf(d, w).attempt = stream[d][w].attempt
         /\ stream[d][w].task \in Tasks
         /\ \A p \in proc : p.owner = d /\ p.worker = w => p = ProcOf(d, w)
<1>1. PICK p \in proc : p.owner = d /\ p.worker = w BY DEF IInv, Tracks
<1>2. Attempt(p.task, p.attempt) = stream[d][w] BY <1>1 DEF IInv, Tracks
<1>3. /\ ProcOf(d, w) \in proc /\ ProcOf(d, w).owner = d /\ ProcOf(d, w).worker = w
      /\ Attempt(ProcOf(d, w).task, ProcOf(d, w).attempt) = stream[d][w]
  BY <1>1, <1>2 DEF ProcOf
<1>4. ProcOf(d, w) \in ProcessRecord BY <1>3 DEF IInv, Types
<1>5. \A q \in proc : q.owner = d /\ q.worker = w => q = ProcOf(d, w)
  BY <1>3 DEF IInv, Tracks
<1>6. /\ ProcOf(d, w).task = stream[d][w].task /\ ProcOf(d, w).attempt = stream[d][w].attempt
      /\ ProcOf(d, w).task \in Tasks
  BY <1>3, <1>4 DEF Attempt, ProcessRecord
<1> QED BY <1>3, <1>4, <1>5, <1>6

\* The process is gone, and the worker is not tracked any more.
LEMMA ForgetFacts ==
  ASSUME IInv, NEW d \in Drivers, drv[d].pc \in Looping, NEW w \in Tracked(d), Forget(d, w)
  PROVE  /\ stream' \in [Drivers -> [Workers -> AttemptRecord]] /\ proc' \subseteq ProcessRecord
         /\ \A e \in Drivers \ {d} : stream'[e] = stream[e]
         /\ \A v \in Workers \ {w} : stream'[d][v] = stream[d][v]
         /\ \A p : p.owner # d => (p \in proc' <=> p \in proc)
         /\ Tracked(d)' = Tracked(d) \ {w}
         /\ drv'[d].pc \in Looping => Tracks(d)'
<1>1. proc' = proc \ {ProcOf(d, w)} /\ stream' = [stream EXCEPT ![d][w] = NoAttempt]
  BY DEF Forget
<1>2. /\ stream \in [Drivers -> [Workers -> AttemptRecord]] /\ proc \subseteq ProcessRecord
      /\ w \in Workers
  BY DEF IInv, Types, Tracked
<1>3. NoAttempt \in AttemptRecord BY DEF NoAttempt, AttemptRecord
<1>4. drv[d].pc \notin Out BY Places
<1>5. /\ ProcOf(d, w).owner = d /\ ProcOf(d, w).worker = w
      /\ \A p \in proc : p.owner = d /\ p.worker = w => p = ProcOf(d, w)
  BY <1>4, ProcOfFacts
<1>6. /\ stream' \in [Drivers -> [Workers -> AttemptRecord]]
      /\ \A e \in Drivers \ {d} : stream'[e] = stream[e]
      /\ \A v \in Workers : stream'[d][v] = IF v = w THEN NoAttempt ELSE stream[d][v]
  BY <1>1, <1>2, <1>3
<1>7. Tracked(d)' = Tracked(d) \ {w} BY <1>2, <1>6 DEF Tracked
<1>8. \A p : p.owner # d => (p \in proc' <=> p \in proc) BY <1>1, <1>5
<1>9. ASSUME drv'[d].pc \in Looping PROVE Tracks(d)'
  <2>1. \A p \in proc' : p.owner = d => /\ p \in proc /\ p.worker # w /\ p.worker \in Workers
    BY <1>1, <1>2, <1>5 DEF ProcessRecord
  <2>2. \A p \in proc' : p.owner = d => stream'[d][p.worker] = Attempt(p.task, p.attempt)
    BY <1>4, <1>6, <2>1 DEF IInv, Tracks
  <2>3. \A v \in Tracked(d)' : \E p \in proc' : p.owner = d /\ p.worker = v
    BY <1>1, <1>4, <1>5, <1>7 DEF IInv, Tracks
  <2> QED BY <1>4, <1>9, <2>1, <2>2, <2>3 DEF IInv, Tracks
<1> QED BY <1>1, <1>2, <1>6, <1>7, <1>8, <1>9

\* A process is started: the worker had none here.
LEMMA StartProcessStep ==
  ASSUME IInv, NEW d \in Drivers, NEW i \in drv[d].todo, StartProcess(d, i)
  PROVE  IInv'
<1> DEFINE w == task[i.task].leased_to
           p == [owner |-> d, worker |-> w, task |-> i.task, attempt |-> i.attempt,
                 state |-> "live", late |-> FALSE]
<1>1. /\ drv[d].pc = "launching" /\ proc' = proc \cup {p}
      /\ stream' = [stream EXCEPT ![d][w] = i] /\ Set(d, [pc |-> "launched", item |-> w])
      /\ UNCHANGED <<task, run, unsaved, op>>
  BY DEF StartProcess, ledger
<1>2. Types BY DEF IInv
<1>3. /\ drv'[d].pc = "launched" /\ drv'[d].item = w /\ drv'[d].todo = drv[d].todo
      /\ drv'[d].goal = drv[d].goal /\ drv'[d].view = drv[d].view
  BY <1>1, <1>2, SetFacts
<1>4. /\ i.task \in Tasks /\ i.attempt \in Nat \ {0} /\ i = Attempt(i.task, i.attempt)
      /\ w \in Workers /\ w \notin Tracked(d)
  BY <1>1 DEF IInv, Works, Startable, WorkerOf
<1>5. /\ p \in ProcessRecord /\ p.owner = d /\ p.worker = w
      /\ Attempt(p.task, p.attempt) = i /\ i \in AttemptRecord /\ i # NoAttempt
  BY <1>4 DEF ProcessRecord, AttemptRecord, Attempt, NoAttempt
<1> HIDE DEF p
<1>6. /\ stream \in [Drivers -> [Workers -> AttemptRecord]] /\ proc \subseteq ProcessRecord
  BY <1>2 DEF Types
<1>7. /\ stream' \in [Drivers -> [Workers -> AttemptRecord]] /\ proc' \subseteq ProcessRecord
      /\ \A e \in Drivers \ {d} : stream'[e] = stream[e]
      /\ \A v \in Workers : stream'[d][v] = IF v = w THEN i ELSE stream[d][v]
  BY <1>1, <1>4, <1>5, <1>6
<1>8. \A q : q.owner # d => (q \in proc' <=> q \in proc) BY <1>1, <1>5
<1>9. Tracked(d)' = Tracked(d) \cup {w} BY <1>4, <1>5, <1>7 DEF Tracked
<1>10. drv[d].pc \in Looping /\ drv'[d].pc \in Looping /\ drv[d].pc \notin Out
  BY <1>1, <1>3 DEF Looping, Out
<1>11. \A q \in proc : q.owner = d => q.worker # w /\ q.worker \in Workers
  <2> SUFFICES ASSUME NEW q \in proc, q.owner = d PROVE q.worker # w /\ q.worker \in Workers
    OBVIOUS
  <2>1. q.worker \in Workers /\ q.attempt # 0 BY <1>6 DEF ProcessRecord
  <2>2. stream[d][q.worker] = Attempt(q.task, q.attempt) BY <1>10 DEF IInv, Tracks
  <2>3. stream[d][q.worker] # NoAttempt BY <2>1, <2>2 DEF Attempt, NoAttempt
  <2> QED BY <1>4, <2>1, <2>3 DEF Tracked
<1>12. Tracks(d)'
  <2>1. \A q \in proc' : q.owner = d => stream'[d][q.worker] = Attempt(q.task, q.attempt)
    BY <1>1, <1>4, <1>5, <1>7, <1>10, <1>11 DEF IInv, Tracks
  <2>2. \A q, r \in proc' : q.owner = d /\ r.owner = d /\ q.worker = r.worker => q = r
    BY <1>1, <1>5, <1>10, <1>11 DEF IInv, Tracks
  <2>3. \A v \in Tracked(d)' : \E q \in proc' : q.owner = d /\ q.worker = v
    BY <1>1, <1>5, <1>9, <1>10 DEF IInv, Tracks
  <2> QED BY <1>10, <2>1, <2>2, <2>3 DEF Tracks
<1>13. Works(d)'
  <2>1. \A j \in drv[d].todo : /\ (Startable(j)' <=> Startable(j)) /\ WorkerOf(j)' = WorkerOf(j)
    BY <1>1 DEF Startable, WorkerOf
  <2>2. /\ \A j \in drv[d].todo : Startable(j) /\ WorkerOf(j) \notin Tracked(d)
        /\ \A j, k \in drv[d].todo : WorkerOf(j) = WorkerOf(k) => j = k
    BY <1>1 DEF IInv, Works
  <2>3. stream'[d][drv'[d].item] = i BY <1>3, <1>4, <1>7
  <2>4. \A j \in drv[d].todo : j # i => WorkerOf(j) \notin Tracked(d)'
    BY <1>9, <2>2 DEF WorkerOf
  <2> QED BY <1>3, <1>9, <2>1, <2>2, <2>3, <2>4 DEF Works
<1>14. TasksKept /\ (AllDone => AllDone') BY <1>1, TasksUnchanged
<1>15. unsaved = {} /\ OpsKept BY <1>1, <1>2, Started, OpsUnchanged
<1>16. PICK F : Set(d, F) BY <1>1
<1> QED BY <1>1, <1>3, <1>7, <1>8, <1>10, <1>12, <1>13, <1>14, <1>15, <1>16, DriverStep

\* A start that fails: the lease ends with it if it is still the one.
LEMMA LaunchFailsStep ==
  ASSUME IInv, NEW d \in Drivers, NEW i \in drv[d].todo, LaunchFails(d, i)
  PROVE  IInv'
<1>1. /\ drv[d].pc = "launching" /\ Set(d, [todo |-> drv[d].todo \ {i}])
      /\ UNCHANGED <<run, unsaved, stream, proc, op>>
      /\ \/ LeaseLive(i.task, task[i.task].leased_to, i.attempt) /\ End(i.task, "Failed")
         \/ UNCHANGED task
  BY DEF LaunchFails
<1>2. Types BY DEF IInv
<1>3. /\ drv'[d].pc = "launching" /\ drv'[d].todo = drv[d].todo \ {i}
      /\ drv'[d].goal = drv[d].goal /\ drv'[d].view = drv[d].view
  BY <1>1, <1>2, SetFacts
<1>4. TasksKept /\ (AllDone => AllDone')
  <2>1. CASE UNCHANGED task BY <1>1, <2>1, TasksUnchanged
  <2>2. CASE LeaseLive(i.task, task[i.task].leased_to, i.attempt) /\ End(i.task, "Failed")
    <3>1. task[i.task].status = "Leased" /\ "Failed" \in Terminal
      BY <2>2 DEF LeaseLive, Terminal
    <3> QED BY <1>1, <2>2, <3>1, EndFacts
  <2> QED BY <1>1, <2>1, <2>2
<1>5. Tracked(d)' = Tracked(d) BY <1>1 DEF Tracked
<1>6. drv[d].pc \in Looping /\ drv'[d].pc \in Looping /\ drv[d].pc \notin Out
  BY <1>1, <1>3 DEF Looping, Out
<1>7. Tracks(d)' BY <1>1, <1>5, <1>6 DEF IInv, Tracks
<1>8. Works(d)'
  <2>1. /\ \A j \in drv[d].todo : Startable(j) /\ WorkerOf(j) \notin Tracked(d)
        /\ \A j, k \in drv[d].todo : WorkerOf(j) = WorkerOf(k) => j = k
    BY <1>1 DEF IInv, Works
  <2>2. ASSUME NEW j \in drv[d].todo PROVE Startable(j)' /\ WorkerOf(j)' = WorkerOf(j)
    <3>1. j.task \in Tasks /\ task[j.task].leased_to # None
      BY <2>1, NoneAssumption DEF Startable
    <3> QED BY <1>4, <2>1, <3>1 DEF Startable, WorkerOf, TasksKept, WorkersStay
  <2> QED BY <1>3, <1>5, <2>1, <2>2 DEF Works
<1>9. stream' \in [Drivers -> [Workers -> AttemptRecord]] /\ proc' \subseteq ProcessRecord
  BY <1>1, <1>2 DEF Types
<1>10. unsaved = {} /\ OpsKept BY <1>1, <1>2, Started, OpsUnchanged
<1>11. PICK F : Set(d, F) BY <1>1
<1> QED BY <1>1, <1>3, <1>4, <1>6, <1>7, <1>8, <1>9, <1>10, <1>11, DriverStep

\* The new process is kept if its lease lives.
LEMMA StartConfirmedStep ==
  ASSUME IInv, NEW d \in Drivers, StartConfirmed(d)
  PROVE  IInv'
<1> DEFINE w == drv[d].item
<1>1. /\ drv[d].pc = "launched" /\ UNCHANGED <<task, run, unsaved, op>>
      /\ IF TrackedLive(d, w) THEN UNCHANGED <<stream, proc>> ELSE Forget(d, w)
      /\ Set(d, [pc |-> "launching", item |-> None, todo |-> drv[d].todo \ {stream[d][w]}])
  BY DEF StartConfirmed, ledger
<1>2. Types BY DEF IInv
<1>3. /\ drv'[d].pc = "launching" /\ drv'[d].todo = drv[d].todo \ {stream[d][w]}
      /\ drv'[d].goal = drv[d].goal /\ drv'[d].view = drv[d].view
  BY <1>1, <1>2, SetFacts
<1>4. w \in Tracked(d) BY <1>1 DEF IInv, Works
<1>5. drv[d].pc \in Looping /\ drv'[d].pc \in Looping /\ drv[d].pc \notin Out
  BY <1>1, <1>3 DEF Looping, Out
<1>6. /\ stream' \in [Drivers -> [Workers -> AttemptRecord]] /\ proc' \subseteq ProcessRecord
      /\ \A e \in Drivers \ {d} : stream'[e] = stream[e]
      /\ \A p : p.owner # d => (p \in proc' <=> p \in proc)
      /\ Tracked(d)' \subseteq Tracked(d) /\ Tracks(d)'
  <2>1. CASE TrackedLive(d, w)
    <3>1. UNCHANGED <<stream, proc>> BY <1>1, <2>1
    <3>2. Tracked(d)' = Tracked(d) BY <3>1 DEF Tracked
    <3>3. Tracks(d)' BY <1>5, <3>1, <3>2 DEF IInv, Tracks
    <3> QED BY <1>2, <3>1, <3>2, <3>3 DEF Types
  <2>2. CASE ~TrackedLive(d, w)
    <3>1. PICK v : v = w OBVIOUS
    <3>2. Forget(d, v) /\ v \in Tracked(d) BY <1>1, <1>4, <2>2, <3>1
    <3> QED BY <1>5, <3>2, ForgetFacts
  <2> QED BY <2>1, <2>2
<1>7. Works(d)'
  <2>1. /\ \A j \in drv[d].todo : Startable(j)
        /\ \A j \in drv[d].todo : j # stream[d][w] => WorkerOf(j) \notin Tracked(d)
        /\ \A j, k \in drv[d].todo : WorkerOf(j) = WorkerOf(k) => j = k
    BY <1>1 DEF IInv, Works
  <2>2. \A j \in drv[d].todo : (Startable(j)' <=> Startable(j)) /\ WorkerOf(j)' = WorkerOf(j)
    BY <1>1 DEF Startable, WorkerOf
  <2> QED BY <1>3, <1>6, <2>1, <2>2 DEF Works
<1>8. TasksKept /\ (AllDone => AllDone') BY <1>1, TasksUnchanged
<1>9. unsaved = {} /\ OpsKept BY <1>1, <1>2, Started, OpsUnchanged
<1>10. PICK F : Set(d, F) BY <1>1
<1> QED BY <1>1, <1>3, <1>5, <1>6, <1>7, <1>8, <1>9, <1>10, DriverStep

-----------------------------------------------------------------------------
(* The executor's tick.                                                    *)

\* Going on with the processes that are tracked.
LEMMA VisitSteps ==
  ASSUME IInv, NEW d \in Drivers, StartsDone(d) \/ (\E w \in Workers : Visit(d, w)) \/ Poll(d)
  PROVE  IInv'
<1>1. Types /\ UNCHANGED <<task, unsaved, stream, proc>>
  BY DEF IInv, StartsDone, Visit, Poll, ledger
<1>2. TasksKept /\ (AllDone => AllDone') BY <1>1, TasksUnchanged
<1>3. Tracked(d)' = Tracked(d) BY <1>1 DEF Tracked
<1>4. stream' \in [Drivers -> [Workers -> AttemptRecord]] /\ proc' \subseteq ProcessRecord
  BY <1>1 DEF Types
<1>5. ASSUME drv[d].pc \in {"launching", "visit", "poll"}, drv'[d].pc \in {"visit", "poll", "ended"},
             drv'[d].goal = drv[d].goal, drv'[d].view = drv[d].view, Works(d)', OpsKept,
             run' \in {run, "Paused"}, \E F : Set(d, F)
      PROVE  IInv'
  <2>1. drv[d].pc \in Looping /\ drv'[d].pc \in Looping /\ drv[d].pc \notin Out
    BY <1>5 DEF Looping, Out
  <2>2. Tracks(d)' BY <1>1, <1>3, <2>1 DEF IInv, Tracks
  <2>3. unsaved = {} BY <1>5, Started
  <2>4. PICK F : Set(d, F) BY <1>5
  <2> QED BY <1>1, <1>2, <1>4, <1>5, <2>1, <2>2, <2>3, <2>4, DriverStep
<1>6. CASE StartsDone(d)
  <2>1. /\ drv[d].pc = "launching" /\ Set(d, [pc |-> "visit", todo |-> Tracked(d)])
        /\ UNCHANGED <<run, op>>
    BY <1>6 DEF StartsDone, ledger
  <2>2. /\ drv'[d].pc = "visit" /\ drv'[d].todo = Tracked(d)
        /\ drv'[d].goal = drv[d].goal /\ drv'[d].view = drv[d].view
    BY <1>1, <2>1, SetFacts
  <2>3. Works(d)' BY <1>3, <2>2 DEF Works
  <2>4. \E F : Set(d, F) BY <2>1
  <2> QED BY <1>1, <1>5, <2>1, <2>2, <2>3, <2>4, OpsUnchanged
<1>7. ASSUME NEW w \in Workers, Visit(d, w) PROVE IInv'
  <2>1. /\ drv[d].pc = "visit" /\ w \in drv[d].todo /\ UNCHANGED <<run, op>>
        /\ Set(d, [pc |-> "poll", item |-> w, todo |-> drv[d].todo \ {w}])
    BY <1>7 DEF Visit, ledger
  <2>2. /\ drv'[d].pc = "poll" /\ drv'[d].item = w /\ drv'[d].todo = drv[d].todo \ {w}
        /\ drv'[d].goal = drv[d].goal /\ drv'[d].view = drv[d].view
    BY <1>1, <2>1, SetFacts
  <2>3. drv[d].todo \subseteq Tracked(d) BY <2>1 DEF IInv, Works
  <2>4. Works(d)' BY <1>3, <2>1, <2>2, <2>3 DEF Works
  <2>5. \E F : Set(d, F) BY <2>1
  <2> QED BY <1>1, <1>5, <2>1, <2>2, <2>4, <2>5, OpsUnchanged
<1>8. CASE Poll(d)
  <2>1. /\ drv[d].pc = "poll" /\ Drain(d)
        /\ Set(d, IF Polled(d) THEN [pc |-> "ended"] ELSE [pc |-> "visit", item |-> None])
    BY <1>8 DEF Poll
  <2>2. OpsKept /\ run' \in {run, "Paused"}
    <3>1. CASE UNCHANGED <<run, beat, breached, op>> BY <1>1, <3>1, OpsUnchanged
    <3>2. CASE /\ Touch({drv[d].item})
               /\ \/ UNCHANGED <<run, breached>>
                  \/ Metered /\ ~breached /\ breached' = TRUE /\ run' = "Paused"
      BY <1>1, <3>2, TouchFacts
    <3> QED BY <2>1, <3>1, <3>2 DEF Drain
  <2>3. /\ drv[d].todo \subseteq Tracked(d) /\ drv[d].item \in Tracked(d)
        /\ drv[d].item \notin drv[d].todo
    BY <2>1 DEF IInv, Works
  <2>4. \E F : Set(d, F) BY <2>1
  <2>5. CASE Polled(d)
    <3>1. Set(d, [pc |-> "ended"]) BY <2>1, <2>5
    <3>2. /\ drv'[d].pc = "ended" /\ drv'[d].item = drv[d].item /\ drv'[d].todo = drv[d].todo
          /\ drv'[d].goal = drv[d].goal /\ drv'[d].view = drv[d].view
      BY <1>1, <3>1, SetFacts
    <3>3. Works(d)' BY <1>3, <2>3, <3>2 DEF Works
    <3> QED BY <1>5, <2>1, <2>2, <2>4, <3>2, <3>3
  <2>6. CASE ~Polled(d)
    <3>1. Set(d, [pc |-> "visit", item |-> None]) BY <2>1, <2>6
    <3>2. /\ drv'[d].pc = "visit" /\ drv'[d].todo = drv[d].todo
          /\ drv'[d].goal = drv[d].goal /\ drv'[d].view = drv[d].view
      BY <1>1, <3>1, SetFacts
    <3>3. Works(d)' BY <1>3, <2>3, <3>2 DEF Works
    <3> QED BY <1>5, <2>1, <2>2, <2>4, <3>2, <3>3
  <2> QED BY <2>5, <2>6
<1> QED BY <1>6, <1>7, <1>8

\* A process that is over is forgotten, whatever becomes of its task.
LEMMA ForgetSteps ==
  ASSUME IInv, NEW d \in Drivers, (\E w \in Workers : Fence(d, w)) \/ Ended(d) \/ Record(d)
  PROVE  IInv'
<1>1. Types /\ UNCHANGED <<run, unsaved, op>> /\ drv[d].pc \in {"visit", "ended", "record"}
  BY DEF IInv, Fence, Ended, Record, ledger
<1>2. drv[d].pc \in Looping /\ drv[d].pc \notin Out /\ unsaved = {}
  <2>1. drv[d].pc # "new" BY <1>1
  <2> QED BY <1>1, <2>1, Started DEF Looping, Out
<1>3. OpsKept BY <1>1, OpsUnchanged
<1>4. ASSUME NEW w \in Tracked(d), Forget(d, w), \E F : Set(d, F), drv'[d].pc = "visit",
             drv'[d].todo \subseteq Tracked(d) \ {w},
             drv'[d].goal = drv[d].goal, drv'[d].view = drv[d].view,
             TasksKept /\ (AllDone => AllDone')
      PROVE  IInv'
  <2>1. drv'[d].pc \in Looping BY <1>4 DEF Looping
  <2>2. /\ stream' \in [Drivers -> [Workers -> AttemptRecord]] /\ proc' \subseteq ProcessRecord
        /\ \A e \in Drivers \ {d} : stream'[e] = stream[e]
        /\ \A p : p.owner # d => (p \in proc' <=> p \in proc)
        /\ Tracked(d)' = Tracked(d) \ {w} /\ Tracks(d)'
    BY <1>2, <1>4, <2>1, ForgetFacts
  <2>3. Works(d)' BY <1>4, <2>2 DEF Works
  <2>4. PICK F : Set(d, F) BY <1>4
  <2> QED BY <1>1, <1>2, <1>3, <1>4, <2>1, <2>2, <2>3, <2>4, DriverStep
<1>5. ASSUME NEW w \in Workers, Fence(d, w) PROVE IInv'
  <2>1. /\ drv[d].pc = "visit" /\ w \in drv[d].todo /\ Forget(d, w)
        /\ Set(d, [todo |-> drv[d].todo \ {w}]) /\ UNCHANGED task
    BY <1>5 DEF Fence, ledger
  <2>2. /\ drv'[d].pc = "visit" /\ drv'[d].todo = drv[d].todo \ {w}
        /\ drv'[d].goal = drv[d].goal /\ drv'[d].view = drv[d].view
    BY <1>1, <2>1, SetFacts
  <2>3. drv[d].todo \subseteq Tracked(d) BY <2>1 DEF IInv, Works
  <2>4. TasksKept /\ (AllDone => AllDone') BY <1>1, <2>1, TasksUnchanged
  <2>5. \E F : Set(d, F) BY <2>1
  <2> QED BY <1>4, <2>1, <2>2, <2>3, <2>4, <2>5
<1>6. ASSUME drv[d].pc \in {"ended", "record"}
      PROVE  /\ drv[d].item \in Tracked(d) /\ drv[d].todo \subseteq Tracked(d) \ {drv[d].item}
  BY <1>6 DEF IInv, Works
<1>7. ASSUME drv[d].pc \in {"ended", "record"}, Forget(d, drv[d].item),
             Set(d, [pc |-> "visit", item |-> None]), TasksKept /\ (AllDone => AllDone')
      PROVE  IInv'
  <2>1. /\ drv'[d].pc = "visit" /\ drv'[d].todo = drv[d].todo
        /\ drv'[d].goal = drv[d].goal /\ drv'[d].view = drv[d].view
    BY <1>1, <1>7, SetFacts
  <2>2. PICK w : w = drv[d].item OBVIOUS
  <2>3. w \in Tracked(d) /\ Forget(d, w) /\ drv'[d].todo \subseteq Tracked(d) \ {w}
    BY <1>6, <1>7, <2>1, <2>2
  <2>4. \E F : Set(d, F) BY <1>7
  <2> QED BY <1>4, <1>7, <2>1, <2>3, <2>4
<1>8. ASSUME TrackedLive(d, drv[d].item), NEW s \in {"Completed", "Failed"},
             End(stream[d][drv[d].item].task, s)
      PROVE  TasksKept /\ (AllDone => AllDone')
  <2>1. PICK t : t = stream[d][drv[d].item].task OBVIOUS
  <2>2. task[t].status = "Leased" BY <1>8, <2>1 DEF TrackedLive, LeaseLive
  <2>3. End(t, s) /\ s \in Terminal BY <1>8, <2>1 DEF Terminal
  <2> QED BY <1>1, <2>2, <2>3, EndFacts
<1>9. CASE Ended(d)
  <2>1. drv[d].pc = "ended" BY <1>9 DEF Ended
  <2>2. CASE /\ Forget(d, drv[d].item) /\ Set(d, [pc |-> "visit", item |-> None])
             /\ UNCHANGED task
    BY <1>1, <1>7, <2>1, <2>2, TasksUnchanged
  <2>3. CASE /\ TrackedLive(d, drv[d].item) /\ Forget(d, drv[d].item)
             /\ End(stream[d][drv[d].item].task, "Failed")
             /\ Set(d, [pc |-> "visit", item |-> None])
    BY <1>7, <1>8, <2>1, <2>3
  <2>4. CASE Goto(d, "record") /\ UNCHANGED <<task, stream, proc>>
    <3>1. Set(d, [pc |-> "record"]) BY <2>4 DEF Goto
    <3>2. /\ drv'[d].pc = "record" /\ drv'[d].todo = drv[d].todo /\ drv'[d].item = drv[d].item
          /\ drv'[d].goal = drv[d].goal /\ drv'[d].view = drv[d].view
      BY <1>1, <3>1, SetFacts
    <3>3. Tracked(d)' = Tracked(d) BY <2>4 DEF Tracked
    <3>4. drv'[d].pc \in Looping BY <3>2 DEF Looping
    <3>5. Tracks(d)' BY <1>2, <2>4, <3>3, <3>4 DEF IInv, Tracks
    <3>6. Works(d)' BY <1>6, <2>1, <3>2, <3>3 DEF Works
    <3>7. TasksKept /\ (AllDone => AllDone') BY <1>1, <2>4, TasksUnchanged
    <3>8. stream' \in [Drivers -> [Workers -> AttemptRecord]] /\ proc' \subseteq ProcessRecord
      BY <1>1, <2>4 DEF Types
    <3> QED BY <1>1, <1>2, <1>3, <2>4, <3>1, <3>2, <3>4, <3>5, <3>6, <3>7, <3>8, DriverStep
  <2> QED BY <1>9, <2>2, <2>3, <2>4 DEF Ended
<1>10. CASE Record(d)
  <2>1. /\ drv[d].pc = "record" /\ Forget(d, drv[d].item)
        /\ Set(d, [pc |-> "visit", item |-> None])
        /\ IF TrackedLive(d, drv[d].item)
           THEN \/ End(stream[d][drv[d].item].task, "Completed")
                \/ End(stream[d][drv[d].item].task, "Failed")
           ELSE UNCHANGED task
    BY <1>10 DEF Record
  <2>2. TasksKept /\ (AllDone => AllDone') BY <1>1, <1>8, <2>1, TasksUnchanged
  <2> QED BY <1>7, <2>1, <2>2
<1> QED BY <1>5, <1>9, <1>10

-----------------------------------------------------------------------------
(* Restarts, the creation of the run, and what ends or ages by itself.     *)

\* A restart takes a lease for the task's worker before its driver has the lock.
LEMMA RestartStep ==
  ASSUME IInv, NEW d \in Drivers, NEW t \in Tasks, restart_worker(d, t)
  PROVE  IInv'
<1> DEFINE w == task[t].leased_to
           a == task[t].attempts + 1
<1>1. /\ drv[d].pc = "new" /\ w # None /\ (task[t].status = "Leased" \/ w \notin Busy)
      /\ NewLease(t, w) /\ Touch({w})
      /\ Set(d, [pc |-> "restarted", goal |-> Attempt(t, a)])
      /\ UNCHANGED <<run, unsaved, stream, proc>>
  BY DEF restart_worker
<1>2. Types BY DEF IInv
<1>3. w \in Workers /\ task[t].attempts \in Nat BY <1>1, <1>2 DEF Types, TaskRecord
<1>4. unsaved = {} BY <1>1 DEF IInv, SavedShape
<1>5. TasksKept
  <2>1. PICK v : v = w OBVIOUS
  <2>2. NewLease(t, v) /\ v \in Workers /\ task[t].leased_to \in {None, v}
        /\ (task[t].status = "Leased" \/ v \notin Busy)
    BY <1>1, <1>3, <2>1
  <2> QED BY <1>1, <1>4, <2>2, LeaseFacts
<1>6. OpsKept
  <2>1. PICK ws : ws = {w} OBVIOUS
  <2> QED BY <1>1, <1>2, <2>1, TouchFacts
<1>7. /\ drv' = [e \in Drivers |-> drv'[e]] /\ \A e \in Drivers : DOMAIN drv'[e] = Fields
      /\ \A e \in Drivers \ {d} : drv'[e] = drv[e]
      /\ drv'[d].pc = "restarted" /\ drv'[d].goal = Attempt(t, a)
  BY <1>1, <1>2, SetFacts
<1>8. Types' BY <1>1, <1>2, <1>5, <1>6, <1>7 DEF Types, TasksKept, OpsKept
<1>9. LeaseShape' /\ SavedShape' BY <1>1, <1>4, <1>5 DEF TasksKept, SavedShape
<1>10. LockShape' BY <1>7, Places DEF IInv, LockShape
<1>11. ViewShape'
  <2>1. drv'[d].goal # NoAttempt BY <1>3, <1>7 DEF Attempt, NoAttempt
  <2> QED BY <2>1 DEF ViewShape, NoRestarts
<1>12. Tracks(d)' /\ Works(d)'
  <2>1. Tracked(d)' = Tracked(d) BY <1>1 DEF Tracked
  <2>2. \A p \in proc : p.owner # d BY <1>1, Places DEF IInv, Tracks
  <2>3. Tracks(d)' BY <1>1, <2>1, <2>2, Places DEF IInv, Tracks
  <2>4. Works(d)' BY <1>7 DEF Works
  <2> QED BY <2>3, <2>4
<1>13. \A e \in Drivers \ {d} : Tracks(e)' /\ Works(e)'
  BY <1>1, <1>5, <1>7, OthersKept DEF IInv, TasksKept
<1> QED BY <1>8, <1>9, <1>10, <1>11, <1>12, <1>13 DEF IInv

\* Tasks are enqueued before anyone looks at the run.
LEMMA CreateSteps ==
  ASSUME IInv, (\E t \in Tasks : Enqueue(t)) \/ CreateDies
  PROVE  IInv'
<1>1. UNCHANGED <<run, drv, stream, proc, op>> BY DEF Enqueue, CreateDies, ledger
<1>2. unsaved # {} BY DEF Enqueue, CreateDies
<1>3. /\ \A d \in Drivers : drv[d].pc = "new"
      /\ \A o \in Operators : op[o].pc = "new"
      /\ \A t \in Tasks : task[t].leased_to = None
  BY <1>2 DEF IInv, SavedShape
<1>4. ~AllDone BY <1>2 DEF AllDone
<1>5. ViewShape' BY <1>1, <1>4 DEF IInv, ViewShape, NoRestarts
<1>6. LockShape' BY <1>1 DEF IInv, LockShape
<1>7. WorkersStay BY <1>3 DEF WorkersStay
<1>8. \A d \in Drivers : Tracks(d)' /\ Works(d)' BY <1>1, <1>7, OthersKept DEF IInv
<1>9. CASE CreateDies
  <2>1. unsaved' = {} /\ UNCHANGED task BY <1>9 DEF CreateDies, ledger
  <2>2. Types' /\ LeaseShape' /\ SavedShape'
    BY <1>1, <2>1 DEF IInv, Types, LeaseShape, SavedShape
  <2> QED BY <1>5, <1>6, <1>8, <2>2 DEF IInv
<1>10. ASSUME NEW t \in Tasks, Enqueue(t) PROVE IInv'
  <2>1. /\ t \in unsaved /\ unsaved' = unsaved \ {t}
        /\ task' = [task EXCEPT ![t].status = "Enqueued"]
    BY <1>10 DEF Enqueue, End
  <2>2. task \in [Tasks -> TaskRecord] BY DEF IInv, Types
  <2>3. \A u \in Tasks : /\ task'[u].status = IF u = t THEN "Enqueued" ELSE task[u].status
                         /\ task'[u].leased_to = None
                         /\ task'[u] \in TaskRecord
    BY <1>3, <2>1, <2>2 DEF TaskRecord
  <2>4. task' \in [Tasks -> TaskRecord] BY <2>1, <2>2, <2>3
  <2>5. Types' BY <1>1, <2>4 DEF IInv, Types
  <2>6. LeaseShape'
    <3>1. \A u \in Tasks : task'[u].status # "Leased"
      BY <1>3, <2>3, NoneAssumption DEF IInv, LeaseShape
    <3> QED BY <2>1, <2>3, <3>1 DEF IInv, LeaseShape
  <2>7. SavedShape' BY <1>1, <1>3, <2>3 DEF SavedShape
  <2> QED BY <1>5, <1>6, <1>8, <2>5, <2>6, <2>7 DEF IInv
<1> QED BY <1>9, <1>10

\* A process ends or passes its limit, or notices that its driver is gone.
LEMMA ProcessSteps ==
  ASSUME IInv, NEW p \in proc, Exit(p) \/ Late(p) \/ Orphaned(p)
  PROVE  IInv'
<1>1. UNCHANGED <<task, run, unsaved, drv, stream, op>>
  BY DEF Exit, Late, Orphaned, Become, ledger
<1>2. Types BY DEF IInv
<1>3. p \in ProcessRecord BY <1>2 DEF Types
<1>4. ASSUME proc' \subseteq ProcessRecord, \A d \in Drivers : Tracks(d)' /\ Works(d)' PROVE IInv'
  <2>1. Types' BY <1>1, <1>2, <1>4 DEF Types
  <2>2. LeaseShape' /\ LockShape' /\ SavedShape'
    BY <1>1 DEF IInv, LeaseShape, LockShape, SavedShape
  <2>3. ViewShape' BY <1>1 DEF IInv, ViewShape, NoRestarts, AllDone
  <2> QED BY <1>4, <2>1, <2>2, <2>3 DEF IInv
<1>5. WorkersStay BY <1>1 DEF WorkersStay
<1>6. ASSUME NEW q \in ProcessRecord, proc' = (proc \ {p}) \cup {q},
             q.owner = p.owner /\ q.worker = p.worker /\ q.task = p.task /\ q.attempt = p.attempt
      PROVE  IInv'
  <2>1. \A r : r.owner # p.owner => (r \in proc' <=> r \in proc) BY <1>6
  <2>2. ASSUME NEW d \in Drivers PROVE Tracks(d)' /\ Works(d)'
    <3>1. CASE d # p.owner BY <1>1, <1>5, <2>1, <3>1, OthersKept DEF IInv
    <3>2. CASE d = p.owner
      <4>1. Tracked(d)' = Tracked(d) BY <1>1 DEF Tracked
      <4>2. Works(d)' BY <1>1, <4>1 DEF IInv, Works, Startable, WorkerOf
      <4>3. ASSUME drv'[d].pc \notin Out
            PROVE  /\ \A r \in proc' : r.owner = d =>
                        drv'[d].pc \in Looping /\ stream'[d][r.worker] = Attempt(r.task, r.attempt)
                   /\ \A r, s \in proc' : r.owner = d /\ s.owner = d /\ r.worker = s.worker => r = s
                   /\ \A w \in Tracked(d) : \E r \in proc' : r.owner = d /\ r.worker = w
        <5>1. /\ \A r \in proc : r.owner = d =>
                   drv[d].pc \in Looping /\ stream[d][r.worker] = Attempt(r.task, r.attempt)
              /\ \A r, s \in proc : r.owner = d /\ s.owner = d /\ r.worker = s.worker => r = s
              /\ \A w \in Tracked(d) : \E r \in proc : r.owner = d /\ r.worker = w
          BY <1>1, <4>3 DEF IInv, Tracks
        <5>2. \A r \in proc' : r.owner = d =>
                drv'[d].pc \in Looping /\ stream'[d][r.worker] = Attempt(r.task, r.attempt)
          BY <1>1, <1>6, <3>2, <5>1
        <5>3. \A r, s \in proc' : r.owner = d /\ s.owner = d /\ r.worker = s.worker => r = s
          BY <1>6, <3>2, <5>1
        <5>4. \A w \in Tracked(d) : \E r \in proc' : r.owner = d /\ r.worker = w
          BY <1>6, <3>2, <5>1
        <5> QED BY <5>2, <5>3, <5>4
      <4> QED BY <4>1, <4>2, <4>3 DEF Tracks
    <3> QED BY <3>1, <3>2
  <2>3. proc' \subseteq ProcessRecord BY <1>2, <1>6 DEF Types
  <2> QED BY <1>4, <2>2, <2>3
<1>7. CASE Exit(p)
  <2>1. PICK s \in {"ok", "bad"} : proc' = (proc \ {p}) \cup {[p EXCEPT !.state = s]}
    BY <1>7 DEF Exit, Become
  <2> DEFINE q == [p EXCEPT !.state = s]
  <2>2. /\ q \in ProcessRecord /\ q.owner = p.owner /\ q.worker = p.worker /\ q.task = p.task
        /\ q.attempt = p.attempt
    BY <1>3 DEF ProcessRecord
  <2> HIDE DEF q
  <2>3. proc' = (proc \ {p}) \cup {q} BY <2>1 DEF q
  <2> QED BY <1>6, <2>2, <2>3
<1>8. CASE Late(p)
  <2>1. proc' = (proc \ {p}) \cup {[p EXCEPT !.late = TRUE]} BY <1>8 DEF Late, Become
  <2> DEFINE q == [p EXCEPT !.late = TRUE]
  <2>2. /\ q \in ProcessRecord /\ q.owner = p.owner /\ q.worker = p.worker /\ q.task = p.task
        /\ q.attempt = p.attempt
    BY <1>3 DEF ProcessRecord
  <2> HIDE DEF q
  <2>3. proc' = (proc \ {p}) \cup {q} BY <2>1 DEF q
  <2> QED BY <1>6, <2>2, <2>3
<1>9. CASE Orphaned(p)
  <2>1. drv[p.owner].pc \in Out /\ proc' = proc \ {p}
    BY <1>9 DEF Orphaned, Become, Managed
  <2>2. ASSUME NEW d \in Drivers PROVE Tracks(d)' /\ Works(d)'
    <3>1. CASE d # p.owner
      <4>1. \A r : r.owner = d => (r \in proc' <=> r \in proc) BY <2>1, <3>1
      <4> QED BY <1>1, <1>5, <4>1, OthersKept DEF IInv
    <3>2. CASE d = p.owner
      <4>1. Tracked(d)' = Tracked(d) BY <1>1 DEF Tracked
      <4>2. Works(d)' BY <1>1, <4>1 DEF IInv, Works, Startable, WorkerOf
      <4> QED BY <1>1, <2>1, <3>2, <4>2 DEF Tracks
    <3> QED BY <3>1, <3>2
  <2>3. proc' \subseteq ProcessRecord BY <1>2, <2>1 DEF Types
  <2> QED BY <1>4, <2>2, <2>3
<1> QED BY <1>7, <1>8, <1>9

-----------------------------------------------------------------------------
(* Operators.                                                              *)

\* A step outside of the drivers that only touches tasks, the status and operators.
LEMMA OutsideStep ==
  ASSUME IInv, UNCHANGED <<drv, stream, proc>>, TasksKept, AllDone => AllDone',
         unsaved = {},
         op' = [o \in Operators |-> op'[o]], \A o \in Operators : DOMAIN op'[o] = OpFields,
         run' = "Completed" =>
           run = "Completed" \/ AllDone \/ \E o \in Operators : op[o].view = "Completed",
         \A o \in Operators : op'[o].view = "Completed" => op[o].view = "Completed" \/ AllDone
  PROVE  IInv'
<1>1. Types' BY DEF IInv, Types, TasksKept
<1>2. LeaseShape' /\ LockShape' /\ SavedShape'
  BY DEF IInv, LockShape, SavedShape, TasksKept
<1>3. ViewShape' BY DEF IInv, ViewShape, NoRestarts
<1>4. \A d \in Drivers : Tracks(d)' /\ Works(d)' BY OthersKept DEF IInv, TasksKept
<1> QED BY <1>1, <1>2, <1>3, <1>4 DEF IInv

\* A silence only makes a heartbeat old.
LEMMA SilenceStep ==
  ASSUME IInv, NEW w \in Workers, Silence(w)
  PROVE  IInv'
<1>1. /\ w \in Busy /\ op' = [o \in Operators |-> [op[o] EXCEPT !.newer = @ \ {w}]]
      /\ UNCHANGED <<task, run, unsaved, drv, stream, proc>>
  BY DEF Silence
<1>2. \A o \in Operators : DOMAIN op[o] = OpFields BY DEF IInv, Types
<1>3. op' = [o \in Operators |-> op'[o]] BY <1>1
<1>4. \A o \in Operators : DOMAIN op'[o] = OpFields /\ op'[o].view = op[o].view
  BY <1>1, <1>2 DEF OpFields
<1>5. unsaved = {}
  <2>1. PICK t \in Tasks : task[t].status = "Leased" BY <1>1 DEF Busy, With
  <2>2. task[t].leased_to # None BY <2>1, NoneAssumption DEF IInv, LeaseShape
  <2> QED BY <2>2 DEF IInv, SavedShape
<1>6. TasksKept /\ (AllDone => AllDone') BY <1>1, TasksUnchanged
<1> QED BY <1>1, <1>3, <1>4, <1>5, <1>6, OutsideStep

\* stop_run, interrupt_worker and resume_run.
LEMMA OperatorSteps ==
  ASSUME IInv, NEW o \in Operators,
         \/ stop_run(o) \/ resume_run(o) \/ OpStep(o) \/ \E t \in Tasks : interrupt_worker(o, t)
  PROVE  IInv'
<1>1. Types BY DEF IInv
<1>2. ASSUME op[o].pc # "new" PROVE unsaved = {} BY <1>2 DEF IInv, SavedShape
<1>3. ASSUME NEW F, SetOp(o, F), UNCHANGED <<drv, stream, proc>>, TasksKept,
             AllDone => AllDone', unsaved = {},
             run' = "Completed" => run = "Completed" \/ AllDone \/ op[o].view = "Completed",
             op'[o].view = "Completed" => op[o].view = "Completed" \/ AllDone
      PROVE  IInv'
  <2>1. /\ op' = [e \in Operators |-> op'[e]] /\ \A e \in Operators : DOMAIN op'[e] = OpFields
        /\ \A e \in Operators \ {o} : op'[e] = op[e]
    BY <1>1, <1>3, SetOpFacts
  <2>2. \A e \in Operators : op'[e].view = "Completed" => op[e].view = "Completed" \/ AllDone
    BY <1>3, <2>1
  <2> QED BY <1>3, <2>1, <2>2, OutsideStep
<1>4. CASE stop_run(o)
  <2>1. /\ unsaved = {} /\ UNCHANGED <<task, run, unsaved, drv, stream, proc>>
        /\ SetOp(o, [pc |-> "stopping", todo |-> Attempts(Open)])
    BY <1>4 DEF stop_run, ledger
  <2>2. op'[o].view = op[o].view BY <1>1, <2>1, SetOpFacts
  <2>3. TasksKept /\ (AllDone => AllDone') BY <2>1, TasksUnchanged
  <2>4. PICK F : SetOp(o, F) BY <2>1
  <2> QED BY <1>3, <2>1, <2>2, <2>3, <2>4
<1>5. CASE resume_run(o)
  <2>1. /\ unsaved = {} /\ UNCHANGED <<task, run, unsaved, drv, stream, proc>>
        /\ SetOp(o, [pc |-> "resume"])
    BY <1>5 DEF resume_run, ledger
  <2>2. op'[o].view = op[o].view BY <1>1, <2>1, SetOpFacts
  <2>3. TasksKept /\ (AllDone => AllDone') BY <2>1, TasksUnchanged
  <2> QED BY <1>3, <2>1, <2>2, <2>3
<1>6. ASSUME NEW t \in Tasks, interrupt_worker(o, t) PROVE IInv'
  <2>1. /\ task[t].status = "Leased" /\ End(t, "Cancelled") /\ SetOp(o, [pc |-> "refresh"])
        /\ UNCHANGED <<run, unsaved, drv, stream, proc>>
    BY <1>6 DEF interrupt_worker, With
  <2>2. op'[o].view = op[o].view BY <1>1, <2>1, SetOpFacts
  <2>3. unsaved = {}
    <3>1. task[t].leased_to # None BY <2>1, NoneAssumption DEF IInv, LeaseShape
    <3> QED BY <3>1 DEF IInv, SavedShape
  <2>4. "Cancelled" \in Terminal BY DEF Terminal
  <2>5. TasksKept /\ (AllDone => AllDone') BY <2>1, <2>4, EndFacts
  <2> QED BY <1>3, <2>1, <2>2, <2>3, <2>5
<1>7. ASSUME NEW i \in op[o].todo, StopTask(o, i) PROVE IInv'
  <2>1. /\ op[o].pc = "stopping" /\ SetOp(o, [todo |-> op[o].todo \ {i}])
        /\ IF i.task \in Open THEN End(i.task, "Cancelled") ELSE UNCHANGED task
        /\ UNCHANGED <<run, unsaved, drv, stream, proc>>
    BY <1>7 DEF StopTask
  <2>2. op'[o].view = op[o].view BY <1>1, <2>1, SetOpFacts
  <2>3. TasksKept /\ (AllDone => AllDone')
    <3>1. CASE i.task \in Open
      <4>1. task[i.task].status \in {"Enqueued", "Leased"} /\ "Cancelled" \in Terminal
        BY <3>1 DEF Open, With, Terminal
      <4> QED BY <2>1, <3>1, <4>1, EndFacts
    <3>2. CASE i.task \notin Open BY <2>1, <3>2, TasksUnchanged
    <3> QED BY <3>1, <3>2
  <2>4. PICK F : SetOp(o, F) BY <2>1
  <2> QED BY <1>2, <1>3, <2>1, <2>2, <2>3, <2>4
<1>8. CASE StopDone(o)
  <2>1. /\ op[o].pc = "stopping" /\ run' = "Cancelled" /\ SetOp(o, [pc |-> "stopped"])
        /\ UNCHANGED <<task, unsaved, drv, stream, proc>>
    BY <1>8 DEF StopDone
  <2>2. op'[o].view = op[o].view BY <1>1, <2>1, SetOpFacts
  <2>3. TasksKept /\ (AllDone => AllDone') BY <2>1, TasksUnchanged
  <2> QED BY <1>2, <1>3, <2>1, <2>2, <2>3
<1>9. CASE ReadStale(o)
  <2>1. /\ op[o].pc = "resume" /\ UNCHANGED <<task, run, unsaved, drv, stream, proc>>
        /\ SetOp(o, [pc |-> "reconcile",
                     todo |-> Attempts({t \in With("Leased") : Stale(o, t)})])
    BY <1>9 DEF ReadStale, ledger
  <2>2. op'[o].view = op[o].view BY <1>1, <2>1, SetOpFacts
  <2>3. TasksKept /\ (AllDone => AllDone') BY <2>1, TasksUnchanged
  <2>4. PICK F : SetOp(o, F) BY <2>1
  <2> QED BY <1>2, <1>3, <2>1, <2>2, <2>3, <2>4
<1>10. CASE Reconciled(o)
  <2>1. /\ op[o].pc = "reconcile" /\ UNCHANGED <<task, run, unsaved, drv, stream, proc>>
        /\ SetOp(o, [pc |-> "refresh"])
    BY <1>10 DEF Reconciled, ledger
  <2>2. op'[o].view = op[o].view BY <1>1, <2>1, SetOpFacts
  <2>3. TasksKept /\ (AllDone => AllDone') BY <2>1, TasksUnchanged
  <2> QED BY <1>2, <1>3, <2>1, <2>2, <2>3
<1>11. CASE OpRefresh(o)
  <2>1. op[o].pc = "refresh" /\ UNCHANGED <<task, unsaved, drv, stream, proc>>
    BY <1>11 DEF OpRefresh
  <2>2. unsaved = {} /\ TasksKept /\ (AllDone => AllDone') BY <1>2, <2>1, TasksUnchanged
  <2>3. CASE op[o].view = None /\ SetOp(o, [view |-> RunStatus]) /\ UNCHANGED run
    <3>1. op'[o].view = RunStatus BY <1>1, <2>3, SetOpFacts
    <3>2. op'[o].view = "Completed" => AllDone BY <2>2, <3>1, SeenDone
    <3>3. PICK F : SetOp(o, F) BY <2>3
    <3> QED BY <1>3, <2>1, <2>2, <2>3, <3>2, <3>3
  <2>4. CASE run' = op[o].view /\ SetOp(o, [pc |-> "end", view |-> None])
    <3>1. op'[o].view = None BY <1>1, <2>4, SetOpFacts
    <3>2. op'[o].view # "Completed" BY <3>1 DEF None
    <3> QED BY <1>3, <2>1, <2>2, <2>4, <3>2
  <2> QED BY <1>11, <2>3, <2>4 DEF OpRefresh
<1>12. ASSUME NEW i \in op[o].todo, Reconcile(o, i) PROVE IInv'
  <2> DEFINE w == task[i.task].leased_to
  <2>1. /\ op[o].pc = "reconcile" /\ UNCHANGED <<run, unsaved, drv, stream, proc>>
        /\ op' = [op EXCEPT ![o].todo = @ \ {i}]
        /\ \/ UNCHANGED task
           \/ LeaseLive(i.task, w, i.attempt) /\ NewLease(i.task, w)
           \/ LeaseLive(i.task, w, i.attempt) /\ End(i.task, "Failed")
    BY <1>12 DEF Reconcile
  <2>2. unsaved = {} BY <1>2, <2>1
  <2>3. /\ op = [e \in Operators |-> op[e]] /\ \A e \in Operators : DOMAIN op[e] = OpFields
    BY <1>1 DEF Types
  <2>4. /\ op' = [e \in Operators |-> op'[e]]
        /\ \A e \in Operators : DOMAIN op'[e] = OpFields /\ op'[e].view = op[e].view
    BY <2>1, <2>3 DEF OpFields
  <2>5. TasksKept /\ (AllDone => AllDone')
    <3>1. CASE UNCHANGED task BY <2>1, <3>1, TasksUnchanged
    <3>2. CASE LeaseLive(i.task, w, i.attempt) /\ End(i.task, "Failed")
      <4>1. task[i.task].status = "Leased" /\ "Failed" \in Terminal
        BY <3>2 DEF LeaseLive, Terminal
      <4> QED BY <2>1, <3>2, <4>1, EndFacts
    <3>3. CASE LeaseLive(i.task, w, i.attempt) /\ NewLease(i.task, w)
      <4>1. task[i.task].status = "Leased" BY <3>3 DEF LeaseLive
      <4>2. i.task \in Tasks => w \in Workers BY <4>1 DEF IInv, LeaseShape
      <4>3. PICK v : v = w OBVIOUS
      <4>4. TasksKept BY <2>1, <2>2, <3>3, <4>1, <4>2, <4>3, LeaseFacts
      <4>5. AllDone => AllDone'
        <5>1. CASE i.task \in Tasks BY <4>1, <5>1 DEF AllDone
        <5>2. CASE i.task \notin Tasks
          <6>1. task' = task BY <1>1, <3>3, <5>2 DEF NewLease, Types
          <6> QED BY <2>1, <6>1 DEF AllDone
        <5> QED BY <5>1, <5>2
      <4> QED BY <4>4, <4>5
    <3> QED BY <2>1, <3>1, <3>2, <3>3
  <2> QED BY <2>1, <2>2, <2>4, <2>5, OutsideStep
<1> QED BY <1>4, <1>5, <1>6, <1>7, <1>8, <1>9, <1>10, <1>11, <1>12 DEF OpStep

-----------------------------------------------------------------------------
(* The invariant.                                                          *)

\* Nothing is enqueued, leased or started yet.
LEMMA InitIInv == Init => IInv
<1> SUFFICES ASSUME Init PROVE IInv OBVIOUS
<1> USE DEF Init
<1>1. Types
  <2>1. task \in [Tasks -> TaskRecord] BY DEF TaskRecord
  <2>2. drv = [d \in Drivers |-> drv[d]] /\ \A d \in Drivers : DOMAIN drv[d] = Fields
    BY DEF Fields
  <2>3. NoAttempt \in AttemptRecord BY DEF NoAttempt, AttemptRecord
  <2>4. stream \in [Drivers -> [Workers -> AttemptRecord]] BY <2>3
  <2>5. op = [o \in Operators |-> op[o]] /\ \A o \in Operators : DOMAIN op[o] = OpFields
    BY DEF OpFields
  <2> QED BY <2>1, <2>2, <2>4, <2>5 DEF Types
<1>2. LeaseShape BY DEF LeaseShape
<1>3. LockShape BY DEF LockShape, Looping
<1>4. SavedShape BY DEF SavedShape
<1>5. ViewShape BY DEF ViewShape, None
<1>6. ASSUME NEW d \in Drivers PROVE Tracks(d) /\ Works(d)
  <2>1. Tracked(d) = {} BY DEF Tracked
  <2>2. drv[d].pc = "new" OBVIOUS
  <2>3. Tracks(d) BY <2>1 DEF Tracks
  <2>4. Works(d) BY <2>2 DEF Works
  <2> QED BY <2>3, <2>4
<1> QED BY <1>1, <1>2, <1>3, <1>4, <1>5, <1>6 DEF IInv

\* Every step keeps the invariant.
LEMMA NextIInv == IInv /\ [Next]_vars => IInv'
<1> SUFFICES ASSUME IInv, [Next]_vars PROVE IInv' OBVIOUS
<1>1. CASE (\E t \in Tasks : Enqueue(t)) \/ CreateDies BY <1>1, CreateSteps
<1>2. ASSUME NEW d \in Drivers, activate_run(d) \/ LoopStep(d) \/ DriverDies(d)
      PROVE  IInv'
  <2>1. CASE \/ activate_run(d) \/ Activated(d) \/ TryLock(d) \/ Schedule(d) \/ LeaseEnds(d)
             \/ LeaseRefused(d) \/ TickDone(d) \/ Check(d) \/ DriverDies(d)
    BY <2>1, ControlSteps
  <2>2. CASE Lease(d) BY <2>2, LeaseStep
  <2>3. CASE Refresh(d) BY <2>3, RefreshStep
  <2>4. CASE StartLeased(d) BY <2>4, StartLeasedStep
  <2>5. CASE StartConfirmed(d) BY <2>5, StartConfirmedStep
  <2>6. CASE StartsDone(d) \/ (\E w \in Workers : Visit(d, w)) \/ Poll(d)
    BY <2>6, VisitSteps
  <2>7. CASE (\E w \in Workers : Fence(d, w)) \/ Ended(d) \/ Record(d) BY <2>7, ForgetSteps
  <2>8. CASE \E i \in drv[d].todo : StartProcess(d, i) \/ LaunchFails(d, i)
    BY <2>8, StartProcessStep, LaunchFailsStep
  <2> QED BY <1>2, <2>1, <2>2, <2>3, <2>4, <2>5, <2>6, <2>7, <2>8 DEF LoopStep
<1>3. ASSUME NEW d \in Drivers, NEW t \in Tasks, restart_worker(d, t)
      PROVE  IInv'
  BY <1>3, RestartStep
<1>4. ASSUME NEW o \in Operators,
             \/ stop_run(o) \/ resume_run(o) \/ OpStep(o)
             \/ \E t \in Tasks : interrupt_worker(o, t)
      PROVE  IInv'
  BY <1>4, OperatorSteps
<1>5. ASSUME NEW p \in proc, Exit(p) \/ Late(p) \/ Orphaned(p)
      PROVE  IInv'
  BY <1>5, ProcessSteps
<1>6. ASSUME NEW w \in Workers, Silence(w)
      PROVE  IInv'
  BY <1>6, SilenceStep
<1>7. CASE UNCHANGED vars
  <2>1. UNCHANGED <<task, run, unsaved, drv, stream, proc, op>> BY <1>7 DEF vars, ledger
  <2>2. Types' /\ LeaseShape' /\ LockShape' /\ SavedShape'
    BY <2>1 DEF IInv, Types, LeaseShape, LockShape, SavedShape
  <2>3. ViewShape' BY <2>1 DEF IInv, ViewShape, NoRestarts, AllDone
  <2>4. \A d \in Drivers : Tracks(d)' /\ Works(d)'
    BY <2>1 DEF IInv, Tracks, Works, Tracked, Startable, WorkerOf
  <2> QED BY <2>2, <2>3, <2>4 DEF IInv
<1> QED BY <1>1, <1>2, <1>3, <1>4, <1>5, <1>6, <1>7 DEF Next

\* The inductive invariant: see the head of the module.
THEOREM Invariance == Spec => []IInv
BY InitIInv, NextIInv, PTL DEF Spec

\* A worker has at most one process that a driver looks after, however many drivers
\* start, restart, wait for the lock, take over and die.
THEOREM OneProcessPerWorker == Spec => []OneManagedProcessPerWorker
<1>1. ASSUME IInv PROVE OneManagedProcessPerWorker
  <2> SUFFICES ASSUME NEW p \in proc, NEW q \in proc, Managed(p), Managed(q),
                      p.worker = q.worker
               PROVE  p = q
    BY DEF OneManagedProcessPerWorker
  <2>1. p.owner \in Drivers /\ q.owner \in Drivers
    BY <1>1 DEF IInv, Types, ProcessRecord
  <2>2. drv[p.owner].pc \in Looping /\ drv[q.owner].pc \in Looping
    BY <1>1, <2>1 DEF IInv, Tracks, Managed
  <2>3. p.owner = q.owner BY <1>1, <2>1, <2>2 DEF IInv, LockShape
  <2> QED BY <1>1, <2>1, <2>3 DEF IInv, Tracks, Managed
<1> QED BY Invariance, <1>1, PTL

\* A run that nobody has restarted is shown as completed only if its tasks are.
THEOREM CompletedRunsAreDone == Spec => []CompletedMeansAll
<1>1. ASSUME IInv PROVE CompletedMeansAll
  BY <1>1 DEF IInv, ViewShape, NoRestarts, AllDone, CompletedMeansAll
<1> QED BY Invariance, <1>1, PTL

\* A transaction that ends a task in another way, or leases it, completes none.
LEMMA OtherEnds ==
  ASSUME Types, NEW u, NEW s, s # "Completed",
         UNCHANGED task \/ End(u, s) \/ \E w : NewLease(u, w),
         NEW t \in Tasks, task[t].status = "Leased"
  PROVE  task'[t].status # "Completed"
<1>1. task \in [Tasks -> TaskRecord] BY DEF Types
<1>2. CASE UNCHANGED task BY <1>2
<1>3. CASE End(u, s) BY <1>1, <1>3 DEF End, TaskRecord
<1>4. CASE \E w : NewLease(u, w) BY <1>1, <1>4 DEF NewLease, TaskRecord
<1> QED BY <1>2, <1>3, <1>4

\* Only record_task_outcome completes a task, and only with a process of that attempt.
LEMMA CompletionStep ==
  ASSUME IInv, [Next]_vars, NEW t \in Tasks,
         task[t].status = "Leased", task'[t].status = "Completed"
  PROVE  \E p \in proc : p.task = t /\ p.attempt = task[t].attempts /\ p.state = "ok"
<1>1. Types BY DEF IInv
<1>2. ~ UNCHANGED task BY <1>1, OtherEnds
<1>3. ~ \E u, s : s # "Completed" /\ End(u, s) BY <1>1, OtherEnds
<1>4. ~ \E u, w : NewLease(u, w) BY <1>1, OtherEnds
<1>5. PICK d \in Drivers : Record(d)
  <2>1. ASSUME NEW u \in Tasks, Enqueue(u) PROVE FALSE BY <1>3, <2>1 DEF Enqueue
  <2>2. ~ CreateDies BY <1>2 DEF CreateDies, ledger
  <2>3. ASSUME NEW d \in Drivers, activate_run(d) \/ LoopStep(d) \/ DriverDies(d)
        PROVE  Record(d)
    <3>1. ~ \/ activate_run(d) \/ Activated(d) \/ TryLock(d) \/ Schedule(d) \/ LeaseEnds(d)
            \/ LeaseRefused(d) \/ TickDone(d) \/ Check(d) \/ DriverDies(d)
      BY <1>2 DEF activate_run, Activated, TryLock, Schedule, LeaseEnds, LeaseRefused,
                  TickDone, Check, DriverDies, ledger
    <3>2. ~ Lease(d) BY <1>4 DEF Lease
    <3>3. ~ \/ Refresh(d) \/ StartLeased(d) \/ StartConfirmed(d) \/ StartsDone(d) \/ Poll(d)
      BY <1>2 DEF Refresh, StartLeased, StartConfirmed, StartsDone, Poll, ledger
    <3>4. ~ \E w \in Workers : Fence(d, w) \/ Visit(d, w)
      BY <1>2 DEF Fence, Visit, ledger
    <3>5. ~ \E i \in drv[d].todo : StartProcess(d, i) \/ LaunchFails(d, i)
      <4>1. "Failed" # "Completed" OBVIOUS
      <4> QED BY <1>2, <1>3, <4>1 DEF StartProcess, LaunchFails, ledger
    <3>6. ~ Ended(d)
      <4>1. "Failed" # "Completed" OBVIOUS
      <4> QED BY <1>2, <1>3, <4>1 DEF Ended
    <3> QED BY <2>3, <3>1, <3>2, <3>3, <3>4, <3>5, <3>6 DEF LoopStep
  <2>4. ASSUME NEW d \in Drivers, NEW u \in Tasks, restart_worker(d, u) PROVE FALSE
    BY <1>4, <2>4 DEF restart_worker
  <2>5. ASSUME NEW o \in Operators,
               \/ stop_run(o) \/ resume_run(o) \/ OpStep(o)
               \/ \E u \in Tasks : interrupt_worker(o, u)
        PROVE  FALSE
    <3>1. ~ \/ stop_run(o) \/ resume_run(o) \/ StopDone(o) \/ ReadStale(o) \/ Reconciled(o)
            \/ OpRefresh(o)
      BY <1>2 DEF stop_run, resume_run, StopDone, ReadStale, Reconciled, OpRefresh, ledger
    <3>2. "Cancelled" # "Completed" /\ "Failed" # "Completed" OBVIOUS
    <3>3. ~ \E i \in op[o].todo : StopTask(o, i) BY <1>2, <1>3, <3>2 DEF StopTask
    <3>4. ~ \E i \in op[o].todo : Reconcile(o, i)
      BY <1>2, <1>3, <1>4, <3>2 DEF Reconcile
    <3>5. ~ \E u \in Tasks : interrupt_worker(o, u) BY <1>3, <3>2 DEF interrupt_worker
    <3> QED BY <2>5, <3>1, <3>3, <3>4, <3>5 DEF OpStep
  <2>6. ASSUME NEW p \in proc, Exit(p) \/ Late(p) \/ Orphaned(p) PROVE FALSE
    BY <1>2, <2>6 DEF Exit, Late, Orphaned, Become, ledger
  <2>7. ASSUME NEW w \in Workers, Silence(w) PROVE FALSE BY <1>2, <2>7 DEF Silence
  <2>8. ~ UNCHANGED vars BY <1>2 DEF vars, ledger
  <2> QED BY <2>1, <2>2, <2>3, <2>4, <2>5, <2>6, <2>7, <2>8 DEF Next
<1> DEFINE w == drv[d].item
           i == stream[d][w]
           p == ProcOf(d, w)
<1>6. w \in Tracked(d) /\ drv[d].pc \notin Out
  BY <1>5 DEF IInv, Works, Record, Out
<1>7. p \in proc /\ p.task = i.task /\ p.attempt = i.attempt
  BY <1>6, ProcOfFacts
<1>8. TrackedLive(d, w) /\ p.state = "ok" /\ End(i.task, "Completed")
  <2>1. "Failed" # "Completed" OBVIOUS
  <2> QED BY <1>2, <1>3, <1>5, <2>1 DEF Record
<1>9. t = i.task
  <2>1. task \in [Tasks -> TaskRecord] BY <1>1 DEF Types
  <2> QED BY <1>8, <2>1 DEF End, TaskRecord
<1>10. task[t].attempts = i.attempt BY <1>8, <1>9 DEF TrackedLive, LeaseLive
<1> QED BY <1>7, <1>8, <1>9, <1>10

\* A task is completed by a process of the attempt that completes, one that ended well.
THEOREM CompletionsAreEarned == Spec => CompletedByItsProcess
<1> DEFINE Earned ==
      \A t \in Tasks :
        task[t].status = "Leased" /\ task'[t].status = "Completed" =>
          \E p \in proc : p.task = t /\ p.attempt = task[t].attempts /\ p.state = "ok"
<1>1. IInv /\ [Next]_vars => Earned BY CompletionStep
<1>2. IInv /\ [Next]_vars => [Earned]_vars BY <1>1
<1> HIDE DEF Earned
<1>3. Spec => [][Earned]_vars BY Invariance, <1>2, PTL DEF Spec
<1> QED BY <1>3 DEF Earned, CompletedByItsProcess
=============================================================================
