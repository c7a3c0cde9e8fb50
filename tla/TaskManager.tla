---------------------------- MODULE TaskManager ----------------------------
(***************************************************************************)
(* The durable background task manager (crates/tui/src/task_manager.rs):   *)
(* a FIFO queue of task records drained by a pool of workers, every record *)
(* mirrored to one file per task and the queue to queue.json.              *)
(*                                                                         *)
(* All memory is guarded by one async Mutex, and the file writes of an     *)
(* operation are made one after the other while that mutex is held.  The   *)
(* variable lock says what its holder still has to write, so a process     *)
(* crash or a failing write can fall between any two files.  Executions,   *)
(* the shutdown token and the wake-up of a worker run outside the mutex.   *)
(*                                                                         *)
(* What happens inside one execution (timers, events, grace periods) is    *)
(* module TaskWatchdog; here an execution ends with any reason the         *)
(* watchdog can report.                                                    *)
(***************************************************************************)
EXTENDS Naturals, Sequences, FiniteSets, SequencesExt

CONSTANTS
  Tasks,        \* task ids
  Workers,      \* the workers spawned at start
  NoTask,       \* the value of "no task"
  QueueFile,    \* stands for queue.json among the files to write
  MaxSeq,       \* bound: no further cancel of a Running task past this sequence
  MaxCrashes,   \* bound: process crashes
  MaxFaults     \* bound: operations in which a file operation fails

ASSUME TasksAssumption   == IsFiniteSet(Tasks) /\ NoTask \notin Tasks
ASSUME WorkersAssumption == IsFiniteSet(Workers) /\ Workers # {}
ASSUME FileAssumption    == QueueFile \notin Tasks
ASSUME BoundAssumption   == MaxSeq \in Nat /\ MaxCrashes \in Nat /\ MaxFaults \in Nat

VARIABLES
  proc,            \* the process: "down", "boot" (loading) or "up"
  task,            \* ManagerState.tasks: id -> record
  queue,           \* ManagerState.queue
  running_cancel,  \* ManagerState.running_cancel: ids that have a token
  cancelled,       \* ids whose latest token is cancelled
  lock,            \* the mutex and what its holder has left to do
  pc, current, result,  \* each worker's place, task and execution outcome
  shutdown,        \* the manager's cancel_token
  permit,          \* tokio::Notify's stored permit
  notifying,       \* add_task calls between unlock and notify_one
  diskTask, diskQueue, staged,  \* tasks/<id>.json, queue.json, .<id>.json.pending
  accepted,        \* history: ids add_task returned Ok for
  acked,           \* history: the disposition cancel_task returned Ok with
  runs,            \* history: how often an execution of the task began
  faults, crashes  \* failures so far

mem     == <<task, queue, running_cancel, cancelled>>
disk    == <<diskTask, diskQueue, staged>>
workers == <<pc, current, result>>
signals == <<shutdown, permit, notifying>>
history == <<accepted, acked, runs>>
vars    == <<proc, mem, disk, lock, workers, signals, history, faults, crashes>>

-----------------------------------------------------------------------------
TerminalStatus == {"Completed", "Failed", "Canceled"}
TaskStatus     == {"Queued", "Running"} \cup TerminalStatus

\* How an execution ends.  A deadline ("TimedOut": reasons wall_timeout and
\* idle_timeout) is recorded as Failed, but shutdown does not rewrite it.
Outcome == {"Completed", "Failed", "TimedOut", "Canceled"}

TaskRecord == [status : TaskStatus \cup {"Absent"}, lifecycle_seq : Nat]
Absent  == [status |-> "Absent", lifecycle_seq |-> 0]
NewTask == [status |-> "Queued", lifecycle_seq |-> 1]

\* A lifecycle transition: the status changes and the sequence advances.
Advance(rec, status) ==
  [status |-> status, lifecycle_seq |-> rec.lifecycle_seq + 1]

Present(records)  == {t \in Tasks : records[t].status # "Absent"}
QueuedIn(records) == {t \in Tasks : records[t].status = "Queued"}

\* VecDeque::retain: the entries of q in S, in their order.  Increasing(I)
\* holds the one increasing enumeration of a set of positions.
Increasing(I) ==
  {g \in SetToSeqs(I) : \A a, b \in DOMAIN g : a < b => g[a] < g[b]}
Retained(q, S) ==
  {[k \in DOMAIN g |-> q[g[k]]] : g \in Increasing({i \in DOMAIN q : q[i] \in S})}

-----------------------------------------------------------------------------
\* The mutex.  todo is the set of files the holder has yet to write.
Free == [op |-> "free", task |-> NoTask, reply |-> "none", todo |-> {}]
LockFree    == proc = "up" /\ lock = Free
\* Mutation: the queue file is forgotten.
MutAllFiles(records) == Present(records)

AllFiles(records) == Present(records) \cup {QueueFile}   \* persist_all_locked
Written(op) == lock.op = op /\ lock.todo = {}
Holding(op, t, reply, files) ==
  [op |-> op, task |-> t, reply |-> reply, todo |-> files]

CanFail  == faults < MaxFaults
Fault    == CanFail /\ faults' = faults + 1

Init ==
  /\ proc = "down"
  /\ task = [t \in Tasks |-> Absent]
  /\ queue = <<>> /\ running_cancel = {} /\ cancelled = {}
  /\ lock = Free
  /\ pc = [w \in Workers |-> "off"]
  /\ current = [w \in Workers |-> NoTask]
  /\ result = [w \in Workers |-> "none"]
  /\ shutdown = FALSE /\ permit = FALSE /\ notifying = {}
  /\ diskTask = [t \in Tasks |-> Absent] /\ diskQueue = <<>> /\ staged = {}
  /\ accepted = {}
  /\ acked = [t \in Tasks |-> "none"]
  /\ runs = [t \in Tasks |-> 0]
  /\ faults = 0 /\ crashes = 0

-----------------------------------------------------------------------------
(* Writing files: persist_all_locked, persist_queue_locked,                *)
(* persist_task_locked.  The queue file comes first, the task files in the *)
(* arbitrary order of a hash map; the first failure abandons the rest.     *)

PersistQueue ==
  /\ proc # "down" /\ QueueFile \in lock.todo
  /\ diskQueue' = queue
  /\ lock' = [lock EXCEPT !.todo = @ \ {QueueFile}]
  /\ UNCHANGED <<proc, mem, diskTask, staged, workers, signals, history, faults, crashes>>

PersistTask(t) ==
  /\ proc # "down" /\ QueueFile \notin lock.todo /\ t \in lock.todo
  /\ diskTask' = [diskTask EXCEPT ![t] = task[t]]
  /\ lock' = [lock EXCEPT !.todo = @ \ {t}]
  /\ UNCHANGED <<proc, mem, diskQueue, staged, workers, signals, history, faults, crashes>>

PersistFails ==
  /\ proc # "down" /\ lock.todo # {}
  /\ Fault
  /\ lock' = [lock EXCEPT !.todo = {}, !.reply = "Err"]
  /\ UNCHANGED <<proc, mem, disk, workers, signals, history, crashes>>

-----------------------------------------------------------------------------
(* start_with_executor: load the store, persist what loading changed, then *)
(* spawn the workers.                                                      *)

\* Mutation: an interrupted run is queued again instead of failed.
MutRecovered(rec) ==
  IF rec.status = "Running" THEN Advance(rec, "Queued") ELSE rec

\* load_state on one record: a Running task lost its process.
Recovered(rec) ==
  IF rec.status = "Running" THEN Advance(rec, "Failed") ELSE rec

Loaded == [t \in Tasks |-> Recovered(diskTask[t])]

\* Queued ids the queue file lacks are appended sorted by id; ids are random, so
\* that is any order.
Boot ==
  /\ proc = "down"
  /\ proc' = "boot"
  /\ task' = Loaded
  /\ \E kept \in Retained(diskQueue, QueuedIn(Loaded)) :
       \E missing \in SetToSeqs(QueuedIn(Loaded) \ Range(kept)) :
         queue' = kept \o missing
  /\ lock' = Holding("boot", NoTask, "Ok",
                     {QueueFile} \cup {t \in Tasks : diskTask[t].status = "Running"})
  /\ UNCHANGED <<running_cancel, cancelled, disk, workers, signals, history,
                 faults, crashes>>

BootDone ==
  /\ proc = "boot" /\ Written("boot") /\ lock.reply = "Ok"
  /\ proc' = "up"
  /\ lock' = Free
  /\ pc' = [w \in Workers |-> "top"]
  /\ UNCHANGED <<mem, disk, current, result, signals, history, faults, crashes>>

\* Everything in memory is gone; the files stay as they are.
LoseMemory ==
  /\ proc' = "down"
  /\ task' = [t \in Tasks |-> Absent]
  /\ queue' = <<>> /\ running_cancel' = {} /\ cancelled' = {}
  /\ lock' = Free
  /\ pc' = [w \in Workers |-> "off"]
  /\ current' = [w \in Workers |-> NoTask]
  /\ result' = [w \in Workers |-> "none"]
  /\ shutdown' = FALSE /\ permit' = FALSE /\ notifying' = {}
  /\ UNCHANGED <<disk, history, faults>>

\* A failed write while starting makes start_with_executor return Err.
BootFails ==
  /\ proc = "boot" /\ Written("boot") /\ lock.reply = "Err"
  /\ LoseMemory
  /\ UNCHANGED crashes

Crash ==
  /\ proc # "down" /\ crashes < MaxCrashes
  /\ crashes' = crashes + 1
  /\ LoseMemory

Shutdown ==
  /\ proc = "up" /\ ~shutdown
  /\ shutdown' = TRUE
  /\ UNCHANGED <<proc, mem, disk, lock, workers, permit, notifying, history, faults, crashes>>

-----------------------------------------------------------------------------
(* add_task_with_id: stage the record, persist the queue that includes it, *)
(* promote the staged file, and only then publish in memory.               *)

AddStage(t) ==
  /\ LockFree
  /\ task[t] = Absent /\ diskTask[t] = Absent /\ t \notin staged
  /\ staged' = staged \cup {t}
  /\ lock' = Holding("add_queue", t, "Ok", {})
  /\ UNCHANGED <<proc, mem, diskTask, diskQueue, workers, signals, history, faults, crashes>>

AddQueue ==
  /\ lock.op = "add_queue"
  /\ diskQueue' = Append(queue, lock.task)
  /\ lock' = [lock EXCEPT !.op = "add_promote"]
  /\ UNCHANGED <<proc, mem, diskTask, staged, workers, signals, history, faults, crashes>>

\* The queue write failed; removing the staged file may fail as well.
AddQueueFails ==
  /\ lock.op = "add_queue"
  /\ Fault
  /\ staged' \in {staged, staged \ {lock.task}}
  /\ lock' = Free
  /\ UNCHANGED <<proc, mem, diskTask, diskQueue, workers, signals, history, crashes>>

\* Mutation: memory is published without promoting the staged file.
MutAddPromote ==
  /\ lock.op = "add_promote"
  /\ task' = [task EXCEPT ![lock.task] = NewTask]
  /\ queue' = Append(queue, lock.task)
  /\ notifying' = notifying \cup {lock.task}
  /\ lock' = Free
  /\ UNCHANGED <<proc, running_cancel, cancelled, disk, workers, shutdown,
                 permit, history, faults, crashes>>

AddPromote ==
  /\ lock.op = "add_promote"
  /\ staged' = staged \ {lock.task}
  /\ diskTask' = [diskTask EXCEPT ![lock.task] = NewTask]
  /\ task' = [task EXCEPT ![lock.task] = NewTask]
  /\ queue' = Append(queue, lock.task)
  /\ notifying' = notifying \cup {lock.task}
  /\ lock' = Free
  /\ UNCHANGED <<proc, running_cancel, cancelled, diskQueue, workers, shutdown,
                 permit, history, faults, crashes>>

\* The rename failed; the queue rollback and the clean-up may fail as well.
AddPromoteFails ==
  /\ lock.op = "add_promote"
  /\ Fault
  /\ diskQueue' \in {queue, diskQueue}
  /\ staged' \in {staged, staged \ {lock.task}}
  /\ lock' = Free
  /\ UNCHANGED <<proc, mem, diskTask, workers, signals, history, crashes>>

\* Notify::notify_one wakes a registered waiter, or stores the one permit.
notify_one ==
  IF \E w \in Workers : pc[w] = "wait"
  THEN /\ \E w \in Workers : pc[w] = "wait" /\ pc' = [pc EXCEPT ![w] = "top"]
       /\ UNCHANGED permit
  ELSE permit' = TRUE /\ UNCHANGED pc

\* Mutation: the new task is announced to nobody.
MutAddNotify(t) ==
  /\ t \in notifying
  /\ notifying' = notifying \ {t}
  /\ accepted' = accepted \cup {t}
  /\ UNCHANGED <<proc, mem, disk, lock, permit, pc, current, result, shutdown, acked,
                 runs, faults, crashes>>

AddNotify(t) ==
  /\ t \in notifying
  /\ notify_one
  /\ notifying' = notifying \ {t}
  /\ accepted' = accepted \cup {t}
  /\ UNCHANGED <<proc, mem, disk, lock, current, result, shutdown, acked, runs,
                 faults, crashes>>

-----------------------------------------------------------------------------
(* cancel_task_visible_to.  Memory changes first; the caller gets Err when *)
(* a write fails, although the memory keeps the change.                    *)

\* Mutation: the canceled task stays in the queue.
MutCancelQueued(t) ==
  /\ LockFree /\ task[t].status = "Queued"
  /\ task' = [task EXCEPT ![t] = Advance(@, "Canceled")]
  /\ lock' = Holding("cancel", t, "Forced", AllFiles(task))
  /\ UNCHANGED <<proc, queue, running_cancel, cancelled, disk, workers, signals,
                 history, faults, crashes>>

CancelQueued(t) ==
  /\ LockFree /\ task[t].status = "Queued"
  /\ task' = [task EXCEPT ![t] = Advance(@, "Canceled")]
  /\ \E q \in Retained(queue, Tasks \ {t}) : queue' = q
  /\ lock' = Holding("cancel", t, "Forced", AllFiles(task))
  /\ UNCHANGED <<proc, running_cancel, cancelled, disk, workers, signals, history,
                 faults, crashes>>

CancelRunning(t) ==
  /\ LockFree /\ task[t].status = "Running" /\ task[t].lifecycle_seq < MaxSeq
  /\ task' = [task EXCEPT ![t] = Advance(@, "Running")]
  /\ cancelled' = cancelled \cup ({t} \cap running_cancel)
  /\ lock' = Holding("cancel", t, "Requested", AllFiles(task))
  /\ UNCHANGED <<proc, queue, running_cancel, disk, workers, signals, history,
                 faults, crashes>>

\* Mutation: canceling a finished task overwrites how it ended.
MutCancelFinished(t) ==
  /\ LockFree /\ task[t].status \in TerminalStatus
  /\ task' = [task EXCEPT ![t].status = "Canceled"]
  /\ lock' = Holding("cancel", t, "AlreadyFinished", AllFiles(task))
  /\ UNCHANGED <<proc, queue, running_cancel, cancelled, disk, workers, signals,
                 history, faults, crashes>>

CancelFinished(t) ==
  /\ LockFree /\ task[t].status \in TerminalStatus
  /\ lock' = Holding("cancel", t, "AlreadyFinished", AllFiles(task))
  /\ UNCHANGED <<proc, mem, disk, workers, signals, history, faults, crashes>>

CancelReply ==
  /\ Written("cancel")
  /\ acked' = IF lock.reply \in {"Forced", "Requested"}
              THEN [acked EXCEPT ![lock.task] = lock.reply]
              ELSE acked
  /\ lock' = Free
  /\ UNCHANGED <<proc, mem, disk, workers, signals, accepted, runs, faults, crashes>>

\* record_tool_metadata, urgent execution events and flush_task: the record's
\* other fields change and its file is rewritten.
UpdateTask(t) ==
  /\ LockFree /\ t \in Present(task)
  /\ lock' = Holding("update", t, "Ok", {t})
  /\ UNCHANGED <<proc, mem, disk, workers, signals, history, faults, crashes>>

UpdateReply ==
  /\ Written("update")
  /\ lock' = Free
  /\ UNCHANGED <<proc, mem, disk, workers, signals, history, faults, crashes>>

-----------------------------------------------------------------------------
(* worker_loop and the ends of run_task.                                   *)

Goto(w, place) == pc' = [pc EXCEPT ![w] = place]

WorkerTop(w) ==
  /\ pc[w] = "top"
  /\ Goto(w, IF shutdown THEN "exited" ELSE "pop")
  /\ UNCHANGED <<proc, mem, disk, lock, current, result, signals, history, faults, crashes>>

WorkerFindsEmpty(w) ==
  /\ pc[w] = "pop" /\ LockFree /\ queue = <<>>
  /\ Goto(w, "idle")
  /\ UNCHANGED <<proc, mem, disk, lock, current, result, signals, history, faults, crashes>>

\* An entry that is not Queued is dropped and the worker goes to wait.
WorkerPop(w) ==
  /\ pc[w] = "pop" /\ LockFree /\ queue # <<>>
  /\ queue' = Tail(queue)
  /\ LET t == Head(queue) IN
     IF task[t].status = "Queued"
     THEN /\ task' = [task EXCEPT ![t] = Advance(@, "Running")]
          /\ running_cancel' = running_cancel \cup {t}
          /\ cancelled' = cancelled \ {t}
          /\ current' = [current EXCEPT ![w] = t]
          /\ Goto(w, "starting")
          /\ lock' = Holding("start", t, "Ok", AllFiles(task))
          /\ UNCHANGED diskQueue
     ELSE /\ diskQueue' \in {Tail(queue), diskQueue}
          /\ Goto(w, "idle")
          /\ UNCHANGED <<task, running_cancel, cancelled, current, lock>>
  /\ UNCHANGED <<proc, diskTask, staged, result, signals, history, faults, crashes>>

\* run_task begins whether or not the Running record reached the disk.
WorkerStarted(w) ==
  /\ pc[w] = "starting" /\ Written("start")
  /\ Goto(w, "running")
  /\ runs' = [runs EXCEPT ![current[w]] = @ + 1]
  /\ lock' = Free
  /\ UNCHANGED <<proc, mem, disk, current, result, signals, accepted, acked, faults, crashes>>

\* The select on notified() and the shutdown token.
WorkerWait(w) ==
  /\ pc[w] = "idle"
  /\ IF shutdown THEN Goto(w, "exited") /\ UNCHANGED permit
     ELSE IF permit THEN Goto(w, "top") /\ permit' = FALSE
     ELSE Goto(w, "wait") /\ UNCHANGED permit
  /\ UNCHANGED <<proc, mem, disk, lock, current, result, shutdown, notifying,
                 history, faults, crashes>>

\* Mutation: the wait has no shutdown branch.
MutWorkerSeesShutdown(w) == FALSE /\ pc[w] = "wait" /\ UNCHANGED vars

WorkerSeesShutdown(w) ==
  /\ pc[w] = "wait" /\ shutdown
  /\ Goto(w, "exited")
  /\ UNCHANGED <<proc, mem, disk, lock, current, result, signals, history, faults, crashes>>

\* The watchdog interrupts the execution (deadline or shutdown).
Interrupt(w) ==
  /\ pc[w] = "running" /\ current[w] \notin cancelled
  /\ cancelled' = cancelled \cup {current[w]}
  /\ UNCHANGED <<proc, task, queue, running_cancel, disk, lock, workers, signals,
                 history, faults, crashes>>

\* The execution returns, or the watchdog gives up on it.
ExecutionEnds(w, outcome) ==
  /\ pc[w] = "running"
  /\ result' = [result EXCEPT ![w] = outcome]
  /\ Goto(w, "ended")
  /\ UNCHANGED <<proc, mem, disk, lock, current, signals, history, faults, crashes>>

\* A panic in the executor kills the worker; nobody respawns it.
ExecutorPanics(w) ==
  /\ pc[w] = "running"
  /\ Goto(w, "dead")
  /\ UNCHANGED <<proc, mem, disk, lock, current, result, signals, history, faults, crashes>>

\* Mutation: a result that arrives after the cancel request is kept.
MutFinalStatusKeepsResult(outcome, isCancelled) ==
  IF outcome = "TimedOut" THEN "Failed"
  ELSE IF shutdown /\ outcome = "Failed" THEN "Canceled" ELSE outcome

\* Mutation: a deadline is not turned into a task status.
MutFinalStatusUntranslated(outcome, isCancelled) ==
  IF outcome = "Completed" /\ isCancelled THEN "Canceled" ELSE outcome

\* The status finish_task records for what the execution returned.
FinalStatus(outcome, isCancelled) ==
  IF outcome = "Completed" THEN IF isCancelled THEN "Canceled" ELSE "Completed"
  ELSE IF outcome = "Canceled" \/ (outcome = "Failed" /\ shutdown) THEN "Canceled"
  ELSE "Failed"

\* Mutation: the token of a finished task is never removed.
MutFinishTask(w) ==
  /\ pc[w] = "ended" /\ LockFree
  /\ task' = [task EXCEPT ![current[w]] =
                Advance(@, FinalStatus(result[w], current[w] \in cancelled))]
  /\ lock' = Holding("finish", current[w], "Ok", AllFiles(task))
  /\ Goto(w, "finishing")
  /\ UNCHANGED <<proc, queue, running_cancel, cancelled, disk, current, result,
                 signals, history, faults, crashes>>

FinishTask(w) ==
  /\ pc[w] = "ended" /\ LockFree
  /\ LET t == current[w] IN
     /\ running_cancel' = running_cancel \ {t}
     /\ cancelled' = cancelled \ {t}                    \* the token is dropped
     /\ task' = [task EXCEPT ![t] = Advance(@, FinalStatus(result[w], t \in cancelled))]
     /\ \/ /\ lock' = Holding("finish", t, "Ok", AllFiles(task))
           /\ UNCHANGED faults
        \/ /\ lock' = Holding("finish", t, "Err", {})   \* the result artifact
           /\ Fault                                     \* could not be written
  /\ Goto(w, "finishing")
  /\ UNCHANGED <<proc, queue, disk, current, result, signals, history, crashes>>

\* Mutation: after a task the worker waits without looking at the queue.
MutWorkerFinished(w) ==
  /\ pc[w] = "finishing" /\ Written("finish")
  /\ Goto(w, "idle")
  /\ current' = [current EXCEPT ![w] = NoTask]
  /\ result' = [result EXCEPT ![w] = "none"]
  /\ lock' = Free
  /\ UNCHANGED <<proc, mem, disk, signals, history, faults, crashes>>

WorkerFinished(w) ==
  /\ pc[w] = "finishing" /\ Written("finish")
  /\ Goto(w, "top")
  /\ current' = [current EXCEPT ![w] = NoTask]
  /\ result' = [result EXCEPT ![w] = "none"]
  /\ lock' = Free
  /\ UNCHANGED <<proc, mem, disk, signals, history, faults, crashes>>

-----------------------------------------------------------------------------
WorkerStep(w) ==
  \/ WorkerTop(w) \/ WorkerFindsEmpty(w) \/ WorkerPop(w) \/ WorkerStarted(w)
  \/ WorkerWait(w) \/ WorkerSeesShutdown(w)
  \/ \E outcome \in Outcome : ExecutionEnds(w, outcome)
  \/ FinishTask(w) \/ WorkerFinished(w)

\* What the holder of the mutex does next when nothing fails.
HolderStep ==
  \/ PersistQueue \/ \E t \in Tasks : PersistTask(t)
  \/ BootDone \/ BootFails
  \/ AddQueue \/ AddPromote \/ CancelReply \/ UpdateReply

Failure ==
  \/ PersistFails \/ AddQueueFails \/ AddPromoteFails \/ Crash
  \/ \E w \in Workers : ExecutorPanics(w)

ClientStep(t) ==
  \/ AddStage(t) \/ AddNotify(t) \/ UpdateTask(t)
  \/ CancelQueued(t) \/ CancelRunning(t) \/ CancelFinished(t)

Next ==
  \/ Boot \/ Shutdown \/ Failure \/ HolderStep
  \/ \E t \in Tasks : ClientStep(t)
  \/ \E w \in Workers : WorkerStep(w) \/ Interrupt(w)

Spec == Init /\ [][Next]_vars

\* The runtime polls every ready task; the mutex is granted in arrival order,
\* so a worker that keeps finding it busy still gets it (strong fairness);
\* every execution ends, by itself or by its watchdog (module TaskWatchdog).
Fairness ==
  /\ WF_vars(HolderStep)
  /\ \A t \in Tasks : WF_vars(AddNotify(t))
  /\ \A w \in Workers : SF_vars(WorkerStep(w))

FairSpec == Spec /\ Fairness

-----------------------------------------------------------------------------
Reply   == {"none", "Ok", "Err", "Forced", "Requested", "AlreadyFinished"}
LockOp  == {"free", "boot", "add_queue", "add_promote", "cancel", "update",
            "start", "finish"}
Place   == {"off", "top", "pop", "idle", "wait", "starting", "running", "ended",
            "finishing", "dead", "exited"}

\* Type invariant: every variable has its declared shape.
TypeOK ==
  /\ proc \in {"down", "boot", "up"}
  /\ task \in [Tasks -> TaskRecord] /\ diskTask \in [Tasks -> TaskRecord]
  /\ queue \in Seq(Tasks) /\ diskQueue \in Seq(Tasks)
  /\ running_cancel \subseteq Tasks /\ cancelled \subseteq Tasks
  /\ lock \in [op : LockOp, task : Tasks \cup {NoTask}, reply : Reply,
                todo : SUBSET (Tasks \cup {QueueFile})]
  /\ pc \in [Workers -> Place]
  /\ current \in [Workers -> Tasks \cup {NoTask}]
  /\ result \in [Workers -> Outcome \cup {"none"}]
  /\ shutdown \in BOOLEAN /\ permit \in BOOLEAN /\ notifying \subseteq Tasks
  /\ staged \subseteq Tasks /\ accepted \subseteq Tasks
  /\ acked \in [Tasks -> {"none", "Forced", "Requested"}]
  /\ runs \in [Tasks -> Nat] /\ faults \in Nat /\ crashes \in Nat

\* While a manager exists its queue lists every Queued task exactly once and
\* nothing else: worker_loop never pops a stale id (which would send it to
\* sleep in front of runnable work) and no Queued task is forgotten, across
\* add, cancel, pop and the replay of whatever a crash left in the files.
QueueExact ==
  proc # "down" =>
    /\ Range(queue) = QueuedIn(task)
    /\ IsInjective(queue)

OwnerPlaces == {"starting", "running", "ended", "dead"}
Owns(w, t)  == current[w] = t /\ pc[w] \in OwnerPlaces
\* A task is Running exactly while it has a cancellation token and one worker
\* owns it: nothing runs twice at once, and cancel_task always finds a token.
RunningIsOwned ==
  \A t \in Tasks :
    /\ task[t].status = "Running" <=> t \in running_cancel
    /\ task[t].status = "Running" <=> \E w \in Workers : Owns(w, t)
    /\ \A v, w \in Workers : Owns(v, t) /\ Owns(w, t) => v = w

\* Write-ahead discipline: as long as no write failed, the files equal the
\* memory whenever the mutex is free, so what a client read (status and
\* lifecycle_seq) is what a restart starts from.
DiskMatchesMemory ==
  LockFree /\ faults = 0 => diskTask = task /\ diskQueue = queue

\* An execution begins at most once, plus at most once per failed operation:
\* only a Running record that was not written lets a restart run it again.
AtMostOncePerFault == \A t \in Tasks : runs[t] <= 1 + faults

\* A task that add_task accepted has its file from then on, whatever fails or
\* crashes later, and is in memory whenever the manager is up.
AcceptedNeverLost ==
  \A t \in accepted :
    diskTask[t] # Absent /\ (proc # "down" => task[t] # Absent)

\* What cancel_task answered holds across crashes: a task it reported canceled
\* before execution is Canceled for good, and one it reported as asked to stop
\* is never recorded as Completed.
CancelAckHolds ==
  \A t \in Tasks : \A rec \in {diskTask[t]} \cup {task[t] : x \in {proc} \ {"down"}} :
    /\ acked[t] = "Forced" => rec.status = "Canceled"
    /\ acked[t] = "Requested" => rec.status # "Completed" /\ rec.status # "Queued"

\* No lost wake-up: unless a worker died, a waiting queue always has a worker
\* on its way to it, a stored permit, or a notify_one still to come.
NoLostWakeup ==
  proc = "up" /\ ~shutdown /\ queue # <<>> /\ (\A w \in Workers : pc[w] # "dead") =>
    permit \/ notifying # {} \/ \E w \in Workers : pc[w] \notin {"wait", "exited"}

\* A terminal record in memory never changes again.
TerminalIsFinal ==
  [][\A t \in Tasks : task[t].status \in TerminalStatus /\ proc' # "down"
       => task'[t] = task[t]]_vars

\* Every accepted task finishes unless the manager is shut down, the process
\* ends, or a worker was killed by a panic.
AcceptedFinishes ==
  \A t \in Tasks : (t \in accepted) ~>
    \/ task[t].status \in TerminalStatus
    \/ shutdown \/ proc # "up" \/ \E w \in Workers : pc[w] = "dead"

\* shutdown() gets every living worker out of its loop.
ShutdownDrains ==
  shutdown ~> (proc = "down" \/ \A w \in Workers : pc[w] \in {"exited", "dead"})

=============================================================================
