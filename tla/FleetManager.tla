---------------------------- MODULE FleetManager ----------------------------
(***************************************************************************)
(* The fleet manager: crates/tui/src/fleet/manager.rs with the recovery    *)
(* part of scheduler.rs and the process table of executor.rs and host.rs.  *)
(*                                                                         *)
(* A driver is one call of start or restart followed by run_to_completion: *)
(* it takes the run's manager lock, leases tasks, starts a process for     *)
(* every lease and publishes how the processes end.  Operators stop,       *)
(* interrupt and resume the run from other processes; all they share with  *)
(* a driver is the ledger.                                                 *)
(*                                                                         *)
(* A ledger transaction is one step here and a compare-and-set holds the   *)
(* comparison: FleetLedger opens both up, with torn transactions and all.  *)
(* A driver that dies, or leaves its loop with an error of the ledger or   *)
(* the host, drops its executor and leaves its processes behind; on a      *)
(* local host they notice, some time later.                                *)
(***************************************************************************)
EXTENDS Naturals, FiniteSets

CONSTANTS
  Tasks, Workers,   \* task_specs and worker_specs of the run
  Drivers,          \* calls of start or restart
  Operators,        \* calls of stop_run, interrupt_worker and resume_run
  Starts,           \* how a driver may begin: "start", "restart"
  Controls,         \* what operators may do: "stop", "interrupt", "resume"
  Limited,          \* the tasks have a wall-clock limit
  Metered,          \* the run has a usage ceiling
  MaxActive,        \* max_workers
  Retries,          \* max_attempts of the retry policy
  MaxAttempts,      \* bound: leases of one task
  MaxFaults         \* bound: refused leases, failed launches, scheduling errors,
                    \* drivers that die, creations cut short

None == "none"

ASSUME NoneAssumption == None \notin Workers
ASSUME ChoiceAssumption ==
  /\ Starts \subseteq {"start", "restart"}
  /\ Controls \subseteq {"stop", "interrupt", "resume"}
  /\ Limited \in BOOLEAN /\ Metered \in BOOLEAN
ASSUME BoundAssumption ==
  {MaxActive, Retries, MaxAttempts, MaxFaults} \subseteq Nat

VARIABLES
  task,      \* the ledger's tasks: status, leased_to, attempts
  run,       \* run_status_overrides
  beat,      \* is the last heartbeat of a worker younger than stale_after?
  breached,  \* run_ceiling_breached
  unsaved,   \* tasks that create_queued_run has still to enqueue
  drv,       \* the drivers' program counters and locals
  stream,    \* executor.streams: the attempt tracked for each worker
  proc,      \* processes that run, or have ended and are not yet forgotten
  op,        \* the operators' program counters and locals
  faults

ledger == <<task, run, beat, breached>>
vars == <<ledger, unsaved, drv, stream, proc, op, faults>>

Terminal == {"Completed", "Failed", "Cancelled"}
Looping  == {"schedule", "lease", "sched_refresh", "launch", "launching", "launched",
             "visit", "poll", "ended", "record", "tick_refresh", "loop_refresh", "check"}
Out      == {"done", "failed", "dead"}

Attempt(t, a) == [task |-> t, attempt |-> a]
NoAttempt == [task |-> None, attempt |-> 0]

Init ==
  /\ task = [t \in Tasks |-> [status |-> "absent", leased_to |-> None, attempts |-> 0]]
  /\ run = "Queued"
  /\ beat = [w \in Workers |-> "old"]
  /\ breached = FALSE
  /\ unsaved = Tasks
  /\ drv = [d \in Drivers |-> [pc |-> "new", observed |-> FALSE, err |-> FALSE,
                               todo |-> {}, item |-> None, view |-> None,
                               goal |-> NoAttempt]]
  /\ stream = [d \in Drivers |-> [w \in Workers |-> NoAttempt]]
  /\ proc = {}
  /\ op = [o \in Operators |-> [pc |-> "new", todo |-> {}, newer |-> {}, view |-> None]]
  /\ faults = 0

-----------------------------------------------------------------------------
(* Reading the ledger. *)

With(status) == {t \in Tasks : task[t].status = status}
Open         == With("Enqueued") \cup With("Leased")      \* run_has_open_work
Busy         == {task[t].leased_to : t \in With("Leased")} \* active_workers_for_run

\* Mutant: the attempt is not compared.
MutLeaseLive(t, w, a) == task[t].status = "Leased" /\ task[t].leased_to = w

\* The ledger's comparison of every operation on a lease.
LeaseLive(t, w, a) ==
  task[t].status = "Leased" /\ task[t].leased_to = w /\ task[t].attempts = a

\* Mutant: a failed task does not fail the run.
MutRunStatus ==
  IF Open # {} THEN "Running"
  ELSE IF With("Cancelled") # {} THEN "Cancelled" ELSE "Completed"

RunStatus ==
  IF Open # {} THEN "Running"
  ELSE IF With("Failed") # {} THEN "Failed"
  ELSE IF With("Cancelled") # {} THEN "Cancelled" ELSE "Completed"

(* Transactions of the ledger. *)

End(t, status) == task' = [task EXCEPT ![t].status = status]
NewLease(t, w) ==
  task' = [task EXCEPT ![t] = [status |-> "Leased", leased_to |-> w, attempts |-> @.attempts + 1]]

\* A heartbeat makes a lease fresh, fails the comparison of a resume that has read
\* an older one, and may be of a later second than the one a resume started in.
Touch(ws) ==
  /\ beat' = [w \in Workers |-> IF w \in ws THEN "fresh" ELSE beat[w]]
  /\ \E later \in {{}, ws} :
       op' = [o \in Operators |->
               [op[o] EXCEPT
                 !.todo  = IF op[o].pc = "reconcile"
                           THEN {i \in @ : task[i.task].leased_to \notin ws} ELSE @,
                 !.newer = IF op[o].pc = "resume" THEN @ \cup later ELSE @]]

Silence(w) ==
  /\ beat[w] = "fresh" /\ w \in Busy
  /\ beat' = [beat EXCEPT ![w] = "old"]
  /\ op' = [o \in Operators |-> [op[o] EXCEPT !.newer = @ \ {w}]]
  /\ UNCHANGED <<task, run, breached, unsaved, drv, stream, proc, faults>>

-----------------------------------------------------------------------------
(* create_queued_run: one transaction for the run, then one for each task. *)

Enqueue(t) ==
  /\ t \in unsaved
  /\ unsaved' = unsaved \ {t}
  /\ End(t, "Enqueued")
  /\ UNCHANGED <<run, beat, breached, drv, stream, proc, op, faults>>

CreateDies ==
  /\ unsaved # {} /\ faults < MaxFaults
  /\ faults' = faults + 1
  /\ unsaved' = {}
  /\ UNCHANGED <<ledger, drv, stream, proc, op>>

-----------------------------------------------------------------------------
(* How a driver begins. *)

Set(d, fields) ==   \* fields override d's locals
  drv' = [drv EXCEPT ![d] = [f \in DOMAIN @ |-> IF f \in DOMAIN fields THEN fields[f] ELSE @[f]]]
Goto(d, pc) == Set(d, [pc |-> pc])

\* activate_run: it reads the run's status ...
activate_run(d) ==
  /\ "start" \in Starts /\ unsaved = {} /\ drv[d].pc = "new"
  /\ run \notin Terminal
  /\ Goto(d, IF run = "Running" THEN "lock" ELSE "activate")
  /\ UNCHANGED <<ledger, unsaved, stream, proc, op, faults>>

\* ... and writes it: so does restart_worker after it has the lease.
Activated(d) ==
  /\ drv[d].pc \in {"activate", "restarted"}
  /\ run' = "Running"
  /\ Goto(d, "lock")
  /\ UNCHANGED <<task, beat, breached, unsaved, stream, proc, op, faults>>

\* restart_worker: of the worker's active task, or of its latest.
restart_worker(d, t) ==
  /\ "restart" \in Starts /\ drv[d].pc = "new"
  /\ LET w == task[t].leased_to  a == task[t].attempts + 1 IN
     /\ w # None /\ a <= MaxAttempts
     /\ task[t].status = "Leased" \/ w \notin Busy
     /\ NewLease(t, w)
     /\ Touch({w})
     /\ Set(d, [pc |-> "restarted", goal |-> Attempt(t, a)])
  /\ UNCHANGED <<run, breached, unsaved, stream, proc, faults>>

-----------------------------------------------------------------------------
(* run_to_completion *)

\* Mutant: a standby starts its own loop.
MutLocked(d) == FALSE

Locked(d) == \E e \in Drivers \ {d} : drv[e].pc \in Looping

TryLock(d) ==
  /\ drv[d].pc = "lock"
  /\ \/ Locked(d)  /\ Set(d, [observed |-> TRUE, pc |-> IF Open = {} THEN "done" ELSE "lock"])
     \/ ~Locked(d) /\ ~drv[d].observed /\ Goto(d, "schedule")
     \/ ~Locked(d) /\ drv[d].observed  /\ Goto(d, IF Open = {} THEN "done" ELSE "failed")
  /\ UNCHANGED <<ledger, unsaved, stream, proc, op, faults>>

Tracked(d) == {w \in Workers : stream[d][w] # NoAttempt}      \* executor.worker_ids

\* schedule_run_excluding: heartbeats for everything that is leased ...
Schedule(d) ==
  /\ drv[d].pc = "schedule"
  /\ Touch(Busy)
  /\ Set(d, [pc |-> "lease", err |-> FALSE])
  /\ UNCHANGED <<task, run, breached, unsaved, stream, proc, faults>>

IdleWorkers(d) == Workers \ (Busy \cup Tracked(d))

CanLease(d) ==
  /\ Cardinality(Busy) < MaxActive /\ ~breached
  /\ IdleWorkers(d) # {} /\ With("Enqueued") # {}

\* ... then leases, as long as there is a worker, a task and room ...
Lease(d) ==
  /\ drv[d].pc = "lease" /\ CanLease(d)
  /\ \E w \in IdleWorkers(d), t \in With("Enqueued") : NewLease(t, w) /\ Touch({w})
  /\ UNCHANGED <<run, breached, unsaved, drv, stream, proc, faults>>

LeaseEnds(d) ==
  /\ drv[d].pc = "lease" /\ ~CanLease(d)
  /\ Goto(d, "sched_refresh")
  /\ UNCHANGED <<ledger, unsaved, stream, proc, op, faults>>

\* ... or coordination refuses, or preparing a lease fails and is reported later.
LeaseRefused(d) ==
  /\ drv[d].pc = "lease" /\ CanLease(d) /\ faults < MaxFaults
  /\ faults' = faults + 1
  /\ \/ Goto(d, "sched_refresh")
     \/ Set(d, [pc |-> "launch", err |-> TRUE])
  /\ UNCHANGED <<ledger, unsaved, stream, proc, op>>

\* refresh_run_status: at the end of scheduling, of a tick and of the loop's body.
AfterRefresh == [sched_refresh |-> "launch", tick_refresh |-> "loop_refresh",
                 loop_refresh |-> "check"]

Refresh(d) ==
  /\ drv[d].pc \in DOMAIN AfterRefresh
  /\ \/ /\ drv[d].view = None
        /\ Set(d, [view |-> RunStatus])
        /\ UNCHANGED run
     \/ /\ drv[d].view # None
        /\ run' = drv[d].view
        /\ Set(d, [view |-> None, pc |-> AfterRefresh[drv[d].pc]])
  /\ UNCHANGED <<task, beat, breached, unsaved, stream, proc, op, faults>>

\* start_leased_workers: a snapshot of the leases that have no process here ...
StartLeased(d) ==
  /\ drv[d].pc = "launch"
  /\ Set(d, [pc |-> "launching",
             todo |-> {Attempt(t, task[t].attempts) :
                         t \in {u \in With("Leased") : task[u].leased_to \notin Tracked(d)}}])
  /\ UNCHANGED <<ledger, unsaved, stream, proc, op, faults>>

\* ... and for each of them a process, whatever has become of the lease.
StartProcess(d, i) ==
  /\ drv[d].pc = "launching" /\ i \in drv[d].todo
  /\ LET w == task[i.task].leased_to IN
     /\ proc' = proc \cup {[owner |-> d, worker |-> w, task |-> i.task, attempt |-> i.attempt,
                            state |-> "live", late |-> FALSE]}
     /\ stream' = [stream EXCEPT ![d][w] = i]
     /\ Set(d, [pc |-> "launched", item |-> w])
  /\ UNCHANGED <<ledger, unsaved, op, faults>>

LaunchFails(d, i) ==
  /\ drv[d].pc = "launching" /\ i \in drv[d].todo /\ faults < MaxFaults
  /\ faults' = faults + 1
  /\ Set(d, [todo |-> drv[d].todo \ {i}])
  /\ \/ LeaseLive(i.task, task[i.task].leased_to, i.attempt) /\ End(i.task, "Failed")
     \/ UNCHANGED task                   \* coordination is busy, or the lease is gone
  /\ UNCHANGED <<run, beat, breached, unsaved, stream, proc, op>>

ProcOf(d, w) == CHOOSE p \in proc : p.owner = d /\ p.worker = w
                                     /\ Attempt(p.task, p.attempt) = stream[d][w]

\* stop_worker, if it still runs, and forget_worker: its tree is gone.
Forget(d, w) ==
  /\ proc' = proc \ {ProcOf(d, w)}
  /\ stream' = [stream EXCEPT ![d][w] = NoAttempt]

TrackedLive(d, w) == LeaseLive(stream[d][w].task, w, stream[d][w].attempt)

\* The first event of the new process finds the lease gone: the process goes too.
StartConfirmed(d) ==
  /\ drv[d].pc = "launched"
  /\ LET w == drv[d].item IN
     /\ IF TrackedLive(d, w) THEN UNCHANGED <<stream, proc>> ELSE Forget(d, w)
     /\ Set(d, [pc |-> "launching", item |-> None, todo |-> drv[d].todo \ {stream[d][w]}])
  /\ UNCHANGED <<ledger, unsaved, op, faults>>

StartsDone(d) ==
  /\ drv[d].pc = "launching" /\ drv[d].todo = {}
  /\ Set(d, [pc |-> "visit", todo |-> Tracked(d)])
  /\ UNCHANGED <<ledger, unsaved, stream, proc, op, faults>>

\* drive_executor_tick: a process whose attempt is no longer leased is fenced.
Fence(d, w) ==
  /\ drv[d].pc = "visit" /\ w \in drv[d].todo /\ ~TrackedLive(d, w)
  /\ Forget(d, w)
  /\ Set(d, [todo |-> drv[d].todo \ {w}])
  /\ UNCHANGED <<ledger, unsaved, op, faults>>

Visit(d, w) ==
  /\ drv[d].pc = "visit" /\ w \in drv[d].todo /\ TrackedLive(d, w)
  /\ Set(d, [pc |-> "poll", item |-> w, todo |-> drv[d].todo \ {w}])
  /\ UNCHANGED <<ledger, unsaved, stream, proc, op, faults>>

\* Output that was read is an event and a heartbeat while the lease lives; usage may
\* reach the ceiling, which pauses the run.
Drain(d) ==
  \/ UNCHANGED <<run, beat, breached, op>>
  \/ /\ TrackedLive(d, drv[d].item) /\ Touch({drv[d].item})
     /\ \/ UNCHANGED <<run, breached>>
        \/ Metered /\ ~breached /\ breached' = TRUE /\ run' = "Paused"

\* Mutant: only a process that ended well is noticed.
MutPolled(d) == ProcOf(d, drv[d].item).state = "ok"

\* poll_terminal_with_status
Polled(d) == ProcOf(d, drv[d].item).state # "live"

Poll(d) ==
  /\ drv[d].pc = "poll"
  /\ Drain(d)
  /\ Set(d, IF Polled(d) THEN [pc |-> "ended"] ELSE [pc |-> "visit", item |-> None])
  /\ UNCHANGED <<task, unsaved, stream, proc, faults>>

\* The process has ended: forget it if its attempt is over, stop and forget it if it
\* is past its limit, and otherwise verify what it did.
Ended(d) ==
  /\ drv[d].pc = "ended"
  /\ LET w == drv[d].item  i == stream[d][w] IN
     \/ /\ ~TrackedLive(d, w)
        /\ Forget(d, w)
        /\ Set(d, [pc |-> "visit", item |-> None])
        /\ UNCHANGED task
     \/ /\ TrackedLive(d, w) /\ ProcOf(d, w).late
        /\ Forget(d, w)
        /\ End(i.task, "Failed")                        \* record_task_timeout
        /\ Set(d, [pc |-> "visit", item |-> None])
     \/ /\ TrackedLive(d, w) /\ ~ProcOf(d, w).late
        /\ Goto(d, "record")
        /\ UNCHANGED <<task, stream, proc>>
  /\ UNCHANGED <<run, beat, breached, unsaved, op, faults>>

\* record_task_outcome: the verdict is published if the attempt is still leased.
Record(d) ==
  /\ drv[d].pc = "record"
  /\ LET w == drv[d].item  i == stream[d][w] IN
     /\ IF TrackedLive(d, w)
        THEN \/ ProcOf(d, w).state = "ok" /\ End(i.task, "Completed")
             \/ End(i.task, "Failed")       \* the exit code or the verifier says so
        ELSE UNCHANGED task
     /\ Forget(d, w)
     /\ Set(d, [pc |-> "visit", item |-> None])
  /\ UNCHANGED <<run, beat, breached, unsaved, op, faults>>

TickDone(d) ==
  /\ drv[d].pc = "visit" /\ drv[d].todo = {}
  /\ Goto(d, "tick_refresh")
  /\ UNCHANGED <<ledger, unsaved, stream, proc, op, faults>>

Check(d) ==
  /\ drv[d].pc = "check"
  /\ Goto(d, IF Tracked(d) # {} THEN "schedule"
             ELSE IF drv[d].err THEN "failed"
             ELSE IF Open = {} THEN "done" ELSE "schedule")
  /\ UNCHANGED <<ledger, unsaved, stream, proc, op, faults>>

DriverDies(d) ==
  /\ drv[d].pc \in Looping \cup {"lock", "activate", "restarted"} /\ faults < MaxFaults
  /\ faults' = faults + 1
  /\ Goto(d, "dead")
  /\ UNCHANGED <<ledger, unsaved, stream, proc, op>>

-----------------------------------------------------------------------------
(* Processes. *)

Become(p, new) ==
  /\ proc' = (proc \ {p}) \cup new
  /\ UNCHANGED <<ledger, unsaved, drv, stream, op, faults>>

Managed(p) == drv[p.owner].pc \notin Out

Exit(p) ==
  /\ Managed(p) /\ p.state = "live"
  /\ \E s \in {"ok", "bad"} : Become(p, {[p EXCEPT !.state = s]})

\* worker_running_for goes on counting until the process is forgotten.
Late(p) == Limited /\ ~p.late /\ Managed(p) /\ Become(p, {[p EXCEPT !.late = TRUE]})

\* --parent-death-watch: end of file on stdin, or it ends unobserved.
Orphaned(p) == ~Managed(p) /\ Become(p, {})

-----------------------------------------------------------------------------
(* Operators. *)

SetOp(o, fields) ==
  op' = [op EXCEPT ![o] = [f \in DOMAIN @ |-> IF f \in DOMAIN fields THEN fields[f] ELSE @[f]]]

Attempts(S) == {Attempt(t, task[t].attempts) : t \in S}

\* stop_run: every task that was open when it looked, then the run.
stop_run(o) ==
  /\ "stop" \in Controls /\ op[o].pc = "new" /\ unsaved = {}
  /\ SetOp(o, [pc |-> "stopping", todo |-> Attempts(Open)])
  /\ UNCHANGED <<ledger, unsaved, drv, stream, proc, faults>>

StopTask(o, i) ==
  /\ op[o].pc = "stopping" /\ i \in op[o].todo
  /\ IF i.task \in Open THEN End(i.task, "Cancelled") ELSE UNCHANGED task
  /\ SetOp(o, [todo |-> op[o].todo \ {i}])
  /\ UNCHANGED <<run, beat, breached, unsaved, drv, stream, proc, faults>>

StopDone(o) ==
  /\ op[o].pc = "stopping" /\ op[o].todo = {}
  /\ run' = "Cancelled"
  /\ SetOp(o, [pc |-> "stopped"])
  /\ UNCHANGED <<task, beat, breached, unsaved, drv, stream, proc, faults>>

interrupt_worker(o, t) ==
  /\ "interrupt" \in Controls /\ op[o].pc = "new" /\ t \in With("Leased")
  /\ End(t, "Cancelled")
  /\ SetOp(o, [pc |-> "refresh"])
  /\ UNCHANGED <<run, beat, breached, unsaved, drv, stream, proc, faults>>

\* resume_run: the time is read first ...
resume_run(o) ==
  /\ "resume" \in Controls /\ op[o].pc = "new" /\ unsaved = {}
  /\ SetOp(o, [pc |-> "resume"])
  /\ UNCHANGED <<ledger, unsaved, drv, stream, proc, faults>>

\* ... the ledger later; a heartbeat with a later second counts as too old.
Stale(o, t) == beat[task[t].leased_to] = "old" \/ task[t].leased_to \in op[o].newer

ReadStale(o) ==
  /\ op[o].pc = "resume"
  /\ SetOp(o, [pc |-> "reconcile", todo |-> Attempts({t \in With("Leased") : Stale(o, t)})])
  /\ UNCHANGED <<ledger, unsaved, drv, stream, proc, faults>>

\* retry_or_fail, unless the lease has changed since.
Reconcile(o, i) ==
  /\ op[o].pc = "reconcile" /\ i \in op[o].todo
  /\ LET w == task[i.task].leased_to
         rest == [op EXCEPT ![o].todo = @ \ {i}]
     IN  \/ /\ ~LeaseLive(i.task, w, i.attempt)
            /\ op' = rest /\ UNCHANGED <<task, beat>>
         \/ /\ LeaseLive(i.task, w, i.attempt)
            /\ i.attempt < Retries /\ i.attempt < MaxAttempts
            /\ NewLease(i.task, w)
            /\ beat' = [beat EXCEPT ![w] = "fresh"]
            /\ op' = rest
         \/ /\ LeaseLive(i.task, w, i.attempt) /\ i.attempt >= Retries
            /\ End(i.task, "Failed")
            /\ op' = rest /\ UNCHANGED beat
  /\ UNCHANGED <<run, breached, unsaved, drv, stream, proc, faults>>

Reconciled(o) ==
  /\ op[o].pc = "reconcile" /\ op[o].todo = {}
  /\ SetOp(o, [pc |-> "refresh"])
  /\ UNCHANGED <<ledger, unsaved, drv, stream, proc, faults>>

OpRefresh(o) ==
  /\ op[o].pc = "refresh"
  /\ \/ op[o].view = None /\ SetOp(o, [view |-> RunStatus]) /\ UNCHANGED run
     \/ op[o].view # None /\ run' = op[o].view /\ SetOp(o, [pc |-> "end", view |-> None])
  /\ UNCHANGED <<task, beat, breached, unsaved, drv, stream, proc, faults>>

-----------------------------------------------------------------------------
LoopStep(d) ==
  \/ Activated(d) \/ TryLock(d) \/ Schedule(d) \/ Lease(d) \/ LeaseEnds(d) \/ LeaseRefused(d)
  \/ Refresh(d) \/ StartLeased(d) \/ StartConfirmed(d) \/ StartsDone(d)
  \/ \E i \in drv[d].todo : StartProcess(d, i) \/ LaunchFails(d, i)
  \/ \E w \in Workers : Fence(d, w) \/ Visit(d, w)
  \/ Poll(d) \/ Ended(d) \/ Record(d) \/ TickDone(d) \/ Check(d)

OpStep(o) ==
  \/ \E i \in op[o].todo : StopTask(o, i) \/ Reconcile(o, i)
  \/ StopDone(o) \/ ReadStale(o) \/ Reconciled(o) \/ OpRefresh(o)

Next ==
  \/ \E t \in Tasks : Enqueue(t)
  \/ CreateDies
  \/ \E d \in Drivers :
       \/ activate_run(d) \/ LoopStep(d) \/ DriverDies(d)
       \/ \E t \in Tasks : restart_worker(d, t)
  \/ \E o \in Operators :
       \/ stop_run(o) \/ resume_run(o) \/ OpStep(o)
       \/ \E t \in Tasks : interrupt_worker(o, t)
  \/ \E p \in proc : Exit(p) \/ Late(p) \/ Orphaned(p)
  \/ \E w \in Workers : Silence(w)

Spec == Init /\ [][Next]_vars

\* A driver's loop and an operator's call go on; processes end.
Fairness ==
  /\ \A d \in Drivers : WF_vars(LoopStep(d))
  /\ \A o \in Operators : WF_vars(OpStep(o))
  /\ WF_vars(\E p \in proc : Exit(p))

LiveSpec == Spec /\ Fairness

-----------------------------------------------------------------------------
RunStatuses == {"Queued", "Running", "Paused"} \cup Terminal
Processes == [owner : Drivers, worker : Workers, task : Tasks, attempt : 1 .. MaxAttempts,
              state : {"live", "ok", "bad"}, late : BOOLEAN]

\* Type invariant.
TypeOK ==
  /\ task \in [Tasks -> [status : {"absent", "Enqueued", "Leased"} \cup Terminal,
                         leased_to : Workers \cup {None}, attempts : 0 .. MaxAttempts]]
  /\ run \in RunStatuses
  /\ beat \in [Workers -> {"fresh", "old"}]
  /\ \A d \in Drivers : drv[d].pc \in Out \/ \A w \in Tracked(d) : \E p \in proc :
       p.owner = d /\ p.worker = w /\ Attempt(p.task, p.attempt) = stream[d][w]
  /\ proc \subseteq Processes

\* "competing managers launched the same leased attempt more than once" (the message
\* of the test concurrent_manager_loops_launch_each_attempt_once), for any number of
\* starts, restarts and cancellations and with drivers that die: a logical worker,
\* whose name is also that of its log and its registered launch, has at most one
\* process that a driver looks after.  (Beside it there may be one that a dead driver
\* has left and that has not yet noticed.)
OneManagedProcessPerWorker ==
  \A p, q \in proc : Managed(p) /\ Managed(q) /\ p.worker = q.worker => p = q

\* A task is completed by a process of the attempt that completes, one that ended
\* well: not by a predecessor whose verification outlived a restart.
CompletedByItsProcess ==
  [][\A t \in Tasks :
       task[t].status = "Leased" /\ task'[t].status = "Completed" =>
         \E p \in proc : p.task = t /\ p.attempt = task[t].attempts /\ p.state = "ok"]_vars

\* A run that nobody has restarted is not shown as Completed while one of its tasks is
\* not, although drivers and operators read the tasks in one transaction and write the
\* status in a later one.  (A task that a creation cut short never enqueued is unknown
\* to the ledger, and a refresh of an old driver may write over what a restart has
\* reopened: such runs do end as Completed.)
CompletedMeansAll ==
  (\A d \in Drivers : drv[d].goal = NoAttempt) /\ run = "Completed"
  => \A t \in Tasks : task[t].status \in {"Completed", "absent"}

\* run_to_completion returns once the processes do, restarts and cancellations or not.
DriverReturns ==
  \A d \in Drivers : (drv[d].pc \in Looping) ~> (drv[d].pc \in Out)
=============================================================================
