------------------------- MODULE AutomationManager -------------------------
(***************************************************************************)
(* Recurring automations (crates/tui/src/automation_manager.rs): records   *)
(* and run records kept one file each, a scheduler loop per process that   *)
(* turns due slots into durable tasks and folds task results back into     *)
(* runs, and the calls of users (create, update, pause, resume, delete,    *)
(* run now) that interleave with it.                                       *)
(*                                                                         *)
(* The manager's mutex is held for single phases only: it is released      *)
(* around every call to the task manager.  One action is one phase, so     *)
(* anything may happen between the phases of a tick.  With several         *)
(* processes (Procs) on one directory the phases of different processes    *)
(* are not really atomic, so the runs have one process.                    *)
(***************************************************************************)
EXTENDS AutomationHost

CONSTANTS
  Autos,         \* automation ids (UUIDs: never used again)
  Callers,       \* concurrent run_now calls
  Schedules,     \* the schedules users ask for
  Modes,         \* delivery modes in use: subset of {"Task", "Watcher"}
  Outcomes,      \* how the task manager's jobs end
  UserOps,       \* what users do: subset of {"Update", "Pause", "Delete", "RunNow"}
  Legacy,        \* automations whose file may be there at first, without next_run_at
  SlotWindow,    \* runs list_runs returns to the slot look-up (25)
  PendingWindow, \* runs list_runs returns to the reconciliation (100)
  NoTask,        \* the value of "no task"
  MaxRuns,       \* bound: run ids
  MaxManual,     \* bound: no run_now once this many ids are used
  MaxFaults      \* bound: crashes, and phases cut short by a failing file operation

ASSUME WindowAssumption == SlotWindow \in Nat \ {0} /\ PendingWindow \in Nat \ {0}
ASSUME IdsAssumption    == NoTask \notin Tasks /\ Legacy \subseteq Autos
ASSUME TimeAssumption   == MaxTime \in Nat /\ MaxRuns \in Nat /\ MaxManual \in 0..MaxRuns
ASSUME FaultAssumption  == MaxFaults \in Nat
ASSUME ScheduleAssumption ==   \* "INTERVAL must be >= 1"
  /\ Schedules \subseteq [kind : {"Once", "Rolling", "Calendar"}, at : Nat, step : Nat]
  /\ \A s \in Schedules : s.kind # "Once" => s.step >= 1
ASSUME OutcomeAssumption == Outcomes \subseteq {"Completed", "Failed", "Canceled"}

VARIABLES
  auto,     \* automations/<id>.json
  runs,     \* runs/<automation>/<stamp>-<id>.json
  nextRun,  \* the next unused run id
  sch,      \* each scheduler loop: its phase and what it carries between phases
  call,     \* each run_now call, likewise
  origin,   \* history: task -> the automation and slot it was enqueued for
  tried,    \* history: slots whose enqueue was attempted
  wish,     \* history: the status, schedule and next slot of users' last call
  faults    \* history: phases cut short by a failing file operation

files   == <<auto, runs>>
history == <<origin, tried, wish>>
vars == <<now, files, nextRun, sch, call, job, begun, history, crashes, faults>>

-----------------------------------------------------------------------------
(* AutomationSchedule.  Once is a single instant; Rolling is HOURLY without*)
(* an anchor (after + interval); Calendar is any rule whose slots are      *)
(* fixed points of the calendar: anchored HOURLY, WEEKLY, CRON.            *)

NoTime == 0   \* next_run_at = None, or the error "no future run"

next_after(s, after) ==
  CASE s.kind = "Once"     -> IF s.at > after THEN s.at ELSE NoTime
    [] s.kind = "Rolling"  -> after + s.step
    [] s.kind = "Calendar" -> (after \div s.step + 1) * s.step

next_after_slot(s, slot) == IF s.kind = "Once" THEN NoTime ELSE next_after(s, slot)

-----------------------------------------------------------------------------
(* Records.  A record that is not on disk is Unused, or Deleted when it    *)
(* once was: the program cannot tell the two apart.                        *)

OnDisk(a) == auto[a].status \in {"Active", "Paused"}

Automation(status, s, next, mode) ==
  [status |-> status, sched |-> s, next |-> next, mode |-> mode]

NoRun == [auto |-> "none", slot |-> NoTime, created |-> NoTime, status |-> "Absent",
          job |-> NoTask]

Run(a, slot, created, status, t) ==
  [auto |-> a, slot |-> slot, created |-> created, status |-> status, job |-> t]

RunsOf(a) == {r \in DOMAIN runs : runs[r].status # "Absent" /\ runs[r].auto = a}

\* list_runs with a limit: the newest runs by created_at.  Equal times are
\* ordered by the random run id, so any choice among them is possible.
list_runs(a, limit) ==
  {S \in SUBSET RunsOf(a) :
     /\ Cardinality(S) = limit \/ (Cardinality(S) < limit /\ S = RunsOf(a))
     /\ \A r \in S, q \in RunsOf(a) \ S : runs[r].created >= runs[q].created}

Pending(r) == runs[r].status \in {"Queued", "Running"} /\ runs[r].job # NoTask

Idle == [pc |-> "idle", now |-> NoTime, batch |-> {}, id |-> 0, run |-> NoRun,
         pending |-> {}, seen |-> "Absent"]
Down == [Idle EXCEPT !.pc = "down"]
NoCall == [pc |-> "none", id |-> 0, run |-> NoRun]

Init ==
  /\ now = 1
  /\ \E s \in Schedules, m \in Modes, old \in SUBSET Legacy :
       /\ auto = [a \in Autos |-> Automation(IF a \in old THEN "Active" ELSE "Unused",
                                             s, NoTime, m)]
       /\ wish = [a \in Autos |-> [status |-> "Unused", sched |-> s, next |-> NoTime]]
  /\ runs = [r \in 1..MaxRuns |-> NoRun]
  /\ nextRun = 1
  /\ sch = [p \in Procs |-> Idle]
  /\ call = [c \in Callers |-> NoCall]
  /\ Jobs!JobInit
  /\ origin = [t \in Tasks |-> <<>>]
  /\ tried = {}
  /\ crashes = 0 /\ faults = 0

Fault == crashes + faults < MaxFaults /\ faults' = faults + 1

-----------------------------------------------------------------------------
(* Users.  Every call is one phase under the mutex.  A schedule without a  *)
(* future run is refused before anything is saved.                         *)

SaveFor(a, status, s, next) ==
  /\ auto' = [auto EXCEPT ![a] = Automation(status, s, next, @.mode)]
  /\ wish' = [wish EXCEPT ![a] = [status |-> status, sched |-> s, next |-> next]]
  /\ UNCHANGED <<now, runs, nextRun, sch, call, job, begun, origin, tried, crashes, faults>>

create_automation(a, s) ==
  /\ auto[a].status = "Unused"
  /\ next_after(s, now) # NoTime
  /\ SaveFor(a, "Active", s, next_after(s, now))

\* update_automation with an rrule: next_run_at is computed anew when Active.
update_rrule(a, s) ==
  /\ "Update" \in UserOps /\ OnDisk(a) /\ s # auto[a].sched
  /\ auto[a].status = "Active" => next_after(s, now) # NoTime
  /\ SaveFor(a, auto[a].status, s,
             IF auto[a].status = "Active" THEN next_after(s, now) ELSE auto[a].next)

pause_automation(a) ==
  /\ "Pause" \in UserOps /\ OnDisk(a)
  /\ SaveFor(a, "Paused", auto[a].sched, NoTime)

resume_automation(a) ==
  /\ "Pause" \in UserOps /\ OnDisk(a)
  /\ next_after(auto[a].sched, now) # NoTime
  /\ SaveFor(a, "Active", auto[a].sched, next_after(auto[a].sched, now))

\* The record is removed, then its directory of runs.
delete_automation(a) ==
  /\ "Delete" \in UserOps /\ OnDisk(a)
  /\ auto' = [auto EXCEPT ![a].status = "Deleted"]
  /\ runs' = [r \in DOMAIN runs |-> IF r \in RunsOf(a) THEN NoRun ELSE runs[r]]
  /\ UNCHANGED <<now, nextRun, sch, call, job, begun, history, crashes, faults>>

-----------------------------------------------------------------------------
(* enqueue_run_task: the outcome of add_task is folded into the run.       *)

\* add_task gives out an id that was never used: which one makes no difference.
FreshTask ==
  LET free == {t \in Tasks : job[t] = "Absent"} IN
  IF free = {} THEN {} ELSE {CHOOSE t \in free : TRUE}

Enqueue(a, slot, created) ==
  {Run(a, slot, created, "Running", t) : t \in FreshTask}
    \cup {Run(a, slot, created, "Failed", NoTask)}

Enqueued(run) ==
  IF run.job = NoTask THEN UNCHANGED <<job, begun, origin>>
  ELSE /\ Jobs!Accept(run.job)
       /\ origin' = [origin EXCEPT ![run.job] = <<run.auto, run.slot>>]

(* run_now_with: read, enqueue, persist.  A run that was started by hand   *)
(* has the nanosecond of the call as its slot, which no schedule hits.     *)

run_now_read(c, a) ==
  /\ "RunNow" \in UserOps /\ call[c].pc = "none" /\ OnDisk(a) /\ nextRun <= MaxManual
  /\ call' = [call EXCEPT ![c] = [pc |-> "enqueue", id |-> nextRun,
                                   run |-> Run(a, NoTime, now, "Queued", NoTask)]]
  /\ nextRun' = nextRun + 1
  /\ UNCHANGED <<now, files, sch, job, begun, history, crashes, faults>>

run_now_enqueue(c) ==
  /\ call[c].pc = "enqueue"
  /\ \E run \in Enqueue(call[c].run.auto, NoTime, call[c].run.created) :
       /\ IF run.job = NoTask THEN UNCHANGED <<job, begun>> ELSE Jobs!Accept(run.job)
       /\ call' = [call EXCEPT ![c].pc = "persist", ![c].run = run]
  /\ UNCHANGED <<now, files, nextRun, sch, history, crashes, faults>>

\* save_run; the automation is read again and only its time stamps change.
run_now_persist(c) ==
  /\ call[c].pc = "persist"
  /\ runs' = [runs EXCEPT ![call[c].id] = call[c].run]
  /\ call' = [call EXCEPT ![c] = NoCall]
  /\ UNCHANGED <<now, auto, nextRun, sch, job, begun, history, crashes, faults>>

-----------------------------------------------------------------------------
(* scheduler_tick_shared.                                                  *)

\* The next phase; the run at hand goes out of scope.
Phase(p, pc) ==
  sch' = [sch EXCEPT ![p] = [Idle EXCEPT !.pc = pc, !.now = sch[p].now,
                               !.batch = sch[p].batch, !.pending = sch[p].pending]]

BeginTick(p) ==
  /\ sch[p].pc = "idle"
  /\ sch' = [sch EXCEPT ![p].pc = "collect", ![p].now = now]
  /\ UNCHANGED <<now, files, nextRun, call, job, begun, history, crashes, faults>>

Due(a, at) == auto[a].status = "Active" /\ auto[a].next # NoTime /\ auto[a].next <= at

\* Mutation: the next slot is counted from just before the one that ran.
MutAdvanced(rec, slot) ==
  LET next == next_after_slot(rec.sched, slot - 1) IN
  [rec EXCEPT !.next = next, !.status = IF next = NoTime THEN "Paused" ELSE @]

\* advance_automation_after_slot; a Once automation is paused when it fired.
Advanced(rec, slot) ==
  LET next == next_after_slot(rec.sched, slot) IN
  [rec EXCEPT !.next = next, !.status = IF next = NoTime THEN "Paused" ELSE @]

\* Without next_run_at: the first slot, or Paused for a Once in the past.
Initialised(rec, at) ==
  LET next == next_after(rec.sched, at) IN
  [rec EXCEPT !.next = next, !.status = IF next = NoTime THEN "Paused" ELSE @]

\* Mutation: any earlier run counts as the run of the slot.
MutSlotSeenAny(a) == {S # {} : S \in list_runs(a, SlotWindow)}

\* Does a run for the due slot exist?  Every answer the look-up can give.
SlotSeen(a) ==
  {\E r \in S : runs[r].slot = auto[a].next : S \in list_runs(a, SlotWindow)}

\* collect_due_runs on one record.
Swept(a, at, seen) ==
  IF auto[a].status = "Active" /\ auto[a].next = NoTime THEN Initialised(auto[a], at)
  ELSE IF Due(a, at) /\ seen THEN Advanced(auto[a], auto[a].next)
  ELSE auto[a]

\* The answers of the look-ups of one sweep.
Lookups(at) ==
  {seen \in [Autos -> BOOLEAN] :
     \A a \in Autos : IF Due(a, at) THEN seen[a] \in SlotSeen(a) ELSE ~seen[a]}

collect_due_runs(p) ==
  /\ sch[p].pc = "collect"
  /\ \E seen \in Lookups(sch[p].now) :
       /\ auto' = [a \in Autos |-> Swept(a, sch[p].now, seen[a])]
       /\ sch' = [sch EXCEPT ![p].pc = "enqueue",
            ![p].batch = {<<a, auto[a].next>> :
                            a \in {b \in Autos : Due(b, sch[p].now) /\ ~seen[b]}}]
  /\ UNCHANGED <<now, runs, nextRun, call, job, begun, history, crashes, faults>>

\* An unreadable file ends the sweep: some records were saved, nothing is
\* enqueued, and the loop goes on to the reconciliation.
collect_fails(p) ==
  /\ sch[p].pc = "collect" /\ Fault
  /\ \E saved \in SUBSET Autos : \E seen \in Lookups(sch[p].now) :
       auto' = [a \in Autos |-> IF a \in saved THEN Swept(a, sch[p].now, seen[a])
                                ELSE auto[a]]
  /\ Phase(p, "reconcile")
  /\ UNCHANGED <<now, runs, nextRun, call, job, begun, history, crashes>>

enqueue_run(p) ==
  /\ sch[p].pc = "enqueue" /\ nextRun <= MaxRuns
  /\ \E due \in sch[p].batch :
       \E run \in Enqueue(due[1], due[2], sch[p].now) :
         /\ Enqueued(run)
         /\ sch' = [sch EXCEPT ![p].pc = "persist", ![p].id = nextRun, ![p].run = run,
                               ![p].batch = @ \ {due}]
         /\ tried' = tried \cup {due}
  /\ nextRun' = nextRun + 1
  /\ UNCHANGED <<now, files, call, wish, crashes, faults>>

\* Mutation: the record as the sweep read it, still Active, is written back.
Mutfinish_scheduled_run(p) ==
  /\ sch[p].pc = "persist"
  /\ runs' = [runs EXCEPT ![sch[p].id] = sch[p].run]
  /\ LET a == sch[p].run.auto IN
     auto' = [auto EXCEPT ![a] = [Advanced(@, sch[p].run.slot) EXCEPT !.status = "Active"]]
  /\ Phase(p, "enqueue")
  /\ UNCHANGED <<now, nextRun, call, job, begun, history, crashes, faults>>

\* The run is saved in any case; the automation is read again, and its slot
\* advanced if it still exists.
finish_scheduled_run(p) ==
  /\ sch[p].pc = "persist"
  /\ runs' = [runs EXCEPT ![sch[p].id] = sch[p].run]
  /\ LET a == sch[p].run.auto IN
     auto' = IF OnDisk(a)
             THEN [auto EXCEPT ![a] = Advanced(@, sch[p].run.slot)]
             ELSE auto
  /\ Phase(p, "enqueue")
  /\ UNCHANGED <<now, nextRun, call, job, begun, history, crashes, faults>>

\* A failing save leaves the phase by ?, before or after the run was written;
\* the rest of the batch is dropped.
finish_fails(p) ==
  /\ sch[p].pc = "persist" /\ Fault
  /\ runs' \in {runs, [runs EXCEPT ![sch[p].id] = sch[p].run]}
  /\ sch' = [sch EXCEPT ![p] = [Idle EXCEPT !.pc = "reconcile"]]
  /\ UNCHANGED <<now, auto, nextRun, call, job, begun, history, crashes>>

-----------------------------------------------------------------------------
(* reconcile_run_statuses_shared.                                          *)

\* collect_pending_runs: of the automations that still have a record.
collect_pending_runs(p) ==
  /\ \/ sch[p].pc = "reconcile"
     \/ sch[p].pc = "enqueue" /\ (sch[p].batch = {} \/ nextRun > MaxRuns)
  /\ \E W \in [Autos -> SUBSET DOMAIN runs] :
       /\ \A a \in Autos : W[a] \in IF OnDisk(a) THEN list_runs(a, PendingWindow) ELSE {{}}
       /\ sch' = [sch EXCEPT ![p] = [Idle EXCEPT !.pc = "lookup",
            !.pending = {<<r, runs[r]>> :
                           r \in {q \in UNION {W[a] : a \in Autos} : Pending(q)}}]]
  /\ UNCHANGED <<now, files, nextRun, call, job, begun, history, crashes, faults>>

reconcile_lookup(p) ==
  /\ sch[p].pc = "lookup"
  /\ \E x \in sch[p].pending :
       sch' = [sch EXCEPT ![p].pc = "apply", ![p].id = x[1], ![p].run = x[2],
                          ![p].pending = @ \ {x}, ![p].seen = job[x[2].job]]
  /\ UNCHANGED <<now, files, nextRun, call, job, begun, history, crashes, faults>>

\* A watcher that had nothing to report leaves no run behind.
delete_quiet_run(p) ==
  /\ sch[p].pc = "apply" /\ sch[p].seen = "Completed"
  /\ OnDisk(sch[p].run.auto) /\ auto[sch[p].run.auto].mode = "Watcher"
  /\ runs' = [runs EXCEPT ![sch[p].id] = NoRun]
  /\ Phase(p, "lookup")
  /\ UNCHANGED <<now, auto, nextRun, call, job, begun, history, crashes, faults>>

\* Mutation: a completed task leaves the run as it is.
MutApplyCompleted(run, status) ==
  [run EXCEPT !.status = IF status = "Completed" THEN @ ELSE status]

\* A run has the statuses of a task and takes over the task's.
apply_task_status(run, status) == [run EXCEPT !.status = status]

reconcile_apply(p) ==
  /\ sch[p].pc = "apply"
  /\ LET run == apply_task_status(sch[p].run, sch[p].seen) IN
     runs' = IF run = sch[p].run THEN runs ELSE [runs EXCEPT ![sch[p].id] = run]
  /\ Phase(p, "lookup")
  /\ UNCHANGED <<now, auto, nextRun, call, job, begun, history, crashes, faults>>

EndTick(p) ==
  /\ sch[p].pc = "lookup" /\ sch[p].pending = {}
  /\ sch' = [sch EXCEPT ![p] = Idle]
  /\ UNCHANGED <<now, files, nextRun, call, job, begun, history, crashes, faults>>

-----------------------------------------------------------------------------
\* A process ends; its run_now calls (there is one owner for all of them) go
\* with it.  Inside the last phase only save_run of the two writes may be done.
Crash(p) ==
  /\ sch[p].pc # "down" /\ crashes + faults < MaxFaults
  /\ crashes' = crashes + 1
  /\ sch' = [sch EXCEPT ![p] = Down]
  /\ call' = [c \in Callers |-> NoCall]
  /\ runs' \in {runs} \cup {[runs EXCEPT ![sch[p].id] = sch[p].run] :
                              x \in {sch[p].pc} \cap {"persist"}}
  /\ UNCHANGED <<now, auto, nextRun, job, begun, history, faults>>

Restart(p) ==
  /\ sch[p].pc = "down"
  /\ sch' = [sch EXCEPT ![p] = Idle]
  /\ UNCHANGED <<now, files, nextRun, call, job, begun, history, crashes, faults>>

Clock ==
  /\ now < MaxTime
  /\ now' = now + 1
  /\ UNCHANGED <<files, nextRun, sch, call, job, begun, history, crashes, faults>>

\* The task manager works on its jobs; that a job can also be withdrawn before
\* it starts adds nothing a reconciliation could tell from a finish.
JobProgress(t) ==
  /\ \/ Jobs!Start(t) \/ Jobs!Execute(t)
     \/ \E status \in Outcomes : Jobs!Finish(t, status)
  /\ UNCHANGED <<now, files, nextRun, sch, call, history, crashes, faults>>

SchedulerStep(p) ==
  \/ BeginTick(p) \/ collect_due_runs(p) \/ enqueue_run(p) \/ finish_scheduled_run(p)
  \/ collect_pending_runs(p) \/ reconcile_lookup(p) \/ delete_quiet_run(p)
  \/ reconcile_apply(p) \/ EndTick(p) \/ Restart(p)

UserStep(a) ==
  \/ \E s \in Schedules : create_automation(a, s) \/ update_rrule(a, s)
  \/ pause_automation(a) \/ resume_automation(a) \/ delete_automation(a)
  \/ \E c \in Callers : run_now_read(c, a)

CallStep(c) == run_now_enqueue(c) \/ run_now_persist(c)

Next ==
  \/ Clock
  \/ \E a \in Autos : UserStep(a)
  \/ \E c \in Callers : CallStep(c)
  \/ \E p \in Procs : SchedulerStep(p) \/ collect_fails(p) \/ finish_fails(p) \/ Crash(p)
  \/ \E t \in Tasks : JobProgress(t)

Spec == Init /\ [][Next]_vars

\* The loop of spawn_scheduler goes on for ever: a tick, the sleep, a tick.
\* The task manager's workers take and finish jobs (AcceptedFinishes).
Fairness ==
  /\ \A p \in Procs : WF_vars(SchedulerStep(p))
  /\ \A c \in Callers : WF_vars(CallStep(c))
  /\ \A t \in Tasks : WF_vars(JobProgress(t))

FairSpec == Spec /\ Fairness

-----------------------------------------------------------------------------
RunStatus == {"Queued", "Running", "Completed", "Failed", "Canceled"}
RunRecord == [auto : Autos, slot : Nat, created : Nat, status : RunStatus,
              job : Tasks \cup {NoTask}] \cup {NoRun}

\* Type invariant: every variable has its declared shape.
TypeOK ==
  /\ now \in 1..MaxTime /\ nextRun \in 1..(MaxRuns + 1)
  /\ auto \in [Autos -> [status : {"Unused", "Active", "Paused", "Deleted"},
                          sched : Schedules, next : Nat, mode : Modes]]
  /\ runs \in [1..MaxRuns -> RunRecord]
  /\ \A p \in Procs :
       /\ sch[p].pc \in {"idle", "collect", "enqueue", "persist", "reconcile", "lookup",
                         "apply", "down"}
       /\ sch[p].batch \subseteq Autos \X Nat /\ sch[p].run \in RunRecord
  /\ \A c \in Callers : call[c].pc \in {"none", "enqueue", "persist"}
  /\ job \in [Tasks -> Jobs!JobStatus] /\ begun \subseteq Tasks
  /\ crashes \in Nat /\ faults \in Nat /\ crashes + faults <= MaxFaults

\* No lost update: what a user set while the scheduler was between two phases
\* (a new rrule, a pause) is still in the record after the scheduler wrote it.
UserChangesKept ==
  \A a \in Autos : OnDisk(a) =>
    /\ auto[a].sched = wish[a].sched
    /\ wish[a].status = "Paused" => auto[a].status = "Paused"

TasksFor(a, slot) == {t \in Tasks : origin[t] = <<a, slot>>}

\* A slot becomes a task once, and at most once more for every crash and every
\* failed file operation, whatever users do to the automation meanwhile.
SlotRepeatsBounded ==
  \A t \in Tasks : origin[t] # <<>> =>
    Cardinality(TasksFor(origin[t][1], origin[t][2])) <= 1 + crashes + faults

\* A slot that is due gets its run, across crashes and failing files, unless
\* the automation is paused or deleted first, or a user's update or resume
\* moves it to a later slot (or the bound on run ids is reached).
DueSlotRuns ==
  \A a \in Autos, slot \in 2..MaxTime :
    (auto[a].status = "Active" /\ auto[a].next = slot /\ slot <= now)
      ~> \/ <<a, slot>> \in tried
         \/ auto[a].status # "Active" \/ wish[a].next > slot
         \/ nextRun > MaxRuns

\* The newest PendingWindow runs of its automation may all be others.
Behind(r) ==
  /\ runs[r] # NoRun
  /\ Cardinality({q \in RunsOf(runs[r].auto) \ {r} : runs[q].created >= runs[r].created})
       >= PendingWindow

\* The run of an accepted task is settled by some later tick, and tells how the
\* task ended although its status is read outside the mutex and written later; a
\* quiet watcher's run is gone instead, and the runs of a deleted automation are
\* not looked at any more.  The one other exception is the cut of
\* collect_pending_runs: a run that stays behind the newest runs for good is
\* never looked at again (one that comes back into view is settled).
RunSettles ==
  \A r \in 1..MaxRuns, t \in Tasks, a \in Autos :
    (runs[r].auto = a /\ runs[r].job = t /\ Pending(r))
      ~> \/ runs[r] = NoRun \/ auto[a].status = "Deleted"
         \/ job[t] \in Jobs!TerminalJob /\ runs[r].status = job[t]
         \/ []Behind(r)
=============================================================================
