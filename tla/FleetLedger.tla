----------------------------- MODULE FleetLedger -----------------------------
(***************************************************************************)
(* The fleet ledger: crates/tui/src/fleet/ledger.rs.  Several managers,     *)
(* schedulers and executors, possibly in different processes, share one     *)
(* append-only file under an advisory lock.  Every state change is decided  *)
(* under the write lock from a replay of the file and appended as one or    *)
(* more records; the state of a fleet run is what the records replay to.    *)
(*                                                                         *)
(* st is that replayed state of one run, pending the records the lock       *)
(* holder still has to write.  A process that dies (or a write that fails)  *)
(* leaves a prefix of them behind.  A caller first reads the state under    *)
(* the read lock and keeps a view of what it read; it acts later, and the   *)
(* ledger compares the view with the state it finds under the write lock.   *)
(*                                                                         *)
(* Left out of st: the projections no guard of this file reads (workers,    *)
(* latest_events, artifact_, restarted_ and escalated_events), and usage    *)
(* beyond the ceiling, which only matters as reached or not.                *)
(***************************************************************************)
EXTENDS Integers, Sequences, FiniteSets

CONSTANTS
  Tasks, Workers,   \* the run's tasks and logical workers
  Callers,          \* managers, schedulers and executors
  Drivers,          \* the callers that also refresh the run's status
  Payloads,         \* progress a worker may report: "Progress", "Usage"
  Results,          \* how a worker's process may end: "Completed", "Failed", "Cancelled"
  MaxActive,        \* max_workers of the run
  Ceiling,          \* usage_ceiling of the run, in usage reports
  MaxAttempts,      \* bound: leases of one task
  MaxSeq,           \* bound: events of one task at which progress stops
  MaxTime,          \* bound: seconds of wall clock
  MaxTorn           \* bound: transactions cut short

NoWorker == "none"

ASSUME WorkersAssumption == NoWorker \notin Workers
ASSUME BoundsAssumption  ==
  /\ \A n \in {MaxActive, Ceiling, MaxAttempts, MaxSeq, MaxTime} : n \in Nat \ {0}
  /\ MaxTorn \in Nat
ASSUME InputsAssumption ==
  /\ Drivers \subseteq Callers
  /\ Payloads \subseteq {"Progress", "Usage"}
  /\ Results \subseteq {"Completed", "Failed", "Cancelled"}

VARIABLES
  now,       \* wall clock, in the seconds that timestamps are written with
  st,        \* the replayed FleetLedgerState
  pending,   \* records of the current transaction that are not yet written
  view,      \* what each caller read, and what it still has to do
  torn       \* number of transactions cut short so far

vars == <<now, st, pending, view, torn>>

NoView   == [kind |-> "none"]
Owes     == [kind |-> "budget"]     \* appended a usage report: the ceiling check is owed
Keys     == Workers \X Tasks        \* event_key

Terminal    == {"Completed", "Failed", "Cancelled"}
LedgerStatus == {"absent", "Enqueued", "Leased"} \cup Terminal
RunStatuses == {"Pending", "Queued", "Running", "Paused", "Completed", "Failed", "Cancelled"}

-----------------------------------------------------------------------------
(* Records (FleetLedgerRecord), and what replaying one does (apply_record). *)

TaskEnqueued(t) == [record |-> "TaskEnqueued", task |-> t]
TaskLeased(t, w, at) == [record |-> "TaskLeased", task |-> t, worker |-> w, at |-> at]
TaskEnded(t, w, status) ==
  [record |-> "TaskCompletedOrFailed", task |-> t, worker |-> w, status |-> status]
\* Worker events by what replay does with them:
\*   Progress     Leased, Starting, Running, Artifact, Stale, Restarted, Interrupted,
\*                Escalated, tool and model events
\*   Usage        UsageReport
\*   Completed, Failed, Cancelled
EventAppended(t, w, kind, seq) ==
  [record |-> "EventAppended", task |-> t, worker |-> w, kind |-> kind, seq |-> seq]
AttemptFinalized(t, w, kind, seq, final, attempt) ==
  [record |-> "TaskAttemptFinalized", task |-> t, worker |-> w, kind |-> kind,
   seq |-> seq, final |-> final, attempt |-> attempt]
Beat(w, at) == [record |-> "Heartbeat", worker |-> w, at |-> at]
RunStatusChanged(status) == [record |-> "RunStatusChanged", status |-> status]
AlertSent(t, w, attempt, seq) ==
  [record |-> "AlertSent", task |-> t, worker |-> w, attempt |-> attempt, seq |-> seq]
BudgetAlert == [record |-> "BudgetAlert"]

NoTask == [status |-> "absent", leased_to |-> NoWorker, leased_at |-> 0, attempts |-> 0,
           lifecycle_seq |-> 0]

EmptyState ==
  [task    |-> [t \in Tasks |-> NoTask],
   seq     |-> [k \in Keys |-> 0],             \* latest_seq
   beat    |-> [w \in Workers |-> 0],          \* heartbeats
   run     |-> "Queued",
   usage   |-> 0,                              \* run_usage, up to the ceiling
   alerts  |-> {},                             \* <<task, attempt>>
   budgetAlert |-> FALSE,
   receipt |-> [t \in Tasks |-> 0]]            \* attempt the receipt is for

\* Mutant: a terminal task keeps its number.
MutMarkTerminal(s, t, w, status) ==
  IF s.task[t].status = "absent" THEN s.task
  ELSE [s.task EXCEPT ![t].status = status,
                      ![t].leased_to = IF w = NoWorker THEN @ ELSE w]

MarkTerminal(s, t, w, status) ==
  LET old == s.task[t] IN
  IF old.status = "absent" THEN s.task
  ELSE [s.task EXCEPT ![t] =
         [status        |-> status,
          leased_to     |-> IF w = NoWorker THEN old.leased_to ELSE w,
          leased_at     |-> old.leased_at,
          attempts      |-> old.attempts,
          lifecycle_seq |-> old.lifecycle_seq + (IF old.status = status THEN 0 ELSE 1)]]

ApplyEnqueued(s, r) ==
  IF s.task[r.task].status # "absent" THEN s
  ELSE [s EXCEPT !.task[r.task] =
         [status |-> "Enqueued", leased_to |-> NoWorker, leased_at |-> 0,
          attempts |-> 0, lifecycle_seq |-> 1]]

ApplyLeased(s, r) ==
  LET old == s.task[r.task]
      same == old.status = "Leased" /\ old.leased_to = r.worker /\ old.leased_at = r.at
  IN  IF old.status = "absent" THEN s
      ELSE [s EXCEPT !.task[r.task] =
             [status |-> "Leased", leased_to |-> r.worker, leased_at |-> r.at,
              attempts |-> old.attempts + 1,
              lifecycle_seq |-> old.lifecycle_seq + (IF same THEN 0 ELSE 1)]]

\* Only terminal payloads change the task; usage counts even when it is late.
ApplyEvent(s, r) ==
  LET key == <<r.worker, r.task>> IN
  [s EXCEPT
    !.seq[key] = IF r.seq > @ THEN r.seq ELSE @,
    !.usage    = IF r.kind = "Usage" /\ @ < Ceiling THEN @ + 1 ELSE @,
    !.task     = IF r.kind \in Terminal
                 THEN MarkTerminal(s, r.task, r.worker, r.kind) ELSE @]

ApplyFinalized(s, r) ==
  LET s1 == ApplyEvent(s, r)
      s2 == IF r.final = "none" THEN s1
            ELSE [s1 EXCEPT !.task = MarkTerminal(s1, r.task, r.worker, r.final)]
  IN  [s2 EXCEPT !.receipt[r.task] = r.attempt]

ApplyAlert(s, r) ==
  IF <<r.task, r.attempt>> \in s.alerts THEN s
  ELSE ApplyEvent([s EXCEPT !.alerts = @ \cup {<<r.task, r.attempt>>}],
                  EventAppended(r.task, r.worker, "Progress", r.seq))

apply_record(s, r) ==
  CASE r.record = "TaskEnqueued"          -> ApplyEnqueued(s, r)
    [] r.record = "TaskLeased"            -> ApplyLeased(s, r)
    [] r.record = "TaskCompletedOrFailed" ->
         [s EXCEPT !.task = MarkTerminal(s, r.task, r.worker, r.status)]
    [] r.record = "EventAppended"         -> ApplyEvent(s, r)
    [] r.record = "TaskAttemptFinalized"  -> ApplyFinalized(s, r)
    [] r.record = "Heartbeat"             -> [s EXCEPT !.beat[r.worker] = r.at]
    [] r.record = "RunStatusChanged"      -> [s EXCEPT !.run = r.status]
    [] r.record = "AlertSent"             -> ApplyAlert(s, r)
    [] r.record = "BudgetAlert"           -> [s EXCEPT !.budgetAlert = TRUE]

-----------------------------------------------------------------------------
Init ==
  /\ now = 1
  /\ st = EmptyState
  /\ pending = <<>>
  /\ view = [c \in Callers |-> NoView]
  /\ torn = 0

Unlocked == pending = <<>>

\* One record reaches the file.
Write ==
  /\ pending # <<>>
  /\ st' = apply_record(st, Head(pending))
  /\ pending' = Tail(pending)
  /\ UNCHANGED <<now, view, torn>>

\* The write fails or the writer dies: the rest of the transaction is lost.  The
\* torn line that may remain is quarantined by the next append and skipped by
\* every replay.  The writer, if it lives, gets an error and gives up what it
\* meant to do next: to check the ceiling, or to act on its own stale mark.
Ahead(c) ==
  view[c].kind = "task" /\ view[c].worker # NoWorker
    /\ view[c].seq > st.seq[<<view[c].worker, view[c].task>>]

TornWrite ==
  /\ pending # <<>> /\ torn < MaxTorn
  /\ pending' = <<>>
  /\ torn' = torn + 1
  /\ LET r == Head(pending) IN
     IF r.record = "EventAppended" /\ r.kind = "Usage"
     THEN \E c \in Callers : view[c] = Owes /\ view' = [view EXCEPT ![c] = NoView]
     ELSE view' = [c \in Callers |-> IF Ahead(c) THEN NoView ELSE view[c]]
  /\ UNCHANGED <<now, st>>

\* A transaction of caller c: its records are appended, and v is what it goes on with.
AppendThen(c, records, v) ==
  /\ pending' = records
  /\ view' = [view EXCEPT ![c] = v]
  /\ UNCHANGED <<now, st, torn>>

Append_(c, records) == AppendThen(c, records, NoView)

NextSeq(t, w) == st.seq[<<w, t>>] + 1

enqueue(t) ==
  /\ Unlocked /\ st.task[t].status = "absent"
  /\ pending' = <<TaskEnqueued(t)>>
  /\ UNCHANGED <<now, st, view, torn>>

\* Written for the tasks that were active when the writer looked.
heartbeat(w) ==
  /\ Unlocked /\ st.beat[w] # now
  /\ \E t \in Tasks : st.task[t].leased_to = w
  /\ pending' = <<Beat(w, now)>>
  /\ UNCHANGED <<now, st, view, torn>>

\* rebuild_state: a caller reads a task and the version it will insist on.
rebuild_state(c, t) ==
  /\ Unlocked /\ view[c] = NoView /\ st.task[t].status # "absent"
  /\ LET w == st.task[t].leased_to IN
     view' = [view EXCEPT ![c] =
       [kind |-> "task", task |-> t, status |-> st.task[t].status, worker |-> w,
        attempts |-> st.task[t].attempts,
        seq  |-> IF w = NoWorker THEN 0 ELSE st.seq[<<w, t>>],
        beat |-> IF w = NoWorker THEN 0 ELSE st.beat[w]]]
  /\ UNCHANGED <<now, st, pending, torn>>

\* refresh_run_status: a caller derives the run's status from its tasks ...
RunStatus ==
  LET has(status) == \E t \in Tasks : st.task[t].status = status IN
  IF has("Enqueued") \/ has("Leased") THEN "Running"
  ELSE IF has("Failed") THEN "Failed"
  ELSE IF has("Cancelled") THEN "Cancelled" ELSE "Completed"

refresh_run_status(c) ==
  /\ Unlocked /\ view[c] = NoView /\ c \in Drivers
  /\ view' = [view EXCEPT ![c] = [kind |-> "refresh", status |-> RunStatus]]
  /\ UNCHANGED <<now, st, pending, torn>>

\* ... and writes it, whatever has happened in between.
update_run_status(c) ==
  /\ Unlocked /\ view[c].kind = "refresh"
  /\ Append_(c, <<RunStatusChanged(view[c].status)>>)

\* The caller decides to do nothing, its comparison fails or it dies: nothing is
\* written.  Only a caller that dies forgets the ceiling check.
Forget(c) ==
  /\ Unlocked /\ view[c] # NoView
  /\ view[c] = Owes => torn < MaxTorn
  /\ torn' = IF view[c] = Owes THEN torn + 1 ELSE torn
  /\ view' = [view EXCEPT ![c] = NoView]
  /\ UNCHANGED <<now, st, pending>>

Holding(c) == Unlocked /\ view[c].kind = "task"

\* Mutant: a worker is idle when its lease is not of this task.
MutWorkerIdle(w, t) ==
  \A u \in {t} : ~(st.task[u].status = "Leased" /\ st.task[u].leased_to # w)

WorkerIdle(w, t) ==
  \A u \in Tasks \ {t} : ~(st.task[u].status = "Leased" /\ st.task[u].leased_to = w)
Active   == {t \in Tasks : st.task[t].status = "Leased"}
Breached == st.usage >= Ceiling            \* run_ceiling_breached

start_task_if_enqueued(c, w) ==
  /\ Holding(c)
  /\ LET t == view[c].task  n == NextSeq(t, w) IN
     /\ st.task[t].status = "Enqueued"
     /\ WorkerIdle(w, t)
     /\ Cardinality(Active) < MaxActive
     /\ ~Breached
     /\ Append_(c, <<TaskLeased(t, w, now),
                     EventAppended(t, w, "Progress", n), EventAppended(t, w, "Progress", n + 1),
                     EventAppended(t, w, "Progress", n + 2),
                     EventAppended(t, w, "Progress", n + 3), Beat(w, now)>>)

\* Mutants: the attempt, or the status, is not compared.
MutLeaseLiveAnyAttempt(c) ==
  LET v == view[c] IN
  st.task[v.task].status = "Leased" /\ st.task[v.task].leased_to = v.worker

MutLeaseLiveAnyStatus(c) ==
  LET v == view[c] IN
  /\ st.task[v.task].leased_to = v.worker /\ v.worker # NoWorker
  /\ st.task[v.task].attempts = v.attempts

\* The caller's lease is live and of the attempt it knows.
LeaseLive(c) ==
  LET v == view[c] IN
  /\ st.task[v.task].status = "Leased"
  /\ st.task[v.task].leased_to = v.worker
  /\ st.task[v.task].attempts = v.attempts

\* ... and nothing at all has happened to it, not even a heartbeat.
VersionUnchanged(c) ==
  LET v == view[c] IN
  /\ st.task[v.task].status = v.status
  /\ st.task[v.task].leased_to = v.worker
  /\ st.task[v.task].attempts = v.attempts
  /\ v.worker # NoWorker
  /\ st.seq[<<v.worker, v.task>>] = v.seq
  /\ st.beat[v.worker] = v.beat

LeaseUnchanged(c) == LeaseLive(c) /\ VersionUnchanged(c)

append_event_if_leased(c, kind) ==
  /\ Holding(c) /\ LeaseLive(c)
  /\ LET v == view[c]  n == NextSeq(v.task, v.worker) IN
     /\ n <= MaxSeq
     /\ AppendThen(c, <<EventAppended(v.task, v.worker, kind, n)>>,
                   IF kind = "Usage" THEN Owes ELSE NoView)

\* A scheduler marks a silent lease stale and goes on with the new version.
append_event_if_lease_unchanged(c) ==
  /\ Holding(c) /\ LeaseUnchanged(c)
  /\ LET v == view[c]  n == NextSeq(v.task, v.worker) IN
     /\ n <= MaxSeq
     /\ AppendThen(c, <<EventAppended(v.task, v.worker, "Progress", n)>>,
                   [v EXCEPT !.seq = n])

append_terminal_event_if_lease_unchanged(c) ==
  /\ Holding(c) /\ LeaseUnchanged(c)
  /\ LET v == view[c] IN
     Append_(c, <<EventAppended(v.task, v.worker, "Failed", NextSeq(v.task, v.worker))>>)

\* The outcome of a process with its receipt, as one record; a verifier may turn
\* a success into Failed, a deadline a cancellation.
finalize_task_attempt_if_leased(c, kind, final) ==
  /\ Holding(c) /\ LeaseLive(c)
  /\ LET v == view[c] IN
     Append_(c, <<AttemptFinalized(v.task, v.worker, kind, NextSeq(v.task, v.worker),
                                   final, v.attempts)>>)

\* A retry of a stale or failed attempt, or an operator's restart of any attempt.
restart_task_if_unchanged(c) ==
  /\ Holding(c) /\ VersionUnchanged(c)
  /\ LET v == view[c]  n == NextSeq(v.task, v.worker) IN
     /\ v.attempts < MaxAttempts
     /\ WorkerIdle(v.worker, v.task)
     /\ Append_(c, <<TaskLeased(v.task, v.worker, now),
                     EventAppended(v.task, v.worker, "Progress", n),
                     EventAppended(v.task, v.worker, "Progress", n + 1), Beat(v.worker, now)>>)

\* Of the task in whatever state it is found, or only of the worker's live lease.
cancel_task_if_active(c, anyLease) ==
  /\ Holding(c)
  /\ LET v == view[c]  w == st.task[v.task].leased_to IN
     /\ st.task[v.task].status \in {"Enqueued", "Leased"}
     /\ anyLease \/ (st.task[v.task].status = "Leased" /\ w = v.worker)
     /\ IF w = NoWorker
        THEN Append_(c, <<TaskEnded(v.task, NoWorker, "Cancelled")>>)
        ELSE Append_(c, <<EventAppended(v.task, w, "Progress", NextSeq(v.task, w)),
                          EventAppended(v.task, w, "Cancelled", NextSeq(v.task, w) + 1)>>)

record_failed_attempt_alert_once(c) ==
  /\ Holding(c)
  /\ LET v == view[c] IN
     /\ st.task[v.task].status = "Failed"
     /\ st.task[v.task].leased_to = v.worker /\ st.task[v.task].attempts = v.attempts
     /\ <<v.task, v.attempts>> \notin st.alerts
     /\ Append_(c, <<AlertSent(v.task, v.worker, v.attempts, NextSeq(v.task, v.worker))>>)

record_budget_exceeded_alert_once(c) ==
  /\ Unlocked /\ view[c] = Owes
  /\ Append_(c, IF Breached /\ ~st.budgetAlert
                THEN <<BudgetAlert, RunStatusChanged("Paused")>> ELSE <<>>)

Tick ==
  /\ Unlocked /\ now < MaxTime
  /\ now' = now + 1
  /\ UNCHANGED <<st, pending, view, torn>>

CallerStep(c) ==
  \/ \E t \in Tasks : rebuild_state(c, t)
  \/ Forget(c) \/ refresh_run_status(c) \/ update_run_status(c)
  \/ \E w \in Workers : start_task_if_enqueued(c, w)
  \/ \E kind \in Payloads : append_event_if_leased(c, kind)
  \/ append_event_if_lease_unchanged(c)
  \/ append_terminal_event_if_lease_unchanged(c)
  \/ \E kind \in Results, final \in {"none", "Failed"} :
       finalize_task_attempt_if_leased(c, kind, final)
  \/ restart_task_if_unchanged(c)
  \/ \E anyLease \in BOOLEAN : cancel_task_if_active(c, anyLease)
  \/ record_failed_attempt_alert_once(c)
  \/ record_budget_exceeded_alert_once(c)

Next ==
  \/ Write \/ TornWrite \/ Tick
  \/ \E t \in Tasks : enqueue(t)
  \/ \E w \in Workers : heartbeat(w)
  \/ \E c \in Callers : CallerStep(c)

Spec == Init /\ [][Next]_vars

-----------------------------------------------------------------------------
TaskType == [status : LedgerStatus, leased_to : Workers \cup {NoWorker}, leased_at : Nat,
             attempts : Nat, lifecycle_seq : Nat]
State ==
  [task : [Tasks -> TaskType], seq : [Keys -> Nat], beat : [Workers -> Nat],
   run : RunStatuses, usage : Nat, alerts : SUBSET (Tasks \X Nat),
   budgetAlert : BOOLEAN, receipt : [Tasks -> Nat]]
Record ==
  [record : {"TaskEnqueued"}, task : Tasks]
    \cup [record : {"TaskLeased"}, task : Tasks, worker : Workers, at : Nat]
    \cup [record : {"TaskCompletedOrFailed"}, task : Tasks,
          worker : Workers \cup {NoWorker}, status : Terminal]
    \cup [record : {"EventAppended"}, task : Tasks, worker : Workers,
          kind : {"Progress", "Usage"} \cup Terminal, seq : Nat]
    \cup [record : {"TaskAttemptFinalized"}, task : Tasks, worker : Workers,
          kind : Terminal, seq : Nat, final : {"none", "Failed"}, attempt : Nat]
    \cup [record : {"Heartbeat"}, worker : Workers, at : Nat]
    \cup [record : {"RunStatusChanged"}, status : RunStatuses]
    \cup [record : {"AlertSent"}, task : Tasks, worker : Workers, attempt : Nat, seq : Nat]
    \cup {BudgetAlert}
View ==
  [kind : {"task"}, task : Tasks, status : LedgerStatus,
   worker : Workers \cup {NoWorker}, attempts : Nat, seq : Nat, beat : Nat]
    \cup [kind : {"refresh"}, status : RunStatuses]
    \cup {NoView, Owes}

\* Type invariant.
TypeOK ==
  /\ now \in Nat /\ torn \in Nat
  /\ st \in State
  /\ pending \in Seq(Record)
  /\ view \in [Callers -> View]

\* A logical worker never holds two leases, whoever starts, restarts and crashes
\* when: its process and its event stream belong to one task.
OneLeasePerWorker ==
  \A t, u \in Active : st.task[t].leased_to = st.task[u].leased_to => t = u

\* "prevents a process crash from publishing a terminal task without the receipt
\* that explains it" (TaskAttemptFinalized): a Completed task always has the
\* receipt of exactly its current attempt.
CompletedHasReceipt ==
  \A t \in Tasks : st.task[t].status = "Completed" => st.receipt[t] = st.task[t].attempts

\* Only a new attempt takes a task out of its terminal state; a late result, event
\* or cancellation of an older attempt cannot change what was decided.
TerminalSticks ==
  [][\A t \in Tasks :
       st.task[t].status \in Terminal /\ st'.task[t].status # st.task[t].status =>
         st'.task[t].attempts = st.task[t].attempts + 1]_vars

\* An observer of the task orders its snapshots by lifecycle_seq (work_graph/
\* liveness.rs): a change of status always shows as a larger number, also after
\* a torn transaction, a cancellation that overtakes a result, or a restart.
LifecycleSeqAdvances ==
  [][\A t \in Tasks :
       LET old == st.task[t]  new == st'.task[t] IN
       IF new.status = old.status THEN new.lifecycle_seq >= old.lifecycle_seq
       ELSE new.lifecycle_seq > old.lifecycle_seq]_vars
=============================================================================
