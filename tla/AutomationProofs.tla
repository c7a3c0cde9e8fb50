-------------------------- MODULE AutomationProofs --------------------------
(***************************************************************************)
(* Proofs about the two halves of the automation manager: recurring        *)
(* automations, for any number of automations, schedules, tasks, calls,    *)
(* crashes and failing phases, and then delayed triggers.                  *)
(*                                                                         *)
(* UserChangesKept is inductive with the types: the scheduler reads a      *)
(* record again before it writes it.                                       *)
(*                                                                         *)
(* SlotRepeatsBounded is not.  What bounds the tasks of a slot is where    *)
(* the slot is: in a batch, where its tasks so far are all due to failures *)
(* (BatchShape), at hand between add_task and save_run, where there may be *)
(* one more (HandShape), or next in the automation's record (NextShape).   *)
(* Everywhere the slots that became tasks before are not later than this   *)
(* one, and the slot that a user's call sets is in the future.             *)
(***************************************************************************)
EXTENDS AutomationManager, DelayedTriggers, FiniteSetTheorems, TLAPS

\* One scheduler loop on the directory.
OneLoop == \A p, q \in Procs : p = q

-----------------------------------------------------------------------------
(* The invariant.                                                          *)

AutoRecord == [status : {"Unused", "Active", "Paused", "Deleted"},
               sched : Schedules, next : Nat, mode : Modes]
WishRecord == [status : {"Unused", "Active", "Paused"}, sched : Schedules, next : Nat]
Slots == Autos \X (Nat \ {0})
LoopFields == {"pc", "now", "batch", "id", "run", "pending", "seen"}

Types ==
  /\ now \in Nat /\ crashes \in Nat /\ faults \in Nat
  /\ auto \in [Autos -> AutoRecord] /\ wish \in [Autos -> WishRecord]
  /\ sch = [p \in Procs |-> sch[p]]

\* A task that was enqueued for a slot is known to the task manager.
OriginShape ==
  /\ origin \in [Tasks -> Slots \cup {<<>>}]
  /\ job = [t \in Tasks |-> job[t]]
  /\ \A t \in Tasks : origin[t] # <<>> => job[t] # "Absent"

\* A batch is of different automations and of the past.
LoopShape(p) ==
  /\ DOMAIN sch[p] = LoopFields
  /\ sch[p].now \in Nat /\ sch[p].now <= now
  /\ sch[p].batch \subseteq Slots
  /\ sch[p].pc \notin {"enqueue", "persist"} => sch[p].batch = {}
  /\ \A x, y \in sch[p].batch : x[1] = y[1] => x = y
  /\ \A x \in sch[p].batch : x[2] <= now
  /\ sch[p].pc = "persist" =>
       /\ sch[p].run.auto \in Autos /\ sch[p].run.slot \in Nat \ {0} /\ sch[p].run.slot <= now
       /\ \A x \in sch[p].batch : x[1] # sch[p].run.auto

\* The base: it holds for any number of loops.
TInv == Types /\ OriginShape /\ UserChangesKept /\ \A p \in Procs : LoopShape(p)

Failures == crashes + faults
Count(a, s) == Cardinality(TasksFor(a, s))

\* No slot of a that became a task is later than s.
Latest(a, s) == \A t \in Tasks : origin[t] # <<>> /\ origin[t][1] = a => origin[t][2] <= s

\* The record is not behind the slot s that a loop carries.
Ahead(a, s) == OnDisk(a) => auto[a].next = NoTime \/ auto[a].next >= s

BatchShape(p) ==
  \A x \in sch[p].batch :
    Count(x[1], x[2]) <= Failures /\ Latest(x[1], x[2]) /\ Ahead(x[1], x[2])

HandShape(p) ==
  sch[p].pc = "persist" =>
    Latest(sch[p].run.auto, sch[p].run.slot) /\ Ahead(sch[p].run.auto, sch[p].run.slot)

Carries(p, a) ==
  \/ \E x \in sch[p].batch : x[1] = a
  \/ sch[p].pc = "persist" /\ sch[p].run.auto = a
SlotCarried(a) == \E p \in Procs : Carries(p, a)

NextShape(a) ==
  /\ OnDisk(a) /\ auto[a].next # NoTime /\ ~SlotCarried(a) =>
       Latest(a, auto[a].next) /\ Count(a, auto[a].next) <= Failures
  /\ auto[a].status = "Active" /\ auto[a].next = NoTime =>
       ~SlotCarried(a) /\ \A t \in Tasks : origin[t] = <<>> \/ origin[t][1] # a

TaskShape ==
  /\ \A x \in Slots : IsFiniteSet(TasksFor(x[1], x[2])) /\ Count(x[1], x[2]) <= 1 + Failures
  /\ \A t \in Tasks : origin[t] # <<>> => origin[t][2] <= now

\* What bounds the tasks of a slot, if there is one loop.
SInv ==
  /\ TaskShape /\ \A a \in Autos : NextShape(a)
  /\ \A p \in Procs : BatchShape(p) /\ HandShape(p)

-----------------------------------------------------------------------------
(* Schedules and records.                                                  *)

\* The points of a calendar.
LEMMA DivFacts ==
  ASSUME NEW k \in Nat \ {0}, NEW t \in Nat
  PROVE  t \div k \in Nat /\ (t \div k + 1) * k \in Nat /\ (t \div k + 1) * k > t
<1>1. t \div k \in Nat OBVIOUS
<1>2. k \in Int /\ k > 0 /\ t \in Int OBVIOUS
<1>3. (t \div k + 1) * k > t BY <1>2, Z3
<1>4. (t \div k + 1) * k \in Nat BY <1>1
<1> QED BY <1>1, <1>3, <1>4

\* The next slot is later, or there is none.
LEMMA NextAfterFacts ==
  ASSUME NEW s \in Schedules, NEW t \in Nat
  PROVE  next_after(s, t) \in Nat /\ (next_after(s, t) = NoTime \/ next_after(s, t) > t)
<1>1. /\ s.kind \in {"Once", "Rolling", "Calendar"} /\ s.at \in Nat /\ s.step \in Nat
      /\ s.kind # "Once" => s.step >= 1
  BY ScheduleAssumption
<1>2. CASE s.kind = "Once" BY <1>1, <1>2 DEF next_after, NoTime
<1>3. CASE s.kind = "Rolling" BY <1>1, <1>3 DEF next_after
<1>4. CASE s.kind = "Calendar"
  <2>1. s.step \in Nat \ {0} BY <1>1, <1>4
  <2>2. next_after(s, t) = (t \div s.step + 1) * s.step BY <1>4 DEF next_after
  <2> QED BY <2>1, <2>2, DivFacts
<1> QED BY <1>1, <1>2, <1>3, <1>4

\* The scheduler's changes to a record: its slot moves on, and it may be paused.
Moved(new, old, time) ==
  /\ new \in AutoRecord /\ new.sched = old.sched /\ new.mode = old.mode
  /\ new.next = NoTime \/ new.next > time
  /\ new.next = NoTime => new.status = "Paused"
  /\ new.status # "Paused" => new.status = old.status

\* advance_automation_after_slot, and the first slot of a legacy record.
LEMMA MovedFacts ==
  ASSUME NEW rec \in AutoRecord, NEW time \in Nat
  PROVE  Moved(Advanced(rec, time), rec, time) /\ Moved(Initialised(rec, time), rec, time)
<1>1. rec.sched \in Schedules BY DEF AutoRecord
<1>2. /\ next_after(rec.sched, time) \in Nat
      /\ next_after(rec.sched, time) = NoTime \/ next_after(rec.sched, time) > time
  BY <1>1, NextAfterFacts
<1>3. /\ next_after_slot(rec.sched, time) \in Nat
      /\ next_after_slot(rec.sched, time) = NoTime \/ next_after_slot(rec.sched, time) > time
  BY <1>2 DEF next_after_slot, NoTime
<1>4. ASSUME NEW n \in Nat, n = NoTime \/ n > time
      PROVE  Moved([rec EXCEPT !.next = n,
                               !.status = IF n = NoTime THEN "Paused" ELSE @], rec, time)
  BY <1>4 DEF Moved, AutoRecord
<1> QED BY <1>2, <1>3, <1>4 DEF Advanced, Initialised

\* A slot later than all that became tasks has no task.
LEMMA NoTasksYet ==
  ASSUME OriginShape, NEW a, NEW s \in Nat, NEW n \in Nat, Latest(a, s), n > s
  PROVE  Latest(a, n) /\ Count(a, n) = 0
<1>1. ASSUME NEW t \in Tasks, origin[t] = <<a, n>> PROVE FALSE
  <2>1. origin[t] # <<>> BY <1>1
  <2>2. origin[t][1] = a /\ origin[t][2] = n BY <1>1
  <2>3. n <= s BY <2>1, <2>2 DEF Latest
  <2> QED BY <2>3
<1>2. TasksFor(a, n) = {} BY <1>1 DEF TasksFor
<1>3. Count(a, n) = 0 BY <1>2, FS_EmptySet DEF Count
<1>4. Latest(a, n)
  <2> SUFFICES ASSUME NEW t \in Tasks, origin[t] # <<>>, origin[t][1] = a
               PROVE  origin[t][2] <= n
    BY DEF Latest
  <2>1. origin[t][2] \in Nat BY DEF OriginShape, Slots
  <2>2. origin[t][2] <= s BY DEF Latest
  <2> QED BY <2>1, <2>2
<1> QED BY <1>3, <1>4

-----------------------------------------------------------------------------
(* The base invariant.                                                     *)

\* The scheduler changes only records that exist.
AutosMove ==
  /\ auto' = [a \in Autos |-> auto'[a]]
  /\ \A a \in Autos :
       auto'[a] = auto[a] \/ (OnDisk(a) /\ \E time : Moved(auto'[a], auto[a], time))

\* What is enough for a step that is not a user's.
LEMMA BaseStep ==
  ASSUME TInv, UNCHANGED wish, AutosMove, OriginShape',
         now' \in Nat, now' >= now, crashes' \in Nat, faults' \in Nat,
         sch' = [p \in Procs |-> sch'[p]],
         \A p \in Procs : sch'[p] = sch[p] \/ LoopShape(p)'
  PROVE  TInv'
<1>1. \A a \in Autos : auto[a] \in AutoRecord BY DEF TInv, Types
<1>2. \A a \in Autos : auto'[a] \in AutoRecord BY <1>1 DEF AutosMove, Moved
<1>3. Types' BY <1>2 DEF TInv, Types, AutosMove
<1>4. UserChangesKept'
  <2> SUFFICES ASSUME NEW a \in Autos, OnDisk(a)'
               PROVE  /\ auto'[a].sched = wish[a].sched
                      /\ wish[a].status = "Paused" => auto'[a].status = "Paused"
    BY DEF UserChangesKept
  <2>1. CASE auto'[a] = auto[a]
    <3>1. OnDisk(a) BY <2>1 DEF OnDisk
    <3> QED BY <2>1, <3>1 DEF TInv, UserChangesKept
  <2>2. CASE OnDisk(a) /\ \E time : Moved(auto'[a], auto[a], time)
    BY <2>2 DEF TInv, UserChangesKept, Moved
  <2> QED BY <2>1, <2>2 DEF AutosMove
<1>5. ASSUME NEW p \in Procs PROVE LoopShape(p)'
  <2>1. CASE sch'[p] = sch[p]
    <3>1. LoopShape(p) /\ now \in Nat BY DEF TInv, Types
    <3>2. sch[p].now <= now' BY <3>1 DEF LoopShape
    <3>3. \A x \in sch[p].batch : x[2] \in Nat /\ x[2] <= now' BY <3>1 DEF LoopShape, Slots
    <3>4. sch[p].pc = "persist" => sch[p].run.slot <= now' BY <3>1 DEF LoopShape
    <3> QED BY <2>1, <3>1, <3>2, <3>3, <3>4 DEF LoopShape
  <2> QED BY <2>1
<1> QED BY <1>3, <1>4, <1>5 DEF TInv

\* A step that leaves a loop without slots.
Quiet(p) ==
  /\ UNCHANGED <<now, wish, origin, job>>
  /\ crashes' \in Nat /\ faults' \in Nat /\ Failures' >= Failures
  /\ sch[p].pc = "persist" => Failures' >= Failures + 1
  /\ sch' = [q \in Procs |-> sch'[q]] /\ \A q \in Procs \ {p} : sch'[q] = sch[q]
  /\ DOMAIN sch'[p] = LoopFields /\ sch'[p].now \in Nat /\ sch'[p].now <= now
  /\ sch'[p].pc \notin {"enqueue", "persist"} /\ sch'[p].batch = {}

\* Beginning a tick, reconciling, failing and crashing.
LEMMA QuietSteps ==
  ASSUME TInv, NEW p \in Procs,
         \/ BeginTick(p) \/ collect_fails(p) \/ finish_fails(p) \/ collect_pending_runs(p)
         \/ reconcile_lookup(p) \/ delete_quiet_run(p) \/ reconcile_apply(p) \/ EndTick(p)
         \/ Crash(p) \/ Restart(p)
  PROVE  Quiet(p)
<1>1. /\ now \in Nat /\ crashes \in Nat /\ faults \in Nat /\ sch = [q \in Procs |-> sch[q]]
      /\ DOMAIN sch[p] = LoopFields /\ sch[p].now \in Nat /\ sch[p].now <= now
      /\ sch[p].pc \notin {"enqueue", "persist"} => sch[p].batch = {}
  BY DEF TInv, Types, LoopShape
<1>2. ASSUME NEW r, sch' = [sch EXCEPT ![p] = r]
      PROVE  /\ sch' = [q \in Procs |-> sch'[q]] /\ \A q \in Procs \ {p} : sch'[q] = sch[q]
             /\ sch'[p] = r
  BY <1>1, <1>2
<1>3. ASSUME NEW phase, Phase(p, phase)
      PROVE  /\ sch' = [q \in Procs |-> sch'[q]] /\ \A q \in Procs \ {p} : sch'[q] = sch[q]
             /\ DOMAIN sch'[p] = LoopFields /\ sch'[p].now = sch[p].now
             /\ sch'[p].pc = phase /\ sch'[p].batch = sch[p].batch
  <2>1. sch'[p] = [Idle EXCEPT !.pc = phase, !.now = sch[p].now, !.batch = sch[p].batch,
                               !.pending = sch[p].pending]
    BY <1>2, <1>3 DEF Phase
  <2> QED BY <1>2, <1>3, <2>1 DEF Phase, Idle, LoopFields
<1>4. CASE BeginTick(p)
  <2>1. sch' = [sch EXCEPT ![p] = [sch[p] EXCEPT !.pc = "collect", !.now = now]]
    BY <1>4 DEF BeginTick
  <2>2. sch'[p] = [sch[p] EXCEPT !.pc = "collect", !.now = now] BY <1>2, <2>1
  <2>3. DOMAIN sch'[p] = LoopFields /\ sch'[p].now = now /\ sch'[p].pc = "collect"
        /\ sch'[p].batch = sch[p].batch
    BY <1>1, <2>2 DEF LoopFields
  <2>4. sch[p].pc = "idle" /\ UNCHANGED <<now, job, history, crashes, faults>>
    BY <1>4 DEF BeginTick
  <2> QED BY <1>1, <1>2, <2>1, <2>3, <2>4 DEF Quiet, history, Failures
<1>5. CASE collect_fails(p)
  <2>1. faults' = faults + 1 /\ sch[p].pc = "collect" /\ Phase(p, "reconcile")
    BY <1>5 DEF collect_fails, Fault
  <2> QED BY <1>1, <1>3, <1>5, <2>1 DEF collect_fails, Quiet, history, Failures
<1>6. CASE finish_fails(p)
  <2>1. faults' = faults + 1 /\ UNCHANGED <<now, job, history, crashes>>
        /\ sch' = [sch EXCEPT ![p] = [Idle EXCEPT !.pc = "reconcile"]]
    BY <1>6 DEF finish_fails, Fault
  <2>2. sch'[p] = [Idle EXCEPT !.pc = "reconcile"] BY <1>2, <2>1
  <2>3. DOMAIN sch'[p] = LoopFields /\ sch'[p].now = 0 /\ sch'[p].pc = "reconcile"
        /\ sch'[p].batch = {}
    BY <2>2 DEF Idle, LoopFields, NoTime
  <2> QED BY <1>1, <1>2, <2>1, <2>3 DEF Quiet, history, Failures
<1>7. CASE collect_pending_runs(p)
  <2>1. PICK S : sch' = [sch EXCEPT ![p] = [Idle EXCEPT !.pc = "lookup", !.pending = S]]
    BY <1>7 DEF collect_pending_runs
  <2>2. sch'[p] = [Idle EXCEPT !.pc = "lookup", !.pending = S] BY <1>2, <2>1
  <2>3. DOMAIN sch'[p] = LoopFields /\ sch'[p].now = 0 /\ sch'[p].pc = "lookup"
        /\ sch'[p].batch = {}
    BY <2>2 DEF Idle, LoopFields, NoTime
  <2>4. sch[p].pc # "persist" /\ UNCHANGED <<now, job, history, crashes, faults>>
    BY <1>7 DEF collect_pending_runs
  <2> QED BY <1>1, <1>2, <2>1, <2>3, <2>4 DEF Quiet, history, Failures
<1>8. CASE reconcile_lookup(p)
  <2>1. PICK x : sch' = [sch EXCEPT ![p].pc = "apply", ![p].id = x[1], ![p].run = x[2],
                                    ![p].pending = @ \ {x}, ![p].seen = job[x[2].job]]
    BY <1>8 DEF reconcile_lookup
  <2>2. sch' = [sch EXCEPT ![p] = [sch[p] EXCEPT !.pc = "apply", !.id = x[1], !.run = x[2],
                                   !.pending = @ \ {x}, !.seen = job[x[2].job]]]
    BY <2>1
  <2>3. sch'[p] = [sch[p] EXCEPT !.pc = "apply", !.id = x[1], !.run = x[2],
                                   !.pending = @ \ {x}, !.seen = job[x[2].job]]
    BY <1>2, <2>2
  <2>4. DOMAIN sch'[p] = LoopFields /\ sch'[p].now = sch[p].now /\ sch'[p].pc = "apply"
        /\ sch'[p].batch = sch[p].batch
    BY <1>1, <2>3 DEF LoopFields
  <2>5. sch[p].pc = "lookup" /\ UNCHANGED <<now, job, history, crashes, faults>>
    BY <1>8 DEF reconcile_lookup
  <2> QED BY <1>1, <1>2, <2>2, <2>4, <2>5 DEF Quiet, history, Failures
<1>9. CASE delete_quiet_run(p) \/ reconcile_apply(p)
  <2>1. /\ Phase(p, "lookup") /\ sch[p].pc = "apply"
        /\ UNCHANGED <<now, job, history, crashes, faults>>
    BY <1>9 DEF delete_quiet_run, reconcile_apply
  <2> QED BY <1>1, <1>3, <2>1 DEF Quiet, history, Failures
<1>10. CASE EndTick(p) \/ Restart(p)
  <2>1. /\ sch' = [sch EXCEPT ![p] = Idle] /\ sch[p].pc \in {"lookup", "down"}
        /\ UNCHANGED <<now, job, history, crashes, faults>>
    BY <1>10 DEF EndTick, Restart
  <2>2. DOMAIN Idle = LoopFields /\ Idle.now = 0 /\ Idle.pc = "idle" /\ Idle.batch = {}
    BY DEF Idle, LoopFields, NoTime
  <2> QED BY <1>1, <1>2, <2>1, <2>2 DEF Quiet, history, Failures
<1>11. CASE Crash(p)
  <2>1. /\ sch' = [sch EXCEPT ![p] = Down] /\ crashes' = crashes + 1
        /\ UNCHANGED <<now, job, history, faults>>
    BY <1>11 DEF Crash
  <2>2. DOMAIN Down = LoopFields /\ Down.now = 0 /\ Down.pc = "down" /\ Down.batch = {}
    BY DEF Down, Idle, LoopFields, NoTime
  <2> QED BY <1>1, <1>2, <2>1, <2>2 DEF Quiet, history, Failures
<1> QED BY <1>4, <1>5, <1>6, <1>7, <1>8, <1>9, <1>10, <1>11

\* collect_due_runs on one record.
LEMMA SweptFacts ==
  ASSUME TInv, NEW a \in Autos, NEW time \in Nat, NEW seen
  PROVE  \/ Swept(a, time, seen) = auto[a]
         \/ /\ auto[a].status = "Active" /\ OnDisk(a)
            /\ auto[a].next \in Nat
            /\ Moved(Swept(a, time, seen), auto[a], auto[a].next)
<1>1. auto[a] \in AutoRecord /\ auto[a].next \in Nat BY DEF TInv, Types, AutoRecord
<1>2. /\ Moved(Advanced(auto[a], auto[a].next), auto[a], auto[a].next)
      /\ Moved(Initialised(auto[a], time), auto[a], time)
  BY <1>1, MovedFacts
<1>3. CASE auto[a].status = "Active" /\ auto[a].next = NoTime
  <2>1. Swept(a, time, seen) = Initialised(auto[a], time) BY <1>3 DEF Swept
  <2>2. Initialised(auto[a], time).next \in Nat BY <1>2 DEF Moved, AutoRecord
  <2>3. Moved(Initialised(auto[a], time), auto[a], auto[a].next)
    BY <1>2, <1>3, <2>2 DEF Moved, NoTime
  <2> QED BY <1>1, <1>3, <2>1, <2>3 DEF OnDisk
<1>4. CASE ~(auto[a].status = "Active" /\ auto[a].next = NoTime)
  BY <1>1, <1>2, <1>4 DEF Swept, Due, OnDisk
<1> QED BY <1>3, <1>4

\* A task that is accepted was not known; no other is forgotten.
LEMMA AcceptFacts ==
  ASSUME OriginShape, NEW t \in Tasks, Jobs!Accept(t)
  PROVE  /\ job[t] = "Absent" /\ origin[t] = <<>>
         /\ job' = [u \in Tasks |-> job'[u]] /\ job'[t] = "Queued"
         /\ \A u \in Tasks \ {t} : job'[u] = job[u]
BY DEF OriginShape, Jobs!Accept, Jobs!Become

\* The task manager goes on with its jobs, or takes one that a call starts by hand.
LEMMA JobsStep ==
  ASSUME OriginShape, UNCHANGED origin,
         (\E t \in Tasks : JobProgress(t) \/ Jobs!Accept(t)) \/ UNCHANGED job
  PROVE  OriginShape'
<1>1. CASE UNCHANGED job BY <1>1 DEF OriginShape
<1>2. ASSUME NEW t \in Tasks, Jobs!Accept(t) PROVE OriginShape'
  BY <1>2, AcceptFacts DEF OriginShape
<1>3. ASSUME NEW t \in Tasks, JobProgress(t) PROVE OriginShape'
  <2>1. PICK s \in {"Running", "Completed", "Failed", "Canceled"} :
          UNCHANGED job \/ job' = [job EXCEPT ![t] = s]
    BY <1>3, OutcomeAssumption
       DEF JobProgress, Jobs!Start, Jobs!Execute, Jobs!Finish, Jobs!Become
  <2>2. CASE job' = [job EXCEPT ![t] = s]
    BY <2>2 DEF OriginShape
  <2> QED BY <1>1, <2>1, <2>2
<1> QED BY <1>1, <1>2, <1>3

\* An automation that is saved for a user.
Saved(a) ==
  /\ auto' = [b \in Autos |-> auto'[b]] /\ wish' = [b \in Autos |-> wish'[b]]
  /\ \A b \in Autos \ {a} : auto'[b] = auto[b] /\ wish'[b] = wish[b]
  /\ auto'[a] \in AutoRecord /\ wish'[a] \in WishRecord
  /\ auto'[a].status \in {"Active", "Paused"}
  /\ wish'[a].status = auto'[a].status /\ wish'[a].sched = auto'[a].sched
  /\ \/ auto'[a].next > now
     \/ auto'[a].next = NoTime /\ auto'[a].status = "Paused"
     \/ auto'[a].next = auto[a].next /\ auto[a].status = "Paused" /\ auto'[a].status = "Paused"
  /\ UNCHANGED <<now, sch, job, origin, crashes, faults>>

\* Users set a slot in the future, or none.
LEMMA UserFacts ==
  ASSUME TInv, NEW a \in Autos,
         \/ \E s \in Schedules : create_automation(a, s) \/ update_rrule(a, s)
         \/ pause_automation(a) \/ resume_automation(a)
  PROVE  Saved(a)
<1>1. /\ now \in Nat /\ auto \in [Autos -> AutoRecord] /\ wish \in [Autos -> WishRecord]
      /\ auto[a].sched \in Schedules /\ auto[a].next \in Nat /\ auto[a].mode \in Modes
  BY DEF TInv, Types, AutoRecord
<1> DEFINE Settable(status, next) ==
      \/ next > now
      \/ next = NoTime /\ status = "Paused"
      \/ next = auto[a].next /\ auto[a].status = "Paused" /\ status = "Paused"
<1>2. ASSUME NEW status \in {"Active", "Paused"}, NEW s \in Schedules, NEW next \in Nat,
             SaveFor(a, status, s, next), Settable(status, next)
      PROVE  Saved(a)
  <2>1. auto' = [auto EXCEPT ![a] = Automation(status, s, next, auto[a].mode)]
    BY <1>2 DEF SaveFor
  <2>2. wish' = [wish EXCEPT ![a] = [status |-> status, sched |-> s, next |-> next]]
    BY <1>2 DEF SaveFor
  <2>3. /\ auto' = [b \in Autos |-> auto'[b]] /\ \A b \in Autos \ {a} : auto'[b] = auto[b]
        /\ auto'[a] = Automation(status, s, next, auto[a].mode)
    BY <1>1, <2>1
  <2>4. /\ wish' = [b \in Autos |-> wish'[b]] /\ \A b \in Autos \ {a} : wish'[b] = wish[b]
        /\ wish'[a] = [status |-> status, sched |-> s, next |-> next]
    BY <1>1, <2>2
  <2>5. /\ auto'[a] \in AutoRecord /\ auto'[a].status = status /\ auto'[a].sched = s
        /\ auto'[a].next = next
    BY <1>1, <2>3 DEF Automation, AutoRecord
  <2>6. wish'[a] \in WishRecord /\ wish'[a].status = status /\ wish'[a].sched = s
    BY <2>4 DEF WishRecord
  <2>7. UNCHANGED <<now, sch, job, origin, crashes, faults>> BY <1>2 DEF SaveFor
  <2> QED BY <1>2, <2>3, <2>4, <2>5, <2>6, <2>7 DEF Saved
<1>3. \A n \in Nat : n > now => Settable("Active", n) OBVIOUS
<1>4. Settable("Paused", NoTime) OBVIOUS
<1>5. auto[a].status = "Paused" => Settable("Paused", auto[a].next) OBVIOUS
<1> HIDE DEF Settable
<1>6. \A s \in Schedules : /\ next_after(s, now) \in Nat
                           /\ next_after(s, now) # NoTime => next_after(s, now) > now
  BY <1>1, NextAfterFacts
<1>7. ASSUME NEW s \in Schedules, create_automation(a, s) PROVE Saved(a)
  <2>1. PICK n \in Nat : n = next_after(s, now) BY <1>6
  <2>2. n > now /\ SaveFor(a, "Active", s, n) BY <1>6, <1>7, <2>1 DEF create_automation
  <2> QED BY <1>2, <1>3, <2>2
<1>8. ASSUME NEW s \in Schedules, update_rrule(a, s) PROVE Saved(a)
  <2>1. CASE auto[a].status = "Active"
    <3>1. PICK n \in Nat : n = next_after(s, now) BY <1>6
    <3>2. n > now /\ SaveFor(a, "Active", s, n) BY <1>6, <1>8, <2>1, <3>1 DEF update_rrule
    <3> QED BY <1>2, <1>3, <3>2
  <2>2. CASE auto[a].status = "Paused"
    BY <1>1, <1>2, <1>5, <1>8, <2>2 DEF update_rrule
  <2> QED BY <1>8, <2>1, <2>2 DEF update_rrule, OnDisk
<1>9. CASE pause_automation(a)
  BY <1>1, <1>2, <1>4, <1>9 DEF pause_automation, NoTime
<1>10. CASE resume_automation(a)
  <2>1. PICK s \in Schedules : s = auto[a].sched BY <1>1
  <2>2. PICK n \in Nat : n = next_after(s, now) BY <1>6
  <2>3. n > now /\ SaveFor(a, "Active", s, n)
    BY <1>6, <1>10, <2>1, <2>2 DEF resume_automation
  <2> QED BY <1>2, <1>3, <2>3
<1> QED BY <1>7, <1>8, <1>9, <1>10

\* A user's call keeps the base.
LEMMA SavedBase ==
  ASSUME TInv, NEW a \in Autos, Saved(a)
  PROVE  TInv'
<1>1. Types'
  <2>1. \A b \in Autos : auto'[b] \in AutoRecord /\ wish'[b] \in WishRecord
    BY DEF Saved, TInv, Types
  <2> QED BY <2>1 DEF Saved, TInv, Types
<1>2. UserChangesKept' BY DEF Saved, TInv, UserChangesKept, OnDisk
<1>3. OriginShape' BY DEF Saved, TInv, OriginShape
<1>4. \A p \in Procs : LoopShape(p)' BY DEF Saved, TInv, LoopShape
<1> QED BY <1>1, <1>2, <1>3, <1>4 DEF TInv

-----------------------------------------------------------------------------
(* The phases that carry slots.                                            *)

\* Only the loop p moves; its time is as it was.
Moves(p) ==
  /\ sch' = [q \in Procs |-> sch'[q]] /\ \A q \in Procs \ {p} : sch'[q] = sch[q]
  /\ DOMAIN sch'[p] = LoopFields /\ sch'[p].now = sch[p].now

\* collect_due_runs: the due slots that no run is known for.
Collects(p, seen) ==
  /\ Moves(p) /\ sch[p].pc = "collect" /\ sch'[p].pc = "enqueue"
  /\ sch'[p].batch = {<<a, auto[a].next>> : a \in {b \in Autos : Due(b, sch[p].now) /\ ~seen[b]}}
  /\ auto' = [a \in Autos |-> Swept(a, sch[p].now, seen[a])]
  /\ UNCHANGED <<now, wish, origin, job, crashes, faults>>

\* What a sweep of the records does.
LEMMA CollectFacts ==
  ASSUME TInv, NEW p \in Procs, collect_due_runs(p)
  PROVE  \E seen \in [Autos -> BOOLEAN] : Collects(p, seen)
<1>1. PICK seen \in Lookups(sch[p].now) :
        /\ auto' = [a \in Autos |-> Swept(a, sch[p].now, seen[a])]
        /\ sch' = [sch EXCEPT ![p].pc = "enqueue",
             ![p].batch = {<<a, auto[a].next>> :
                             a \in {b \in Autos : Due(b, sch[p].now) /\ ~seen[b]}}]
  BY DEF collect_due_runs
<1>2. seen \in [Autos -> BOOLEAN] BY DEF Lookups
<1>3. sch = [q \in Procs |-> sch[q]] /\ DOMAIN sch[p] = LoopFields
  BY DEF TInv, Types, LoopShape
<1> DEFINE B == {<<a, auto[a].next>> : a \in {b \in Autos : Due(b, sch[p].now) /\ ~seen[b]}}
<1>4. sch' = [sch EXCEPT ![p] = [sch[p] EXCEPT !.pc = "enqueue", !.batch = B]] BY <1>1
<1> HIDE DEF B
<1>5. /\ sch' = [q \in Procs |-> sch'[q]] /\ \A q \in Procs \ {p} : sch'[q] = sch[q]
      /\ sch'[p] = [sch[p] EXCEPT !.pc = "enqueue", !.batch = B]
  BY <1>3, <1>4
<1>6. Moves(p) /\ sch'[p].pc = "enqueue" /\ sch'[p].batch = B
  BY <1>3, <1>5 DEF Moves, LoopFields
<1>7. sch[p].pc = "collect" /\ UNCHANGED <<now, wish, origin, job, crashes, faults>>
  BY DEF collect_due_runs, history
<1> QED BY <1>1, <1>2, <1>6, <1>7 DEF Collects, B

\* enqueue_run: a slot of the batch becomes a task, or add_task fails.
Enqueues(p, item) ==
  /\ Moves(p) /\ sch[p].pc = "enqueue" /\ sch'[p].pc = "persist"
  /\ sch'[p].run.auto = item[1] /\ sch'[p].run.slot = item[2]
  /\ sch'[p].batch = sch[p].batch \ {item}
  /\ \/ UNCHANGED <<origin, job>>
     \/ \E t \in Tasks : Jobs!Accept(t) /\ origin' = [origin EXCEPT ![t] = item]
  /\ UNCHANGED <<now, auto, wish, crashes, faults>>

\* What an enqueue does.
LEMMA EnqueueFacts ==
  ASSUME TInv, NEW p \in Procs, enqueue_run(p)
  PROVE  \E item \in sch[p].batch : Enqueues(p, item)
<1>1. PICK item \in sch[p].batch : \E run \in Enqueue(item[1], item[2], sch[p].now) :
        /\ Enqueued(run)
        /\ sch' = [sch EXCEPT ![p].pc = "persist", ![p].id = nextRun, ![p].run = run,
                              ![p].batch = @ \ {item}]
  BY DEF enqueue_run
<1>2. PICK run \in Enqueue(item[1], item[2], sch[p].now) :
        /\ Enqueued(run)
        /\ sch' = [sch EXCEPT ![p].pc = "persist", ![p].id = nextRun, ![p].run = run,
                              ![p].batch = @ \ {item}]
  BY <1>1
<1>3. sch = [q \in Procs |-> sch[q]] /\ DOMAIN sch[p] = LoopFields /\ sch[p].batch \subseteq Slots
  BY DEF TInv, Types, LoopShape
<1>4. sch' = [sch EXCEPT ![p] = [sch[p] EXCEPT !.pc = "persist", !.id = nextRun, !.run = run,
                                               !.batch = @ \ {item}]]
  BY <1>2
<1>5. /\ sch' = [q \in Procs |-> sch'[q]] /\ \A q \in Procs \ {p} : sch'[q] = sch[q]
      /\ sch'[p] = [sch[p] EXCEPT !.pc = "persist", !.id = nextRun, !.run = run,
                                  !.batch = @ \ {item}]
  BY <1>3, <1>4
<1>6. /\ Moves(p) /\ sch'[p].pc = "persist" /\ sch'[p].run = run
      /\ sch'[p].batch = sch[p].batch \ {item}
  BY <1>3, <1>5 DEF Moves, LoopFields
<1>7. /\ run.auto = item[1] /\ run.slot = item[2]
      /\ run.job = NoTask \/ (run.job \in Tasks /\ job[run.job] = "Absent")
  <2>1. \A t \in FreshTask : t \in Tasks /\ job[t] = "Absent" BY DEF FreshTask
  <2> QED BY <2>1 DEF Enqueue, Run
<1>8. item = <<item[1], item[2]>> BY <1>3 DEF Slots
<1>9. \/ UNCHANGED <<origin, job>>
      \/ \E t \in Tasks : Jobs!Accept(t) /\ origin' = [origin EXCEPT ![t] = item]
  BY <1>2, <1>7, <1>8 DEF Enqueued
<1>10. sch[p].pc = "enqueue" /\ UNCHANGED <<now, auto, wish, crashes, faults>>
  BY DEF enqueue_run, files
<1> QED BY <1>2, <1>6, <1>7, <1>9, <1>10 DEF Enqueues

\* finish_scheduled_run: the record moves on if it still exists.
Finishes(p) ==
  /\ Moves(p) /\ sch[p].pc = "persist" /\ sch'[p].pc = "enqueue"
  /\ sch'[p].batch = sch[p].batch
  /\ LET a == sch[p].run.auto IN
     /\ auto' = [b \in Autos |-> auto'[b]] /\ \A b \in Autos \ {a} : auto'[b] = auto[b]
     /\ auto'[a] = IF OnDisk(a) THEN Advanced(auto[a], sch[p].run.slot) ELSE auto[a]
  /\ UNCHANGED <<now, wish, origin, job, crashes, faults>>

\* What saving the run and advancing the record does.
LEMMA FinishFacts ==
  ASSUME TInv, NEW p \in Procs, finish_scheduled_run(p)
  PROVE  Finishes(p)
<1>1. /\ sch = [q \in Procs |-> sch[q]] /\ DOMAIN sch[p] = LoopFields
      /\ auto \in [Autos -> AutoRecord]
  BY DEF TInv, Types, LoopShape
<1>2. sch[p].pc = "persist" /\ Phase(p, "enqueue")
      /\ UNCHANGED <<now, wish, origin, job, crashes, faults>>
  BY DEF finish_scheduled_run, history
<1>3. sch' = [sch EXCEPT ![p] = [Idle EXCEPT !.pc = "enqueue", !.now = sch[p].now,
                                   !.batch = sch[p].batch, !.pending = sch[p].pending]]
  BY <1>2 DEF Phase
<1>4. /\ sch' = [q \in Procs |-> sch'[q]] /\ \A q \in Procs \ {p} : sch'[q] = sch[q]
      /\ sch'[p] = [Idle EXCEPT !.pc = "enqueue", !.now = sch[p].now,
                                !.batch = sch[p].batch, !.pending = sch[p].pending]
  BY <1>1, <1>3
<1>5. Moves(p) /\ sch'[p].pc = "enqueue" /\ sch'[p].batch = sch[p].batch
  BY <1>4 DEF Moves, LoopFields, Idle
<1>6. sch[p].run.auto \in Autos BY <1>2 DEF TInv, LoopShape
<1> DEFINE a == sch[p].run.auto
<1>7. auto' = IF OnDisk(a) THEN [auto EXCEPT ![a] = Advanced(auto[a], sch[p].run.slot)] ELSE auto
  BY DEF finish_scheduled_run
<1>8. /\ auto' = [b \in Autos |-> auto'[b]] /\ \A b \in Autos \ {a} : auto'[b] = auto[b]
      /\ auto'[a] = IF OnDisk(a) THEN Advanced(auto[a], sch[p].run.slot) ELSE auto[a]
  BY <1>1, <1>6, <1>7
<1> QED BY <1>2, <1>5, <1>8 DEF Finishes

\* An automation is deleted: its record is gone and stays as it was in memory.
LEMMA DeleteFacts ==
  ASSUME TInv, NEW a \in Autos, delete_automation(a)
  PROVE  /\ auto' \in [Autos -> AutoRecord] /\ auto'[a].status = "Deleted"
         /\ \A b \in Autos \ {a} : auto'[b] = auto[b]
         /\ UNCHANGED <<now, wish, sch, job, origin, crashes, faults>>
<1>1. auto \in [Autos -> AutoRecord] BY DEF TInv, Types
<1>2. auto' = [auto EXCEPT ![a].status = "Deleted"]
      /\ UNCHANGED <<now, wish, sch, job, origin, crashes, faults>>
  BY DEF delete_automation, history
<1>3. /\ \A b \in Autos \ {a} : auto'[b] = auto[b]
      /\ auto'[a] = [auto[a] EXCEPT !.status = "Deleted"]
  BY <1>1, <1>2
<1>4. auto'[a] \in AutoRecord /\ auto'[a].status = "Deleted" BY <1>1, <1>3 DEF AutoRecord
<1>5. auto' \in [Autos -> AutoRecord] BY <1>1, <1>2, <1>3, <1>4
<1> QED BY <1>2, <1>3, <1>4, <1>5

\* The phases that carry slots keep the base.
LEMMA CarryBase ==
  ASSUME TInv, NEW p \in Procs,
         collect_due_runs(p) \/ enqueue_run(p) \/ finish_scheduled_run(p)
  PROVE  TInv'
<1>1. /\ now \in Nat /\ crashes \in Nat /\ faults \in Nat /\ LoopShape(p) /\ OriginShape
      /\ auto \in [Autos -> AutoRecord] /\ \A a \in Autos : auto[a] \in AutoRecord
  BY DEF TInv, Types
<1>2. CASE collect_due_runs(p)
  <2>1. PICK seen \in [Autos -> BOOLEAN] : Collects(p, seen) BY <1>2, CollectFacts
  <2>2. AutosMove
    <3>1. sch[p].now \in Nat BY <1>1 DEF LoopShape
    <3>2. \A a \in Autos : auto'[a] = Swept(a, sch[p].now, seen[a]) BY <2>1 DEF Collects
    <3> QED BY <2>1, <3>1, <3>2, SweptFacts DEF AutosMove, Collects
  <2>3. LoopShape(p)'
    <3>1. ASSUME NEW x \in sch'[p].batch
          PROVE  x \in Slots /\ x[2] <= now /\ x = <<x[1], auto[x[1]].next>>
      <4>1. PICK a \in Autos : x = <<a, auto[a].next>> /\ Due(a, sch[p].now)
        BY <2>1, <3>1 DEF Collects
      <4>2. auto[a].next \in Nat /\ auto[a].next # 0 /\ auto[a].next <= sch[p].now
        BY <1>1, <4>1 DEF Due, NoTime, AutoRecord
      <4>3. sch[p].now \in Nat /\ sch[p].now <= now BY <1>1 DEF LoopShape
      <4> QED BY <1>1, <4>1, <4>2, <4>3 DEF Slots
    <3>2. DOMAIN sch'[p] = LoopFields /\ sch'[p].now \in Nat /\ sch'[p].now <= now
          /\ sch'[p].pc = "enqueue"
      BY <1>1, <2>1 DEF Collects, Moves, LoopShape
    <3>3. \A x, y \in sch'[p].batch : x[1] = y[1] => x = y BY <3>1
    <3> QED BY <2>1, <3>1, <3>2, <3>3 DEF LoopShape, Collects
  <2>4. OriginShape' BY <1>1, <2>1 DEF Collects, OriginShape
  <2> QED BY <1>1, <2>1, <2>2, <2>3, <2>4, BaseStep DEF Collects, Moves
<1>3. CASE enqueue_run(p)
  <2>1. PICK item \in sch[p].batch : Enqueues(p, item) BY <1>3, EnqueueFacts
  <2>2. item \in Slots BY <1>1 DEF LoopShape
  <2>3. OriginShape'
    <3>1. CASE UNCHANGED <<origin, job>> BY <1>1, <3>1 DEF OriginShape
    <3>2. ASSUME NEW t \in Tasks, Jobs!Accept(t), origin' = [origin EXCEPT ![t] = item]
          PROVE  OriginShape'
      <4>1. /\ job' = [u \in Tasks |-> job'[u]] /\ job'[t] = "Queued"
            /\ \A u \in Tasks \ {t} : job'[u] = job[u]
        BY <1>1, <3>2, AcceptFacts
      <4>2. origin' \in [Tasks -> Slots \cup {<<>>}] BY <1>1, <2>2, <3>2 DEF OriginShape
      <4>3. \A u \in Tasks \ {t} : origin'[u] = origin[u] BY <1>1, <3>2 DEF OriginShape
      <4> QED BY <1>1, <4>1, <4>2, <4>3 DEF OriginShape
    <3> QED BY <2>1, <3>1, <3>2 DEF Enqueues
  <2>4. LoopShape(p)'
    <3>1. DOMAIN sch'[p] = LoopFields /\ sch'[p].now \in Nat /\ sch'[p].now <= now
          /\ sch'[p].pc = "persist" /\ now' = now
      BY <1>1, <2>1 DEF Enqueues, Moves, LoopShape
    <3>2. sch'[p].batch = sch[p].batch \ {item} /\ sch'[p].run.auto = item[1]
          /\ sch'[p].run.slot = item[2]
      BY <2>1 DEF Enqueues
    <3>3. item[1] \in Autos /\ item[2] \in Nat \ {0} /\ item[2] <= now
      BY <1>1, <2>2 DEF Slots, LoopShape
    <3>4. \A x \in sch'[p].batch : x[1] # item[1] BY <1>1, <3>2 DEF LoopShape
    <3> QED BY <1>1, <3>1, <3>2, <3>3, <3>4 DEF LoopShape
  <2>5. AutosMove BY <1>1, <2>1 DEF Enqueues, AutosMove
  <2> QED BY <1>1, <2>1, <2>3, <2>4, <2>5, BaseStep DEF Enqueues, Moves
<1>4. CASE finish_scheduled_run(p)
  <2>1. Finishes(p) BY <1>4, FinishFacts
  <2>2. sch[p].run.auto \in Autos /\ sch[p].run.slot \in Nat
    BY <1>1, <2>1 DEF LoopShape, Finishes
  <2>3. AutosMove BY <1>1, <2>1, <2>2, MovedFacts DEF Finishes, AutosMove
  <2>4. LoopShape(p)' BY <1>1, <2>1 DEF Finishes, Moves, LoopShape
  <2>5. OriginShape' BY <1>1, <2>1 DEF Finishes, OriginShape
  <2> QED BY <1>1, <2>1, <2>3, <2>4, <2>5, BaseStep DEF Finishes, Moves
<1> QED BY <1>2, <1>3, <1>4

\* A phase that leaves the loop without slots keeps the base.
LEMMA QuietBase ==
  ASSUME TInv, NEW p \in Procs,
         \/ BeginTick(p) \/ collect_fails(p) \/ finish_fails(p) \/ collect_pending_runs(p)
         \/ reconcile_lookup(p) \/ delete_quiet_run(p) \/ reconcile_apply(p) \/ EndTick(p)
         \/ Crash(p) \/ Restart(p)
  PROVE  TInv'
<1>1. Quiet(p) BY QuietSteps
<1>2. /\ now \in Nat /\ OriginShape /\ LoopShape(p) /\ auto \in [Autos -> AutoRecord]
  BY DEF TInv, Types
<1>3. OriginShape' BY <1>1, <1>2 DEF Quiet, OriginShape
<1>4. LoopShape(p)' BY <1>1, <1>2 DEF Quiet, LoopShape
<1>5. AutosMove
  <2>1. CASE UNCHANGED auto BY <1>2, <2>1 DEF AutosMove
  <2>2. CASE collect_fails(p)
    <3>1. PICK saved \in SUBSET Autos, seen \in Lookups(sch[p].now) :
            auto' = [a \in Autos |-> IF a \in saved THEN Swept(a, sch[p].now, seen[a])
                                     ELSE auto[a]]
      BY <2>2 DEF collect_fails
    <3>2. sch[p].now \in Nat BY <1>2 DEF LoopShape
    <3>3. \A a \in Autos : auto'[a] = auto[a] \/ auto'[a] = Swept(a, sch[p].now, seen[a])
      BY <3>1
    <3> QED BY <3>1, <3>2, <3>3, SweptFacts DEF AutosMove
  <2>3. UNCHANGED auto \/ collect_fails(p)
    BY DEF BeginTick, finish_fails, collect_pending_runs, reconcile_lookup, delete_quiet_run,
           reconcile_apply, EndTick, Crash, Restart, files
  <2> QED BY <2>1, <2>2, <2>3
<1> QED BY <1>1, <1>2, <1>3, <1>4, <1>5, BaseStep DEF Quiet

\* What neither the scheduler nor a user's change to a record does.
Elsewhere ==
  \/ Clock \/ (\E c \in Callers : CallStep(c)) \/ (\E t \in Tasks : JobProgress(t))
  \/ (\E c \in Callers, a \in Autos : run_now_read(c, a))

\* Everybody else leaves records, loops and origins alone.
LEMMA ElsewhereFacts ==
  ASSUME TInv, Elsewhere \/ UNCHANGED vars
  PROVE  /\ UNCHANGED <<auto, wish, sch, origin, crashes, faults>> /\ now' \in Nat /\ now' >= now
         /\ OriginShape'
<1>1. now \in Nat /\ OriginShape BY DEF TInv, Types
<1>2. CASE Clock
  <2>1. now' = now + 1 /\ UNCHANGED <<auto, wish, sch, origin, job, crashes, faults>>
    BY <1>2 DEF Clock, files, history
  <2> QED BY <1>1, <2>1 DEF OriginShape
<1>3. ASSUME NEW c \in Callers, NEW a \in Autos, run_now_read(c, a)
      PROVE  UNCHANGED <<now, auto, wish, sch, origin, job, crashes, faults>>
  BY <1>3 DEF run_now_read, files, history
<1>4. ASSUME NEW c \in Callers, run_now_persist(c)
      PROVE  UNCHANGED <<now, auto, wish, sch, origin, job, crashes, faults>>
  BY <1>4 DEF run_now_persist, history
<1>5. ASSUME NEW c \in Callers, run_now_enqueue(c)
      PROVE  /\ UNCHANGED <<now, auto, wish, sch, origin, crashes, faults>>
             /\ UNCHANGED job \/ \E t \in Tasks : Jobs!Accept(t)
  <2>1. PICK run \in Enqueue(call[c].run.auto, NoTime, call[c].run.created) :
          IF run.job = NoTask THEN UNCHANGED <<job, begun>> ELSE Jobs!Accept(run.job)
    BY <1>5 DEF run_now_enqueue
  <2>2. run.job = NoTask \/ run.job \in Tasks BY DEF Enqueue, FreshTask, Run
  <2>3. UNCHANGED <<now, auto, wish, sch, origin, crashes, faults>>
    BY <1>5 DEF run_now_enqueue, files, history
  <2> QED BY <2>1, <2>2, <2>3
<1>6. ASSUME NEW t \in Tasks, JobProgress(t)
      PROVE  UNCHANGED <<now, auto, wish, sch, origin, crashes, faults>>
  BY <1>6 DEF JobProgress, files, history
<1>7. CASE UNCHANGED vars BY <1>1, <1>7, JobsStep DEF vars, files, history
<1> QED BY <1>1, <1>2, <1>3, <1>4, <1>5, <1>6, <1>7, JobsStep DEF Elsewhere, CallStep

\* The steps of Next, by what they do to automations and slots.
LEMMA StepCases ==
  ASSUME [Next]_vars
  PROVE  \/ Elsewhere \/ UNCHANGED vars
         \/ \E a \in Autos :
              \/ \E s \in Schedules : create_automation(a, s) \/ update_rrule(a, s)
              \/ pause_automation(a) \/ resume_automation(a)
         \/ \E a \in Autos : delete_automation(a)
         \/ \E p \in Procs : collect_due_runs(p) \/ enqueue_run(p) \/ finish_scheduled_run(p)
         \/ \E p \in Procs :
              \/ BeginTick(p) \/ collect_fails(p) \/ finish_fails(p) \/ collect_pending_runs(p)
              \/ reconcile_lookup(p) \/ delete_quiet_run(p) \/ reconcile_apply(p) \/ EndTick(p)
              \/ Crash(p) \/ Restart(p)
BY DEF Next, Elsewhere, UserStep, SchedulerStep

\* Every step keeps the base.
LEMMA NextBase == TInv /\ [Next]_vars => TInv'
<1> SUFFICES ASSUME TInv, [Next]_vars PROVE TInv' OBVIOUS
<1>1. CASE Elsewhere \/ UNCHANGED vars
  <2>1. /\ UNCHANGED <<auto, wish, sch, origin, crashes, faults>>
        /\ now' \in Nat /\ now' >= now /\ OriginShape'
    BY <1>1, ElsewhereFacts
  <2>2. /\ auto \in [Autos -> AutoRecord] /\ crashes \in Nat /\ faults \in Nat
        /\ sch = [p \in Procs |-> sch[p]]
    BY DEF TInv, Types
  <2>3. AutosMove BY <2>1, <2>2 DEF AutosMove
  <2> QED BY <2>1, <2>2, <2>3, BaseStep
<1>2. ASSUME NEW a \in Autos,
             \/ \E s \in Schedules : create_automation(a, s) \/ update_rrule(a, s)
             \/ pause_automation(a) \/ resume_automation(a)
      PROVE  TInv'
  <2>1. Saved(a) BY <1>2, UserFacts
  <2> QED BY <2>1, SavedBase
<1>3. ASSUME NEW a \in Autos, delete_automation(a) PROVE TInv'
  <2>1. /\ auto' \in [Autos -> AutoRecord] /\ auto'[a].status = "Deleted"
        /\ \A b \in Autos \ {a} : auto'[b] = auto[b]
        /\ UNCHANGED <<now, wish, sch, job, origin, crashes, faults>>
    BY <1>3, DeleteFacts
  <2>2. UserChangesKept' BY <2>1 DEF TInv, UserChangesKept, OnDisk
  <2>3. Types' BY <2>1 DEF TInv, Types
  <2>4. OriginShape' BY <2>1 DEF TInv, OriginShape
  <2>5. \A p \in Procs : LoopShape(p)' BY <2>1 DEF TInv, LoopShape
  <2> QED BY <2>2, <2>3, <2>4, <2>5 DEF TInv
<1>4. ASSUME NEW p \in Procs,
             collect_due_runs(p) \/ enqueue_run(p) \/ finish_scheduled_run(p)
      PROVE  TInv'
  BY <1>4, CarryBase
<1>5. ASSUME NEW p \in Procs,
             \/ BeginTick(p) \/ collect_fails(p) \/ finish_fails(p) \/ collect_pending_runs(p)
             \/ reconcile_lookup(p) \/ delete_quiet_run(p) \/ reconcile_apply(p) \/ EndTick(p)
             \/ Crash(p) \/ Restart(p)
      PROVE  TInv'
  BY <1>5, QuietBase
<1> QED BY <1>1, <1>2, <1>3, <1>4, <1>5, StepCases

\* Nothing but legacy records is on disk at first.
LEMMA InitFacts ==
  ASSUME Init
  PROVE  /\ TInv
         /\ \A p \in Procs : sch[p].batch = {} /\ sch[p].pc = "idle"
         /\ \A a \in Autos : auto[a].next = NoTime
         /\ \A t \in Tasks : origin[t] = <<>>
         /\ crashes = 0 /\ faults = 0
<1>1. PICK s \in Schedules, m \in Modes, old \in SUBSET Legacy :
        /\ auto = [a \in Autos |-> Automation(IF a \in old THEN "Active" ELSE "Unused",
                                              s, NoTime, m)]
        /\ wish = [a \in Autos |-> [status |-> "Unused", sched |-> s, next |-> NoTime]]
  BY DEF Init
<1>2. ASSUME NEW a \in Autos
      PROVE  /\ auto[a] \in AutoRecord /\ auto[a].next = NoTime /\ wish[a] \in WishRecord
             /\ auto[a].sched = wish[a].sched /\ wish[a].status # "Paused"
  <2>1. 0 \in Nat OBVIOUS
  <2> QED BY <1>1, <2>1 DEF Automation, AutoRecord, WishRecord, NoTime
<1>3. auto \in [Autos -> AutoRecord] /\ wish \in [Autos -> WishRecord] BY <1>1, <1>2
<1>4. /\ now = 1 /\ crashes = 0 /\ faults = 0 /\ sch = [p \in Procs |-> Idle]
      /\ origin = [t \in Tasks |-> <<>>] /\ job = [t \in Tasks |-> "Absent"]
  BY DEF Init, Jobs!JobInit
<1>5. Types BY <1>3, <1>4 DEF Types
<1>6. OriginShape BY <1>4 DEF OriginShape
<1>7. UserChangesKept BY <1>2 DEF UserChangesKept
<1>8. ASSUME NEW p \in Procs PROVE LoopShape(p) /\ sch[p].batch = {} /\ sch[p].pc = "idle"
  <2>1. DOMAIN Idle = LoopFields /\ Idle.now = 0 /\ Idle.pc = "idle" /\ Idle.batch = {}
    BY DEF Idle, LoopFields, NoTime
  <2> QED BY <1>4, <2>1 DEF LoopShape
<1> QED BY <1>2, <1>4, <1>5, <1>6, <1>7, <1>8 DEF TInv

\* What a user set while the scheduler was between two phases is still in the record
\* after the scheduler wrote it, for any number of loops (finish_scheduled_run and
\* collect_due_runs read the record again).
THEOREM UserChangesStay == Spec => []UserChangesKept
<1>1. Init => TInv BY InitFacts
<1>2. TInv => UserChangesKept BY DEF TInv
<1> QED BY <1>1, <1>2, NextBase, PTL DEF Spec

-----------------------------------------------------------------------------
(* How often a slot becomes a task, with one loop on the directory.        *)

\* Without a new task the slots' tasks are what they were.
LEMMA SameTasks ==
  ASSUME TInv, TInv', TaskShape, UNCHANGED origin, now' >= now, Failures' >= Failures
  PROVE  /\ TaskShape'
         /\ \A a, s : (Latest(a, s)' <=> Latest(a, s)) /\ Count(a, s)' = Count(a, s)
<1>1. /\ now \in Nat /\ now' \in Nat /\ Failures \in Nat /\ Failures' \in Nat
      /\ origin \in [Tasks -> Slots \cup {<<>>}]
  BY DEF TInv, Types, OriginShape, Failures
<1>2. \A a, s : TasksFor(a, s)' = TasksFor(a, s) BY DEF TasksFor
<1>3. \A a, s : Count(a, s)' = Count(a, s) BY <1>2 DEF Count
<1>4. \A a, s : Latest(a, s)' <=> Latest(a, s) BY DEF Latest
<1>5. \A t \in Tasks : origin[t] # <<>> => origin[t][2] <= now'
  <2>1. \A t \in Tasks : origin[t] # <<>> => origin[t][2] \in Nat BY <1>1 DEF Slots
  <2> QED BY <1>1, <2>1 DEF TaskShape
<1>6. \A x \in Slots : IsFiniteSet(TasksFor(x[1], x[2]))' BY <1>2 DEF TaskShape
<1>7. \A x \in Slots : Count(x[1], x[2])' <= 1 + Failures'
  <2>1. \A x \in Slots : Count(x[1], x[2]) \in Nat BY FS_CardinalityType DEF TaskShape, Count
  <2> QED BY <1>1, <1>3, <2>1 DEF TaskShape
<1> QED BY <1>3, <1>4, <1>5, <1>6, <1>7 DEF TaskShape

\* A record that moves on past the latest slot starts with no task.
LEMMA MovedNext ==
  ASSUME TInv, TInv', TaskShape, UNCHANGED origin, now' >= now, Failures' >= Failures,
         NEW a \in Autos, NEW s \in Nat, Latest(a, s), Moved(auto'[a], auto[a], s)
  PROVE  NextShape(a)'
<1>1. Failures' \in Nat /\ OriginShape /\ auto'[a].next \in Nat
  BY DEF TInv, Types, Failures, Moved, AutoRecord
<1>2. PICK n \in Nat : n = auto'[a].next BY <1>1
<1>3. CASE n = NoTime BY <1>2, <1>3 DEF Moved, NextShape
<1>4. CASE n # NoTime
  <2>1. n > s BY <1>2, <1>4 DEF Moved
  <2>2. Latest(a, n) /\ Count(a, n) = 0 BY <1>1, <2>1, NoTasksYet
  <2>3. Latest(a, n)' /\ Count(a, n)' = 0 BY <2>2, SameTasks
  <2> QED BY <1>1, <1>2, <1>4, <2>3 DEF NextShape
<1> QED BY <1>3, <1>4

\* A slot that a loop carries, or the later one of the record, is within the count.
LEMMA Dropped ==
  ASSUME TInv, SInv, NEW p \in Procs, NEW a \in Autos, OnDisk(a), auto[a].next # NoTime,
         Carries(p, a)
  PROVE  /\ Latest(a, auto[a].next)
         /\ Count(a, auto[a].next) <= Failures
            \/ (sch[p].pc = "persist" /\ Count(a, auto[a].next) <= 1 + Failures)
<1>1. PICK n \in Nat : n = auto[a].next BY DEF TInv, Types, AutoRecord
<1>2. Failures \in Nat /\ OriginShape /\ n # 0 BY <1>1 DEF TInv, Types, Failures, NoTime
<1>3. <<a, n>> \in Slots BY <1>2 DEF Slots
<1>4. Count(a, n) <= 1 + Failures BY <1>3 DEF SInv, TaskShape
<1>5. ASSUME NEW s \in Nat, Latest(a, s), n > s
      PROVE  Latest(a, n) /\ Count(a, n) <= Failures
  BY <1>2, <1>5, NoTasksYet
<1>6. ASSUME NEW x \in sch[p].batch, x[1] = a
      PROVE  Latest(a, n) /\ Count(a, n) <= Failures
  <2>1. x[2] \in Nat BY DEF TInv, LoopShape, Slots
  <2>2. Count(a, x[2]) <= Failures /\ Latest(a, x[2]) /\ n >= x[2]
    BY <1>1, <1>6 DEF SInv, BatchShape, Ahead
  <2>3. CASE n = x[2] BY <2>2, <2>3
  <2>4. CASE n > x[2] BY <1>5, <2>1, <2>2, <2>4
  <2> QED BY <2>1, <2>2, <2>3, <2>4
<1>7. ASSUME sch[p].pc = "persist", sch[p].run.auto = a
      PROVE  Latest(a, n)
  <2>1. PICK s \in Nat : s = sch[p].run.slot BY <1>7 DEF TInv, LoopShape
  <2>2. Latest(a, s) /\ n >= s BY <1>1, <1>7, <2>1 DEF SInv, HandShape, Ahead
  <2>3. CASE n = s BY <2>2, <2>3
  <2>4. CASE n > s BY <1>5, <2>2, <2>4
  <2> QED BY <2>2, <2>3, <2>4
<1> QED BY <1>1, <1>4, <1>6, <1>7 DEF Carries

\* Phases that end with empty hands.
LEMMA QuietSlots ==
  ASSUME OneLoop, TInv, TInv', SInv, NEW p \in Procs, Quiet(p), UNCHANGED auto
  PROVE  SInv'
<1>1. /\ now' >= now /\ Failures \in Nat /\ Failures' \in Nat /\ UNCHANGED origin
      /\ Failures' >= Failures /\ (sch[p].pc = "persist" => Failures' >= Failures + 1)
  BY DEF Quiet, TInv, Types, Failures
<1>2. TaskShape' /\ \A a, s : (Latest(a, s)' <=> Latest(a, s)) /\ Count(a, s)' = Count(a, s)
  BY <1>1, SameTasks DEF SInv
<1>3. \A q \in Procs : sch'[q].batch = {} /\ sch'[q].pc # "persist"
  BY DEF OneLoop, Quiet
<1>4. \A a : ~SlotCarried(a)' BY <1>3 DEF SlotCarried, Carries
<1>5. ASSUME NEW a \in Autos PROVE NextShape(a)'
  <2>1. NextShape(a) BY DEF SInv
  <2>2. ASSUME OnDisk(a), auto[a].next # NoTime
        PROVE  Latest(a, auto[a].next) /\ Count(a, auto[a].next) <= Failures'
    <3>1. PICK n \in Nat : n = auto[a].next BY DEF TInv, Types, AutoRecord
    <3>2. <<a, n>> \in Slots BY <2>2, <3>1 DEF Slots, NoTime
    <3>3. Count(a, n) \in Nat BY <3>2, FS_CardinalityType DEF SInv, TaskShape, Count
    <3>4. CASE SlotCarried(a)
      <4>1. PICK q \in Procs : Carries(q, a) BY <3>4 DEF SlotCarried
      <4>2. q = p BY DEF OneLoop
      <4>3. /\ Latest(a, n)
            /\ Count(a, n) <= Failures \/ (sch[p].pc = "persist" /\ Count(a, n) <= 1 + Failures)
        BY <2>2, <3>1, <4>1, <4>2, Dropped
      <4> QED BY <1>1, <3>1, <3>3, <4>3
    <3>5. CASE ~SlotCarried(a)
      <4>1. Latest(a, n) /\ Count(a, n) <= Failures BY <2>1, <2>2, <3>1, <3>5 DEF NextShape
      <4> QED BY <1>1, <3>1, <3>3, <4>1
    <3> QED BY <3>4, <3>5
  <2>3. PICK n : n = auto[a].next OBVIOUS
  <2>4. OnDisk(a)' <=> OnDisk(a) BY DEF OnDisk
  <2>5. OnDisk(a)' /\ n # NoTime => Latest(a, n)' /\ Count(a, n)' <= Failures'
    BY <1>2, <2>2, <2>3, <2>4
  <2> QED BY <1>1, <1>4, <2>1, <2>3, <2>5 DEF NextShape
<1>6. \A q \in Procs : BatchShape(q)' /\ HandShape(q)' BY <1>3 DEF BatchShape, HandShape
<1> QED BY <1>2, <1>5, <1>6 DEF SInv

\* A sweep: what it moves on starts with no task.
LEMMA SweptNext ==
  ASSUME OneLoop, TInv, TInv', SInv, NEW p \in Procs, sch[p].pc = "collect",
         UNCHANGED origin, now' >= now, Failures' >= Failures,
         NEW a \in Autos, NEW seen, auto'[a] = Swept(a, sch[p].now, seen), auto'[a] # auto[a]
  PROVE  NextShape(a)'
<1>1. /\ auto[a].status = "Active" /\ OnDisk(a) /\ auto[a].next \in Nat
      /\ Moved(auto'[a], auto[a], auto[a].next)
  <2>1. sch[p].now \in Nat BY DEF TInv, LoopShape
  <2> QED BY <2>1, SweptFacts
<1>2. PICK s \in Nat : s = auto[a].next BY <1>1
<1>3. ~SlotCarried(a)
  <2>1. \A q \in Procs : sch[q].batch = {} /\ sch[q].pc # "persist"
    BY DEF OneLoop, TInv, LoopShape
  <2> QED BY <2>1 DEF SlotCarried, Carries
<1>4. NextShape(a) BY DEF SInv
<1>5. Latest(a, s)
  <2>1. CASE s = NoTime BY <1>1, <1>2, <1>4, <2>1 DEF NextShape, Latest
  <2>2. CASE s # NoTime BY <1>1, <1>2, <1>3, <1>4, <2>2 DEF NextShape
  <2> QED BY <2>1, <2>2
<1> QED BY <1>1, <1>2, <1>5, MovedNext DEF SInv

\* A sweep that fails leaves nothing to enqueue.
LEMMA CollectFailsSlots ==
  ASSUME OneLoop, TInv, TInv', SInv, NEW p \in Procs, collect_fails(p), Quiet(p)
  PROVE  SInv'
<1>1. PICK saved \in SUBSET Autos, seen \in Lookups(sch[p].now) :
        auto' = [a \in Autos |-> IF a \in saved THEN Swept(a, sch[p].now, seen[a]) ELSE auto[a]]
  BY DEF collect_fails
<1>2. sch[p].pc = "collect" BY DEF collect_fails
<1>3. /\ now' >= now /\ Failures \in Nat /\ Failures' \in Nat /\ UNCHANGED origin
      /\ Failures' >= Failures
  BY DEF Quiet, TInv, Types, Failures
<1>4. TaskShape' /\ \A a, s : (Latest(a, s)' <=> Latest(a, s)) /\ Count(a, s)' = Count(a, s)
  BY <1>3, SameTasks DEF SInv
<1>5. \A q \in Procs : /\ sch'[q].batch = {} /\ sch'[q].pc # "persist"
                       /\ sch[q].batch = {} /\ sch[q].pc # "persist"
  BY <1>2 DEF OneLoop, Quiet, TInv, LoopShape
<1>6. \A a : ~SlotCarried(a)' /\ ~SlotCarried(a) BY <1>5 DEF SlotCarried, Carries
<1>7. ASSUME NEW a \in Autos PROVE NextShape(a)'
  <2>1. CASE auto'[a] = auto[a]
    <3>1. PICK n \in Nat : n = auto[a].next BY DEF TInv, Types, AutoRecord
    <3>2. NextShape(a) BY DEF SInv
    <3>3. OnDisk(a)' <=> OnDisk(a) BY <2>1 DEF OnDisk
    <3>4. OnDisk(a) /\ n # NoTime => Latest(a, n) /\ Count(a, n) <= Failures
      BY <1>6, <3>1, <3>2 DEF NextShape
    <3>5. n # NoTime => Count(a, n) \in Nat
      <4>1. n # NoTime => <<a, n>> \in Slots BY DEF Slots, NoTime
      <4> QED BY <4>1, FS_CardinalityType DEF SInv, TaskShape, Count
    <3>6. OnDisk(a) /\ n # NoTime => Latest(a, n)' /\ Count(a, n)' <= Failures'
      BY <1>3, <1>4, <3>4, <3>5
    <3> QED BY <1>3, <1>6, <2>1, <3>1, <3>2, <3>3, <3>6 DEF NextShape
  <2>2. CASE auto'[a] # auto[a]
    <3>1. auto'[a] = Swept(a, sch[p].now, seen[a]) BY <1>1, <2>2
    <3> QED BY <1>2, <1>3, <2>2, <3>1, SweptNext
  <2> QED BY <2>1, <2>2
<1>8. \A q \in Procs : BatchShape(q)' /\ HandShape(q)' BY <1>5 DEF BatchShape, HandShape
<1> QED BY <1>4, <1>7, <1>8 DEF SInv

\* A slot that is collected is next, so its tasks are due to failures.
LEMMA CollectSlots ==
  ASSUME OneLoop, TInv, TInv', SInv, NEW p \in Procs, NEW seen, Collects(p, seen)
  PROVE  SInv'
<1>1. /\ now' >= now /\ Failures \in Nat /\ Failures' = Failures /\ UNCHANGED origin
      /\ sch[p].pc = "collect"
  BY DEF Collects, TInv, Types, Failures
<1>2. TaskShape' /\ \A a, s : (Latest(a, s)' <=> Latest(a, s)) /\ Count(a, s)' = Count(a, s)
  BY <1>1, SameTasks DEF SInv
<1>3. \A q \in Procs : q = p /\ sch'[q].pc # "persist" /\ sch[q].batch = {} /\ sch[q].pc # "persist"
  BY <1>1 DEF OneLoop, Collects, TInv, LoopShape
<1>4. \A a : ~SlotCarried(a) BY <1>3 DEF SlotCarried, Carries
<1>5. ASSUME NEW x \in sch'[p].batch
      PROVE  /\ x[1] \in Autos /\ x[2] = auto[x[1]].next /\ auto[x[1]].status = "Active"
             /\ auto[x[1]].next # NoTime /\ auto'[x[1]] = auto[x[1]]
  <2>1. PICK a \in Autos : x = <<a, auto[a].next>> /\ Due(a, sch[p].now) /\ ~seen[a]
    BY <1>5 DEF Collects
  <2>2. auto'[a] = auto[a] BY <2>1 DEF Collects, Swept, Due
  <2> QED BY <2>1, <2>2 DEF Due
<1>6. ASSUME NEW x \in sch'[p].batch
      PROVE  Count(x[1], x[2])' <= Failures' /\ Latest(x[1], x[2])' /\ Ahead(x[1], x[2])'
  <2>1. PICK a \in Autos, n \in Nat : a = x[1] /\ n = auto[a].next /\ n = x[2]
    BY <1>5 DEF TInv, Types, AutoRecord
  <2>2. Latest(a, n) /\ Count(a, n) <= Failures
    BY <1>4, <1>5, <2>1 DEF SInv, NextShape, OnDisk
  <2>3. Ahead(a, n)' BY <1>5, <2>1 DEF Ahead
  <2> QED BY <1>1, <1>2, <2>1, <2>2, <2>3
<1>7. BatchShape(p)' BY <1>6 DEF BatchShape
<1>8. HandShape(p)' BY <1>3 DEF HandShape
<1>9. ASSUME NEW a \in Autos PROVE NextShape(a)'
  <2>1. CASE auto'[a] = auto[a]
    <3>1. PICK n \in Nat : n = auto[a].next BY DEF TInv, Types, AutoRecord
    <3>2. NextShape(a) BY DEF SInv
    <3>3. OnDisk(a)' <=> OnDisk(a) BY <2>1 DEF OnDisk
    <3>4. OnDisk(a) /\ n # NoTime => Latest(a, n) /\ Count(a, n) <= Failures
      BY <1>4, <3>1, <3>2 DEF NextShape
    <3>5. OnDisk(a) /\ n # NoTime => Latest(a, n)' /\ Count(a, n)' <= Failures'
      BY <1>1, <1>2, <3>4
    <3>6. n = NoTime => ~SlotCarried(a)' BY <1>3, <1>5, <3>1 DEF SlotCarried, Carries
    <3> QED BY <1>1, <2>1, <3>1, <3>2, <3>3, <3>5, <3>6 DEF NextShape
  <2>2. CASE auto'[a] # auto[a]
    <3>1. auto'[a] = Swept(a, sch[p].now, seen[a]) BY DEF Collects
    <3> QED BY <1>1, <2>2, <3>1, SweptNext
  <2> QED BY <2>1, <2>2
<1> QED BY <1>2, <1>3, <1>7, <1>8, <1>9 DEF SInv

\* After a run was saved the record is past its slot.
LEMMA FinishSlots ==
  ASSUME OneLoop, TInv, TInv', SInv, NEW p \in Procs, Finishes(p)
  PROVE  SInv'
<1> DEFINE r == sch[p].run.auto
<1>1. /\ now' >= now /\ Failures \in Nat /\ Failures' = Failures /\ UNCHANGED origin
      /\ sch[p].pc = "persist" /\ sch'[p].pc = "enqueue" /\ sch'[p].batch = sch[p].batch
  BY DEF Finishes, TInv, Types, Failures
<1>2. TaskShape' /\ \A a, s : (Latest(a, s)' <=> Latest(a, s)) /\ Count(a, s)' = Count(a, s)
  BY <1>1, SameTasks DEF SInv
<1>3. \A q \in Procs : q = p BY DEF OneLoop
<1>4. /\ r \in Autos /\ sch[p].run.slot \in Nat /\ \A x \in sch[p].batch : x[1] \in Autos /\ x[1] # r
      /\ \A b \in Autos \ {r} : auto'[b] = auto[b]
      /\ auto'[r] = IF OnDisk(r) THEN Advanced(auto[r], sch[p].run.slot) ELSE auto[r]
  BY <1>1 DEF TInv, LoopShape, Slots, Finishes
<1>5. BatchShape(p)'
  <2>1. ASSUME NEW x \in sch[p].batch
        PROVE  Count(x[1], x[2])' <= Failures' /\ Latest(x[1], x[2])' /\ Ahead(x[1], x[2])'
    <3>1. PICK a, s : a = x[1] /\ s = x[2] OBVIOUS
    <3>2. Count(a, s) <= Failures /\ Latest(a, s) /\ Ahead(a, s)
      BY <3>1 DEF SInv, BatchShape
    <3>3. auto'[a] = auto[a] BY <1>4, <3>1
    <3>4. Ahead(a, s)' BY <3>2, <3>3 DEF Ahead, OnDisk
    <3> QED BY <1>1, <1>2, <3>1, <3>2, <3>4
  <2> QED BY <1>1, <2>1 DEF BatchShape
<1>6. HandShape(p)' BY <1>1 DEF HandShape
<1>7. ASSUME NEW a \in Autos PROVE NextShape(a)'
  <2>1. CASE a = r /\ OnDisk(r)
    <3>1. PICK s \in Nat : s = sch[p].run.slot BY <1>4
    <3>2. Latest(a, s) BY <1>1, <2>1, <3>1 DEF SInv, HandShape
    <3>3. auto[a] \in AutoRecord BY DEF TInv, Types
    <3>4. Moved(auto'[a], auto[a], s) BY <1>4, <2>1, <3>1, <3>3, MovedFacts
    <3> QED BY <1>1, <3>2, <3>4, MovedNext DEF SInv
  <2>2. CASE a = r /\ ~OnDisk(r)
    BY <1>4, <2>2 DEF NextShape, OnDisk
  <2>3. CASE a # r
    <3>1. PICK n : n = auto[a].next OBVIOUS
    <3>2. auto'[a] = auto[a] /\ NextShape(a) BY <1>4, <2>3 DEF SInv
    <3>3. OnDisk(a)' <=> OnDisk(a) BY <3>2 DEF OnDisk
    <3>4. SlotCarried(a)' <=> SlotCarried(a)
      <4>1. Carries(p, a)' <=> Carries(p, a) BY <1>1, <2>3 DEF Carries
      <4> QED BY <1>3, <4>1 DEF SlotCarried
    <3>5. OnDisk(a) /\ n # NoTime /\ ~SlotCarried(a) => Latest(a, n) /\ Count(a, n) <= Failures
      BY <3>1, <3>2 DEF NextShape
    <3>6. OnDisk(a) /\ n # NoTime /\ ~SlotCarried(a) => Latest(a, n)' /\ Count(a, n)' <= Failures'
      BY <1>1, <1>2, <3>5
    <3> QED BY <1>1, <3>1, <3>2, <3>3, <3>4, <3>6 DEF NextShape
  <2> QED BY <2>1, <2>2, <2>3
<1> QED BY <1>2, <1>3, <1>5, <1>6, <1>7 DEF SInv

\* A slot that becomes a task has one more, and is at hand.
LEMMA EnqueueSlots ==
  ASSUME OneLoop, TInv, TInv', SInv, NEW p \in Procs, NEW item \in sch[p].batch, Enqueues(p, item)
  PROVE  SInv'
<1> DEFINE d == item[1]
           s == item[2]
<1>1. /\ now' = now /\ Failures \in Nat /\ Failures' = Failures /\ UNCHANGED auto
      /\ sch[p].pc = "enqueue" /\ sch'[p].pc = "persist" /\ sch'[p].batch = sch[p].batch \ {item}
      /\ sch'[p].run.auto = d /\ sch'[p].run.slot = s
  BY DEF Enqueues, TInv, Types, Failures
<1>2. /\ item \in Slots /\ item = <<d, s>> /\ d \in Autos /\ s \in Nat \ {0} /\ s <= now
      /\ \A x \in sch'[p].batch : x[1] # d
      /\ origin \in [Tasks -> Slots \cup {<<>>}]
  BY <1>1 DEF TInv, LoopShape, Slots, OriginShape
<1>3. \A q \in Procs : q = p BY DEF OneLoop
<1>4. Count(d, s) <= Failures /\ Latest(d, s) /\ Ahead(d, s) BY DEF SInv, BatchShape
<1>5. \A t \in Tasks : origin'[t] # origin[t] => origin'[t] = item /\ origin[t] = <<>>
  <2>1. CASE UNCHANGED <<origin, job>> BY <2>1
  <2>2. ASSUME NEW t \in Tasks, Jobs!Accept(t), origin' = [origin EXCEPT ![t] = item]
        PROVE  \A u \in Tasks : origin'[u] # origin[u] => origin'[u] = item /\ origin[u] = <<>>
    <3>1. origin[t] = <<>> BY <2>2, AcceptFacts DEF TInv
    <3> QED BY <1>2, <2>2, <3>1
  <2> QED BY <2>1, <2>2 DEF Enqueues
<1>6. ASSUME NEW x \in Slots, x # item
      PROVE  TasksFor(x[1], x[2])' = TasksFor(x[1], x[2])
  <2>1. x = <<x[1], x[2]>> BY DEF Slots
  <2> QED BY <1>2, <1>5, <1>6, <2>1 DEF TasksFor
<1>7. IsFiniteSet(TasksFor(d, s)') /\ Count(d, s)' <= 1 + Failures
  <2>1. IsFiniteSet(TasksFor(d, s)) BY <1>2 DEF SInv, TaskShape
  <2>2. CASE UNCHANGED <<origin, job>>
    <3>1. TasksFor(d, s)' = TasksFor(d, s) BY <2>2 DEF TasksFor
    <3>2. Count(d, s) \in Nat BY <2>1, FS_CardinalityType DEF Count
    <3> QED BY <1>1, <1>4, <2>1, <3>1, <3>2 DEF Count
  <2>3. ASSUME NEW t \in Tasks, Jobs!Accept(t), origin' = [origin EXCEPT ![t] = item]
        PROVE  IsFiniteSet(TasksFor(d, s)') /\ Count(d, s)' <= 1 + Failures
    <3>1. origin[t] = <<>> BY <2>3, AcceptFacts DEF TInv
    <3>2. TasksFor(d, s)' = TasksFor(d, s) \cup {t} BY <1>2, <2>3 DEF TasksFor
    <3>3. t \notin TasksFor(d, s)
      <4>1. item # <<>> BY <1>2 DEF Slots
      <4>2. origin[t] # <<d, s>> BY <1>2, <3>1, <4>1
      <4> QED BY <4>2 DEF TasksFor
    <3>4. /\ IsFiniteSet(TasksFor(d, s) \cup {t})
          /\ Cardinality(TasksFor(d, s) \cup {t}) = Cardinality(TasksFor(d, s)) + 1
      BY <2>1, <3>3, FS_AddElement
    <3>5. Cardinality(TasksFor(d, s)) \in Nat BY <2>1, FS_CardinalityType
    <3> QED BY <1>1, <1>4, <3>2, <3>4, <3>5 DEF Count
  <2> QED BY <2>2, <2>3 DEF Enqueues
<1>8. TaskShape'
  <2>1. ASSUME NEW x \in Slots
        PROVE  IsFiniteSet(TasksFor(x[1], x[2]))' /\ Count(x[1], x[2])' <= 1 + Failures'
    <3>1. CASE x = item BY <1>1, <1>7, <3>1
    <3>2. CASE x # item
      <4>1. TasksFor(x[1], x[2])' = TasksFor(x[1], x[2]) BY <1>6, <3>2
      <4> QED BY <1>1, <4>1 DEF SInv, TaskShape, Count
    <3> QED BY <3>1, <3>2
  <2>2. \A t \in Tasks : origin'[t] # <<>> => origin'[t][2] <= now'
    BY <1>1, <1>2, <1>5 DEF SInv, TaskShape
  <2> QED BY <2>1, <2>2 DEF TaskShape
<1>9. ASSUME NEW a \in Autos, a # d, NEW n \in Nat
      PROVE  /\ Latest(a, n) => Latest(a, n)'
             /\ n # 0 => Count(a, n)' = Count(a, n)
  <2>1. Latest(a, n) => Latest(a, n)' BY <1>2, <1>5, <1>9 DEF Latest
  <2>2. ASSUME n # 0 PROVE TasksFor(a, n)' = TasksFor(a, n)
    <3>1. <<a, n>> \in Slots /\ <<a, n>> # item BY <1>2, <1>9, <2>2 DEF Slots
    <3> QED BY <1>6, <3>1
  <2> QED BY <2>1, <2>2 DEF Count
<1>10. BatchShape(p)'
  <2>1. ASSUME NEW x \in sch'[p].batch
        PROVE  Count(x[1], x[2])' <= Failures' /\ Latest(x[1], x[2])' /\ Ahead(x[1], x[2])'
    <3>1. x \in sch[p].batch /\ x \in Slots /\ x[1] # d BY <1>1, <1>2 DEF TInv, LoopShape
    <3>2. PICK a \in Autos, n \in Nat : a = x[1] /\ n = x[2] /\ n # 0 BY <3>1 DEF Slots
    <3>3. Count(a, n) <= Failures /\ Latest(a, n) /\ Ahead(a, n)
      BY <3>1, <3>2 DEF SInv, BatchShape
    <3>4. Count(a, n)' = Count(a, n) /\ Latest(a, n)' BY <1>9, <3>1, <3>2, <3>3
    <3>5. Ahead(a, n)' BY <1>1, <3>3 DEF Ahead, OnDisk
    <3> QED BY <1>1, <3>2, <3>3, <3>4, <3>5
  <2> QED BY <2>1 DEF BatchShape
<1>11. HandShape(p)'
  <2>1. PICK a \in Autos, n \in Nat : a = d /\ n = s BY <1>2
  <2>2. Latest(a, n)' BY <1>2, <1>4, <1>5, <2>1 DEF Latest
  <2>3. Ahead(a, n)' BY <1>1, <1>4, <2>1 DEF Ahead, OnDisk
  <2> QED BY <1>1, <2>1, <2>2, <2>3 DEF HandShape
<1>12. ASSUME NEW a \in Autos PROVE NextShape(a)'
  <2>1. PICK n \in Nat : n = auto[a].next BY DEF TInv, Types, AutoRecord
  <2>2. NextShape(a) BY DEF SInv
  <2>3. CASE a = d
    <3>1. SlotCarried(a)' BY <1>1, <2>3 DEF SlotCarried, Carries
    <3>2. SlotCarried(a) BY <2>3 DEF SlotCarried, Carries
    <3> QED BY <1>1, <2>2, <3>1, <3>2 DEF NextShape
  <2>4. CASE a # d
    <3>1. SlotCarried(a)' <=> SlotCarried(a)
      <4>1. Carries(p, a)' <=> Carries(p, a) BY <1>1, <2>4 DEF Carries
      <4> QED BY <1>3, <4>1 DEF SlotCarried
    <3>2. OnDisk(a)' <=> OnDisk(a) BY <1>1 DEF OnDisk
    <3>3. OnDisk(a) /\ n # NoTime /\ ~SlotCarried(a) => Latest(a, n) /\ Count(a, n) <= Failures
      BY <2>1, <2>2 DEF NextShape
    <3>4. OnDisk(a) /\ n # NoTime /\ ~SlotCarried(a) => Latest(a, n)' /\ Count(a, n)' <= Failures'
      BY <1>1, <1>9, <2>4, <3>3 DEF NoTime
    <3>5. (\A t \in Tasks : origin[t] = <<>> \/ origin[t][1] # a)
          => \A t \in Tasks : origin'[t] = <<>> \/ origin'[t][1] # a
      BY <1>2, <1>5, <2>4
    <3> QED BY <1>1, <2>1, <2>2, <3>1, <3>2, <3>4, <3>5 DEF NextShape
  <2> QED BY <2>3, <2>4
<1> QED BY <1>3, <1>8, <1>10, <1>11, <1>12 DEF SInv

\* A user's call sets a slot after all that became tasks, or none.
LEMMA SavedSlots ==
  ASSUME TInv, TInv', SInv, NEW a \in Autos, Saved(a)
  PROVE  SInv'
<1>1. /\ now \in Nat /\ now' >= now /\ Failures \in Nat /\ Failures' = Failures
      /\ UNCHANGED <<origin, sch>>
  BY DEF Saved, TInv, Types, Failures
<1>2. TaskShape' /\ \A b, s : (Latest(b, s)' <=> Latest(b, s)) /\ Count(b, s)' = Count(b, s)
  BY <1>1, SameTasks DEF SInv
<1>3. PICK n \in Nat : n = auto'[a].next BY DEF Saved, AutoRecord
<1>4. \/ n > now
      \/ n = NoTime /\ auto'[a].status = "Paused"
      \/ n = auto[a].next /\ auto[a].status = "Paused" /\ auto'[a].status = "Paused"
  BY <1>3 DEF Saved
<1>5. ASSUME NEW b \in Autos, NEW s \in Nat, s <= now, Ahead(b, s)
      PROVE  Ahead(b, s)'
  <2>1. CASE b # a BY <1>5, <2>1 DEF Saved, Ahead, OnDisk
  <2>2. CASE b = a BY <1>1, <1>3, <1>4, <1>5, <2>2 DEF Ahead, OnDisk
  <2> QED BY <2>1, <2>2
<1>6. ASSUME NEW p \in Procs PROVE BatchShape(p)' /\ HandShape(p)'
  <2>1. LoopShape(p) /\ BatchShape(p) /\ HandShape(p) BY DEF TInv, SInv
  <2>2. ASSUME NEW x \in sch[p].batch
        PROVE  Count(x[1], x[2])' <= Failures' /\ Latest(x[1], x[2])' /\ Ahead(x[1], x[2])'
    <3>1. PICK b \in Autos, s \in Nat : b = x[1] /\ s = x[2] /\ s <= now
      BY <2>1 DEF LoopShape, Slots
    <3>2. Count(b, s) <= Failures /\ Latest(b, s) /\ Ahead(b, s) BY <2>1, <3>1 DEF BatchShape
    <3>3. Ahead(b, s)' BY <1>5, <3>1, <3>2
    <3> QED BY <1>1, <1>2, <3>1, <3>2, <3>3
  <2>3. ASSUME sch[p].pc = "persist"
        PROVE  Latest(sch[p].run.auto, sch[p].run.slot)' /\ Ahead(sch[p].run.auto, sch[p].run.slot)'
    <3>1. PICK b \in Autos, s \in Nat : b = sch[p].run.auto /\ s = sch[p].run.slot /\ s <= now
      BY <2>1, <2>3 DEF LoopShape
    <3>2. Latest(b, s) /\ Ahead(b, s) BY <2>1, <2>3, <3>1 DEF HandShape
    <3>3. Latest(b, s)' /\ Ahead(b, s)' BY <1>2, <1>5, <3>1, <3>2
    <3> QED BY <1>1, <3>1, <3>3
  <2> QED BY <1>1, <2>2, <2>3 DEF BatchShape, HandShape
<1>7. \A b : SlotCarried(b)' <=> SlotCarried(b) BY <1>1 DEF SlotCarried, Carries
<1>8. ASSUME NEW b \in Autos PROVE NextShape(b)'
  <2>1. NextShape(b) BY DEF SInv
  <2>2. CASE b # a
    <3>1. PICK m : m = auto[b].next OBVIOUS
    <3>2. auto'[b] = auto[b] BY <2>2 DEF Saved
    <3>3. OnDisk(b)' <=> OnDisk(b) BY <3>2 DEF OnDisk
    <3>4. OnDisk(b) /\ m # NoTime /\ ~SlotCarried(b) => Latest(b, m) /\ Count(b, m) <= Failures
      BY <2>1, <3>1 DEF NextShape
    <3>5. OnDisk(b) /\ m # NoTime /\ ~SlotCarried(b) => Latest(b, m)' /\ Count(b, m)' <= Failures'
      BY <1>1, <1>2, <3>4
    <3> QED BY <1>1, <1>7, <2>1, <3>1, <3>2, <3>3, <3>5 DEF NextShape
  <2>3. CASE b = a /\ n > now
    <3>1. Latest(a, now) BY DEF SInv, TaskShape, Latest
    <3>2. PICK u \in Nat : u = now BY <1>1
    <3>3. Latest(a, n) /\ Count(a, n) = 0 BY <2>3, <3>1, <3>2, NoTasksYet DEF TInv
    <3>4. Latest(a, n)' /\ Count(a, n)' <= Failures' BY <1>1, <1>2, <3>3
    <3>5. n # NoTime BY <1>1, <2>3 DEF NoTime
    <3> QED BY <1>3, <2>3, <3>4, <3>5 DEF NextShape
  <2>4. CASE b = a /\ n = NoTime /\ auto'[a].status = "Paused"
    BY <1>3, <2>4 DEF NextShape
  <2>5. CASE b = a /\ n = auto[a].next /\ auto[a].status = "Paused" /\ auto'[a].status = "Paused"
    <3>1. n # NoTime /\ ~SlotCarried(a) => Latest(a, n) /\ Count(a, n) <= Failures
      BY <2>1, <2>5 DEF NextShape, OnDisk
    <3>2. n # NoTime /\ ~SlotCarried(a) => Latest(a, n)' /\ Count(a, n)' <= Failures'
      BY <1>1, <1>2, <3>1
    <3> QED BY <1>3, <1>7, <2>5, <3>2 DEF NextShape
  <2> QED BY <1>4, <2>2, <2>3, <2>4, <2>5
<1> QED BY <1>2, <1>6, <1>8 DEF SInv

\* A step that leaves slots and loops alone, and only removes records.
LEMMA FrameSlots ==
  ASSUME TInv, TInv', SInv, UNCHANGED <<origin, sch, crashes, faults>>, now' >= now,
         \A a \in Autos : auto'[a] = auto[a] \/ auto'[a].status = "Deleted"
  PROVE  SInv'
<1>1. Failures \in Nat /\ Failures' = Failures BY DEF TInv, Types, Failures
<1>2. TaskShape' /\ \A b, s : (Latest(b, s)' <=> Latest(b, s)) /\ Count(b, s)' = Count(b, s)
  BY <1>1, SameTasks DEF SInv
<1>3. \A b : SlotCarried(b)' <=> SlotCarried(b) BY DEF SlotCarried, Carries
<1>4. ASSUME NEW b \in Autos, NEW s, Ahead(b, s) PROVE Ahead(b, s)'
  BY <1>4 DEF Ahead, OnDisk
<1>5. ASSUME NEW p \in Procs PROVE BatchShape(p)' /\ HandShape(p)'
  <2>1. LoopShape(p) /\ BatchShape(p) /\ HandShape(p) BY DEF TInv, SInv
  <2>2. ASSUME NEW x \in sch[p].batch
        PROVE  Count(x[1], x[2])' <= Failures' /\ Latest(x[1], x[2])' /\ Ahead(x[1], x[2])'
    <3>1. PICK b \in Autos, s \in Nat : b = x[1] /\ s = x[2] BY <2>1 DEF LoopShape, Slots
    <3>2. Count(b, s) <= Failures /\ Latest(b, s) /\ Ahead(b, s) BY <2>1, <3>1 DEF BatchShape
    <3> QED BY <1>1, <1>2, <1>4, <3>1, <3>2
  <2>3. ASSUME sch[p].pc = "persist"
        PROVE  Latest(sch[p].run.auto, sch[p].run.slot)' /\ Ahead(sch[p].run.auto, sch[p].run.slot)'
    <3>1. PICK b \in Autos, s \in Nat : b = sch[p].run.auto /\ s = sch[p].run.slot
      BY <2>1, <2>3 DEF LoopShape
    <3>2. Latest(b, s) /\ Ahead(b, s) BY <2>1, <2>3, <3>1 DEF HandShape
    <3>3. Latest(b, s)' /\ Ahead(b, s)' BY <1>2, <1>4, <3>2
    <3> QED BY <3>1, <3>3
  <2> QED BY <2>2, <2>3 DEF BatchShape, HandShape
<1>6. ASSUME NEW b \in Autos PROVE NextShape(b)'
  <2>1. NextShape(b) BY DEF SInv
  <2>2. CASE auto'[b] = auto[b]
    <3>1. PICK m : m = auto[b].next OBVIOUS
    <3>2. OnDisk(b)' <=> OnDisk(b) BY <2>2 DEF OnDisk
    <3>3. OnDisk(b) /\ m # NoTime /\ ~SlotCarried(b) => Latest(b, m) /\ Count(b, m) <= Failures
      BY <2>1, <3>1 DEF NextShape
    <3>4. OnDisk(b) /\ m # NoTime /\ ~SlotCarried(b) => Latest(b, m)' /\ Count(b, m)' <= Failures'
      BY <1>1, <1>2, <3>3
    <3> QED BY <1>3, <2>1, <2>2, <3>1, <3>2, <3>4 DEF NextShape
  <2>3. CASE auto'[b].status = "Deleted" BY <2>3 DEF NextShape, OnDisk
  <2> QED BY <2>2, <2>3
<1> QED BY <1>2, <1>5, <1>6 DEF SInv

\* Every step keeps the counts, if there is one loop.
LEMMA NextSlots ==
  ASSUME OneLoop
  PROVE  TInv /\ SInv /\ [Next]_vars => TInv' /\ SInv'
<1> SUFFICES ASSUME TInv, SInv, [Next]_vars PROVE TInv' /\ SInv' OBVIOUS
<1>1. TInv' BY NextBase
<1>2. CASE Elsewhere \/ UNCHANGED vars
  <2>1. UNCHANGED <<auto, sch, origin, crashes, faults>> /\ now' >= now BY <1>2, ElsewhereFacts
  <2> QED BY <1>1, <2>1, FrameSlots
<1>3. ASSUME NEW a \in Autos,
             \/ \E s \in Schedules : create_automation(a, s) \/ update_rrule(a, s)
             \/ pause_automation(a) \/ resume_automation(a)
      PROVE  SInv'
  BY <1>1, <1>3, UserFacts, SavedSlots
<1>4. ASSUME NEW a \in Autos, delete_automation(a) PROVE SInv'
  <2>1. /\ \A b \in Autos : auto'[b] = auto[b] \/ auto'[b].status = "Deleted"
        /\ UNCHANGED <<now, sch, origin, crashes, faults>>
    BY <1>4, DeleteFacts
  <2>2. now' >= now BY <2>1 DEF TInv, Types
  <2> QED BY <1>1, <2>1, <2>2, FrameSlots
<1>5. ASSUME NEW p \in Procs,
             collect_due_runs(p) \/ enqueue_run(p) \/ finish_scheduled_run(p)
      PROVE  SInv'
  <2>1. CASE collect_due_runs(p) BY <1>1, <2>1, CollectFacts, CollectSlots
  <2>2. CASE enqueue_run(p) BY <1>1, <2>2, EnqueueFacts, EnqueueSlots
  <2>3. CASE finish_scheduled_run(p) BY <1>1, <2>3, FinishFacts, FinishSlots
  <2> QED BY <1>5, <2>1, <2>2, <2>3
<1>6. ASSUME NEW p \in Procs,
             \/ BeginTick(p) \/ collect_fails(p) \/ finish_fails(p) \/ collect_pending_runs(p)
             \/ reconcile_lookup(p) \/ delete_quiet_run(p) \/ reconcile_apply(p) \/ EndTick(p)
             \/ Crash(p) \/ Restart(p)
      PROVE  SInv'
  <2>1. Quiet(p) BY <1>6, QuietSteps
  <2>2. CASE collect_fails(p) BY <1>1, <2>1, <2>2, CollectFailsSlots
  <2>3. CASE ~collect_fails(p)
    <3>1. UNCHANGED auto
      BY <1>6, <2>3 DEF BeginTick, finish_fails, collect_pending_runs, reconcile_lookup,
             delete_quiet_run, reconcile_apply, EndTick, Crash, Restart, files
    <3> QED BY <1>1, <2>1, <3>1, QuietSlots
  <2> QED BY <2>2, <2>3
<1> QED BY <1>1, <1>2, <1>3, <1>4, <1>5, <1>6, StepCases

\* A slot becomes a task once, and at most once more for every crash and every failed
\* phase, whatever users do to the automation meanwhile: with one scheduler loop on the
\* directory, for any window of list_runs (collect_due_runs, finish_scheduled_run).
THEOREM SlotsAreNotRepeated ==
  ASSUME OneLoop
  PROVE  Spec => []SlotRepeatsBounded
<1>1. ASSUME Init PROVE TInv /\ SInv
  <2>1. /\ TInv
        /\ \A p \in Procs : sch[p].batch = {} /\ sch[p].pc = "idle"
        /\ \A a \in Autos : auto[a].next = NoTime
        /\ \A t \in Tasks : origin[t] = <<>>
        /\ crashes = 0 /\ faults = 0
    BY <1>1, InitFacts
  <2>2. TaskShape
    <3>1. \A x \in Slots : TasksFor(x[1], x[2]) = {} BY <2>1 DEF TasksFor
    <3>2. IsFiniteSet({}) /\ Cardinality({}) = 0 BY FS_EmptySet
    <3>3. \A x \in Slots : Count(x[1], x[2]) = 0 BY <3>1, <3>2 DEF Count
    <3>4. Failures = 0 BY <2>1 DEF Failures
    <3>5. \A x \in Slots : IsFiniteSet(TasksFor(x[1], x[2])) /\ Count(x[1], x[2]) <= 1 + Failures
      BY <3>1, <3>2, <3>3, <3>4
    <3> QED BY <2>1, <3>5 DEF TaskShape
  <2>3. \A a : ~SlotCarried(a) BY <2>1 DEF SlotCarried, Carries
  <2>4. \A a \in Autos : NextShape(a) BY <2>1, <2>3 DEF NextShape
  <2>5. \A p \in Procs : BatchShape(p) /\ HandShape(p) BY <2>1 DEF BatchShape, HandShape
  <2> QED BY <2>1, <2>2, <2>4, <2>5 DEF SInv
<1>2. ASSUME TInv, SInv PROVE SlotRepeatsBounded
  <2> SUFFICES ASSUME NEW t \in Tasks, origin[t] # <<>>
               PROVE  Cardinality(TasksFor(origin[t][1], origin[t][2])) <= 1 + crashes + faults
    BY DEF SlotRepeatsBounded
  <2>1. origin[t] \in Slots BY <1>2 DEF TInv, OriginShape
  <2>2. Count(origin[t][1], origin[t][2]) <= 1 + Failures BY <1>2, <2>1 DEF SInv, TaskShape
  <2>3. crashes \in Nat /\ faults \in Nat BY <1>2 DEF TInv, Types
  <2> QED BY <2>2, <2>3 DEF Count, Failures
<1>3. TInv /\ SInv /\ [Next]_vars => TInv' /\ SInv' BY NextSlots
<1> QED BY <1>1, <1>2, <1>3, PTL DEF Spec

-----------------------------------------------------------------------------
(***************************************************************************)
(* The delayed triggers of the same manager (module DelayedTriggers), for  *)
(* any number of triggers, tasks, sessions, loops and crashes: how often   *)
(* one trigger can fire, and that a cancel holds.                          *)
(*                                                                         *)
(* RepeatsBounded is not inductive: it does not say who may still fire a   *)
(* trigger.  The count behind it (CountShape): while the file says         *)
(* Pending, every task of the trigger is in the hand of a loop that has    *)
(* yet to save it, or was left by a crash; once the file says something    *)
(* else nobody collects the trigger again, so each loop that has it in its *)
(* batch can fire it once more and no other can.                           *)
(***************************************************************************)

\* The loops that are firing x, and the ones that have it in their batch.
Holders(x)    == {p \in Procs : hand[p] # None /\ hand[p][1] = x}
Collectors(x) == {p \in Procs : \E d \in due[p] : d[1] = x}

\* A loop has a record at hand only before its save, and a batch only in a tick.
PlaceShape ==
  \A p \in Procs :
    /\ pc[p] = "save" <=> hand[p] # None
    /\ pc[p] \notin {"enqueue", "save"} => due[p] = {}

\* A batch names a trigger once, and not the one at hand; what is at hand has
\* its outcome.
TriggerBatchShape ==
  \A p \in Procs :
    /\ \A d, e \in due[p] : d[1] = e[1] => d = e
    /\ hand[p] # None =>
         hand[p][2].status \in {"Fired", "Failed"} /\ \A d \in due[p] : d[1] # hand[p][1]

\* A trigger that does not exist was never collected.
AbsentShape ==
  \A x \in Triggers :
    trigger[x].status = "Absent" =>
      fired[x] = {} /\ Holders(x) = {} /\ Collectors(x) = {}

CountShape ==
  \A x \in Triggers :
    /\ IsFiniteSet(fired[x])
    /\ trigger[x].status = "Pending" =>
         Cardinality(fired[x]) <= crashes + Cardinality(Holders(x))
    /\ trigger[x].status \notin {"Pending", "Absent"} =>
         Cardinality(fired[x]) + Cardinality(Collectors(x)) <= crashes + Cardinality(Procs)

\* A trigger whose cancel came before any loop is with no loop.
CancelShape ==
  \A x \in canceled :
    trigger[x].status = "Canceled" /\ Holders(x) = {} /\ Collectors(x) = {}

TriggerInv ==
  /\ TriggerTypes /\ PlaceShape /\ TriggerBatchShape
  /\ AbsentShape /\ CountShape /\ CancelShape

-----------------------------------------------------------------------------
(* Facts the actions share.                                                *)

\* One element more, or one less, in numbers.
LEMMA OneMore ==
  ASSUME NEW S, NEW e, IsFiniteSet(S)
  PROVE  /\ IsFiniteSet(S \cup {e}) /\ Cardinality(S \cup {e}) \in Nat
         /\ Cardinality(S \cup {e}) <= Cardinality(S) + 1
         /\ e \notin S => Cardinality(S \cup {e}) = Cardinality(S) + 1
<1>1. Cardinality(S) \in Nat BY FS_CardinalityType
<1>2. IsFiniteSet(S \cup {e})
      /\ Cardinality(S \cup {e}) = IF e \in S THEN Cardinality(S) ELSE Cardinality(S) + 1
  BY FS_AddElement
<1> QED BY <1>1, <1>2

\* Without one element a finite set has one element less, or none.
LEMMA OneLess ==
  ASSUME NEW S, NEW e, IsFiniteSet(S)
  PROVE  /\ Cardinality(S \ {e}) \in Nat
         /\ Cardinality(S \ {e}) <= Cardinality(S)
         /\ Cardinality(S \ {e}) >= Cardinality(S) - 1
         /\ e \in S => Cardinality(S \ {e}) = Cardinality(S) - 1
<1>1. Cardinality(S) \in Nat BY FS_CardinalityType
<1>2. /\ IsFiniteSet(S \ {e})
      /\ Cardinality(S \ {e}) = IF e \in S THEN Cardinality(S) - 1 ELSE Cardinality(S)
  BY FS_RemoveElement
<1>3. Cardinality(S \ {e}) \in Nat BY <1>2, FS_CardinalityType
<1> QED BY <1>1, <1>2, <1>3

\* The sets of loops that are counted are finite.
LEMMA LoopsFinite ==
  ASSUME NEW x
  PROVE  /\ IsFiniteSet(Holders(x)) /\ Cardinality(Holders(x)) \in Nat
         /\ IsFiniteSet(Collectors(x)) /\ Cardinality(Collectors(x)) \in Nat
         /\ Cardinality(Procs) \in Nat
         /\ Cardinality(Holders(x)) <= Cardinality(Procs)
<1>1. Holders(x) \in SUBSET Procs BY DEF Holders
<1>2. Collectors(x) \in SUBSET Procs BY DEF Collectors
<1>3. IsFiniteSet(Procs) BY ProcsAssumption
<1>4. IsFiniteSet(Holders(x)) /\ Cardinality(Holders(x)) <= Cardinality(Procs)
  BY <1>1, <1>3, FS_Subset
<1>5. IsFiniteSet(Collectors(x)) BY <1>2, <1>3, FS_Subset
<1> QED BY <1>3, <1>4, <1>5, FS_CardinalityType

\* No loop counts twice for one trigger.
LEMMA LoopsDisjoint ==
  ASSUME TriggerInv, NEW x \in Triggers
  PROVE  Cardinality(Holders(x)) + Cardinality(Collectors(x)) <= Cardinality(Procs)
<1>1. Holders(x) \cap Collectors(x) = {}
  BY DEF TriggerInv, TriggerBatchShape, Holders, Collectors
<1>2. (Holders(x) \cup Collectors(x)) \in SUBSET Procs BY DEF Holders, Collectors
<1>3. Cardinality(Holders(x) \cup Collectors(x)) <= Cardinality(Procs)
  BY <1>2, ProcsAssumption, FS_Subset
<1>4. Cardinality(Holders(x) \cup Collectors(x))
        = Cardinality(Holders(x)) + Cardinality(Collectors(x)) - Cardinality({})
  BY <1>1, LoopsFinite, FS_Union
<1> QED BY <1>3, <1>4, LoopsFinite, FS_EmptySet

\* A trigger that leaves Pending is with as many loops as before.
LEMMA Settled ==
  ASSUME TriggerInv, NEW x \in Triggers, trigger[x].status = "Pending"
  PROVE  Cardinality(fired[x]) + Cardinality(Collectors(x)) <= crashes + Cardinality(Procs)
<1>1. Cardinality(fired[x]) \in Nat /\ Cardinality(fired[x]) <= crashes + Cardinality(Holders(x))
  BY FS_CardinalityType DEF TriggerInv, CountShape
<1>2. crashes \in Nat BY BoundAssumption DEF TriggerInv, TriggerTypes
<1> QED BY <1>1, <1>2, LoopsDisjoint, LoopsFinite

\* A record is a pair, and never None.
LEMMA PairNotNone ==
  ASSUME NEW d \in Triggers \X Record
  PROVE  d # None /\ d[1] \in Triggers /\ d[2] \in Record
BY DEF None

\* The initial state has no trigger.
LEMMA InitTriggers == TriggerInit => TriggerInv
<1> SUFFICES ASSUME TriggerInit PROVE TriggerInv OBVIOUS
<1>1. TriggerTypes
  <2>1. Absent \in Record BY DEF Absent, Record, Status
  <2>2. now \in 1..MaxTime /\ crashes \in 0..MaxCrashes BY BoundAssumption DEF TriggerInit
  <2>3. job \in [Tasks -> Jobs!JobStatus] /\ begun \subseteq Tasks
    BY DEF TriggerInit, Jobs!JobInit, Jobs!JobStatus
  <2>4. at \in [Procs -> 0..MaxTime] BY BoundAssumption DEF TriggerInit
  <2>5. trigger \in [Triggers -> Record] BY <2>1 DEF TriggerInit
  <2>6. /\ pc \in [Procs -> {"idle", "collect", "enqueue", "save", "down"}]
        /\ due \in [Procs -> SUBSET (Triggers \X Record)]
        /\ hand \in [Procs -> (Triggers \X Record) \cup {None}]
        /\ fired \in [Triggers -> SUBSET Tasks] /\ canceled \subseteq Triggers
    BY DEF TriggerInit
  <2> QED BY <2>2, <2>3, <2>4, <2>5, <2>6 DEF TriggerTypes
<1>2. \A x : Holders(x) = {} /\ Collectors(x) = {} BY DEF TriggerInit, Holders, Collectors
<1>3. PlaceShape /\ TriggerBatchShape BY DEF TriggerInit, PlaceShape, TriggerBatchShape
<1>4. AbsentShape /\ CancelShape BY <1>2 DEF TriggerInit, AbsentShape, CancelShape
<1>5. CountShape BY FS_EmptySet DEF TriggerInit, CountShape, Absent
<1> QED BY <1>1, <1>3, <1>4, <1>5 DEF TriggerInv

-----------------------------------------------------------------------------
(* Steps that leave the batches and the files alone.                       *)

\* Nothing is counted anew while batches, hands and files stay.
LEMMA QuietStep ==
  ASSUME TriggerInv, TriggerTypes', PlaceShape',
         UNCHANGED <<trigger, due, hand, fired, canceled, crashes>>
  PROVE  TriggerInv'
<1>1. \A x : Holders(x)' = Holders(x) /\ Collectors(x)' = Collectors(x)
  BY DEF Holders, Collectors
<1>2. TriggerBatchShape' BY DEF TriggerInv, TriggerBatchShape
<1>3. AbsentShape' BY <1>1 DEF TriggerInv, AbsentShape
<1>4. CountShape' BY <1>1 DEF TriggerInv, CountShape
<1>5. CancelShape' BY <1>1 DEF TriggerInv, CancelShape
<1> QED BY <1>2, <1>3, <1>4, <1>5 DEF TriggerInv

\* The clock, the begin and the end of a tick, a restart.
LEMMA TimeStep ==
  ASSUME TriggerInv,
         \/ TriggerClock
         \/ \E p \in Procs : BeginFiring(p) \/ EndFiring(p) \/ LoopRestarts(p)
  PROVE  TriggerInv'
<1>1. CASE TriggerClock
  <2>1. TriggerTypes' BY <1>1, BoundAssumption DEF TriggerInv, TriggerTypes, TriggerClock, loop
  <2>2. PlaceShape' BY <1>1 DEF TriggerInv, PlaceShape, TriggerClock, loop
  <2> QED BY <1>1, <2>1, <2>2, QuietStep DEF TriggerClock, loop
<1>2. ASSUME NEW p \in Procs, BeginFiring(p) \/ EndFiring(p) \/ LoopRestarts(p)
      PROVE  TriggerInv'
  <2>1. /\ UNCHANGED <<now, trigger, due, hand, job, begun, fired, canceled, crashes>>
        /\ pc[p] # "save" /\ due[p] = {}
        /\ \/ pc' = [pc EXCEPT ![p] = "collect"] /\ at' = [at EXCEPT ![p] = now]
           \/ pc' = [pc EXCEPT ![p] = "idle"] /\ (at' = [at EXCEPT ![p] = 0] \/ at' = at)
    BY <1>2 DEF BeginFiring, EndFiring, LoopRestarts, TriggerInv, PlaceShape
  <2>2. TriggerTypes' BY <2>1, BoundAssumption DEF TriggerInv, TriggerTypes
  <2>3. PlaceShape' BY <2>1 DEF TriggerInv, TriggerTypes, PlaceShape
  <2> QED BY <2>1, <2>2, <2>3, QuietStep
<1> QED BY <1>1, <1>2

-----------------------------------------------------------------------------
(* The sessions.                                                           *)

\* A new trigger has no task and is with no loop.
LEMMA CreateStep ==
  ASSUME TriggerInv, NEW x \in Triggers, NEW fire_at \in 1..MaxTime,
         NEW owner \in Sessions \cup {NoOwner}, create_trigger(x, fire_at, owner)
  PROVE  TriggerInv'
<1> DEFINE rec == [status |-> "Pending", fire_at |-> fire_at, owner |-> owner]
<1>1. /\ trigger[x].status = "Absent" /\ trigger' = [trigger EXCEPT ![x] = rec]
      /\ UNCHANGED <<now, pc, due, hand, at, job, begun, fired, canceled, crashes>>
  BY DEF create_trigger, Absent, loop
<1>2. rec \in Record BY DEF Record, Status
<1>3. TriggerTypes' BY <1>1, <1>2 DEF TriggerInv, TriggerTypes
<1>4. \A y : Holders(y)' = Holders(y) /\ Collectors(y)' = Collectors(y)
  BY <1>1 DEF Holders, Collectors
<1>5. trigger'[x].status = "Pending" /\ \A y \in Triggers \ {x} : trigger'[y] = trigger[y]
  BY <1>1 DEF TriggerInv, TriggerTypes
<1>6. PlaceShape' /\ TriggerBatchShape' BY <1>1 DEF TriggerInv, PlaceShape, TriggerBatchShape
<1>7. AbsentShape' BY <1>1, <1>4, <1>5 DEF TriggerInv, AbsentShape
<1>8. CancelShape' BY <1>1, <1>4, <1>5 DEF TriggerInv, TriggerTypes, CancelShape
<1>9. CountShape'
  <2>1. fired[x] = {} /\ Holders(x) = {} BY <1>1 DEF TriggerInv, AbsentShape
  <2>2. crashes \in Nat BY BoundAssumption DEF TriggerInv, TriggerTypes
  <2>3. Cardinality(fired[x]) <= crashes + Cardinality(Holders(x)) BY <2>1, <2>2, FS_EmptySet
  <2> QED BY <1>1, <1>4, <1>5, <2>3 DEF TriggerInv, CountShape
<1> QED BY <1>3, <1>6, <1>7, <1>8, <1>9 DEF TriggerInv

\* A cancel settles the file; the loops that carry the trigger are counted on.
LEMMA CancelStep ==
  ASSUME TriggerInv, NEW x \in Triggers, NEW session \in Sessions,
         cancel_trigger_for_owner(x, session)
  PROVE  TriggerInv'
<1>1. /\ trigger[x].status = "Pending" /\ trigger' = [trigger EXCEPT ![x].status = "Canceled"]
      /\ canceled' = IF Carried(x) THEN canceled ELSE canceled \cup {x}
      /\ UNCHANGED <<now, pc, due, hand, at, job, begun, fired, crashes>>
  BY DEF cancel_trigger_for_owner, loop
<1>2. trigger' \in [Triggers -> Record]
  BY <1>1 DEF TriggerInv, TriggerTypes, Record, Status
<1>3. TriggerTypes' BY <1>1, <1>2 DEF TriggerInv, TriggerTypes
<1>4. \A y : Holders(y)' = Holders(y) /\ Collectors(y)' = Collectors(y)
  BY <1>1 DEF Holders, Collectors
<1>5. trigger'[x].status = "Canceled" /\ \A y \in Triggers \ {x} : trigger'[y] = trigger[y]
  BY <1>1 DEF TriggerInv, TriggerTypes, Record
<1>6. PlaceShape' /\ TriggerBatchShape' BY <1>1 DEF TriggerInv, PlaceShape, TriggerBatchShape
<1>7. AbsentShape' BY <1>1, <1>4, <1>5 DEF TriggerInv, AbsentShape
<1>8. CancelShape'
  <2>1. ~Carried(x) => Holders(x) = {} /\ Collectors(x) = {}
    BY DEF Carried, Holders, Collectors
  <2> QED BY <1>1, <1>4, <1>5, <2>1 DEF TriggerInv, TriggerTypes, CancelShape
<1>9. CountShape'
  <2>1. Cardinality(fired[x]) + Cardinality(Collectors(x)) <= crashes + Cardinality(Procs)
    BY <1>1, Settled
  <2> QED BY <1>1, <1>4, <1>5, <2>1 DEF TriggerInv, CountShape
<1> QED BY <1>3, <1>6, <1>7, <1>8, <1>9 DEF TriggerInv

-----------------------------------------------------------------------------
(* The loops.                                                              *)

\* A sweep collects Pending triggers only, each once.
LEMMA CollectStep ==
  ASSUME TriggerInv, NEW p \in Procs, collect_due_triggers(p)
  PROVE  TriggerInv'
<1> DEFINE batch == {<<x, trigger[x]>> : x \in {y \in Triggers : DueTrigger(y, at[p])}}
<1>1. /\ pc[p] = "collect" /\ pc' = [pc EXCEPT ![p] = "enqueue"]
      /\ due' = [due EXCEPT ![p] = batch]
      /\ UNCHANGED <<now, trigger, hand, at, job, begun, fired, canceled, crashes>>
  BY DEF collect_due_triggers
<1>2. /\ \A d \in batch : d[1] \in Triggers /\ trigger[d[1]].status = "Pending"
      /\ \A d, e \in batch : d[1] = e[1] => d = e
  BY DEF DueTrigger
<1>3. batch \subseteq Triggers \X Record BY DEF TriggerInv, TriggerTypes
<1> HIDE DEF batch
<1>4. /\ due'[p] = batch /\ due[p] = {} /\ hand[p] = None
      /\ \A q \in Procs \ {p} : due'[q] = due[q] /\ pc'[q] = pc[q]
      /\ pc'[p] = "enqueue"
  BY <1>1 DEF TriggerInv, TriggerTypes, PlaceShape
<1>5. TriggerTypes' BY <1>1, <1>3 DEF TriggerInv, TriggerTypes
<1>6. \A y : Holders(y)' = Holders(y) BY <1>1 DEF Holders
<1>7. \A y \in Triggers : trigger[y].status # "Pending" => Collectors(y)' = Collectors(y)
  BY <1>2, <1>4 DEF Collectors
<1>8. PlaceShape' BY <1>1, <1>4 DEF TriggerInv, PlaceShape
<1>9. TriggerBatchShape' BY <1>1, <1>2, <1>4 DEF TriggerInv, TriggerBatchShape
<1>10. AbsentShape' BY <1>1, <1>6, <1>7 DEF TriggerInv, AbsentShape
<1>11. CancelShape' BY <1>1, <1>6, <1>7 DEF TriggerInv, TriggerTypes, CancelShape
<1>12. CountShape' BY <1>1, <1>6, <1>7 DEF TriggerInv, CountShape
<1> QED BY <1>5, <1>8, <1>9, <1>10, <1>11, <1>12 DEF TriggerInv

\* One more task is in the hand of the loop that had the trigger in its batch.
LEMMA EnqueueStep ==
  ASSUME TriggerInv, NEW p \in Procs, enqueue_trigger(p)
  PROVE  TriggerInv'
<1>1. PICK d \in due[p], o \in {"Fired", "Failed"}, new \in SUBSET Tasks :
        /\ pc[p] = "enqueue" /\ pc' = [pc EXCEPT ![p] = "save"]
        /\ due' = [due EXCEPT ![p] = @ \ {d}]
        /\ hand' = [hand EXCEPT ![p] = <<d[1], [d[2] EXCEPT !.status = o]>>]
        /\ new = {} \/ \E t \in Tasks : new = {t}
        /\ fired' = [fired EXCEPT ![d[1]] = @ \cup new]
        /\ \/ UNCHANGED <<job, begun>>
           \/ \E t \in Tasks : Jobs!Accept(t)
        /\ UNCHANGED <<now, trigger, at, canceled, crashes>>
  <2>1. PICK d \in due[p] :
          /\ due' = [due EXCEPT ![p] = @ \ {d}]
          /\ \/ /\ hand' = [hand EXCEPT ![p] = <<d[1], [d[2] EXCEPT !.status = "Fired"]>>]
                /\ \E t \in Tasks : Jobs!Accept(t)
                                    /\ fired' = [fired EXCEPT ![d[1]] = @ \cup {t}]
             \/ /\ hand' = [hand EXCEPT ![p] = <<d[1], [d[2] EXCEPT !.status = "Failed"]>>]
                /\ UNCHANGED <<job, begun, fired>>
    BY DEF enqueue_trigger
  <2>2. /\ pc[p] = "enqueue" /\ pc' = [pc EXCEPT ![p] = "save"]
        /\ UNCHANGED <<now, trigger, at, canceled, crashes>>
    BY DEF enqueue_trigger
  <2>3. fired = [fired EXCEPT ![d[1]] = @ \cup {}] BY DEF TriggerInv, TriggerTypes
  <2>4. CASE \E t \in Tasks :
               /\ hand' = [hand EXCEPT ![p] = <<d[1], [d[2] EXCEPT !.status = "Fired"]>>]
               /\ Jobs!Accept(t)
               /\ fired' = [fired EXCEPT ![d[1]] = @ \cup {t}]
    <3> PICK t \in Tasks : /\ hand' = [hand EXCEPT ![p] = <<d[1], [d[2] EXCEPT !.status = "Fired"]>>]
                           /\ Jobs!Accept(t)
                           /\ fired' = [fired EXCEPT ![d[1]] = @ \cup {t}]
      BY <2>4
    <3> WITNESS d \in due[p], "Fired" \in {"Fired", "Failed"}, {t} \in SUBSET Tasks
    <3> QED BY <2>1, <2>2
  <2>5. CASE /\ hand' = [hand EXCEPT ![p] = <<d[1], [d[2] EXCEPT !.status = "Failed"]>>]
             /\ UNCHANGED <<job, begun, fired>>
    <3> WITNESS d \in due[p], "Failed" \in {"Fired", "Failed"}, {} \in SUBSET Tasks
    <3> QED BY <2>1, <2>2, <2>3, <2>5
  <2> QED BY <2>1, <2>4, <2>5
<1> DEFINE x == d[1]
           held == <<d[1], [d[2] EXCEPT !.status = o]>>
<1>2. d \in Triggers \X Record /\ x \in Triggers BY <1>1 DEF TriggerInv, TriggerTypes
<1>3. /\ held \in Triggers \X Record /\ held # None
      /\ held[1] = x /\ held[2].status = o
  BY <1>2 DEF Record, Status, None
<1> HIDE DEF held
<1>4. /\ hand' = [hand EXCEPT ![p] = held] /\ hand'[p] = held
      /\ hand[p] = None /\ due'[p] = due[p] \ {d} /\ pc'[p] = "save"
      /\ \A q \in Procs \ {p} : due'[q] = due[q] /\ hand'[q] = hand[q] /\ pc'[q] = pc[q]
  BY <1>1 DEF TriggerInv, TriggerTypes, PlaceShape, held
<1>5. /\ fired'[x] = fired[x] \cup new
      /\ \A y \in Triggers \ {x} : fired'[y] = fired[y]
  BY <1>1, <1>2 DEF TriggerInv, TriggerTypes
<1>6. TriggerTypes'
  <2>1. job' \in [Tasks -> Jobs!JobStatus] /\ begun' \subseteq Tasks
    BY <1>1 DEF TriggerInv, TriggerTypes, Jobs!Accept, Jobs!Become, Jobs!JobStatus
  <2>2. fired' \in [Triggers -> SUBSET Tasks] BY <1>1, <1>2 DEF TriggerInv, TriggerTypes
  <2>3. hand' \in [Procs -> (Triggers \X Record) \cup {None}]
    BY <1>3, <1>4 DEF TriggerInv, TriggerTypes
  <2> QED BY <1>1, <2>1, <2>2, <2>3 DEF TriggerInv, TriggerTypes
<1>7. /\ Holders(x)' = Holders(x) \cup {p} /\ p \notin Holders(x)
      /\ \A y \in Triggers \ {x} : Holders(y)' = Holders(y)
  BY <1>3, <1>4 DEF Holders
<1>8. /\ Collectors(x)' = Collectors(x) \ {p} /\ p \in Collectors(x)
      /\ \A y \in Triggers \ {x} : Collectors(y)' = Collectors(y)
  <2>1. \A e \in due[p] : e[1] = x => e = d BY <1>1 DEF TriggerInv, TriggerBatchShape
  <2> QED BY <1>1, <1>4, <2>1 DEF Collectors
<1>9. PlaceShape' BY <1>3, <1>4 DEF TriggerInv, PlaceShape
<1>10. TriggerBatchShape'
  <2>1. \A e \in due[p] : e[1] = x => e = d BY <1>1 DEF TriggerInv, TriggerBatchShape
  <2> QED BY <1>1, <1>3, <1>4, <2>1 DEF TriggerInv, TriggerBatchShape
<1>11. trigger[x].status # "Absent" /\ x \notin canceled
  BY <1>2, <1>8 DEF TriggerInv, AbsentShape, CancelShape
<1>12. AbsentShape' BY <1>1, <1>5, <1>7, <1>8, <1>11 DEF TriggerInv, AbsentShape
<1>13. CancelShape' BY <1>1, <1>7, <1>8, <1>11 DEF TriggerInv, TriggerTypes, CancelShape
<1>14. CountShape'
  <2>1. IsFiniteSet(fired[x]) /\ Cardinality(fired[x]) \in Nat
    BY <1>2, FS_CardinalityType DEF TriggerInv, CountShape
  <2>2. IsFiniteSet(fired'[x]) /\ Cardinality(fired'[x]) \in Nat
        /\ Cardinality(fired'[x]) <= Cardinality(fired[x]) + 1
    <3>1. CASE new = {} BY <1>5, <2>1, <3>1
    <3>2. CASE \E t \in Tasks : new = {t}
      <4> PICK t \in Tasks : new = {t} BY <3>2
      <4>1. fired'[x] = fired[x] \cup {t} BY <1>5
      <4> QED BY <2>1, <4>1, OneMore
    <3> QED BY <1>1, <3>1, <3>2
  <2>3. Cardinality(Holders(x)') = Cardinality(Holders(x)) + 1
    BY <1>7, LoopsFinite, OneMore
  <2>4. Cardinality(Collectors(x)') = Cardinality(Collectors(x)) - 1
    BY <1>8, LoopsFinite, OneLess
  <2>5. crashes \in Nat BY BoundAssumption DEF TriggerInv, TriggerTypes
  <2>6. /\ trigger[x].status = "Pending" =>
             Cardinality(fired'[x]) <= crashes + Cardinality(Holders(x)')
        /\ trigger[x].status # "Pending" =>
             Cardinality(fired'[x]) + Cardinality(Collectors(x)') <= crashes + Cardinality(Procs)
    <3>1. /\ trigger[x].status = "Pending" =>
               Cardinality(fired[x]) <= crashes + Cardinality(Holders(x))
          /\ trigger[x].status # "Pending" =>
               Cardinality(fired[x]) + Cardinality(Collectors(x)) <= crashes + Cardinality(Procs)
      BY <1>2, <1>11 DEF TriggerInv, CountShape
    <3> QED BY <2>1, <2>2, <2>3, <2>4, <2>5, <3>1, LoopsFinite
  <2> QED BY <1>1, <1>5, <1>7, <1>8, <2>2, <2>6 DEF TriggerInv, CountShape
<1> QED BY <1>6, <1>9, <1>10, <1>12, <1>13, <1>14 DEF TriggerInv

\* The save settles the file: the loop gives back what it held.
LEMMA SaveStep ==
  ASSUME TriggerInv, NEW p \in Procs, save_trigger(p)
  PROVE  TriggerInv'
<1> DEFINE x == hand[p][1]
<1>1. /\ pc[p] = "save" /\ trigger' = [trigger EXCEPT ![x] = hand[p][2]]
      /\ hand' = [hand EXCEPT ![p] = None] /\ pc' = [pc EXCEPT ![p] = "enqueue"]
      /\ UNCHANGED <<now, due, at, job, begun, fired, canceled, crashes>>
  BY DEF save_trigger
<1>2. /\ hand[p] # None /\ hand[p] \in Triggers \X Record
      /\ x \in Triggers /\ hand[p][2] \in Record
      /\ hand[p][2].status \in {"Fired", "Failed"}
  BY <1>1 DEF TriggerInv, TriggerTypes, PlaceShape, TriggerBatchShape
<1>3. /\ trigger'[x] = hand[p][2]
      /\ \A y \in Triggers \ {x} : trigger'[y] = trigger[y]
  BY <1>1, <1>2 DEF TriggerInv, TriggerTypes
<1>4. /\ hand'[p] = None /\ pc'[p] = "enqueue"
      /\ \A q \in Procs \ {p} : hand'[q] = hand[q] /\ pc'[q] = pc[q]
  BY <1>1 DEF TriggerInv, TriggerTypes
<1>5. TriggerTypes' BY <1>1, <1>2 DEF TriggerInv, TriggerTypes
<1>6. \A y : Collectors(y)' = Collectors(y) BY <1>1 DEF Collectors
<1>7. \A y \in Triggers \ {x} : Holders(y)' = Holders(y) BY <1>2, <1>4 DEF Holders
<1>8. p \in Holders(x) BY <1>2 DEF Holders
<1>9. trigger[x].status # "Absent" /\ x \notin canceled
  BY <1>2, <1>8 DEF TriggerInv, AbsentShape, CancelShape
<1>10. PlaceShape' BY <1>1, <1>4 DEF TriggerInv, PlaceShape
<1>11. TriggerBatchShape' BY <1>1, <1>4 DEF TriggerInv, TriggerBatchShape
<1>12. AbsentShape' BY <1>1, <1>2, <1>3, <1>6, <1>7 DEF TriggerInv, AbsentShape
<1>13. CancelShape' BY <1>1, <1>3, <1>6, <1>7, <1>9 DEF TriggerInv, TriggerTypes, CancelShape
<1>14. CountShape'
  <2>1. Cardinality(fired[x]) + Cardinality(Collectors(x)) <= crashes + Cardinality(Procs)
    <3>1. CASE trigger[x].status = "Pending" BY <1>2, <3>1, Settled
    <3>2. CASE trigger[x].status # "Pending" BY <1>2, <1>9, <3>2 DEF TriggerInv, CountShape
    <3> QED BY <3>1, <3>2
  <2> QED BY <1>1, <1>2, <1>3, <1>6, <1>7, <2>1 DEF TriggerInv, CountShape
<1> QED BY <1>5, <1>10, <1>11, <1>12, <1>13, <1>14 DEF TriggerInv

\* A crash lets go of at most one task that was not saved.
LEMMA CrashStep ==
  ASSUME TriggerInv, NEW p \in Procs, LoopDies(p)
  PROVE  TriggerInv'
<1>1. /\ crashes < MaxCrashes /\ crashes' = crashes + 1 /\ pc' = [pc EXCEPT ![p] = "down"]
      /\ due' = [due EXCEPT ![p] = {}] /\ hand' = [hand EXCEPT ![p] = None]
      /\ at' = [at EXCEPT ![p] = 0]
      /\ UNCHANGED <<now, trigger, job, begun, fired, canceled>>
  BY DEF LoopDies
<1>2. /\ hand'[p] = None /\ due'[p] = {} /\ pc'[p] = "down"
      /\ \A q \in Procs \ {p} : hand'[q] = hand[q] /\ due'[q] = due[q] /\ pc'[q] = pc[q]
  BY <1>1 DEF TriggerInv, TriggerTypes
<1>3. crashes \in Nat /\ crashes' \in 0..MaxCrashes
  BY <1>1, BoundAssumption DEF TriggerInv, TriggerTypes
<1>4. TriggerTypes'
  <2>1. at' \in [Procs -> 0..MaxTime] BY <1>1, BoundAssumption DEF TriggerInv, TriggerTypes
  <2> QED BY <1>1, <1>3, <2>1 DEF TriggerInv, TriggerTypes
<1>5. \A y : Holders(y)' = Holders(y) \ {p} /\ Collectors(y)' = Collectors(y) \ {p}
  BY <1>2 DEF Holders, Collectors
<1>6. PlaceShape' BY <1>2 DEF TriggerInv, PlaceShape
<1>7. TriggerBatchShape' BY <1>2 DEF TriggerInv, TriggerBatchShape
<1>8. AbsentShape' BY <1>1, <1>5 DEF TriggerInv, AbsentShape
<1>9. CancelShape' BY <1>1, <1>5 DEF TriggerInv, CancelShape
<1>10. CountShape'
  <2> SUFFICES ASSUME NEW y \in Triggers
               PROVE  /\ IsFiniteSet(fired'[y])
                      /\ trigger'[y].status = "Pending" =>
                           Cardinality(fired'[y]) <= crashes' + Cardinality(Holders(y)')
                      /\ trigger'[y].status \notin {"Pending", "Absent"} =>
                           Cardinality(fired'[y]) + Cardinality(Collectors(y)')
                             <= crashes' + Cardinality(Procs)
    BY DEF CountShape
  <2>1. IsFiniteSet(fired[y]) /\ Cardinality(fired[y]) \in Nat
    BY FS_CardinalityType DEF TriggerInv, CountShape
  <2>2. /\ Cardinality(Holders(y)') \in Nat
        /\ Cardinality(Holders(y)') >= Cardinality(Holders(y)) - 1
    BY <1>5, LoopsFinite, OneLess
  <2>3. /\ Cardinality(Collectors(y)') \in Nat
        /\ Cardinality(Collectors(y)') <= Cardinality(Collectors(y))
    BY <1>5, LoopsFinite, OneLess
  <2>4. /\ trigger[y].status = "Pending" =>
             Cardinality(fired[y]) <= crashes + Cardinality(Holders(y))
        /\ trigger[y].status \notin {"Pending", "Absent"} =>
             Cardinality(fired[y]) + Cardinality(Collectors(y)) <= crashes + Cardinality(Procs)
    BY DEF TriggerInv, CountShape
  <2> QED BY <1>1, <1>3, <2>1, <2>2, <2>3, <2>4, LoopsFinite
<1> QED BY <1>4, <1>6, <1>7, <1>8, <1>9, <1>10 DEF TriggerInv

-----------------------------------------------------------------------------
\* Every step keeps the invariant.
LEMMA NextTriggers == TriggerInv /\ [TriggerNext]_triggerVars => TriggerInv'
<1> SUFFICES ASSUME TriggerInv, [TriggerNext]_triggerVars PROVE TriggerInv' OBVIOUS
<1>1. CASE UNCHANGED triggerVars
  <2>1. TriggerTypes' /\ PlaceShape'
    BY <1>1 DEF triggerVars, loop, TriggerInv, TriggerTypes, PlaceShape
  <2> QED BY <1>1, <2>1, QuietStep DEF triggerVars, loop
<1>2. CASE TriggerClock BY <1>2, TimeStep
<1>3. CASE \E x \in Triggers : SessionStep(x)
  BY <1>3, CreateStep, CancelStep DEF SessionStep
<1>4. CASE \E p \in Procs : LoopStep(p) \/ LoopDies(p)
  BY <1>4, TimeStep, CollectStep, EnqueueStep, SaveStep, CrashStep DEF LoopStep
<1> QED BY <1>1, <1>2, <1>3, <1>4 DEF TriggerNext

\* The invariant holds in every reachable state.
LEMMA TriggerInvariance == TriggerSpec => []TriggerInv
BY InitTriggers, NextTriggers, PTL DEF TriggerSpec

\* However crashes, saves and cancels interleave, a trigger becomes at most one
\* task for each loop and for each crash (fire_due_triggers_shared).
THEOREM FiringsAreBounded == TriggerSpec => []RepeatsBounded
<1>1. TriggerInv => RepeatsBounded
  <2> SUFFICES ASSUME TriggerInv, NEW x \in Triggers
               PROVE  Cardinality(fired[x]) <= Cardinality(Procs) + crashes
    BY DEF RepeatsBounded
  <2>1. Cardinality(fired[x]) \in Nat BY FS_CardinalityType DEF TriggerInv, CountShape
  <2>2. crashes \in Nat BY BoundAssumption DEF TriggerInv, TriggerTypes
  <2>3. CASE trigger[x].status = "Absent"
    <3>1. Cardinality(fired[x]) = 0 BY <2>3, FS_EmptySet DEF TriggerInv, AbsentShape
    <3>2. Cardinality(Procs) \in Nat BY LoopsFinite
    <3> QED BY <2>2, <3>1, <3>2
  <2>4. CASE trigger[x].status = "Pending"
    BY <2>1, <2>2, <2>4, LoopsFinite DEF TriggerInv, CountShape
  <2>5. CASE trigger[x].status \notin {"Pending", "Absent"}
    BY <2>1, <2>2, <2>5, LoopsFinite DEF TriggerInv, CountShape
  <2> QED BY <2>3, <2>4, <2>5
<1> QED BY <1>1, TriggerInvariance, PTL

\* After a cancel that no tick had overtaken the trigger stays Canceled and
\* becomes no task (cancel_trigger_for_owner, collect_due_triggers).
THEOREM CancelsHold == TriggerSpec => CancelHolds
<1>1. TriggerInv /\ TriggerInv' /\ [TriggerNext]_triggerVars =>
        [\A x \in canceled : trigger'[x].status = "Canceled" /\ fired'[x] = fired[x]]_triggerVars
  <2> SUFFICES ASSUME TriggerInv, TriggerInv', [TriggerNext]_triggerVars, NEW x \in canceled
               PROVE  trigger'[x].status = "Canceled" /\ fired'[x] = fired[x]
    OBVIOUS
  <2>1. canceled \subseteq canceled'
    BY DEF TriggerNext, SessionStep, LoopStep, triggerVars, TriggerClock,
           create_trigger, cancel_trigger_for_owner, BeginFiring,
           collect_due_triggers, enqueue_trigger, save_trigger,
           EndFiring, LoopDies, LoopRestarts
  <2>2. trigger'[x].status = "Canceled" BY <2>1 DEF TriggerInv, CancelShape
  <2>3. CASE \E p \in Procs : enqueue_trigger(p)
    <3> PICK p \in Procs : enqueue_trigger(p) BY <2>3
    <3>1. PICK d \in due[p] : \/ \E t \in Tasks : fired' = [fired EXCEPT ![d[1]] = @ \cup {t}]
                              \/ fired' = fired
      BY DEF enqueue_trigger
    <3>2. d[1] # x BY DEF TriggerInv, CancelShape, Collectors
    <3> QED BY <2>2, <3>1, <3>2 DEF TriggerInv, TriggerTypes
  <2>4. CASE ~\E p \in Procs : enqueue_trigger(p)
    BY <2>2, <2>4
    DEF TriggerNext, SessionStep, LoopStep, triggerVars, TriggerClock,
        create_trigger, cancel_trigger_for_owner, BeginFiring,
        collect_due_triggers, save_trigger, EndFiring, LoopDies, LoopRestarts
  <2> QED BY <2>2, <2>3, <2>4
<1> QED BY <1>1, TriggerInvariance, PTL DEF TriggerSpec, CancelHolds
=============================================================================
