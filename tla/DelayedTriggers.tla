-------------------------- MODULE DelayedTriggers --------------------------
(***************************************************************************)
(* One-shot delayed triggers (the send_later tool, stored and fired by     *)
(* crates/tui/src/automation_manager.rs): a session schedules a message,   *)
(* may cancel it while it is pending, and the scheduler loop of a process  *)
(* turns the triggers that are due into durable tasks.                     *)
(*                                                                         *)
(* The manager's mutex covers the collection of due triggers and, later,   *)
(* each save, but not the add_task call in between.                        *)
(***************************************************************************)
EXTENDS AutomationHost

CONSTANTS
  Triggers,    \* trigger ids
  Sessions,    \* sessions that own triggers
  NoOwner,     \* the owner of a legacy record
  MaxCrashes   \* bound: process crashes

ASSUME OwnerAssumption == NoOwner \notin Sessions
ASSUME ProcsAssumption == IsFiniteSet(Procs)
ASSUME BoundAssumption == MaxTime \in Nat \ {0} /\ MaxCrashes \in Nat

VARIABLES
  trigger,     \* triggers/<id>.json
  pc,          \* each loop: "idle", "collect", "enqueue", "save" or "down"
  due,         \* each loop: the records it collected and has yet to fire
  hand,        \* each loop: the record it is firing, with the outcome in it
  at,          \* each loop: the time it read before it took the mutex
  fired,       \* history: trigger -> the tasks it became
  canceled     \* history: triggers canceled while no loop was carrying them

loop == <<pc, due, hand, at>>
triggerVars == <<now, trigger, loop, job, begun, fired, canceled, crashes>>

-----------------------------------------------------------------------------
Status == {"Absent", "Pending", "Fired", "Canceled", "Failed"}
Record == [status : Status, fire_at : Nat, owner : Sessions \cup {NoOwner}]
Absent == [status |-> "Absent", fire_at |-> 0, owner |-> NoOwner]
None   == <<>>   \* no record at hand

TriggerInit ==
  /\ now = 1
  /\ trigger = [x \in Triggers |-> Absent]
  /\ pc = [p \in Procs |-> "idle"]
  /\ due = [p \in Procs |-> {}]
  /\ hand = [p \in Procs |-> None]
  /\ at = [p \in Procs |-> 0]
  /\ Jobs!JobInit
  /\ fired = [x \in Triggers |-> {}]
  /\ canceled = {}
  /\ crashes = 0

TriggerClock ==
  /\ now < MaxTime
  /\ now' = now + 1
  /\ UNCHANGED <<trigger, loop, job, begun, fired, canceled, crashes>>

\* Only a time in the future is accepted.
create_trigger(x, fire_at, owner) ==
  /\ trigger[x] = Absent /\ fire_at > now
  /\ trigger' = [trigger EXCEPT ![x] =
                   [status |-> "Pending", fire_at |-> fire_at, owner |-> owner]]
  /\ UNCHANGED <<now, loop, job, begun, fired, canceled, crashes>>

\* A loop has collected the trigger and has yet to save its outcome.
Carried(x) ==
  \E p \in Procs : (\E d \in due[p] : d[1] = x) \/ (hand[p] # None /\ hand[p][1] = x)

cancel_trigger_for_owner(x, session) ==
  /\ trigger[x].owner = session /\ trigger[x].status = "Pending"
  /\ trigger' = [trigger EXCEPT ![x].status = "Canceled"]
  /\ canceled' = IF Carried(x) THEN canceled ELSE canceled \cup {x}
  /\ UNCHANGED <<now, loop, job, begun, fired, crashes>>

-----------------------------------------------------------------------------
(* fire_due_triggers_shared.                                               *)

BeginFiring(p) ==
  /\ pc[p] = "idle"
  /\ pc' = [pc EXCEPT ![p] = "collect"]
  /\ at' = [at EXCEPT ![p] = now]
  /\ UNCHANGED <<now, trigger, due, hand, job, begun, fired, canceled, crashes>>

\* Mutation: a canceled trigger is collected like a pending one.
MutDueCanceled(x, time) ==
  /\ trigger[x].status \in {"Pending", "Canceled"} /\ trigger[x].owner # NoOwner
  /\ trigger[x].fire_at <= time

DueTrigger(x, time) ==
  /\ trigger[x].status = "Pending" /\ trigger[x].owner # NoOwner
  /\ trigger[x].fire_at <= time

collect_due_triggers(p) ==
  /\ pc[p] = "collect"
  /\ pc' = [pc EXCEPT ![p] = "enqueue"]
  /\ due' = [due EXCEPT ![p] = {<<x, trigger[x]>> : x \in {y \in Triggers : DueTrigger(y, at[p])}}]
  /\ UNCHANGED <<now, trigger, hand, at, job, begun, fired, canceled, crashes>>

\* add_task for one of them, without the mutex.
enqueue_trigger(p) ==
  /\ pc[p] = "enqueue"
  /\ \E d \in due[p] :
       /\ due' = [due EXCEPT ![p] = @ \ {d}]
       /\ \/ /\ hand' = [hand EXCEPT ![p] = <<d[1], [d[2] EXCEPT !.status = "Fired"]>>]
             /\ \E t \in Tasks :
                  /\ Jobs!Accept(t)
                  /\ fired' = [fired EXCEPT ![d[1]] = @ \cup {t}]
          \/ /\ hand' = [hand EXCEPT ![p] = <<d[1], [d[2] EXCEPT !.status = "Failed"]>>]
             /\ UNCHANGED <<job, begun, fired>>
  /\ pc' = [pc EXCEPT ![p] = "save"]
  /\ UNCHANGED <<now, trigger, at, canceled, crashes>>

\* Mutation: only a failed enqueue is written back.
Mutsave_trigger(p) ==
  /\ pc[p] = "save"
  /\ trigger' = IF hand[p][2].status = "Failed"
                THEN [trigger EXCEPT ![hand[p][1]] = hand[p][2]] ELSE trigger
  /\ hand' = [hand EXCEPT ![p] = None]
  /\ pc' = [pc EXCEPT ![p] = "enqueue"]
  /\ UNCHANGED <<now, due, at, job, begun, fired, canceled, crashes>>

\* save_trigger writes the collected record with its outcome over whatever the
\* file says by now.
save_trigger(p) ==
  /\ pc[p] = "save"
  /\ trigger' = [trigger EXCEPT ![hand[p][1]] = hand[p][2]]
  /\ hand' = [hand EXCEPT ![p] = None]
  /\ pc' = [pc EXCEPT ![p] = "enqueue"]
  /\ UNCHANGED <<now, due, at, job, begun, fired, canceled, crashes>>

EndFiring(p) ==
  /\ pc[p] = "enqueue" /\ due[p] = {}
  /\ pc' = [pc EXCEPT ![p] = "idle"]
  /\ at' = [at EXCEPT ![p] = 0]
  /\ UNCHANGED <<now, trigger, due, hand, job, begun, fired, canceled, crashes>>

\* The process ends.  A save_trigger that fails has the same effect on the
\* files: the tick ends and the trigger stays Pending.
LoopDies(p) ==
  /\ pc[p] # "down" /\ crashes < MaxCrashes
  /\ crashes' = crashes + 1
  /\ pc' = [pc EXCEPT ![p] = "down"]
  /\ due' = [due EXCEPT ![p] = {}]
  /\ hand' = [hand EXCEPT ![p] = None]
  /\ at' = [at EXCEPT ![p] = 0]
  /\ UNCHANGED <<now, trigger, job, begun, fired, canceled>>

LoopRestarts(p) ==
  /\ pc[p] = "down"
  /\ pc' = [pc EXCEPT ![p] = "idle"]
  /\ UNCHANGED <<now, trigger, due, hand, at, job, begun, fired, canceled, crashes>>

-----------------------------------------------------------------------------
LoopStep(p) ==
  \/ BeginFiring(p) \/ collect_due_triggers(p) \/ enqueue_trigger(p) \/ save_trigger(p)
  \/ EndFiring(p) \/ LoopRestarts(p)

SessionStep(x) ==
  \/ \E fire_at \in 1..MaxTime, owner \in Sessions \cup {NoOwner} :
       create_trigger(x, fire_at, owner)
  \/ \E session \in Sessions : cancel_trigger_for_owner(x, session)

TriggerNext ==
  \/ TriggerClock
  \/ \E x \in Triggers : SessionStep(x)
  \/ \E p \in Procs : LoopStep(p) \/ LoopDies(p)

TriggerSpec == TriggerInit /\ [][TriggerNext]_triggerVars

-----------------------------------------------------------------------------
\* Type invariant: every variable has its declared shape.
TriggerTypes ==
  /\ now \in 1..MaxTime
  /\ trigger \in [Triggers -> Record]
  /\ pc \in [Procs -> {"idle", "collect", "enqueue", "save", "down"}]
  /\ due \in [Procs -> SUBSET (Triggers \X Record)]
  /\ hand \in [Procs -> (Triggers \X Record) \cup {None}]
  /\ at \in [Procs -> 0..MaxTime]
  /\ job \in [Tasks -> Jobs!JobStatus] /\ begun \subseteq Tasks
  /\ fired \in [Triggers -> SUBSET Tasks]
  /\ canceled \subseteq Triggers
  /\ crashes \in 0..MaxCrashes

\* A trigger becomes one task for each loop on the directory, and one more at
\* most for each crash between add_task and the save; a cancel in between does
\* not make it fire again.
RepeatsBounded ==
  \A x \in Triggers : Cardinality(fired[x]) <= Cardinality(Procs) + crashes

\* A cancel that no tick has overtaken holds: the trigger stays Canceled and
\* becomes no task any more.  (A tick that had collected the trigger before
\* still fires it and writes Fired over the cancel.)
CancelHolds ==
  [][\A x \in canceled :
       trigger'[x].status = "Canceled" /\ fired'[x] = fired[x]]_triggerVars
=============================================================================
