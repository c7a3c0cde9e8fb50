------------------------ MODULE ResourceAdmission ------------------------
(***************************************************************************)
(* Cross-process admission of heavy shell commands                         *)
(* (crates/tui/src/tools/resource_admission.rs) and the life of a permit   *)
(* in the shell tool (crates/tui/src/tools/shell.rs): lock-file slots are  *)
(* tried one by one up to a limit measured beforehand; the permit moves    *)
(* from the tool call into the shell manager's record of the process and   *)
(* is dropped by whoever sees the process end.                             *)
(*                                                                         *)
(* Each command belongs to a process of its own (a Fleet or Workflow       *)
(* worker), which may call again when the command is over; the slots and   *)
(* the memory of the host are shared.                                      *)
(***************************************************************************)
EXTENDS Naturals, FiniteSets

CONSTANTS
  Commands,
  None,
  limit        \* configured_heavy_command_limit

ASSUME NoneAssumption  == None \notin Commands
ASSUME LimitAssumption == limit \in 1..16    \* MAX_HEAVY_COMMAND_LIMIT

VARIABLES
  memory,      \* MemoryPressure of the host
  pc,          \* where the tool call is
  effective,   \* the limit the call measured in this round
  slot,        \* the next slot of the round
  locks,       \* the holder of each heavy-<slot>.lock
  permit,      \* who keeps the permit: the call, the shell's record, nobody
  shell,       \* the record of the process in the shell manager
  reported,    \* completion_reported of the record
  child,       \* the process
  cancelled    \* the cancel token of the call

queue == <<effective, slot>>
vars  == <<memory, pc, queue, locks, permit, shell, reported, child, cancelled>>

Pressures == {"nominal", "constrained", "critical"}
Slots     == 0..limit - 1

Init ==
  /\ memory = "nominal"
  /\ pc = [c \in Commands |-> "new"]
  /\ effective = [c \in Commands |-> 0] /\ slot = [c \in Commands |-> 0]
  /\ locks = [s \in Slots |-> None]
  /\ permit = [c \in Commands |-> "none"]
  /\ shell = [c \in Commands |-> "none"]
  /\ reported = [c \in Commands |-> FALSE]
  /\ child = [c \in Commands |-> "none"]
  /\ cancelled = [c \in Commands |-> FALSE]

-----------------------------------------------------------------------------
(* Queueing for a permit.                                                  *)

\* effective_admission_limit; an unmeasurable host counts as nominal.
effective_admission_limit(pressure) ==
  CASE pressure = "critical"    -> 0
    [] pressure = "constrained" -> (limit + 1) \div 2
    [] OTHER                    -> limit

Goto(c, label) == pc' = [pc EXCEPT ![c] = label]
Call == <<permit, shell, reported, child>>

\* A call starts to wait, the first of its process or one after another: c
\* then stands for the new command, and what the last one left behind is no
\* longer followed.
Queue(c) ==
  /\ pc[c] \in {"new", "returned", "left", "crashed"} /\ Goto(c, "queued")
  /\ permit[c] = "none" /\ shell[c] # "running"
  /\ shell' = [shell EXCEPT ![c] = "none"] /\ child' = [child EXCEPT ![c] = "none"]
  /\ reported' = [reported EXCEPT ![c] = FALSE]
  /\ cancelled' = [cancelled EXCEPT ![c] = FALSE]
  /\ UNCHANGED <<memory, queue, locks, permit>>

LeaveQueue(c) ==
  /\ pc[c] = "queued" /\ cancelled[c]
  /\ Goto(c, "left")
  /\ UNCHANGED <<memory, queue, locks, Call, cancelled>>

Measure(c) ==
  /\ pc[c] = "queued" /\ ~cancelled[c]
  /\ effective' = [effective EXCEPT ![c] = effective_admission_limit(memory)]
  /\ Goto(c, "trying")
  /\ UNCHANGED <<memory, slot, locks, Call, cancelled>>

\* The round is over: its locals are dead.
Over(c) == /\ effective' = [effective EXCEPT ![c] = 0]
           /\ slot' = [slot EXCEPT ![c] = 0]

Round(c) == pc[c] = "trying" /\ slot[c] < effective[c]

\* try_lock_slot: never waits.
TryLock(c) ==
  /\ Round(c)
  /\ \/ /\ locks[slot[c]] = None
        /\ locks' = [locks EXCEPT ![slot[c]] = c]
        /\ permit' = [permit EXCEPT ![c] = "call"]
        /\ Goto(c, "admitted") /\ Over(c)
     \/ /\ locks[slot[c]] # None
        /\ slot' = [slot EXCEPT ![c] = @ + 1]
        /\ UNCHANGED <<pc, effective, locks, permit>>
  /\ UNCHANGED <<memory, shell, reported, child, cancelled>>

\* Opening or locking the file fails.
LockError(c) ==
  /\ Round(c) /\ Goto(c, "left") /\ Over(c)
  /\ UNCHANGED <<memory, locks, Call, cancelled>>


\* The sleep until the next round.
RoundEnds(c) ==
  /\ pc[c] = "trying" /\ ~Round(c) /\ Goto(c, "queued") /\ Over(c)
  /\ UNCHANGED <<memory, locks, Call, cancelled>>

-----------------------------------------------------------------------------
(* Running the command.                                                    *)

\* Dropping a HeavyCommandPermit unlocks its slot.
DropPermit(c) ==
  /\ permit' = [permit EXCEPT ![c] = "none"]
  /\ locks'  = [s \in Slots |-> IF locks[s] = c THEN None ELSE locks[s]]

\* heavy_permit.take() of a record: nothing when the record has none.
Take(c) == IF permit[c] = "record" THEN DropPermit(c) ELSE UNCHANGED <<permit, locks>>

Start(c) ==
  /\ pc[c] = "admitted"
  /\ child' = [child EXCEPT ![c] = "alive"]
  /\ UNCHANGED <<memory, queue, locks, reported, cancelled>>

\* Interactive commands and external sandboxes: the call keeps the permit.
RunInline(c) == Start(c) /\ Goto(c, "inline") /\ UNCHANGED <<shell, permit>>

InlineEnds(c) ==
  /\ pc[c] = "inline" /\ child[c] = "exited"
  /\ Goto(c, "returned") /\ DropPermit(c)
  /\ UNCHANGED <<memory, queue, shell, reported, child, cancelled>>

SpawnFails(c) ==
  /\ pc[c] = "admitted" /\ Goto(c, "left") /\ DropPermit(c)
  /\ UNCHANGED <<memory, queue, shell, reported, child, cancelled>>

\* Background: spawned and given its permit under one lock of the manager.
SpawnBackground(c) ==
  /\ Start(c) /\ Goto(c, "returned")
  /\ shell' = [shell EXCEPT ![c] = "running"]
  /\ permit' = [permit EXCEPT ![c] = "record"]

\* Foreground: the lock is released between the spawn and the permit.
SpawnForeground(c) ==
  /\ Start(c) /\ Goto(c, "spawned")
  /\ shell' = [shell EXCEPT ![c] = "running"]
  /\ UNCHANGED permit

\* Mutation: the permit is dropped with the call's local variables.
MutAttach(c) ==
  /\ pc[c] = "spawned" /\ DropPermit(c)
  /\ Goto(c, IF shell[c] \in {"running", "finished"} THEN "waiting" ELSE "returned")
  /\ UNCHANGED <<memory, queue, shell, reported, child, cancelled>>

\* attach_heavy_permit: on the record, whatever its status; an evicted
\* record fails the call, which drops the permit.
Attach(c) ==
  /\ pc[c] = "spawned"
  /\ \/ /\ shell[c] \in {"running", "finished"}
        /\ permit' = [permit EXCEPT ![c] = "record"] /\ UNCHANGED locks
        /\ Goto(c, "waiting")
     \/ /\ shell[c] \notin {"running", "finished"}
        /\ DropPermit(c) /\ Goto(c, "returned")
  /\ UNCHANGED <<memory, queue, shell, reported, child, cancelled>>

-----------------------------------------------------------------------------
(* The record of the process.                                              *)

Listed(c) == shell[c] \in {"running", "finished"}

\* BackgroundShell::poll: the permit goes when the end is first seen.  A
\* try_wait that fails counts as the end, whatever the process does.
poll(c) ==
  \/ /\ shell[c] = "running"
     /\ shell' = [shell EXCEPT ![c] = "finished"] /\ Take(c)
  \/ /\ ~(shell[c] = "running" /\ child[c] = "exited")
     /\ UNCHANGED <<shell, permit, locks>>

\* BackgroundShell::kill
kill(c) ==
  /\ child' = [child EXCEPT ![c] = "exited"]
  /\ shell' = [shell EXCEPT ![c] = "finished"]
  /\ Take(c)

Report(c) == reported' = [reported EXCEPT ![c] = @ \/ shell'[c] = "finished"]

\* One turn of the foreground loop: cancel, "move to background", the end of
\* the process, the deadline; a record that is gone fails the call.
Tick(c) ==
  /\ pc[c] = "waiting"
  /\ \/ /\ Listed(c) /\ (cancelled[c] \/ (shell[c] = "running" /\ child[c] = "alive"))
        /\ kill(c) /\ Report(c) /\ Goto(c, "returned")
     \/ /\ Listed(c) /\ ~cancelled[c]
        /\ poll(c) /\ Goto(c, "returned") /\ UNCHANGED <<reported, child>>
     \/ /\ Listed(c) /\ ~cancelled[c]
        /\ poll(c) /\ shell'[c] = "finished" /\ Report(c)
        /\ Goto(c, "returned") /\ UNCHANGED child
     \/ /\ ~Listed(c)
        /\ Goto(c, "returned") /\ UNCHANGED <<Call, locks>>
  /\ UNCHANGED <<memory, queue, cancelled>>

\* list_jobs and the other views; the drain at the start of a model step
\* also takes the completion.
Jobs(c) ==
  /\ Listed(c) /\ poll(c)
  /\ UNCHANGED <<memory, pc, queue, reported, child, cancelled>>

Drain(c) ==
  /\ Listed(c) /\ poll(c) /\ Report(c)
  /\ UNCHANGED <<memory, pc, queue, child, cancelled>>

Kill(c) ==
  /\ Listed(c) /\ kill(c)
  /\ UNCHANGED <<memory, pc, queue, reported, cancelled>>

\* cleanup: a finished record is dropped, an hour old or one too many.
Evict(c) ==
  /\ shell[c] = "finished"
  /\ shell' = [shell EXCEPT ![c] = "gone"] /\ Take(c)
  /\ UNCHANGED <<memory, pc, queue, reported, child, cancelled>>

\* commit_persistent_services: the process leaves the manager's ownership.
Release(c) ==
  /\ pc[c] = "returned" /\ shell[c] = "running" /\ child[c] = "alive"
  /\ shell' = [shell EXCEPT ![c] = "released"] /\ Take(c)
  /\ UNCHANGED <<memory, pc, queue, reported, child, cancelled>>

-----------------------------------------------------------------------------
(* The environment: the process of the command, its user, the host.        *)

ChildExits(c) ==
  /\ child[c] = "alive"
  /\ child' = [child EXCEPT ![c] = "exited"]
  /\ UNCHANGED <<memory, pc, queue, locks, permit, shell, reported, cancelled>>

Cancel(c) ==
  /\ ~cancelled[c] /\ pc[c] \in {"queued", "trying", "waiting"}
  /\ cancelled' = [cancelled EXCEPT ![c] = TRUE]
  /\ UNCHANGED <<memory, pc, queue, locks, Call>>

\* The Ghosty process dies: its locks are gone, the command may run on.
Crash(c) ==
  /\ pc[c] \notin {"new", "left", "crashed"}
  /\ Goto(c, "crashed") /\ DropPermit(c) /\ Over(c)
  /\ shell' = [shell EXCEPT ![c] = "gone"]
  /\ UNCHANGED <<memory, reported, child, cancelled>>

MemoryChanges ==
  /\ memory' \in Pressures \ {memory}
  /\ UNCHANGED <<pc, queue, locks, Call, cancelled>>

-----------------------------------------------------------------------------
Admission(c) == LeaveQueue(c) \/ Measure(c) \/ TryLock(c) \/ RoundEnds(c)
Running(c)   == RunInline(c) \/ SpawnBackground(c) \/ SpawnForeground(c)
                  \/ Attach(c) \/ Tick(c) \/ InlineEnds(c)

Next ==
  \/ MemoryChanges
  \/ \E c \in Commands :
       Queue(c) \/ Admission(c) \/ LockError(c) \/ Running(c) \/ SpawnFails(c)
         \/ Jobs(c) \/ Drain(c) \/ Kill(c) \/ Evict(c) \/ Release(c)
         \/ ChildExits(c) \/ Cancel(c) \/ Crash(c)

Spec == Init /\ [][Next]_vars

\* A process that lives looks at a command that ended: the TUI lists its jobs
\* on every refresh, and every model step drains the completions.
SeesEnd(c) == /\ shell[c] = "running" /\ child[c] = "exited"
              /\ Jobs(c) \/ Drain(c)

\* The runtime polls the calls, and commands end: one that never does keeps
\* its slot.  Nothing makes a process list its jobs and so drop old records
\* (Evict), and nothing orders the waiting calls.
FairSpec ==
  /\ Spec
  /\ \A c \in Commands :
       /\ WF_vars(Admission(c)) /\ WF_vars(Running(c)) /\ WF_vars(ChildExits(c))
       /\ WF_vars(SeesEnd(c))

-----------------------------------------------------------------------------
\* Type invariant: every variable has its declared shape.
TypeOK ==
  /\ memory \in Pressures
  /\ pc \in [Commands -> {"new", "queued", "trying", "admitted", "spawned",
                          "waiting", "inline", "returned", "left", "crashed"}]
  /\ effective \in [Commands -> 0..limit] /\ slot \in [Commands -> 0..limit]
  /\ locks \in [Slots -> Commands \cup {None}]
  /\ permit \in [Commands -> {"none", "call", "record"}]
  /\ shell \in [Commands -> {"none", "running", "finished", "gone", "released"}]
  /\ reported \in [Commands -> BOOLEAN]
  /\ child \in [Commands -> {"none", "alive", "exited"}]
  /\ cancelled \in [Commands -> BOOLEAN]

\* The commands that run on behalf of a live Ghosty process.
Managed == {c \in Commands : child[c] = "alive"
                             /\ (shell[c] = "running" \/ pc[c] = "inline")}

\* Never more heavy commands than the limit, over all processes, although the
\* permit changes hands after the spawn and is dropped by whoever sees the
\* end (cross_task_heavy_admission_never_exceeds_limit, attach_heavy_permit).
HeavyWithinLimit == Cardinality(Managed) <= limit

\* attach_heavy_permit gave the permit to a record that had already finished:
\* nobody takes it from there before the record is dropped.
HeldByFinished == \E d \in Commands : shell[d] = "finished" /\ permit[d] = "record"

=============================================================================
