---------------------- MODULE ResourceAdmissionProofs ----------------------
(***************************************************************************)
(* Proof that the heavy commands of all processes together stay within the *)
(* limit, for any number of commands and any limit.                        *)
(*                                                                         *)
(* HeavyWithinLimit says nothing of permits, so it is not inductive.  The  *)
(* invariant behind it: a command that runs on behalf of a live process    *)
(* has a permit with its call or with its record (RunningHasPermit), the   *)
(* call's permit is not mistaken for the record's before attach_heavy_     *)
(* permit (CallKeepsPermit), and a permit is a slot whose lock file is     *)
(* held by this command (PermitHasSlot).  A slot has one holder, so the    *)
(* commands inject into the slots.                                         *)
(***************************************************************************)
EXTENDS ResourceAdmission, FiniteSetTheorems, TLAPS

\* A permit is a locked slot.
PermitHasSlot ==
  \A c \in Commands : permit[c] # "none" => \E s \in Slots : locks[s] = c

\* Between the admission and the hand-over the permit is the call's.
CallKeepsPermit ==
  \A c \in Commands : pc[c] \in {"admitted", "inline", "spawned"} => permit[c] = "call"

\* A record that counts as running, with a process, has a permit.
RunningHasPermit ==
  \A c \in Commands :
    shell[c] = "running" /\ child[c] = "alive" => permit[c] # "none"

\* There is no record before the spawn, and none for an inline command.
NoEarlyRecord ==
  \A c \in Commands :
    pc[c] \in {"new", "queued", "trying", "admitted", "inline", "left"} => shell[c] = "none"

Owned == PermitHasSlot /\ CallKeepsPermit /\ RunningHasPermit /\ NoEarlyRecord
IInv  == TypeOK /\ Owned

-----------------------------------------------------------------------------
\* The measured limit never exceeds the configured one.
LEMMA LimitBounds ==
  ASSUME NEW p \in Pressures
  PROVE  effective_admission_limit(p) \in 0..limit
BY LimitAssumption, SMT DEF effective_admission_limit, Pressures

\* Initially nobody holds anything.
LEMMA InitIInv == Init => IInv
<1> SUFFICES ASSUME Init PROVE IInv OBVIOUS
<1>1. TypeOK BY LimitAssumption DEF Init, TypeOK, Pressures
<1>2. Owned
  BY DEF Init, Owned, PermitHasSlot, CallKeepsPermit, RunningHasPermit, NoEarlyRecord
<1> QED BY <1>1, <1>2 DEF IInv

-----------------------------------------------------------------------------
(* Queueing.                                                               *)

\* Steps of the queue that hold nothing keep the invariant.
LEMMA WaitStep ==
  ASSUME NEW c \in Commands, IInv,
         LeaveQueue(c) \/ Measure(c) \/ LockError(c) \/ RoundEnds(c)
  PROVE  IInv'
<1>1. permit' = permit /\ locks' = locks /\ shell' = shell /\ child' = child
  BY DEF LeaveQueue, Measure, LockError, RoundEnds, Call
<1>2. PICK l \in {"queued", "left", "trying"} : pc' = [pc EXCEPT ![c] = l]
  BY DEF LeaveQueue, Measure, LockError, RoundEnds, Goto
<1>3. pc[c] \in {"queued", "trying"}
  BY DEF LeaveQueue, Measure, LockError, RoundEnds, Round
<1>4. effective_admission_limit(memory) \in 0..limit
  BY LimitBounds DEF IInv, TypeOK
<1>5. TypeOK'
  BY <1>1, <1>2, <1>4, LimitAssumption
  DEF IInv, TypeOK, LeaveQueue, Measure, LockError, RoundEnds, Over, Call, queue
<1>6. Owned'
  BY <1>1, <1>2, <1>3
  DEF IInv, TypeOK, Owned, PermitHasSlot, CallKeepsPermit, RunningHasPermit, NoEarlyRecord
<1> QED BY <1>5, <1>6 DEF IInv

\* Locking a slot takes it from nobody.
LEMMA TryLockStep ==
  ASSUME NEW c \in Commands, IInv, TryLock(c)
  PROVE  IInv'
<1>1. slot[c] \in Slots /\ slot[c] + 1 \in 0..limit
  BY LimitAssumption DEF IInv, TypeOK, TryLock, Round, Slots
<1>2. CASE locks[slot[c]] = None
  <2>1. /\ locks' = [locks EXCEPT ![slot[c]] = c]
        /\ permit' = [permit EXCEPT ![c] = "call"]
        /\ pc' = [pc EXCEPT ![c] = "admitted"]
        /\ Over(c)
        /\ UNCHANGED <<memory, shell, reported, child, cancelled>>
        /\ pc[c] = "trying"
    BY <1>2 DEF TryLock, Goto, Round
  <2>2. TypeOK'
    BY <1>1, <2>1, LimitAssumption DEF IInv, TypeOK, Over
  <2>3. PermitHasSlot'
    <3> SUFFICES ASSUME NEW d \in Commands, permit'[d] # "none"
                 PROVE  \E s \in Slots : locks'[s] = d
      BY DEF PermitHasSlot
    <3>1. CASE d = c
      BY <1>1, <2>1, <3>1 DEF IInv, TypeOK
    <3>2. CASE d # c
      <4>1. permit[d] # "none" BY <2>1, <3>2 DEF IInv, TypeOK
      <4>2. PICK s \in Slots : locks[s] = d
        BY <4>1 DEF IInv, Owned, PermitHasSlot
      <4>3. s # slot[c] BY <1>2, <4>2, NoneAssumption
      <4> QED BY <2>1, <4>2, <4>3 DEF IInv, TypeOK
    <3> QED BY <3>1, <3>2
  <2>4. CallKeepsPermit' /\ RunningHasPermit' /\ NoEarlyRecord'
    BY <2>1 DEF IInv, TypeOK, Owned, CallKeepsPermit, RunningHasPermit, NoEarlyRecord
  <2> QED BY <2>2, <2>3, <2>4 DEF IInv, Owned
<1>3. CASE locks[slot[c]] # None
  <2>1. /\ slot' = [slot EXCEPT ![c] = @ + 1]
        /\ UNCHANGED <<pc, effective, locks, permit, memory, shell, reported, child, cancelled>>
    BY <1>3 DEF TryLock
  <2>2. TypeOK' BY <1>1, <2>1 DEF IInv, TypeOK
  <2>3. Owned'
    BY <2>1 DEF IInv, Owned, PermitHasSlot, CallKeepsPermit, RunningHasPermit, NoEarlyRecord
  <2> QED BY <2>2, <2>3 DEF IInv
<1> QED BY <1>2, <1>3

-----------------------------------------------------------------------------
(* The permit changes hands and is dropped.                                *)

\* Dropping c's permit leaves every other permit its slot.
LEMMA DropFacts ==
  ASSUME NEW c \in Commands, IInv, DropPermit(c)
  PROVE  /\ permit' \in [Commands -> {"none", "call", "record"}]
         /\ locks' \in [Slots -> Commands \cup {None}]
         /\ PermitHasSlot'
         /\ permit'[c] = "none"
         /\ \A d \in Commands \ {c} : permit'[d] = permit[d]
<1>1. /\ permit' = [permit EXCEPT ![c] = "none"]
      /\ locks' = [s \in Slots |-> IF locks[s] = c THEN None ELSE locks[s]]
  BY DEF DropPermit
<1>2. /\ permit' \in [Commands -> {"none", "call", "record"}]
      /\ locks' \in [Slots -> Commands \cup {None}]
      /\ permit'[c] = "none"
      /\ \A d \in Commands \ {c} : permit'[d] = permit[d]
  BY <1>1 DEF IInv, TypeOK
<1>3. PermitHasSlot'
  BY <1>1, <1>2 DEF IInv, Owned, TypeOK, PermitHasSlot
<1> QED BY <1>2, <1>3

\* heavy_permit.take() does the same, or nothing.
LEMMA TakeFacts ==
  ASSUME NEW c \in Commands, IInv, Take(c)
  PROVE  /\ permit' \in [Commands -> {"none", "call", "record"}]
         /\ locks' \in [Slots -> Commands \cup {None}]
         /\ PermitHasSlot'
         /\ permit[c] = "call" => permit'[c] = "call"
         /\ \A d \in Commands \ {c} : permit'[d] = permit[d]
<1>1. CASE permit[c] = "record"
  BY <1>1, DropFacts DEF Take
<1>2. CASE permit[c] # "record"
  <2>1. permit' = permit /\ locks' = locks BY <1>2 DEF Take
  <2> QED BY <2>1 DEF IInv, TypeOK, Owned, PermitHasSlot
<1> QED BY <1>1, <1>2

\* The conjuncts about one command, given what a step does to it alone.
LEMMA OnlyOne ==
  ASSUME NEW c \in Commands, IInv,
         \A d \in Commands \ {c} :
           /\ pc'[d] = pc[d] /\ shell'[d] = shell[d] /\ child'[d] = child[d]
           /\ permit'[d] = permit[d],
         pc'[c] \in {"admitted", "inline", "spawned"} => permit'[c] = "call",
         shell'[c] = "running" /\ child'[c] = "alive" => permit'[c] # "none",
         pc'[c] \in {"new", "queued", "trying", "admitted", "inline", "left"} => shell'[c] = "none"
  PROVE  CallKeepsPermit' /\ RunningHasPermit' /\ NoEarlyRecord'
BY DEF IInv, Owned, CallKeepsPermit, RunningHasPermit, NoEarlyRecord

\* A new call holds nothing yet, and what the last one left is not its own.
LEMMA QueueStep ==
  ASSUME NEW c \in Commands, IInv, Queue(c)
  PROVE  IInv'
<1>1. /\ permit' = permit /\ locks' = locks /\ permit[c] = "none"
      /\ pc' = [pc EXCEPT ![c] = "queued"]
      /\ shell' = [shell EXCEPT ![c] = "none"]
      /\ child' = [child EXCEPT ![c] = "none"]
  BY DEF Queue, Goto
<1>2. TypeOK' BY <1>1 DEF Queue, IInv, TypeOK, queue
<1>3. PermitHasSlot' BY <1>1 DEF IInv, Owned, PermitHasSlot
<1>4. CallKeepsPermit' /\ RunningHasPermit' /\ NoEarlyRecord'
  BY <1>1, OnlyOne DEF IInv, TypeOK
<1> QED BY <1>2, <1>3, <1>4 DEF IInv, Owned

\* Starting the command, however it is run.
LEMMA StartStep ==
  ASSUME NEW c \in Commands, IInv,
         RunInline(c) \/ SpawnBackground(c) \/ SpawnForeground(c)
  PROVE  IInv'
<1>1. /\ pc[c] = "admitted" /\ permit[c] = "call" /\ shell[c] = "none"
      /\ child' = [child EXCEPT ![c] = "alive"]
      /\ UNCHANGED <<memory, queue, locks, reported, cancelled>>
  BY DEF RunInline, SpawnBackground, SpawnForeground, Start, IInv, Owned,
         CallKeepsPermit, NoEarlyRecord
<1>2. PICK l \in {"inline", "returned", "spawned"} : pc' = [pc EXCEPT ![c] = l]
  BY DEF RunInline, SpawnBackground, SpawnForeground, Goto
<1>3. shell' = shell \/ shell' = [shell EXCEPT ![c] = "running"]
  BY DEF RunInline, SpawnBackground, SpawnForeground
<1>4. permit' = permit \/ permit' = [permit EXCEPT ![c] = "record"]
  BY DEF RunInline, SpawnBackground, SpawnForeground
<1>5. TypeOK' BY <1>1, <1>2, <1>3, <1>4 DEF IInv, TypeOK, queue
<1>6. PermitHasSlot'
  BY <1>1, <1>4 DEF IInv, Owned, TypeOK, PermitHasSlot
<1>7. CallKeepsPermit' /\ RunningHasPermit' /\ NoEarlyRecord'
  <2>1. permit'[c] # "none" BY <1>1, <1>4 DEF IInv, TypeOK
  <2>2. pc'[c] \in {"admitted", "inline", "spawned"} => permit'[c] = "call"
    BY <1>1 DEF RunInline, SpawnBackground, SpawnForeground, Goto, IInv, TypeOK
  <2>3. pc'[c] \in {"new", "queued", "trying", "admitted", "inline", "left"} => shell'[c] = "none"
    BY <1>1 DEF RunInline, SpawnBackground, SpawnForeground, Goto, IInv, TypeOK
  <2>4. \A d \in Commands \ {c} :
           /\ pc'[d] = pc[d] /\ shell'[d] = shell[d] /\ child'[d] = child[d]
           /\ permit'[d] = permit[d]
    BY <1>1, <1>2, <1>3, <1>4 DEF IInv, TypeOK
  <2> QED BY <2>1, <2>2, <2>3, <2>4, OnlyOne
<1> QED BY <1>5, <1>6, <1>7 DEF IInv, Owned

\* The call ends and drops its permit: the command ended inline, could not be
\* spawned, or its process died.
LEMMA DropStep ==
  ASSUME NEW c \in Commands, IInv, InlineEnds(c) \/ SpawnFails(c) \/ Crash(c)
  PROVE  IInv'
<1>1. DropPermit(c) BY DEF InlineEnds, SpawnFails, Crash
<1>2. PICK l \in {"returned", "left", "crashed"} : pc' = [pc EXCEPT ![c] = l]
  BY DEF InlineEnds, SpawnFails, Crash, Goto
<1>3. shell' = shell \/ shell' = [shell EXCEPT ![c] = "gone"]
  BY DEF InlineEnds, SpawnFails, Crash
<1>4. child' = child /\ memory' = memory /\ reported' = reported /\ cancelled' = cancelled
  BY DEF InlineEnds, SpawnFails, Crash
<1>5. effective' \in [Commands -> 0..limit] /\ slot' \in [Commands -> 0..limit]
  BY LimitAssumption DEF InlineEnds, SpawnFails, Crash, Over, queue, IInv, TypeOK
<1>6. shell'[c] # "running" /\ (pc'[c] = "left" => shell'[c] = "none")
  BY DEF InlineEnds, SpawnFails, Crash, IInv, TypeOK, Owned, NoEarlyRecord, Goto
<1>7. TypeOK'
  BY <1>1, <1>2, <1>3, <1>4, <1>5, DropFacts DEF IInv, TypeOK
<1>8. \A d \in Commands \ {c} :
         /\ pc'[d] = pc[d] /\ shell'[d] = shell[d] /\ child'[d] = child[d]
         /\ permit'[d] = permit[d]
  BY <1>1, <1>2, <1>3, <1>4, DropFacts DEF IInv, TypeOK
<1>9. pc'[c] \in {"returned", "left", "crashed"} BY <1>2 DEF IInv, TypeOK
<1>10. CallKeepsPermit' /\ RunningHasPermit' /\ NoEarlyRecord'
  BY <1>6, <1>8, <1>9, OnlyOne
<1> QED BY <1>1, <1>7, <1>10, DropFacts DEF IInv, Owned

\* attach_heavy_permit gives the permit to a record that is still there.
LEMMA AttachStep ==
  ASSUME NEW c \in Commands, IInv, Attach(c)
  PROVE  IInv'
<1>1. pc[c] = "spawned" /\ permit[c] = "call"
  BY DEF Attach, IInv, Owned, CallKeepsPermit
<1>2. UNCHANGED <<memory, queue, shell, reported, child, cancelled>>
  BY DEF Attach
<1>3. CASE shell[c] \in {"running", "finished"}
  <2>1. permit' = [permit EXCEPT ![c] = "record"] /\ locks' = locks
        /\ pc' = [pc EXCEPT ![c] = "waiting"]
    BY <1>3 DEF Attach, Goto
  <2>2. TypeOK' BY <1>2, <2>1 DEF IInv, TypeOK, queue
  <2>3. PermitHasSlot' BY <1>1, <2>1 DEF IInv, Owned, TypeOK, PermitHasSlot
  <2>4. CallKeepsPermit' /\ RunningHasPermit' /\ NoEarlyRecord'
    BY <1>2, <2>1 DEF IInv, Owned, TypeOK, CallKeepsPermit, RunningHasPermit, NoEarlyRecord
  <2> QED BY <2>2, <2>3, <2>4 DEF IInv, Owned
<1>4. CASE shell[c] \notin {"running", "finished"}
  <2>1. DropPermit(c) /\ pc' = [pc EXCEPT ![c] = "returned"]
    BY <1>4 DEF Attach, Goto
  <2>2. TypeOK' BY <1>2, <2>1, DropFacts DEF IInv, TypeOK, queue
  <2>3. CallKeepsPermit' /\ RunningHasPermit' /\ NoEarlyRecord'
    BY <1>2, <1>4, <2>1, DropFacts
    DEF IInv, Owned, TypeOK, CallKeepsPermit, RunningHasPermit, NoEarlyRecord
  <2> QED BY <2>1, <2>2, <2>3, DropFacts DEF IInv, Owned
<1> QED BY <1>3, <1>4

-----------------------------------------------------------------------------
(* The record.                                                             *)

\* Whoever sees the end of the process, kills it, or gives the record up: the
\* record stops counting as running in the step that takes its permit.
LEMMA RecordGone ==
  ASSUME NEW c \in Commands, IInv, Take(c),
         NEW new \in {"finished", "gone", "released"},
         shell' = [shell EXCEPT ![c] = new],
         child' = child \/ child' = [child EXCEPT ![c] = "exited"],
         pc' = pc \/ pc' = [pc EXCEPT ![c] = "returned"],
         shell[c] # "none",
         reported' \in [Commands -> BOOLEAN],
         UNCHANGED <<memory, queue, cancelled>>
  PROVE  IInv'
<1>1. TypeOK' BY TakeFacts DEF IInv, TypeOK, queue
<1>2. shell'[c] = new BY DEF IInv, TypeOK
<1>3. \A d \in Commands \ {c} :
         /\ pc'[d] = pc[d] /\ shell'[d] = shell[d] /\ child'[d] = child[d]
         /\ permit'[d] = permit[d]
  BY TakeFacts DEF IInv, TypeOK
<1>4. pc'[c] \in {"admitted", "inline", "spawned"} => permit'[c] = "call"
  BY TakeFacts DEF IInv, TypeOK, Owned, CallKeepsPermit
<1>5. pc'[c] \notin {"new", "queued", "trying", "admitted", "inline", "left"}
  BY DEF IInv, TypeOK, Owned, NoEarlyRecord
<1>6. CallKeepsPermit' /\ RunningHasPermit' /\ NoEarlyRecord'
  BY <1>2, <1>3, <1>4, <1>5, OnlyOne
<1> QED BY <1>1, <1>6, TakeFacts DEF IInv, Owned

\* The record is only looked at.
LEMMA RecordKept ==
  ASSUME NEW c \in Commands, IInv,
         UNCHANGED <<shell, permit, locks, child, memory, queue, cancelled>>,
         reported' \in [Commands -> BOOLEAN],
         pc' = pc \/ (pc[c] = "waiting" /\ pc' = [pc EXCEPT ![c] = "returned"])
  PROVE  IInv'
<1>1. TypeOK' BY DEF IInv, TypeOK, queue
<1>2. Owned'
  BY DEF IInv, TypeOK, Owned, PermitHasSlot, CallKeepsPermit, RunningHasPermit, NoEarlyRecord
<1> QED BY <1>1, <1>2 DEF IInv

\* completion_reported stays a flag.
LEMMA ReportTyped ==
  ASSUME NEW c \in Commands, IInv, Report(c)
  PROVE  reported' \in [Commands -> BOOLEAN]
BY DEF Report, IInv, TypeOK

\* One look at the process, with whatever the caller does about the result.
LEMMA PollStep ==
  ASSUME NEW c \in Commands, IInv, Listed(c), poll(c),
         UNCHANGED <<child, memory, queue, cancelled>>,
         reported' \in [Commands -> BOOLEAN],
         pc' = pc \/ (pc[c] = "waiting" /\ pc' = [pc EXCEPT ![c] = "returned"])
  PROVE  IInv'
<1>1. CASE shell[c] = "running" /\ shell' = [shell EXCEPT ![c] = "finished"] /\ Take(c)
  BY <1>1, RecordGone
<1>2. CASE UNCHANGED <<shell, permit, locks>>
  BY <1>2, RecordKept
<1> QED BY <1>1, <1>2 DEF poll

\* Every step of the manager on a record.
LEMMA RecordStep ==
  ASSUME NEW c \in Commands, IInv,
         Tick(c) \/ Jobs(c) \/ Drain(c) \/ Kill(c) \/ Evict(c) \/ Release(c)
  PROVE  IInv'
<1>0. reported \in [Commands -> BOOLEAN] BY DEF IInv, TypeOK
<1>1. CASE Tick(c)
  <2>1. /\ pc[c] = "waiting"
        /\ UNCHANGED <<memory, queue, cancelled>>
        /\ pc' = [pc EXCEPT ![c] = "returned"]
    BY <1>1 DEF Tick, Goto
  <2>2. CASE Listed(c) /\ kill(c) /\ Report(c)
    BY <2>1, <2>2, RecordGone, ReportTyped DEF kill, Listed
  <2>3. CASE Listed(c) /\ poll(c) /\ UNCHANGED <<reported, child>>
    BY <1>0, <2>1, <2>3, PollStep
  <2>4. CASE Listed(c) /\ poll(c) /\ Report(c) /\ UNCHANGED child
    BY <2>1, <2>4, PollStep, ReportTyped
  <2>5. CASE UNCHANGED <<Call, locks>>
    BY <1>0, <2>1, <2>5, RecordKept DEF Call
  <2> QED BY <1>1, <2>2, <2>3, <2>4, <2>5 DEF Tick
<1>2. CASE Jobs(c)
  BY <1>0, <1>2, PollStep DEF Jobs
<1>3. CASE Drain(c)
  BY <1>3, PollStep, ReportTyped DEF Drain
<1>4. CASE Kill(c)
  BY <1>0, <1>4, RecordGone DEF Kill, kill, Listed
<1>5. CASE Evict(c)
  BY <1>0, <1>5, RecordGone DEF Evict
<1>6. CASE Release(c)
  BY <1>0, <1>6, RecordGone DEF Release
<1> QED BY <1>1, <1>2, <1>3, <1>4, <1>5, <1>6

\* The environment gives nobody a process or a permit.
LEMMA EnvironmentStep ==
  ASSUME IInv,
         MemoryChanges \/ \E c \in Commands : ChildExits(c) \/ Cancel(c)
  PROVE  IInv'
<1>1. CASE MemoryChanges
  <2>1. TypeOK' BY <1>1 DEF MemoryChanges, Call, IInv, TypeOK, queue
  <2>2. Owned'
    BY <1>1 DEF MemoryChanges, Call, IInv, Owned, PermitHasSlot, CallKeepsPermit,
                RunningHasPermit, NoEarlyRecord
  <2> QED BY <2>1, <2>2 DEF IInv
<1>2. ASSUME NEW c \in Commands, ChildExits(c) PROVE IInv'
  <2>1. TypeOK' BY <1>2 DEF ChildExits, IInv, TypeOK, queue
  <2>2. Owned'
    BY <1>2 DEF ChildExits, IInv, TypeOK, Owned, PermitHasSlot, CallKeepsPermit,
                RunningHasPermit, NoEarlyRecord
  <2> QED BY <2>1, <2>2 DEF IInv
<1>3. ASSUME NEW c \in Commands, Cancel(c) PROVE IInv'
  <2>1. TypeOK' BY <1>3 DEF Cancel, Call, IInv, TypeOK, queue
  <2>2. Owned'
    BY <1>3 DEF Cancel, Call, IInv, Owned, PermitHasSlot, CallKeepsPermit,
                RunningHasPermit, NoEarlyRecord
  <2> QED BY <2>1, <2>2 DEF IInv
<1> QED BY <1>1, <1>2, <1>3

-----------------------------------------------------------------------------
\* Every step keeps the invariant.
LEMMA NextIInv == IInv /\ [Next]_vars => IInv'
<1> SUFFICES ASSUME IInv, [Next]_vars PROVE IInv' OBVIOUS
<1>1. CASE UNCHANGED vars
  <2>1. TypeOK' BY <1>1 DEF vars, queue, IInv, TypeOK
  <2>2. Owned'
    BY <1>1 DEF vars, queue, IInv, Owned, PermitHasSlot, CallKeepsPermit,
                RunningHasPermit, NoEarlyRecord
  <2> QED BY <2>1, <2>2 DEF IInv
<1>2. CASE MemoryChanges BY <1>2, EnvironmentStep
<1>3. ASSUME NEW c \in Commands,
             \/ Queue(c) \/ Admission(c) \/ LockError(c) \/ Running(c) \/ SpawnFails(c)
             \/ Jobs(c) \/ Drain(c) \/ Kill(c) \/ Evict(c) \/ Release(c)
             \/ ChildExits(c) \/ Cancel(c) \/ Crash(c)
      PROVE  IInv'
  BY <1>3, QueueStep, WaitStep, TryLockStep, StartStep, DropStep, AttachStep, RecordStep,
     EnvironmentStep
  DEF Admission, Running
<1> QED BY <1>1, <1>2, <1>3 DEF Next

\* The commands that run inject into the slots.
LEMMA WithinLimit == IInv => HeavyWithinLimit
<1> SUFFICES ASSUME IInv PROVE Cardinality(Managed) <= limit BY DEF HeavyWithinLimit
<1> DEFINE f == [c \in Managed |-> CHOOSE s \in Slots : locks[s] = c]
<1>1. \A c \in Managed : \E s \in Slots : locks[s] = c
  BY DEF Managed, IInv, Owned, PermitHasSlot, CallKeepsPermit, RunningHasPermit
<1>2. \A c \in Managed : f[c] \in Slots /\ locks[f[c]] = c
  BY <1>1
<1>3. f \in Injection(Managed, Slots)
  BY <1>2 DEF Injection, IsInjective
<1>4. limit \in Int /\ limit - 1 \in Int /\ limit >= 1 BY LimitAssumption
<1>5. IsFiniteSet(Slots) /\ Cardinality(Slots) = limit
  BY <1>4, FS_Interval DEF Slots
<1>6. Cardinality(Managed) <= Cardinality(Slots)
  <2> HIDE DEF f
  <2> QED BY <1>3, <1>5, FS_Injection
<1> QED BY <1>5, <1>6

\* Never more heavy commands than the limit over all processes, whoever ends,
\* kills, releases or forgets a command and whichever process crashes
\* (resource_admission.rs, attach_heavy_permit, BackgroundShell::poll).
THEOREM HeavyCommandsBounded == Spec => []HeavyWithinLimit
<1>1. Init => IInv BY InitIInv
<1>2. IInv /\ [Next]_vars => IInv' BY NextIInv
<1>3. IInv => HeavyWithinLimit BY WithinLimit
<1> QED BY <1>1, <1>2, <1>3, PTL DEF Spec
=============================================================================
