---------------------------- MODULE TaskWatchdog ----------------------------
(***************************************************************************)
(* One durable execution: TaskManager::run_task around the engine-backed   *)
(* executor (crates/tui/src/task_manager.rs).  Two watchdogs of the same   *)
(* type run nested: the outer one in run_task, fed by the task events the  *)
(* executor sends, and the inner one in drive_engine_turn, fed by the      *)
(* runtime events of the engine turn.                                      *)
(*                                                                         *)
(* Time is a number of ticks.  The executor is a future polled inside the  *)
(* outer loop's select, so it moves only while that loop is in select; the *)
(* loops react without delay, i.e. Tick waits until both are asleep.  The  *)
(* engine, the client and the process are free at any time.                *)
(***************************************************************************)
EXTENDS Integers, Sequences, SequencesExt

CONSTANTS
  Wall, Idle, Grace, Debounce,  \* TaskExecutionLimits, in ticks
  Poll,                         \* EVENT_CATCHUP_POLL, in ticks
  EventsPerTick,                \* bound: runtime events the engine emits in a tick
  ChannelCap                    \* capacity of the task event channel

ASSUME LimitAssumption ==
  \A n \in {Wall, Idle, Grace, Debounce, Poll, EventsPerTick} : n \in Nat \ {0}
ASSUME ChannelAssumption == ChannelCap \in Nat /\ ChannelCap >= 2

VARIABLES
  now,
  guard,        \* the two ExecutionGuards
  cancel,       \* the task's CancellationToken
  shutdown,     \* the manager's token
  loop,         \* the outer loop: "evaluate", "select", "finish", "done"
  timers,       \* deadlines and guards fixed when select was entered
  channel,      \* task events sent and not yet received
  dirty,        \* the record has changes that are not on disk
  inner,        \* drive_engine_turn: "start", "read", "guard", "wait"
  innerTimer,   \* its sleep and whether it listens for the token
  feed,         \* runtime events of the turn not yet read
  turn,         \* the engine turn: "none", "active", "interrupting", "over"
  result,       \* what the execution returned: a reason, or "none"
  recorded,     \* terminal_reason of the finished record
  emitted,      \* events emitted in this tick
  log           \* history of times and requests, for the properties

outerVars == <<loop, timers, dirty, recorded>>
innerVars == <<inner, innerTimer>>
vars == <<now, guard, cancel, shutdown, outerVars, channel, innerVars, feed, turn,
          result, emitted, log>>

Reasons == {"completed", "canceled", "cancel_timeout", "shutdown", "wall_timeout",
            "idle_timeout", "failed"}
Timeouts == {"wall_timeout", "idle_timeout"}

-----------------------------------------------------------------------------
(* ExecutionGuard *)

NewGuard(t) == [started_at |-> t, last_progress_at |-> t, interrupt_at |-> 0,
                interrupt_reason |-> "none"]

after_grace(reason) == IF reason = "canceled" THEN "cancel_timeout" ELSE reason

Least(S) == CHOOSE n \in S : \A m \in S : n <= m

\* What evaluate(now, cancel, shutdown) answers: an action, with its reason
\* or the time to sleep.
Run(wait)           == [act |-> "Run", reason |-> "none", wait |-> wait]
InterruptFor(why)   == [act |-> "Interrupt", reason |-> why, wait |-> 0]
TerminalizeFor(why) == [act |-> "Terminalize", reason |-> why, wait |-> 0]

MutWallElapsed(g) == now - g.last_progress_at   \* every event restarts the wall clock
WallElapsed(g) == now - g.started_at
IdleElapsed(g) == now - g.last_progress_at
MutGraceLeft(g) == g.interrupt_at + Grace + 1 - now   \* off by one
GraceLeft(g)   == g.interrupt_at + Grace - now

evaluate(g, isCancel, isShutdown) ==
  LET pending == IF isShutdown THEN "shutdown"
                 ELSE IF isCancel THEN "canceled"
                 ELSE IF WallElapsed(g) >= Wall THEN "wall_timeout"
                 ELSE IF IdleElapsed(g) >= Idle THEN "idle_timeout" ELSE "none"
  IN  IF g.interrupt_reason # "none"
      THEN IF GraceLeft(g) > 0 THEN Run(GraceLeft(g))
           ELSE TerminalizeFor(after_grace(g.interrupt_reason))
      ELSE IF pending # "none" THEN InterruptFor(pending)
      ELSE Run(Least({Wall - WallElapsed(g), Idle - IdleElapsed(g), Poll}))

Noted(g, reason) ==   \* note_interrupt: the first interrupt wins
  IF g.interrupt_reason = "none"
  THEN [g EXCEPT !.interrupt_at = now, !.interrupt_reason = reason]
  ELSE g

preserve_timeout_reason(g, reason) ==
  IF reason = "canceled" /\ g.interrupt_reason \in Timeouts
  THEN g.interrupt_reason ELSE reason

-----------------------------------------------------------------------------
(* Task events by what the manager does with them.                          *)
(*   delta    MessageDelta, ToolProgress      progress, saved later         *)
(*   tool     ToolStarted, ToolCompleted      progress, saved at once       *)
(*   status   Status, Error, ThreadLinked     no progress, saved at once    *)
(*   runtime  RuntimeEvent                    no progress, saved later      *)
execution_event_is_progress(e)    == e \in {"delta", "tool"}
execution_event_persist_urgent(e) == e \in {"tool", "status"}

\* The task events ingest_runtime_event sends for one runtime event.
Ingested(e) ==
  CASE e = "message" -> <<"runtime", "delta">>
    [] e = "tool"    -> <<"runtime", "tool">>
    [] e = "notice"  -> <<"runtime", "status">>
    [] OTHER         -> <<"runtime">>

\* For the inner watchdog every item event is progress, whatever its kind.
runtime_event_is_progress(e) == e # "other"

\* message: a delta of the answer; tool: a tool item; notice: a status or error
\* item; reasoning: an item of the model's thinking; other: not about an item.
RuntimeEvents == {"message", "tool", "notice", "reasoning", "other"}
TurnEnds      == {"completed", "canceled", "failed"}

Init ==
  /\ now = 0
  /\ guard = [outer |-> NewGuard(0), inner |-> NewGuard(0)]
  /\ cancel = FALSE /\ shutdown = FALSE
  /\ loop = "evaluate" /\ dirty = FALSE /\ recorded = "none"
  /\ timers = [wake |-> 0, flush |-> 0, flushArmed |-> FALSE, shutdownArmed |-> FALSE]
  /\ channel = <<>>
  /\ inner = "start" /\ innerTimer = [wake |-> 0, cancelArmed |-> FALSE]
  /\ feed = <<>> /\ turn = "none" /\ result = "none" /\ emitted = 0
  /\ log = [readFailed |-> FALSE, lastSent |-> 0, turnStart |-> 0]

-----------------------------------------------------------------------------
(* The outer loop, run_task. *)

\* process_execution_event on a sequence of events, in order.
Processed(g, events) ==
  IF \E i \in DOMAIN events : execution_event_is_progress(events[i])
  THEN [g EXCEPT !.last_progress_at = now] ELSE g
DirtyAfter(events) ==
  IF events = <<>> THEN dirty ELSE ~execution_event_persist_urgent(Last(events))

\* An idle deadline first takes in the events that are already queued.
MutDrained(action) == <<>>   \* no catch-up before an idle interrupt
Drained(action) ==
  IF action.act = "Interrupt" /\ action.reason = "idle_timeout" THEN channel ELSE <<>>

Evaluate ==
  /\ loop = "evaluate"
  /\ LET drained == Drained(evaluate(guard.outer, cancel, shutdown))
         g       == Processed(guard.outer, drained)
         action  == evaluate(g, cancel, shutdown)
         rest    == IF drained = <<>> THEN channel ELSE <<>>
     IN /\ channel' = rest
        /\ dirty' = DirtyAfter(drained)
        /\ \/ /\ action.act = "Interrupt"
              /\ cancel' = TRUE
              /\ guard' = [guard EXCEPT !.outer = Noted(g, action.reason)]
              /\ UNCHANGED <<loop, timers, result>>
           \/ /\ action.act = "Terminalize"
              /\ result' = action.reason
              /\ loop' = "finish"
              /\ guard' = [guard EXCEPT !.outer = g]
              /\ UNCHANGED <<cancel, timers>>
           \/ /\ action.act = "Run"
              /\ loop' = "select"
              /\ timers' = [wake |-> now + action.wait, flush |-> now + Debounce,
                            flushArmed |-> dirty', shutdownArmed |-> ~shutdown]
              /\ guard' = [guard EXCEPT !.outer = g]
              /\ UNCHANGED <<cancel, result>>
  /\ UNCHANGED <<now, shutdown, recorded, innerVars, feed, turn, emitted, log>>

\* The branches of the biased select, from first to last.
InSelect == loop = "select"
TakeResult ==
  /\ InSelect /\ result # "none"
  /\ result' = preserve_timeout_reason(guard.outer, result)
  /\ loop' = "finish"
  /\ UNCHANGED <<now, guard, cancel, shutdown, timers, dirty, recorded, channel,
                 innerVars, feed, turn, emitted, log>>

Receive ==
  /\ InSelect /\ result = "none" /\ channel # <<>>
  /\ guard' = [guard EXCEPT !.outer = Processed(@, <<Head(channel)>>)]
  /\ dirty' = DirtyAfter(<<Head(channel)>>)
  /\ channel' = Tail(channel)
  /\ loop' = "evaluate"
  /\ UNCHANGED <<now, cancel, shutdown, timers, recorded, innerVars, feed, turn,
                 result, emitted, log>>

Quiet        == InSelect /\ result = "none" /\ channel = <<>>
ShutdownSeen == shutdown /\ timers.shutdownArmed
FlushDue     == timers.flushArmed /\ now >= timers.flush

SeeShutdown ==
  /\ Quiet /\ ShutdownSeen
  /\ cancel' = TRUE
  /\ loop' = "evaluate"
  /\ UNCHANGED <<now, guard, shutdown, timers, dirty, recorded, channel, innerVars,
                 feed, turn, result, emitted, log>>

Flush ==
  /\ Quiet /\ ~ShutdownSeen /\ FlushDue
  /\ dirty' = FALSE
  /\ loop' = "evaluate"
  /\ UNCHANGED <<now, guard, cancel, shutdown, timers, recorded, channel, innerVars,
                 feed, turn, result, emitted, log>>

MutWake ==   \* no timer while an interrupt is pending
  /\ Quiet /\ ~ShutdownSeen /\ ~FlushDue /\ now >= timers.wake
  /\ guard.outer.interrupt_reason = "none"
  /\ loop' = "evaluate"
  /\ UNCHANGED <<now, guard, cancel, shutdown, timers, dirty, recorded, channel,
                 innerVars, feed, turn, result, emitted, log>>

Wake ==
  /\ Quiet /\ ~ShutdownSeen /\ ~FlushDue /\ now >= timers.wake
  /\ loop' = "evaluate"
  /\ UNCHANGED <<now, guard, cancel, shutdown, timers, dirty, recorded, channel,
                 innerVars, feed, turn, result, emitted, log>>

\* The reason finish_task records; run_task applies and saves what is left.
FinalReason ==
  LET r == IF cancel /\ result = "completed" THEN "canceled" ELSE result
  IN  IF shutdown /\ r \in {"canceled", "failed"} THEN "shutdown" ELSE r

Finish ==
  /\ loop = "finish"
  /\ recorded' = FinalReason
  /\ channel' = <<>> /\ dirty' = FALSE
  /\ loop' = "done"
  /\ UNCHANGED <<now, guard, cancel, shutdown, timers, innerVars, feed, turn, result,
                 emitted, log>>

-----------------------------------------------------------------------------
(* The executor: EngineTaskExecutor::execute and drive_engine_turn. *)

Polled == InSelect /\ result = "none"
Room(events) == Len(channel) + Len(events) <= ChannelCap
Send(events) == channel' = channel \o events   \* emit_task_event waits for room

InnerStart ==
  /\ Polled /\ inner = "start" /\ Room(<<"status", "status">>)
  /\ turn' = "active"
  /\ inner' = "read"
  /\ guard' = [guard EXCEPT !.inner = NewGuard(now)]
  /\ Send(<<"status", "status">>)
  /\ log' = [log EXCEPT !.turnStart = now]
  /\ UNCHANGED <<now, cancel, shutdown, outerVars, innerTimer, feed, result, emitted>>

\* create_thread, start_turn or a read of the turn's events fails.
InnerFails ==
  /\ Polled /\ inner \in {"start", "read"}
  /\ result' = "failed"
  /\ log' = [log EXCEPT !.readFailed = (inner = "read")]
  /\ UNCHANGED <<now, guard, cancel, shutdown, outerVars, channel, innerVars, feed,
                 turn, emitted>>

\* The terminal event of the turn ends the loop before its watchdog is asked.
InnerRead ==
  /\ Polled /\ inner = "read" /\ feed # <<>> /\ Room(Ingested(Head(feed)))
  /\ LET e == Head(feed) IN
     /\ guard' = [guard EXCEPT !.inner.last_progress_at =
                    IF runtime_event_is_progress(e) THEN now ELSE @]
     /\ result' = IF e \in TurnEnds THEN preserve_timeout_reason(guard.inner, e) ELSE "none"
     /\ Send(Ingested(e))
     /\ log' = [log EXCEPT !.lastSent =
                  IF \E i \in DOMAIN Ingested(e) : execution_event_is_progress(Ingested(e)[i])
                  THEN now ELSE @]
  /\ feed' = Tail(feed)
  /\ UNCHANGED <<now, cancel, shutdown, outerVars, innerVars, turn, emitted>>

InnerReadAll ==
  /\ Polled /\ inner = "read" /\ feed = <<>>
  /\ inner' = "guard"
  /\ UNCHANGED <<now, guard, cancel, shutdown, outerVars, channel, innerTimer, feed,
                 turn, result, emitted, log>>

InnerGuard ==
  /\ Polled /\ inner = "guard"
  /\ LET action == evaluate(guard.inner, cancel, FALSE) IN
     \/ /\ action.act = "Interrupt" /\ Room(<<"status">>)
        /\ turn' = IF turn = "active" THEN "interrupting" ELSE turn   \* interrupt_turn
        /\ guard' = [guard EXCEPT !.inner = Noted(@, action.reason)]
        /\ inner' = "read"
        /\ Send(<<"status">>)
        /\ UNCHANGED <<innerTimer, result, log>>
     \/ /\ action.act = "Terminalize"
        /\ result' = action.reason
        /\ UNCHANGED <<turn, guard, inner, channel, log, innerTimer>>
     \/ /\ action.act = "Run"
        /\ inner' = "wait"
        /\ innerTimer' = [wake |-> now + action.wait, cancelArmed |-> ~cancel]
        /\ UNCHANGED <<turn, guard, channel, log, result>>
  /\ UNCHANGED <<now, cancel, shutdown, outerVars, feed, emitted>>

MutInnerAwake == feed # <<>> \/ now >= innerTimer.wake   \* does not listen for the token
InnerAwake ==
  feed # <<>> \/ (cancel /\ innerTimer.cancelArmed) \/ now >= innerTimer.wake

InnerWake ==
  /\ Polled /\ inner = "wait" /\ InnerAwake
  /\ inner' = "read"
  /\ UNCHANGED <<now, guard, cancel, shutdown, outerVars, channel, innerTimer, feed,
                 turn, result, emitted, log>>

-----------------------------------------------------------------------------
(* The engine, the client, the process and time. *)

EngineEmit(e) ==
  /\ turn \in {"active", "interrupting"} /\ emitted < EventsPerTick
  /\ feed' = Append(feed, e)
  /\ emitted' = emitted + 1
  /\ UNCHANGED <<now, guard, cancel, shutdown, outerVars, channel, innerVars, turn,
                 result, log>>

EngineEnds(e) ==
  /\ turn \in {"active", "interrupting"}
  /\ feed' = Append(feed, e)
  /\ turn' = "over"
  /\ UNCHANGED <<now, guard, cancel, shutdown, outerVars, channel, innerVars, result,
                 emitted, log>>

CancelTask ==
  /\ loop # "done" /\ ~cancel
  /\ cancel' = TRUE
  /\ UNCHANGED <<now, guard, shutdown, outerVars, channel, innerVars, feed, turn,
                 result, emitted, log>>

Shutdown ==
  /\ loop # "done" /\ ~shutdown
  /\ shutdown' = TRUE
  /\ UNCHANGED <<now, guard, cancel, outerVars, channel, innerVars, feed, turn,
                 result, emitted, log>>

\* The executor has nothing to do: it waits, or its start takes its time.
Asleep ==
  /\ Quiet /\ ~ShutdownSeen /\ ~FlushDue /\ now < timers.wake
  /\ \/ inner = "start"
     \/ inner = "wait" /\ ~InnerAwake

Tick ==
  /\ Asleep
  /\ now' = now + 1
  /\ emitted' = 0
  /\ UNCHANGED <<guard, cancel, shutdown, outerVars, channel, innerVars, feed, turn,
                 result, log>>

LoopStep == Evaluate \/ TakeResult \/ Receive \/ SeeShutdown \/ Flush \/ Wake \/ Finish
ExecutorStep == InnerRead \/ InnerReadAll \/ InnerGuard \/ InnerWake
Next ==
  \/ LoopStep \/ ExecutorStep \/ InnerStart \/ InnerFails \/ Tick
  \/ \E e \in RuntimeEvents : EngineEmit(e)
  \/ \E e \in TurnEnds : EngineEnds(e)
  \/ CancelTask \/ Shutdown

Spec == Init /\ [][Next]_vars

\* The runtime polls a future that can proceed, and clocks advance.  Nothing
\* is assumed of the engine, the client or a start that never returns.
FairSpec == Spec /\ WF_vars(LoopStep) /\ WF_vars(ExecutorStep) /\ WF_vars(Tick)

-----------------------------------------------------------------------------
TaskEvents == {"delta", "tool", "status", "runtime"}
GuardType == [started_at : Nat, last_progress_at : Nat, interrupt_at : Nat,
              interrupt_reason : Reasons \cup {"none"}]

\* Type invariant; the channel never holds more than its capacity.
TypeOK ==
  /\ now \in Nat /\ guard \in [outer : GuardType, inner : GuardType]
  /\ cancel \in BOOLEAN /\ shutdown \in BOOLEAN /\ dirty \in BOOLEAN
  /\ loop \in {"evaluate", "select", "finish", "done"}
  /\ channel \in Seq(TaskEvents) /\ Len(channel) <= ChannelCap
  /\ inner \in {"start", "read", "guard", "wait"}
  /\ feed \in Seq(RuntimeEvents \cup TurnEnds)
  /\ turn \in {"none", "active", "interrupting", "over"}
  /\ result \in Reasons \cup {"none"} /\ recorded \in Reasons \cup {"none"}
  /\ emitted \in 0..EventsPerTick
  /\ timers \in [wake : Nat, flush : Nat, flushArmed : BOOLEAN, shutdownArmed : BOOLEAN]
  /\ innerTimer \in [wake : Nat, cancelArmed : BOOLEAN]
  /\ log \in [readFailed : BOOLEAN, lastSent : Nat, turnStart : Nat]

\* A worker is occupied for at most the wall time plus the grace period, even
\* by an executor that never returns and never reacts to its token.
EndsInTime == loop # "done" => now <= Wall + Grace

\* "Progress already accepted by the executor must win an idle deadline race"
\* (run_task): the manager interrupts for idleness only when no progress event
\* was sent to it during the whole idle period.
IdleIsReal ==
  [][guard.outer.interrupt_reason = "none" /\ guard'.outer.interrupt_reason = "idle_timeout"
       => now - log.lastSent >= Idle]_vars

\* When the worker moves on, the engine turn it started is over or has been
\* told to stop, so no turn keeps running for a task that has ended.  Two
\* exceptions are real: a read of the turn's events failed, and the turn was
\* started in the very tick in which the manager gave up on the executor.
NoOrphanTurn ==
  loop = "done" /\ turn = "active" => log.readFailed \/ log.turnStart = now

\* The run always ends, whatever engine and executor do.
AlwaysEnds == <>(loop = "done")

\* Once told to stop (client, deadline or shutdown), the run ends within grace.
StopsWithinGrace ==
  guard.outer.interrupt_reason # "none" /\ loop # "done" =>
    now - guard.outer.interrupt_at <= Grace
=============================================================================
