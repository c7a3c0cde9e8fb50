------------------------ MODULE TaskWatchdogProofs ------------------------
(***************************************************************************)
(* Proofs about the two nested watchdogs of one execution, for any limits, *)
(* channel capacity and number of events.                                  *)
(*                                                                         *)
(* EndsInTime and StopsWithinGrace follow from TimeShape: whenever the     *)
(* outer loop sleeps, its timer was set to ring at the wall limit or, once *)
(* it has interrupted, at the end of the grace period, so the clock never  *)
(* passes that point.  NoOrphanTurn needs the inner watchdog too           *)
(* (TurnShape): it waits without listening for the token only after it has *)
(* interrupted the turn, so no tick passes between an interrupt of the     *)
(* outer loop and the turn's, except before the turn was started.          *)
(* IdleIsReal needs SentShape: progress that was sent is counted or still  *)
(* in the channel.                                                         *)
(***************************************************************************)
EXTENDS TaskWatchdog, TLAPS

Outer == guard.outer
Interrupted(g) == g.interrupt_reason # "none"

TimeShape ==
  /\ Outer.started_at = 0
  /\ ~Interrupted(Outer) => now <= Wall
  /\ Interrupted(Outer) => /\ cancel /\ Outer.interrupt_at <= Wall
                           /\ Outer.interrupt_at <= now /\ now <= Outer.interrupt_at + Grace
  /\ loop = "select" =>
       timers.wake <= IF Interrupted(Outer) THEN Outer.interrupt_at + Grace ELSE Wall

TurnShape ==
  /\ inner = "start" <=> turn = "none"
  /\ turn = "active" => ~Interrupted(guard.inner)
  /\ inner = "wait" /\ ~innerTimer.cancelArmed => Interrupted(guard.inner)
  /\ \A i \in 1..Len(feed) : feed[i] \in TurnEnds => turn = "over"

OrphanShape ==
  /\ turn = "active" /\ Interrupted(Outer) =>
       now = Outer.interrupt_at \/ log.turnStart = now
  /\ result # "none" /\ turn = "active" =>
       log.readFailed \/ (loop \in {"finish", "done"} /\ log.turnStart = now)
  /\ loop \in {"finish", "done"} => result # "none"

\* There is progress among the events.
Progress(events) == \E i \in 1..Len(events) : execution_event_is_progress(events[i])

SentShape ==
  /\ log.lastSent <= now
  /\ loop \in {"evaluate", "select"} =>
       log.lastSent <= Outer.last_progress_at \/ Progress(channel)

IInv == TypeOK /\ TimeShape /\ TurnShape /\ OrphanShape /\ SentShape

-----------------------------------------------------------------------------
(* The limits and the answers of evaluate.                                 *)

\* The limits are positive numbers.
LEMMA Limits ==
  /\ Wall \in Nat /\ Wall >= 1 /\ Idle \in Nat /\ Idle >= 1 /\ Grace \in Nat /\ Grace >= 1
  /\ Debounce \in Nat /\ Poll \in Nat /\ Poll >= 1 /\ EventsPerTick \in Nat
  /\ ChannelCap \in Nat
<1>1. \A n \in {Wall, Idle, Grace, Debounce, Poll, EventsPerTick} : n \in Nat /\ n >= 1
  BY LimitAssumption
<1>2. Wall \in Nat /\ Wall >= 1 /\ Idle \in Nat /\ Idle >= 1 BY <1>1
<1>3. Grace \in Nat /\ Grace >= 1 /\ Debounce \in Nat BY <1>1
<1>4. Poll \in Nat /\ Poll >= 1 /\ EventsPerTick \in Nat BY <1>1
<1> QED BY <1>2, <1>3, <1>4, ChannelAssumption

\* The shortest of three times.
LEMMA LeastOfThree ==
  ASSUME NEW a \in Int, NEW b \in Int, NEW c \in Int
  PROVE  /\ Least({a, b, c}) \in {a, b, c}
         /\ Least({a, b, c}) <= a
<1>1. \E n \in {a, b, c} : \A m \in {a, b, c} : n <= m
  <2>1. CASE a <= b /\ a <= c BY <2>1
  <2>2. CASE b <= a /\ b <= c BY <2>2
  <2>3. CASE c <= a /\ c <= b BY <2>3
  <2> QED BY <2>1, <2>2, <2>3
<1> QED BY <1>1 DEF Least

\* ExecutionGuard::evaluate interrupts once, gives up only after the grace
\* period, and otherwise sleeps no longer than the limits allow.
LEMMA Answers ==
  ASSUME NEW g \in GuardType, NEW c \in BOOLEAN, NEW s \in BOOLEAN, now \in Nat
  PROVE  LET a == evaluate(g, c, s) IN
         \/ /\ a.act = "Interrupt" /\ ~Interrupted(g) /\ a.reason \in Reasons
            /\ a.reason = "idle_timeout" => now - g.last_progress_at >= Idle
         \/ /\ a.act = "Terminalize" /\ Interrupted(g) /\ a.reason \in Reasons
            /\ g.interrupt_at + Grace <= now
         \/ /\ a.act = "Run" /\ a.wait \in Nat
            /\ IF Interrupted(g) THEN now + a.wait = g.interrupt_at + Grace
               ELSE ~c /\ now + a.wait <= g.started_at + Wall
<1>1. /\ g.started_at \in Nat /\ g.last_progress_at \in Nat /\ g.interrupt_at \in Nat
      /\ g.interrupt_reason \in Reasons \cup {"none"}
  BY DEF GuardType
<1>2. "none" \notin Reasons BY DEF Reasons
<1>3. CASE Interrupted(g) /\ GraceLeft(g) > 0
  BY <1>1, <1>3, Limits DEF Interrupted, evaluate, GraceLeft, Run
<1>4. CASE Interrupted(g) /\ ~(GraceLeft(g) > 0)
  <2>1. after_grace(g.interrupt_reason) \in Reasons
    BY <1>1, <1>4 DEF Interrupted, after_grace, Reasons
  <2>2. evaluate(g, c, s) = TerminalizeFor(after_grace(g.interrupt_reason))
    BY <1>4 DEF Interrupted, evaluate
  <2>3. g.interrupt_at + Grace <= now BY <1>1, <1>4, Limits DEF GraceLeft
  <2> QED BY <1>4, <2>1, <2>2, <2>3 DEF TerminalizeFor
<1>5. CASE ~Interrupted(g)
  <2>1. g.interrupt_reason = "none" BY <1>5 DEF Interrupted
  <2>2. CASE s BY <1>5, <2>1, <2>2 DEF evaluate, InterruptFor, Reasons
  <2>3. CASE ~s /\ c BY <1>5, <2>1, <2>3 DEF evaluate, InterruptFor, Reasons
  <2>4. CASE ~s /\ ~c /\ WallElapsed(g) >= Wall
    BY <1>5, <2>1, <2>4 DEF evaluate, InterruptFor, Reasons
  <2>5. CASE ~s /\ ~c /\ ~(WallElapsed(g) >= Wall) /\ IdleElapsed(g) >= Idle
    BY <1>5, <2>1, <2>5 DEF evaluate, InterruptFor, Reasons, IdleElapsed
  <2>6. CASE ~s /\ ~c /\ ~(WallElapsed(g) >= Wall) /\ ~(IdleElapsed(g) >= Idle)
    <3> DEFINE x == Wall - WallElapsed(g)
               y == Idle - IdleElapsed(g)
    <3>1. evaluate(g, c, s) = Run(Least({x, y, Poll})) BY <2>1, <2>6 DEF evaluate
    <3>2. /\ x \in Nat /\ y \in Nat /\ Poll \in Nat
          /\ x = g.started_at + Wall - now
      BY <1>1, <2>6, Limits DEF WallElapsed, IdleElapsed
    <3> HIDE DEF x, y
    <3>3. Least({x, y, Poll}) \in Nat /\ Least({x, y, Poll}) <= x BY <3>2, LeastOfThree
    <3> DEFINE n == Least({x, y, Poll})
    <3> HIDE DEF n
    <3>4. n \in Nat /\ n <= x /\ evaluate(g, c, s) = Run(n) BY <3>1, <3>3 DEF n
    <3>5. now + n <= g.started_at + Wall BY <1>1, <3>2, <3>4, Limits
    <3> QED BY <1>5, <2>6, <3>4, <3>5 DEF Run
  <2> QED BY <2>2, <2>3, <2>4, <2>5, <2>6
<1> QED BY <1>3, <1>4, <1>5

-----------------------------------------------------------------------------
\* What the executor sends for a runtime event.
LEMMA IngestedType ==
  ASSUME NEW e
  PROVE  Ingested(e) \in Seq(TaskEvents)
<1>1. /\ <<"runtime", "delta">> \in Seq(TaskEvents) /\ <<"runtime", "tool">> \in Seq(TaskEvents)
      /\ <<"runtime", "status">> \in Seq(TaskEvents) /\ <<"runtime">> \in Seq(TaskEvents)
  BY DEF TaskEvents
<1> QED BY <1>1 DEF Ingested

\* An empty channel is one.
LEMMA EmptyChannel == <<>> \in Seq(TaskEvents) /\ Len(<<>>) <= ChannelCap
<1>1. <<>> \in Seq(TaskEvents) /\ Len(<<>>) = 0 OBVIOUS
<1> QED BY <1>1, Limits

\* Initially nothing has happened.
LEMMA InitIInv == Init => IInv
<1> SUFFICES ASSUME Init PROVE IInv OBVIOUS
<1>1. NewGuard(0) \in GuardType /\ NewGuard(0).interrupt_reason = "none"
      /\ NewGuard(0).started_at = 0 /\ NewGuard(0).last_progress_at = 0
  BY DEF NewGuard, GuardType
<1>2. guard \in [outer : GuardType, inner : GuardType]
      /\ guard.outer = NewGuard(0) /\ guard.inner = NewGuard(0)
  BY <1>1 DEF Init
<1>3. TypeOK
  <2>1. channel \in Seq(TaskEvents) /\ Len(channel) <= ChannelCap BY EmptyChannel DEF Init
  <2>2. feed \in Seq(RuntimeEvents \cup TurnEnds) BY DEF Init
  <2>3. emitted \in 0..EventsPerTick BY Limits DEF Init
  <2>4. timers \in [wake : Nat, flush : Nat, flushArmed : BOOLEAN, shutdownArmed : BOOLEAN]
    BY DEF Init
  <2>5. innerTimer \in [wake : Nat, cancelArmed : BOOLEAN]
        /\ log \in [readFailed : BOOLEAN, lastSent : Nat, turnStart : Nat]
    BY DEF Init
  <2> QED BY <1>2, <2>1, <2>2, <2>3, <2>4, <2>5 DEF Init, TypeOK
<1>4. TimeShape BY <1>1, <1>2, Limits DEF Init, TimeShape, Outer, Interrupted
<1>5. TurnShape BY <1>1, <1>2 DEF Init, TurnShape, Interrupted
<1>6. OrphanShape BY DEF Init, OrphanShape
<1>7. SentShape BY <1>1, <1>2 DEF Init, SentShape, Outer
<1> QED BY <1>3, <1>4, <1>5, <1>6, <1>7 DEF IInv

-----------------------------------------------------------------------------
(* The outer loop.                                                         *)

\* The loop wakes up: the guards stay, a shutdown becomes a cancel.
LEMMA WakeStep ==
  ASSUME IInv, SeeShutdown \/ Flush \/ Wake
  PROVE  IInv'
<1>1. /\ loop' = "evaluate" /\ cancel' \in BOOLEAN /\ (cancel => cancel') /\ dirty' \in BOOLEAN
      /\ UNCHANGED <<now, guard, shutdown, timers, recorded, channel, inner, innerTimer,
                     feed, turn, result, emitted, log>>
      /\ loop = "select"
  BY DEF SeeShutdown, Flush, Wake, Quiet, InSelect, innerVars, IInv, TypeOK
<1>2. TypeOK' BY <1>1 DEF IInv, TypeOK
<1>3. TimeShape' BY <1>1 DEF IInv, TypeOK, TimeShape, Outer, Interrupted
<1>4. TurnShape' BY <1>1 DEF IInv, TurnShape, Interrupted
<1>5. OrphanShape' BY <1>1 DEF IInv, OrphanShape, Outer, Interrupted
<1>6. SentShape' BY <1>1 DEF IInv, SentShape, Outer, Progress
<1> QED BY <1>2, <1>3, <1>4, <1>5, <1>6 DEF IInv

\* Taking in events moves the progress time up to now, and nothing else.
LEMMA ProcessedGuard ==
  ASSUME NEW g \in GuardType, NEW events \in Seq(TaskEvents),
         now \in Nat
  PROVE  LET h == Processed(g, events) IN
         /\ h \in GuardType
         /\ h.started_at = g.started_at /\ h.interrupt_at = g.interrupt_at
         /\ h.interrupt_reason = g.interrupt_reason
         /\ IF Progress(events) THEN h.last_progress_at = now
            ELSE h.last_progress_at = g.last_progress_at
<1>1. DOMAIN events = 1..Len(events) OBVIOUS
<1> QED BY <1>1 DEF Processed, Progress, GuardType

\* One event from the channel.
LEMMA ReceiveStep ==
  ASSUME IInv, Receive
  PROVE  IInv'
<1> DEFINE e == <<Head(channel)>>
           g == Processed(Outer, e)
<1>1. /\ loop = "select" /\ loop' = "evaluate" /\ channel # <<>> /\ channel' = Tail(channel)
      /\ guard' = [guard EXCEPT !.outer = g] /\ dirty' = DirtyAfter(e)
      /\ UNCHANGED <<now, cancel, shutdown, timers, recorded, inner, innerTimer, feed,
                     turn, result, emitted, log>>
  BY DEF Receive, InSelect, innerVars, Outer, IInv, TypeOK
<1>2. /\ channel \in Seq(TaskEvents) /\ now \in Nat
      /\ e \in Seq(TaskEvents) /\ Outer \in GuardType
      /\ guard \in [outer : GuardType, inner : GuardType]
  BY <1>1 DEF IInv, TypeOK, Outer
<1>3. /\ g \in GuardType
      /\ g.started_at = Outer.started_at /\ g.interrupt_at = Outer.interrupt_at
      /\ g.interrupt_reason = Outer.interrupt_reason
      /\ IF Progress(e) THEN g.last_progress_at = now
         ELSE g.last_progress_at = Outer.last_progress_at
  BY <1>2, ProcessedGuard
<1> HIDE DEF g
<1>4. Outer' = g /\ guard'.inner = guard.inner /\ guard' \in [outer : GuardType, inner : GuardType]
  BY <1>1, <1>2, <1>3 DEF Outer
<1>5. dirty' \in BOOLEAN BY <1>1 DEF IInv, TypeOK, DirtyAfter
<1>6. TypeOK'
  <2>1. channel' \in Seq(TaskEvents) /\ Len(channel') = Len(channel) - 1 BY <1>1, <1>2
  <2>2. Len(channel') <= ChannelCap BY <1>2, <2>1, Limits DEF IInv, TypeOK
  <2> QED BY <1>1, <1>4, <1>5, <2>1, <2>2 DEF IInv, TypeOK
<1>7. TimeShape' BY <1>1, <1>3, <1>4 DEF IInv, TimeShape, Interrupted
<1>8. TurnShape' BY <1>1, <1>4 DEF IInv, TurnShape, Interrupted
<1>9. OrphanShape' BY <1>1, <1>3, <1>4 DEF IInv, OrphanShape, Interrupted
<1>10. SentShape'
  <2>1. log.lastSent <= now /\ (log.lastSent <= Outer.last_progress_at \/ Progress(channel))
    BY <1>1 DEF IInv, SentShape
  <2>2. Progress(channel) => Progress(e) \/ Progress(Tail(channel))
    <3> SUFFICES ASSUME NEW i \in 1..Len(channel), execution_event_is_progress(channel[i]),
                        i # 1
                 PROVE  Progress(Tail(channel))
      BY <1>1, <1>2 DEF Progress
    <3>1. /\ Len(Tail(channel)) = Len(channel) - 1 /\ i - 1 \in 1..Len(Tail(channel))
          /\ Tail(channel)[i - 1] = channel[i]
      BY <1>1, <1>2
    <3> QED BY <3>1 DEF Progress
  <2>3. log.lastSent <= g.last_progress_at \/ Progress(Tail(channel)) BY <1>3, <2>1, <2>2
  <2> QED BY <1>1, <1>4, <2>1, <2>3 DEF SentShape, Progress
<1> QED BY <1>6, <1>7, <1>8, <1>9, <1>10 DEF IInv

\* The result is taken, and the record finished: the clock has stopped.
LEMMA EndStep ==
  ASSUME IInv, TakeResult \/ Finish
  PROVE  IInv'
<1>1. CASE TakeResult
  <2>1. /\ loop = "select" /\ loop' = "finish" /\ result # "none"
        /\ result' = preserve_timeout_reason(Outer, result)
        /\ UNCHANGED <<now, guard, cancel, shutdown, timers, dirty, recorded, channel, inner,
                       innerTimer, feed, turn, emitted, log>>
    BY <1>1 DEF TakeResult, InSelect, innerVars, Outer
  <2>2. result' \in Reasons /\ result' # "none"
    BY <2>1 DEF preserve_timeout_reason, IInv, TypeOK, Timeouts, Reasons
  <2>3. TypeOK' BY <2>1, <2>2 DEF IInv, TypeOK
  <2>4. TimeShape' BY <2>1 DEF IInv, TimeShape, Outer, Interrupted
  <2>5. TurnShape' BY <2>1 DEF IInv, TurnShape, Interrupted
  <2>6. OrphanShape' BY <2>1, <2>2 DEF IInv, OrphanShape, Outer, Interrupted
  <2>7. SentShape' BY <2>1 DEF IInv, SentShape
  <2> QED BY <2>3, <2>4, <2>5, <2>6, <2>7 DEF IInv
<1>2. CASE Finish
  <2>1. /\ loop = "finish" /\ loop' = "done" /\ recorded' = FinalReason
        /\ channel' = <<>> /\ dirty' = FALSE
        /\ UNCHANGED <<now, guard, cancel, shutdown, timers, inner, innerTimer, feed, turn,
                       result, emitted, log>>
    BY <1>2 DEF Finish, innerVars
  <2>2. FinalReason \in Reasons
    BY <2>1 DEF FinalReason, IInv, TypeOK, OrphanShape, Reasons
  <2>3. TypeOK' BY <2>1, <2>2, EmptyChannel DEF IInv, TypeOK
  <2>4. TimeShape' BY <2>1 DEF IInv, TimeShape, Outer, Interrupted
  <2>5. TurnShape' BY <2>1 DEF IInv, TurnShape, Interrupted
  <2>6. OrphanShape' BY <2>1 DEF IInv, OrphanShape, Outer, Interrupted
  <2>7. SentShape' BY <2>1 DEF IInv, SentShape
  <2> QED BY <2>3, <2>4, <2>5, <2>6, <2>7 DEF IInv
<1> QED BY <1>1, <1>2

\* What the evaluation of the outer loop does with the guard and the channel:
\* events that are taken in are counted.
Counted(g, rest) ==
  /\ g \in GuardType /\ rest \in {channel, <<>>}
  /\ g.started_at = Outer.started_at /\ g.interrupt_at = Outer.interrupt_at
  /\ g.interrupt_reason = Outer.interrupt_reason
  /\ log.lastSent <= g.last_progress_at \/ Progress(rest)

\* An evaluation takes all events out of the channel, or none.
LEMMA EvaluateDrains ==
  ASSUME IInv, loop = "evaluate"
  PROVE  LET drained == Drained(evaluate(Outer, cancel, shutdown))
             rest == IF drained = <<>> THEN channel ELSE <<>>
         IN  /\ drained \in {channel, <<>>}
             /\ Counted(Processed(Outer, drained), rest)
<1> DEFINE drained == Drained(evaluate(Outer, cancel, shutdown))
           g == Processed(Outer, drained)
<1>1. drained \in {channel, <<>>} BY DEF Drained
<1>2. /\ Outer \in GuardType /\ now \in Nat
      /\ channel \in Seq(TaskEvents)
      /\ drained \in Seq(TaskEvents)
  BY <1>1, EmptyChannel DEF IInv, TypeOK, Outer
<1>3. log.lastSent <= now /\ (log.lastSent <= Outer.last_progress_at \/ Progress(channel))
  BY DEF IInv, SentShape
<1> HIDE DEF drained
<1>4. /\ g \in GuardType
      /\ g.started_at = Outer.started_at /\ g.interrupt_at = Outer.interrupt_at
      /\ g.interrupt_reason = Outer.interrupt_reason
      /\ IF Progress(drained) THEN g.last_progress_at = now
         ELSE g.last_progress_at = Outer.last_progress_at
  BY <1>2, ProcessedGuard
<1>5. ~Progress(<<>>) BY DEF Progress
<1> HIDE DEF g
<1>6. log.lastSent <= g.last_progress_at
      \/ Progress(IF drained = <<>> THEN channel ELSE <<>>)
  BY <1>1, <1>3, <1>4, <1>5
<1> QED BY <1>1, <1>4, <1>6 DEF Counted, drained, g

\* The outer loop asks its watchdog: it interrupts, gives up, or sleeps.
LEMMA EvaluateStep ==
  ASSUME IInv, Evaluate
  PROVE  IInv'
<1> DEFINE drained == Drained(evaluate(Outer, cancel, shutdown))
           rest == IF drained = <<>> THEN channel ELSE <<>>
<1>1. PICK g, action :
        /\ g = Processed(Outer, drained) /\ action = evaluate(g, cancel, shutdown)
        /\ channel' = rest /\ dirty' = DirtyAfter(drained)
        /\ \/ /\ action.act = "Interrupt" /\ cancel' = TRUE
              /\ guard' = [guard EXCEPT !.outer = Noted(g, action.reason)]
              /\ UNCHANGED <<loop, timers, result>>
           \/ /\ action.act = "Terminalize" /\ result' = action.reason /\ loop' = "finish"
              /\ guard' = [guard EXCEPT !.outer = g] /\ UNCHANGED <<cancel, timers>>
           \/ /\ action.act = "Run" /\ loop' = "select"
              /\ timers' = [wake |-> now + action.wait, flush |-> now + Debounce,
                            flushArmed |-> dirty', shutdownArmed |-> ~shutdown]
              /\ guard' = [guard EXCEPT !.outer = g] /\ UNCHANGED <<cancel, result>>
  BY DEF Evaluate, Outer
<1>2. /\ loop = "evaluate"
      /\ UNCHANGED <<now, shutdown, recorded, inner, innerTimer, feed, turn, emitted, log>>
  BY DEF Evaluate, innerVars
<1>3. drained \in {channel, <<>>} /\ Counted(g, rest) BY <1>1, <1>2, EvaluateDrains
<1>4. dirty' \in BOOLEAN
  BY <1>1 DEF IInv, TypeOK, DirtyAfter
<1> HIDE DEF drained, rest
<1>5. /\ now \in Nat /\ cancel \in BOOLEAN /\ shutdown \in BOOLEAN /\ g \in GuardType
      /\ guard \in [outer : GuardType, inner : GuardType]
      /\ channel' \in Seq(TaskEvents) /\ Len(channel') <= ChannelCap
  BY <1>1, <1>3, EmptyChannel DEF IInv, TypeOK, Counted
<1>6. /\ Outer.started_at = 0
      /\ ~Interrupted(Outer) => now <= Wall
      /\ Interrupted(Outer) => /\ cancel /\ Outer.interrupt_at <= Wall
                               /\ Outer.interrupt_at <= now /\ now <= Outer.interrupt_at + Grace
  BY DEF IInv, TimeShape
<1>7. /\ g.started_at = Outer.started_at /\ g.interrupt_at = Outer.interrupt_at
      /\ g.interrupt_reason = Outer.interrupt_reason /\ (Interrupted(g) <=> Interrupted(Outer))
      /\ log.lastSent <= g.last_progress_at \/ Progress(channel')
  BY <1>1, <1>3 DEF Counted, Interrupted
<1>8. CASE action.act = "Interrupt"
  <2> DEFINE h == Noted(g, action.reason)
  <2>1. /\ cancel' = TRUE /\ guard' = [guard EXCEPT !.outer = h]
        /\ UNCHANGED <<loop, timers, result>>
        /\ ~Interrupted(g) /\ action.reason \in Reasons
    BY <1>1, <1>5, <1>8, Answers
  <2>2. /\ h \in GuardType /\ h.started_at = g.started_at /\ h.interrupt_at = now
        /\ h.last_progress_at = g.last_progress_at /\ Interrupted(h)
    BY <1>5, <2>1 DEF Noted, Interrupted, GuardType, Reasons
  <2> HIDE DEF h
  <2>3. Outer' = h /\ guard'.inner = guard.inner /\ guard' \in [outer : GuardType, inner : GuardType]
    BY <1>5, <2>1, <2>2 DEF Outer
  <2>4. TypeOK' BY <1>2, <1>4, <1>5, <2>1, <2>3 DEF IInv, TypeOK
  <2>5. TimeShape' BY <1>2, <1>5, <1>6, <1>7, <2>1, <2>2, <2>3, Limits DEF TimeShape, Interrupted
  <2>6. TurnShape' BY <1>2, <2>1, <2>3 DEF IInv, TurnShape, Interrupted
  <2>7. OrphanShape' BY <1>2, <2>1, <2>2, <2>3 DEF IInv, OrphanShape, Interrupted
  <2>8. SentShape' BY <1>2, <1>7, <2>1, <2>2, <2>3 DEF IInv, SentShape, Progress
  <2> QED BY <2>4, <2>5, <2>6, <2>7, <2>8 DEF IInv
<1>9. CASE action.act = "Terminalize"
  <2>1. /\ result' = action.reason /\ loop' = "finish" /\ guard' = [guard EXCEPT !.outer = g]
        /\ UNCHANGED <<cancel, timers>>
        /\ Interrupted(g) /\ action.reason \in Reasons /\ g.interrupt_at + Grace <= now
    BY <1>1, <1>5, <1>9, Answers
  <2>2. Outer' = g /\ guard'.inner = guard.inner /\ guard' \in [outer : GuardType, inner : GuardType]
    BY <1>5, <2>1 DEF Outer
  <2>3. now # Outer.interrupt_at /\ Interrupted(Outer) /\ result' # "none"
    BY <1>5, <1>7, <2>1, Limits DEF GuardType, Reasons
  <2>4. TypeOK' BY <1>2, <1>4, <1>5, <2>1, <2>2 DEF IInv, TypeOK
  <2>5. TimeShape' BY <1>2, <1>6, <1>7, <2>1, <2>2 DEF TimeShape, Interrupted
  <2>6. TurnShape' BY <1>2, <2>2 DEF IInv, TurnShape, Interrupted
  <2>7. OrphanShape' BY <1>2, <1>7, <2>1, <2>2, <2>3 DEF IInv, OrphanShape, Interrupted
  <2>8. SentShape' BY <1>2, <2>1 DEF IInv, SentShape
  <2> QED BY <2>4, <2>5, <2>6, <2>7, <2>8 DEF IInv
<1>10. CASE action.act = "Run"
  <2>1. /\ loop' = "select" /\ guard' = [guard EXCEPT !.outer = g]
        /\ timers' = [wake |-> now + action.wait, flush |-> now + Debounce,
                      flushArmed |-> dirty', shutdownArmed |-> ~shutdown]
        /\ UNCHANGED <<cancel, result>>
        /\ action.wait \in Nat
        /\ IF Interrupted(g) THEN now + action.wait = g.interrupt_at + Grace
           ELSE now + action.wait <= g.started_at + Wall
    BY <1>1, <1>5, <1>10, Answers
  <2>2. Outer' = g /\ guard'.inner = guard.inner /\ guard' \in [outer : GuardType, inner : GuardType]
    BY <1>5, <2>1 DEF Outer
  <2>3. timers' \in [wake : Nat, flush : Nat, flushArmed : BOOLEAN, shutdownArmed : BOOLEAN]
        /\ timers'.wake = now + action.wait
    BY <1>4, <1>5, <2>1, Limits
  <2>4. TypeOK' BY <1>2, <1>4, <1>5, <2>1, <2>2, <2>3 DEF IInv, TypeOK
  <2>5. TimeShape' BY <1>2, <1>5, <1>6, <1>7, <2>1, <2>2, <2>3, Limits DEF TimeShape, Interrupted
  <2>6. TurnShape' BY <1>2, <2>2 DEF IInv, TurnShape, Interrupted
  <2>7. OrphanShape' BY <1>2, <1>7, <2>1, <2>2 DEF IInv, OrphanShape, Interrupted
  <2>8. SentShape' BY <1>2, <1>7, <2>1, <2>2 DEF IInv, SentShape, Progress
  <2> QED BY <2>4, <2>5, <2>6, <2>7, <2>8 DEF IInv
<1> QED BY <1>1, <1>8, <1>9, <1>10

-----------------------------------------------------------------------------
(* The executor, which moves only while the outer loop is in select.       *)

\* Events that are sent stay within the capacity, and progress stays visible.
LEMMA SentEvents ==
  ASSUME IInv, NEW events \in Seq(TaskEvents), Room(events), Send(events)
  PROVE  /\ channel' \in Seq(TaskEvents) /\ Len(channel') <= ChannelCap
         /\ Progress(channel) \/ Progress(events) => Progress(channel')
<1>1. channel \in Seq(TaskEvents) BY DEF IInv, TypeOK
<1>2. /\ channel' \in Seq(TaskEvents) /\ Len(channel') = Len(channel) + Len(events)
      /\ \A i \in 1..Len(channel) : channel'[i] = channel[i]
      /\ \A i \in 1..Len(events) : channel'[Len(channel) + i] = events[i]
  BY <1>1 DEF Send
<1>3. Len(channel') <= ChannelCap BY <1>2 DEF Room
<1>4. Len(channel) \in Nat /\ Len(events) \in Nat BY <1>1
<1>5. Progress(channel) => Progress(channel') BY <1>2, <1>4 DEF Progress
<1>6. ASSUME NEW i \in 1..Len(events), execution_event_is_progress(events[i])
      PROVE  Progress(channel')
  <2>1. Len(channel) + i \in 1..Len(channel') BY <1>2, <1>4
  <2>2. channel'[Len(channel) + i] = events[i] BY <1>2
  <2> QED BY <1>6, <2>1, <2>2 DEF Progress
<1>7. Progress(events) => Progress(channel') BY <1>6 DEF Progress
<1> QED BY <1>2, <1>3, <1>5, <1>7

\* The turn starts; the manager may already have interrupted in this tick.
LEMMA StartStep ==
  ASSUME IInv, InnerStart
  PROVE  IInv'
<1>1. /\ loop = "select" /\ result = "none" /\ inner = "start"
      /\ turn' = "active" /\ inner' = "read" /\ log' = [log EXCEPT !.turnStart = now]
      /\ guard' = [guard EXCEPT !.inner = NewGuard(now)]
      /\ Room(<<"status", "status">>) /\ Send(<<"status", "status">>)
      /\ UNCHANGED <<now, cancel, shutdown, loop, timers, dirty, recorded, innerTimer, feed,
                     result, emitted>>
  BY DEF InnerStart, Polled, InSelect, outerVars
<1>2. <<"status", "status">> \in Seq(TaskEvents) BY DEF TaskEvents
<1>3. /\ channel' \in Seq(TaskEvents) /\ Len(channel') <= ChannelCap
      /\ Progress(channel) => Progress(channel')
  BY <1>1, <1>2, SentEvents
<1>4. now \in Nat /\ guard \in [outer : GuardType, inner : GuardType] BY DEF IInv, TypeOK
<1>5. NewGuard(now) \in GuardType /\ ~Interrupted(NewGuard(now))
  BY <1>4 DEF NewGuard, GuardType, Interrupted
<1>6. /\ Outer' = Outer /\ guard'.inner = NewGuard(now)
      /\ guard' \in [outer : GuardType, inner : GuardType]
  BY <1>1, <1>4, <1>5 DEF Outer
<1>7. /\ log' \in [readFailed : BOOLEAN, lastSent : Nat, turnStart : Nat]
      /\ log'.turnStart = now /\ log'.lastSent = log.lastSent
  BY <1>1, <1>4 DEF IInv, TypeOK
<1>8. TypeOK' BY <1>1, <1>3, <1>6, <1>7 DEF IInv, TypeOK
<1>9. TimeShape' BY <1>1, <1>6 DEF IInv, TimeShape, Interrupted
<1>10. TurnShape' BY <1>1, <1>5, <1>6 DEF IInv, TurnShape, Interrupted
<1>11. OrphanShape' BY <1>1, <1>7 DEF OrphanShape
<1>12. SentShape' BY <1>1, <1>3, <1>6, <1>7 DEF IInv, SentShape
<1> QED BY <1>8, <1>9, <1>10, <1>11, <1>12 DEF IInv

\* The executor fails: before there is a turn, or by a failed read.
LEMMA FailStep ==
  ASSUME IInv, InnerFails
  PROVE  IInv'
<1>1. /\ loop = "select" /\ result = "none" /\ inner \in {"start", "read"}
      /\ result' = "failed" /\ log' = [log EXCEPT !.readFailed = (inner = "read")]
      /\ UNCHANGED <<now, guard, cancel, shutdown, loop, timers, dirty, recorded, channel,
                     inner, innerTimer, feed, turn, emitted>>
  BY DEF InnerFails, Polled, InSelect, outerVars, innerVars
<1>2. /\ log' \in [readFailed : BOOLEAN, lastSent : Nat, turnStart : Nat]
      /\ log'.turnStart = log.turnStart /\ log'.lastSent = log.lastSent
      /\ inner = "read" => log'.readFailed
  BY <1>1 DEF IInv, TypeOK
<1>3. TypeOK' BY <1>1, <1>2 DEF IInv, TypeOK, Reasons
<1>4. TimeShape' BY <1>1 DEF IInv, TimeShape, Outer, Interrupted
<1>5. TurnShape' BY <1>1 DEF IInv, TurnShape, Interrupted
<1>6. OrphanShape' BY <1>1, <1>2 DEF IInv, TurnShape, OrphanShape, Outer, Interrupted
<1>7. SentShape' BY <1>1, <1>2 DEF IInv, SentShape, Outer, Progress
<1> QED BY <1>3, <1>4, <1>5, <1>6, <1>7 DEF IInv

\* One runtime event is read; the terminal one ends the execution, and the
\* turn is over by then.
LEMMA ReadStep ==
  ASSUME IInv, InnerRead
  PROVE  IInv'
<1> DEFINE e == Head(feed)
<1>1. /\ loop = "select" /\ result = "none" /\ inner = "read" /\ feed # <<>>
      /\ feed' = Tail(feed)
      /\ guard' = [guard EXCEPT !.inner.last_progress_at =
                     IF runtime_event_is_progress(e) THEN now ELSE @]
      /\ result' = IF e \in TurnEnds THEN preserve_timeout_reason(guard.inner, e) ELSE "none"
      /\ log' = [log EXCEPT !.lastSent =
                   IF \E i \in DOMAIN Ingested(e) : execution_event_is_progress(Ingested(e)[i])
                   THEN now ELSE @]
      /\ Room(Ingested(e)) /\ Send(Ingested(e))
      /\ UNCHANGED <<now, cancel, shutdown, loop, timers, dirty, recorded, inner, innerTimer,
                     turn, emitted>>
  BY DEF InnerRead, Polled, InSelect, outerVars, innerVars
<1>2. /\ now \in Nat /\ guard \in [outer : GuardType, inner : GuardType]
      /\ feed \in Seq(RuntimeEvents \cup TurnEnds)
      /\ log \in [readFailed : BOOLEAN, lastSent : Nat, turnStart : Nat]
  BY DEF IInv, TypeOK
<1>3. /\ channel' \in Seq(TaskEvents) /\ Len(channel') <= ChannelCap
      /\ Progress(channel) \/ Progress(Ingested(e)) => Progress(channel')
  BY <1>1, IngestedType, SentEvents
<1>4. /\ feed' \in Seq(RuntimeEvents \cup TurnEnds) /\ e = feed[1] /\ 1 \in 1..Len(feed)
      /\ Len(feed') = Len(feed) - 1 /\ \A i \in 1..Len(feed') : feed'[i] = feed[i + 1]
      /\ \A i \in 1..Len(feed') : i + 1 \in 1..Len(feed)
  BY <1>1, <1>2
<1>5. /\ Outer' = Outer /\ guard' \in [outer : GuardType, inner : GuardType]
      /\ guard'.inner.interrupt_reason = guard.inner.interrupt_reason
  BY <1>1, <1>2 DEF Outer, GuardType
<1>6. e \in TurnEnds => turn = "over" BY <1>4 DEF IInv, TurnShape
<1>7. result' \in Reasons \cup {"none"} /\ (e \notin TurnEnds => result' = "none")
  BY <1>1 DEF preserve_timeout_reason, TurnEnds, Timeouts, Reasons
<1>8. /\ log' \in [readFailed : BOOLEAN, lastSent : Nat, turnStart : Nat]
      /\ log'.readFailed = log.readFailed /\ log'.turnStart = log.turnStart
      /\ log'.lastSent = IF Progress(Ingested(e)) THEN now ELSE log.lastSent
  <2>1. DOMAIN Ingested(e) = 1..Len(Ingested(e)) BY IngestedType
  <2> QED BY <1>1, <1>2, <2>1 DEF Progress
<1> HIDE DEF e
<1>9. TypeOK' BY <1>1, <1>3, <1>4, <1>5, <1>7, <1>8 DEF IInv, TypeOK
<1>10. TimeShape' BY <1>1, <1>5 DEF IInv, TimeShape, Interrupted
<1>11. TurnShape' BY <1>1, <1>4, <1>5 DEF IInv, TurnShape, Interrupted
<1>12. OrphanShape' BY <1>1, <1>5, <1>6, <1>7, <1>8 DEF IInv, OrphanShape, Interrupted
<1>13. SentShape' BY <1>1, <1>2, <1>3, <1>5, <1>8 DEF IInv, SentShape
<1> QED BY <1>9, <1>10, <1>11, <1>12, <1>13 DEF IInv

\* The executor goes on to its watchdog, or wakes up to read.
LEMMA MoveStep ==
  ASSUME IInv, InnerReadAll \/ InnerWake
  PROVE  IInv'
<1>1. /\ inner \in {"read", "wait"} /\ inner' \in {"read", "guard"}
      /\ UNCHANGED <<now, guard, cancel, shutdown, loop, timers, dirty, recorded, channel,
                     innerTimer, feed, turn, result, emitted, log>>
  BY DEF InnerReadAll, InnerWake, outerVars
<1>2. TypeOK' BY <1>1 DEF IInv, TypeOK
<1>3. TimeShape' BY <1>1 DEF IInv, TimeShape, Outer, Interrupted
<1>4. TurnShape' BY <1>1 DEF IInv, TurnShape, Interrupted
<1>5. OrphanShape' BY <1>1 DEF IInv, OrphanShape, Outer, Interrupted
<1>6. SentShape' BY <1>1 DEF IInv, SentShape, Outer, Progress
<1> QED BY <1>2, <1>3, <1>4, <1>5, <1>6 DEF IInv

\* The inner watchdog: an interrupt tells the turn to stop, and only then does
\* the executor give up or wait without listening for the token.
LEMMA GuardStep ==
  ASSUME IInv, InnerGuard
  PROVE  IInv'
<1> DEFINE action == evaluate(guard.inner, cancel, FALSE)
<1>1. /\ loop = "select" /\ result = "none" /\ inner = "guard"
      /\ UNCHANGED <<now, cancel, shutdown, loop, timers, dirty, recorded, feed, emitted>>
  BY DEF InnerGuard, Polled, InSelect, outerVars
<1>2. \/ /\ action.act = "Interrupt" /\ Room(<<"status">>) /\ Send(<<"status">>)
         /\ turn' = IF turn = "active" THEN "interrupting" ELSE turn
         /\ guard' = [guard EXCEPT !.inner = Noted(@, action.reason)]
         /\ inner' = "read" /\ UNCHANGED <<innerTimer, result, log>>
      \/ /\ action.act = "Terminalize" /\ result' = action.reason
         /\ UNCHANGED <<turn, guard, inner, channel, log, innerTimer>>
      \/ /\ action.act = "Run" /\ inner' = "wait"
         /\ innerTimer' = [wake |-> now + action.wait, cancelArmed |-> ~cancel]
         /\ UNCHANGED <<turn, guard, channel, log, result>>
  BY DEF InnerGuard
<1>3. /\ now \in Nat /\ guard \in [outer : GuardType, inner : GuardType]
      /\ guard.inner \in GuardType /\ cancel \in BOOLEAN
  BY DEF IInv, TypeOK
<1>4. \/ action.act = "Interrupt" /\ ~Interrupted(guard.inner) /\ action.reason \in Reasons
      \/ action.act = "Terminalize" /\ Interrupted(guard.inner) /\ action.reason \in Reasons
      \/ /\ action.act = "Run" /\ action.wait \in Nat
         /\ ~Interrupted(guard.inner) => ~cancel
  BY <1>3, Answers
<1> HIDE DEF action
<1>5. CASE action.act = "Interrupt"
  <2> DEFINE h == Noted(guard.inner, action.reason)
  <2>1. /\ Room(<<"status">>) /\ Send(<<"status">>)
        /\ turn' = IF turn = "active" THEN "interrupting" ELSE turn
        /\ guard' = [guard EXCEPT !.inner = h]
        /\ inner' = "read" /\ UNCHANGED <<innerTimer, result, log>>
        /\ action.reason \in Reasons
    BY <1>2, <1>4, <1>5
  <2>2. <<"status">> \in Seq(TaskEvents) BY DEF TaskEvents
  <2>3. /\ channel' \in Seq(TaskEvents) /\ Len(channel') <= ChannelCap
        /\ Progress(channel) => Progress(channel')
    BY <2>1, <2>2, SentEvents
  <2>4. h \in GuardType BY <1>3, <2>1 DEF Noted, GuardType
  <2> HIDE DEF h
  <2>5. Outer' = Outer /\ guard' \in [outer : GuardType, inner : GuardType]
    BY <1>3, <2>1, <2>4 DEF Outer
  <2>6. turn' # "active" /\ turn' \in {"none", "interrupting", "over"}
        /\ (turn' = "none" <=> turn = "none") /\ (turn = "over" => turn' = "over")
    BY <2>1 DEF IInv, TypeOK
  <2>7. TypeOK' BY <1>1, <2>1, <2>3, <2>5, <2>6 DEF IInv, TypeOK
  <2>8. TimeShape' BY <1>1, <2>5 DEF IInv, TimeShape, Interrupted
  <2>9. TurnShape' BY <1>1, <2>1, <2>6 DEF IInv, TurnShape, Interrupted
  <2>10. OrphanShape' BY <1>1, <2>6 DEF OrphanShape
  <2>11. SentShape' BY <1>1, <2>1, <2>3, <2>5 DEF IInv, SentShape
  <2> QED BY <2>7, <2>8, <2>9, <2>10, <2>11 DEF IInv
<1>6. CASE action.act = "Terminalize"
  <2>1. /\ result' = action.reason /\ action.reason \in Reasons /\ Interrupted(guard.inner)
        /\ UNCHANGED <<turn, guard, inner, channel, log, innerTimer>>
    BY <1>2, <1>4, <1>6
  <2>2. TypeOK' BY <1>1, <2>1 DEF IInv, TypeOK
  <2>3. TimeShape' BY <1>1, <2>1 DEF IInv, TimeShape, Outer, Interrupted
  <2>4. TurnShape' BY <1>1, <2>1 DEF IInv, TurnShape, Interrupted
  <2>5. OrphanShape' BY <1>1, <2>1 DEF IInv, TurnShape, OrphanShape, Outer, Interrupted
  <2>6. SentShape' BY <1>1, <2>1 DEF IInv, SentShape, Outer, Progress
  <2> QED BY <2>2, <2>3, <2>4, <2>5, <2>6 DEF IInv
<1>7. CASE action.act = "Run"
  <2>1. /\ inner' = "wait" /\ action.wait \in Nat
        /\ innerTimer' = [wake |-> now + action.wait, cancelArmed |-> ~cancel]
        /\ ~Interrupted(guard.inner) => ~cancel
        /\ UNCHANGED <<turn, guard, channel, log, result>>
    BY <1>2, <1>4, <1>7
  <2>2. /\ innerTimer' \in [wake : Nat, cancelArmed : BOOLEAN]
        /\ ~innerTimer'.cancelArmed => Interrupted(guard.inner)
    <3>1. innerTimer' \in [wake : Nat, cancelArmed : BOOLEAN] BY <1>3, <2>1
    <3>2. innerTimer'.cancelArmed = ~cancel BY <2>1
    <3>3. ~innerTimer'.cancelArmed => cancel BY <1>3, <3>2
    <3> QED BY <2>1, <3>1, <3>3
  <2>3. TypeOK' BY <1>1, <2>1, <2>2 DEF IInv, TypeOK
  <2>4. TimeShape' BY <1>1, <2>1 DEF IInv, TimeShape, Outer, Interrupted
  <2>5. TurnShape' BY <1>1, <2>1, <2>2 DEF IInv, TurnShape, Interrupted
  <2>6. OrphanShape' BY <1>1, <2>1 DEF IInv, OrphanShape, Outer, Interrupted
  <2>7. SentShape' BY <1>1, <2>1 DEF IInv, SentShape, Outer, Progress
  <2> QED BY <2>3, <2>4, <2>5, <2>6, <2>7 DEF IInv
<1> QED BY <1>4, <1>5, <1>6, <1>7

-----------------------------------------------------------------------------
(* The engine, the client, the process and time.                           *)

\* The engine speaks: the terminal event comes with the end of the turn.
LEMMA EngineStep ==
  ASSUME IInv,
         \/ \E e \in RuntimeEvents : EngineEmit(e)
         \/ \E e \in TurnEnds : EngineEnds(e)
  PROVE  IInv'
<1>1. PICK e \in RuntimeEvents \cup TurnEnds :
        /\ feed' = Append(feed, e) /\ turn \in {"active", "interrupting"}
        /\ turn' = IF e \in TurnEnds THEN "over" ELSE turn
        /\ emitted' \in 0..EventsPerTick
        /\ UNCHANGED <<now, guard, cancel, shutdown, loop, timers, dirty, recorded, channel,
                       inner, innerTimer, result, log>>
  <2>1. ASSUME NEW e \in RuntimeEvents, EngineEmit(e)
        PROVE  e \notin TurnEnds /\ emitted' \in 0..EventsPerTick
    BY <2>1, Limits DEF RuntimeEvents, TurnEnds, EngineEmit, IInv, TypeOK
  <2> QED BY <2>1 DEF EngineEmit, EngineEnds, outerVars, innerVars, IInv, TypeOK
<1>2. feed \in Seq(RuntimeEvents \cup TurnEnds) BY DEF IInv, TypeOK
<1>3. /\ feed' \in Seq(RuntimeEvents \cup TurnEnds) /\ Len(feed') = Len(feed) + 1
      /\ \A i \in 1..Len(feed) : feed'[i] = feed[i]
      /\ feed'[Len(feed) + 1] = e /\ Len(feed) \in Nat
  BY <1>1, <1>2
<1>4. turn' \in {"active", "interrupting", "over"} /\ (turn' = "active" => turn = "active")
  BY <1>1
<1>5. TypeOK' BY <1>1, <1>3, <1>4 DEF IInv, TypeOK
<1>6. TimeShape' BY <1>1 DEF IInv, TimeShape, Outer, Interrupted
<1>7. TurnShape'
  <2>1. \A i \in 1..Len(feed') : feed'[i] \in TurnEnds => turn' = "over"
    <3> SUFFICES ASSUME NEW i \in 1..Len(feed'), feed'[i] \in TurnEnds PROVE turn' = "over"
      OBVIOUS
    <3>1. CASE i = Len(feed) + 1 BY <1>1, <1>3, <3>1
    <3>2. CASE i \in 1..Len(feed) BY <1>1, <1>3, <3>2 DEF IInv, TurnShape
    <3> QED BY <1>3, <3>1, <3>2
  <2> QED BY <1>1, <1>4, <2>1 DEF IInv, TurnShape, Interrupted
<1>8. OrphanShape' BY <1>1, <1>4 DEF IInv, OrphanShape, Outer, Interrupted
<1>9. SentShape' BY <1>1 DEF IInv, SentShape, Outer, Progress
<1> QED BY <1>5, <1>6, <1>7, <1>8, <1>9 DEF IInv

\* A token is set.
LEMMA TokenStep ==
  ASSUME IInv, CancelTask \/ Shutdown
  PROVE  IInv'
<1>1. /\ cancel' \in BOOLEAN /\ (cancel => cancel') /\ shutdown' \in BOOLEAN
      /\ UNCHANGED <<now, guard, loop, timers, dirty, recorded, channel, inner, innerTimer,
                     feed, turn, result, emitted, log>>
  BY DEF CancelTask, Shutdown, outerVars, innerVars, IInv, TypeOK
<1>2. TypeOK' BY <1>1 DEF IInv, TypeOK
<1>3. TimeShape' BY <1>1 DEF IInv, TimeShape, Outer, Interrupted
<1>4. TurnShape' BY <1>1 DEF IInv, TurnShape, Interrupted
<1>5. OrphanShape' BY <1>1 DEF IInv, OrphanShape, Outer, Interrupted
<1>6. SentShape' BY <1>1 DEF IInv, SentShape, Outer, Progress
<1> QED BY <1>2, <1>3, <1>4, <1>5, <1>6 DEF IInv

\* Time passes only when both loops sleep: before the timer of the outer one
\* rings, and with a turn that has been told to stop if the task was.
LEMMA TickStep ==
  ASSUME IInv, Tick
  PROVE  IInv'
<1>1. /\ loop = "select" /\ result = "none" /\ now < timers.wake
      /\ inner = "start" \/ (inner = "wait" /\ ~(cancel /\ innerTimer.cancelArmed))
      /\ now' = now + 1 /\ emitted' = 0
      /\ UNCHANGED <<guard, cancel, shutdown, loop, timers, dirty, recorded, channel, inner,
                     innerTimer, feed, turn, result, log>>
  BY DEF Tick, Asleep, Quiet, InSelect, InnerAwake, outerVars, innerVars
<1>2. now \in Nat /\ timers.wake \in Nat /\ Outer \in GuardType /\ log.lastSent \in Nat
  BY DEF IInv, TypeOK, Outer
<1>3. TypeOK' BY <1>1, <1>2, Limits DEF IInv, TypeOK
<1>4. TimeShape'
  <2>1. Outer.interrupt_at \in Nat BY <1>2 DEF GuardType
  <2> QED BY <1>1, <1>2, <2>1, Limits DEF IInv, TimeShape, Outer, Interrupted
<1>5. TurnShape' BY <1>1 DEF IInv, TurnShape, Interrupted
<1>6. OrphanShape'
  <2>1. ~(turn = "active" /\ Interrupted(Outer))
    BY <1>1 DEF IInv, TimeShape, TurnShape
  <2> QED BY <1>1, <2>1 DEF OrphanShape, Outer, Interrupted
<1>7. SentShape' BY <1>1, <1>2 DEF IInv, SentShape, Outer, Progress
<1> QED BY <1>3, <1>4, <1>5, <1>6, <1>7 DEF IInv

-----------------------------------------------------------------------------
\* Every step keeps the invariant.
LEMMA NextIInv == IInv /\ [Next]_vars => IInv'
<1> SUFFICES ASSUME IInv, [Next]_vars PROVE IInv' OBVIOUS
<1>1. CASE UNCHANGED vars
  <2>1. UNCHANGED <<now, guard, cancel, shutdown, loop, timers, dirty, recorded, channel,
                    inner, innerTimer, feed, turn, result, emitted, log>>
    BY <1>1 DEF vars, outerVars, innerVars
  <2>2. TypeOK' BY <2>1 DEF IInv, TypeOK
  <2>3. TimeShape' BY <2>1 DEF IInv, TimeShape, Outer, Interrupted
  <2>4. TurnShape' BY <2>1 DEF IInv, TurnShape, Interrupted
  <2>5. OrphanShape' BY <2>1 DEF IInv, OrphanShape, Outer, Interrupted
  <2>6. SentShape' BY <2>1 DEF IInv, SentShape, Outer, Progress
  <2> QED BY <2>2, <2>3, <2>4, <2>5, <2>6 DEF IInv
<1>2. CASE LoopStep
  BY <1>2, EvaluateStep, EndStep, ReceiveStep, WakeStep DEF LoopStep
<1>3. CASE ExecutorStep
  BY <1>3, ReadStep, MoveStep, GuardStep DEF ExecutorStep
<1>4. CASE InnerStart \/ InnerFails \/ Tick BY <1>4, StartStep, FailStep, TickStep
<1>5. CASE \/ \E e \in RuntimeEvents : EngineEmit(e)
           \/ \E e \in TurnEnds : EngineEnds(e)
  BY <1>5, EngineStep
<1>6. CASE CancelTask \/ Shutdown BY <1>6, TokenStep
<1> QED BY <1>1, <1>2, <1>3, <1>4, <1>5, <1>6 DEF Next

\* The invariant holds in every reachable state.
LEMMA Invariance == Spec => []IInv
BY InitIInv, NextIInv, PTL DEF Spec

\* A worker is never occupied for longer than the wall limit and the grace
\* period, whatever engine, executor and clients do (run_task).
THEOREM ExecutionEndsInTime == Spec => []EndsInTime
<1>1. IInv => EndsInTime
  <2> SUFFICES ASSUME IInv PROVE now <= Wall + Grace BY DEF EndsInTime
  <2>1. now \in Nat /\ Outer.interrupt_at \in Nat BY DEF IInv, TypeOK, Outer, GuardType
  <2> QED BY <2>1, Limits DEF IInv, TimeShape
<1> QED BY <1>1, Invariance, PTL

\* From the interrupt on, the run lasts for the grace period at most (run_task,
\* ExecutionGuard::evaluate).
THEOREM InterruptedStops == Spec => []StopsWithinGrace
<1>1. IInv => StopsWithinGrace
  <2> SUFFICES ASSUME IInv, Interrupted(Outer)
               PROVE  now - guard.outer.interrupt_at <= Grace
    BY DEF StopsWithinGrace, Interrupted, Outer
  <2>1. now \in Nat /\ Outer.interrupt_at \in Nat BY DEF IInv, TypeOK, Outer, GuardType
  <2>2. now <= Outer.interrupt_at + Grace BY DEF IInv, TimeShape
  <2> QED BY <2>1, <2>2, Limits DEF Outer
<1> QED BY <1>1, Invariance, PTL

\* No engine turn goes on unnoticed when the worker moves on, but for the two
\* exceptions the property names (run_task, drive_engine_turn).
THEOREM TurnsAreStopped == Spec => []NoOrphanTurn
<1>1. IInv => NoOrphanTurn BY DEF IInv, OrphanShape, NoOrphanTurn
<1> QED BY <1>1, Invariance, PTL

\* An idle interrupt of the manager means that no progress was sent to it for
\* the whole idle period (run_task's catch-up before an idle interrupt).
THEOREM IdlenessIsReal == Spec => IdleIsReal
<1>1. IInv /\ [Next]_vars =>
        [guard.outer.interrupt_reason = "none" /\ guard'.outer.interrupt_reason = "idle_timeout"
           => now - log.lastSent >= Idle]_vars
  <2> SUFFICES ASSUME IInv, Next, guard.outer.interrupt_reason = "none",
                      guard'.outer.interrupt_reason = "idle_timeout"
               PROVE  now - log.lastSent >= Idle
    BY DEF vars
  <2>1. guard \in [outer : GuardType, inner : GuardType] /\ now \in Nat /\ log.lastSent \in Nat
    BY DEF IInv, TypeOK
  <2>2. CASE Evaluate
    <3> DEFINE drained == Drained(evaluate(Outer, cancel, shutdown))
               rest == IF drained = <<>> THEN channel ELSE <<>>
    <3>1. PICK g, action :
            /\ g = Processed(Outer, drained) /\ action = evaluate(g, cancel, shutdown)
            /\ \/ /\ action.act = "Interrupt"
                  /\ guard' = [guard EXCEPT !.outer = Noted(g, action.reason)]
               \/ guard' = [guard EXCEPT !.outer = g]
      BY <2>2 DEF Evaluate, Outer
    <3>2. Counted(g, rest) BY <2>2, <3>1, EvaluateDrains DEF Evaluate
    <3>3. g \in GuardType /\ g.interrupt_reason = "none" BY <3>2 DEF Counted, Outer
    <3>4. action.act = "Interrupt" /\ action.reason = "idle_timeout"
      BY <2>1, <3>1, <3>3 DEF Noted, GuardType
    <3>5. now - g.last_progress_at >= Idle
      <4>1. cancel \in BOOLEAN /\ shutdown \in BOOLEAN BY DEF IInv, TypeOK
      <4> QED BY <2>1, <3>1, <3>3, <3>4, <4>1, Answers
    <3>6. rest = <<>> \/ g = Outer
      <4>1. CASE drained = <<>>
        BY <3>1, <4>1 DEF Processed
      <4> QED BY <4>1
    <3>7. g = Outer => drained = channel BY <3>1, <3>4 DEF Drained
    <3>8. rest = <<>>
      BY <3>6, <3>7
    <3>9. ~Progress(rest) BY <3>8 DEF Progress
    <3>10. log.lastSent <= g.last_progress_at /\ g.last_progress_at \in Nat
      BY <3>2, <3>3, <3>9 DEF Counted, GuardType
    <3> QED BY <2>1, <3>5, <3>10, Limits
  <2>3. CASE Receive
    <3>1. guard'.outer = Processed(guard.outer, <<Head(channel)>>)
      BY <2>1, <2>3 DEF Receive
    <3>2. guard'.outer.interrupt_reason = guard.outer.interrupt_reason
      BY <2>1, <3>1 DEF Processed, GuardType
    <3> QED BY <3>2
  <2>4. CASE InnerStart \/ InnerRead \/ InnerGuard
    <3>1. guard'.outer = guard.outer BY <2>1, <2>4 DEF InnerStart, InnerRead, InnerGuard
    <3> QED BY <3>1
  <2>5. CASE UNCHANGED guard BY <2>5
  <2> QED BY <2>2, <2>3, <2>4, <2>5
      DEF Next, LoopStep, ExecutorStep, TakeResult, SeeShutdown, Flush, Wake, Finish,
          InnerReadAll, InnerWake, InnerFails, Tick, EngineEmit, EngineEnds, CancelTask,
          Shutdown
<1> QED BY <1>1, Invariance, PTL DEF Spec, IdleIsReal
=============================================================================
