-------------------------- MODULE TurnSettlement --------------------------
(***************************************************************************)
(* How a turn of the engine ends while its sub-agents are still at work    *)
(* (crates/tui/src/core/engine.rs, tools/subagent/mod.rs and               *)
(* tools/subagent/mailbox.rs).                                             *)
(*                                                                         *)
(* Sub-agents publish envelopes into the turn's mailbox; a drainer task    *)
(* forwards them as events.  Owned (foreground) sub-agents are registered  *)
(* with the turn.  To end, the engine closes the registry, parks or        *)
(* cancels what is registered, waits for every registration to be          *)
(* dropped, seals the mailbox, lets the drainer empty it, and only then    *)
(* emits TurnComplete.  Detached sub-agents share the mailbox and the      *)
(* manager, not the registry.                                              *)
(*                                                                         *)
(* One terminal outcome is published per sub-agent, by its own task or by  *)
(* whoever stops it, under the manager's write lock: claim (and abort the  *)
(* task), deliver, commit.  These are separate steps here because the      *)
(* aborted task is dropped by another thread while the lock is held.       *)
(***************************************************************************)
EXTENDS Naturals

CONSTANTS
  Children,    \* sub-agents that may be spawned
  Engine,      \* the turn itself, as an actor and in events
  Free,        \* nobody: a lock that is not held, no settlement
  Detached,    \* may a sub-agent be started detached?
  Panics,      \* may a sub-agent's task panic?
  MaxSends,    \* bound: envelopes of the sub-agents' own
  MaxStops     \* bound: explicit stops

ASSUME ActorAssumption ==
  Engine \notin Children /\ Free \notin Children \cup {Engine, "Park", "Cancel"}
ASSUME SwitchAssumption == Detached \in BOOLEAN /\ Panics \in BOOLEAN
ASSUME BoundAssumption  == MaxSends \in Nat /\ MaxStops \in Nat

VARIABLES
  turn,        \* how far the engine is in ending the turn
  outcome,     \* the turn's status once run_turn has returned
  escaped,     \* the engine's cancel token: Esc was pressed
  settlement,  \* ForegroundChildState.settlement
  registered,  \* ForegroundChildState.children
  parking,     \* the children whose parking_requested is set
  cancelling,  \* the tokens the engine collected and has yet to cancel
  cancelled,   \* the children whose own token is cancelled
  notified,    \* the watch channel: a release the engine has not seen
  task,        \* each child's task: "none", "live", "ending", "over"
  owned,       \* the children with a registration of this turn
  result,      \* the outcome a task has computed for itself
  status,      \* SubAgent.status in the manager
  aborted,     \* the children whose task handle was aborted
  finisher,    \* the manager's write lock: who finishes whom, how far
  gate,        \* Mailbox.send_gate
  closed,      \* Mailbox.closed
  queue,       \* the mailbox channel: envelopes accepted, not yet received
  flush,       \* flush_tx was fired
  drainer,     \* "loop", "flush" or "done"
  batch,       \* what drain_available returned, not yet forwarded
  missed,      \* history: children whose outcome the mailbox refused
  published,   \* history: terminal deliveries of each child
  sends, stops

registry == <<settlement, registered, parking, cancelling, cancelled, notified>>
agents   == <<task, owned, result, status, aborted, finisher>>
mailbox  == <<gate, closed, queue, flush, drainer, batch>>
history  == <<missed, published, sends, stops>>
vars == <<turn, outcome, escaped, registry, agents, mailbox, history>>

-----------------------------------------------------------------------------
Outcomes  == {"Completed", "Failed", "Interrupted", "Cancelled"}
Idle == [by |-> Free, of |-> Free, status |-> "Running", phase |-> "none"]

Init ==
  /\ turn = "run" /\ outcome = "Running" /\ escaped = FALSE
  /\ settlement = Free /\ registered = {} /\ parking = {}
  /\ cancelling = {} /\ cancelled = {} /\ notified = FALSE
  /\ task = [c \in Children |-> "none"] /\ owned = {}
  /\ result = [c \in Children |-> "Running"]
  /\ status = [c \in Children |-> "Running"]
  /\ aborted = {} /\ finisher = Idle
  /\ gate = Free /\ closed = FALSE
  /\ queue = 0 /\ flush = FALSE /\ drainer = "loop" /\ batch = 0
  /\ missed = {} /\ published = [c \in Children |-> 0]
  /\ sends = 0 /\ stops = 0

-----------------------------------------------------------------------------
(* The mailbox.  A send and the seal both hold the gate.                   *)

Push == queue' = queue + 1

\* A send in one step, for callers that hold the manager's lock; a closed
\* mailbox refuses it.
Send == gate = Free /\ IF closed THEN UNCHANGED queue ELSE Push

\* What a thread does between two of its awaits cannot be interrupted.
Busy(c) == gate = c \/ finisher.by = c
Runs(c) == task[c] = "live" /\ ~Busy(c)

\* Token usage, progress and tool calls, from the child's own task.
BeginSend(c) ==
  /\ Runs(c) /\ gate = Free /\ sends < MaxSends
  /\ ~closed
  /\ gate' = c /\ sends' = sends + 1
  /\ UNCHANGED <<turn, outcome, escaped, registry, agents, closed, queue,
                 flush, drainer, batch, missed, published, stops>>

EndSend(c) ==
  /\ gate = c
  /\ Push
  /\ gate' = Free
  /\ UNCHANGED <<turn, outcome, escaped, registry, agents, closed, flush,
                 drainer, batch, history>>

\* The select of the drainer is biased: the flush signal comes first.  An
\* envelope that is received is forwarded; a best-effort one may be dropped
\* when throttled or when the event channel is full.
Receive ==
  /\ drainer = "loop" /\ ~flush /\ queue > 0
  /\ queue' = queue - 1
  /\ UNCHANGED <<turn, outcome, escaped, registry, agents, history, gate,
                 closed, flush, drainer, batch>>

drain_available ==
  /\ drainer = "loop" /\ flush
  /\ batch' = queue /\ queue' = 0 /\ drainer' = "flush"
  /\ UNCHANGED <<turn, outcome, escaped, registry, agents, history, gate,
                 closed, flush>>

ForwardBatch ==
  /\ drainer = "flush"
  /\ \/ batch > 0 /\ batch' = batch - 1 /\ UNCHANGED drainer
     \/ batch = 0 /\ drainer' = "done" /\ UNCHANGED batch
  /\ UNCHANGED <<turn, outcome, escaped, registry, agents, history, gate,
                 closed, queue, flush>>

-----------------------------------------------------------------------------
(* Sub-agents.                                                             *)

\* Mutation: registration does not look at the settlement.
Mutregister(c) == registered' = registered \cup {c} /\ owned' = owned \cup {c}

register(c) ==
  /\ settlement = Free
  /\ registered' = registered \cup {c} /\ owned' = owned \cup {c}

\* The spawner is the turn's own tool call or a running sub-agent, and holds
\* the manager's lock throughout.  What a detached sub-agent spawns is
\* detached; a registration after the registry was closed is refused.
Spawn(by, c) ==
  /\ finisher = Idle
  /\ IF by = Engine THEN turn = "run" ELSE Runs(by)
  /\ task[c] = "none"
  /\ \/ by \in owned \cup {Engine} /\ register(c)
     \/ /\ Detached \/ by \notin owned \cup {Engine}
        /\ UNCHANGED <<registered, owned>>
  /\ task' = [task EXCEPT ![c] = "live"]
  /\ Send
  /\ UNCHANGED <<turn, outcome, escaped, settlement, parking, cancelling,
                 cancelled, notified, result, status, aborted, finisher, gate,
                 closed, flush, drainer, batch, history>>

\* The token of an owned child derives from the turn's; a detached one has
\* its own.
TokenCancelled(c) == c \in owned /\ (escaped \/ c \in cancelled)

Ends(c, r) ==
  /\ Runs(c)
  /\ task' = [task EXCEPT ![c] = "ending"]
  /\ result' = [result EXCEPT ![c] = r]
  /\ UNCHANGED <<turn, outcome, escaped, registry, owned, status, aborted,
                 finisher, mailbox, history>>

\* The model stops, fails, or the step, token or time budget is used up;
\* the token is only looked at between steps.
EndsByItself(c) == \E r \in {"Completed", "Failed"} : Ends(c, r)

\* subagent_cancellation_projection
EndsCancelled(c) ==
  /\ TokenCancelled(c)
  /\ Ends(c, IF c \in parking THEN "Interrupted" ELSE "Cancelled")

\* The task and what it holds are gone.
Over(c) ==
  /\ task' = [task EXCEPT ![c] = "over"]
  /\ result' = [result EXCEPT ![c] = "Running"]

\* The supervisor logs the panic; nothing is published.
TaskPanics(c) ==
  /\ Panics /\ Runs(c)
  /\ task' = [task EXCEPT ![c] = "over"]
  /\ UNCHANGED <<turn, outcome, escaped, registry, owned, result, status,
                 aborted, finisher, mailbox, history>>

\* An aborted task is dropped at its next await.
AbortLands(c) ==
  /\ c \in aborted /\ task[c] \in {"live", "ending"} /\ ~Busy(c)
  /\ Over(c)
  /\ UNCHANGED <<turn, outcome, escaped, registry, owned, status, aborted, finisher, mailbox, history>>

\* Dropping the task drops its registration, which wakes the engine.
release(c) ==
  /\ task[c] = "over" /\ c \in registered
  /\ registered' = registered \ {c} /\ notified' = TRUE
  /\ UNCHANGED <<turn, outcome, escaped, settlement, parking, cancelling,
                 cancelled, agents, mailbox, history>>

-----------------------------------------------------------------------------
(* One terminal outcome per sub-agent: finish_terminal_result.             *)

claim_terminal_delivery(c) == finisher = Idle /\ status[c] = "Running"

\* Mutation: the registration ends with the work, before the outcome is out.
MutFinish(c) ==
  /\ task[c] = "ending" /\ ~Busy(c)
  /\ claim_terminal_delivery(c)
  /\ finisher' = [by |-> c, of |-> c, status |-> result[c], phase |-> "deliver"]
  /\ task' = [task EXCEPT ![c] = "over"]
  /\ UNCHANGED <<turn, outcome, escaped, registry, owned, result, status,
                 aborted, mailbox, history>>

\* run_subagent_task's epilogue.
Finish(c) ==
  /\ task[c] = "ending" /\ ~Busy(c)
  /\ claim_terminal_delivery(c)
  /\ finisher' = [by |-> c, of |-> c, status |-> result[c], phase |-> "deliver"]
  /\ UNCHANGED <<turn, outcome, escaped, registry, task, owned, result, status,
                 aborted, mailbox, history>>

\* A late result after another outcome won.
Suppressed(c) ==
  /\ task[c] = "ending" /\ finisher = Idle /\ status[c] # "Running"
  /\ Over(c)
  /\ UNCHANGED <<turn, outcome, escaped, registry, owned, status, aborted, finisher, mailbox, history>>

\* cancel_agent, interrupt_child and the clean-up of stale agents: from the
\* turn's tool calls or those of another sub-agent.
Stop(by, c, r) ==
  /\ stops < MaxStops
  /\ IF by = Engine THEN turn = "run" ELSE by # c /\ Runs(by)
  /\ task[c] # "none"
  /\ claim_terminal_delivery(c)
  /\ finisher' = [by |-> by, of |-> c, status |-> r, phase |-> "deliver"]
  /\ aborted' = aborted \cup {c}
  /\ stops' = stops + 1
  /\ UNCHANGED <<turn, outcome, escaped, registry, task, owned, result, status,
                 mailbox, missed, published, sends>>

Deliver ==
  /\ finisher.phase = "deliver"
  /\ Send
  /\ missed' = IF closed THEN missed \cup {finisher.of} ELSE missed
  /\ published' = [published EXCEPT ![finisher.of] = @ + 1]
  /\ finisher' = [finisher EXCEPT !.phase = "commit"]
  /\ UNCHANGED <<turn, outcome, escaped, registry, task, owned, result, status,
                 aborted, gate, closed, flush, drainer, batch, sends, stops>>

\* A task that finished itself has nothing left to do.
Commit ==
  /\ finisher.phase = "commit"
  /\ status' = [status EXCEPT ![finisher.of] = finisher.status]
  /\ IF finisher.by = finisher.of THEN Over(finisher.of) ELSE UNCHANGED <<task, result>>
  /\ finisher' = Idle
  /\ UNCHANGED <<turn, outcome, escaped, registry, owned, aborted,
                 mailbox, history>>

-----------------------------------------------------------------------------
(* The engine.                                                             *)

\* Esc, from the UI's thread.
Escape ==
  /\ ~escaped /\ turn # "complete"
  /\ escaped' = TRUE
  /\ UNCHANGED <<turn, outcome, registry, agents, mailbox, history>>

\* run_turn makes its own last check of the token.
RunTurnReturns ==
  /\ turn = "run" /\ finisher.by # Engine
  /\ \/ outcome' = IF escaped THEN "Interrupted" ELSE "Completed"
     \/ outcome' = "Failed"
  /\ turn' = "returned"
  /\ UNCHANGED <<escaped, registry, agents, mailbox, history>>

\* terminal_turn_status_at_settlement; the receiver subscribes before the
\* registry is closed.
DecideSettlement ==
  /\ turn = "returned"
  /\ outcome' = IF outcome = "Completed" /\ escaped THEN "Interrupted" ELSE outcome
  /\ notified' = FALSE
  /\ turn' = "settle"
  /\ UNCHANGED <<escaped, settlement, registered, parking, cancelling,
                 cancelled, agents, mailbox, history>>

\* Mutation: a parked child is not marked before its token is cancelled.
Mutsettle ==
  /\ turn = "settle"
  /\ settlement' = IF outcome = "Completed" THEN "Park" ELSE "Cancel"
  /\ UNCHANGED parking
  /\ cancelling' = registered
  /\ turn' = "cancel"
  /\ UNCHANGED <<outcome, escaped, registered, cancelled, notified, agents,
                 mailbox, history>>

\* Under the registry's mutex; a completed turn parks, any other cancels.
settle ==
  /\ turn = "settle"
  /\ settlement' = IF outcome = "Completed" THEN "Park" ELSE "Cancel"
  /\ parking' = IF outcome = "Completed" THEN registered ELSE parking
  /\ cancelling' = registered
  /\ turn' = "cancel"
  /\ UNCHANGED <<outcome, escaped, registered, cancelled, notified, agents,
                 mailbox, history>>

CancelTokens ==
  /\ turn = "cancel"
  /\ \/ \E c \in cancelling :
          cancelling' = cancelling \ {c} /\ cancelled' = cancelled \cup {c}
          /\ UNCHANGED turn
     \/ cancelling = {} /\ turn' = "wait" /\ UNCHANGED <<cancelling, cancelled>>
  /\ UNCHANGED <<outcome, escaped, settlement, registered, parking, notified,
                 agents, mailbox, history>>

\* The settled loop: check, sleep until the next release, check again.
WaitSettled ==
  /\ \/ turn = "wait" /\ registered = {} /\ turn' = "seal" /\ UNCHANGED notified
     \/ turn = "wait" /\ registered # {} /\ turn' = "asleep" /\ UNCHANGED notified
     \/ turn = "asleep" /\ notified /\ notified' = FALSE /\ turn' = "wait"
  /\ UNCHANGED <<outcome, escaped, settlement, registered, parking, cancelling,
                 cancelled, agents, mailbox, history>>

\* Mutation: the mailbox is sealed without the gate.
Mutseal ==
  /\ turn = "seal"
  /\ closed' = TRUE /\ turn' = "flush"
  /\ UNCHANGED <<outcome, escaped, registry, agents, gate, queue, flush,
                 drainer, batch, history>>

seal ==
  /\ turn = "seal" /\ gate = Free
  /\ closed' = TRUE /\ turn' = "flush"
  /\ UNCHANGED <<outcome, escaped, registry, agents, gate, queue, flush,
                 drainer, batch, history>>

FlushDrainer ==
  /\ turn = "flush"
  /\ flush' = TRUE /\ turn' = "join"
  /\ UNCHANGED <<outcome, escaped, registry, agents, gate, closed, queue,
                 drainer, batch, history>>

EmitTurnComplete ==
  /\ turn = "join" /\ drainer = "done"
  /\ turn' = "complete"
  /\ UNCHANGED <<outcome, escaped, registry, agents, mailbox, history>>

-----------------------------------------------------------------------------
EngineStep ==
  \/ DecideSettlement \/ settle \/ CancelTokens \/ WaitSettled \/ seal
  \/ FlushDrainer \/ EmitTurnComplete

DrainerStep == Receive \/ drain_available \/ ForwardBatch

\* What a sub-agent's task does whatever the model answers.
ChildStep(c) ==
  \/ EndSend(c) \/ EndsCancelled(c) \/ AbortLands(c) \/ release(c)
  \/ Finish(c) \/ Suppressed(c)

Next ==
  \/ EngineStep \/ DrainerStep \/ Deliver \/ Commit
  \/ Escape \/ RunTurnReturns
  \/ \E c \in Children :
       \/ ChildStep(c) \/ EndsByItself(c) \/ TaskPanics(c)
       \/ BeginSend(c)
       \/ \E by \in Children \cup {Engine} :
            \/ Spawn(by, c)
            \/ \E r \in {"Cancelled", "Interrupted"} : Stop(by, c, r)

Spec == Init /\ [][Next]_vars

\* The runtime goes on polling the engine, the drainer and the tasks; a
\* cancelled sub-agent sees its token at its next step.
Fairness ==
  /\ WF_vars(EngineStep) /\ WF_vars(DrainerStep)
  /\ WF_vars(Deliver) /\ WF_vars(Commit)
  /\ \A c \in Children : WF_vars(ChildStep(c))

FairSpec == Spec /\ Fairness

-----------------------------------------------------------------------------
\* Type invariant: every variable has its declared shape.
TypeOK ==
  /\ turn \in {"run", "returned", "settle", "cancel", "wait", "asleep", "seal",
               "flush", "join", "complete"}
  /\ outcome \in {"Running", "Completed", "Failed", "Interrupted"}
  /\ escaped \in BOOLEAN /\ notified \in BOOLEAN
  /\ settlement \in {Free, "Park", "Cancel"}
  /\ registered \subseteq owned /\ parking \subseteq owned
  /\ cancelling \subseteq owned /\ cancelled \subseteq owned
  /\ owned \subseteq Children
  /\ task \in [Children -> {"none", "live", "ending", "over"}]
  /\ result \in [Children -> Outcomes \cup {"Running"}]
  /\ status \in [Children -> Outcomes \cup {"Running"}]
  /\ aborted \subseteq Children /\ missed \subseteq Children
  /\ finisher \in {Idle} \cup
       [by : Children \cup {Engine}, of : Children, status : Outcomes,
        phase : {"deliver", "commit"}]
  /\ gate \in Children \cup {Free}
  /\ closed \in BOOLEAN /\ flush \in BOOLEAN
  /\ queue \in Nat /\ batch \in Nat
  /\ drainer \in {"loop", "flush", "done"}
  /\ published \in [Children -> Nat]
  /\ sends \in 0..MaxSends /\ stops \in 0..MaxStops

\* Every envelope that a send accepted has been forwarded by the time of
\* TurnComplete, and none is accepted for the turn after it
\* (TurnMailboxBarrier::flush, Mailbox::seal).
AcceptedAreForwarded == turn = "complete" => queue = 0 /\ batch = 0

\* A sub-agent ends Cancelled only if somebody meant it: Esc, an explicit
\* stop, or a turn that did not complete.  The normal end of a turn parks
\* (ForegroundChildRegistry::park_and_wait).
CancelledIsMeant ==
  \A c \in Children :
    status[c] = "Cancelled" => escaped \/ c \in aborted \/ settlement = "Cancel"

\* A sub-agent has at most one outcome, whoever ends, stops or sweeps it at the
\* same time (completion_claimed), and the outcome of an owned one is part of
\* the turn: when TurnComplete is emitted it is forwarded and committed, and
\* none comes later (SubAgentTask._foreground_child_registration).  A task that
\* panicked has no outcome, and a stop aborts the task, which releases the
\* barrier, before it delivers the outcome: a stop by a detached sub-agent may
\* miss the turn.
OutcomeInTurn ==
  /\ \A c \in Children : published[c] <= 1
  /\ turn = "complete" =>
       \A c \in owned \ aborted :
         published[c] > 0 => status[c] # "Running" /\ c \notin missed

\* Once run_turn has returned, the turn is completed, whatever its
\* sub-agents are doing.
TurnSettles == turn = "returned" ~> turn = "complete"
=============================================================================
