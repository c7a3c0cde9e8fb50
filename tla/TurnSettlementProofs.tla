----------------------- MODULE TurnSettlementProofs -----------------------
(***************************************************************************)
(* Proofs of the safety properties of a turn's end, for any set of         *)
(* sub-agents, any number of envelopes and stops.                          *)
(*                                                                         *)
(* The invariant has four parts beside the types.  Phases: how far the     *)
(* engine is decides what is closed, and past the wait no registration is  *)
(* left.  Mail: nothing is accepted once the mailbox is sealed, so the     *)
(* drainer's last look is the last.  Meaning: a Cancelled that is on its   *)
(* way to a status (in a task's result, in the finisher's hands) was meant *)
(* by somebody.  Terminal: an owned sub-agent whose task is not over is    *)
(* registered, and its outcome is published by its own task or after an    *)
(* abort.                                                                  *)
(***************************************************************************)
EXTENDS TurnSettlement, TLAPS

Unsettled == {"run", "returned", "settle"}

Phases ==
  /\ settlement = Free <=> turn \in Unsettled
  /\ settlement = Free => cancelling = {} /\ cancelled = {}
  /\ closed <=> turn \in {"flush", "join", "complete"}
  /\ flush <=> turn \in {"join", "complete"}
  /\ turn \in {"seal", "flush", "join", "complete"} => registered = {}

Mail ==
  /\ closed => gate = Free
  /\ drainer # "loop" => flush /\ queue = 0
  /\ drainer = "done" => batch = 0
  /\ turn = "complete" => drainer = "done"

Meant(c) == escaped \/ c \in aborted \/ settlement = "Cancel"

Meaning ==
  /\ \A c \in cancelling \cup cancelled : c \in parking \/ settlement = "Cancel"
  /\ \A c \in Children : result[c] = "Cancelled" => Meant(c)
  /\ \A c \in Children : status[c] = "Cancelled" => Meant(c)
  /\ finisher.status = "Cancelled" => Meant(finisher.of)

\* Somebody is between the claim and the commit.
Finishing == finisher.phase # "none"

Terminal ==
  /\ \A c \in owned : task[c] # "over" => c \in registered
  /\ Finishing => finisher.by = finisher.of \/ finisher.of \in aborted
  /\ Finishing /\ finisher.by = finisher.of => task[finisher.of] = "ending"
  /\ \A c \in Children : task[c] = "ending" => result[c] # "Running"
  /\ \A c \in Children :
       published[c] > 0 =>
         status[c] # "Running" \/ (finisher.phase = "commit" /\ finisher.of = c)
  /\ \A c \in Children : published[c] <= 1
  /\ finisher.phase = "deliver" => published[finisher.of] = 0
  /\ ~closed => missed = {}
  /\ \A c \in missed : c \notin owned \/ c \in aborted

IInv == TypeOK /\ Phases /\ Mail /\ Meaning /\ Terminal

-----------------------------------------------------------------------------
(* A step keeps a part whose variables it leaves alone.                    *)

\* The parts of the invariant survive steps that change none of their variables.
LEMMA PhasesFrame ==
  ASSUME Phases, UNCHANGED <<turn, settlement, cancelling, cancelled, closed, flush, registered>>
  PROVE  Phases'
BY DEF Phases

\* Likewise for the mailbox,
LEMMA MailFrame ==
  ASSUME Mail, UNCHANGED <<turn, closed, gate, drainer, flush, queue, batch>>
  PROVE  Mail'
BY DEF Mail

\* the reasons of a cancellation,
LEMMA MeaningFrame ==
  ASSUME Meaning, UNCHANGED <<cancelling, cancelled, parking, settlement, result, status,
                              finisher, escaped, aborted>>
  PROVE  Meaning'
BY DEF Meaning, Meant

\* and the outcomes.
LEMMA TerminalFrame ==
  ASSUME Terminal, UNCHANGED <<owned, task, registered, finisher, aborted, published, status,
                               result, closed, missed>>
  PROVE  Terminal'
BY DEF Terminal, Finishing

\* Before a turn nothing has happened.
LEMMA InitIInv == Init => IInv
<1> SUFFICES ASSUME Init PROVE IInv OBVIOUS
<1>1. TypeOK
  <2>1. sends \in 0..MaxSends /\ stops \in 0..MaxStops BY BoundAssumption DEF Init
  <2>2. /\ task \in [Children -> {"none", "live", "ending", "over"}]
        /\ result \in [Children -> Outcomes \cup {"Running"}]
        /\ status \in [Children -> Outcomes \cup {"Running"}]
        /\ published \in [Children -> Nat]
    BY DEF Init
  <2> QED BY <2>1, <2>2 DEF Init, TypeOK
<1>2. Phases BY ActorAssumption DEF Init, Phases, Unsettled
<1>3. Mail BY DEF Init, Mail
<1>4. Meaning BY DEF Init, Meaning, Idle
<1>5. Terminal BY DEF Init, Terminal, Finishing, Idle
<1> QED BY <1>1, <1>2, <1>3, <1>4, <1>5 DEF IInv

-----------------------------------------------------------------------------
(* The mailbox and its drainer.                                            *)

\* Sends and the drainer.
LEMMA MailboxStep ==
  ASSUME IInv, DrainerStep \/ \E c \in Children : BeginSend(c) \/ EndSend(c)
  PROVE  IInv'
<1> USE DEF IInv
<1>1. ASSUME NEW c \in Children, BeginSend(c) PROVE IInv'
  <2>1. TypeOK'
    BY <1>1, BoundAssumption DEF BeginSend, TypeOK, registry, agents
  <2>2. Phases' BY <1>1, PhasesFrame DEF BeginSend, registry
  <2>3. Mail' BY <1>1 DEF BeginSend, Mail
  <2>4. Meaning' BY <1>1, MeaningFrame DEF BeginSend, registry, agents
  <2>5. Terminal' BY <1>1, TerminalFrame DEF BeginSend, registry, agents
  <2> QED BY <2>1, <2>2, <2>3, <2>4, <2>5
<1>2. ASSUME NEW c \in Children, EndSend(c) PROVE IInv'
  <2>1. TypeOK'
    BY <1>2 DEF EndSend, Push, TypeOK, registry, agents, history
  <2>2. Phases' BY <1>2, PhasesFrame DEF EndSend, registry
  <2>3. Mail'
    <3>1. ~closed BY <1>2, ActorAssumption DEF EndSend, Mail
    <3>2. drainer = "loop" /\ turn # "complete"
      BY <3>1 DEF Mail, Phases
    <3> QED BY <1>2, <3>1, <3>2 DEF EndSend, Mail, TypeOK
  <2>4. Meaning' BY <1>2, MeaningFrame DEF EndSend, registry, agents
  <2>5. Terminal' BY <1>2, TerminalFrame DEF EndSend, registry, agents, history
  <2> QED BY <2>1, <2>2, <2>3, <2>4, <2>5
<1>3. CASE Receive
  <2>1. TypeOK' BY <1>3 DEF Receive, TypeOK, registry, agents, history
  <2>2. Phases' BY <1>3, PhasesFrame DEF Receive, registry
  <2>3. Mail' BY <1>3 DEF Receive, Mail
  <2>4. Meaning' BY <1>3, MeaningFrame DEF Receive, registry, agents
  <2>5. Terminal' BY <1>3, TerminalFrame DEF Receive, registry, agents, history
  <2> QED BY <2>1, <2>2, <2>3, <2>4, <2>5
<1>4. CASE drain_available
  <2>1. TypeOK' BY <1>4 DEF drain_available, TypeOK, registry, agents, history
  <2>2. Phases' BY <1>4, PhasesFrame DEF drain_available, registry
  <2>3. Mail' BY <1>4 DEF drain_available, Mail
  <2>4. Meaning' BY <1>4, MeaningFrame DEF drain_available, registry, agents
  <2>5. Terminal' BY <1>4, TerminalFrame DEF drain_available, registry, agents, history
  <2> QED BY <2>1, <2>2, <2>3, <2>4, <2>5
<1>5. CASE ForwardBatch
  <2>1. TypeOK' BY <1>5 DEF ForwardBatch, TypeOK, registry, agents, history
  <2>2. Phases' BY <1>5, PhasesFrame DEF ForwardBatch, registry
  <2>3. Mail' BY <1>5 DEF ForwardBatch, Mail
  <2>4. Meaning' BY <1>5, MeaningFrame DEF ForwardBatch, registry, agents
  <2>5. Terminal' BY <1>5, TerminalFrame DEF ForwardBatch, registry, agents, history
  <2> QED BY <2>1, <2>2, <2>3, <2>4, <2>5
<1> QED BY <1>1, <1>2, <1>3, <1>4, <1>5 DEF DrainerStep

\* Sending in one step touches the mailbox only, and nothing once it is closed.
LEMMA SendFacts ==
  ASSUME IInv, Send, UNCHANGED <<turn, closed, gate, drainer, flush, batch>>
  PROVE  queue' \in Nat /\ Mail'
<1>1. CASE closed
  BY <1>1 DEF Send, IInv, TypeOK, Mail
<1>2. CASE ~closed
  <2>1. drainer = "loop" /\ turn # "complete"
    BY <1>2 DEF IInv, Mail, Phases
  <2> QED BY <1>2, <2>1 DEF Send, Push, IInv, TypeOK, Mail
<1> QED BY <1>1, <1>2

-----------------------------------------------------------------------------
(* Sub-agents.                                                             *)

\* A registration is accepted only while the registry is open: then no outcome
\* has been refused yet.
LEMMA SpawnStep ==
  ASSUME IInv, NEW c \in Children, NEW by \in Children \cup {Engine}, Spawn(by, c)
  PROVE  IInv'
<1> USE DEF IInv
<1>1. /\ task[c] = "none" /\ task' = [task EXCEPT ![c] = "live"] /\ Send
      /\ UNCHANGED <<turn, outcome, escaped, settlement, parking, cancelling,
                 cancelled, notified, result, status, aborted, finisher, gate,
                 closed, flush, drainer, batch, history>>
      /\ finisher = Idle
  BY DEF Spawn
<1>2. \/ /\ settlement = Free
         /\ registered' = registered \cup {c} /\ owned' = owned \cup {c}
      \/ UNCHANGED <<registered, owned>>
  BY DEF Spawn, register
<1>3. queue' \in Nat /\ Mail' BY <1>1, SendFacts
<1>4. TypeOK' BY <1>1, <1>2, <1>3 DEF TypeOK, history
<1>5. Phases' BY <1>1, <1>2 DEF Phases, Unsettled
<1>6. Meaning' BY <1>1, MeaningFrame
<1>7. Terminal'
  <2>1. settlement = Free => missed = {}
    BY DEF Phases, Terminal, Unsettled
  <2> QED BY <1>1, <1>2, <2>1 DEF Terminal, TypeOK, Finishing, Idle, history
<1> QED BY <1>3, <1>4, <1>5, <1>6, <1>7

\* A task ends with a result; Cancelled only if its token was cancelled by Esc
\* or by a turn that cancels.
LEMMA EndsStep ==
  ASSUME IInv, NEW c \in Children, EndsByItself(c) \/ EndsCancelled(c)
  PROVE  IInv'
<1> USE DEF IInv
<1>1. PICK r \in Outcomes : Ends(c, r) /\ (r = "Cancelled" => Meant(c))
  BY DEF EndsByItself, EndsCancelled, Outcomes, TokenCancelled, Meaning, Meant
<1>2. /\ task[c] = "live"
      /\ task' = [task EXCEPT ![c] = "ending"]
      /\ result' = [result EXCEPT ![c] = r]
      /\ UNCHANGED <<turn, outcome, escaped, registry, owned, status, aborted,
                 finisher, mailbox, history>>
  BY <1>1 DEF Ends, Runs
<1>3. TypeOK' BY <1>2 DEF TypeOK, registry, mailbox, history
<1>4. Phases' BY <1>2, PhasesFrame DEF registry, mailbox
<1>5. Mail' BY <1>2, MailFrame DEF mailbox
<1>6. Meaning' BY <1>1, <1>2 DEF Meaning, Meant, TypeOK, registry
<1>7. Terminal'
  BY <1>2 DEF Terminal, TypeOK, Finishing, registry, mailbox, history, Outcomes
<1> QED BY <1>3, <1>4, <1>5, <1>6, <1>7

\* A task is gone without an outcome of its own: it panicked, was aborted, or
\* came too late.
LEMMA GoneStep ==
  ASSUME IInv, NEW c \in Children, TaskPanics(c) \/ AbortLands(c) \/ Suppressed(c)
  PROVE  IInv'
<1> USE DEF IInv
<1>1. /\ task' = [task EXCEPT ![c] = "over"]
      /\ result' = result \/ result' = [result EXCEPT ![c] = "Running"]
      /\ UNCHANGED <<turn, outcome, escaped, registry, owned, status,
                 aborted, finisher, mailbox, history>>
  BY DEF TaskPanics, AbortLands, Suppressed, Over
<1>2. Finishing /\ finisher.by = finisher.of => finisher.of # c
  BY DEF TaskPanics, AbortLands, Suppressed, Runs, Busy, Terminal, Finishing, Idle
<1>3. TypeOK' BY <1>1 DEF TypeOK, registry, mailbox, history
<1>4. Phases' BY <1>1, PhasesFrame DEF registry, mailbox
<1>5. Mail' BY <1>1, MailFrame DEF mailbox
<1>6. Meaning' BY <1>1 DEF Meaning, Meant, TypeOK, registry
<1>7. Terminal'
  BY <1>1, <1>2 DEF Terminal, TypeOK, Finishing, registry, mailbox, history, Idle
<1> QED BY <1>3, <1>4, <1>5, <1>6, <1>7

\* Only a task that is over drops its registration.
LEMMA ReleaseStep ==
  ASSUME IInv, NEW c \in Children, release(c)
  PROVE  IInv'
<1> USE DEF IInv
<1>1. TypeOK' BY DEF release, TypeOK, agents, mailbox, history
<1>2. Phases' BY DEF release, Phases, mailbox
<1>3. Mail' BY MailFrame DEF release, mailbox
<1>4. Meaning' BY MeaningFrame DEF release, agents
<1>5. Terminal' BY DEF release, Terminal, Finishing, agents, mailbox, history, TypeOK
<1> QED BY <1>1, <1>2, <1>3, <1>4, <1>5

-----------------------------------------------------------------------------
(* The terminal outcome.                                                   *)

\* An outcome is claimed by the task that has ended or by a stop.
LEMMA ClaimStep ==
  ASSUME IInv, NEW c \in Children,
         Finish(c) \/ \E by \in Children \cup {Engine}, r \in {"Cancelled", "Interrupted"} :
                        Stop(by, c, r)
  PROVE  IInv'
<1> USE DEF IInv
<1>1. CASE Finish(c)
  <2>1. /\ task[c] = "ending" /\ finisher = Idle /\ status[c] = "Running"
        /\ finisher' = [by |-> c, of |-> c, status |-> result[c], phase |-> "deliver"]
        /\ UNCHANGED <<turn, outcome, escaped, registry, task, owned, result, status,
                 aborted, mailbox, history>>
    BY <1>1 DEF Finish, claim_terminal_delivery
  <2>2. result[c] \in Outcomes /\ published[c] = 0
    BY <2>1 DEF Terminal, TypeOK, Idle
  <2>3. TypeOK' BY <2>1, <2>2 DEF TypeOK, registry, mailbox, history
  <2>4. Phases' BY <2>1, PhasesFrame DEF registry, mailbox
  <2>5. Mail' BY <2>1, MailFrame DEF mailbox
  <2>6. Meaning' BY <2>1 DEF Meaning, Meant, registry
  <2>7. Terminal'
    BY <2>1, <2>2 DEF Terminal, Finishing, registry, mailbox, history, Idle
  <2> QED BY <2>3, <2>4, <2>5, <2>6, <2>7
<1>2. ASSUME NEW by \in Children \cup {Engine}, NEW r \in {"Cancelled", "Interrupted"},
             Stop(by, c, r)
      PROVE  IInv'
  <2>1. /\ finisher = Idle /\ (by # Engine => by # c) /\ status[c] = "Running"
        /\ finisher' = [by |-> by, of |-> c, status |-> r, phase |-> "deliver"]
        /\ aborted' = aborted \cup {c}
        /\ stops < MaxStops /\ stops' = stops + 1
        /\ UNCHANGED <<turn, outcome, escaped, registry, task, owned, result, status,
                 mailbox, missed, published, sends>>
    BY <1>2 DEF Stop, claim_terminal_delivery
  <2>2. by # c /\ published[c] = 0
    BY <2>1, ActorAssumption DEF Terminal, TypeOK, Idle
  <2>3. TypeOK' BY <2>1, BoundAssumption DEF TypeOK, registry, mailbox, Outcomes
  <2>4. Phases' BY <2>1, PhasesFrame DEF registry, mailbox
  <2>5. Mail' BY <2>1, MailFrame DEF mailbox
  <2>6. Meaning' BY <2>1 DEF Meaning, Meant, registry
  <2>7. Terminal'
    BY <2>1, <2>2 DEF Terminal, Finishing, registry, mailbox, Idle
  <2> QED BY <2>3, <2>4, <2>5, <2>6, <2>7
<1> QED BY <1>1, <1>2

\* The outcome of an owned, unaborted sub-agent is delivered while it is
\* registered: the mailbox is open.
LEMMA DeliverStep ==
  ASSUME IInv, Deliver
  PROVE  IInv'
<1> USE DEF IInv
<1>1. /\ finisher.phase = "deliver" /\ Send
      /\ missed' = IF closed THEN missed \cup {finisher.of} ELSE missed
      /\ published' = [published EXCEPT ![finisher.of] = @ + 1]
      /\ finisher' = [finisher EXCEPT !.phase = "commit"]
      /\ UNCHANGED <<turn, outcome, escaped, registry, task, owned, result, status,
                 aborted, gate, closed, flush, drainer, batch, sends, stops>>
  BY DEF Deliver
<1>2. /\ finisher \in [by : Children \cup {Engine}, of : Children, status : Outcomes,
                       phase : {"deliver", "commit"}]
      /\ finisher.of \in Children
  BY <1>1 DEF TypeOK, Idle
<1>3. queue' \in Nat /\ Mail' BY <1>1, SendFacts
<1>4. TypeOK' BY <1>1, <1>2, <1>3 DEF TypeOK, registry
<1>5. Phases' BY <1>1, PhasesFrame DEF registry
<1>6. /\ finisher'.by = finisher.by /\ finisher'.of = finisher.of
      /\ finisher'.status = finisher.status /\ finisher'.phase = "commit"
  BY <1>1, <1>2
<1>7. Meaning' BY <1>1, <1>6 DEF Meaning, Meant, registry
<1>8. closed /\ finisher.of \in owned => finisher.of \in aborted
  BY <1>1 DEF Phases, Terminal, Finishing
<1>9. Terminal'
  BY <1>1, <1>2, <1>6, <1>8 DEF Terminal, TypeOK, Finishing, registry
<1> QED BY <1>3, <1>4, <1>5, <1>7, <1>9

\* An outcome is committed.
LEMMA CommitStep ==
  ASSUME IInv, Commit
  PROVE  IInv'
<1> USE DEF IInv
<1>1. /\ finisher.phase = "commit"
      /\ status' = [status EXCEPT ![finisher.of] = finisher.status]
      /\ IF finisher.by = finisher.of
         THEN /\ task' = [task EXCEPT ![finisher.of] = "over"]
              /\ result' = [result EXCEPT ![finisher.of] = "Running"]
         ELSE UNCHANGED <<task, result>>
      /\ finisher' = Idle
      /\ UNCHANGED <<turn, outcome, escaped, registry, owned, aborted,
                 mailbox, history>>
  BY DEF Commit, Over
<1>2. finisher.of \in Children /\ finisher.status \in Outcomes
  BY <1>1 DEF TypeOK, Idle
<1>3. TypeOK' BY <1>1, <1>2 DEF TypeOK, registry, mailbox, history
<1>4. Phases' BY <1>1, PhasesFrame DEF registry, mailbox
<1>5. Mail' BY <1>1, MailFrame DEF mailbox
<1>6. Meaning' BY <1>1, <1>2 DEF Meaning, Meant, TypeOK, registry, Idle
<1>7. Terminal'
  BY <1>1, <1>2 DEF Terminal, TypeOK, Finishing, registry, mailbox, history, Idle, Outcomes
<1> QED BY <1>3, <1>4, <1>5, <1>6, <1>7

-----------------------------------------------------------------------------
(* The engine.                                                             *)

\* The engine, Esc and the return of run_turn.
LEMMA EngineIInv ==
  ASSUME IInv, EngineStep \/ Escape \/ RunTurnReturns
  PROVE  IInv'
<1> USE DEF IInv
<1>1. CASE Escape
  <2>1. TypeOK' BY <1>1 DEF Escape, TypeOK, registry, agents, mailbox, history
  <2>2. Phases' BY <1>1, PhasesFrame DEF Escape, registry, mailbox
  <2>3. Mail' BY <1>1, MailFrame DEF Escape, mailbox
  <2>4. Meaning' BY <1>1 DEF Escape, registry, agents, Meaning, Meant
  <2>5. Terminal' BY <1>1, TerminalFrame DEF Escape, registry, agents, mailbox, history
  <2> QED BY <2>1, <2>2, <2>3, <2>4, <2>5
<1>2. CASE RunTurnReturns \/ DecideSettlement
  <2>1. TypeOK'
    BY <1>2 DEF RunTurnReturns, DecideSettlement, TypeOK, registry, agents, mailbox, history
  <2>2. Phases'
    BY <1>2 DEF RunTurnReturns, DecideSettlement, Phases, Unsettled, registry, mailbox
  <2>3. Mail' BY <1>2 DEF RunTurnReturns, DecideSettlement, Mail, mailbox
  <2>4. Meaning'
    BY <1>2, MeaningFrame DEF RunTurnReturns, DecideSettlement, registry, agents
  <2>5. Terminal'
    BY <1>2, TerminalFrame DEF RunTurnReturns, DecideSettlement, registry, agents, mailbox, history
  <2> QED BY <2>1, <2>2, <2>3, <2>4, <2>5
<1>3. CASE settle
  <2>1. TypeOK' BY <1>3 DEF settle, TypeOK, agents, mailbox, history
  <2>2. Phases' BY <1>3, ActorAssumption DEF settle, Phases, Unsettled, mailbox
  <2>3. Mail' BY <1>3 DEF settle, Mail, mailbox
  <2>4. Meaning'
    <3>1. settlement = Free /\ cancelled = {} /\ cancelling = {}
      BY <1>3 DEF settle, Phases, Unsettled
    <3>2. settlement # "Cancel" BY <3>1, ActorAssumption
    <3> QED BY <1>3, <3>1, <3>2 DEF settle, agents, Meaning, Meant
  <2>5. Terminal' BY <1>3, TerminalFrame DEF settle, agents, mailbox, history
  <2> QED BY <2>1, <2>2, <2>3, <2>4, <2>5
<1>4. CASE CancelTokens
  <2>1. TypeOK' BY <1>4 DEF CancelTokens, TypeOK, agents, mailbox, history
  <2>2. Phases' BY <1>4 DEF CancelTokens, Phases, Unsettled, mailbox
  <2>3. Mail' BY <1>4 DEF CancelTokens, Mail, mailbox
  <2>4. Meaning' BY <1>4 DEF CancelTokens, agents, Meaning, Meant
  <2>5. Terminal' BY <1>4, TerminalFrame DEF CancelTokens, agents, mailbox, history
  <2> QED BY <2>1, <2>2, <2>3, <2>4, <2>5
<1>5. CASE WaitSettled
  <2>0. /\ turn' \in {"seal", "asleep", "wait"} /\ notified' \in BOOLEAN
        /\ UNCHANGED <<outcome, escaped, settlement, registered, parking, cancelling,
                       cancelled, agents, mailbox, history>>
    BY <1>5 DEF WaitSettled, TypeOK
  <2>1. TypeOK' BY <2>0 DEF TypeOK, agents, mailbox, history
  <2>2. Phases' BY <1>5 DEF WaitSettled, Phases, Unsettled, mailbox
  <2>3. Mail' BY <1>5 DEF WaitSettled, Mail, mailbox
  <2>4. Meaning' BY <1>5, MeaningFrame DEF WaitSettled, agents
  <2>5. Terminal' BY <1>5, TerminalFrame DEF WaitSettled, agents, mailbox, history
  <2> QED BY <2>1, <2>2, <2>3, <2>4, <2>5
<1>6. CASE seal
  <2>1. TypeOK' BY <1>6 DEF seal, TypeOK, registry, agents, history
  <2>2. Phases' BY <1>6 DEF seal, Phases, Unsettled, registry
  <2>3. Mail' BY <1>6 DEF seal, Mail
  <2>4. Meaning' BY <1>6, MeaningFrame DEF seal, registry, agents
  <2>5. Terminal' BY <1>6 DEF seal, Terminal, Finishing, registry, agents, history
  <2> QED BY <2>1, <2>2, <2>3, <2>4, <2>5
<1>7. CASE FlushDrainer
  <2>1. TypeOK' BY <1>7 DEF FlushDrainer, TypeOK, registry, agents, history
  <2>2. Phases' BY <1>7 DEF FlushDrainer, Phases, Unsettled, registry
  <2>3. Mail' BY <1>7 DEF FlushDrainer, Mail
  <2>4. Meaning' BY <1>7, MeaningFrame DEF FlushDrainer, registry, agents
  <2>5. Terminal' BY <1>7, TerminalFrame DEF FlushDrainer, registry, agents, history
  <2> QED BY <2>1, <2>2, <2>3, <2>4, <2>5
<1>8. CASE EmitTurnComplete
  <2>1. TypeOK' BY <1>8 DEF EmitTurnComplete, TypeOK, registry, agents, mailbox, history
  <2>2. Phases' BY <1>8 DEF EmitTurnComplete, Phases, Unsettled, registry, mailbox
  <2>3. Mail' BY <1>8 DEF EmitTurnComplete, Mail, mailbox
  <2>4. Meaning' BY <1>8, MeaningFrame DEF EmitTurnComplete, registry, agents
  <2>5. Terminal' BY <1>8, TerminalFrame DEF EmitTurnComplete, registry, agents, mailbox, history
  <2> QED BY <2>1, <2>2, <2>3, <2>4, <2>5
<1> QED BY <1>1, <1>2, <1>3, <1>4, <1>5, <1>6, <1>7, <1>8 DEF EngineStep

\* Every step keeps the invariant.
LEMMA NextIInv == IInv /\ [Next]_vars => IInv'
<1> SUFFICES ASSUME IInv, [Next]_vars PROVE IInv' OBVIOUS
<1>1. CASE UNCHANGED vars
  <2>1. TypeOK' BY <1>1 DEF vars, registry, agents, mailbox, history, IInv, TypeOK
  <2>2. Phases' BY <1>1, PhasesFrame DEF vars, registry, mailbox, IInv
  <2>3. Mail' BY <1>1, MailFrame DEF vars, mailbox, IInv
  <2>4. Meaning' BY <1>1, MeaningFrame DEF vars, registry, agents, IInv
  <2>5. Terminal' BY <1>1, TerminalFrame DEF vars, registry, agents, mailbox, history, IInv
  <2> QED BY <2>1, <2>2, <2>3, <2>4, <2>5 DEF IInv
<1>2. CASE EngineStep \/ Escape \/ RunTurnReturns BY <1>2, EngineIInv
<1>3. CASE DrainerStep BY <1>3, MailboxStep
<1>4. CASE Deliver BY <1>4, DeliverStep
<1>5. CASE Commit BY <1>5, CommitStep
<1>6. ASSUME NEW c \in Children, ChildStep(c) PROVE IInv'
  BY <1>6, MailboxStep, EndsStep, GoneStep, ReleaseStep, ClaimStep DEF ChildStep
<1>7. ASSUME NEW c \in Children, EndsByItself(c) \/ TaskPanics(c) \/ BeginSend(c) PROVE IInv'
  BY <1>7, EndsStep, GoneStep, MailboxStep
<1>8. ASSUME NEW c \in Children, NEW by \in Children \cup {Engine}, Spawn(by, c) PROVE IInv'
  BY <1>8, SpawnStep
<1>9. ASSUME NEW c \in Children, NEW by \in Children \cup {Engine},
             NEW r \in {"Cancelled", "Interrupted"}, Stop(by, c, r)
      PROVE  IInv'
  BY <1>9, ClaimStep
<1> QED BY <1>1, <1>2, <1>3, <1>4, <1>5, <1>6, <1>7, <1>8, <1>9 DEF Next

\* The invariant of every behaviour, from which the properties follow.
LEMMA Invariance == Spec => []IInv
<1>1. Init => IInv BY InitIInv
<1>2. IInv /\ [Next]_vars => IInv' BY NextIInv
<1> QED BY <1>1, <1>2, PTL DEF Spec

-----------------------------------------------------------------------------
\* Every accepted envelope is forwarded before TurnComplete, however the sends
\* of any number of sub-agents race the seal (TurnMailboxBarrier::flush).
THEOREM EnvelopesForwarded == Spec => []AcceptedAreForwarded
<1>1. IInv => AcceptedAreForwarded BY DEF IInv, Mail, AcceptedAreForwarded
<1> QED BY <1>1, Invariance, PTL

\* No sub-agent ends Cancelled unless Esc, a stop or a failed turn meant it
\* (ForegroundChildRegistry::park_and_wait).
THEOREM CancelsAreMeant == Spec => []CancelledIsMeant
<1>1. IInv => CancelledIsMeant BY DEF IInv, Meaning, Meant, CancelledIsMeant
<1> QED BY <1>1, Invariance, PTL

\* TurnComplete comes after the outcomes of the owned sub-agents
\* (SubAgentTask._foreground_child_registration).
THEOREM OutcomesInTurn == Spec => []OutcomeInTurn
<1>1. ASSUME IInv PROVE OutcomeInTurn
  <2>0. \A c \in Children : published[c] <= 1 BY <1>1 DEF IInv, Terminal
  <2> SUFFICES ASSUME turn = "complete", NEW c \in owned \ aborted, published[c] > 0
               PROVE  status[c] # "Running" /\ c \notin missed
    BY <2>0 DEF OutcomeInTurn
  <2>1. c \in Children /\ task[c] = "over"
    BY <1>1 DEF IInv, TypeOK, Phases, Terminal
  <2>2. ~(finisher.phase = "commit" /\ finisher.of = c)
    BY <1>1, <2>1 DEF IInv, Terminal, Finishing
  <2> QED BY <1>1, <2>1, <2>2 DEF IInv, Terminal
<1>2. IInv => OutcomeInTurn BY <1>1
<1> QED BY <1>2, Invariance, PTL
=============================================================================
