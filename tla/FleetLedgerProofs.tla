------------------------- MODULE FleetLedgerProofs -------------------------
(***************************************************************************)
(* Proofs about the fleet ledger, for any number of tasks, workers and     *)
(* callers and without any bound on the length of the file.                *)
(*                                                                         *)
(* What a caller decided under the write lock is written later, record by  *)
(* record, so each property is about the records that are still pending.   *)
(* At most one record of a transaction decides a task's fate (Decisive);   *)
(* every other record leaves the tasks and receipts alone, so what the     *)
(* decision was based on (Allowed) still holds when its record is applied, *)
(* whatever prefix of a transaction a crash leaves behind.                 *)
(***************************************************************************)
EXTENDS FleetLedger, TLAPS

\* The records that change a task.
Decisive(r) ==
  \/ r.record \in {"TaskEnqueued", "TaskLeased", "TaskCompletedOrFailed", "TaskAttemptFinalized"}
  \/ r.record = "EventAppended" /\ r.kind \in Terminal

Unfinished == {"Enqueued", "Leased"}

\* What the writer of a decisive record knows of the state it is applied to.
Allowed(s, r) ==
  /\ r.record = "TaskLeased" =>
       \A u \in Tasks \ {r.task} :
         ~(s.task[u].status = "Leased" /\ s.task[u].leased_to = r.worker)
  /\ r.record = "TaskCompletedOrFailed" =>
       r.status = "Cancelled" /\ s.task[r.task].status \in Unfinished
  /\ r.record = "EventAppended" /\ r.kind \in Terminal =>
       r.kind # "Completed" /\ s.task[r.task].status \in Unfinished
  /\ r.record = "TaskAttemptFinalized" =>
       s.task[r.task].status = "Leased" /\ r.attempt = s.task[r.task].attempts

PendingOK ==
  /\ \A i \in DOMAIN pending : Allowed(st, pending[i])
  /\ \A i, j \in DOMAIN pending : Decisive(pending[i]) /\ Decisive(pending[j]) => i = j

\* A lease, and an outcome a worker reported, names its worker.
HasWorker ==
  \A t \in Tasks : st.task[t].status \in {"Leased", "Failed", "Completed"} =>
                     st.task[t].leased_to \in Workers

\* A task that was never enqueued has no history.
NeverSeen(s) ==
  \A t \in Tasks : s.task[t].status = "absent" => s.task[t].lifecycle_seq = 0

IInv ==
  TypeOK /\ PendingOK /\ HasWorker /\ NeverSeen(st) /\ OneLeasePerWorker /\ CompletedHasReceipt

-----------------------------------------------------------------------------
(* What applying one record does (apply_record).                           *)

\* MarkTerminal changes one task that was not absent, and numbers the change.
LEMMA MarkTerminalFacts ==
  ASSUME NEW s \in State, NEW t \in Tasks, NEW w \in Workers \cup {NoWorker},
         NEW status \in Terminal
  PROVE  LET m == MarkTerminal(s, t, w, status) IN
         /\ m \in [Tasks -> TaskType]
         /\ \A u \in Tasks \ {t} : m[u] = s.task[u]
         /\ m[t].attempts = s.task[t].attempts
         /\ s.task[t].status # "absent" =>
              m[t].status = status /\ (w # NoWorker => m[t].leased_to = w)
         /\ s.task[t].status = "absent" => m[t] = s.task[t]
         /\ IF m[t].status = s.task[t].status
            THEN m[t].lifecycle_seq >= s.task[t].lifecycle_seq
            ELSE m[t].lifecycle_seq > s.task[t].lifecycle_seq
<1>1. s.task \in [Tasks -> TaskType] /\ s.task[t] \in TaskType BY DEF State
<1>2. CASE s.task[t].status = "absent"
  BY <1>1, <1>2 DEF MarkTerminal, TaskType
<1>3. CASE s.task[t].status # "absent"
  <2> DEFINE new == [status        |-> status,
                     leased_to     |-> IF w = NoWorker THEN s.task[t].leased_to ELSE w,
                     leased_at     |-> s.task[t].leased_at,
                     attempts      |-> s.task[t].attempts,
                     lifecycle_seq |-> s.task[t].lifecycle_seq
                                         + (IF s.task[t].status = status THEN 0 ELSE 1)]
  <2>1. MarkTerminal(s, t, w, status) = [s.task EXCEPT ![t] = new]
    BY <1>3 DEF MarkTerminal
  <2>2. new \in TaskType
    BY <1>1 DEF TaskType, LedgerStatus, Terminal
  <2>3. s.task[t].lifecycle_seq \in Nat BY <1>1 DEF TaskType
  <2> QED BY <1>1, <1>3, <2>1, <2>2, <2>3
<1> QED BY <1>2, <1>3

\* A worker event updates a sequence number and the usage, and marks the task
\* only if it is terminal.
LEMMA EventFacts ==
  ASSUME NEW s \in State, NEW r, r.task \in Tasks, r.worker \in Workers, r.seq \in Nat,
         r.kind \in {"Progress", "Usage"} \cup Terminal
  PROVE  /\ ApplyEvent(s, r) \in State
         /\ ApplyEvent(s, r).receipt = s.receipt
         /\ r.kind \notin Terminal => ApplyEvent(s, r).task = s.task
         /\ r.kind \in Terminal =>
              ApplyEvent(s, r).task = MarkTerminal(s, r.task, r.worker, r.kind)
<1> DEFINE k == <<r.worker, r.task>>
           seq == [s.seq EXCEPT ![k] = IF r.seq > @ THEN r.seq ELSE @]
           usage == IF r.kind = "Usage" /\ s.usage < Ceiling THEN s.usage + 1 ELSE s.usage
           task == IF r.kind \in Terminal
                   THEN MarkTerminal(s, r.task, r.worker, r.kind) ELSE s.task
<1>1. ApplyEvent(s, r) = [s EXCEPT !.seq = seq, !.usage = usage, !.task = task]
  BY DEF ApplyEvent, State
<1>2. k \in Keys BY DEF Keys
<1>3. seq \in [Keys -> Nat] BY <1>2 DEF State
<1>4. usage \in Nat BY DEF State
<1>5. task \in [Tasks -> TaskType] BY MarkTerminalFacts DEF State
<1> HIDE DEF seq, usage
<1> QED BY <1>1, <1>3, <1>4, <1>5 DEF State

\* A record that is not decisive leaves tasks and receipts alone.
LEMMA HarmlessFacts ==
  ASSUME NEW s \in State, NEW r \in Record, ~Decisive(r)
  PROVE  /\ apply_record(s, r) \in State
         /\ apply_record(s, r).task = s.task
         /\ apply_record(s, r).receipt = s.receipt
<1>1. CASE r \in [record : {"EventAppended"}, task : Tasks, worker : Workers,
                  kind : {"Progress", "Usage"} \cup Terminal, seq : Nat]
  <2>1. r.record = "EventAppended" /\ r.kind \notin Terminal BY <1>1 DEF Decisive
  <2>2. apply_record(s, r) = ApplyEvent(s, r) BY <2>1 DEF apply_record
  <2> QED BY <1>1, <2>1, <2>2, EventFacts
<1>2. CASE r \in [record : {"Heartbeat"}, worker : Workers, at : Nat]
  <2>1. apply_record(s, r) = [s EXCEPT !.beat[r.worker] = r.at] BY <1>2 DEF apply_record
  <2> QED BY <1>2, <2>1 DEF State
<1>3. CASE r \in [record : {"RunStatusChanged"}, status : RunStatuses]
  <2>1. apply_record(s, r) = [s EXCEPT !.run = r.status] BY <1>3 DEF apply_record
  <2> QED BY <1>3, <2>1 DEF State
<1>4. CASE r \in [record : {"AlertSent"}, task : Tasks, worker : Workers, attempt : Nat, seq : Nat]
  <2>1. apply_record(s, r) = ApplyAlert(s, r) BY <1>4 DEF apply_record
  <2> DEFINE s1 == [s EXCEPT !.alerts = @ \cup {<<r.task, r.attempt>>}]
             e == EventAppended(r.task, r.worker, "Progress", r.seq)
  <2>2. s1 \in State /\ s1.task = s.task /\ s1.receipt = s.receipt BY <1>4 DEF State
  <2>3. e.task \in Tasks /\ e.worker \in Workers /\ e.seq \in Nat /\ e.kind = "Progress"
    BY <1>4 DEF EventAppended
  <2>4. ApplyAlert(s, r) = s \/ ApplyAlert(s, r) = ApplyEvent(s1, e) BY DEF ApplyAlert
  <2>5. "Progress" \notin Terminal BY DEF Terminal
  <2> HIDE DEF s1, e
  <2>6. ApplyEvent(s1, e) \in State /\ ApplyEvent(s1, e).task = s1.task
        /\ ApplyEvent(s1, e).receipt = s1.receipt
    BY <2>2, <2>3, <2>5, EventFacts
  <2> QED BY <2>1, <2>2, <2>4, <2>6
<1>5. CASE r = BudgetAlert
  <2>1. apply_record(s, r) = [s EXCEPT !.budgetAlert = TRUE]
    BY <1>5 DEF apply_record, BudgetAlert
  <2> QED BY <2>1 DEF State
<1> QED BY <1>1, <1>2, <1>3, <1>4, <1>5 DEF Record, Decisive

\* What a step may do to a task: the two action properties and what the
\* invariant needs, in terms of the old and the new record of the task.
Advances(old, new) ==
  /\ IF new.status = old.status THEN new.lifecycle_seq >= old.lifecycle_seq
     ELSE new.lifecycle_seq > old.lifecycle_seq
  /\ old.status \in Terminal /\ new.status # old.status => new.attempts = old.attempts + 1
  /\ new.status \in {"Leased", "Failed", "Completed"} =>
       new.leased_to \in Workers \/ new = old
  /\ new.status = "absent" => new = old

\* Applying a record keeps the other tasks, and does to its own only what it is
\* allowed to.
LEMMA DecisiveFacts ==
  ASSUME NEW s \in State, NEW r \in Record, Decisive(r), Allowed(s, r),
         NeverSeen(s)
  PROVE  LET n == apply_record(s, r) IN
         /\ n \in State
         /\ \A u \in Tasks \ {r.task} :
              n.task[u] = s.task[u] /\ n.receipt[u] = s.receipt[u]
         /\ r.task \in Tasks
         /\ Advances(s.task[r.task], n.task[r.task])
         /\ n.task[r.task].status = "Leased" =>
              n.task[r.task] = s.task[r.task]
              \/ (r.record = "TaskLeased" /\ n.task[r.task].leased_to = r.worker)
         /\ n.task[r.task].status = "Completed" =>
              \/ n.task[r.task] = s.task[r.task] /\ n.receipt[r.task] = s.receipt[r.task]
              \/ n.receipt[r.task] = n.task[r.task].attempts
<1>0. ASSUME NEW t \in Tasks
      PROVE  s.task[t] \in TaskType /\ s.task[t].lifecycle_seq \in Nat /\ s.task[t].attempts \in Nat
  BY DEF State, TaskType
<1>1. CASE r \in [record : {"TaskEnqueued"}, task : Tasks]
  <2>1. apply_record(s, r) = ApplyEnqueued(s, r) BY <1>1 DEF apply_record
  <2>2. CASE s.task[r.task].status # "absent"
    <3>1. apply_record(s, r) = s BY <2>1, <2>2 DEF ApplyEnqueued
    <3> QED BY <1>0, <1>1, <3>1 DEF Advances
  <2>3. CASE s.task[r.task].status = "absent"
    <3> DEFINE new == [status |-> "Enqueued", leased_to |-> NoWorker, leased_at |-> 0,
                       attempts |-> 0, lifecycle_seq |-> 1]
    <3>1. apply_record(s, r) = [s EXCEPT !.task[r.task] = new]
      BY <2>1, <2>3 DEF ApplyEnqueued
    <3>2. new \in TaskType BY DEF TaskType, LedgerStatus
    <3>3. s.task[r.task].lifecycle_seq = 0 BY <1>1, <2>3 DEF NeverSeen
    <3> QED BY <1>1, <2>3, <3>1, <3>2, <3>3 DEF Advances, State, Terminal
  <2> QED BY <2>2, <2>3
<1>2. CASE r \in [record : {"TaskLeased"}, task : Tasks, worker : Workers, at : Nat]
  <2>1. apply_record(s, r) = ApplyLeased(s, r) BY <1>2 DEF apply_record
  <2>2. CASE s.task[r.task].status = "absent"
    <3>1. apply_record(s, r) = s BY <2>1, <2>2 DEF ApplyLeased
    <3> QED BY <1>0, <1>2, <3>1 DEF Advances
  <2>3. CASE s.task[r.task].status # "absent"
    <3> DEFINE old == s.task[r.task]
               same == old.status = "Leased" /\ old.leased_to = r.worker /\ old.leased_at = r.at
               new == [status |-> "Leased", leased_to |-> r.worker, leased_at |-> r.at,
                       attempts |-> old.attempts + 1,
                       lifecycle_seq |-> old.lifecycle_seq + (IF same THEN 0 ELSE 1)]
    <3>1. apply_record(s, r) = [s EXCEPT !.task[r.task] = new]
      BY <2>1, <2>3 DEF ApplyLeased
    <3>2. new \in TaskType BY <1>0, <1>2 DEF TaskType, LedgerStatus
    <3> QED BY <1>0, <1>2, <2>3, <3>1, <3>2 DEF Advances, State, Terminal
  <2> QED BY <2>2, <2>3
<1>3. CASE r \in [record : {"TaskCompletedOrFailed"}, task : Tasks,
                  worker : Workers \cup {NoWorker}, status : Terminal]
  <2> DEFINE m == MarkTerminal(s, r.task, r.worker, r.status)
  <2>1. apply_record(s, r) = [s EXCEPT !.task = m] BY <1>3 DEF apply_record
  <2>2. r.status = "Cancelled" /\ s.task[r.task].status \in Unfinished BY <1>3 DEF Allowed
  <2>3. /\ m \in [Tasks -> TaskType]
        /\ \A u \in Tasks \ {r.task} : m[u] = s.task[u]
        /\ m[r.task].status = "Cancelled"
        /\ m[r.task].lifecycle_seq > s.task[r.task].lifecycle_seq
    BY <1>3, <2>2, MarkTerminalFacts DEF Unfinished
  <2> HIDE DEF m
  <2> QED BY <1>3, <2>1, <2>2, <2>3 DEF Advances, State, Terminal, Unfinished
<1>4. CASE r \in [record : {"EventAppended"}, task : Tasks, worker : Workers,
                  kind : {"Progress", "Usage"} \cup Terminal, seq : Nat]
  <2> DEFINE m == MarkTerminal(s, r.task, r.worker, r.kind)
             n == ApplyEvent(s, r)
  <2>1. apply_record(s, r) = n BY <1>4 DEF apply_record
  <2>2. /\ r.kind \in Terminal /\ r.kind # "Completed"
        /\ s.task[r.task].status \in Unfinished
    BY <1>4 DEF Allowed, Decisive
  <2>3. n \in State /\ n.receipt = s.receipt /\ n.task = m
    BY <1>4, <2>2, EventFacts
  <2>4. /\ \A u \in Tasks \ {r.task} : m[u] = s.task[u]
        /\ m[r.task].status = r.kind /\ m[r.task].leased_to = r.worker
        /\ m[r.task].lifecycle_seq > s.task[r.task].lifecycle_seq
    <3>1. r.worker # NoWorker /\ r.task \in Tasks /\ r.worker \in Workers \cup {NoWorker}
      BY <1>4, WorkersAssumption
    <3>2. s.task[r.task].status \notin {"absent", r.kind}
      BY <2>2 DEF Unfinished, Terminal
    <3> QED BY <2>2, <3>1, <3>2, MarkTerminalFacts
  <2> HIDE DEF m, n
  <2> QED BY <1>4, <2>1, <2>2, <2>3, <2>4 DEF Advances, Terminal, Unfinished
<1>5. CASE r \in [record : {"TaskAttemptFinalized"}, task : Tasks, worker : Workers,
                  kind : Terminal, seq : Nat, final : {"none", "Failed"}, attempt : Nat]
  <2> DEFINE s1 == ApplyEvent(s, r)
             m == MarkTerminal(s1, r.task, r.worker, r.final)
             s2 == IF r.final = "none" THEN s1 ELSE [s1 EXCEPT !.task = m]
  <2>1. apply_record(s, r) = [s2 EXCEPT !.receipt[r.task] = r.attempt]
    BY <1>5 DEF apply_record, ApplyFinalized
  <2>2. s.task[r.task].status = "Leased" /\ r.attempt = s.task[r.task].attempts
    BY <1>5 DEF Allowed
  <2>3. /\ s1 \in State /\ s1.receipt = s.receipt
        /\ s1.task = MarkTerminal(s, r.task, r.worker, r.kind)
    BY <1>5, EventFacts
  <2>4. /\ \A u \in Tasks \ {r.task} : s1.task[u] = s.task[u]
        /\ s1.task[r.task].status = r.kind /\ s1.task[r.task].leased_to = r.worker
        /\ s1.task[r.task].attempts = r.attempt
        /\ s1.task[r.task].lifecycle_seq > s.task[r.task].lifecycle_seq
    <3>1. r.worker # NoWorker /\ r.task \in Tasks /\ r.worker \in Workers \cup {NoWorker}
          /\ r.kind \in Terminal
      BY <1>5, WorkersAssumption
    <3>2. s.task[r.task].status \notin {"absent", r.kind}
      BY <2>2, <3>1 DEF Terminal
    <3> QED BY <2>2, <2>3, <3>1, <3>2, MarkTerminalFacts
  <2> HIDE DEF s1
  <2>5. s1.task[r.task].lifecycle_seq \in Nat BY <1>5, <2>3 DEF State, TaskType
  <2>6. s2 \in State /\ s2.receipt = s.receipt
        /\ (\A u \in Tasks \ {r.task} : s2.task[u] = s.task[u])
        /\ s2.task[r.task].status \in Terminal /\ s2.task[r.task].leased_to = r.worker
        /\ s2.task[r.task].attempts = r.attempt
        /\ s2.task[r.task].lifecycle_seq > s.task[r.task].lifecycle_seq
    <3>1. CASE r.final = "none" BY <1>5, <2>3, <2>4, <3>1
    <3>2. CASE r.final = "Failed"
      <4>1. /\ m \in [Tasks -> TaskType]
            /\ \A u \in Tasks \ {r.task} : m[u] = s1.task[u]
            /\ m[r.task].status = "Failed" /\ m[r.task].leased_to = r.worker
            /\ m[r.task].attempts = s1.task[r.task].attempts
            /\ m[r.task].lifecycle_seq >= s1.task[r.task].lifecycle_seq
            /\ m[r.task].lifecycle_seq \in Nat
        BY <1>5, <2>3, <2>4, <2>5, <3>2, MarkTerminalFacts, WorkersAssumption
        DEF Terminal, TaskType
      <4> HIDE DEF m
      <4>2. s2 = [s1 EXCEPT !.task = m] BY <3>2
      <4>3. s2 \in State /\ s2.receipt = s1.receipt /\ s2.task = m
        BY <2>3, <4>1, <4>2 DEF State
      <4> QED BY <1>0, <1>5, <2>3, <2>4, <2>5, <4>1, <4>3 DEF Terminal
    <3> QED BY <1>5, <3>1, <3>2
  <2> HIDE DEF s2
  <2>7. /\ apply_record(s, r) \in State
        /\ apply_record(s, r).task = s2.task
        /\ apply_record(s, r).receipt = [s.receipt EXCEPT ![r.task] = r.attempt]
    BY <1>5, <2>1, <2>6 DEF State
  <2> QED BY <1>5, <2>2, <2>6, <2>7 DEF Advances, Terminal, State
<1> QED BY <1>1, <1>2, <1>3, <1>4, <1>5 DEF Record, Decisive, BudgetAlert

-----------------------------------------------------------------------------
(* The transactions.                                                       *)

\* The empty ledger.
LEMMA InitIInv == Init => IInv
<1> SUFFICES ASSUME Init PROVE IInv OBVIOUS
<1>1. NoTask \in TaskType BY DEF NoTask, TaskType, LedgerStatus
<1>2. EmptyState \in State
  BY <1>1 DEF EmptyState, State, RunStatuses
<1>3. TypeOK BY <1>2 DEF Init, TypeOK, View
<1>4. PendingOK BY DEF Init, PendingOK
<1>5. \A t \in Tasks : st.task[t] = NoTask BY DEF Init, EmptyState
<1> QED BY <1>3, <1>4, <1>5
    DEF IInv, HasWorker, NeverSeen, OneLeasePerWorker, Active, CompletedHasReceipt, NoTask

\* Nothing decided is undone by a task that does not change.
LEMMA Unmoved ==
  ASSUME TypeOK, NEW t \in Tasks
  PROVE  Advances(st.task[t], st.task[t])
<1>1. st.task[t].lifecycle_seq \in Nat BY DEF TypeOK, State, TaskType
<1> QED BY <1>1 DEF Advances

\* One record is applied.
LEMMA WriteStep ==
  ASSUME IInv, Write
  PROVE  IInv' /\ \A t \in Tasks : Advances(st.task[t], st'.task[t])
<1> DEFINE r == pending[1]
<1>1. /\ pending \in Seq(Record) /\ pending # <<>> /\ st \in State
      /\ st' = apply_record(st, r) /\ pending' = Tail(pending)
      /\ UNCHANGED <<now, view, torn>>
  BY DEF IInv, TypeOK, Write
<1>2. /\ pending' \in Seq(Record) /\ r \in Record /\ 1 \in DOMAIN pending
      /\ \A i \in DOMAIN pending' :
           i + 1 \in DOMAIN pending /\ pending'[i] = pending[i + 1] /\ i + 1 # 1
      /\ \A i \in DOMAIN pending' : i \in Nat
  BY <1>1
<1>3. Allowed(st, r) BY <1>2 DEF IInv, PendingOK
<1>4. \A i, j \in DOMAIN pending' : Decisive(pending'[i]) /\ Decisive(pending'[j]) => i = j
  BY <1>2 DEF IInv, PendingOK
<1> HIDE DEF r
<1>5. CASE ~Decisive(r)
  <2>1. st' \in State /\ st'.task = st.task /\ st'.receipt = st.receipt
    BY <1>1, <1>2, <1>5, HarmlessFacts
  <2>2. TypeOK' BY <1>1, <1>2, <2>1 DEF IInv, TypeOK
  <2>3. \A i \in DOMAIN pending' : Allowed(st', pending'[i])
    BY <1>2, <2>1 DEF IInv, PendingOK, Allowed
  <2>4. PendingOK' BY <1>4, <2>3 DEF PendingOK
  <2>5. HasWorker' /\ NeverSeen(st)' /\ OneLeasePerWorker' /\ CompletedHasReceipt'
    BY <2>1 DEF IInv, HasWorker, NeverSeen, OneLeasePerWorker, Active, CompletedHasReceipt
  <2>6. \A t \in Tasks : Advances(st.task[t], st'.task[t])
    BY <2>1, Unmoved DEF IInv
  <2> QED BY <2>2, <2>4, <2>5, <2>6 DEF IInv
<1>6. CASE Decisive(r)
  <2> DEFINE t == r.task
  <2>1. /\ st' \in State /\ t \in Tasks
        /\ \A u \in Tasks \ {t} : st'.task[u] = st.task[u] /\ st'.receipt[u] = st.receipt[u]
        /\ Advances(st.task[t], st'.task[t])
        /\ st'.task[t].status = "Leased" =>
              st'.task[t] = st.task[t]
              \/ (r.record = "TaskLeased" /\ st'.task[t].leased_to = r.worker)
        /\ st'.task[t].status = "Completed" =>
              \/ st'.task[t] = st.task[t] /\ st'.receipt[t] = st.receipt[t]
              \/ st'.receipt[t] = st'.task[t].attempts
    BY <1>1, <1>2, <1>3, <1>6, DecisiveFacts DEF IInv
  <2> HIDE DEF t
  <2>2. TypeOK' BY <1>1, <1>2, <2>1 DEF IInv, TypeOK
  <2>3. \A i \in DOMAIN pending' : ~Decisive(pending'[i])
    BY <1>2, <1>6 DEF IInv, PendingOK, r
  <2>4. \A i \in DOMAIN pending' : Allowed(st', pending'[i])
    BY <2>3 DEF Allowed, Decisive
  <2>5. PendingOK' BY <1>4, <2>4 DEF PendingOK
  <2>6. HasWorker' /\ NeverSeen(st)'
    BY <2>1 DEF IInv, HasWorker, NeverSeen, Advances
  <2>7. OneLeasePerWorker'
    <3> SUFFICES ASSUME NEW u \in Active', NEW v \in Active',
                        st'.task[u].leased_to = st'.task[v].leased_to, u # v
                 PROVE  FALSE
      BY DEF OneLeasePerWorker
    <3>1. u \in Tasks /\ v \in Tasks
          /\ st'.task[u].status = "Leased" /\ st'.task[v].status = "Leased"
      BY DEF Active
    <3>2. ASSUME NEW x \in Tasks, NEW y \in Tasks, x # y, x = t,
                 st'.task[x].status = "Leased", st'.task[y].status = "Leased",
                 st'.task[x].leased_to = st'.task[y].leased_to
          PROVE  FALSE
      <4>1. st'.task[y] = st.task[y] BY <2>1, <3>2
      <4>2. CASE st'.task[t] = st.task[t]
        BY <3>2, <4>1, <4>2 DEF IInv, OneLeasePerWorker, Active
      <4>3. CASE r.record = "TaskLeased" /\ st'.task[t].leased_to = r.worker
        BY <1>3, <3>2, <4>1, <4>3 DEF Allowed, t
      <4> QED BY <2>1, <3>2, <4>2, <4>3
    <3>3. CASE u = t \/ v = t BY <3>1, <3>2, <3>3
    <3>4. CASE u # t /\ v # t
      BY <2>1, <3>1, <3>4 DEF IInv, OneLeasePerWorker, Active
    <3> QED BY <3>3, <3>4
  <2>8. CompletedHasReceipt'
    <3> SUFFICES ASSUME NEW u \in Tasks, st'.task[u].status = "Completed"
                 PROVE  st'.receipt[u] = st'.task[u].attempts
      BY DEF CompletedHasReceipt
    <3> QED BY <2>1 DEF IInv, CompletedHasReceipt
  <2>9. \A u \in Tasks : Advances(st.task[u], st'.task[u])
    BY <2>1, Unmoved DEF IInv
  <2> QED BY <2>2, <2>5, <2>6, <2>7, <2>8, <2>9 DEF IInv
<1> QED BY <1>5, <1>6

\* The state stays; the pending records are typed, allowed and hold at most one
\* decision.
LEMMA StateKept ==
  ASSUME IInv, st' = st, now' \in Nat, torn' \in Nat, view' \in [Callers -> View],
         pending' \in Seq(Record),
         \A i \in DOMAIN pending' : Allowed(st, pending'[i]),
         \A i, j \in DOMAIN pending' : Decisive(pending'[i]) /\ Decisive(pending'[j]) => i = j
  PROVE  IInv' /\ \A t \in Tasks : Advances(st.task[t], st'.task[t])
<1>1. TypeOK' BY DEF IInv, TypeOK
<1>2. PendingOK' BY DEF PendingOK
<1>3. HasWorker' /\ NeverSeen(st)' /\ OneLeasePerWorker' /\ CompletedHasReceipt'
  BY DEF IInv, HasWorker, NeverSeen, OneLeasePerWorker, Active, CompletedHasReceipt
<1>4. \A t \in Tasks : Advances(st.task[t], st'.task[t])
  BY Unmoved DEF IInv
<1> QED BY <1>1, <1>2, <1>3, <1>4 DEF IInv

\* Only the clock, the views or the count of torn transactions change, or the
\* rest of a transaction is lost.
LEMMA NothingAppended ==
  ASSUME IInv, st' = st, now' \in Nat, torn' \in Nat, view' \in [Callers -> View],
         pending' = pending \/ pending' = <<>>
  PROVE  IInv' /\ \A t \in Tasks : Advances(st.task[t], st'.task[t])
<1>1. CASE pending' = pending BY <1>1, StateKept DEF IInv, TypeOK, PendingOK
<1>2. CASE pending' = <<>> BY <1>2, StateKept
<1> QED BY <1>1, <1>2

\* A transaction of one record.
LEMMA OneAppended ==
  ASSUME IInv, st' = st, now' = now, torn' = torn, view' \in [Callers -> View],
         NEW r \in Record, Allowed(st, r), pending' = <<r>>
  PROVE  IInv' /\ \A t \in Tasks : Advances(st.task[t], st'.task[t])
<1>1. pending' \in Seq(Record) /\ (\A i \in DOMAIN pending' : i = 1 /\ pending'[i] = r)
  OBVIOUS
<1> QED BY <1>1, StateKept DEF IInv, TypeOK

\* The records as members of Record.
LEMMA RecordTypes ==
  /\ \A t \in Tasks : TaskEnqueued(t) \in Record
  /\ \A t \in Tasks, w \in Workers, at \in Nat : TaskLeased(t, w, at) \in Record
  /\ \A t \in Tasks, w \in Workers, n \in Nat, kind \in {"Progress", "Usage"} \cup Terminal :
       EventAppended(t, w, kind, n) \in Record
  /\ \A w \in Workers, at \in Nat : Beat(w, at) \in Record
  /\ \A status \in RunStatuses : RunStatusChanged(status) \in Record
  /\ BudgetAlert \in Record
<1>1. \A t \in Tasks : TaskEnqueued(t) \in [record : {"TaskEnqueued"}, task : Tasks]
  BY DEF TaskEnqueued
<1>2. \A t \in Tasks, w \in Workers, at \in Nat :
        TaskLeased(t, w, at) \in [record : {"TaskLeased"}, task : Tasks, worker : Workers, at : Nat]
  BY DEF TaskLeased
<1>3. \A t \in Tasks, w \in Workers, n \in Nat, kind \in {"Progress", "Usage"} \cup Terminal :
        EventAppended(t, w, kind, n) \in
          [record : {"EventAppended"}, task : Tasks, worker : Workers,
           kind : {"Progress", "Usage"} \cup Terminal, seq : Nat]
  BY DEF EventAppended
<1>4. \A w \in Workers, at \in Nat :
        Beat(w, at) \in [record : {"Heartbeat"}, worker : Workers, at : Nat]
  BY DEF Beat
<1>5. \A status \in RunStatuses :
        RunStatusChanged(status) \in [record : {"RunStatusChanged"}, status : RunStatuses]
  BY DEF RunStatusChanged
<1> QED BY <1>1, <1>2, <1>3, <1>4, <1>5 DEF Record

\* What a caller with a task view knows about it.
LEMMA HoldingFacts ==
  ASSUME IInv, NEW c \in Callers, Holding(c)
  PROVE  /\ pending = <<>>
         /\ view[c] \in [kind : {"task"}, task : Tasks, status : LedgerStatus,
                         worker : Workers \cup {NoWorker}, attempts : Nat, seq : Nat, beat : Nat]
         /\ view[c].task \in Tasks /\ view[c].worker \in Workers \cup {NoWorker}
         /\ view[c].attempts \in Nat
         /\ st.task[view[c].task] \in TaskType
         /\ \A w \in Workers : NextSeq(view[c].task, w) \in Nat
         /\ \A v \in View : [view EXCEPT ![c] = v] \in [Callers -> View]
         /\ NoView \in View /\ Owes \in View
         /\ now \in Nat
<1>1. pending = <<>> /\ view[c].kind = "task" BY DEF Holding, Unlocked
<1>2. view[c] \in View BY DEF IInv, TypeOK
<1>3. view[c] \in [kind : {"task"}, task : Tasks, status : LedgerStatus,
                   worker : Workers \cup {NoWorker}, attempts : Nat, seq : Nat, beat : Nat]
  BY <1>1, <1>2 DEF View, NoView, Owes
<1>4. st.task[view[c].task] \in TaskType BY <1>3 DEF IInv, TypeOK, State
<1>5. ASSUME NEW w \in Workers PROVE NextSeq(view[c].task, w) \in Nat
  BY <1>3 DEF NextSeq, IInv, TypeOK, State, Keys
<1>6. \A v \in View : [view EXCEPT ![c] = v] \in [Callers -> View]
  BY DEF IInv, TypeOK
<1>7. NoView \in View /\ Owes \in View BY DEF View
<1>8. now \in Nat BY DEF IInv, TypeOK
<1> QED BY <1>1, <1>3, <1>4, <1>5, <1>6, <1>7, <1>8

\* Reads and decisions to do nothing.
LEMMA ViewStep ==
  ASSUME IInv,
         \/ TornWrite \/ Tick
         \/ \E c \in Callers :
              Forget(c) \/ refresh_run_status(c) \/ \E t \in Tasks : rebuild_state(c, t)
  PROVE  IInv' /\ \A t \in Tasks : Advances(st.task[t], st'.task[t])
<1>0. /\ now \in Nat /\ torn \in Nat /\ view \in [Callers -> View]
      /\ NoView \in View
  BY DEF IInv, TypeOK, View
<1>1. CASE TornWrite
  <2>1. view' \in [Callers -> View] BY <1>0, <1>1 DEF TornWrite
  <2> QED BY <1>0, <1>1, <2>1, NothingAppended DEF TornWrite
<1>2. CASE Tick BY <1>0, <1>2, NothingAppended DEF Tick
<1>3. ASSUME NEW c \in Callers, Forget(c)
      PROVE  IInv' /\ \A t \in Tasks : Advances(st.task[t], st'.task[t])
  BY <1>0, <1>3, NothingAppended DEF Forget
<1>4. ASSUME NEW c \in Callers, refresh_run_status(c)
      PROVE  IInv' /\ \A t \in Tasks : Advances(st.task[t], st'.task[t])
  <2>1. RunStatus \in RunStatuses BY DEF RunStatus, RunStatuses
  <2>2. [kind |-> "refresh", status |-> RunStatus] \in View BY <2>1 DEF View
  <2> QED BY <1>0, <1>4, <2>2, NothingAppended DEF refresh_run_status
<1>5. ASSUME NEW c \in Callers, NEW t \in Tasks, rebuild_state(c, t)
      PROVE  IInv' /\ \A u \in Tasks : Advances(st.task[u], st'.task[u])
  <2> DEFINE w == st.task[t].leased_to
             v == [kind |-> "task", task |-> t, status |-> st.task[t].status, worker |-> w,
                   attempts |-> st.task[t].attempts,
                   seq  |-> IF w = NoWorker THEN 0 ELSE st.seq[<<w, t>>],
                   beat |-> IF w = NoWorker THEN 0 ELSE st.beat[w]]
  <2>1. /\ st.task[t].status \in LedgerStatus /\ st.task[t].attempts \in Nat
        /\ w \in Workers \cup {NoWorker}
    BY DEF IInv, TypeOK, State, TaskType
  <2>2. w # NoWorker => st.seq[<<w, t>>] \in Nat /\ st.beat[w] \in Nat
    BY <2>1 DEF IInv, TypeOK, State, Keys
  <2>3. v \in View BY <2>1, <2>2 DEF View
  <2>4. view' = [view EXCEPT ![c] = v] BY <1>5 DEF rebuild_state
  <2> HIDE DEF v
  <2> QED BY <1>0, <1>5, <2>3, <2>4, NothingAppended DEF rebuild_state
<1> QED BY <1>1, <1>2, <1>3, <1>4, <1>5

\* Transactions that decide nothing about a task, or only enqueue it.
LEMMA MinorStep ==
  ASSUME IInv,
         \/ \E t \in Tasks : enqueue(t)
         \/ \E w \in Workers : heartbeat(w)
         \/ \E c \in Callers :
              update_run_status(c) \/ record_budget_exceeded_alert_once(c)
  PROVE  IInv' /\ \A t \in Tasks : Advances(st.task[t], st'.task[t])
<1>0. /\ now \in Nat /\ view \in [Callers -> View] /\ torn \in Nat
      /\ NoView \in View
  BY DEF IInv, TypeOK, View
<1>1. ASSUME NEW t \in Tasks, enqueue(t)
      PROVE  IInv' /\ \A u \in Tasks : Advances(st.task[u], st'.task[u])
  <2>1. TaskEnqueued(t) \in Record /\ Allowed(st, TaskEnqueued(t))
    BY RecordTypes DEF Allowed, TaskEnqueued
  <2> QED BY <1>0, <1>1, <2>1, OneAppended DEF enqueue
<1>2. ASSUME NEW w \in Workers, heartbeat(w)
      PROVE  IInv' /\ \A t \in Tasks : Advances(st.task[t], st'.task[t])
  <2>1. Beat(w, now) \in Record /\ Allowed(st, Beat(w, now))
    BY <1>0, RecordTypes DEF Allowed, Beat
  <2> QED BY <1>0, <1>2, <2>1, OneAppended DEF heartbeat
<1>3. ASSUME NEW c \in Callers, update_run_status(c)
      PROVE  IInv' /\ \A t \in Tasks : Advances(st.task[t], st'.task[t])
  <2> DEFINE r == RunStatusChanged(view[c].status)
  <2>1. view[c].kind = "refresh" /\ view[c] \in View
    BY <1>0, <1>3 DEF update_run_status
  <2>2. view[c].status \in RunStatuses BY <2>1 DEF View, NoView, Owes
  <2>3. r \in Record /\ Allowed(st, r)
    BY <2>2, RecordTypes DEF Allowed, RunStatusChanged
  <2>4. pending' = <<r>> /\ view' = [view EXCEPT ![c] = NoView] /\ UNCHANGED <<now, st, torn>>
    BY <1>3 DEF update_run_status, Append_, AppendThen
  <2> HIDE DEF r
  <2> QED BY <1>0, <2>3, <2>4, OneAppended
<1>4. ASSUME NEW c \in Callers, record_budget_exceeded_alert_once(c)
      PROVE  IInv' /\ \A t \in Tasks : Advances(st.task[t], st'.task[t])
  <2> DEFINE r == RunStatusChanged("Paused")
  <2>1. /\ pending' = <<BudgetAlert, r>> \/ pending' = <<>>
        /\ view' = [view EXCEPT ![c] = NoView] /\ UNCHANGED <<now, st, torn>>
    BY <1>4 DEF record_budget_exceeded_alert_once, Append_, AppendThen
  <2>2. BudgetAlert \in Record /\ r \in Record BY RecordTypes DEF RunStatuses
  <2>3. /\ BudgetAlert.record = "BudgetAlert" /\ r.record = "RunStatusChanged"
    BY DEF BudgetAlert, RunStatusChanged
  <2>4. /\ Allowed(st, BudgetAlert) /\ ~Decisive(BudgetAlert)
        /\ Allowed(st, r) /\ ~Decisive(r)
    BY <2>3 DEF Allowed, Decisive
  <2> HIDE DEF r
  <2>5. CASE pending' = <<BudgetAlert, r>>
    <3>1. pending' \in Seq(Record) BY <2>2, <2>5
    <3>2. \A i \in DOMAIN pending' : pending'[i] \in {BudgetAlert, r} BY <2>5
    <3> QED BY <1>0, <2>1, <2>4, <3>1, <3>2, StateKept
  <2>6. CASE pending' = <<>> BY <1>0, <2>1, <2>6, NothingAppended
  <2> QED BY <2>1, <2>5, <2>6
<1> QED BY <1>1, <1>2, <1>3, <1>4

\* An event that is not terminal is no decision.
LEMMA ProgressFacts ==
  ASSUME NEW t \in Tasks, NEW w \in Workers, NEW kind \in {"Progress", "Usage"}, NEW n \in Nat
  PROVE  /\ EventAppended(t, w, kind, n) \in Record
         /\ Allowed(st, EventAppended(t, w, kind, n))
         /\ ~Decisive(EventAppended(t, w, kind, n))
<1>1. EventAppended(t, w, kind, n) \in Record BY RecordTypes
<1>2. /\ EventAppended(t, w, kind, n).record = "EventAppended"
      /\ EventAppended(t, w, kind, n).kind \notin Terminal
  BY DEF EventAppended, Terminal
<1> QED BY <1>1, <1>2 DEF Allowed, Decisive

\* A lease is written for a worker that is idle, with harmless records after it.
LEMMA LeaseStep ==
  ASSUME IInv, NEW c \in Callers,
         restart_task_if_unchanged(c) \/ \E w \in Workers : start_task_if_enqueued(c, w)
  PROVE  IInv' /\ \A t \in Tasks : Advances(st.task[t], st'.task[t])
<1> DEFINE t == view[c].task
<1>0. Holding(c) BY DEF restart_task_if_unchanged, start_task_if_enqueued
<1>1. /\ t \in Tasks /\ view[c].worker \in Workers \cup {NoWorker} /\ now \in Nat
      /\ \A w \in Workers : NextSeq(t, w) \in Nat
      /\ [view EXCEPT ![c] = NoView] \in [Callers -> View]
  BY <1>0, HoldingFacts
<1>2. PICK w \in Workers :
        /\ WorkerIdle(w, t)
        /\ view' = [view EXCEPT ![c] = NoView] /\ UNCHANGED <<now, st, torn>>
        /\ LET n == NextSeq(t, w)
               e(m) == EventAppended(t, w, "Progress", m) IN
           \/ pending' = <<TaskLeased(t, w, now), e(n), e(n + 1), e(n + 2), e(n + 3), Beat(w, now)>>
           \/ pending' = <<TaskLeased(t, w, now), e(n), e(n + 1), Beat(w, now)>>
  <2>1. CASE restart_task_if_unchanged(c)
    <3>1. view[c].worker \in Workers
      BY <1>1, <2>1 DEF restart_task_if_unchanged, VersionUnchanged
    <3> QED BY <2>1, <3>1 DEF restart_task_if_unchanged, Append_, AppendThen
  <2>2. CASE \E w \in Workers : start_task_if_enqueued(c, w)
    BY <2>2 DEF start_task_if_enqueued, Append_, AppendThen
  <2> QED BY <2>1, <2>2
<1> DEFINE n == NextSeq(t, w)
           e(m) == EventAppended(t, w, "Progress", m)
           l == TaskLeased(t, w, now)
           b == Beat(w, now)
<1>3. n \in Nat /\ n + 1 \in Nat /\ n + 2 \in Nat /\ n + 3 \in Nat BY <1>1
<1>4. \A m \in Nat : e(m) \in Record /\ Allowed(st, e(m)) /\ ~Decisive(e(m))
  BY <1>1, ProgressFacts
<1>5. b \in Record /\ Allowed(st, b) /\ ~Decisive(b)
  BY <1>1, RecordTypes DEF Beat, Allowed, Decisive
<1>6. l \in Record /\ Allowed(st, l)
  <2>1. l.record = "TaskLeased" /\ l.task = t /\ l.worker = w BY DEF TaskLeased
  <2> QED BY <1>1, <1>2, <2>1, RecordTypes DEF Allowed, WorkerIdle
<1>7. /\ pending' \in Seq(Record)
      /\ \A i \in DOMAIN pending' :
           Allowed(st, pending'[i]) /\ (Decisive(pending'[i]) => i = 1)
  <2> HIDE DEF e, l, b, n
  <2>1. CASE pending' = <<l, e(n), e(n + 1), e(n + 2), e(n + 3), b>>
    BY <1>3, <1>4, <1>5, <1>6, <2>1
  <2>2. CASE pending' = <<l, e(n), e(n + 1), b>>
    BY <1>3, <1>4, <1>5, <1>6, <2>2
  <2> QED BY <1>2, <2>1, <2>2 DEF e, l, b, n
<1> QED BY <1>0, <1>1, <1>2, <1>7, StateKept DEF IInv, TypeOK

\* What the holder of a live lease writes: progress, or the end of the attempt.
LEMMA LeasedStep ==
  ASSUME IInv, NEW c \in Callers,
         \/ \E kind \in Payloads : append_event_if_leased(c, kind)
         \/ append_event_if_lease_unchanged(c)
         \/ append_terminal_event_if_lease_unchanged(c)
         \/ \E kind \in Results, final \in {"none", "Failed"} :
              finalize_task_attempt_if_leased(c, kind, final)
  PROVE  IInv' /\ \A t \in Tasks : Advances(st.task[t], st'.task[t])
<1> DEFINE v == view[c]
           t == v.task
           w == v.worker
           n == NextSeq(t, w)
<1>0. Holding(c) /\ LeaseLive(c)
  BY DEF append_event_if_leased, append_event_if_lease_unchanged, LeaseUnchanged,
         append_terminal_event_if_lease_unchanged, finalize_task_attempt_if_leased
<1>1. /\ t \in Tasks /\ v.attempts \in Nat
      /\ v \in [kind : {"task"}, task : Tasks, status : LedgerStatus,
                worker : Workers \cup {NoWorker}, attempts : Nat, seq : Nat, beat : Nat]
      /\ \A x \in Workers : NextSeq(t, x) \in Nat
      /\ \A x \in View : [view EXCEPT ![c] = x] \in [Callers -> View]
      /\ NoView \in View /\ Owes \in View
  BY <1>0, HoldingFacts
<1>2. /\ st.task[t].status = "Leased" /\ st.task[t].leased_to = w
      /\ st.task[t].attempts = v.attempts
  BY <1>0 DEF LeaseLive
<1>3. w \in Workers /\ n \in Nat BY <1>1, <1>2 DEF IInv, HasWorker
<1>4. ASSUME NEW kind \in Payloads, append_event_if_leased(c, kind)
      PROVE  IInv' /\ \A u \in Tasks : Advances(st.task[u], st'.task[u])
  <2>1. kind \in {"Progress", "Usage"} BY InputsAssumption
  <2>2. PICK x \in {NoView, Owes} :
          /\ pending' = <<EventAppended(t, w, kind, n)>>
          /\ view' = [view EXCEPT ![c] = x] /\ UNCHANGED <<now, st, torn>>
    BY <1>4 DEF append_event_if_leased, AppendThen
  <2> QED BY <1>1, <1>3, <2>1, <2>2, ProgressFacts, OneAppended
<1>5. CASE append_event_if_lease_unchanged(c)
  <2> DEFINE x == [v EXCEPT !.seq = n]
  <2>1. x \in View BY <1>1, <1>3 DEF View
  <2>2. /\ pending' = <<EventAppended(t, w, "Progress", n)>>
        /\ view' = [view EXCEPT ![c] = x] /\ UNCHANGED <<now, st, torn>>
    BY <1>5 DEF append_event_if_lease_unchanged, AppendThen
  <2> HIDE DEF x
  <2> QED BY <1>1, <1>3, <2>1, <2>2, ProgressFacts, OneAppended
<1>6. CASE append_terminal_event_if_lease_unchanged(c)
  <2> DEFINE r == EventAppended(t, w, "Failed", n)
  <2>1. /\ pending' = <<r>>
        /\ view' = [view EXCEPT ![c] = NoView] /\ UNCHANGED <<now, st, torn>>
    BY <1>6 DEF append_terminal_event_if_lease_unchanged, Append_, AppendThen
  <2>2. r \in Record BY <1>1, <1>3, RecordTypes DEF Terminal
  <2>3. r.record = "EventAppended" /\ r.kind = "Failed" /\ r.task = t BY DEF EventAppended
  <2>4. Allowed(st, r) BY <1>2, <2>3 DEF Allowed, Unfinished
  <2> HIDE DEF r
  <2> QED BY <1>1, <2>1, <2>2, <2>4, OneAppended
<1>7. ASSUME NEW kind \in Results, NEW final \in {"none", "Failed"},
             finalize_task_attempt_if_leased(c, kind, final)
      PROVE  IInv' /\ \A u \in Tasks : Advances(st.task[u], st'.task[u])
  <2> DEFINE r == AttemptFinalized(t, w, kind, n, final, v.attempts)
  <2>1. /\ pending' = <<r>>
        /\ view' = [view EXCEPT ![c] = NoView] /\ UNCHANGED <<now, st, torn>>
    BY <1>7 DEF finalize_task_attempt_if_leased, Append_, AppendThen
  <2>2. kind \in Terminal BY InputsAssumption DEF Terminal
  <2>3. r \in [record : {"TaskAttemptFinalized"}, task : Tasks, worker : Workers,
               kind : Terminal, seq : Nat, final : {"none", "Failed"}, attempt : Nat]
    BY <1>1, <1>3, <2>2 DEF AttemptFinalized
  <2>4. r.record = "TaskAttemptFinalized" /\ r.task = t /\ r.attempt = v.attempts
    BY DEF AttemptFinalized
  <2>5. r \in Record BY <2>3 DEF Record
  <2>6. Allowed(st, r) BY <1>2, <2>4 DEF Allowed
  <2> HIDE DEF r
  <2> QED BY <1>1, <2>1, <2>5, <2>6, OneAppended
<1> QED BY <1>4, <1>5, <1>6, <1>7

\* A cancellation decides a task that is not over yet, with the last record of
\* its transaction.
LEMMA CancelStep ==
  ASSUME IInv, NEW c \in Callers, NEW anyLease \in BOOLEAN, cancel_task_if_active(c, anyLease)
  PROVE  IInv' /\ \A t \in Tasks : Advances(st.task[t], st'.task[t])
<1> DEFINE t == view[c].task
           w == st.task[t].leased_to
           n == NextSeq(t, w)
<1>0. Holding(c) BY DEF cancel_task_if_active
<1>1. /\ t \in Tasks /\ st.task[t] \in TaskType
      /\ \A x \in Workers : NextSeq(t, x) \in Nat
      /\ [view EXCEPT ![c] = NoView] \in [Callers -> View]
  BY <1>0, HoldingFacts
<1>2. /\ st.task[t].status \in Unfinished
      /\ view' = [view EXCEPT ![c] = NoView] /\ UNCHANGED <<now, st, torn>>
  BY DEF cancel_task_if_active, Append_, AppendThen, Unfinished
<1>3. CASE w = NoWorker
  <2> DEFINE r == TaskEnded(t, NoWorker, "Cancelled")
  <2>1. pending' = <<r>> BY <1>3 DEF cancel_task_if_active, Append_, AppendThen
  <2>2. r \in [record : {"TaskCompletedOrFailed"}, task : Tasks,
               worker : Workers \cup {NoWorker}, status : Terminal]
    BY <1>1 DEF TaskEnded, Terminal
  <2>3. r.record = "TaskCompletedOrFailed" /\ r.status = "Cancelled" /\ r.task = t
    BY DEF TaskEnded
  <2>4. r \in Record BY <2>2 DEF Record
  <2>5. Allowed(st, r) BY <1>2, <2>3 DEF Allowed
  <2> HIDE DEF r
  <2> QED BY <1>1, <1>2, <2>1, <2>4, <2>5, OneAppended
<1>4. CASE w # NoWorker
  <2> DEFINE e == EventAppended(t, w, "Progress", n)
             r == EventAppended(t, w, "Cancelled", n + 1)
  <2>1. pending' = <<e, r>> BY <1>4 DEF cancel_task_if_active, Append_, AppendThen
  <2>2. w \in Workers /\ n \in Nat /\ n + 1 \in Nat BY <1>1, <1>4 DEF TaskType
  <2>3. e \in Record /\ Allowed(st, e) /\ ~Decisive(e) BY <1>1, <2>2, ProgressFacts
  <2>4. r \in Record BY <1>1, <2>2, RecordTypes DEF Terminal
  <2>5. r.record = "EventAppended" /\ r.kind = "Cancelled" /\ r.task = t BY DEF EventAppended
  <2>6. Allowed(st, r) BY <1>2, <2>5 DEF Allowed
  <2> HIDE DEF e, r
  <2>7. /\ pending' \in Seq(Record)
        /\ \A i \in DOMAIN pending' :
             Allowed(st, pending'[i]) /\ (Decisive(pending'[i]) => i = 2)
    BY <2>1, <2>3, <2>4, <2>6
  <2> QED BY <1>1, <1>2, <2>7, StateKept DEF IInv, TypeOK
<1> QED BY <1>3, <1>4

\* An alert is no decision.
LEMMA AlertStep ==
  ASSUME IInv, NEW c \in Callers, record_failed_attempt_alert_once(c)
  PROVE  IInv' /\ \A t \in Tasks : Advances(st.task[t], st'.task[t])
<1> DEFINE v == view[c]
           r == AlertSent(v.task, v.worker, v.attempts, NextSeq(v.task, v.worker))
<1>0. Holding(c) BY DEF record_failed_attempt_alert_once
<1>1. /\ v.task \in Tasks /\ v.attempts \in Nat
      /\ \A x \in Workers : NextSeq(v.task, x) \in Nat
      /\ [view EXCEPT ![c] = NoView] \in [Callers -> View]
  BY <1>0, HoldingFacts
<1>2. /\ st.task[v.task].status = "Failed" /\ st.task[v.task].leased_to = v.worker
      /\ pending' = <<r>>
      /\ view' = [view EXCEPT ![c] = NoView] /\ UNCHANGED <<now, st, torn>>
  BY DEF record_failed_attempt_alert_once, Append_, AppendThen
<1>3. v.worker \in Workers BY <1>1, <1>2 DEF IInv, HasWorker
<1>4. r \in [record : {"AlertSent"}, task : Tasks, worker : Workers, attempt : Nat, seq : Nat]
  BY <1>1, <1>3 DEF AlertSent
<1>5. r \in Record /\ r.record = "AlertSent" BY <1>4 DEF Record
<1>6. Allowed(st, r) BY <1>5 DEF Allowed
<1> HIDE DEF r
<1> QED BY <1>1, <1>2, <1>5, <1>6, OneAppended

-----------------------------------------------------------------------------
\* Every step keeps the invariant and moves every task forward.
LEMMA NextIInv ==
  IInv /\ [Next]_vars => IInv' /\ \A t \in Tasks : Advances(st.task[t], st'.task[t])
<1> SUFFICES ASSUME IInv, [Next]_vars
             PROVE  IInv' /\ \A t \in Tasks : Advances(st.task[t], st'.task[t])
  OBVIOUS
<1>1. CASE UNCHANGED vars
  BY <1>1, NothingAppended DEF vars, IInv, TypeOK
<1>2. CASE Write BY <1>2, WriteStep
<1>3. CASE TornWrite \/ Tick BY <1>3, ViewStep
<1>4. CASE (\E t \in Tasks : enqueue(t)) \/ (\E w \in Workers : heartbeat(w))
  BY <1>4, MinorStep
<1>5. ASSUME NEW c \in Callers, CallerStep(c)
      PROVE  IInv' /\ \A t \in Tasks : Advances(st.task[t], st'.task[t])
  BY <1>5, ViewStep, MinorStep, LeaseStep, LeasedStep, CancelStep, AlertStep DEF CallerStep
<1> QED BY <1>1, <1>2, <1>3, <1>4, <1>5 DEF Next

\* The invariant of every behaviour.
LEMMA Invariance == Spec => []IInv
<1>1. Init => IInv BY InitIInv
<1>2. IInv /\ [Next]_vars => IInv' BY NextIInv
<1> QED BY <1>1, <1>2, PTL DEF Spec

\* Every record, view and projection of the ledger has its shape, also after
\* torn transactions.
THEOREM TypeCorrect == Spec => []TypeOK
<1>1. IInv => TypeOK BY DEF IInv
<1> QED BY <1>1, Invariance, PTL

\* No worker ever holds two leases (start_task_if_enqueued,
\* restart_task_if_unchanged).
THEOREM WorkersNotShared == Spec => []OneLeasePerWorker
<1>1. IInv => OneLeasePerWorker BY DEF IInv
<1> QED BY <1>1, Invariance, PTL

\* A Completed task has the receipt of its current attempt
\* (finalize_task_attempt_if_leased, TaskAttemptFinalized).
THEOREM ReceiptsExplain == Spec => []CompletedHasReceipt
<1>1. IInv => CompletedHasReceipt BY DEF IInv
<1> QED BY <1>1, Invariance, PTL

\* Only a new attempt reopens a terminal task.
THEOREM OutcomesStick == Spec => TerminalSticks
<1>1. IInv /\ [Next]_vars =>
        [\A t \in Tasks :
           st.task[t].status \in Terminal /\ st'.task[t].status # st.task[t].status =>
             st'.task[t].attempts = st.task[t].attempts + 1]_vars
  BY NextIInv DEF Advances
<1> QED BY <1>1, Invariance, PTL DEF Spec, TerminalSticks

\* A change of a task's status shows as a larger lifecycle_seq.
THEOREM ChangesAreNumbered == Spec => LifecycleSeqAdvances
<1>1. IInv /\ [Next]_vars =>
        [\A t \in Tasks :
           LET old == st.task[t]  new == st'.task[t] IN
           IF new.status = old.status THEN new.lifecycle_seq >= old.lifecycle_seq
           ELSE new.lifecycle_seq > old.lifecycle_seq]_vars
  BY NextIInv DEF Advances
<1> QED BY <1>1, Invariance, PTL DEF Spec, LifecycleSeqAdvances
=============================================================================
