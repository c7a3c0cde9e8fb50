------------------------------ MODULE JobQueue ------------------------------
(***************************************************************************)
(* What the durable task manager promises its clients, whatever it does    *)
(* with memory, files, mutexes and workers: an accepted job is kept, moves *)
(* one way through its life, and is executed at most once.                 *)
(*                                                                         *)
(* TaskManager implements this specification as long as no file operation  *)
(* fails (module TaskManagerJobs); the clients of the task manager         *)
(* (AutomationManager, DelayedTriggers) are checked against it alone.      *)
(***************************************************************************)
CONSTANT Tasks

VARIABLES
  job,    \* id -> the status a client would find, now or after a restart
  begun   \* the ids whose execution has begun

jobVars == <<job, begun>>

TerminalJob == {"Completed", "Failed", "Canceled"}
JobStatus   == {"Absent", "Queued", "Running"} \cup TerminalJob

JobInit == job = [t \in Tasks |-> "Absent"] /\ begun = {}

Become(t, from, to) == job[t] \in from /\ job' = [job EXCEPT ![t] = to]

\* add_task returned Ok, or crashed when the record was already on disk.
Accept(t) == Become(t, {"Absent"}, "Queued") /\ UNCHANGED begun

Start(t) == Become(t, {"Queued"}, "Running") /\ UNCHANGED begun

\* The work itself begins only once the record says Running.
Execute(t) ==
  /\ job[t] = "Running" /\ t \notin begun
  /\ begun' = begun \cup {t}
  /\ UNCHANGED job

\* A job that was canceled before a worker took it is never executed.
Withdraw(t) == Become(t, {"Queued"}, "Canceled") /\ UNCHANGED begun

\* The execution ended, or its process did (then the job is Failed).  Only an
\* execution can complete a job.
Finish(t, status) ==
  /\ Become(t, {"Running"}, status)
  /\ status = "Completed" => t \in begun
  /\ UNCHANGED begun

JobStep(t) ==
  \/ Accept(t) \/ Start(t) \/ Execute(t) \/ Withdraw(t)
  \/ \E status \in TerminalJob : Finish(t, status)

JobSpec == JobInit /\ [][\E t \in Tasks : JobStep(t)]_jobVars
=============================================================================
