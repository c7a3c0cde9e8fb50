-------------------------- MODULE TaskManagerJobs --------------------------
(***************************************************************************)
(* The task manager implements JobQueue.  The status a client may rely on  *)
(* is the one in the task's file: it is what get_task answers whenever the *)
(* mutex is free, and what a restart goes on from.                         *)
(***************************************************************************)
EXTENDS TaskManager

Jobs == INSTANCE JobQueue
          WITH job   <- [t \in Tasks |-> diskTask[t].status],
               begun <- {t \in Tasks : runs[t] > 0}

\* Every step of the manager (a file write, a worker's start, a crash, a
\* restart) is one step in the life of one job or invisible to clients.  It
\* needs writes that succeed: a Running record that was not written is run
\* again after a crash (AtMostOncePerFault bounds that case).
ImplementsJobs == Jobs!JobSpec
=============================================================================
