--------------------------- MODULE AutomationHost ---------------------------
(***************************************************************************)
(* What recurring automations and delayed triggers, the two halves of      *)
(* crates/tui/src/automation_manager.rs, share: the processes with a       *)
(* scheduler loop on one directory, the wall clock, and the task manager,  *)
(* which is its abstract specification, JobQueue.                          *)
(***************************************************************************)
EXTENDS Naturals, FiniteSets

CONSTANTS
  Tasks,       \* task ids
  Procs,       \* processes with a scheduler loop on this directory
  MaxTime      \* bound: the clock

VARIABLES
  now,         \* the wall clock
  job, begun,  \* the task manager (JobQueue)
  crashes      \* history: how many processes crashed

Jobs == INSTANCE JobQueue
=============================================================================
