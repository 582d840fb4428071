-------------------------- MODULE MCQueueMigration --------------------------
(* Instances of QueueMigration for TLC: two jobs, so that one can be of the *)
(* old queue and one of the new, and faults enough to stop a run, the run   *)
(* after it, and to unplug the printer.  Both scripts and both queue names  *)
(* are initial states of every run.                                         *)
EXTENDS QueueMigration
=============================================================================
