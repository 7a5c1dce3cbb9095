---------------------------- MODULE MCScheduler ----------------------------
(* Instances of Scheduler for TLC: small sets of threads, short quanta. *)
EXTENDS SchedulerProofs
=============================================================================
