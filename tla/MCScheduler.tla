------------------------------ MODULE MCScheduler ------------------------------
(* The scheduler with three table entries and one process more than that. *)
EXTENDS Scheduler
================================================================================
