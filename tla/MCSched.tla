------------------------------ MODULE MCSched -------------------------------
(* Three threads besides idle, critical sections nested twice, and
   sleeps that end with the next tick. *)
EXTENDS Sched
=============================================================================
