----------------------------- MODULE MCSchedule -----------------------------
(* A periodic and a one-shot task on one loop.                               *)
EXTENDS Schedule
=============================================================================
