-------------------------- MODULE MCProcessManager --------------------------
(* A master with few workers and generations, under either policy.           *)
EXTENDS ProcessManager
=============================================================================
