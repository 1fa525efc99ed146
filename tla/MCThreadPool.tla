----------------------------- MODULE MCThreadPool -----------------------------
(* Two workers, one client and three tasks: both workers can be asleep when  *)
(* a task arrives, a running task can post another, and stop() can be called *)
(* at any point of it.                                                       *)
EXTENDS ThreadPool
=============================================================================
