----------------------------- MODULE MCIoContext -----------------------------
(* One loop thread with two clients, two functions and one timer. *)
EXTENDS IoContext
=============================================================================
