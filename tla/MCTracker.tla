------------------------------ MODULE MCTracker ------------------------------
(* Two peers; the first may come back while its old connection lingers. *)
EXTENDS Tracker

MCTries == <<2, 1>>
MCOps == <<2, 0>>
=============================================================================
