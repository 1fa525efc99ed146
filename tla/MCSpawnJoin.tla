----------------------------- MODULE MCSpawnJoin -----------------------------
(* A chain of spawned tasks; the configurations choose what the owners do.  *)
EXTENDS SpawnJoin
=============================================================================
