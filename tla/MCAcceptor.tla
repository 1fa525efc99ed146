----------------------------- MODULE MCAcceptor -----------------------------
(* A few connections; handlers stay on the loop or visit a pool thread.      *)
EXTENDS Acceptor
=============================================================================
