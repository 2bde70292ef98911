-------------------------- MODULE MCReplenishment --------------------------
(* One buyer; a run of the worker may outlast its lease and meet another.  *)
EXTENDS Replenishment
=============================================================================
