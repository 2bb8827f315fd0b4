---------------------------- MODULE MCClientPool ----------------------------
(* ClientPool for model checking; it needs nothing that the module lacks.   *)
EXTENDS ClientPool
=============================================================================
