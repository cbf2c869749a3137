------------------------- MODULE MCExecutionEngine -------------------------
(***************************************************************************)
(* ExecutionEngine for a client with a name of its own and the name of a   *)
(* function of the process.                                                *)
(***************************************************************************)
EXTENDS ExecutionEngine
=============================================================================
