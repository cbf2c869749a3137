----------------------------- MODULE MCBindings -----------------------------
(***************************************************************************)
(* Bindings for a client that holds up to three objects: the receiver and  *)
(* the arguments of every method, but for a cond_br to two blocks or an    *)
(* insert_element whose three operands all differ, which need no object    *)
(* that a call with two equal operands does not need.                      *)
(***************************************************************************)
EXTENDS Bindings
=============================================================================
