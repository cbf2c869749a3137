------------------------- MODULE MCEmbeddedObjects -------------------------
(***************************************************************************)
(* EmbeddedObjects with more objects than addresses, so that addresses are *)
(* used again.                                                             *)
(***************************************************************************)
EXTENDS EmbeddedObjects
=============================================================================
