---------------------------- MODULE MCRubyCalls ----------------------------
(***************************************************************************)
(* RubyCalls on every array of up to MaxArrayLen of a few words: the        *)
(* smallest, a negative and the largest Fixnum, and a word that is none.   *)
(***************************************************************************)
EXTENDS RubyCalls

Elements == { Fixnum(n) : n \in {-FixLimit, -1, 2, FixLimit - 1} } \cup {Qnil}

MCArrays == UNION { [1 .. n -> Elements] : n \in 0 .. MaxArrayLen }
=============================================================================
