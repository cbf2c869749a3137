----------------------------- MODULE RubyCalls -----------------------------
(***************************************************************************)
(* The functions lib/ruby_calls.rb builds by hand with RubyHelpers, to work *)
(* in place on an array of the interpreter: last, swap, add1 and reverse.  *)
(*                                                                         *)
(* An activation runs one of them on one array.  A step is a basic block.  *)
(* Indices are machine words; aref and aset compare them with nothing, and *)
(* an access outside the buffer of the array ends the activation "wild".   *)
(***************************************************************************)
EXTENDS RubyWord, Sequences

CONSTANTS MaxArrayLen,  \* ARY_MAX_SIZE of the interpreter
          Arrays        \* the arrays the functions are called with

ASSUME ArraysAssumption ==
    /\ MaxArrayLen \in 1 .. FixLimit - 1
    /\ \A s \in Arrays : s \in Seq(Word) /\ Len(s) <= MaxArrayLen

VARIABLES func,     \* the function that runs
          given,    \* the elements when it was called
          ary,      \* the elements now
          block,    \* the basic block
          idx,      \* the phi node of the loop
          status, result

vars == <<func, given, ary, block, idx, status, result>>

-----------------------------------------------------------------------------
(* RubyHelpers                                                             *)

alen     == Len(ary)
InArray(i) == i < alen
aref(i)  == ary[i + 1]

\* Two asets, the second after the first.
exchange(i, j) == [ary EXCEPT ![i + 1] = aref(j), ![j + 1] = aref(i)]

\* Mutant of last_idx: the length itself.
last_idx_isLen == alen

last_idx == sub(alen, 1)

udiv(x, y) == x \div y

running(name, b) == status = "running" /\ func = name /\ block = b

-----------------------------------------------------------------------------
\* Return the last element.
last ==
    /\ running("last", "entry") /\ InArray(last_idx)
    /\ result' = aref(last_idx)
    /\ status' = "returned"
    /\ UNCHANGED <<func, given, ary, block, idx>>

\* Swap the first and the last.
swap ==
    /\ running("swap", "entry") /\ InArray(0) /\ InArray(sub(last_idx, 0))
    /\ ary' = exchange(0, sub(last_idx, 0))
    /\ status' = "returned"
    /\ UNCHANGED <<func, given, block, idx, result>>

\* The entry block of add1 and reverse: an empty array has nothing to do.
enter ==
    /\ running("add1", "entry") \/ running("reverse", "entry")
    /\ idx' = 0
    /\ block' = IF alen = 0 THEN "exit" ELSE "loop"
    /\ UNCHANGED <<func, given, ary, status, result>>

\* Mutant of repeats: the phi node gets idx back.
repeats_same(limit) ==
    /\ idx' = idx
    /\ block' = IF idx < limit THEN "loop" ELSE "exit"
    /\ UNCHANGED <<func, given, status, result>>

\* Mutant of repeats: icmp_ule for icmp_ult.
repeats_inclusive(limit) ==
    /\ idx' = add(1, idx)
    /\ block' = IF add(1, idx) <= limit THEN "loop" ELSE "exit"
    /\ UNCHANGED <<func, given, status, result>>

\* The end of a loop block: next_idx, and once more while it is below limit.
repeats(limit) ==
    /\ idx' = add(1, idx)
    /\ block' = IF add(1, idx) < limit THEN "loop" ELSE "exit"
    /\ UNCHANGED <<func, given, status, result>>

\* Mutant of add1: the sum is stored without its tag.
add1_untagged ==
    /\ running("add1", "loop") /\ InArray(idx)
    /\ ary' = [ary EXCEPT ![idx + 1] = add(1, fix2int(aref(idx)))]
    /\ repeats(alen)

add1 ==
    /\ running("add1", "loop") /\ InArray(idx)
    /\ ary' = [ary EXCEPT ![idx + 1] = num2fix(add(1, fix2int(aref(idx))))]
    /\ repeats(alen)

\* Mutant of half_len: every index is swapped, and swapped back.
half_len_isLen == alen

half_len == udiv(alen, 2)

reverse ==
    /\ running("reverse", "loop") /\ InArray(idx) /\ InArray(sub(last_idx, idx))
    /\ ary' = exchange(idx, sub(last_idx, idx))
    /\ repeats(half_len)

return ==
    /\ running("add1", "exit") \/ running("reverse", "exit")
    /\ status' = "returned"
    /\ UNCHANGED <<func, given, ary, block, idx, result>>

\* A load or a store outside the buffer.
Wild ==
    /\ \/ running("last", "entry") /\ ~InArray(last_idx)
       \/ running("swap", "entry") /\ ~(InArray(0) /\ InArray(sub(last_idx, 0)))
       \/ running("add1", "loop") /\ ~InArray(idx)
       \/ running("reverse", "loop") /\ ~(InArray(idx) /\ InArray(sub(last_idx, idx)))
    /\ status' = "wild"
    /\ UNCHANGED <<func, given, ary, block, idx, result>>

Stopped == status \in {"returned", "wild"}

Finished == Stopped /\ UNCHANGED vars

-----------------------------------------------------------------------------
Init ==
    /\ func \in {"last", "swap", "add1", "reverse"}
    /\ given \in Arrays /\ ary = given
    /\ block = "entry" /\ idx = 0
    /\ status = "running" /\ result = Qnil

Step == last \/ swap \/ enter \/ add1 \/ reverse \/ return \/ Wild

Next == Step \/ Finished

\* The processor keeps executing the activation.
Spec == Init /\ [][Next]_vars /\ WF_vars(Step)

-----------------------------------------------------------------------------
(* Properties.                                                             *)

\* The array keeps its length and holds words; the index is within it while
\* a loop runs.
TypeOK ==
    /\ func \in {"last", "swap", "add1", "reverse"}
    /\ given \in Seq(Word) /\ Len(given) <= MaxArrayLen
    /\ ary \in Seq(Word) /\ Len(ary) = Len(given)
    /\ block \in {"entry", "loop", "exit"} /\ idx \in 0 .. Len(given)
    /\ status \in {"running", "returned", "wild"} /\ result \in Word
    /\ block = "loop" => func \in {"add1", "reverse"} /\ idx < Len(given)

\* No load or store falls outside the array: add1 and reverse take any
\* array, last and swap any array with an element.
StaysInArray == func \in {"add1", "reverse"} \/ given # <<>> => status # "wild"

\* reverse leaves the array reversed, the middle element of an odd length and
\* an array of one included.
Reverses ==
    func = "reverse" /\ status = "returned" =>
        \A i \in DOMAIN given : ary[i] = given[Len(given) + 1 - i]

\* The successor of a Fixnum, by the add of the emitted code: the largest one
\* wraps to the smallest.
Successor(n) == IF n = FixLimit - 1 THEN -FixLimit ELSE n + 1

\* add1 adds one to every element that is a Fixnum, a negative one included
\* although fix2int loses its sign: the shift of num2fix drops that bit again.
AddsOne ==
    func = "add1" /\ status = "returned" =>
        \A i \in DOMAIN given : isFixnum(given[i]) =>
            Denotes(ary[i]) = Fix(Successor(Denotes(given[i]).n))

\* Every activation comes to its end.
Ends == <>Stopped
=============================================================================
