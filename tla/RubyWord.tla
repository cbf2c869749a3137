------------------------------ MODULE RubyWord ------------------------------
(***************************************************************************)
(* Machine words, and the Ruby 1.8/1.9 values they denote.                 *)
(*                                                                         *)
(* lib/llvm.rb (RubyHelpers) compiles the tagging of Ruby integers to LLVM *)
(* shifts and xors over MACHINE_WORD, the type of VALUE.  The width w of   *)
(* the word is a parameter: FixLimit stands for 2^(w-2), so a word is a    *)
(* number below 4 * FixLimit = 2^w and a Fixnum, which loses one bit to    *)
(* the tag, lies in -FixLimit .. FixLimit-1.  Nothing below needs FixLimit *)
(* to be a power of two.                                                   *)
(***************************************************************************)
EXTENDS Integers

CONSTANT FixLimit   \* 2^(w-2): the number of non-negative Fixnums

\* nil is the word 4, so a word has at least three bits.
ASSUME FixLimitAssumption == FixLimit \in Nat /\ FixLimit >= 2

WordMod  == 4 * FixLimit
Word     == 0 .. WordMod - 1
FixRange == -FixLimit .. FixLimit - 1

\* The immediate values of the interpreter.
Qfalse == 0
Qtrue  == 2
Qnil   == 4

-----------------------------------------------------------------------------
(* The LLVM operations the emitted code is made of, on words.              *)

add(x, y) == (x + y) % WordMod
sub(x, y) == (x - y) % WordMod
mul(x, y) == (x * y) % WordMod

\* xor with FIXNUM_FLAG, the word 1, flips the lowest bit.
xorFlag(w) == IF w % 2 = 0 THEN w + 1 ELSE w - 1

signed(w) == IF w < 2 * FixLimit THEN w ELSE w - WordMod

icmp_slt(x, y) == signed(x) < signed(y)
icmp_sgt(x, y) == signed(x) > signed(y)
icmp_sge(x, y) == signed(x) >= signed(y)

\* A comparison is cast to a word, 0 or 1, and multiplied by 2: the result
\* is Qfalse or Qtrue.
boolWord(c) == mul(IF c THEN 1 ELSE 0, 2)

-----------------------------------------------------------------------------
(* RubyHelpers                                                             *)

num2fix(val) == xorFlag(mul(val, 2))

\* The xor'ed value is computed and dropped; the tag bit goes with the
\* logical shift, and so does the sign.
fix2int(val) == val \div 2

\* Fixnum#llvm: the integer itself as a machine word, NOT a tagged VALUE.
rawConstant(n) == n % WordMod

\* Object#immediate of the integer n: the VALUE the interpreter holds for it.
Fixnum(n) == (2 * n + 1) % WordMod

-----------------------------------------------------------------------------
(* What a word means to a Ruby program.                                    *)

Fix(n) == [t |-> "fix", n |-> n]
Obj(w) == [t |-> "obj", n |-> w]

isFixnum(w) == w % 2 = 1

\* The Ruby value a word denotes: an integer, or an immediate or reference.
Denotes(w) ==
    IF isFixnum(w) THEN Fix(IF w < 2 * FixLimit THEN w \div 2 ELSE w \div 2 - 2 * FixLimit)
                   ELSE Obj(w)

RubyFixnums == { Fix(n) : n \in FixRange }
RubyValues  == { Denotes(w) : w \in Word }

\* The object as the program sees it; a hash maps values, not words, to values.
View(obj) ==
    IF obj.kind = "hash"
    THEN [kind  |-> "hash",
          elems |-> [ k \in { Denotes(w) : w \in DOMAIN obj.elems } |->
                        Denotes(obj.elems[CHOOSE w \in DOMAIN obj.elems : Denotes(w) = k]) ]]
    ELSE [kind  |-> obj.kind,
          elems |-> [ i \in DOMAIN obj.elems |-> Denotes(obj.elems[i]) ]]
=============================================================================
