------------------------------ MODULE Bytecode ------------------------------
(***************************************************************************)
(* The bytecode RubyVM.compile_bytecode accepts: a list of [op, arg]       *)
(* pairs, each op the name of a method of OpCodeBuilder or one of the      *)
(* three branches.                                                         *)
(*                                                                         *)
(* Positions count from 0, as the list `blocks` of the compiler does;      *)
(* position Len(code) is the exit block.                                   *)
(***************************************************************************)
EXTENDS Integers, Sequences

\* Per opcode: the operands it reads, those it pops, the values it pushes.
\* newhash reads as many operands as its argument says.
Shape == [ nop                 |-> <<0, 0, 0>>,
           putnil              |-> <<0, 0, 1>>,
           putself             |-> <<0, 0, 1>>,
           putobject           |-> <<0, 0, 1>>,
           pop                 |-> <<1, 1, 0>>,
           dup                 |-> <<1, 0, 1>>,
           swap                |-> <<2, 2, 2>>,
           setlocal            |-> <<1, 1, 0>>,
           getlocal            |-> <<0, 0, 1>>,
           opt_plus            |-> <<2, 2, 1>>,
           opt_minus           |-> <<2, 2, 1>>,
           opt_mult            |-> <<2, 2, 1>>,
           opt_aref            |-> <<2, 2, 1>>,
           opt_aset            |-> <<3, 3, 1>>,
           opt_length          |-> <<1, 1, 1>>,
           opt_lt              |-> <<2, 2, 1>>,
           opt_gt              |-> <<2, 2, 1>>,
           opt_ge              |-> <<2, 2, 1>>,
           getinstancevariable |-> <<0, 0, 1>>,
           setinstancevariable |-> <<1, 0, 0>>,
           newarray            |-> <<0, 0, 1>>,
           newhash             |-> <<0, 0, 1>>,
           send                |-> <<0, 0, 1>>,
           jump                |-> <<0, 0, 0>>,
           branchif            |-> <<1, 1, 0>>,
           branchunless        |-> <<1, 1, 0>> ]

Ops   == DOMAIN Shape
Instr == [op : Ops, arg : Int]

reads(ins)  == IF ins.op = "newhash" THEN ins.arg ELSE Shape[ins.op][1]
pops(ins)   == Shape[ins.op][2]
pushes(ins) == Shape[ins.op][3]

\* blocks[arg], as Ruby indexes the list of Len(code) + 1 blocks: a negative
\* index counts from the end.
target(code, arg) == IF arg < 0 THEN Len(code) + 1 + arg ELSE arg

Branches == {"jump", "branchif", "branchunless"}

\* The positions control may reach from position i.
successors(code, i) ==
    LET ins == code[i + 1]
    IN  (IF ins.op \in Branches THEN {target(code, ins.arg)} ELSE {})
            \cup (IF ins.op = "jump" THEN {} ELSE {i + 1})
=============================================================================
