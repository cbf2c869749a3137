------------------------------ MODULE MCRubyVM ------------------------------
(***************************************************************************)
(* RubyVM on every program of up to MaxLength instructions over a small    *)
(* alphabet: 4-bit words, a stack of three slots, one local variable.      *)
(***************************************************************************)
EXTENDS RubyVM

LOCAL INSTANCE SequencesExt
LOCAL INSTANCE TLC

CONSTANT MaxLength

\* The operands an opcode is tried with: each kind of Ruby value for
\* putobject, a raw integer included; branches to the first block, to the
\* exit block of a program of two and, with -1, to the last block.
Operands ==
    [ o \in Ops |->
        CASE o = "putobject" -> {Fixnum(1), Fixnum(-2), rawConstant(1)}
          [] o = "setlocal" -> {0, 1}
          [] o = "newhash" -> {0, 1, 2}
          [] o = "jump" -> {0, -1}
          [] o \in {"branchif", "branchunless"} -> {0, 2}
          [] OTHER -> {0} ]

Alphabet == UNION { { [op |-> o, arg |-> a] : a \in Operands[o] } : o \in Ops }

\* Opcodes whose code differs from another's in one constant or comparison.
Alike == {"nop", "putnil", "opt_minus", "opt_gt", "opt_ge", "getinstancevariable", "send"}

Codes ==
    { c \in UNION { [1 .. n -> Alphabet] : n \in 0 .. MaxLength } :
        /\ \A i \in DOMAIN c : c[i].op \in Branches => target(c, c[i].arg) \in 0 .. Len(c)
        /\ Len(c) > 2 => \A i \in DOMAIN c : c[i].op \notin Alike }

\* One pass down the code.  A position takes its depth from the last branch
\* or fall-through that reaches it from above, 1 if there is none; its locals
\* are those every such position has assigned.
Above(c, i) == { j \in 0 .. i - 1 : i \in successors(c, j) }

Downwards(c, first, After(_, _)) ==
    FoldLeft(LAMBDA f, i : f @@ (i :> After(f, i)), 0 :> first, [ i \in DOMAIN c |-> i ])

Depths(c) ==
    Downwards(c, 1, LAMBDA d, i :
        IF Above(c, i) = {} THEN 1
        ELSE LET j == CHOOSE k \in Above(c, i) : \A l \in Above(c, i) : k >= l
             IN  d[j] - pops(c[j + 1]) + pushes(c[j + 1]))

Assigned(c) ==
    Downwards(c, {}, LAMBDA a, i :
        { l \in LocalSlots :
            /\ Above(c, i) # {}
            /\ \A j \in Above(c, i) : l \in a[j] \/ c[j + 1] = [op |-> "setlocal", arg |-> l] })

Certify(c) == [code |-> c, depth |-> Depths(c), assigned |-> Assigned(c)]

MCPrograms == { Certify(c) : c \in Codes }

MCRefs  == {8, 10}
MCIvars == {0}

NoObjects == [r \in MCRefs |-> Free]
NoIvars   == [x \in MCIvars |-> Qnil]

MCCalls ==
    { [self |-> Qnil, farg |-> w, heap |-> NoObjects, ivars |-> NoIvars] :
        w \in {Qfalse, Qnil, Fixnum(-1)} }
    \cup { [self |-> 8, farg |-> 10, ivars |-> NoIvars,
            heap |-> [NoObjects EXCEPT ![8] = String, ![10] = Array(<<Fixnum(1)>>)]] }
=============================================================================
