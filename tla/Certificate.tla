----------------------------- MODULE Certificate -----------------------------
(***************************************************************************)
(* What can be known of a bytecode program before it runs: for each        *)
(* position the depth of the stack and the locals that have been assigned  *)
(* whenever control gets there.  Nothing in the repository checks it; it   *)
(* is the condition under which the emitted code, which checks nothing     *)
(* either, stays inside its two arrays.                                    *)
(***************************************************************************)
EXTENDS Bytecode, RubyWord

CONSTANTS StackSize,    \* slots of the VM stack: 100 in Builder.set_globals
          LocalsSize    \* slots for local variables: 100 as well

ASSUME SizeAssumption == StackSize \in Nat \ {0} /\ LocalsSize \in Nat \ {0}

IsProgram(p) ==
    /\ p.code \in Seq(Instr)
    /\ DOMAIN p.depth = 0 .. Len(p.code)
    /\ DOMAIN p.assigned = 0 .. Len(p.code)
    /\ \A i \in 1 .. Len(p.code) :
           p.code[i].op \in Branches => target(p.code, p.code[i].arg) \in 0 .. Len(p.code)

\* The stack certificate at position i.
DepthOK(p, i) ==
    LET ins == p.code[i + 1]
        d   == p.depth[i]
    IN  /\ d >= reads(ins)
        /\ d - pops(ins) + pushes(ins) <= StackSize
        /\ ins.op = "newhash" => ins.arg >= 0 /\ ins.arg % 2 = 0
        /\ \A j \in successors(p.code, i) : p.depth[j] = d - pops(ins) + pushes(ins)

\* The certificate of the local variables at position i.
LocalsOK(p, i) ==
    LET ins  == p.code[i + 1]
        sets == IF ins.op = "setlocal" THEN {ins.arg} ELSE {}
    IN  /\ ins.op = "setlocal" => ins.arg \in 0 .. LocalsSize - 1
        /\ ins.op = "getlocal" => ins.arg \in p.assigned[i]
        /\ \A j \in successors(p.code, i) : p.assigned[j] \subseteq p.assigned[i] \cup sets

Verified(p) ==
    /\ \A i \in 0 .. Len(p.code) : /\ p.depth[i] \in 0 .. StackSize
                                   /\ p.assigned[i] \subseteq 0 .. LocalsSize - 1
    /\ p.depth[0] = 1
    /\ p.assigned[0] = {}
    /\ p.depth[Len(p.code)] >= 1
    /\ \A i \in 0 .. Len(p.code) - 1 : DepthOK(p, i) /\ LocalsOK(p, i)

\* No branch goes back: such a program runs each instruction at most once.
ForwardOnly(p) ==
    \A i \in 0 .. Len(p.code) - 1 : \A j \in successors(p.code, i) : j > i
=============================================================================
