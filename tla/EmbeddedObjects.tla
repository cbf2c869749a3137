-------------------------- MODULE EmbeddedObjects --------------------------
(***************************************************************************)
(* Ruby objects whose addresses are constants of the compiled code.        *)
(*                                                                         *)
(* Object#immediate makes a number of an object's address, and neither the *)
(* LLVM::Value that wraps the number nor the code that pushes it is known  *)
(* to the garbage collector.  A literal of a bytecode stands there itself, *)
(* and is embedded when the bytecode is compiled, or as its immediate.     *)
(* The collector marks what the client refers to, what a bytecode refers   *)
(* to that the client or a running call_bytecode has, and, because it      *)
(* takes every word of the machine stack for an address, what code has     *)
(* pushed.  It moves nothing, may run at any time, and frees some or all   *)
(* of the rest; a freed address is used again.                             *)
(*                                                                         *)
(* Fixnums, nil, true, false and symbols are their own addresses and are   *)
(* never freed: nothing here can happen to them.                           *)
(***************************************************************************)
CONSTANTS Objects,      \* the objects the client makes, each once
          Addresses,    \* the slots of the heap
          Activations,  \* runs of methods that may be under way together
          None

ASSUME NoneAssumption == None \notin Objects /\ None \notin Addresses

VARIABLES heap,       \* address -> the object there, or None
          used,       \* the objects made so far
          held,       \* the objects the client refers to
          bytecodes,  \* the bytecodes the client refers to
          methods,    \* the functions compiled
          run         \* the runs

vars == <<heap, used, held, bytecodes, methods, run>>

\* What a one-literal bytecode keeps: the literal, or the number it had.
Bytecode(o, wrapped, a) == [literal |-> o, wrapped |-> wrapped, addr |-> a]
Method(o, a)            == [literal |-> o, addr |-> a]

Idle == [phase |-> "idle", by |-> "nobody", root |-> None, literal |-> None, addr |-> None, pushed |-> None]

\* By whom a run is started, and whether from a literal or its immediate.
Caller(b) == IF b.wrapped THEN "callImmediate" ELSE "call"

\* A run of m that keeps root alive, and has not reached its putobject.
Running(by, root, m) ==
    [ phase |-> "running", by |-> by, root |-> root, literal |-> m.literal, addr |-> m.addr,
      pushed |-> None ]

Alive(o)     == \E a \in Addresses : heap[a] = o
AddressOf(o) == CHOOSE a \in Addresses : heap[a] = o

-----------------------------------------------------------------------------
(* What the collector marks.                                               *)

\* A bytecode refers to a literal, but an immediate to nothing.
Kept(b) == IF b.wrapped THEN None ELSE b.literal

\* Mutant of Marked: the stack of the code is not looked at.
Marked_noStack ==
    held \cup { Kept(b) : b \in bytecodes } \cup { run[r].root : r \in Activations }

Marked ==
    held \cup { Kept(b) : b \in bytecodes } \cup { run[r].root : r \in Activations }
         \cup { heap[run[r].addr] : r \in { q \in Activations : run[q].phase = "pushed" } }

gc ==
    /\ \E freed \in SUBSET { a \in Addresses : heap[a] \notin Marked } :
           heap' = [ a \in Addresses |-> IF a \in freed THEN None ELSE heap[a] ]
    /\ UNCHANGED <<used, held, bytecodes, methods, run>>

-----------------------------------------------------------------------------
(* The client: between runs, and in whatever a method calls.               *)

allocate(o) ==
    /\ o \notin used
    /\ \E a \in Addresses : heap[a] = None /\ heap' = [heap EXCEPT ![a] = o]
    /\ used' = used \cup {o}
    /\ held' = held \cup {o}
    /\ UNCHANGED <<bytecodes, methods, run>>

drop(o) == held' = held \ {o} /\ UNCHANGED <<heap, used, bytecodes, methods, run>>

\* A bytecode with the literal o, or with its immediate.
write(o, wrapped) ==
    /\ bytecodes' = bytecodes \cup { Bytecode(o, wrapped, IF wrapped THEN AddressOf(o) ELSE None) }
    /\ UNCHANGED <<heap, used, held, methods, run>>

discard(b) == bytecodes' = bytecodes \ {b} /\ UNCHANGED <<heap, used, held, methods, run>>

-----------------------------------------------------------------------------
(* RubyVM.                                                                 *)

\* Mutant of putobject: a Value has no `llvm` of its own, and what is embedded
\* is where the Value is.
putobject_ofValue(b) ==
    Method(b.literal, IF b.wrapped THEN CHOOSE a \in Addresses : a # b.addr ELSE AddressOf(b.literal))

\* putobject: `oprnd.llvm` is immediate for an object and itself for a Value.
putobject(b) == Method(b.literal, IF b.wrapped THEN b.addr ELSE AddressOf(b.literal))

compile_bytecode(b) ==
    /\ methods' = methods \cup { putobject(b) }
    /\ UNCHANGED <<heap, used, held, bytecodes, run>>

\* Mutant of call_bytecode: the bytecode is let go of once it is compiled.
call_bytecode_letsGo(r, b) ==
    /\ run[r] = Idle
    /\ run' = [run EXCEPT ![r] = Running(Caller(b), None, putobject(b))]
    /\ methods' = methods \cup { putobject(b) }
    /\ UNCHANGED <<heap, used, held, bytecodes>>

\* The bytecode is an argument of call_bytecode until that returns.
call_bytecode(r, b) ==
    /\ run[r] = Idle
    /\ run' = [run EXCEPT ![r] = Running(Caller(b), Kept(b), putobject(b))]
    /\ methods' = methods \cup { putobject(b) }
    /\ UNCHANGED <<heap, used, held, bytecodes>>

method_send(r, m) ==
    /\ run[r] = Idle
    /\ run' = [run EXCEPT ![r] = Running("send", None, m)]
    /\ UNCHANGED <<heap, used, held, bytecodes, methods>>

\* The code pushes the number, whatever is there now.
push(r) ==
    /\ run[r].phase = "running"
    /\ run' = [run EXCEPT ![r] = [@ EXCEPT !.phase = "pushed", !.pushed = heap[run[r].addr]]]
    /\ UNCHANGED <<heap, used, held, bytecodes, methods>>

\* Mutant of return: nothing tells a number from an object.
return_any(r) ==
    /\ run[r].phase = "pushed"
    /\ held' = held \cup {heap[run[r].addr]}
    /\ run' = [run EXCEPT ![r] = Idle]
    /\ UNCHANGED <<heap, used, bytecodes, methods>>

\* The client gets the number that was pushed, and takes it for an object.
return(r) ==
    /\ run[r].phase = "pushed"
    /\ held' = held \cup ({heap[run[r].addr]} \ {None})
    /\ run' = [run EXCEPT ![r] = Idle]
    /\ UNCHANGED <<heap, used, bytecodes, methods>>

-----------------------------------------------------------------------------
Init ==
    /\ heap = [ a \in Addresses |-> None ]
    /\ used = {} /\ held = {} /\ bytecodes = {} /\ methods = {}
    /\ run = [ r \in Activations |-> Idle ]

Next ==
    \/ gc
    \/ \E o \in Objects : allocate(o)
    \/ \E o \in held : drop(o)
    \/ \E o \in held, wrapped \in BOOLEAN : write(o, wrapped)
    \/ \E b \in bytecodes : discard(b)
    \/ \E b \in bytecodes : compile_bytecode(b)
    \/ \E r \in Activations, b \in bytecodes : call_bytecode(r, b)
    \/ \E r \in Activations, m \in methods : method_send(r, m)
    \/ \E r \in Activations : push(r)
    \/ \E r \in Activations : return(r)

Spec == Init /\ [][Next]_vars

-----------------------------------------------------------------------------
(* Properties.                                                             *)

TypeOK ==
    /\ heap \in [Addresses -> Objects \cup {None}]
    /\ used \subseteq Objects
    /\ held \subseteq used
    /\ bytecodes \subseteq [literal : used, wrapped : BOOLEAN, addr : Addresses \cup {None}]
    /\ \A b \in bytecodes : b.wrapped => b.addr \in Addresses
    /\ methods \subseteq [literal : used, addr : Addresses]
    /\ run \in [Activations -> {Idle} \cup
                    [ phase : {"running", "pushed"}, by : {"call", "callImmediate", "send"}, root : used \cup {None},
                      literal : used, addr : Addresses, pushed : used \cup {None} ]]

\* What the code of a method pushes is the literal of its bytecode if anything
\* keeps that literal alive: no other object has come to its address.
ReachableIsPushed ==
    [][ \A r \in Activations : push(r) /\ run[r].literal \in Marked => run'[r].pushed = run[r].literal ]_vars

\* Whoever drops, collects and allocates what between the steps of a run, one
\* that call_bytecode started pushes the literal of its bytecode, if that is
\* there itself and not its immediate.
CallPushesLiteral ==
    \A r \in Activations :
        run[r].phase = "pushed" /\ run[r].by = "call" =>
            run[r].pushed = run[r].literal

\* What code has pushed stays where it is until the run returns.
PushedStays ==
    \A r \in Activations :
        run[r].phase = "pushed" /\ run[r].pushed # None => heap[run[r].addr] = run[r].pushed

\* What the tests of RubyVM expect, whose literals are immediates: a run that
\* call_bytecode started pushes the literal.
ImmediateIsPushed ==
    \A r \in Activations :
        run[r].phase = "pushed" /\ run[r].by # "send" => run[r].pushed = run[r].literal
=============================================================================
