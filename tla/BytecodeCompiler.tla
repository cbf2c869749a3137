-------------------------- MODULE BytecodeCompiler --------------------------
(***************************************************************************)
(* RubyVM.start and RubyVM.compile_bytecode: the functions of the LLVM     *)
(* modules, built block by block from bytecode.                            *)
(*                                                                         *)
(* The compiler shares @func_n, the module and the class variables         *)
(* @@stack, @@stack_ptr and @@locals of Builder between compilations, and  *)
(* a compilation may end in an exception between any two instructions,     *)
(* leaving a function half built.  A step is one round of the loop of      *)
(* compile_bytecode.                                                       *)
(*                                                                         *)
(* A basic block is a sequence of instructions.  Straight-line code keeps  *)
(* only the function whose allocas it addresses.                           *)
(***************************************************************************)
EXTENDS Bytecode, FiniteSets

CONSTANTS Bytecodes,  \* the bytecodes to compile: sequences of [op, arg]
          NoArg,      \* the argument of a one-element opcode: nil
          MaxStarts,  \* bound on the calls of RubyVM.start
          MaxFuncs    \* bound on the functions compiled in all

ASSUME BytecodesAssumption ==
    \A c \in Bytecodes : c \in Seq([op : Ops \cup {"unknown"}, arg : Int \cup {NoArg}])

ASSUME NoArgAssumption == NoArg \notin Int

ASSUME BoundsAssumption == MaxStarts \in Nat /\ MaxFuncs \in Nat

VARIABLES module,    \* @module: the number of the start that made it; 0, none
          func_n,    \* @func_n
          frame,     \* the function that owns the allocas of @@stack, @@locals
          funcs,     \* function name -> its basic blocks, for every module
          returned,  \* functions handed to the caller -> [code, blocks]
          phase,     \* "idle", or "compiling"
          code, i,   \* the bytecode, and the index of the loop
          f, blocks  \* the function, and the list of blocks, entry left out

compilation == <<code, f, blocks>>
vars == <<module, func_n, frame, funcs, returned, phase, code, i, f, blocks>>

-----------------------------------------------------------------------------
(* IRBuilder: instructions, and where they go.                             *)

Code(fr)  == [op |-> "code", frame |-> fr]
Br(dests) == [op |-> "br", dests |-> dests]
Phi(from) == [op |-> "phi", from |-> from]
Ret       == [op |-> "ret"]

\* The body of a function with insts at the end of block b.
inserted(body, b, insts) == [body EXCEPT ![b] = @ \o insts]

\* @module.get_or_insert_function: a function of that name, if there is one.
get_or_insert_function(name) ==
    IF name \in DOMAIN funcs THEN funcs[name] ELSE <<>>

Body == funcs[f]

writes(body) == funcs' = [funcs EXCEPT ![f] = body]

-----------------------------------------------------------------------------
\* Mutant of start: a second start goes on with the module of the first.
start_reuses ==
    /\ phase = "idle" /\ module < MaxStarts
    /\ module' = 1
    /\ func_n' = 0
    /\ UNCHANGED <<frame, funcs, returned, phase, i, compilation>>

\* RubyVM.start may be called again at any time.
start ==
    /\ phase = "idle" /\ module < MaxStarts
    /\ module' = module + 1
    /\ func_n' = 0
    /\ UNCHANGED <<frame, funcs, returned, phase, i, compilation>>

\* Mutant of set_globals: the allocas are made once and kept.
set_globals_once(name) == frame' = IF frame[1] = 0 THEN name ELSE frame

\* Builder.set_globals: new allocas, in the entry block of the function.
set_globals(name) == frame' = name

\* Mutant of create_blocks: no exit block.
create_blocks_noExit(c) == [ j \in 1 .. Len(c) |-> <<>> ]

\* An empty block per opcode, and the exit block.
create_blocks(c) == [ j \in 1 .. Len(c) + 1 |-> <<>> ]

\* compile_bytecode up to the loop: the function, the entry block with the
\* allocas and the push of the argument, a block per opcode, the exit block.
begin ==
    /\ phase = "idle" /\ module > 0 /\ Cardinality(DOMAIN funcs) < MaxFuncs
    /\ \E c \in Bytecodes :
           LET name  == <<module, func_n>>
               old   == get_or_insert_function(name)
               entry == <<Code(name), Br(<<Len(old) + 2>>)>>
               new   == old \o <<entry>> \o create_blocks(c)
           IN  /\ code' = c
               /\ f' = name
               /\ blocks' = [ j \in 0 .. Len(c) |-> Len(old) + 2 + j ]
               /\ funcs' = [ g \in DOMAIN funcs \cup {name} |->
                               IF g = name THEN new ELSE funcs[g] ]
    /\ set_globals(<<module, func_n>>)
    /\ func_n' = func_n + 1
    /\ i' = 0
    /\ phase' = "compiling"
    /\ UNCHANGED <<module, returned>>

-----------------------------------------------------------------------------
(* A round of the loop.                                                    *)

arg == code[i + 1].arg
InRange == arg # NoArg /\ target(code, arg) \in 0 .. Len(code)

Compiling(ops) == phase = "compiling" /\ i < Len(code) /\ code[i + 1].op \in ops

nextRound == i' = i + 1 /\ UNCHANGED <<module, func_n, frame, returned, phase, compilation>>

\* Mutant of fails: the counter is put back when a compilation fails.
fails_recycles ==
    /\ phase' = "idle"
    /\ func_n' = func_n - 1
    /\ UNCHANGED <<module, frame, returned, i, compilation>>

\* An exception: the function stays in the module as far as it was built.
fails ==
    /\ phase' = "idle"
    /\ UNCHANGED <<module, func_n, frame, returned, i, compilation>>

jump ==
    /\ Compiling({"jump"}) /\ InRange
    /\ writes(inserted(Body, blocks[i], <<Br(<<blocks[target(code, arg)]>>)>>))
    /\ nextRound

branch(op, dests) ==
    /\ Compiling({op}) /\ InRange
    /\ writes(inserted(Body, blocks[i], <<Code(frame), Br(dests)>>))
    /\ nextRound

\* Mutant of branchif: the arms of branchunless.
branchif_swaps == branch("branchif", <<blocks[target(code, arg)], blocks[i + 1]>>)

\* The first arm is taken when the word popped is 0.
branchif     == branch("branchif", <<blocks[i + 1], blocks[target(code, arg)]>>)
branchunless == branch("branchunless", <<blocks[target(code, arg)], blocks[i + 1]>>)

\* blocks[arg] is nil, which br and cond_br refuse; the pop has been emitted.
badBranch ==
    /\ Compiling(Branches) /\ ~InRange
    /\ LET popped == IF code[i + 1].op = "jump" THEN <<>> ELSE <<Code(frame)>>
       IN  writes(inserted(Body, blocks[i], popped))
    /\ fails

\* Mutant of newhash: the insert point is left in the block of the opcode.
newhash_stays ==
    /\ Compiling({"newhash"}) /\ arg # NoArg
    /\ LET e     == Len(Body) + 1
           inner == << <<Br(<<e + 1, e + 2>>)>>,
                       <<Phi(<<e, e + 1>>), Code(frame), Br(<<e + 1, e + 2>>)>>,
                       <<Code(frame)>> >>
       IN  writes(inserted(Body, blocks[i], <<Code(frame), Br(<<e>>), Br(<<blocks[i + 1]>>)>>) \o inner)
    /\ nextRound

\* Three more blocks at the end of the function; the branch to blocks[i+1]
\* goes where newhash has left the insert point.
newhash ==
    /\ Compiling({"newhash"}) /\ arg # NoArg
    /\ LET e     == Len(Body) + 1
           inner == << <<Br(<<e + 1, e + 2>>)>>,
                       <<Phi(<<e, e + 1>>), Code(frame), Br(<<e + 1, e + 2>>)>>,
                       <<Code(frame), Br(<<blocks[i + 1]>>)>> >>
       IN  writes(inserted(Body, blocks[i], <<Code(frame), Br(<<e>>)>>) \o inner)
    /\ nextRound

\* nil.llvm takes no type: ArgumentError, after the call of rb_hash_new.
badCount ==
    /\ Compiling({"newhash"}) /\ arg = NoArg
    /\ writes(inserted(Body, blocks[i], <<Code(frame)>>))
    /\ fails

nop ==
    /\ Compiling({"nop"})
    /\ writes(inserted(Body, blocks[i], <<Br(<<blocks[i + 1]>>)>>))
    /\ nextRound

\* The opcodes that emit straight-line code.
straight ==
    /\ Compiling(Ops \ (Branches \cup {"newhash", "nop"}))
    /\ writes(inserted(Body, blocks[i], <<Code(frame), Br(<<blocks[i + 1]>>)>>))
    /\ nextRound

\* NoMethodError from __send__.
unknown ==
    /\ Compiling({"unknown"})
    /\ UNCHANGED funcs
    /\ fails

\* The loop is over: the exit block pops and returns.
finish ==
    /\ phase = "compiling" /\ i = Len(code)
    /\ writes(inserted(Body, blocks[i], <<Code(frame), Ret>>))
    /\ returned' = [ g \in DOMAIN returned \cup {f} |->
                       IF g = f THEN [code |-> code, blocks |-> blocks] ELSE returned[g] ]
    /\ phase' = "idle"
    /\ UNCHANGED <<module, func_n, frame, i, compilation>>

-----------------------------------------------------------------------------
Init ==
    /\ module = 0 /\ func_n = 0
    /\ frame = <<0, 0>> /\ f = <<0, 0>>
    /\ funcs = <<>> /\ returned = <<>>
    /\ phase = "idle"
    /\ code = <<>> /\ i = 0 /\ blocks = <<>>

Round == \/ jump \/ branchif \/ branchunless \/ badBranch
         \/ newhash \/ badCount \/ nop \/ straight \/ unknown

Next == start \/ begin \/ Round \/ finish

Spec == Init /\ [][Next]_vars

-----------------------------------------------------------------------------
(* Properties.                                                             *)

Insts(body, b) == { body[b][k] : k \in DOMAIN body[b] }
Dests(body, b) == UNION { { n.dests[k] : k \in DOMAIN n.dests } :
                            n \in { n \in Insts(body, b) : n.op = "br" } }
Preds(body, b) == { a \in DOMAIN body : b \in Dests(body, a) }

IsInst(n, body) ==
    \/ n = Ret
    \/ n.op = "code" /\ n.frame \in DOMAIN funcs
    \/ n.op = "br" /\ \A k \in DOMAIN n.dests : n.dests[k] \in DOMAIN body
    \/ n.op = "phi" /\ \A k \in DOMAIN n.from : n.from[k] \in DOMAIN body

\* The functions are lists of blocks of instructions, no branch leaves its
\* function, and blocks lists distinct blocks of the function being built.
TypeOK ==
    /\ module \in 0 .. MaxStarts /\ func_n \in Nat
    /\ phase \in {"idle", "compiling"} /\ i \in 0 .. Len(code)
    /\ \A g \in DOMAIN funcs : \A b \in DOMAIN funcs[g] :
           \A n \in Insts(funcs[g], b) : IsInst(n, funcs[g])
    /\ DOMAIN returned \subseteq DOMAIN funcs
    /\ phase = "compiling" =>
           /\ f \in DOMAIN funcs /\ frame \in DOMAIN funcs
           /\ DOMAIN blocks = 0 .. Len(code)
           /\ \A j, k \in DOMAIN blocks :
                  blocks[j] \in DOMAIN Body /\ (j # k => blocks[j] # blocks[k])

\* The function is what the LLVM verifier accepts: every block ends in its
\* one terminator, nothing branches to the entry block, a phi node comes
\* first and has an incoming value for each predecessor.
WellFormed(body) ==
    /\ \A b \in DOMAIN body :
           /\ body[b] # <<>>
           /\ \A k \in DOMAIN body[b] :
                  /\ body[b][k].op \in {"br", "ret"} <=> k = Len(body[b])
                  /\ body[b][k].op = "phi" =>
                         /\ k = 1
                         /\ Preds(body, b) = { body[b][k].from[m] : m \in DOMAIN body[b][k].from }
                         /\ Len(body[b][k].from) = Cardinality(Preds(body, b))
    /\ Preds(body, 1) = {}

\* The README says a malformed function aborts the program, even when only
\* verified.  Whatever failed before it, compile_bytecode returns well-formed
\* functions.
ReturnedWellFormed == \A g \in DOMAIN returned : WellFormed(funcs[g])

\* @@stack, @@stack_ptr and @@locals are class variables: after any history
\* of failed compilations and restarts, the code of a function still
\* addresses the allocas of that function and of no other.
OwnFrame ==
    \A g \in DOMAIN funcs : \A b \in DOMAIN funcs[g] :
        \A n \in Insts(funcs[g], b) : n.op = "code" => n.frame = g

\* The blocks of the opcodes that control reaches next from block b, through
\* the blocks newhash adds.
Reached(body, ends, b) ==
    LET reach[n \in 0 .. 3] ==
            IF n = 0 THEN Dests(body, b)
            ELSE reach[n - 1] \cup UNION { Dests(body, d) : d \in reach[n - 1] \ ends }
    IN  reach[3] \cap ends

\* The control flow of a returned function is that of its bytecode: from the
\* block of each opcode control reaches the blocks of the opcodes it may go
\* to, and the arm of a conditional branch taken on false is the next opcode
\* for branchif, the target for branchunless.
ControlFlowMatches ==
    \A g \in DOMAIN returned :
        LET c    == returned[g].code
            bs   == returned[g].blocks
            ends == { bs[j] : j \in DOMAIN bs }
            onFalse(j) == funcs[g][bs[j]][Len(funcs[g][bs[j]])].dests[1]
        IN  /\ Reached(funcs[g], ends, 1) = {bs[0]}
            /\ \A j \in 0 .. Len(c) - 1 :
                   /\ Reached(funcs[g], ends, bs[j]) = { bs[k] : k \in successors(c, j) }
                   /\ c[j + 1].op = "branchif" => onFalse(j) = bs[j + 1]
                   /\ c[j + 1].op = "branchunless" => onFalse(j) = bs[target(c, c[j + 1].arg)]
            /\ Dests(funcs[g], bs[Len(c)]) = {}

\* compile_bytecode never builds into a function that exists: the name a
\* failed compilation has used is not used again in its module.
FreshFunction ==
    [][phase = "idle" /\ phase' = "compiling" => f' \notin DOMAIN funcs]_vars

\* A function that has been returned, and may have been compiled to machine
\* code since, is never changed, by a later compilation or a restart.
ReturnedFrozen ==
    [][\A g \in DOMAIN returned : g \in DOMAIN funcs' /\ funcs'[g] = funcs[g]]_vars
=============================================================================
