------------------------------- MODULE RubyVM -------------------------------
(***************************************************************************)
(* The machine code RubyVM.compile_bytecode produces, running: one         *)
(* activation of a compiled function vm_func(self, farg).                  *)
(*                                                                         *)
(* The activation owns two arrays of words in its machine frame, the VM    *)
(* stack and the local variables, and a pointer into the first; neither is *)
(* initialised and no access is checked.  A step is the code of one        *)
(* bytecode instruction, from its basic block to the branch that leaves    *)
(* it; newhash, whose code is a loop, takes a step per basic block.        *)
(*                                                                         *)
(* Undefined behaviour ends the activation: "overrun" when an access falls *)
(* outside the two arrays, "wild" when a word that is no array is used as  *)
(* one or an element past its length is read.  A slot read before it was   *)
(* written yields an arbitrary word.                                       *)
(***************************************************************************)
EXTENDS Certificate

CONSTANTS Programs,     \* the programs to run: [code, depth, assigned]
          Calls,        \* the calls to run them for: [self, farg, heap, ivars]
          Refs,         \* the words that can be references to heap objects
          Ivars,        \* names of instance variables
          MaxArrayLen,  \* ARY_MAX_SIZE of the interpreter
          Undef         \* content of a slot nobody has written

ASSUME RefsAssumption == Refs \subseteq { w \in Word : w > Qnil /\ ~isFixnum(w) }
ASSUME MaxArrayLenAssumption == MaxArrayLen \in 1 .. FixLimit - 1
ASSUME UndefAssumption == Undef \notin Word

\* What the compiler has put in the code: a VALUE, the name of a variable.
ASSUME ProgramsAssumption ==
    \A p \in Programs :
        /\ IsProgram(p)
        /\ \A i \in 1 .. Len(p.code) :
               /\ p.code[i].op = "putobject" => p.code[i].arg \in Word
               /\ p.code[i].op \in {"getinstancevariable", "setinstancevariable"}
                      => p.code[i].arg \in Ivars

Free     == [kind |-> "free", elems |-> <<>>]
Array(s) == [kind |-> "array", elems |-> s]
Hash(f)  == [kind |-> "hash", elems |-> f]
String   == [kind |-> "string", elems |-> <<>>]

IsObject(o) ==
    \/ o = Free \/ o = String
    \/ o = Array(o.elems) /\ o.elems \in Seq(Word) /\ Len(o.elems) <= MaxArrayLen
    \/ o = Hash(o.elems) /\ DOMAIN o.elems \subseteq Word
                        /\ o.elems \in [DOMAIN o.elems -> Word]

IsHeap(h) == h = [r \in Refs |-> h[r]] /\ \A r \in Refs : IsObject(h[r])

ASSUME CallsAssumption ==
    \A c \in Calls : /\ c.self \in Word /\ c.farg \in Word
                     /\ IsHeap(c.heap) /\ c.ivars \in [Ivars -> Word]

VARIABLES program,    \* the bytecode this code was compiled from
          self, farg, \* the two arguments of the function
          stack,      \* @@stack
          stack_ptr,  \* @@stack_ptr: the slot the next push writes
          locals,     \* @@locals
          pc, block,  \* the instruction, and the basic block inside it
          hash, idx,  \* registers of the newhash loop: the hash, the phi node
          heap,       \* the objects of the interpreter
          ivars,      \* the instance variables of self
          status, result

memory == <<stack, stack_ptr, locals>>
vars   == <<program, self, farg, memory, pc, block, hash, idx, heap, ivars, status, result>>

Slots      == 0 .. StackSize - 1
LocalSlots == 0 .. LocalsSize - 1
MaybeWord  == Word \cup {Undef}

code == program.code

-----------------------------------------------------------------------------
(* Builder: the operand stack.                                             *)

\* The slots that may be read in place of s: its content, or any word.
contents(s) == IF s = Undef THEN Word ELSE {s}

peek(n) == stack[stack_ptr - n]

\* Mutant of popPush: the pointer moves before the store.
popPush_storesLate(k, vals) ==
    /\ stack_ptr' = stack_ptr - k + Len(vals)
    /\ stack' = [ s \in Slots |->
                    IF s \in stack_ptr - k + 1 .. stack_ptr - k + Len(vals)
                    THEN vals[s - (stack_ptr - k)] ELSE stack[s] ]

\* k pops, then a push for each word of vals.
popPush(k, vals) ==
    /\ stack_ptr' = stack_ptr - k + Len(vals)
    /\ stack' = [ s \in Slots |->
                    IF s \in stack_ptr - k .. stack_ptr - k + Len(vals) - 1
                    THEN vals[s - (stack_ptr - k) + 1] ELSE stack[s] ]

push(w) == popPush(0, <<w>>)

\* Every operand the instruction reads, and every slot it writes, is inside
\* the array.
InBounds(ins) ==
    /\ stack_ptr >= reads(ins)
    /\ stack_ptr - pops(ins) + pushes(ins) <= StackSize

Halt(s) ==
    /\ status' = s
    /\ UNCHANGED <<program, self, farg, memory, pc, block, hash, idx, heap, ivars, result>>

-----------------------------------------------------------------------------
(* The frame of an instruction.                                            *)

Fetched(ops) ==
    /\ status = "running" /\ block = "op"
    /\ pc < Len(code) /\ code[pc + 1].op \in ops

Executing(op) == Fetched({op}) /\ InBounds(code[pc + 1])

operand == code[pc + 1].arg

registers == <<program, self, farg, hash, idx, block, status, result>>

\* Mutant of next: the branch goes to blocks[i].
next_stays == pc' = pc /\ UNCHANGED registers

\* The branch to blocks[i+1] at the end of a block.
next == pc' = pc + 1 /\ UNCHANGED registers

onlyStack == next /\ UNCHANGED <<locals, heap, ivars>>

\* The entry block: set_globals, then the push of the second argument.
enter ==
    /\ status = "entry"
    /\ push(farg)
    /\ status' = "running"
    /\ UNCHANGED <<program, self, farg, locals, pc, block, hash, idx, heap, ivars, result>>

Overrun ==
    /\ Fetched(Ops)
    /\ ~InBounds(code[pc + 1])
    /\ code[pc + 1].op # "newhash"
    /\ Halt("overrun")

-----------------------------------------------------------------------------
(* OpCodeBuilder: the stack and the locals.                                *)

nop       == Executing("nop") /\ onlyStack /\ UNCHANGED <<stack, stack_ptr>>
putnil    == Executing("putnil") /\ push(Qnil) /\ onlyStack
putself   == Executing("putself") /\ push(self) /\ onlyStack
putobject == Executing("putobject") /\ push(operand) /\ onlyStack
pop       == Executing("pop") /\ popPush(1, <<>>) /\ onlyStack
dup       == Executing("dup") /\ push(peek(1)) /\ onlyStack
swap      == Executing("swap") /\ popPush(2, <<peek(1), peek(2)>>) /\ onlyStack

\* Mutant of setlocal: the value is popped and not stored.
setlocal_drops ==
    /\ Executing("setlocal")
    /\ operand \in LocalSlots
    /\ popPush(1, <<>>)
    /\ next /\ UNCHANGED <<locals, heap, ivars>>

setlocal ==
    /\ Executing("setlocal")
    /\ operand \in LocalSlots
    /\ popPush(1, <<>>)
    /\ locals' = [locals EXCEPT ![operand] = peek(1)]
    /\ next /\ UNCHANGED <<heap, ivars>>

\* A local that was never set holds whatever the frame held before.
getlocal ==
    /\ Executing("getlocal")
    /\ operand \in LocalSlots
    /\ \E w \in contents(locals[operand]) :
           /\ locals' = [locals EXCEPT ![operand] = w]
           /\ push(w)
    /\ next /\ UNCHANGED <<heap, ivars>>

localOverrun ==
    /\ Fetched({"setlocal", "getlocal"})
    /\ operand \notin LocalSlots
    /\ Halt("overrun")

-----------------------------------------------------------------------------
(* OpCodeBuilder: arithmetic.  The first pop yields the last operand.      *)

\* Mutant of arithmetic: the second operand is peeked.
arithmetic_peeks(op, w) == Executing(op) /\ popPush(1, <<w>>) /\ onlyStack

arithmetic(op, w) == Executing(op) /\ popPush(2, <<w>>) /\ onlyStack

\* Mutants: the operands the wrong way round; a comparison off by one.
opt_minus_reversed == arithmetic("opt_minus", num2fix(sub(fix2int(peek(1)), fix2int(peek(2)))))
opt_lt_reversed    == arithmetic("opt_lt", boolWord(icmp_slt(fix2int(peek(1)), fix2int(peek(2)))))
opt_gt_orEqual     == arithmetic("opt_gt", boolWord(icmp_sge(fix2int(peek(2)), fix2int(peek(1)))))

opt_plus  == arithmetic("opt_plus",  num2fix(add(fix2int(peek(1)), fix2int(peek(2)))))
opt_minus == arithmetic("opt_minus", num2fix(sub(fix2int(peek(2)), fix2int(peek(1)))))
opt_mult  == arithmetic("opt_mult",  num2fix(mul(fix2int(peek(1)), fix2int(peek(2)))))
opt_lt    == arithmetic("opt_lt", boolWord(icmp_slt(fix2int(peek(2)), fix2int(peek(1)))))
opt_gt    == arithmetic("opt_gt", boolWord(icmp_sgt(fix2int(peek(2)), fix2int(peek(1)))))
opt_ge    == arithmetic("opt_ge", boolWord(icmp_sge(fix2int(peek(2)), fix2int(peek(1)))))

-----------------------------------------------------------------------------
(* OpCodeBuilder: objects of the interpreter.                              *)

IsArray(w) == w \in Refs /\ heap[w].kind = "array"
elems(w)   == heap[w].elems

\* aref loads from the array's buffer; it does not compare with the length.
opt_aref ==
    /\ Executing("opt_aref")
    /\ IsArray(peek(2)) /\ fix2int(peek(1)) < Len(elems(peek(2)))
    /\ popPush(2, <<elems(peek(2))[fix2int(peek(1)) + 1]>>)
    /\ onlyStack

opt_length ==
    /\ Executing("opt_length")
    /\ IsArray(peek(1))
    /\ popPush(1, <<num2fix(Len(elems(peek(1))))>>)
    /\ onlyStack

\* rb_ary_store: elements between the old length and i become nil.
rb_ary_store(s, i, w) ==
    [ n \in 1 .. (IF i < Len(s) THEN Len(s) ELSE i + 1) |->
        IF n = i + 1 THEN w ELSE IF n <= Len(s) THEN s[n] ELSE Qnil ]

opt_aset ==
    /\ Executing("opt_aset")
    /\ IsArray(peek(3)) /\ fix2int(peek(2)) < MaxArrayLen
    /\ popPush(3, <<peek(1)>>)
    /\ heap' = [heap EXCEPT ![peek(3)].elems =
                    rb_ary_store(@, fix2int(peek(2)), peek(1))]
    /\ next /\ UNCHANGED <<locals, ivars>>

\* rb_ary_store raises IndexError, out of the compiled code.
indexTooBig ==
    /\ Executing("opt_aset")
    /\ IsArray(peek(3)) /\ fix2int(peek(2)) >= MaxArrayLen
    /\ Halt("raised")

\* The word is dereferenced as an RArray, or its buffer read past the end.
Wild ==
    /\ \/ Executing("opt_aref") /\ ~(IsArray(peek(2)) /\ fix2int(peek(1)) < Len(elems(peek(2))))
       \/ Executing("opt_length") /\ ~IsArray(peek(1))
       \/ Executing("opt_aset") /\ ~IsArray(peek(3))
    /\ Halt("wild")

getinstancevariable ==
    /\ Executing("getinstancevariable")
    /\ push(ivars[operand])
    /\ onlyStack

\* Mutant of setinstancevariable: the operand is popped, as the interpreter does.
setinstancevariable_pops ==
    /\ Executing("setinstancevariable")
    /\ ivars' = [ivars EXCEPT ![operand] = peek(1)]
    /\ popPush(1, <<>>)
    /\ next /\ UNCHANGED <<locals, heap>>

\* The value stays on the stack.
setinstancevariable ==
    /\ Executing("setinstancevariable")
    /\ ivars' = [ivars EXCEPT ![operand] = peek(1)]
    /\ next /\ UNCHANGED <<stack, stack_ptr, locals, heap>>

\* The interpreter hands out a reference nobody holds.
allocate(obj, r) == heap[r].kind = "free" /\ heap' = [heap EXCEPT ![r] = obj]

newarray ==
    /\ Executing("newarray")
    /\ \E r \in Refs : allocate(Array(<<>>), r) /\ push(r)
    /\ next /\ UNCHANGED <<locals, ivars>>

\* Always nil.inspect, whatever is on the stack, and nothing is popped.
send ==
    /\ Executing("send")
    /\ \E r \in Refs : allocate(String, r) /\ push(r)
    /\ next /\ UNCHANGED <<locals, ivars>>

outOfMemory ==
    /\ \/ Executing("newarray")
       \/ Executing("send")
       \/ Fetched({"newhash"})
    /\ \A r \in Refs : heap[r].kind # "free"
    /\ Halt("raised")

-----------------------------------------------------------------------------
(* newhash: three basic blocks after the one of the instruction.           *)

\* rb_hash_new, then entry_block: is the operand count above 0?
newhash ==
    /\ Fetched({"newhash"})
    /\ \E r \in Refs : allocate(Hash(<<>>), r) /\ hash' = r
    /\ idx' = operand
    /\ block' = IF operand > 0 THEN "loop" ELSE "exit"
    /\ UNCHANGED <<program, self, farg, memory, pc, ivars, status, result>>

rb_hash_aset(f, k, v) == [ x \in DOMAIN f \cup {k} |-> IF x = k THEN v ELSE f[x] ]

\* Mutant of hashLoop: the phi node gets idx back instead of next_idx.
hashLoop_repeats ==
    /\ status = "running" /\ block = "loop"
    /\ stack_ptr - idx >= 0 /\ stack_ptr - idx + 1 < StackSize
    /\ \E v \in contents(peek(idx - 1)) :
           /\ heap' = [heap EXCEPT ![hash].elems = rb_hash_aset(@, peek(idx), v)]
           /\ stack' = [stack EXCEPT ![stack_ptr - idx + 1] = v]
    /\ UNCHANGED <<program, self, farg, stack_ptr, locals, pc, block, hash, idx, ivars, status, result>>

\* loop_block: topn(idx-1) is the key and topn(idx-2) the value, counted from
\* the top of the stack; with an odd idx the last value is above the top.
hashLoop ==
    /\ status = "running" /\ block = "loop"
    /\ stack_ptr - idx >= 0 /\ stack_ptr - idx + 1 < StackSize
    /\ \E v \in contents(peek(idx - 1)) :
           /\ heap' = [heap EXCEPT ![hash].elems = rb_hash_aset(@, peek(idx), v)]
           /\ stack' = [stack EXCEPT ![stack_ptr - idx + 1] = v]
    /\ idx' = idx - 2
    /\ block' = IF idx - 2 > 0 THEN "loop" ELSE "exit"
    /\ UNCHANGED <<program, self, farg, stack_ptr, locals, pc, hash, ivars, status, result>>

\* Mutant of hashExit: the insert point stays in the exit block.
hashExit_stays ==
    /\ status = "running" /\ block = "exit"
    /\ stack_ptr < StackSize
    /\ push(hash)
    /\ pc' = pc + 1
    /\ UNCHANGED <<program, self, farg, locals, block, hash, idx, heap, ivars, status, result>>

hashExit ==
    /\ status = "running" /\ block = "exit"
    /\ stack_ptr < StackSize
    /\ push(hash)
    /\ block' = "op"
    /\ pc' = pc + 1
    /\ UNCHANGED <<program, self, farg, locals, hash, idx, heap, ivars, status, result>>

hashOverrun ==
    /\ status = "running"
    /\ \/ block = "loop" /\ ~(stack_ptr - idx >= 0 /\ stack_ptr - idx + 1 < StackSize)
       \/ block = "exit" /\ stack_ptr >= StackSize
    /\ Halt("overrun")

-----------------------------------------------------------------------------
(* The branches of compile_bytecode.  Only the word 0, false, fails a test *)

goto(i) == pc' = i /\ UNCHANGED registers

jump ==
    /\ Executing("jump")
    /\ goto(target(code, operand))
    /\ UNCHANGED <<memory, heap, ivars>>

\* Mutant of branchif: the tested value stays on the stack.
branchif_peeks ==
    /\ Executing("branchif")
    /\ goto(IF peek(1) = 0 THEN pc + 1 ELSE target(code, operand))
    /\ UNCHANGED <<memory, heap, ivars>>

branchif ==
    /\ Executing("branchif")
    /\ popPush(1, <<>>)
    /\ goto(IF peek(1) = 0 THEN pc + 1 ELSE target(code, operand))
    /\ UNCHANGED <<locals, heap, ivars>>

branchunless ==
    /\ Executing("branchunless")
    /\ popPush(1, <<>>)
    /\ goto(IF peek(1) = 0 THEN target(code, operand) ELSE pc + 1)
    /\ UNCHANGED <<locals, heap, ivars>>

\* The exit block pops the result.
return ==
    /\ status = "running" /\ block = "op" /\ pc = Len(code)
    /\ stack_ptr > 0
    /\ popPush(1, <<>>)
    /\ result' = peek(1)
    /\ status' = "returned"
    /\ UNCHANGED <<program, self, farg, locals, pc, block, hash, idx, heap, ivars>>

returnOverrun ==
    /\ status = "running" /\ block = "op" /\ pc = Len(code)
    /\ stack_ptr = 0
    /\ Halt("overrun")

Stopped == status \in {"returned", "raised", "overrun", "wild"}

Finished == Stopped /\ UNCHANGED vars

-----------------------------------------------------------------------------
Init ==
    /\ program \in Programs
    /\ \E c \in Calls : /\ self = c.self /\ farg = c.farg
                        /\ heap = c.heap /\ ivars = c.ivars
    /\ stack = [s \in Slots |-> Undef]
    /\ locals = [s \in LocalSlots |-> Undef]
    /\ stack_ptr = 0
    /\ pc = 0 /\ block = "op"
    /\ hash = Qnil /\ idx = 0
    /\ status = "entry" /\ result = Qnil

StackStep  == nop \/ putnil \/ putself \/ putobject \/ pop \/ dup \/ swap
LocalStep  == setlocal \/ getlocal \/ localOverrun
ArithStep  == opt_plus \/ opt_minus \/ opt_mult \/ opt_lt \/ opt_gt \/ opt_ge
ObjectStep == \/ opt_aref \/ opt_length \/ opt_aset \/ indexTooBig \/ Wild
              \/ getinstancevariable \/ setinstancevariable
              \/ newarray \/ send \/ outOfMemory
HashStep   == newhash \/ hashLoop \/ hashExit \/ hashOverrun
BranchStep == jump \/ branchif \/ branchunless \/ return \/ returnOverrun

Step == \/ enter \/ Overrun \/ StackStep \/ LocalStep \/ ArithStep
        \/ ObjectStep \/ HashStep \/ BranchStep

Next == Step \/ Finished

\* The processor keeps executing the activation it is in.
Spec == Init /\ [][Next]_vars /\ WF_vars(Step)

-----------------------------------------------------------------------------
(* Properties.                                                             *)

\* Every variable stays in its range, whatever the program does: the stack
\* pointer inside the array, each object of the heap well-formed, and the
\* registers of newhash holding a hash while its loop runs.
TypeOK ==
    /\ IsProgram(program)
    /\ self \in Word /\ farg \in Word /\ result \in Word
    /\ stack \in [Slots -> MaybeWord] /\ stack_ptr \in 0 .. StackSize
    /\ locals \in [LocalSlots -> MaybeWord]
    /\ pc \in 0 .. Len(code) /\ block \in {"op", "loop", "exit"}
    /\ hash \in Refs \cup {Qnil} /\ idx \in Int
    /\ IsHeap(heap) /\ ivars \in [Ivars -> Word]
    /\ status \in {"entry", "running", "returned", "raised", "overrun", "wild"}
    /\ status = "entry" => pc = 0 /\ stack_ptr = 0 /\ block = "op"
    /\ block # "op" => /\ pc < Len(code) /\ code[pc + 1].op = "newhash"
                       /\ hash \in Refs /\ heap[hash].kind = "hash"
    /\ block = "loop" => idx > 0

\* pop, peek and topn never see a slot below the stack pointer that was not
\* written: the pushes leave no gap, the swaps and the newhash loop included.
LiveSlotsWritten == \A s \in 0 .. stack_ptr - 1 : stack[s] \in Word

\* Whatever way control reached a position, along however many loops, the
\* stack is as deep as the certificate says and its locals are assigned.
CertificateHolds ==
    Verified(program) /\ status = "running" =>
        /\ stack_ptr = program.depth[pc]
        /\ \A l \in program.assigned[pc] : locals[l] \in Word
        /\ block = "loop" => idx <= operand /\ idx % 2 = 0

\* A certified program never touches memory outside the two arrays that
\* Builder.set_globals allocates, although no access is checked.
NoOverrun == Verified(program) => status # "overrun"

\* A certified program never depends on what the frame held before: getlocal
\* loads an assigned local, and newhash loads no slot above the top.
NoUninitialisedRead ==
    [][ Verified(program) =>
          /\ Fetched({"getlocal"}) => UNCHANGED locals
          /\ block = "loop" => UNCHANGED stack ]_vars

\* The newhash loop counts down by two from any operand and comes to an end.
HashLoopEnds == block = "loop" ~> block # "loop" \/ Stopped

\* Code whose branches all go forward runs to an end: the blocks of newhash
\* are the only cycle the compiler adds.
ForwardCodeEnds == ForwardOnly(program) => <>Stopped

\* The compiled code does to Ruby values what the stack machine promises.
\* The hash under construction is not yet known to the program.
Promised == INSTANCE StackMachine WITH
    operands  <- [ i \in 1 .. stack_ptr |-> Denotes(stack[i - 1]) ],
    localvars <- [ l \in LocalSlots |->
                     IF locals[l] = Undef THEN [t |-> "absent", n |-> 0]
                                          ELSE Denotes(locals[l]) ],
    objects   <- [ r \in Refs |-> IF block # "op" /\ r = hash THEN Free ELSE View(heap[r]) ],
    ivars     <- [ x \in Ivars |-> Denotes(ivars[x]) ],
    status    <- IF status \in {"overrun", "wild"} THEN "undefined" ELSE status,
    result    <- Denotes(result)

ImplementsStackMachine == Promised!Spec
=============================================================================
