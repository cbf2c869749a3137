---------------------------- MODULE RubyVMProofs ----------------------------
(***************************************************************************)
(* What holds of the compiled code for every word size, every size of the  *)
(* two arrays, every program and every call.                               *)
(***************************************************************************)
EXTENDS RubyVM, TLAPS

\* The inductive invariant of the typing theorems: what an instruction pushes
\* is a word because what it peeks was written.
Inv == TypeOK /\ LiveSlotsWritten /\ program \in Programs

-----------------------------------------------------------------------------
(* Words.                                                                  *)

\* The operations on words stay inside the word.
LEMMA WordOps ==
    \A x, y \in Int : add(x, y) \in Word /\ sub(x, y) \in Word /\ mul(x, y) \in Word
<1>1. WordMod \in Nat /\ WordMod > 0
  BY FixLimitAssumption DEF WordMod
<1>2. \A n \in Int : n % WordMod \in 0 .. WordMod - 1
  BY <1>1
<1>3. \A x, y \in Int : x * y \in Int
  OBVIOUS
<1> QED  BY <1>2, <1>3 DEF add, sub, mul, Word

LEMMA SmallWords == 0 \in Word /\ 2 \in Word /\ 4 \in Word /\ Word \subseteq Nat
  BY FixLimitAssumption DEF Word, WordMod

LEMMA Tagging == /\ \A w \in Word : fix2int(w) \in Nat
                 /\ \A n \in Int : num2fix(n) \in Word
<1>1. \A w \in Word : fix2int(w) \in Nat
  BY SmallWords DEF fix2int
<1>2. ASSUME NEW w \in Word PROVE xorFlag(w) \in Word
  <2>1. w \in Nat /\ w <= WordMod - 1 /\ WordMod % 2 = 0 /\ WordMod \in Nat
    BY FixLimitAssumption DEF Word, WordMod
  <2> QED  BY <2>1 DEF xorFlag, Word
<1>3. \A n \in Int : num2fix(n) \in Word
  BY <1>2, WordOps DEF num2fix
<1> QED  BY <1>1, <1>3

-----------------------------------------------------------------------------
(* The stack.                                                              *)

\* What is peeked below the stack pointer is a word.
LEMMA PeekWord ==
    ASSUME Inv, NEW n \in Int, n >= 1, n <= stack_ptr
    PROVE  peek(n) \in Word
<1>1. stack_ptr \in Nat /\ stack_ptr - n \in 0 .. stack_ptr - 1
  BY SizeAssumption DEF Inv, TypeOK
<1> QED  BY <1>1 DEF Inv, LiveSlotsWritten, peek

\* Pops and pushes that have their operands and their room keep the pointer
\* in the array and leave no gap below it.
LEMMA PopPush ==
    ASSUME Inv, NEW k \in Nat, NEW vals \in Seq(Word), popPush(k, vals),
           k <= stack_ptr, stack_ptr - k + Len(vals) <= StackSize
    PROVE  /\ stack' \in [Slots -> MaybeWord]
           /\ stack_ptr' \in 0 .. StackSize
           /\ LiveSlotsWritten'
<1>1. /\ stack_ptr \in 0 .. StackSize /\ StackSize \in Nat
      /\ stack \in [Slots -> MaybeWord]
  BY SizeAssumption DEF Inv, TypeOK
<1>2. Len(vals) \in Nat /\ \A i \in 1 .. Len(vals) : vals[i] \in Word
  OBVIOUS
<1>3. stack_ptr' \in 0 .. StackSize
  BY <1>1, <1>2 DEF popPush
<1> DEFINE base == stack_ptr - k
<1>4. base \in Nat /\ stack_ptr' = base + Len(vals)
  BY <1>1, <1>2 DEF popPush
<1>5. \A s \in Slots : s \in base .. base + Len(vals) - 1 => vals[s - base + 1] \in Word
  BY <1>1, <1>2, <1>4 DEF Slots
<1>6. stack' = [ s \in Slots |-> IF s \in base .. base + Len(vals) - 1
                                THEN vals[s - base + 1] ELSE stack[s] ]
  BY DEF popPush
<1>7. stack' \in [Slots -> MaybeWord]
  BY <1>1, <1>5, <1>6 DEF MaybeWord
<1>8. \A s \in 0 .. stack_ptr' - 1 : s \in Slots
  BY <1>1, <1>2, <1>4 DEF Slots
<1>9. \A s \in 0 .. stack_ptr' - 1 :
         s \notin base .. base + Len(vals) - 1 => s \in 0 .. stack_ptr - 1
  BY <1>1, <1>2, <1>4
<1>10. \A s \in 0 .. stack_ptr' - 1 : stack'[s] \in Word
  BY <1>5, <1>6, <1>8, <1>9 DEF Inv, LiveSlotsWritten
<1> QED  BY <1>3, <1>7, <1>10 DEF LiveSlotsWritten

\* The instruction control is at.
LEMMA FetchedInstr ==
    ASSUME Inv, NEW ops, Fetched(ops)
    PROVE  /\ pc \in 0 .. Len(code) - 1 /\ Len(code) \in Nat
           /\ code[pc + 1] \in Instr /\ code[pc + 1].op \in ops /\ operand \in Int
<1>1. code \in Seq(Instr) /\ pc \in 0 .. Len(code) /\ pc < Len(code)
  BY DEF Inv, TypeOK, IsProgram, code, Fetched
<1>2. pc + 1 \in 1 .. Len(code) /\ Len(code) \in Nat
  BY <1>1
<1>3. code[pc + 1] \in Instr
  BY <1>1, <1>2
<1> QED  BY <1>1, <1>2, <1>3 DEF Instr, operand, Fetched

LEMMA Shapes ==
    ASSUME Inv, NEW op \in Ops, Executing(op), op # "newhash"
    PROVE  /\ Shape[op][1] <= stack_ptr
           /\ stack_ptr - Shape[op][2] + Shape[op][3] <= StackSize
<1>1. code[pc + 1].op = op
  BY FetchedInstr DEF Executing
<1> QED  BY <1>1 DEF Executing, InBounds, reads, pops, pushes

\* A step that pops and pushes words and goes on to the next block.
LEMMA StackStepInv ==
    ASSUME Inv, NEW ops, Fetched(ops), NEW k \in Nat, NEW vals \in Seq(Word),
           popPush(k, vals), k <= stack_ptr, stack_ptr - k + Len(vals) <= StackSize,
           next, locals' \in [LocalSlots -> MaybeWord],
           IsHeap(heap'), ivars' \in [Ivars -> Word]
    PROVE  Inv'
<1>1. /\ stack' \in [Slots -> MaybeWord] /\ stack_ptr' \in 0 .. StackSize
      /\ LiveSlotsWritten'
  BY PopPush
<1>2. pc' \in 0 .. Len(code)' /\ UNCHANGED code
  BY FetchedInstr DEF next, registers, code
<1>3. UNCHANGED registers /\ block = "op" /\ status = "running"
  BY DEF next, Fetched
<1> QED  BY <1>1, <1>2, <1>3 DEF Inv, TypeOK, registers, IsHeap

\* The sequences the instructions push.
LEMMA Pushed ==
    /\ <<>> \in Seq(Word) /\ Len(<<>>) = 0
    /\ \A w \in Word : <<w>> \in Seq(Word) /\ Len(<<w>>) = 1
    /\ \A v, w \in Word : <<v, w>> \in Seq(Word) /\ Len(<<v, w>>) = 2
  OBVIOUS

\* An instruction that replaces its operands by one word, and does no more.
LEMMA YieldsWord ==
    ASSUME Inv, NEW op \in Ops, Executing(op), op # "newhash",
           NEW k \in Nat, NEW w \in Word,
           Shape[op][1] >= k, Shape[op][2] = k, Shape[op][3] = 1,
           popPush(k, <<w>>), next, locals' \in [LocalSlots -> MaybeWord],
           IsHeap(heap'), ivars' \in [Ivars -> Word]
    PROVE  Inv'
<1>1. Shape[op][1] <= stack_ptr /\ stack_ptr - k + 1 <= StackSize
  BY Shapes
<1>2. k <= stack_ptr
  <2>1. stack_ptr \in Nat /\ Shape[op][1] \in Nat
    BY SizeAssumption DEF Inv, TypeOK, Ops, Shape
  <2> QED  BY <1>1, <2>1
<1>3. <<w>> \in Seq(Word) /\ Len(<<w>>) = 1
  BY Pushed
<1>4. Fetched({op})
  BY DEF Executing
<1> QED  BY <1>1, <1>2, <1>3, <1>4, StackStepInv

LEMMA StackActions ==
    ASSUME Inv, StackStep PROVE Inv'
<1> USE DEF onlyStack
<1>0. /\ IsHeap(heap) /\ ivars \in [Ivars -> Word] /\ self \in Word
      /\ locals \in [LocalSlots -> MaybeWord] /\ stack_ptr \in Nat
  BY SizeAssumption DEF Inv, TypeOK
<1>1. CASE nop
  <2>1. Fetched({"nop"}) /\ next /\ UNCHANGED <<stack, stack_ptr, locals, heap, ivars>>
    BY <1>1 DEF nop, Executing
  <2>2. pc' \in 0 .. Len(code)' /\ UNCHANGED code
    BY <2>1, FetchedInstr DEF next, registers, code
  <2> QED  BY <2>1, <2>2 DEF Inv, TypeOK, LiveSlotsWritten, next, registers, IsHeap, Fetched
<1>2. CASE putnil
  <2>1. Executing("putnil") /\ popPush(0, <<Qnil>>)
    BY <1>2 DEF putnil, push
  <2>2. Qnil \in Word
    BY SmallWords DEF Qnil
  <2> QED  BY <1>0, <1>2, <2>1, <2>2, YieldsWord DEF putnil, Shape, Ops
<1>3. CASE putself
  <2>1. Executing("putself") /\ popPush(0, <<self>>)
    BY <1>3 DEF putself, push
  <2> QED  BY <1>0, <1>3, <2>1, YieldsWord DEF putself, Shape, Ops
<1>4. CASE putobject
  <2>1. Executing("putobject") /\ popPush(0, <<operand>>)
    BY <1>4 DEF putobject, push
  <2>2. operand \in Word
    BY <2>1, FetchedInstr, ProgramsAssumption DEF Executing, Inv, operand, code
  <2> QED  BY <1>0, <1>4, <2>1, <2>2, YieldsWord DEF putobject, Shape, Ops
<1>5. CASE pop
  <2>1. Executing("pop") /\ popPush(1, <<>>) /\ Fetched({"pop"})
    BY <1>5 DEF pop, Executing
  <2>2. 1 <= stack_ptr
    BY <2>1, Shapes DEF Shape, Ops
  <2>3. stack_ptr - 1 + Len(<<>>) <= StackSize
    BY SizeAssumption, Pushed DEF Inv, TypeOK
  <2> QED  BY <1>0, <1>5, <2>1, <2>2, <2>3, Pushed, StackStepInv DEF pop
<1>6. CASE dup
  <2>1. Executing("dup") /\ popPush(0, <<peek(1)>>)
    BY <1>6 DEF dup, push
  <2>2. 1 <= stack_ptr
    BY <2>1, Shapes DEF Shape, Ops
  <2>3. peek(1) \in Word
    BY <2>2, PeekWord
  <2> QED  BY <1>0, <1>6, <2>1, <2>3, YieldsWord DEF dup, Shape, Ops
<1>7. CASE swap
  <2>1. Executing("swap") /\ popPush(2, <<peek(1), peek(2)>>) /\ Fetched({"swap"})
    BY <1>7 DEF swap, Executing
  <2>2. 2 <= stack_ptr
    BY <2>1, Shapes DEF Shape, Ops
  <2>3. peek(1) \in Word /\ peek(2) \in Word
    BY <1>0, <2>2, PeekWord
  <2>4. stack_ptr - 2 + Len(<<peek(1), peek(2)>>) <= StackSize
    BY <1>0, <2>3, Pushed, SizeAssumption DEF Inv, TypeOK
  <2> QED  BY <1>0, <1>7, <2>1, <2>2, <2>3, <2>4, Pushed, StackStepInv DEF swap
<1> QED  BY <1>1, <1>2, <1>3, <1>4, <1>5, <1>6, <1>7 DEF StackStep

\* Where the activation ends, only its status changes.
LEMMA HaltInv ==
    ASSUME Inv, status # "entry", NEW s \in {"raised", "overrun", "wild"}, Halt(s)
    PROVE  Inv'
  BY DEF Inv, TypeOK, LiveSlotsWritten, Halt, memory, IsHeap, code

LEMMA LocalActions ==
    ASSUME Inv, LocalStep PROVE Inv'
<1>0. /\ IsHeap(heap) /\ ivars \in [Ivars -> Word]
      /\ locals \in [LocalSlots -> MaybeWord] /\ stack_ptr \in Nat
  BY SizeAssumption DEF Inv, TypeOK
<1>1. CASE setlocal
  <2>1. Executing("setlocal") /\ popPush(1, <<>>) /\ Fetched({"setlocal"})
    BY <1>1 DEF setlocal, Executing
  <2>2. 1 <= stack_ptr
    BY <2>1, Shapes DEF Shape, Ops
  <2>3. peek(1) \in Word
    BY <2>2, PeekWord
  <2>4. locals' \in [LocalSlots -> MaybeWord]
    BY <1>0, <1>1, <2>3 DEF setlocal, MaybeWord
  <2>5. stack_ptr - 1 + Len(<<>>) <= StackSize
    BY SizeAssumption, Pushed DEF Inv, TypeOK
  <2> QED  BY <1>0, <1>1, <2>1, <2>2, <2>4, <2>5, Pushed, StackStepInv DEF setlocal
<1>2. CASE getlocal
  <2>1. PICK w \in contents(locals[operand]) :
            locals' = [locals EXCEPT ![operand] = w] /\ push(w)
    BY <1>2 DEF getlocal
  <2>2. w \in Word
    BY <1>0, <1>2, <2>1 DEF getlocal, contents, MaybeWord
  <2>3. Executing("getlocal") /\ popPush(0, <<w>>)
    BY <1>2, <2>1 DEF getlocal, push
  <2>4. locals' \in [LocalSlots -> MaybeWord]
    BY <1>0, <2>1, <2>2 DEF MaybeWord
  <2> QED  BY <1>0, <1>2, <2>2, <2>3, <2>4, YieldsWord DEF getlocal, Shape, Ops
<1>3. CASE localOverrun
  BY <1>3, HaltInv DEF localOverrun, Fetched
<1> QED  BY <1>1, <1>2, <1>3 DEF LocalStep

\* The two operands of a binary operation.
LEMMA TwoOperands ==
    ASSUME Inv, NEW op \in Ops, Executing(op), op # "newhash", Shape[op][1] = 2
    PROVE  /\ peek(1) \in Word /\ peek(2) \in Word
           /\ fix2int(peek(1)) \in Int /\ fix2int(peek(2)) \in Int
<1>1. 2 <= stack_ptr /\ stack_ptr \in Nat
  BY Shapes, SizeAssumption DEF Inv, TypeOK
<1>2. peek(1) \in Word /\ peek(2) \in Word
  BY <1>1, PeekWord
<1> QED  BY <1>2, Tagging

LEMMA ArithActions ==
    ASSUME Inv, ArithStep PROVE Inv'
<1> USE DEF arithmetic
<1>0. /\ IsHeap(heap) /\ ivars \in [Ivars -> Word]
      /\ locals \in [LocalSlots -> MaybeWord]
  BY DEF Inv, TypeOK
<1>1. ASSUME NEW op \in {"opt_plus", "opt_minus", "opt_mult", "opt_lt", "opt_gt", "opt_ge"},
             NEW w \in Word, arithmetic(op, w)
      PROVE  Inv'
  <2>1. Executing(op) /\ popPush(2, <<w>>) /\ onlyStack
    BY <1>1
  <2>2. op \in Ops /\ op # "newhash" /\ Shape[op] = <<2, 2, 1>>
    BY DEF Ops, Shape
  <2> QED  BY <1>0, <2>1, <2>2, YieldsWord DEF onlyStack
<1> DEFINE x == fix2int(peek(1))
           y == fix2int(peek(2))
<1>2. ASSUME NEW op \in {"opt_plus", "opt_minus", "opt_mult", "opt_lt", "opt_gt", "opt_ge"},
             Executing(op)
      PROVE  x \in Int /\ y \in Int
  <2>1. op \in Ops /\ op # "newhash" /\ Shape[op][1] = 2
    BY DEF Ops, Shape
  <2> QED  BY <1>2, <2>1, TwoOperands
<1>3. \A n \in Word : n \in Int
  BY SmallWords
<1>4. CASE opt_plus
  <2>1. num2fix(add(x, y)) \in Word
    BY <1>2, <1>3, <1>4, WordOps, Tagging DEF opt_plus
  <2> QED  BY <1>1, <1>4, <2>1 DEF opt_plus
<1>5. CASE opt_minus
  <2>1. num2fix(sub(y, x)) \in Word
    BY <1>2, <1>3, <1>5, WordOps, Tagging DEF opt_minus
  <2> QED  BY <1>1, <1>5, <2>1 DEF opt_minus
<1>6. CASE opt_mult
  <2>1. num2fix(mul(x, y)) \in Word
    BY <1>2, <1>3, <1>6, WordOps, Tagging DEF opt_mult
  <2> QED  BY <1>1, <1>6, <2>1 DEF opt_mult
<1>7. CASE opt_lt
  <2>1. boolWord(icmp_slt(y, x)) \in Word
    <3>1. (IF icmp_slt(y, x) THEN 1 ELSE 0) \in Int
      OBVIOUS
    <3> QED  BY <3>1, WordOps DEF boolWord
  <2> QED  BY <1>1, <1>7, <2>1 DEF opt_lt
<1>8. CASE opt_gt
  <2>1. boolWord(icmp_sgt(y, x)) \in Word
    <3>1. (IF icmp_sgt(y, x) THEN 1 ELSE 0) \in Int
      OBVIOUS
    <3> QED  BY <3>1, WordOps DEF boolWord
  <2> QED  BY <1>1, <1>8, <2>1 DEF opt_gt
<1>9. CASE opt_ge
  <2>1. boolWord(icmp_sge(y, x)) \in Word
    <3>1. (IF icmp_sge(y, x) THEN 1 ELSE 0) \in Int
      OBVIOUS
    <3> QED  BY <3>1, WordOps DEF boolWord
  <2> QED  BY <1>1, <1>9, <2>1 DEF opt_ge
<1> QED  BY <1>4, <1>5, <1>6, <1>7, <1>8, <1>9 DEF ArithStep

-----------------------------------------------------------------------------
(* The heap.                                                               *)

LEMMA HeapUpdate ==
    ASSUME NEW h, IsHeap(h), NEW r \in Refs, NEW o, IsObject(o)
    PROVE  IsHeap([h EXCEPT ![r] = o])
  BY DEF IsHeap

\* Objects of different kinds are different.
LEMMA Kinds ==
    ASSUME NEW o, IsObject(o)
    PROVE  /\ o.kind = "array" => /\ o = Array(o.elems) /\ o.elems \in Seq(Word)
                                  /\ Len(o.elems) <= MaxArrayLen
           /\ o.kind = "hash" => /\ o = Hash(o.elems) /\ DOMAIN o.elems \subseteq Word
                                 /\ o.elems \in [DOMAIN o.elems -> Word]
  BY DEF IsObject, Free, String, Array, Hash

LEMMA ArrayElems ==
    ASSUME Inv, NEW w \in Word, IsArray(w)
    PROVE  /\ elems(w) \in Seq(Word) /\ Len(elems(w)) <= MaxArrayLen
           /\ w \in Refs /\ heap[w] = Array(elems(w))
<1>1. w \in Refs /\ heap[w].kind = "array" /\ IsObject(heap[w])
  BY DEF Inv, TypeOK, IsHeap, IsArray
<1> QED  BY <1>1, Kinds DEF elems

\* rb_ary_store of a word within the limit leaves an array of words.
LEMMA StoreElems ==
    ASSUME NEW s \in Seq(Word), Len(s) <= MaxArrayLen,
           NEW i \in Nat, i < MaxArrayLen, NEW w \in Word
    PROVE  /\ rb_ary_store(s, i, w) \in Seq(Word)
           /\ Len(rb_ary_store(s, i, w)) <= MaxArrayLen
<1> DEFINE m == IF i < Len(s) THEN Len(s) ELSE i + 1
           e(n) == IF n = i + 1 THEN w ELSE IF n <= Len(s) THEN s[n] ELSE Qnil
<1>1. m \in Nat /\ m <= MaxArrayLen
  BY MaxArrayLenAssumption, FixLimitAssumption
<1>2. \A n \in 1 .. m : e(n) \in Word
  <2>1. \A n \in 1 .. m : n <= Len(s) => s[n] \in Word
    BY <1>1
  <2> QED  BY <2>1, SmallWords DEF Qnil
<1> HIDE DEF m, e
<1>3. [n \in 1 .. m |-> e(n)] \in Seq(Word) /\ Len([n \in 1 .. m |-> e(n)]) = m
  BY <1>1, <1>2
<1>4. rb_ary_store(s, i, w) = [n \in 1 .. m |-> e(n)]
  BY DEF rb_ary_store, m, e
<1> QED  BY <1>1, <1>3, <1>4

LEMMA RefsAreWords == Refs \subseteq Word /\ Qnil \in Word /\ IsObject(Array(<<>>))
                      /\ IsObject(String) /\ IsObject(Hash(<<>>))
<1>1. Refs \subseteq Word /\ Qnil \in Word
  BY RefsAssumption, SmallWords DEF Qnil
<1>2. IsObject(Array(<<>>)) /\ IsObject(String)
  BY MaxArrayLenAssumption, FixLimitAssumption, Pushed DEF IsObject, Array, String
<1>3. IsObject(Hash(<<>>))
  BY DEF IsObject, Hash
<1> QED  BY <1>1, <1>2, <1>3

LEMMA ObjectActions ==
    ASSUME Inv, ObjectStep PROVE Inv'
<1>0. /\ IsHeap(heap) /\ ivars \in [Ivars -> Word] /\ stack_ptr \in Nat
      /\ locals \in [LocalSlots -> MaybeWord]
  BY SizeAssumption DEF Inv, TypeOK
<1>1. CASE opt_aref
  <2>1. Executing("opt_aref") /\ onlyStack
    BY <1>1 DEF opt_aref
  <2>2. peek(1) \in Word /\ peek(2) \in Word
    BY <2>1, TwoOperands DEF Shape, Ops
  <2> DEFINE i == fix2int(peek(1))
             w == elems(peek(2))[i + 1]
  <2>3. w \in Word
    <3>1. elems(peek(2)) \in Seq(Word) /\ i \in Nat /\ i < Len(elems(peek(2)))
      BY <1>1, <2>2, ArrayElems, Tagging DEF opt_aref
    <3> QED  BY <3>1
  <2>4. popPush(2, <<w>>)
    BY <1>1 DEF opt_aref
  <2> HIDE DEF w
  <2> QED  BY <1>0, <2>1, <2>3, <2>4, YieldsWord DEF onlyStack, Shape, Ops
<1>2. CASE opt_length
  <2>1. Executing("opt_length") /\ onlyStack
    BY <1>2 DEF opt_length
  <2>2. peek(1) \in Word
    BY <1>0, <2>1, Shapes, PeekWord DEF Shape, Ops
  <2>3. num2fix(Len(elems(peek(1)))) \in Word
    BY <1>2, <2>2, ArrayElems, Tagging DEF opt_length
  <2>4. popPush(1, <<num2fix(Len(elems(peek(1))))>>)
    BY <1>2 DEF opt_length
  <2> QED  BY <1>0, <2>1, <2>3, <2>4, YieldsWord DEF onlyStack, Shape, Ops
<1>3. CASE opt_aset
  <2>1. Executing("opt_aset")
    BY <1>3 DEF opt_aset
  <2>2. 3 <= stack_ptr
    BY <2>1, Shapes DEF Shape, Ops
  <2>3. peek(1) \in Word /\ peek(2) \in Word /\ peek(3) \in Word
    BY <1>0, <2>2, PeekWord
  <2> DEFINE s == rb_ary_store(elems(peek(3)), fix2int(peek(2)), peek(1))
  <2>4. IsObject(Array(s)) /\ peek(3) \in Refs /\ heap[peek(3)] = Array(elems(peek(3)))
    <3>1. s \in Seq(Word) /\ Len(s) <= MaxArrayLen
      BY <1>3, <2>3, ArrayElems, StoreElems, Tagging DEF opt_aset
    <3> QED  BY <1>3, <2>3, <3>1, ArrayElems DEF opt_aset, IsObject, Array
  <2>5. heap' = [heap EXCEPT ![peek(3)].elems = rb_ary_store(@, fix2int(peek(2)), peek(1))]
    BY <1>3 DEF opt_aset
  <2>6. heap' = [heap EXCEPT ![peek(3)] = Array(s)]
    <3>1. [heap[peek(3)] EXCEPT !.elems = s] = Array(s)
      BY <2>4 DEF Array
    <3> QED  BY <2>5, <3>1 DEF elems
  <2>7. IsHeap(heap')
    BY <1>0, <2>4, <2>6, HeapUpdate
  <2>8. popPush(3, <<peek(1)>>) /\ next /\ UNCHANGED <<locals, ivars>>
    BY <1>3 DEF opt_aset
  <2> QED  BY <1>0, <2>1, <2>3, <2>7, <2>8, YieldsWord DEF Shape, Ops
<1>4. CASE indexTooBig
  BY <1>4, HaltInv DEF indexTooBig, Executing, Fetched
<1>5. CASE Wild
  BY <1>5, HaltInv DEF Wild, Executing, Fetched
<1>6. CASE getinstancevariable
  <2>1. Executing("getinstancevariable") /\ onlyStack /\ popPush(0, <<ivars[operand]>>)
    BY <1>6 DEF getinstancevariable, push
  <2>2. operand \in Ivars
    BY <2>1, FetchedInstr, ProgramsAssumption DEF Executing, Inv, operand, code
  <2> QED  BY <1>0, <2>1, <2>2, YieldsWord DEF onlyStack, Shape, Ops
<1>7. CASE setinstancevariable
  <2>1. Executing("setinstancevariable") /\ Fetched({"setinstancevariable"})
    BY <1>7 DEF setinstancevariable, Executing
  <2>2. peek(1) \in Word
    BY <1>0, <2>1, Shapes, PeekWord DEF Shape, Ops
  <2>3. ivars' \in [Ivars -> Word]
    BY <1>0, <1>7, <2>2 DEF setinstancevariable
  <2>4. pc' \in 0 .. Len(code)' /\ UNCHANGED code
    BY <1>7, <2>1, FetchedInstr DEF setinstancevariable, next, registers, code
  <2> QED  BY <1>7, <2>1, <2>3, <2>4
           DEF setinstancevariable, Inv, TypeOK, LiveSlotsWritten, next, registers, IsHeap, Fetched
<1>8. ASSUME NEW op \in {"newarray", "send"}, Executing(op), next, UNCHANGED <<locals, ivars>>,
             NEW o, IsObject(o), NEW r \in Refs, allocate(o, r), push(r)
      PROVE  Inv'
  <2>1. IsHeap(heap')
    BY <1>0, <1>8, HeapUpdate DEF allocate
  <2>2. popPush(0, <<r>>) /\ r \in Word
    BY <1>8, RefsAreWords DEF push
  <2>3. op \in Ops /\ op # "newhash" /\ Shape[op] = <<0, 0, 1>>
    BY DEF Ops, Shape
  <2> QED  BY <1>0, <1>8, <2>1, <2>2, <2>3, YieldsWord
<1>9. CASE newarray
  BY <1>8, <1>9, RefsAreWords DEF newarray
<1>10. CASE send
  BY <1>8, <1>10, RefsAreWords DEF send
<1>11. CASE outOfMemory
  BY <1>11, HaltInv DEF outOfMemory, Executing, Fetched
<1> QED  BY <1>1, <1>2, <1>3, <1>4, <1>5, <1>6, <1>7, <1>9, <1>10, <1>11 DEF ObjectStep

\* The block the newhash loop is left in, and the operands it reads.
LEMMA InHash ==
    ASSUME Inv, status = "running", block # "op"
    PROVE  /\ pc \in 0 .. Len(code) - 1 /\ code[pc + 1] \in Instr
           /\ code[pc + 1].op = "newhash" /\ hash \in Refs /\ hash \in Word
           /\ heap[hash].kind = "hash" /\ idx \in Int /\ stack_ptr \in Nat
           /\ IsHeap(heap)
<1>1. code \in Seq(Instr) /\ pc \in 0 .. Len(code) /\ pc < Len(code)
  BY DEF Inv, TypeOK, IsProgram, code
<1>2. pc \in 0 .. Len(code) - 1 /\ code[pc + 1] \in Instr
  BY <1>1
<1> QED  BY <1>2, RefsAreWords, SizeAssumption DEF Inv, TypeOK

\* One round of the loop: what it stores, and that it stores words.
LEMMA HashRound ==
    ASSUME Inv, hashLoop
    PROVE  /\ IsHeap(heap') /\ heap'[hash].kind = "hash"
           /\ stack' \in [Slots -> MaybeWord] /\ LiveSlotsWritten'
<1>0. status = "running" /\ block = "loop"
  BY DEF hashLoop
<1>1. /\ hash \in Refs /\ heap[hash].kind = "hash" /\ idx \in Int /\ idx > 0
      /\ stack_ptr \in Nat /\ IsHeap(heap) /\ stack \in [Slots -> MaybeWord]
      /\ StackSize \in Nat
  BY <1>0, InHash, SizeAssumption DEF Inv, TypeOK
<1>2. PICK v \in contents(peek(idx - 1)) :
          /\ heap' = [heap EXCEPT ![hash].elems = rb_hash_aset(@, peek(idx), v)]
          /\ stack' = [stack EXCEPT ![stack_ptr - idx + 1] = v]
  BY DEF hashLoop
<1>3. stack_ptr - idx >= 0 /\ stack_ptr - idx + 1 < StackSize /\ UNCHANGED stack_ptr
  BY DEF hashLoop
<1>4. peek(idx) \in Word
  BY <1>1, <1>3, PeekWord
<1>5. v \in Word
  <2>1. stack_ptr - (idx - 1) \in Slots
    BY <1>1, <1>3 DEF Slots
  <2>2. peek(idx - 1) \in MaybeWord
    BY <1>1, <2>1 DEF peek
  <2> QED  BY <1>2, <2>2 DEF contents, MaybeWord
<1>6. stack' \in [Slots -> MaybeWord]
  BY <1>1, <1>2, <1>5 DEF MaybeWord
<1>7. LiveSlotsWritten'
  <2>1. \A s \in 0 .. stack_ptr - 1 : s \in Slots
    BY <1>1 DEF Slots, Inv, TypeOK
  <2>2. \A s \in 0 .. stack_ptr - 1 : stack'[s] \in Word
    BY <1>1, <1>2, <1>5, <2>1 DEF Inv, LiveSlotsWritten
  <2> QED  BY <1>3, <2>2 DEF LiveSlotsWritten
<1> DEFINE f == heap[hash].elems
           g == rb_hash_aset(f, peek(idx), v)
<1>8. heap[hash] = Hash(f) /\ DOMAIN f \subseteq Word /\ f \in [DOMAIN f -> Word]
  BY <1>1, Kinds DEF IsHeap
<1>9. DOMAIN g = DOMAIN f \cup {peek(idx)} /\ g \in [DOMAIN g -> Word]
  BY <1>4, <1>5, <1>8 DEF rb_hash_aset
<1> HIDE DEF g
<1>10. IsObject(Hash(g)) /\ Hash(g).kind = "hash"
  BY <1>4, <1>8, <1>9 DEF IsObject, Hash
<1>11. heap' = [heap EXCEPT ![hash] = Hash(g)]
  <2>1. [heap[hash] EXCEPT !.elems = g] = Hash(g)
    BY <1>8 DEF Hash
  <2> QED  BY <1>2, <2>1 DEF g
<1>12. IsHeap(heap') /\ heap'[hash].kind = "hash"
  BY <1>1, <1>10, <1>11, HeapUpdate DEF IsHeap
<1> QED  BY <1>6, <1>7, <1>12

LEMMA HashActions ==
    ASSUME Inv, HashStep PROVE Inv'
<1>1. CASE newhash
  <2>1. Fetched({"newhash"}) /\ status = "running"
    BY <1>1 DEF newhash, Fetched
  <2>2. PICK r \in Refs : allocate(Hash(<<>>), r) /\ hash' = r
    BY <1>1 DEF newhash
  <2>3. IsHeap(heap') /\ heap'[r].kind = "hash"
    BY <2>2, RefsAreWords, HeapUpdate DEF allocate, Inv, TypeOK, IsHeap, Hash
  <2>4. /\ pc < Len(code) /\ code[pc + 1].op = "newhash" /\ operand \in Int
    BY <2>1, FetchedInstr
  <2>5. /\ idx' = operand /\ block' = IF operand > 0 THEN "loop" ELSE "exit"
        /\ UNCHANGED <<program, self, farg, stack, stack_ptr, locals, pc, ivars, status, result>>
    BY <1>1 DEF newhash, memory
  <2>6. UNCHANGED code
    BY <2>5 DEF code
  <2> QED  BY <2>1, <2>2, <2>3, <2>4, <2>5, <2>6 DEF Inv, TypeOK, LiveSlotsWritten
<1>2. CASE hashLoop
  <2>1. /\ status = "running" /\ block = "loop"
        /\ idx' = idx - 2 /\ block' = IF idx - 2 > 0 THEN "loop" ELSE "exit"
        /\ UNCHANGED <<program, self, farg, stack_ptr, locals, pc, hash, ivars, status, result>>
    BY <1>2 DEF hashLoop
  <2>2. idx \in Int /\ UNCHANGED code
    BY <2>1 DEF code, Inv, TypeOK
  <2> QED  BY <1>2, <2>1, <2>2, HashRound DEF Inv, TypeOK
<1>3. CASE hashExit
  <2>1. /\ status = "running" /\ block = "exit" /\ stack_ptr < StackSize
        /\ popPush(0, <<hash>>) /\ block' = "op" /\ pc' = pc + 1
        /\ UNCHANGED <<program, self, farg, locals, hash, idx, heap, ivars, status, result>>
    BY <1>3 DEF hashExit, push
  <2>2. hash \in Word /\ pc \in 0 .. Len(code) - 1 /\ stack_ptr \in Nat
    BY <2>1, InHash
  <2>3. <<hash>> \in Seq(Word) /\ Len(<<hash>>) = 1
    BY <2>2, Pushed
  <2>4. /\ stack' \in [Slots -> MaybeWord] /\ stack_ptr' \in 0 .. StackSize
        /\ LiveSlotsWritten'
    <3>1. 0 <= stack_ptr /\ stack_ptr - 0 + Len(<<hash>>) <= StackSize
      BY <2>1, <2>2, <2>3, SizeAssumption
    <3> QED  BY <2>1, <2>3, <3>1, PopPush
  <2>5. pc' \in 0 .. Len(code)' /\ UNCHANGED code
    BY <2>1, <2>2, FetchedInstr DEF code, Inv, TypeOK, IsProgram
  <2> QED  BY <2>1, <2>4, <2>5 DEF Inv, TypeOK
<1>4. CASE hashOverrun
  BY <1>4, HaltInv DEF hashOverrun
<1> QED  BY <1>1, <1>2, <1>3, <1>4 DEF HashStep

-----------------------------------------------------------------------------
(* Control.                                                                *)

LEMMA BranchTarget ==
    ASSUME Inv, NEW op \in Branches, Executing(op)
    PROVE  target(code, operand) \in 0 .. Len(code) /\ pc + 1 \in 0 .. Len(code)
<1>1. Fetched({op}) /\ IsProgram(program)
  BY DEF Executing, Inv, TypeOK
<1>2. pc \in 0 .. Len(code) - 1 /\ Len(code) \in Nat /\ code[pc + 1].op \in Branches
  BY <1>1, FetchedInstr
<1> QED  BY <1>1, <1>2 DEF IsProgram, operand, code

LEMMA BranchActions ==
    ASSUME Inv, BranchStep PROVE Inv'
<1>1. ASSUME NEW op \in Branches, Executing(op), NEW i \in 0 .. Len(code), goto(i),
             UNCHANGED <<locals, heap, ivars>>,
             stack' \in [Slots -> MaybeWord], stack_ptr' \in 0 .. StackSize, LiveSlotsWritten'
      PROVE  Inv'
  BY <1>1 DEF Inv, TypeOK, goto, registers, code, IsHeap, Executing, Fetched
<1>2. ASSUME NEW op \in {"branchif", "branchunless"}, Executing(op), popPush(1, <<>>)
      PROVE  /\ stack' \in [Slots -> MaybeWord] /\ stack_ptr' \in 0 .. StackSize
             /\ LiveSlotsWritten'
  <2>1. Shape[op] = <<1, 1, 0>> /\ op \in Ops /\ op # "newhash"
    BY DEF Shape, Ops
  <2>2. 1 <= stack_ptr
    BY <1>2, <2>1, Shapes
  <2>3. stack_ptr - 1 + Len(<<>>) <= StackSize
    BY SizeAssumption, Pushed DEF Inv, TypeOK
  <2> QED  BY <1>2, <2>2, <2>3, Pushed, PopPush
<1>3. CASE jump
  <2>1. target(code, operand) \in 0 .. Len(code)
    BY <1>3, BranchTarget DEF jump, Branches
  <2>2. /\ stack' \in [Slots -> MaybeWord] /\ stack_ptr' \in 0 .. StackSize
        /\ LiveSlotsWritten'
    BY <1>3 DEF jump, memory, Inv, TypeOK, LiveSlotsWritten
  <2> QED  BY <1>1, <1>3, <2>1, <2>2 DEF jump, Branches, memory
<1>4. CASE branchif
  <2>1. target(code, operand) \in 0 .. Len(code) /\ pc + 1 \in 0 .. Len(code)
    BY <1>4, BranchTarget DEF branchif, Branches
  <2> QED  BY <1>1, <1>2, <1>4, <2>1 DEF branchif, Branches
<1>5. CASE branchunless
  <2>1. target(code, operand) \in 0 .. Len(code) /\ pc + 1 \in 0 .. Len(code)
    BY <1>5, BranchTarget DEF branchunless, Branches
  <2> QED  BY <1>1, <1>2, <1>5, <2>1 DEF branchunless, Branches
<1>6. CASE return
  <2>1. /\ popPush(1, <<>>) /\ stack_ptr > 0 /\ block = "op"
        /\ result' = peek(1) /\ status' = "returned"
        /\ UNCHANGED <<program, self, farg, locals, pc, block, hash, idx, heap, ivars>>
    BY <1>6 DEF return
  <2>2. 1 <= stack_ptr /\ stack_ptr - 1 + Len(<<>>) <= StackSize
    BY <2>1, SizeAssumption, Pushed DEF Inv, TypeOK
  <2>3. /\ stack' \in [Slots -> MaybeWord] /\ stack_ptr' \in 0 .. StackSize
        /\ LiveSlotsWritten'
    BY <2>1, <2>2, Pushed, PopPush
  <2>4. peek(1) \in Word
    BY <2>2, PeekWord
  <2> QED  BY <2>1, <2>3, <2>4 DEF Inv, TypeOK, code, IsHeap
<1>7. CASE returnOverrun
  BY <1>7, HaltInv DEF returnOverrun
<1> QED  BY <1>3, <1>4, <1>5, <1>6, <1>7 DEF BranchStep

LEMMA EnterInv ==
    ASSUME Inv, enter PROVE Inv'
<1>1. /\ popPush(0, <<farg>>) /\ status' = "running" /\ stack_ptr = 0
      /\ UNCHANGED <<program, self, farg, locals, pc, block, hash, idx, heap, ivars, result>>
  BY DEF enter, push, Inv, TypeOK
<1>2. farg \in Word /\ <<farg>> \in Seq(Word) /\ Len(<<farg>>) = 1
  BY Pushed DEF Inv, TypeOK
<1>3. 0 <= stack_ptr /\ stack_ptr - 0 + Len(<<farg>>) <= StackSize
  BY <1>1, <1>2, SizeAssumption
<1>4. /\ stack' \in [Slots -> MaybeWord] /\ stack_ptr' \in 0 .. StackSize
      /\ LiveSlotsWritten'
  BY <1>1, <1>2, <1>3, PopPush
<1> QED  BY <1>1, <1>4 DEF enter, Inv, TypeOK, code, IsHeap

-----------------------------------------------------------------------------
(* The theorems.                                                           *)

LEMMA InitInv == Init => Inv
<1> SUFFICES ASSUME Init PROVE Inv
  OBVIOUS
<1>1. IsProgram(program) /\ Len(code) \in Nat
  BY ProgramsAssumption DEF Init, IsProgram, code
<1>2. self \in Word /\ farg \in Word /\ IsHeap(heap) /\ ivars \in [Ivars -> Word]
  BY CallsAssumption DEF Init
<1>3. stack \in [Slots -> MaybeWord] /\ locals \in [LocalSlots -> MaybeWord]
  BY DEF Init, MaybeWord
<1> QED  BY <1>1, <1>2, <1>3, RefsAreWords, SizeAssumption
         DEF Init, Inv, TypeOK, LiveSlotsWritten

LEMMA NextInv == Inv /\ [Next]_vars => Inv'
<1> SUFFICES ASSUME Inv, [Next]_vars PROVE Inv'
  OBVIOUS
<1>1. CASE enter
  BY <1>1, EnterInv
<1>2. CASE Overrun
  BY <1>2, HaltInv DEF Overrun, Fetched
<1>3. CASE StackStep \/ LocalStep \/ ArithStep
  BY <1>3, StackActions, LocalActions, ArithActions
<1>4. CASE ObjectStep \/ HashStep \/ BranchStep
  BY <1>4, ObjectActions, HashActions, BranchActions
<1>5. CASE UNCHANGED vars
  BY <1>5 DEF vars, memory, Inv, TypeOK, LiveSlotsWritten, code, IsHeap
<1> QED  BY <1>1, <1>2, <1>3, <1>4, <1>5 DEF Next, Step, Finished

THEOREM Invariance == Spec => []Inv
  BY InitInv, NextInv, PTL DEF Spec

\* Every reachable state is well typed, whatever bytecode runs: no word grows
\* out of its width, no pointer out of the stack, and objects stay objects.
THEOREM TypeCorrect == Spec => []TypeOK
  BY Invariance, PTL DEF Inv

\* No instruction sequence leaves an unwritten slot below the stack pointer.
THEOREM NoGapsInStack == Spec => []LiveSlotsWritten
  BY Invariance, PTL DEF Inv

-----------------------------------------------------------------------------
(* Certified programs: the stack never leaves its array.                   *)

Safe == CertificateHolds /\ NoOverrun

\* What the certificate says of the instruction control is at.
LEMMA CertificateAt ==
    ASSUME Inv, Verified(program), NEW ops, Fetched(ops)
    PROVE  DepthOK(program, pc) /\ LocalsOK(program, pc)
<1>1. pc \in 0 .. Len(program.code) - 1
  BY FetchedInstr DEF code
<1> QED  BY <1>1 DEF Verified

\* Certified operands are there, and so is the room.
LEMMA CertifiedInBounds ==
    ASSUME Inv, Safe, Verified(program), NEW ops, Fetched(ops)
    PROVE  InBounds(code[pc + 1])
<1>1. DepthOK(program, pc) /\ stack_ptr = program.depth[pc]
  BY CertificateAt DEF Safe, CertificateHolds, Fetched
<1> QED  BY <1>1 DEF DepthOK, InBounds, code

\* A step to a successor of the instruction that moves the stack pointer as
\* the shape of the opcode says keeps to the certificate.
LEMMA FollowCertificate ==
    ASSUME Inv, Safe, Verified(program), NEW op \in Ops, op # "newhash", Executing(op),
           NEW j \in successors(code, pc), pc' = j, UNCHANGED registers,
           stack_ptr' = stack_ptr - Shape[op][2] + Shape[op][3],
           op = "setlocal" => locals'[operand] \in Word,
           \A l \in program.assigned[pc] : locals'[l] \in Word
    PROVE  Safe'
<1>1. Fetched({op})
  BY DEF Executing
<1>2. /\ DepthOK(program, pc) /\ LocalsOK(program, pc)
      /\ code[pc + 1].op = op /\ status = "running" /\ block = "op"
  BY <1>1, CertificateAt, FetchedInstr DEF Fetched
<1>3. stack_ptr = program.depth[pc]
  BY <1>2 DEF Safe, CertificateHolds
<1>4. program.depth[j] = stack_ptr - Shape[op][2] + Shape[op][3]
  BY <1>2, <1>3 DEF DepthOK, pops, pushes, code
<1>5. \A l \in program.assigned[j] : locals'[l] \in Word
  BY <1>2 DEF LocalsOK, code, operand
<1> QED  BY <1>2, <1>4, <1>5 DEF Safe, CertificateHolds, NoOverrun, registers

\* The instructions that go on to the next one and leave the locals alone.
LEMMA GoOn ==
    ASSUME Inv, Safe, Verified(program), NEW op \in Ops, Executing(op),
           op \notin {"newhash", "setlocal", "jump"}, next, UNCHANGED locals,
           stack_ptr' = stack_ptr - Shape[op][2] + Shape[op][3]
    PROVE  Safe'
<1>1. Fetched({op})
  BY DEF Executing
<1>2. pc + 1 \in successors(code, pc)
  BY <1>1, FetchedInstr DEF successors
<1>3. \A l \in program.assigned[pc] : locals[l] \in Word
  BY <1>1 DEF Safe, CertificateHolds, Fetched
<1> QED  BY <1>2, <1>3, FollowCertificate DEF next

LEMMA Lengths == /\ Len(<<>>) = 0
                 /\ \A v : Len(<<v>>) = 1
                 /\ \A u, w : Len(<<u, w>>) = 2
  OBVIOUS

LEMMA StackCertified ==
    ASSUME Inv, Safe, Verified(program), StackStep \/ ArithStep
    PROVE  Safe'
<1>0. stack_ptr \in Nat
  BY SizeAssumption DEF Inv, TypeOK
<1>1. ASSUME NEW op \in Ops, Executing(op), op \notin {"newhash", "setlocal", "jump"},
             NEW k \in Nat, NEW vals, popPush(k, vals), onlyStack,
             Shape[op][2] = k, Shape[op][3] = Len(vals)
      PROVE  Safe'
  BY <1>1, GoOn DEF onlyStack, popPush
<1>2. CASE nop
  <2>1. Executing("nop") /\ next /\ UNCHANGED <<stack_ptr, locals>>
    BY <1>2 DEF nop, onlyStack
  <2>2. stack_ptr' = stack_ptr - Shape["nop"][2] + Shape["nop"][3]
    BY <1>0, <2>1 DEF Shape
  <2>3. "nop" \in Ops /\ "nop" \notin {"newhash", "setlocal", "jump"} /\ UNCHANGED locals
    BY <2>1 DEF Shape, Ops
  <2> QED  BY <2>1, <2>2, <2>3, GoOn
<1>3. CASE putnil
  BY <1>1, <1>3, Lengths DEF putnil, push, Shape, Ops
<1>4. CASE putself
  BY <1>1, <1>4, Lengths DEF putself, push, Shape, Ops
<1>5. CASE putobject
  BY <1>1, <1>5, Lengths DEF putobject, push, Shape, Ops
<1>6. CASE pop
  BY <1>1, <1>6, Lengths DEF pop, Shape, Ops
<1>7. CASE dup
  BY <1>1, <1>7, Lengths DEF dup, push, Shape, Ops
<1>8. CASE swap
  BY <1>1, <1>8, Lengths DEF swap, Shape, Ops
<1>9. CASE ArithStep
  <2>1. PICK op \in {"opt_plus", "opt_minus", "opt_mult", "opt_lt", "opt_gt", "opt_ge"} :
            \E w : Executing(op) /\ popPush(2, <<w>>) /\ onlyStack
    BY <1>9 DEF ArithStep, arithmetic, opt_plus, opt_minus, opt_mult, opt_lt, opt_gt, opt_ge
  <2>2. PICK w : Executing(op) /\ popPush(2, <<w>>) /\ onlyStack
    BY <2>1
  <2>3. op \in Ops /\ Shape[op][2] = 2 /\ Shape[op][3] = 1
    BY DEF Shape, Ops
  <2>4. op \notin {"newhash", "setlocal", "jump"} /\ Len(<<w>>) = 1
    BY Lengths
  <2> QED  BY <1>1, <2>2, <2>3, <2>4
<1> QED  BY <1>2, <1>3, <1>4, <1>5, <1>6, <1>7, <1>8, <1>9 DEF StackStep

\* An ended activation has nothing to certify, if it did not overrun.
LEMMA HaltSafe ==
    ASSUME Safe, NEW s \in {"raised", "wild"}, Halt(s)
    PROVE  Safe'
  BY DEF Safe, CertificateHolds, NoOverrun, Halt

LEMMA LocalCertified ==
    ASSUME Inv, Safe, Verified(program), LocalStep
    PROVE  Safe' /\ (Fetched({"getlocal"}) => UNCHANGED locals)
<1>0. /\ stack_ptr \in Nat /\ locals \in [LocalSlots -> MaybeWord]
      /\ "setlocal" \in Ops /\ "getlocal" \in Ops
  BY SizeAssumption DEF Inv, TypeOK, Shape, Ops
<1>1. ASSUME Fetched({"setlocal", "getlocal"})
      PROVE  /\ operand \in LocalSlots /\ program.assigned[pc] \subseteq LocalSlots
             /\ code[pc + 1].op = "getlocal" => operand \in program.assigned[pc]
             /\ \A l \in program.assigned[pc] : locals[l] \in Word
  <2>1. LocalsOK(program, pc) /\ pc \in 0 .. Len(program.code) - 1
        /\ code[pc + 1].op \in {"setlocal", "getlocal"}
    BY <1>1, CertificateAt, FetchedInstr DEF code
  <2>2. pc \in 0 .. Len(program.code)
    BY <2>1, <1>1, FetchedInstr DEF code
  <2>3. program.assigned[pc] \subseteq LocalSlots
    BY <2>2 DEF Verified, LocalSlots
  <2> QED  BY <1>1, <2>1, <2>3
           DEF LocalsOK, LocalSlots, operand, code, Safe, CertificateHolds, Fetched
<1>2. CASE setlocal
  <2>1. /\ Executing("setlocal") /\ Fetched({"setlocal", "getlocal"})
        /\ code[pc + 1].op = "setlocal" /\ popPush(1, <<>>) /\ next
        /\ locals' = [locals EXCEPT ![operand] = peek(1)]
    BY <1>2 DEF setlocal, Executing, Fetched
  <2>2. stack_ptr' = stack_ptr - Shape["setlocal"][2] + Shape["setlocal"][3]
    BY <1>0, <2>1, Lengths DEF popPush, Shape
  <2>3. peek(1) \in Word
    <3>1. 1 <= stack_ptr
      BY <1>0, <2>1, Shapes DEF Shape
    <3> QED  BY <3>1, PeekWord
  <2>4. locals'[operand] \in Word /\ \A l \in program.assigned[pc] : locals'[l] \in Word
    BY <1>0, <1>1, <2>1, <2>3
  <2>5. pc + 1 \in successors(code, pc)
    BY <2>1 DEF successors
  <2>6. Safe'
    BY <1>0, <2>1, <2>2, <2>4, <2>5, FollowCertificate DEF next
  <2> QED  BY <2>1, <2>6 DEF Fetched
<1>3. CASE getlocal
  <2>1. /\ Executing("getlocal") /\ Fetched({"setlocal", "getlocal"})
        /\ code[pc + 1].op = "getlocal" /\ next
    BY <1>3 DEF getlocal, Executing, Fetched
  <2>2. PICK w \in contents(locals[operand]) :
            locals' = [locals EXCEPT ![operand] = w] /\ popPush(0, <<w>>)
    BY <1>3 DEF getlocal, push
  <2>3. w = locals[operand]
    BY <1>1, <2>1, <2>2, UndefAssumption DEF contents
  <2>4. UNCHANGED locals
    BY <1>0, <1>1, <2>1, <2>2, <2>3
  <2>5. stack_ptr' = stack_ptr - Shape["getlocal"][2] + Shape["getlocal"][3]
    BY <1>0, <2>2, Lengths DEF popPush, Shape
  <2>6. Safe'
    BY <1>0, <2>1, <2>4, <2>5, GoOn
  <2> QED  BY <2>4, <2>6
<1>4. CASE localOverrun
  BY <1>1, <1>4 DEF localOverrun
<1> QED  BY <1>2, <1>3, <1>4 DEF LocalStep

LEMMA ObjectCertified ==
    ASSUME Inv, Safe, Verified(program), ObjectStep
    PROVE  Safe'
<1>0. stack_ptr \in Nat
  BY SizeAssumption DEF Inv, TypeOK
<1>1. ASSUME NEW op \in Ops, Executing(op), op \notin {"newhash", "setlocal", "jump"},
             NEW k \in Nat, NEW vals, popPush(k, vals), next, UNCHANGED locals,
             Shape[op][2] = k, Shape[op][3] = Len(vals)
      PROVE  Safe'
  BY <1>1, GoOn DEF popPush
<1>2. CASE opt_aref
  BY <1>1, <1>2, Lengths DEF opt_aref, onlyStack, Shape, Ops
<1>3. CASE opt_length
  BY <1>1, <1>3, Lengths DEF opt_length, onlyStack, Shape, Ops
<1>4. CASE opt_aset
  BY <1>1, <1>4, Lengths DEF opt_aset, Shape, Ops
<1>5. CASE getinstancevariable
  BY <1>1, <1>5, Lengths DEF getinstancevariable, push, onlyStack, Shape, Ops
<1>6. CASE setinstancevariable
  <2>1. /\ Executing("setinstancevariable") /\ next /\ UNCHANGED <<stack_ptr, locals>>
    BY <1>6 DEF setinstancevariable
  <2>2. stack_ptr' = stack_ptr - Shape["setinstancevariable"][2] + Shape["setinstancevariable"][3]
    BY <1>0, <2>1 DEF Shape
  <2>3. "setinstancevariable" \in Ops
    BY DEF Shape, Ops
  <2> QED  BY <2>1, <2>2, <2>3, GoOn
<1>7. CASE newarray
  <2>1. PICK r \in Refs : popPush(0, <<r>>)
    BY <1>7 DEF newarray, push
  <2> QED  BY <1>1, <1>7, <2>1, Lengths DEF newarray, Shape, Ops
<1>8. CASE send
  <2>1. PICK r \in Refs : popPush(0, <<r>>)
    BY <1>8 DEF send, push
  <2> QED  BY <1>1, <1>8, <2>1, Lengths DEF send, Shape, Ops
<1>9. CASE indexTooBig \/ Wild \/ outOfMemory
  BY <1>9, HaltSafe DEF indexTooBig, Wild, outOfMemory
<1> QED  BY <1>2, <1>3, <1>4, <1>5, <1>6, <1>7, <1>8, <1>9 DEF ObjectStep

\* What the certificate says inside newhash: the operands are on the stack,
\* an even number of them, and the hash has room.
LEMMA HashCertificate ==
    ASSUME Inv, Safe, Verified(program), status = "running",
           pc < Len(code), code[pc + 1].op = "newhash"
    PROVE  /\ operand \in Nat /\ operand % 2 = 0 /\ operand <= stack_ptr
           /\ stack_ptr + 1 <= StackSize /\ stack_ptr \in Nat /\ StackSize \in Nat
           /\ stack_ptr = program.depth[pc] /\ program.depth[pc + 1] = stack_ptr + 1
           /\ program.assigned[pc + 1] \subseteq program.assigned[pc]
           /\ \A l \in program.assigned[pc] : locals[l] \in Word
<1>1. code \in Seq(Instr) /\ pc \in 0 .. Len(code)
  BY DEF Inv, TypeOK, IsProgram, code
<1>2. pc \in 0 .. Len(program.code) - 1 /\ operand \in Int
  <2>1. pc + 1 \in 1 .. Len(code) /\ pc \in 0 .. Len(code) - 1
    BY <1>1
  <2>2. code[pc + 1] \in Instr
    BY <1>1, <2>1
  <2> QED  BY <2>1, <2>2 DEF code, operand, Instr
<1>3. DepthOK(program, pc) /\ LocalsOK(program, pc)
  BY <1>2 DEF Verified
<1>4. stack_ptr = program.depth[pc] /\ \A l \in program.assigned[pc] : locals[l] \in Word
  BY DEF Safe, CertificateHolds
<1>5. pc + 1 \in successors(program.code, pc)
  BY DEF successors, code
<1>6. reads(code[pc + 1]) = operand /\ pops(code[pc + 1]) = 0 /\ pushes(code[pc + 1]) = 1
  BY DEF reads, pops, pushes, Shape, operand
<1>7. stack_ptr \in Nat /\ StackSize \in Nat
  BY SizeAssumption DEF Inv, TypeOK
<1>8. /\ operand >= 0 /\ operand % 2 = 0 /\ operand <= stack_ptr
      /\ stack_ptr - 0 + 1 <= StackSize /\ program.depth[pc + 1] = stack_ptr - 0 + 1
  BY <1>3, <1>4, <1>5, <1>6 DEF DepthOK, code, operand
<1>9. program.assigned[pc + 1] \subseteq program.assigned[pc]
  BY <1>3, <1>5 DEF LocalsOK, code
<1> QED  BY <1>2, <1>4, <1>7, <1>8, <1>9

LEMMA HashCertified ==
    ASSUME Inv, Safe, Verified(program), HashStep
    PROVE  Safe' /\ (block = "loop" => UNCHANGED stack)
<1>1. CASE newhash
  <2>1. /\ status = "running" /\ block = "op" /\ pc < Len(code) /\ code[pc + 1].op = "newhash"
    BY <1>1, FetchedInstr DEF newhash, Fetched
  <2>2. idx' = operand /\ UNCHANGED <<program, stack_ptr, locals, pc, status>>
    BY <1>1 DEF newhash, memory
  <2>3. UNCHANGED operand
    BY <2>2 DEF operand, code
  <2> QED  BY <2>1, <2>2, <2>3, HashCertificate DEF Safe, CertificateHolds, NoOverrun
<1>2. ASSUME status = "running", block # "op"
      PROVE  pc < Len(code) /\ code[pc + 1].op = "newhash" /\ idx \in Int
             /\ (block = "loop" => idx > 0 /\ idx <= operand /\ idx % 2 = 0)
  BY <1>2 DEF Inv, TypeOK, Safe, CertificateHolds
<1>3. CASE hashLoop
  <2>1. /\ status = "running" /\ block = "loop"
        /\ idx' = idx - 2 /\ UNCHANGED <<program, stack_ptr, locals, pc, status>>
    BY <1>3 DEF hashLoop
  <2>2. /\ idx \in Int /\ idx > 0 /\ idx <= operand /\ idx % 2 = 0
        /\ operand \in Nat /\ operand <= stack_ptr /\ stack_ptr \in Nat
        /\ stack_ptr = program.depth[pc] /\ \A l \in program.assigned[pc] : locals[l] \in Word
    BY <1>2, <2>1, HashCertificate
  <2>3. UNCHANGED operand /\ idx' <= operand /\ idx' % 2 = 0
    <3>1. (idx - 2) % 2 = 0 /\ idx - 2 <= operand
      BY <2>2
    <3> QED  BY <2>1, <3>1 DEF operand, code
  <2>4. Safe'
    BY <2>1, <2>2, <2>3 DEF Safe, CertificateHolds, NoOverrun
  <2>5. UNCHANGED stack
    <3>1. PICK v \in contents(peek(idx - 1)) : stack' = [stack EXCEPT ![stack_ptr - idx + 1] = v]
      BY <1>3 DEF hashLoop
    <3>2. idx - 1 >= 1 /\ idx - 1 <= stack_ptr /\ idx - 1 \in Int
      BY <2>2
    <3>3. peek(idx - 1) \in Word
      BY <3>2, PeekWord
    <3>4. v = stack[stack_ptr - (idx - 1)]
      BY <3>1, <3>3, UndefAssumption DEF contents, peek
    <3>5. stack_ptr - (idx - 1) = stack_ptr - idx + 1
      BY <2>2
    <3>6. stack \in [Slots -> MaybeWord]
      BY DEF Inv, TypeOK
    <3> QED  BY <3>1, <3>4, <3>5, <3>6
  <2> QED  BY <2>4, <2>5
<1>4. CASE hashExit
  <2>1. /\ status = "running" /\ block = "exit" /\ popPush(0, <<hash>>) /\ block' = "op"
        /\ pc' = pc + 1 /\ UNCHANGED <<program, locals, status>>
    BY <1>4 DEF hashExit, push
  <2>2. /\ program.depth[pc + 1] = stack_ptr + 1 /\ stack_ptr \in Nat
        /\ \A l \in program.assigned[pc + 1] : locals[l] \in Word
    BY <1>2, <2>1, HashCertificate
  <2>3. stack_ptr' = stack_ptr + 1
    BY <2>1, <2>2, Lengths DEF popPush
  <2> QED  BY <2>1, <2>2, <2>3 DEF Safe, CertificateHolds, NoOverrun
<1>5. CASE hashOverrun
  <2>1. status = "running" /\ block # "op"
    BY <1>5 DEF hashOverrun
  <2>2. /\ operand <= stack_ptr /\ operand \in Nat /\ stack_ptr \in Nat
        /\ stack_ptr + 1 <= StackSize /\ StackSize \in Nat
    BY <1>2, <2>1, HashCertificate
  <2>3. ASSUME block = "loop" PROVE stack_ptr - idx >= 0 /\ stack_ptr - idx + 1 < StackSize
    BY <1>2, <2>1, <2>2, <2>3
  <2> QED  BY <1>5, <2>2, <2>3 DEF hashOverrun
<1> QED  BY <1>1, <1>3, <1>4, <1>5 DEF HashStep, newhash, hashExit, hashOverrun, Fetched

LEMMA BranchCertified ==
    ASSUME Inv, Safe, Verified(program), BranchStep
    PROVE  Safe'
<1>0. stack_ptr \in Nat
  BY SizeAssumption DEF Inv, TypeOK
<1>1. ASSUME NEW op \in Branches, Executing(op)
      PROVE  /\ op \in Ops /\ op # "newhash" /\ op # "setlocal"
             /\ target(code, operand) \in successors(code, pc)
             /\ op # "jump" => pc + 1 \in successors(code, pc)
             /\ \A l \in program.assigned[pc] : locals[l] \in Word
  <2>1. Fetched({op}) /\ code[pc + 1].op = op
    BY <1>1, FetchedInstr DEF Executing
  <2>2. op \in Ops /\ op # "newhash" /\ op # "setlocal"
    BY DEF Branches, Ops, Shape
  <2>3. target(code, operand) \in successors(code, pc)
    BY <2>1 DEF successors, operand
  <2>4. op # "jump" => pc + 1 \in successors(code, pc)
    BY <2>1 DEF successors
  <2> QED  BY <2>1, <2>2, <2>3, <2>4 DEF Safe, CertificateHolds, Fetched
<1>2. ASSUME NEW op \in {"branchif", "branchunless"}, Executing(op), popPush(1, <<>>),
             NEW j \in {pc + 1, target(code, operand)}, goto(j), UNCHANGED locals
      PROVE  Safe'
  <2>1. stack_ptr' = stack_ptr - Shape[op][2] + Shape[op][3]
    <3>1. Shape[op][2] = 1 /\ Shape[op][3] = 0
      BY DEF Shape
    <3> QED  BY <1>0, <1>2, <3>1, Lengths DEF popPush
  <2>2. op \in Branches /\ op # "jump"
    BY DEF Branches
  <2>3. j \in successors(code, pc)
    BY <1>1, <1>2, <2>2
  <2> QED  BY <1>1, <1>2, <2>1, <2>2, <2>3, FollowCertificate DEF goto
<1>3. CASE jump
  <2>1. /\ Executing("jump") /\ goto(target(code, operand)) /\ "jump" \in Branches
        /\ UNCHANGED <<stack_ptr, locals>>
    BY <1>3 DEF jump, memory, Branches
  <2>2. stack_ptr' = stack_ptr - Shape["jump"][2] + Shape["jump"][3]
    BY <1>0, <2>1 DEF Shape
  <2> QED  BY <1>1, <2>1, <2>2, FollowCertificate DEF goto
<1>4. CASE branchif
  BY <1>2, <1>4 DEF branchif
<1>5. CASE branchunless
  BY <1>2, <1>5 DEF branchunless
<1>6. CASE return
  BY <1>6 DEF return, Safe, CertificateHolds, NoOverrun
<1>7. CASE returnOverrun
  <2>1. stack_ptr = 0 /\ stack_ptr = program.depth[Len(program.code)]
    BY <1>7 DEF returnOverrun, Safe, CertificateHolds, code
  <2>2. program.depth[Len(program.code)] >= 1
    BY DEF Verified
  <2> QED  BY <2>1, <2>2
<1> QED  BY <1>3, <1>4, <1>5, <1>6, <1>7 DEF BranchStep

LEMMA EnterCertified ==
    ASSUME Inv, Safe, Verified(program), enter
    PROVE  Safe'
<1>1. /\ pc = 0 /\ stack_ptr = 0 /\ block = "op" /\ stack_ptr' = stack_ptr - 0 + Len(<<farg>>)
      /\ status' = "running" /\ UNCHANGED <<program, pc, block>>
  BY DEF enter, push, popPush, Inv, TypeOK
<1>2. program.depth[0] = 1 /\ program.assigned[0] = {}
  BY DEF Verified
<1>3. stack_ptr' = 1
  BY <1>1, Lengths
<1> QED  BY <1>1, <1>2, <1>3 DEF Safe, CertificateHolds, NoOverrun

\* One step of the activation of a certified program.
LEMMA CertifiedStep ==
    ASSUME Inv, Safe, Verified(program), [Next]_vars
    PROVE  /\ Safe'
           /\ Fetched({"getlocal"}) => UNCHANGED locals
           /\ block = "loop" => UNCHANGED stack
<1>1. CASE enter
  BY <1>1, EnterCertified DEF enter, Fetched, Inv, TypeOK
<1>2. CASE Overrun
  BY <1>2, CertifiedInBounds DEF Overrun
<1>3. CASE StackStep \/ ArithStep
  <2>1. block = "op" /\ UNCHANGED locals
    BY <1>3 DEF StackStep, ArithStep, nop, putnil, putself, putobject, pop, dup, swap,
                arithmetic, opt_plus, opt_minus, opt_mult, opt_lt, opt_gt, opt_ge,
                onlyStack, Executing, Fetched
  <2> QED  BY <1>3, <2>1, StackCertified
<1>4. CASE LocalStep
  <2>1. block = "op"
    BY <1>4 DEF LocalStep, setlocal, getlocal, localOverrun, Executing, Fetched
  <2> QED  BY <1>4, <2>1, LocalCertified
<1>5. CASE ObjectStep
  <2>1. UNCHANGED locals
    BY <1>5 DEF ObjectStep, opt_aref, opt_length, opt_aset, indexTooBig, Wild, outOfMemory,
                getinstancevariable, setinstancevariable, newarray, send, onlyStack, Halt, memory
  <2>2. block = "loop" => UNCHANGED stack
    BY <1>5 DEF ObjectStep, opt_aref, opt_length, opt_aset, indexTooBig, Wild, outOfMemory,
                getinstancevariable, setinstancevariable, newarray, send,
                Halt, memory, Executing, Fetched
  <2> QED  BY <1>5, <2>1, <2>2, ObjectCertified
<1>6. CASE HashStep
  <2>1. UNCHANGED locals
    BY <1>6 DEF HashStep, newhash, hashLoop, hashExit, hashOverrun, Halt, memory
  <2> QED  BY <1>6, <2>1, HashCertified
<1>7. CASE BranchStep
  <2>1. block = "op" /\ UNCHANGED locals
    BY <1>7 DEF BranchStep, jump, branchif, branchunless, return, returnOverrun, Halt, memory,
                Executing, Fetched
  <2> QED  BY <1>7, <2>1, BranchCertified
<1>8. CASE UNCHANGED vars
  BY <1>8 DEF vars, memory, Safe, CertificateHolds, NoOverrun, operand, code
<1> QED  BY <1>1, <1>2, <1>3, <1>4, <1>5, <1>6, <1>7, <1>8 DEF Next, Step, Finished

LEMMA NextSafe == Inv /\ Safe /\ [Next]_vars => Safe'
<1> SUFFICES ASSUME Inv, Safe, [Next]_vars PROVE Safe'
  OBVIOUS
<1>1. UNCHANGED program
  BY DEF Next, Step, Finished, enter, Overrun, StackStep, LocalStep, ArithStep, ObjectStep,
         HashStep, BranchStep, nop, putnil, putself, putobject, pop, dup, swap, setlocal,
         getlocal, localOverrun, arithmetic, opt_plus, opt_minus, opt_mult, opt_lt, opt_gt,
         opt_ge, opt_aref, opt_length, opt_aset, indexTooBig, Wild, getinstancevariable,
         setinstancevariable, newarray, send, outOfMemory, newhash, hashLoop, hashExit,
         hashOverrun, jump, branchif, branchunless, goto, return, returnOverrun,
         onlyStack, next, registers, Halt, vars
<1>2. CASE Verified(program)
  BY <1>2, CertifiedStep
<1>3. CASE ~Verified(program)
  BY <1>1, <1>3 DEF Safe, CertificateHolds, NoOverrun
<1> QED  BY <1>2, <1>3

LEMMA InitSafe == Init => Safe
  BY DEF Init, Safe, CertificateHolds, NoOverrun

THEOREM Safety == Spec => []Safe
<1>1. Spec => []Inv
  BY Invariance
<1> QED  BY <1>1, InitSafe, NextSafe, PTL DEF Spec

\* The certificate describes the running code: at every position, however it
\* was reached, the stack has the certified depth and the locals their values.
THEOREM CertificateSound == Spec => []CertificateHolds
  BY Safety, PTL DEF Safe

\* A certified program never leaves the two arrays of its frame, for any size
\* of the arrays, any word and any call.
THEOREM StackSafety == Spec => []NoOverrun
  BY Safety, PTL DEF Safe

\* A certified program never reads a slot nobody wrote.
THEOREM NoGarbage == Spec => NoUninitialisedRead
<1>1. Inv /\ Safe /\ [Next]_vars =>
        [ Verified(program) =>
            /\ Fetched({"getlocal"}) => UNCHANGED locals
            /\ block = "loop" => UNCHANGED stack ]_vars
  BY CertifiedStep
<1>2. Spec => []Inv /\ []Safe
  BY Invariance, Safety
<1> QED  BY <1>1, <1>2, PTL DEF Spec, NoUninitialisedRead
=============================================================================
