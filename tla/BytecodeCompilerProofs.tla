----------------------- MODULE BytecodeCompilerProofs -----------------------
(***************************************************************************)
(* The compiler never touches a function it has returned, and the code of  *)
(* every function addresses the allocas of that function, for every set of *)
(* bytecodes and every history of compilations, failures and restarts.     *)
(***************************************************************************)
EXTENDS BytecodeCompiler, FiniteSetTheorems, TLAPS

\* A name <<m, n>> that has been used: of an earlier start, or counted.
Used(g) == \E m, n \in Nat : g = <<m, n>> /\ (m < module \/ (m = module /\ n < func_n))

\* The inductive invariant: the names in use are behind the counters, and the
\* function being built is not yet one of the returned.
NamesInv ==
    /\ module \in Nat /\ func_n \in Nat
    /\ \A g \in DOMAIN funcs : Used(g)
    /\ DOMAIN returned \subseteq DOMAIN funcs
    /\ phase = "compiling" => f \in DOMAIN funcs /\ f \notin DOMAIN returned

\* get_or_insert_function is always given a new name.
LEMMA NewName == ASSUME NamesInv PROVE <<module, func_n>> \notin DOMAIN funcs
  BY DEF NamesInv, Used

\* What a round of the loop may change.
LEMMA RoundFrame ==
    ASSUME Round
    PROVE  /\ phase = "compiling"
           /\ UNCHANGED <<module, func_n, returned, f>>
           /\ DOMAIN funcs' = DOMAIN funcs
           /\ \A g \in DOMAIN funcs : g # f => funcs'[g] = funcs[g]
<1>1. ASSUME NEW body, writes(body)
      PROVE  /\ DOMAIN funcs' = DOMAIN funcs
             /\ \A g \in DOMAIN funcs : g # f => funcs'[g] = funcs[g]
  BY <1>1 DEF writes
<1>2. CASE jump
  BY <1>1, <1>2 DEF jump, Compiling, nextRound, compilation
<1>3. CASE branchif \/ branchunless
  BY <1>1, <1>3 DEF branchif, branchunless, branch, Compiling, nextRound, compilation
<1>4. CASE badBranch
  BY <1>1, <1>4 DEF badBranch, Compiling, fails, compilation
<1>5. CASE newhash
  BY <1>1, <1>5 DEF newhash, Compiling, nextRound, compilation
<1>6. CASE badCount
  BY <1>1, <1>6 DEF badCount, Compiling, fails, compilation
<1>7. CASE nop \/ straight
  BY <1>1, <1>7 DEF nop, straight, Compiling, nextRound, compilation
<1>8. CASE unknown
  BY <1>8 DEF unknown, Compiling, fails, compilation
<1> QED  BY <1>2, <1>3, <1>4, <1>5, <1>6, <1>7, <1>8 DEF Round

\* What a step leaves of the functions that were there.
LEMMA Kept ==
    ASSUME NamesInv, [Next]_vars
    PROVE  /\ DOMAIN funcs \subseteq DOMAIN funcs'
           /\ \A g \in DOMAIN returned : funcs'[g] = funcs[g]
<1>1. CASE start
  BY <1>1 DEF start
<1>2. CASE begin
  <2>1. PICK c \in Bytecodes :
          LET old == get_or_insert_function(<<module, func_n>>)
              new == old \o << <<Code(<<module, func_n>>), Br(<<Len(old) + 2>>)>> >> \o create_blocks(c)
          IN  funcs' = [ g \in DOMAIN funcs \cup {<<module, func_n>>} |->
                           IF g = <<module, func_n>> THEN new ELSE funcs[g] ]
    BY <1>2 DEF begin
  <2>2. \A g \in DOMAIN returned : g # <<module, func_n>> /\ g \in DOMAIN funcs
    BY NewName DEF NamesInv
  <2> QED  BY <2>1, <2>2
<1>3. CASE Round
  BY <1>3, RoundFrame DEF NamesInv
<1>4. CASE finish
  BY <1>4 DEF finish, writes, NamesInv
<1>5. CASE UNCHANGED vars
  BY <1>5 DEF vars
<1> QED  BY <1>1, <1>2, <1>3, <1>4, <1>5 DEF Next

LEMMA NamesInductive == Spec => []NamesInv
<1>1. Init => NamesInv
  BY DEF Init, NamesInv
<1>2. ASSUME NamesInv, [Next]_vars PROVE NamesInv'
  <2>1. CASE start
    BY <1>2, <2>1 DEF start, NamesInv, Used, compilation
  <2>2. CASE begin
    <3>1. /\ DOMAIN funcs' = DOMAIN funcs \cup {<<module, func_n>>}
          /\ f' = <<module, func_n>>
          /\ func_n' = func_n + 1 /\ module' = module /\ returned' = returned
      BY <2>2 DEF begin
    <3>2. \A g \in DOMAIN funcs' : Used(g)'
      BY <1>2, <3>1 DEF NamesInv, Used
    <3>3. f' \notin DOMAIN returned
      BY <1>2, <3>1, NewName DEF NamesInv
    <3> QED  BY <1>2, <3>1, <3>2, <3>3 DEF NamesInv
  <2>3. CASE Round
    BY <1>2, <2>3, RoundFrame DEF NamesInv, Used
  <2>4. CASE finish
    BY <1>2, <2>4 DEF finish, writes, NamesInv, Used, compilation
  <2>5. CASE UNCHANGED vars
    BY <1>2, <2>5 DEF vars, NamesInv, Used
  <2> QED  BY <1>2, <2>1, <2>2, <2>3, <2>4, <2>5 DEF Next
<1> QED  BY <1>1, <1>2, PTL DEF Spec

\* compile_bytecode builds every function under a name not used before, also
\* after compilations that failed half way.
THEOREM FreshNames == Spec => FreshFunction
<1>1. ASSUME NamesInv, [Next]_vars
      PROVE  phase = "idle" /\ phase' = "compiling" => f' \notin DOMAIN funcs
  <2>1. begin => f' = <<module, func_n>>
    BY DEF begin
  <2>2. phase = "idle" /\ phase' = "compiling" => begin
    BY <1>1, RoundFrame DEF Next, start, finish, vars
  <2> QED  BY <1>1, <2>1, <2>2, NewName
<1> QED  BY <1>1, NamesInductive, PTL DEF Spec, FreshFunction

\* A returned function is never changed.
THEOREM ReturnedSafe == Spec => ReturnedFrozen
<1>1. ASSUME NamesInv, [Next]_vars
      PROVE  \A g \in DOMAIN returned : g \in DOMAIN funcs' /\ funcs'[g] = funcs[g]
  BY <1>1, Kept DEF NamesInv
<1> QED  BY <1>1, NamesInductive, PTL DEF Spec, ReturnedFrozen

-----------------------------------------------------------------------------
(* The code of a function.                                                 *)

\* What function g may consist of while it has n blocks.
Instructions(g, n) ==
    {Code(g), Ret} \cup [op : {"br"}, dests : Seq(1 .. n)] \cup [op : {"phi"}, from : Seq(1 .. n)]

Built(g, body) == body \in Seq(Seq(Instructions(g, Len(body))))

\* The second invariant, on top of the first: while a function is compiled
\* the class variables hold its own allocas, and blocks lists its blocks.
CodeInv ==
    /\ module \in 0 .. MaxStarts
    /\ \A g \in DOMAIN funcs : Built(g, funcs[g])
    /\ code \in Seq([op : Ops \cup {"unknown"}, arg : Int \cup {NoArg}])
    /\ i \in 0 .. Len(code)
    /\ phase \in {"idle", "compiling"}
    /\ phase = "compiling" =>
           /\ frame = f
           /\ blocks \in [0 .. Len(code) -> 1 .. Len(Body)]
           /\ \A j, k \in 0 .. Len(code) : j # k => blocks[j] # blocks[k]

\* What Code, Br and Phi make.
LEMMA Made ==
    ASSUME NEW g, NEW n \in Nat
    PROVE  /\ Code(g) \in Instructions(g, n)
           /\ Ret \in Instructions(g, n)
           /\ \A d \in Seq(1 .. n) : Br(d) \in Instructions(g, n) /\ Phi(d) \in Instructions(g, n)
  BY DEF Code, Br, Phi, Instructions

\* Code stays right when the function grows.
LEMMA Grows ==
    ASSUME NEW g, NEW m \in Nat, NEW n \in Nat, m <= n
    PROVE  Seq(Seq(Instructions(g, m))) \subseteq Seq(Seq(Instructions(g, n)))
<1>1. Seq(1 .. m) \subseteq Seq(1 .. n)
  OBVIOUS
<1>2. Instructions(g, m) \subseteq Instructions(g, n)
  BY <1>1 DEF Instructions
<1> QED  BY <1>2

\* Instructions inserted into a block of a body.
LEMMA Inserted ==
    ASSUME NEW S, NEW body \in Seq(Seq(S)), NEW b \in 1 .. Len(body), NEW insts \in Seq(S)
    PROVE  inserted(body, b, insts) \in Seq(Seq(S)) /\ Len(inserted(body, b, insts)) = Len(body)
<1>1. body[b] \o insts \in Seq(S)
  OBVIOUS
<1> QED  BY <1>1 DEF inserted

\* A round that inserts instructions into a block of the opcode's and may add
\* blocks keeps the code right.
LEMMA Writing ==
    ASSUME NamesInv, CodeInv, phase = "compiling",
           NEW body, writes(body), Built(f, body), Len(body) \in Nat, Len(body) >= Len(Body)
    PROVE  /\ \A g \in DOMAIN funcs' : Built(g, funcs'[g])
           /\ blocks \in [0 .. Len(code) -> 1 .. Len(funcs'[f])]
<1>1. f \in DOMAIN funcs
  BY DEF NamesInv
<1>2. funcs'[f] = body /\ DOMAIN funcs' = DOMAIN funcs
  BY <1>1 DEF writes
<1>3. \A g \in DOMAIN funcs : g # f => funcs'[g] = funcs[g]
  BY DEF writes
<1>4. Len(Body) \in Nat /\ 1 .. Len(Body) \subseteq 1 .. Len(body)
  <2>1. Body \in Seq(Seq(Instructions(f, Len(Body))))
    BY <1>1 DEF CodeInv, Built, Body
  <2> QED  BY <2>1
<1> QED  BY <1>2, <1>3, <1>4 DEF CodeInv

\* The same where only one block changes.
LEMMA WritingBlock ==
    ASSUME NamesInv, CodeInv, phase = "compiling", NEW insts \in Seq(Instructions(f, Len(Body))),
           writes(inserted(Body, blocks[i], insts))
    PROVE  /\ \A g \in DOMAIN funcs' : Built(g, funcs'[g])
           /\ blocks \in [0 .. Len(code) -> 1 .. Len(funcs'[f])]
<1>1. Body \in Seq(Seq(Instructions(f, Len(Body))))
  BY DEF NamesInv, CodeInv, Built, Body
<1>2. blocks[i] \in 1 .. Len(Body)
  BY DEF CodeInv
<1> DEFINE body == inserted(Body, blocks[i], insts)
<1>4. body \in Seq(Seq(Instructions(f, Len(Body)))) /\ Len(body) = Len(Body)
  BY <1>1, <1>2, Inserted
<1>5. Len(Body) \in Nat /\ Built(f, body)
  BY <1>1, <1>4 DEF Built
<1> QED  BY <1>4, <1>5, Writing

\* What is inserted for an opcode is made of its own blocks.
LEMMA OpcodeInserts ==
    ASSUME NamesInv, CodeInv, phase = "compiling", i < Len(code)
    PROVE  /\ <<Code(frame)>> \in Seq(Instructions(f, Len(Body)))
           /\ \A d \in 0 .. Len(code) :
                  /\ <<Br(<<blocks[d]>>)>> \in Seq(Instructions(f, Len(Body)))
                  /\ <<Code(frame), Br(<<blocks[d]>>)>> \in Seq(Instructions(f, Len(Body)))
                  /\ \A e \in 0 .. Len(code) :
                         <<Code(frame), Br(<<blocks[d], blocks[e]>>)>> \in Seq(Instructions(f, Len(Body)))
           /\ i + 1 \in 0 .. Len(code)
<1>1. Len(Body) \in Nat
  BY DEF NamesInv, CodeInv, Built, Body
<1>2. \A d \in 0 .. Len(code) : blocks[d] \in 1 .. Len(Body)
  BY DEF CodeInv
<1>3. \A d, e \in 0 .. Len(code) :
          <<blocks[d]>> \in Seq(1 .. Len(Body)) /\ <<blocks[d], blocks[e]>> \in Seq(1 .. Len(Body))
  BY <1>2
<1>4. Code(frame) = Code(f)
  BY DEF CodeInv
<1>5. i + 1 \in 0 .. Len(code)
  BY DEF CodeInv
<1> DEFINE S == Instructions(f, Len(Body))
<1>7. Code(frame) \in S
  BY <1>1, <1>4, Made
<1>8. \A d, e \in 0 .. Len(code) : Br(<<blocks[d]>>) \in S /\ Br(<<blocks[d], blocks[e]>>) \in S
  BY <1>1, <1>3, Made
<1>9. \A x, y \in S : <<x>> \in Seq(S) /\ <<x, y>> \in Seq(S)
  OBVIOUS
<1> HIDE DEF S
<1>10. /\ <<Code(frame)>> \in Seq(S)
       /\ \A d \in 0 .. Len(code) :
              /\ <<Br(<<blocks[d]>>)>> \in Seq(S)
              /\ <<Code(frame), Br(<<blocks[d]>>)>> \in Seq(S)
              /\ \A e \in 0 .. Len(code) : <<Code(frame), Br(<<blocks[d], blocks[e]>>)>> \in Seq(S)
  BY <1>7, <1>8, <1>9
<1> QED  BY <1>5, <1>10 DEF S

\* What a round leaves alone of the second invariant.
LEMMA RoundKeeps ==
    ASSUME Round
    PROVE  /\ phase = "compiling" /\ i < Len(code)
           /\ UNCHANGED <<module, code, f, blocks, frame>>
           /\ \/ i' = i + 1 /\ phase' = phase
              \/ i' = i /\ phase' = "idle"
  BY DEF Round, jump, branchif, branchunless, branch, badBranch, newhash, badCount, nop, straight,
         unknown, Compiling, nextRound, fails, compilation

\* The three blocks of newhash and the branches to them.
LEMMA HashInserts ==
    ASSUME NamesInv, CodeInv, newhash
    PROVE  /\ \A g \in DOMAIN funcs' : Built(g, funcs'[g])
           /\ blocks \in [0 .. Len(code) -> 1 .. Len(funcs'[f])]
<1> DEFINE n     == Len(Body)
           e     == n + 1
           S     == Instructions(f, n + 3)
           insts == <<Code(frame), Br(<<e>>)>>
           inner == << <<Br(<<e + 1, e + 2>>)>>,
                       <<Phi(<<e, e + 1>>), Code(frame), Br(<<e + 1, e + 2>>)>>,
                       <<Code(frame), Br(<<blocks[i + 1]>>)>> >>
           body  == inserted(Body, blocks[i], insts)
<1>1. phase = "compiling" /\ i < Len(code) /\ writes(body \o inner)
  BY DEF newhash, Compiling
<1>2. n \in Nat /\ Body \in Seq(Seq(Instructions(f, n)))
  BY <1>1 DEF NamesInv, CodeInv, Built, Body
<1>3. Body \in Seq(Seq(S))
  BY <1>2, Grows
<1>4. blocks[i] \in 1 .. n /\ blocks[i + 1] \in 1 .. n + 3
  <2>1. i \in 0 .. Len(code) /\ i + 1 \in 0 .. Len(code)
    BY <1>1, OpcodeInserts DEF CodeInv
  <2>2. blocks[i] \in 1 .. n /\ blocks[i + 1] \in 1 .. n
    BY <1>1, <2>1 DEF CodeInv
  <2> QED  BY <1>2, <2>2
<1>5. /\ <<e>> \in Seq(1 .. n + 3) /\ <<e + 1, e + 2>> \in Seq(1 .. n + 3)
      /\ <<e, e + 1>> \in Seq(1 .. n + 3) /\ <<blocks[i + 1]>> \in Seq(1 .. n + 3)
  BY <1>2, <1>4
<1>6. /\ Code(frame) \in S /\ Br(<<e>>) \in S /\ Br(<<e + 1, e + 2>>) \in S
      /\ Phi(<<e, e + 1>>) \in S /\ Br(<<blocks[i + 1]>>) \in S
  <2>1. frame = f /\ n + 3 \in Nat
    BY <1>1, <1>2 DEF CodeInv
  <2> QED  BY <1>5, <2>1, Made
<1>7. insts \in Seq(S) /\ inner \in Seq(Seq(S)) /\ Len(inner) = 3
  <2> HIDE DEF S, e
  <2>1. \A x, y, z \in S : <<x>> \in Seq(S) /\ <<x, y>> \in Seq(S) /\ <<x, y, z>> \in Seq(S)
    OBVIOUS
  <2>2. \A x, y, z \in Seq(S) : <<x, y, z>> \in Seq(Seq(S)) /\ Len(<<x, y, z>>) = 3
    OBVIOUS
  <2> QED  BY <1>6, <2>1, <2>2
<1>8. body \in Seq(Seq(S)) /\ Len(body) = n
  <2> HIDE DEF S, insts
  <2> QED  BY <1>3, <1>4, <1>7, Inserted
<1>9. body \o inner \in Seq(Seq(S)) /\ Len(body \o inner) = n + 3
  <2> HIDE DEF S, body, inner, n
  <2>1. \A T : \A x, y \in Seq(T) : x \o y \in Seq(T) /\ Len(x \o y) = Len(x) + Len(y)
    OBVIOUS
  <2>2. body \o inner \in Seq(Seq(S)) /\ Len(body \o inner) = Len(body) + Len(inner)
    BY <1>7, <1>8, <2>1
  <2> QED  BY <1>7, <1>8, <2>2
<1>10. Built(f, body \o inner)
  BY <1>9 DEF Built
<1>11. Len(body \o inner) \in Nat /\ Len(body \o inner) >= Len(Body)
  <2> HIDE DEF body, inner
  <2> QED  BY <1>2, <1>9
<1> HIDE DEF body, inner
<1> QED  BY <1>1, <1>10, <1>11, Writing

\* A round keeps the code right.
LEMMA RoundWrites ==
    ASSUME NamesInv, CodeInv, Round
    PROVE  /\ \A g \in DOMAIN funcs' : Built(g, funcs'[g])
           /\ blocks \in [0 .. Len(code) -> 1 .. Len(funcs'[f])]
<1> USE RoundKeeps, OpcodeInserts
<1>1. i \in 0 .. Len(code) /\ i + 1 \in 0 .. Len(code)
  BY DEF CodeInv
<1>2. InRange => target(code, arg) \in 0 .. Len(code)
  BY DEF InRange
<1>3. CASE jump
  BY <1>2, <1>3, WritingBlock DEF jump
<1>4. CASE branchif \/ branchunless
  BY <1>1, <1>2, <1>4, WritingBlock DEF branchif, branchunless, branch
<1>5. CASE badBranch
  <2>1. <<>> \in Seq(Instructions(f, Len(Body)))
    OBVIOUS
  <2> QED  BY <1>5, <2>1, WritingBlock DEF badBranch
<1>6. CASE newhash
  BY <1>6, HashInserts
<1>7. CASE badCount
  BY <1>7, WritingBlock DEF badCount
<1>8. CASE nop
  BY <1>1, <1>8, WritingBlock DEF nop
<1>9. CASE straight
  BY <1>1, <1>9, WritingBlock DEF straight
<1>10. CASE unknown
  BY <1>10 DEF unknown, CodeInv, Body
<1> QED  BY <1>3, <1>4, <1>5, <1>6, <1>7, <1>8, <1>9, <1>10 DEF Round

\* A new function: an entry block, a block for each opcode, and the exit.
LEMMA BeginWrites ==
    ASSUME NamesInv, CodeInv, begin
    PROVE  CodeInv'
<1> DEFINE name == <<module, func_n>>
<1>1. get_or_insert_function(name) = <<>>
  BY NewName DEF get_or_insert_function
<1>2. PICK c \in Bytecodes :
          /\ code' = c
          /\ blocks' = [ j \in 0 .. Len(c) |-> 0 + 2 + j ]
          /\ funcs' = [ g \in DOMAIN funcs \cup {name} |->
                          IF g = name
                          THEN <<>> \o << <<Code(name), Br(<<0 + 2>>)>> >> \o create_blocks(c)
                          ELSE funcs[g] ]
  BY <1>1 DEF begin
<1>3. f' = name /\ frame' = name /\ i' = 0 /\ phase' = "compiling" /\ module' = module
  BY DEF begin, set_globals
<1>4. c \in Seq([op : Ops \cup {"unknown"}, arg : Int \cup {NoArg}]) /\ Len(c) \in Nat
  <2>1. c \in Seq([op : Ops \cup {"unknown"}, arg : Int \cup {NoArg}])
    BY BytecodesAssumption, Zenon
  <2>2. \A T : \A x \in Seq(T) : Len(x) \in Nat
    OBVIOUS
  <2> QED  BY <2>1, <2>2, Zenon
<1> DEFINE n     == Len(c) + 2
           S     == Instructions(name, n)
           entry == <<Code(name), Br(<<2>>)>>
           new   == <<entry>> \o create_blocks(c)
<1>5. entry \in Seq(S)
  <2>1. <<2>> \in Seq(1 .. n) /\ n \in Nat
    BY <1>4
  <2>2. Code(name) \in S /\ Br(<<2>>) \in S
    BY <2>1, Made
  <2> HIDE DEF S
  <2> QED  BY <2>2
<1>6. create_blocks(c) \in Seq(Seq(S)) /\ Len(create_blocks(c)) = Len(c) + 1
  <2> HIDE DEF S
  <2>1. <<>> \in Seq(S)
    OBVIOUS
  <2> QED  BY <1>4, <2>1 DEF create_blocks
<1>7. new \in Seq(Seq(S)) /\ Len(new) = n
  <2> HIDE DEF S, entry
  <2> QED  BY <1>4, <1>5, <1>6
<1>8. funcs' = [ g \in DOMAIN funcs \cup {name} |-> IF g = name THEN new ELSE funcs[g] ]
  <2>1. <<>> \o << entry >> \o create_blocks(c) = new
    OBVIOUS
  <2> QED  BY <1>2, <2>1
<1>9. Built(name, new)
  BY <1>7 DEF Built
<1>10. \A g \in DOMAIN funcs' : Built(g, funcs'[g])
  <2> HIDE DEF new, name
  <2> QED  BY <1>8, <1>9 DEF CodeInv
<1>11. Body' = new
  <2> HIDE DEF new, name
  <2> QED  BY <1>3, <1>8 DEF Body
<1>12. /\ blocks' \in [0 .. Len(code') -> 1 .. Len(Body')]
       /\ \A j, k \in 0 .. Len(code') : j # k => blocks'[j] # blocks'[k]
  <2> HIDE DEF new
  <2> QED  BY <1>2, <1>4, <1>7, <1>11
<1>13. module' \in 0 .. MaxStarts /\ i' \in 0 .. Len(code')
  BY <1>2, <1>3, <1>4 DEF CodeInv
<1> QED  BY <1>2, <1>3, <1>4, <1>10, <1>12, <1>13 DEF CodeInv

LEMMA CodeInductive == Spec => [](NamesInv /\ CodeInv)
<1>1. Init => CodeInv
  BY BoundsAssumption DEF Init, CodeInv
<1>2. ASSUME NamesInv, CodeInv, [Next]_vars PROVE CodeInv'
  <2>1. CASE start
    <3>1. module' \in 0 .. MaxStarts
      BY <1>2, <2>1, BoundsAssumption DEF start, CodeInv
    <3> QED  BY <1>2, <2>1, <3>1 DEF start, CodeInv, Body, compilation
  <2>2. CASE begin
    BY <1>2, <2>2, BeginWrites
  <2>3. CASE Round
    <3>1. i' \in 0 .. Len(code)
      BY <1>2, <2>3, RoundKeeps DEF CodeInv
    <3> QED  BY <1>2, <2>3, <3>1, RoundKeeps, RoundWrites DEF CodeInv, Body
  <2>4. CASE finish
    <3>1. <<Code(frame), Ret>> \in Seq(Instructions(f, Len(Body)))
      <4>1. Len(Body) \in Nat /\ frame = f
        BY <1>2, <2>4 DEF finish, NamesInv, CodeInv, Built, Body
      <4> QED  BY <4>1, Made
    <3>2. \A g \in DOMAIN funcs' : Built(g, funcs'[g])
      BY <1>2, <2>4, <3>1, WritingBlock DEF finish
    <3> QED  BY <1>2, <2>4, <3>2 DEF finish, CodeInv, compilation
  <2>5. CASE UNCHANGED vars
    BY <1>2, <2>5 DEF vars, CodeInv, Body
  <2> QED  BY <1>2, <2>1, <2>2, <2>3, <2>4, <2>5 DEF Next
<1> QED  BY <1>1, <1>2, NamesInductive, PTL DEF Spec

\* The code of a function addresses the allocas of that function, after any
\* history of failed compilations and restarts.
THEOREM OwnAllocas == Spec => []OwnFrame
<1>1. ASSUME CodeInv PROVE OwnFrame
  <2>1. ASSUME NEW g \in DOMAIN funcs, NEW b \in DOMAIN funcs[g], NEW n \in Insts(funcs[g], b),
               n.op = "code"
        PROVE  n.frame = g
    <3>1. Built(g, funcs[g])
      BY <1>1 DEF CodeInv
    <3>2. n \in Instructions(g, Len(funcs[g]))
      BY <3>1 DEF Built, Insts
    <3> QED  BY <2>1, <3>2 DEF Instructions, Code, Ret
  <2> QED  BY <2>1 DEF OwnFrame
<1> QED  BY <1>1, CodeInductive, PTL

\* Functions are lists of blocks of instructions that branch to blocks of the
\* same function, and blocks lists distinct blocks of the one being built.
THEOREM WellTyped == Spec => []TypeOK
<1>1. ASSUME NamesInv, CodeInv PROVE TypeOK
  <2>1. ASSUME NEW g \in DOMAIN funcs, NEW b \in DOMAIN funcs[g], NEW n \in Insts(funcs[g], b)
        PROVE  IsInst(n, funcs[g])
    <3>1. Built(g, funcs[g])
      BY <1>1 DEF CodeInv
    <3>2. n \in Instructions(g, Len(funcs[g]))
      BY <3>1 DEF Built, Insts
    <3>3. DOMAIN funcs[g] = 1 .. Len(funcs[g])
      BY <3>1 DEF Built
    <3> QED  BY <3>2, <3>3 DEF Instructions, IsInst, Code
  <2>2. phase = "compiling" =>
            /\ f \in DOMAIN funcs /\ frame \in DOMAIN funcs
            /\ DOMAIN blocks = 0 .. Len(code)
            /\ \A j, k \in DOMAIN blocks :
                   blocks[j] \in DOMAIN Body /\ (j # k => blocks[j] # blocks[k])
    BY <1>1 DEF NamesInv, CodeInv, Built, Body
  <2> QED  BY <1>1, <2>1, <2>2 DEF NamesInv, CodeInv, TypeOK
<1> QED  BY <1>1, CodeInductive, PTL

-----------------------------------------------------------------------------
(* The functions that compile_bytecode returns are well-formed and follow  *)
(* their bytecode.                                                         *)

\* A block with one terminator, at its end, and phi nodes at its start only.
Terminated(ins) ==
    /\ ins # <<>>
    /\ \A k \in DOMAIN ins :
           /\ ins[k].op \in {"br", "ret"} <=> k = Len(ins)
           /\ ins[k].op = "phi" => k = 1

HasPhi(body, b) == \E k \in DOMAIN body[b] : body[b][k].op = "phi"

\* The loop of a newhash is entered from the block before it and from itself.
PhiRight(body, b) == body[b][1].from = <<b - 1, b>> /\ Preds(body, b) = {b - 1, b}

OpcodeBlocks == { blocks[j] : j \in 0 .. Len(code) }
Ahead        == { blocks[j] : j \in i .. Len(code) }

\* A function under construction: the blocks of the opcodes ahead are empty,
\* the others complete, and nothing branches to the entry block.
Growing(body, ahead) ==
    /\ Preds(body, 1) = {}
    /\ \A b \in ahead : body[b] = <<>>
    /\ \A b \in DOMAIN body \ ahead : Terminated(body[b])
    /\ \A b \in DOMAIN body : HasPhi(body, b) => b \notin OpcodeBlocks /\ PhiRight(body, b)

\* The third invariant, on top of NamesInv and CodeInv.
FlowInv ==
    /\ \A g \in DOMAIN returned : WellFormed(funcs[g])
    /\ phase = "compiling" => 1 \in DOMAIN Body \ OpcodeBlocks /\ Growing(Body, Ahead)

\* The blocks a round completes: that of the opcode, and those it adds.
Completed(body) == {blocks[i]} \cup (Len(Body) + 1 .. Len(body))

\* What a round may do to the body: complete blocks that branch to blocks of
\* opcodes and to each other.
Emits(body) ==
    /\ Len(body) \in Nat /\ Len(Body) <= Len(body) /\ DOMAIN body = 1 .. Len(body)
    /\ \A a \in 1 .. Len(Body) : a # blocks[i] => body[a] = Body[a]
    /\ \A a \in Completed(body) :
           /\ Terminated(body[a])
           /\ Dests(body, a) \subseteq OpcodeBlocks \cup (Len(Body) + 1 .. Len(body))
           /\ HasPhi(body, a) => a > Len(Body) /\ PhiRight(body, a)

\* The blocks that a branch or a list names.
Ends(d) == { d[m] : m \in DOMAIN d }

\* Where the conditional branch that ends block b goes on false.
OnFalse(body, b) == body[b][Len(body[b])].dests[1]

\* From the block of opcode j, control goes on as the bytecode does.
Follows(body, c, bs, j) ==
    /\ Reached(body, Ends(bs), bs[j]) = { bs[k] : k \in successors(c, j) }
    /\ c[j + 1].op = "branchif" => OnFalse(body, bs[j]) = bs[j + 1]
    /\ c[j + 1].op = "branchunless" => OnFalse(body, bs[j]) = bs[target(c, c[j + 1].arg)]

\* The function is entered at its first opcode.
Entered(body, bs) == Reached(body, Ends(bs), 1) = {bs[0]}

\* The fourth invariant: what has been compiled follows the bytecode.
PathInv ==
    /\ \A g \in DOMAIN returned :
           LET c  == returned[g].code
               bs == returned[g].blocks
           IN  /\ Entered(funcs[g], bs)
               /\ \A j \in 0 .. Len(c) - 1 : Follows(funcs[g], c, bs, j)
               /\ Dests(funcs[g], bs[Len(c)]) = {}
    /\ phase = "compiling" =>
           Entered(Body, blocks) /\ \A j \in 0 .. i - 1 : Follows(Body, code, blocks, j)

-----------------------------------------------------------------------------
(* Blocks and their destinations.                                          *)

LEMMA EndsOf ==
    ASSUME NEW x, NEW y
    PROVE  Ends(<<x>>) = {x} /\ Ends(<<x, y>>) = {x, y}
  BY DEF Ends

LEMMA IsDest ==
    ASSUME NEW body, NEW a, NEW c
    PROVE  c \in Dests(body, a) <=>
               \E k \in DOMAIN body[a] : /\ body[a][k].op = "br"
                                         /\ \E m \in DOMAIN body[a][k].dests : body[a][k].dests[m] = c
  BY DEF Dests, Insts

LEMMA SameBlock ==
    ASSUME NEW body, NEW other, NEW a, other[a] = body[a]
    PROVE  Dests(other, a) = Dests(body, a) /\ (HasPhi(other, a) <=> HasPhi(body, a))
  BY DEF Dests, Insts, HasPhi

\* An empty block goes nowhere.
LEMMA EmptyBlock ==
    ASSUME NEW body, NEW a, body[a] = <<>>
    PROVE  Dests(body, a) = {} /\ ~HasPhi(body, a)
  BY DEF Dests, Insts, HasPhi

\* The forms of block that the compiler makes.
LEMMA BranchBlock ==
    ASSUME NEW body, NEW a, NEW d, body[a] = <<Br(d)>>
    PROVE  /\ Terminated(body[a]) /\ ~HasPhi(body, a)
           /\ Dests(body, a) = Ends(d)
<1>1. /\ body[a] # <<>> /\ Len(body[a]) = 1 /\ DOMAIN body[a] = {1}
      /\ body[a][1].op = "br" /\ body[a][1].dests = d
  BY DEF Br
<1>2. \A c : c \in Dests(body, a) <=> c \in Ends(d)
  BY <1>1, IsDest DEF Ends
<1> QED  BY <1>1, <1>2 DEF Terminated, HasPhi

LEMMA CodeBlock ==
    ASSUME NEW body, NEW a, NEW fr, NEW d, body[a] = <<Code(fr), Br(d)>>
    PROVE  /\ Terminated(body[a]) /\ ~HasPhi(body, a)
           /\ Dests(body, a) = Ends(d)
<1>1. /\ body[a] # <<>> /\ Len(body[a]) = 2 /\ DOMAIN body[a] = {1, 2}
      /\ body[a][1].op = "code" /\ body[a][2].op = "br" /\ body[a][2].dests = d
  BY DEF Br, Code
<1>2. \A c : c \in Dests(body, a) <=> c \in Ends(d)
  BY <1>1, IsDest DEF Ends
<1> QED  BY <1>1, <1>2 DEF Terminated, HasPhi

LEMMA LoopBlock ==
    ASSUME NEW body, NEW a, NEW fr, NEW from, NEW d, body[a] = <<Phi(from), Code(fr), Br(d)>>
    PROVE  /\ Terminated(body[a]) /\ body[a][1].from = from
           /\ Dests(body, a) = Ends(d)
<1>1. /\ body[a] # <<>> /\ Len(body[a]) = 3 /\ DOMAIN body[a] = {1, 2, 3}
      /\ body[a][1].op = "phi" /\ body[a][1].from = from
      /\ body[a][2].op = "code" /\ body[a][3].op = "br" /\ body[a][3].dests = d
  BY DEF Br, Code, Phi
<1>2. \A c : c \in Dests(body, a) <=> c \in Ends(d)
  BY <1>1, IsDest DEF Ends
<1> QED  BY <1>1, <1>2 DEF Terminated

LEMMA ExitBlock ==
    ASSUME NEW body, NEW a, NEW fr, body[a] = <<Code(fr), Ret>>
    PROVE  Terminated(body[a]) /\ ~HasPhi(body, a) /\ Dests(body, a) = {}
<1>1. /\ body[a] # <<>> /\ Len(body[a]) = 2 /\ DOMAIN body[a] = {1, 2}
      /\ body[a][1].op = "code" /\ body[a][2].op = "ret"
  BY DEF Ret, Code
<1>2. \A c : c \notin Dests(body, a)
  BY <1>1, IsDest
<1> QED  BY <1>1, <1>2 DEF Terminated, HasPhi
-----------------------------------------------------------------------------
(* What control reaches.                                                   *)

\* The blocks of S and those control reaches from them next; ends stop it.
Spread(body, ends, S) == S \cup UNION { Dests(body, d) : d \in S \ ends }

\* The recursion in Reached, unfolded.
LEMMA Reaching ==
    ASSUME NEW body, NEW ends, NEW b
    PROVE  LET S(n) == Spread(body, ends, n)
           IN  Reached(body, ends, b) = S(S(S(Dests(body, b)))) \cap ends
<1> DEFINE S(x)     == Spread(body, ends, x)
           first    == Dests(body, b)
           step(r, n) == IF n = 0 THEN first
                      ELSE r[n - 1] \cup UNION { Dests(body, d) : d \in r[n - 1] \ ends }
           witness  == [n \in 0 .. 3 |-> IF n = 0 THEN first ELSE IF n = 1 THEN S(first)
                                         ELSE IF n = 2 THEN S(S(first)) ELSE S(S(S(first)))]
           reach    == CHOOSE r : r = [n \in 0 .. 3 |-> step(r, n)]
<1>1. witness = [n \in 0 .. 3 |-> step(witness, n)]
  <2>1. /\ witness[0] = first /\ witness[1] = S(first)
        /\ witness[2] = S(S(first)) /\ witness[3] = S(S(S(first)))
    <3> HIDE DEF S, first
    <3> QED OBVIOUS
  <2>2. ASSUME NEW n \in 0 .. 3 PROVE witness[n] = step(witness, n)
    <3> HIDE DEF witness, first
    <3>1. n = 0 \/ n = 1 \/ n = 2 \/ n = 3
      OBVIOUS
    <3>2. 1 - 1 = 0 /\ 2 - 1 = 1 /\ 3 - 1 = 2
      OBVIOUS
    <3> QED  BY <2>1, <3>1, <3>2 DEF Spread
  <2> HIDE DEF step
  <2> QED  BY <2>2
<1>2. reach = [n \in 0 .. 3 |-> step(reach, n)]
  <2> HIDE DEF step, witness
  <2> QED  BY <1>1
<1> HIDE DEF reach
<1>3. reach[0] = first
  BY <1>2
<1>4. /\ reach[1] = S(reach[0]) /\ reach[2] = S(reach[1]) /\ reach[3] = S(reach[2])
  <2> HIDE DEF first
  <2>1. \A n \in 0 .. 3 : reach[n] = step(reach, n)
    <3> HIDE DEF step
    <3> QED  BY <1>2
  <2>2. 1 - 1 = 0 /\ 2 - 1 = 1 /\ 3 - 1 = 2
    OBVIOUS
  <2> QED  BY <2>1, <2>2 DEF Spread
<1>5. reach[3] = S(S(S(first)))
  BY <1>3, <1>4
<1>6. Reached(body, ends, b) = reach[3] \cap ends
  BY DEF Reached, reach
<1> QED  BY <1>5, <1>6

\* A block whose branch goes to opcodes' blocks only.
LEMMA ReachesDirectly ==
    ASSUME NEW body, NEW ends, NEW b, Dests(body, b) \subseteq ends
    PROVE  Reached(body, ends, b) = Dests(body, b)
<1>1. Spread(body, ends, Dests(body, b)) = Dests(body, b)
  BY DEF Spread
<1> QED  BY <1>1, Reaching

\* A block whose branch goes to the blocks of a newhash loop: they lead on to
\* block x only.
LEMMA ReachesThroughLoop ==
    ASSUME NEW body, NEW ends, NEW b, NEW e1, NEW e2, NEW e3, NEW x \in ends,
           e1 \notin ends, e2 \notin ends, e3 \notin ends,
           Dests(body, b) = {e1}, Dests(body, e1) = {e2, e3}, Dests(body, e2) = {e2, e3},
           Dests(body, e3) = {x}
    PROVE  Reached(body, ends, b) = {x}
<1>1. Spread(body, ends, {e1}) = {e1, e2, e3}
  BY DEF Spread
<1>2. Spread(body, ends, {e1, e2, e3}) = {e1, e2, e3, x}
  <2>1. {e1, e2, e3} \ ends = {e1, e2, e3}
    OBVIOUS
  <2> QED  BY <2>1 DEF Spread
<1>3. Spread(body, ends, {e1, e2, e3, x}) = {e1, e2, e3, x}
  <2>1. {e1, e2, e3, x} \ ends = {e1, e2, e3}
    OBVIOUS
  <2> QED  BY <2>1 DEF Spread
<1>4. {e1, e2, e3, x} \cap ends = {x}
  OBVIOUS
<1> QED  BY <1>1, <1>2, <1>3, <1>4, Reaching

\* The blocks of S go to the same blocks in both bodies, inside D.
Alike(body, other, S, D) == \A d \in S : Dests(body, d) \subseteq D /\ Dests(other, d) = Dests(body, d)

\* Blocks that lead on as before reach what they reached before.
LEMMA ReachesAsBefore ==
    ASSUME NEW body, NEW other, NEW ends, NEW D, NEW b,
           Dests(body, b) \subseteq D, Dests(other, b) = Dests(body, b),
           Alike(body, other, D \ ends, D)
    PROVE  Reached(other, ends, b) = Reached(body, ends, b)
<1>1. \A S \in SUBSET D : /\ Spread(body, ends, S) \in SUBSET D
                         /\ Spread(other, ends, S) = Spread(body, ends, S)
  BY DEF Spread, Alike
<1> DEFINE S(x) == Spread(body, ends, x)
           T(x) == Spread(other, ends, x)
           s    == Dests(body, b)
<1>2. T(s) = S(s) /\ T(S(s)) = S(S(s)) /\ T(S(S(s))) = S(S(S(s)))
  <2>1. s \in SUBSET D
    OBVIOUS
  <2>2. S(s) \in SUBSET D /\ T(s) = S(s)
    BY <1>1, <2>1
  <2>3. S(S(s)) \in SUBSET D /\ T(S(s)) = S(S(s))
    BY <1>1, <2>2
  <2> QED  BY <1>1, <2>2, <2>3
<1>3. /\ Reached(body, ends, b) = S(S(S(s))) \cap ends
      /\ Reached(other, ends, b) = T(T(T(s))) \cap ends
  <2>1. Reached(other, ends, b) = T(T(T(Dests(other, b)))) \cap ends
    BY Reaching
  <2> QED  BY <2>1, Reaching
<1> QED  BY <1>2, <1>3

-----------------------------------------------------------------------------
(* A round.                                                                *)

LEMMA CompilingFacts ==
    ASSUME NamesInv, CodeInv, FlowInv, phase = "compiling"
    PROVE  /\ f \in DOMAIN funcs /\ f \notin DOMAIN returned /\ frame = f
           /\ Len(Body) \in Nat /\ DOMAIN Body = 1 .. Len(Body)
           /\ Len(code) \in Nat /\ i \in 0 .. Len(code)
           /\ \A j \in 0 .. Len(code) : blocks[j] \in 1 .. Len(Body)
           /\ \A j, k \in 0 .. Len(code) : j # k => blocks[j] # blocks[k]
           /\ 1 \in DOMAIN Body \ OpcodeBlocks
           /\ Growing(Body, Ahead)
<1>1. f \in DOMAIN funcs /\ f \notin DOMAIN returned /\ frame = f
  BY DEF NamesInv, CodeInv
<1>2. Len(Body) \in Nat /\ DOMAIN Body = 1 .. Len(Body)
  <2>1. Body \in Seq(Seq(Instructions(f, Len(Body))))
    BY <1>1 DEF CodeInv, Built, Body
  <2> QED  BY <2>1
<1>3. /\ Len(code) \in Nat /\ i \in 0 .. Len(code)
      /\ \A j \in 0 .. Len(code) : blocks[j] \in 1 .. Len(Body)
      /\ \A j, k \in 0 .. Len(code) : j # k => blocks[j] # blocks[k]
  <2>1. code \in Seq([op : Ops \cup {"unknown"}, arg : Int \cup {NoArg}])
    BY DEF CodeInv
  <2>2. \A T : \A x \in Seq(T) : Len(x) \in Nat
    OBVIOUS
  <2>3. Len(code) \in Nat
    BY <2>1, <2>2, Zenon
  <2> QED  BY <2>3 DEF CodeInv
<1>4. 1 \in DOMAIN Body \ OpcodeBlocks /\ Growing(Body, Ahead)
  BY DEF FlowInv
<1> QED  BY <1>1, <1>2, <1>3, <1>4

\* Where a branch of a block goes.
LEMMA DestsInside ==
    ASSUME NamesInv, CodeInv, phase = "compiling", NEW a \in DOMAIN Body
    PROVE  Dests(Body, a) \subseteq 1 .. Len(Body)
<1> SUFFICES ASSUME NEW c \in Dests(Body, a) PROVE c \in 1 .. Len(Body)
  OBVIOUS
<1>1. PICK k \in DOMAIN Body[a] : /\ Body[a][k].op = "br"
                                  /\ \E m \in DOMAIN Body[a][k].dests : Body[a][k].dests[m] = c
  BY IsDest
<1>2. Body[a][k] \in Instructions(f, Len(Body))
  BY DEF NamesInv, CodeInv, Built, Body
<1>3. Body[a][k] \in [op : {"br"}, dests : Seq(1 .. Len(Body))]
  BY <1>1, <1>2 DEF Instructions, Code, Ret
<1> QED  BY <1>1, <1>3

\* Blocks that are neither an opcode's nor new keep their predecessors.
LEMMA PredsKept ==
    ASSUME NamesInv, CodeInv, FlowInv, phase = "compiling", NEW body, Emits(body),
           NEW b \in 1 .. Len(Body), b \notin OpcodeBlocks
    PROVE  Preds(body, b) = Preds(Body, b)
<1> USE CompilingFacts
<1>1. Dests(Body, blocks[i]) = {}
  BY EmptyBlock DEF Growing, Ahead
<1>2. blocks[i] \in OpcodeBlocks
  BY DEF OpcodeBlocks
<1>3. \A a \in 1 .. Len(Body) : a # blocks[i] => Dests(body, a) = Dests(Body, a)
  BY SameBlock DEF Emits
<1>4. \A a \in Completed(body) : b \notin Dests(body, a)
  BY DEF Emits
<1>5. \A a \in DOMAIN body : a \in Completed(body) \/ (a \in 1 .. Len(Body) /\ a # blocks[i])
  BY DEF Emits, Completed
<1>6. 1 .. Len(Body) \subseteq DOMAIN body
  BY DEF Emits
<1>7. blocks[i] \in Completed(body)
  BY DEF Completed
<1>8. \A a : a \in Preds(body, b) <=> a \in DOMAIN body /\ b \in Dests(body, a)
  BY DEF Preds
<1>9. \A a : a \in Preds(Body, b) <=> a \in DOMAIN Body /\ b \in Dests(Body, a)
  BY DEF Preds
<1>10. \A a : a \in Preds(body, b) <=> a \in Preds(Body, b)
  <2> SUFFICES ASSUME NEW a PROVE a \in Preds(body, b) <=> a \in Preds(Body, b)
    OBVIOUS
  <2>1. CASE a \in 1 .. Len(Body) /\ a # blocks[i]
    BY <2>1, <1>3, <1>6, <1>8, <1>9
  <2>2. CASE a = blocks[i]
    BY <2>2, <1>1, <1>4, <1>7, <1>8, <1>9
  <2>3. CASE a \notin 1 .. Len(Body)
    BY <2>3, <1>4, <1>5, <1>8, <1>9
  <2> QED  BY <2>1, <2>2, <2>3
<1> QED  BY <1>10

\* After a round the function is as complete as its blocks.
LEMMA Grown ==
    ASSUME NamesInv, CodeInv, FlowInv, phase = "compiling", NEW body, Emits(body)
    PROVE  /\ 1 \in DOMAIN body \ OpcodeBlocks
           /\ Growing(body, { blocks[j] : j \in i + 1 .. Len(code) })
<1> DEFINE ahead == { blocks[j] : j \in i + 1 .. Len(code) }
<1> USE CompilingFacts
<1>1. 1 \in DOMAIN body \ OpcodeBlocks
  BY DEF Emits
<1>2. Preds(body, 1) = {}
  <2>1. 1 \in 1 .. Len(Body) /\ 1 \notin OpcodeBlocks
    OBVIOUS
  <2> QED  BY <2>1, PredsKept DEF Growing
<1>3. ahead \subseteq Ahead /\ blocks[i] \notin ahead /\ Ahead \subseteq ahead \cup {blocks[i]}
  BY DEF Ahead
<1>4. ahead \subseteq 1 .. Len(Body)
  OBVIOUS
<1>5. \A b \in ahead : body[b] = <<>>
  BY <1>3, <1>4 DEF Emits, Growing
<1>6. \A b \in DOMAIN body \ ahead : Terminated(body[b])
  <2> SUFFICES ASSUME NEW b \in DOMAIN body \ ahead PROVE Terminated(body[b])
    OBVIOUS
  <2>1. CASE b \in Completed(body)
    BY <2>1 DEF Emits
  <2>2. CASE b \in 1 .. Len(Body) /\ b # blocks[i]
    <3>1. b \in DOMAIN Body \ Ahead
      BY <2>2, <1>3
    <3> QED  BY <2>2, <3>1 DEF Emits, Growing
  <2>3. b \in Completed(body) \/ (b \in 1 .. Len(Body) /\ b # blocks[i])
    BY DEF Emits, Completed
  <2> QED  BY <2>1, <2>2, <2>3
<1>7. \A b \in DOMAIN body : HasPhi(body, b) => b \notin OpcodeBlocks /\ PhiRight(body, b)
  <2> SUFFICES ASSUME NEW b \in DOMAIN body, HasPhi(body, b)
               PROVE  b \notin OpcodeBlocks /\ PhiRight(body, b)
    OBVIOUS
  <2>1. CASE b \in Completed(body)
    <3>1. b > Len(Body) /\ PhiRight(body, b)
      BY <2>1 DEF Emits
    <3>2. b \in Nat
      BY DEF Emits
    <3> QED  BY <3>1, <3>2 DEF OpcodeBlocks
  <2>2. CASE b \in 1 .. Len(Body) /\ b # blocks[i]
    <3>1. body[b] = Body[b]
      BY <2>2 DEF Emits
    <3>2. b \notin OpcodeBlocks /\ PhiRight(Body, b)
      BY <2>2, <3>1, SameBlock DEF Growing
    <3>3. Preds(body, b) = Preds(Body, b)
      BY <2>2, <3>2, PredsKept
    <3> QED  BY <3>1, <3>2, <3>3 DEF PhiRight
  <2>3. b \in Completed(body) \/ (b \in 1 .. Len(Body) /\ b # blocks[i])
    BY DEF Emits, Completed
  <2> QED  BY <2>1, <2>2, <2>3
<1> HIDE DEF ahead
<1> QED  BY <1>1, <1>2, <1>5, <1>6, <1>7 DEF Growing, ahead

\* A complete function is well-formed.
LEMMA Complete ==
    ASSUME NEW body, Built(f, body), Growing(body, {})
    PROVE  WellFormed(body)
<1>1. ASSUME NEW b \in DOMAIN body, NEW k \in DOMAIN body[b], body[b][k].op = "phi"
      PROVE  /\ k = 1
             /\ Preds(body, b) = { body[b][k].from[m] : m \in DOMAIN body[b][k].from }
             /\ Len(body[b][k].from) = Cardinality(Preds(body, b))
  <2>1. k = 1
    BY <1>1 DEF Growing, Terminated
  <2>2. body[b][1].from = <<b - 1, b>> /\ Preds(body, b) = {b - 1, b}
    BY <1>1 DEF Growing, HasPhi, PhiRight
  <2>3. b \in Nat
    BY DEF Built
  <2>4. Cardinality({b - 1, b}) = 2
    <3>1. {b - 1, b} = {b - 1} \cup {b} /\ b \notin {b - 1}
      BY <2>3
    <3>2. IsFiniteSet({b - 1}) /\ Cardinality({b - 1}) = 1
      BY FS_Singleton
    <3> QED  BY <3>1, <3>2, FS_AddElement
  <2>5. DOMAIN <<b - 1, b>> = {1, 2} /\ Len(<<b - 1, b>>) = 2
    OBVIOUS
  <2>6. { <<b - 1, b>>[m] : m \in {1, 2} } = {b - 1, b}
    OBVIOUS
  <2> QED  BY <2>1, <2>2, <2>4, <2>5, <2>6
<1> QED  BY <1>1 DEF WellFormed, Growing, Terminated
-----------------------------------------------------------------------------
(* The rounds.                                                             *)

\* Instructions inserted into the block of an opcode, which was empty.
LEMMA OneBlock ==
    ASSUME NamesInv, CodeInv, FlowInv, phase = "compiling", NEW insts \in Seq(Instructions(f, Len(Body))),
           NEW body, body = inserted(Body, blocks[i], insts)
    PROVE  /\ Len(body) = Len(Body) /\ DOMAIN body = 1 .. Len(Body)
           /\ body[blocks[i]] = insts
           /\ \A a \in 1 .. Len(Body) : a # blocks[i] => body[a] = Body[a]
           /\ Built(f, body)
<1>1. Body \in Seq(Seq(Instructions(f, Len(Body)))) /\ blocks[i] \in 1 .. Len(Body)
  BY DEF NamesInv, CodeInv, Built, Body
<1>2. body \in Seq(Seq(Instructions(f, Len(Body)))) /\ Len(body) = Len(Body)
  BY <1>1, Inserted
<1>3. Body[blocks[i]] = <<>>
  BY CompilingFacts DEF Growing, Ahead
<1>4. <<>> \o insts = insts
  OBVIOUS
<1>5. body[blocks[i]] = insts /\ \A a \in 1 .. Len(Body) : a # blocks[i] => body[a] = Body[a]
  BY <1>1, <1>3, <1>4 DEF inserted
<1> QED  BY <1>2, <1>5 DEF Built

\* A round that completes the block of the opcode and adds none.
LEMMA OneBlockEmits ==
    ASSUME NamesInv, CodeInv, FlowInv, phase = "compiling", NEW insts \in Seq(Instructions(f, Len(Body))),
           NEW body, body = inserted(Body, blocks[i], insts),
           Terminated(body[blocks[i]]), ~HasPhi(body, blocks[i]), Dests(body, blocks[i]) \subseteq OpcodeBlocks
    PROVE  Emits(body)
<1>1. Len(body) = Len(Body) /\ DOMAIN body = 1 .. Len(Body) /\ Len(Body) \in Nat
  BY OneBlock, CompilingFacts
<1>2. \A a \in 1 .. Len(Body) : a # blocks[i] => body[a] = Body[a]
  BY OneBlock
<1>3. Completed(body) = {blocks[i]}
  BY <1>1 DEF Completed
<1> QED  BY <1>1, <1>2, <1>3 DEF Emits

\* A block that ends in a branch to opcodes' blocks.
LEMMA BranchEmits ==
    ASSUME NamesInv, CodeInv, FlowInv, phase = "compiling", NEW d,
           Ends(d) \subseteq OpcodeBlocks,
           NEW insts \in Seq(Instructions(f, Len(Body))), insts = <<Br(d)>> \/ insts = <<Code(frame), Br(d)>>
    PROVE  LET body == inserted(Body, blocks[i], insts)
           IN  /\ Emits(body) /\ Reached(body, OpcodeBlocks, blocks[i]) = Ends(d)
               /\ OnFalse(body, blocks[i]) = d[1]
<1> DEFINE body == inserted(Body, blocks[i], insts)
<1>1. body[blocks[i]] = insts
  BY OneBlock
<1>2. /\ Terminated(body[blocks[i]]) /\ ~HasPhi(body, blocks[i])
      /\ Dests(body, blocks[i]) = Ends(d)
  <2> HIDE DEF body
  <2>1. CASE insts = <<Br(d)>>
    <3>1. body[blocks[i]] = <<Br(d)>>
      BY <1>1, <2>1
    <3> QED  BY <3>1, BranchBlock
  <2>2. CASE insts = <<Code(frame), Br(d)>>
    <3>1. body[blocks[i]] = <<Code(frame), Br(d)>>
      BY <1>1, <2>2
    <3> QED  BY <3>1, CodeBlock
  <2> QED  BY <2>1, <2>2
<1> HIDE DEF body
<1>3. Emits(body)
  BY <1>2, OneBlockEmits DEF body
<1>4. Reached(body, OpcodeBlocks, blocks[i]) = Ends(d)
  BY <1>2, ReachesDirectly
<1>5. OnFalse(body, blocks[i]) = d[1]
  <2>1. CASE insts = <<Br(d)>>
    BY <1>1, <2>1 DEF OnFalse, Br
  <2>2. CASE insts = <<Code(frame), Br(d)>>
    BY <1>1, <2>2 DEF OnFalse, Br
  <2> QED  BY <2>1, <2>2
<1> QED  BY <1>3, <1>4, <1>5 DEF body

\* Blocks added at the end of a body.
LEMMA Appended ==
    ASSUME NEW S, NEW T, NEW x \in Seq(S), NEW y \in Seq(T)
    PROVE  /\ Len(x \o y) = Len(x) + Len(y)
           /\ DOMAIN (x \o y) = 1 .. Len(x) + Len(y)
           /\ \A a \in 1 .. Len(x) : (x \o y)[a] = x[a]
           /\ \A a \in 1 .. Len(y) : (x \o y)[Len(x) + a] = y[a]
  OBVIOUS

\* The three blocks of newhash.
LEMMA HashEmits ==
    ASSUME NamesInv, CodeInv, FlowInv, newhash
    PROVE  \E body : /\ writes(body) /\ Emits(body)
                     /\ Reached(body, OpcodeBlocks, blocks[i]) = {blocks[i + 1]}
<1> DEFINE n     == Len(Body)
           insts == <<Code(frame), Br(<<n + 1>>)>>
           inner == << <<Br(<<n + 1 + 1, n + 1 + 2>>)>>,
                       <<Phi(<<n + 1, n + 1 + 1>>), Code(frame), Br(<<n + 1 + 1, n + 1 + 2>>)>>,
                       <<Code(frame), Br(<<blocks[i + 1]>>)>> >>
           first == inserted(Body, blocks[i], insts)
           body  == first \o inner
<1>1. phase = "compiling" /\ i < Len(code) /\ writes(body)
  BY DEF newhash, Compiling
<1>2. n \in Nat /\ DOMAIN Body = 1 .. n /\ blocks[i] \in 1 .. n
  BY <1>1, CompilingFacts
<1>3. blocks[i + 1] \in OpcodeBlocks /\ blocks[i + 1] \in 1 .. n
  BY <1>1, CompilingFacts DEF OpcodeBlocks
<1>4. Body[blocks[i]] = <<>>
  BY <1>1, CompilingFacts DEF Growing, Ahead
<1>5. /\ Len(first) = n /\ DOMAIN first = 1 .. n /\ first[blocks[i]] = insts
      /\ \A a \in 1 .. n : a # blocks[i] => first[a] = Body[a]
      /\ first \in Seq(Seq(Instructions(f, n + 3)))
  <2>1. Body \in Seq(Seq(Instructions(f, n)))
    BY <1>1 DEF NamesInv, CodeInv, Built, Body
  <2>2. Body \in Seq(Seq(Instructions(f, n + 3)))
    BY <1>2, <2>1, Grows
  <2>3. insts \in Seq(Instructions(f, n + 3))
    <3>1. <<n + 1>> \in Seq(1 .. n + 3) /\ n + 3 \in Nat /\ frame = f
      BY <1>1, <1>2, CompilingFacts
    <3>2. Code(frame) \in Instructions(f, n + 3) /\ Br(<<n + 1>>) \in Instructions(f, n + 3)
      BY <3>1, Made
    <3>3. \A T : \A x, y \in T : <<x, y>> \in Seq(T)
      OBVIOUS
    <3> QED  BY <3>2, <3>3
  <2>4. first \in Seq(Seq(Instructions(f, n + 3))) /\ Len(first) = n
    <3> HIDE DEF insts
    <3> QED  BY <1>2, <2>2, <2>3, Inserted
  <2>5. <<>> \o insts = insts
    OBVIOUS
  <2>6. first[blocks[i]] = insts /\ \A a \in 1 .. n : a # blocks[i] => first[a] = Body[a]
    <3> HIDE DEF insts
    <3> QED  BY <1>2, <1>4, <2>5 DEF inserted
  <2>7. DOMAIN first = 1 .. n
    BY <2>4, <1>2
  <2> QED  BY <2>4, <2>6, <2>7
<1>6. /\ Len(body) = n + 3 /\ DOMAIN body = 1 .. n + 3
      /\ \A a \in 1 .. n : body[a] = first[a]
      /\ body[n + 1] = inner[1] /\ body[n + 2] = inner[2] /\ body[n + 3] = inner[3]
  <2>1. \A x, y, z : LET t == <<x, y, z>> IN t \in Seq({x, y, z}) /\ Len(t) = 3
    OBVIOUS
  <2>2. inner \in Seq({inner[1], inner[2], inner[3]}) /\ Len(inner) = 3
    BY <2>1
  <2> HIDE DEF inner, first, n
  <2>3. first \in Seq(Seq(Instructions(f, n + 3)))
    BY <1>5
  <2>4. /\ Len(body) = Len(first) + Len(inner)
        /\ DOMAIN body = 1 .. Len(first) + Len(inner)
        /\ \A a \in 1 .. Len(first) : body[a] = first[a]
        /\ \A a \in 1 .. Len(inner) : body[Len(first) + a] = inner[a]
    <3> DEFINE S == Seq(Instructions(f, n + 3))
               T == {inner[1], inner[2], inner[3]}
    <3>1. first \in Seq(S) /\ inner \in Seq(T)
      BY <2>2, <2>3
    <3> HIDE DEF S, T
    <3>2. Len(body) = Len(first) + Len(inner)
      BY <3>1, Appended
    <3>3. DOMAIN body = 1 .. Len(first) + Len(inner)
      BY <3>1, Appended
    <3>4. \A a \in 1 .. Len(first) : body[a] = first[a]
      BY <3>1, Appended
    <3>5. \A a \in 1 .. Len(inner) : body[Len(first) + a] = inner[a]
      BY <3>1, Appended
    <3> QED  BY <3>2, <3>3, <3>4, <3>5
  <2> HIDE DEF body
  <2> QED  BY <1>2, <1>5, <2>2, <2>4
<1> HIDE DEF body, first
<1>7. body[blocks[i]] = <<Code(frame), Br(<<n + 1>>)>>
  BY <1>2, <1>5, <1>6
<1>8. /\ Terminated(body[blocks[i]]) /\ ~HasPhi(body, blocks[i])
      /\ Dests(body, blocks[i]) = {n + 1}
  <2>1. /\ Terminated(body[blocks[i]]) /\ ~HasPhi(body, blocks[i])
        /\ Dests(body, blocks[i]) = Ends(<<n + 1>>)
    BY <1>7, CodeBlock
  <2> QED  BY <2>1, EndsOf
<1>9. /\ Terminated(body[n + 1]) /\ ~HasPhi(body, n + 1)
      /\ Dests(body, n + 1) = {n + 2, n + 3}
  <2>1. body[n + 1] = <<Br(<<n + 2, n + 3>>)>>
    BY <1>2, <1>6
  <2>2. /\ Terminated(body[n + 1]) /\ ~HasPhi(body, n + 1)
        /\ Dests(body, n + 1) = Ends(<<n + 2, n + 3>>)
    BY <2>1, BranchBlock
  <2> QED  BY <2>2, EndsOf
<1>10. /\ Terminated(body[n + 2]) /\ body[n + 2][1].from = <<n + 1, n + 2>>
       /\ Dests(body, n + 2) = {n + 2, n + 3}
  <2>1. body[n + 2] = <<Phi(<<n + 1, n + 2>>), Code(frame), Br(<<n + 2, n + 3>>)>>
    BY <1>2, <1>6
  <2>2. /\ Terminated(body[n + 2]) /\ body[n + 2][1].from = <<n + 1, n + 2>>
        /\ Dests(body, n + 2) = Ends(<<n + 2, n + 3>>)
    BY <2>1, LoopBlock
  <2> QED  BY <2>2, EndsOf
<1>11. /\ Terminated(body[n + 3]) /\ ~HasPhi(body, n + 3)
       /\ Dests(body, n + 3) = {blocks[i + 1]}
  <2>1. body[n + 3] = <<Code(frame), Br(<<blocks[i + 1]>>)>>
    BY <1>6
  <2>2. /\ Terminated(body[n + 3]) /\ ~HasPhi(body, n + 3)
        /\ Dests(body, n + 3) = Ends(<<blocks[i + 1]>>)
    BY <2>1, CodeBlock
  <2> QED  BY <2>2, EndsOf
<1>12. \A a \in 1 .. n : a # blocks[i] => body[a] = Body[a] /\ Dests(body, a) \subseteq 1 .. n
  <2> SUFFICES ASSUME NEW a \in 1 .. n, a # blocks[i]
               PROVE  body[a] = Body[a] /\ Dests(body, a) \subseteq 1 .. n
    OBVIOUS
  <2>1. body[a] = Body[a]
    BY <1>5, <1>6
  <2> QED  BY <1>1, <1>2, <2>1, SameBlock, DestsInside
<1>13. Preds(body, n + 2) = {n + 1, n + 2}
  <2>1. \A a \in 1 .. n : n + 2 \notin Dests(body, a)
    BY <1>2, <1>8, <1>12
  <2>2. n + 2 \notin Dests(body, n + 3)
    BY <1>2, <1>3, <1>11
  <2>3. n + 2 \in Dests(body, n + 1) /\ n + 2 \in Dests(body, n + 2)
    BY <1>9, <1>10
  <2>4. DOMAIN body = (1 .. n) \cup {n + 1, n + 2, n + 3}
    BY <1>2, <1>6
  <2> QED  BY <2>1, <2>2, <2>3, <2>4 DEF Preds
<1>14. PhiRight(body, n + 2)
  <2>1. (n + 2) - 1 = n + 1
    BY <1>2
  <2> QED  BY <1>10, <1>13, <2>1 DEF PhiRight
<1>15. Completed(body) = {blocks[i], n + 1, n + 2, n + 3}
  BY <1>2, <1>6 DEF Completed
<1>16. Emits(body)
  <2>1. ASSUME NEW a \in Completed(body)
        PROVE  /\ Terminated(body[a])
               /\ Dests(body, a) \subseteq OpcodeBlocks \cup (n + 1 .. n + 3)
               /\ HasPhi(body, a) => a > n /\ PhiRight(body, a)
    <3>1. n + 1 \in n + 1 .. n + 3 /\ n + 2 \in n + 1 .. n + 3 /\ n + 3 \in n + 1 .. n + 3 /\ n + 2 > n
      BY <1>2
    <3>2. CASE a = blocks[i]
      BY <3>1, <3>2, <1>8
    <3>3. CASE a = n + 1
      BY <3>1, <3>3, <1>9
    <3>4. CASE a = n + 2
      BY <3>1, <3>4, <1>10, <1>14
    <3>5. CASE a = n + 3
      BY <3>5, <1>3, <1>11
    <3> QED  BY <1>15, <3>2, <3>3, <3>4, <3>5
  <2>2. n + 3 \in Nat /\ n <= n + 3
    BY <1>2
  <2> QED  BY <1>6, <1>12, <2>1, <2>2 DEF Emits
<1>17. Reached(body, OpcodeBlocks, blocks[i]) = {blocks[i + 1]}
  <2>1. OpcodeBlocks \subseteq 1 .. n
    BY <1>1, CompilingFacts DEF OpcodeBlocks
  <2>2. n + 1 \notin OpcodeBlocks /\ n + 2 \notin OpcodeBlocks /\ n + 3 \notin OpcodeBlocks
    BY <1>2, <2>1
  <2> HIDE DEF n
  <2> QED  BY <1>3, <1>8, <1>9, <1>10, <1>11, <2>2, ReachesThroughLoop
<1> QED  BY <1>1, <1>16, <1>17

\* The list of blocks names the opcodes' blocks.
LEMMA BlocksListed ==
    ASSUME CodeInv, phase = "compiling"
    PROVE  Ends(blocks) = OpcodeBlocks
  BY DEF CodeInv, Ends, OpcodeBlocks

\* A round completes its blocks and goes on as its opcode does, or the
\* compilation fails.
LEMMA RoundEmits ==
    ASSUME NamesInv, CodeInv, FlowInv, Round
    PROVE  phase' = "idle" \/ \E body : writes(body) /\ Emits(body) /\ Follows(body, code, blocks, i)
<1>1. phase = "compiling" /\ i < Len(code)
  BY RoundKeeps
<1>2. i + 1 \in 0 .. Len(code)
  BY <1>1, OpcodeInserts
<1>3. \A d \in 0 .. Len(code) : Ends(<<blocks[d]>>) \subseteq OpcodeBlocks
  BY DEF Ends, OpcodeBlocks
<1>4. \A d, e \in 0 .. Len(code) : Ends(<<blocks[d], blocks[e]>>) \subseteq OpcodeBlocks
  BY DEF Ends, OpcodeBlocks
<1>5. ASSUME NEW d \in 0 .. Len(code), NEW body,
             \/ body = inserted(Body, blocks[i], <<Br(<<blocks[d]>>)>>)
             \/ body = inserted(Body, blocks[i], <<Code(frame), Br(<<blocks[d]>>)>>)
      PROVE  Emits(body) /\ Reached(body, Ends(blocks), blocks[i]) = {blocks[d]}
  <2>1. /\ <<Br(<<blocks[d]>>)>> \in Seq(Instructions(f, Len(Body)))
        /\ <<Code(frame), Br(<<blocks[d]>>)>> \in Seq(Instructions(f, Len(Body)))
    BY <1>1, OpcodeInserts
  <2>2. Emits(body) /\ Reached(body, OpcodeBlocks, blocks[i]) = Ends(<<blocks[d]>>)
    BY <1>1, <1>3, <1>5, <2>1, BranchEmits
  <2> QED  BY <1>1, <2>2, EndsOf, BlocksListed
<1>6. ASSUME NEW d \in 0 .. Len(code), NEW e \in 0 .. Len(code), NEW body,
             body = inserted(Body, blocks[i], <<Code(frame), Br(<<blocks[d], blocks[e]>>)>>)
      PROVE  /\ Emits(body) /\ Reached(body, Ends(blocks), blocks[i]) = {blocks[d], blocks[e]}
             /\ OnFalse(body, blocks[i]) = blocks[d]
  <2>1. <<Code(frame), Br(<<blocks[d], blocks[e]>>)>> \in Seq(Instructions(f, Len(Body)))
    BY <1>1, OpcodeInserts
  <2>2. /\ Emits(body) /\ Reached(body, OpcodeBlocks, blocks[i]) = Ends(<<blocks[d], blocks[e]>>)
        /\ OnFalse(body, blocks[i]) = <<blocks[d], blocks[e]>>[1]
    BY <1>1, <1>4, <1>6, <2>1, BranchEmits
  <2> QED  BY <1>1, <2>2, EndsOf, BlocksListed
<1>7. InRange => target(code, arg) \in 0 .. Len(code)
  BY DEF InRange
<1>8. CASE jump
  <2>1. PICK body : body = inserted(Body, blocks[i], <<Br(<<blocks[target(code, arg)]>>)>>)
    OBVIOUS
  <2>2. writes(body) /\ InRange /\ code[i + 1].op = "jump"
    BY <1>8, <2>1 DEF jump, Compiling
  <2>3. Emits(body) /\ Reached(body, Ends(blocks), blocks[i]) = {blocks[target(code, arg)]}
    BY <1>5, <1>7, <2>1, <2>2
  <2>4. successors(code, i) = {target(code, arg)}
    BY <2>2 DEF successors, Branches, arg
  <2>5. { blocks[k] : k \in successors(code, i) } = {blocks[target(code, arg)]}
    BY <2>4
  <2> QED  BY <2>2, <2>3, <2>5 DEF Follows
<1>9. CASE branchif \/ branchunless
  <2>1. PICK d, e : IF branchif THEN d = i + 1 /\ e = target(code, arg)
                                ELSE d = target(code, arg) /\ e = i + 1
    OBVIOUS
  <2>2. PICK body : body = inserted(Body, blocks[i], <<Code(frame), Br(<<blocks[d], blocks[e]>>)>>)
    OBVIOUS
  <2>3. /\ writes(body) /\ InRange /\ code[i + 1].op \in {"branchif", "branchunless"}
        /\ code[i + 1].op = "branchif" => branchif
        /\ code[i + 1].op = "branchunless" => ~branchif
    BY <1>9, <2>1, <2>2 DEF branchif, branchunless, branch, Compiling
  <2>4. d \in 0 .. Len(code) /\ e \in 0 .. Len(code)
    BY <1>2, <1>7, <2>1, <2>3
  <2>5. /\ Emits(body) /\ Reached(body, Ends(blocks), blocks[i]) = {blocks[d], blocks[e]}
        /\ OnFalse(body, blocks[i]) = blocks[d]
    BY <1>6, <2>2, <2>4
  <2>6. successors(code, i) = {d, e}
    <3>1. successors(code, i) = {target(code, arg), i + 1}
      BY <2>3 DEF successors, Branches, arg
    <3> QED  BY <2>1, <3>1
  <2>7. { blocks[k] : k \in successors(code, i) } = {blocks[d], blocks[e]}
    BY <2>6
  <2>8. /\ code[i + 1].op = "branchif" => d = i + 1
        /\ code[i + 1].op = "branchunless" => d = target(code, arg)
    BY <2>1, <2>3
  <2> QED  BY <2>3, <2>5, <2>7, <2>8 DEF Follows, arg
<1>10. ASSUME code[i + 1].op \notin Branches
       PROVE  /\ { blocks[k] : k \in successors(code, i) } = {blocks[i + 1]}
              /\ code[i + 1].op # "branchif" /\ code[i + 1].op # "branchunless"
  <2>1. successors(code, i) = {i + 1} /\ code[i + 1].op # "branchif" /\ code[i + 1].op # "branchunless"
    BY <1>10 DEF successors, Branches
  <2> QED  BY <2>1
<1>11. CASE newhash
  <2>1. PICK body : /\ writes(body) /\ Emits(body)
                    /\ Reached(body, OpcodeBlocks, blocks[i]) = {blocks[i + 1]}
    BY <1>11, HashEmits
  <2>2. code[i + 1].op \notin Branches
    BY <1>11 DEF newhash, Compiling, Branches
  <2> QED  BY <1>1, <1>10, <2>1, <2>2, BlocksListed DEF Follows
<1>12. CASE nop \/ straight
  <2>1. PICK body : /\ writes(body)
                    /\ \/ body = inserted(Body, blocks[i], <<Br(<<blocks[i + 1]>>)>>)
                       \/ body = inserted(Body, blocks[i], <<Code(frame), Br(<<blocks[i + 1]>>)>>)
    BY <1>12 DEF nop, straight
  <2>2. code[i + 1].op \notin Branches
    BY <1>12 DEF nop, straight, Compiling, Branches
  <2>3. Emits(body) /\ Reached(body, Ends(blocks), blocks[i]) = {blocks[i + 1]}
    BY <1>2, <1>5, <2>1
  <2> QED  BY <1>10, <2>1, <2>2, <2>3 DEF Follows
<1>13. CASE badBranch \/ badCount \/ unknown
  BY <1>13 DEF badBranch, badCount, unknown, fails
<1> QED  BY <1>8, <1>9, <1>11, <1>12, <1>13 DEF Round

\* The exit block completes the function.
LEMMA Finished ==
    ASSUME NamesInv, CodeInv, FlowInv, finish
    PROVE  WellFormed(funcs'[f])
<1> DEFINE insts == <<Code(frame), Ret>>
           body  == inserted(Body, blocks[i], insts)
<1>1. phase = "compiling" /\ i = Len(code) /\ funcs'[f] = body
  BY CompilingFacts DEF finish, writes
<1>2. insts \in Seq(Instructions(f, Len(Body)))
  <2>1. Len(Body) \in Nat /\ frame = f
    BY <1>1, CompilingFacts
  <2> QED  BY <2>1, Made
<1>3. body[blocks[i]] = insts /\ Built(f, body)
  <2> HIDE DEF insts
  <2> QED  BY <1>1, <1>2, OneBlock
<1>4. Emits(body)
  <2>1. Terminated(body[blocks[i]]) /\ ~HasPhi(body, blocks[i]) /\ Dests(body, blocks[i]) = {}
    <3> HIDE DEF body
    <3> QED  BY <1>3, ExitBlock
  <2> HIDE DEF insts
  <2> QED  BY <1>1, <1>2, <2>1, OneBlockEmits
<1>5. Growing(body, {})
  <2>1. { blocks[j] : j \in i + 1 .. Len(code) } = {}
    BY <1>1, CompilingFacts
  <2> HIDE DEF body
  <2> QED  BY <1>1, <1>4, <2>1, Grown
<1> HIDE DEF body
<1> QED  BY <1>1, <1>3, <1>5, Complete

\* A new function is ready for its rounds.
LEMMA BeginFlow ==
    ASSUME NamesInv, begin
    PROVE  1 \in DOMAIN Body' \ OpcodeBlocks' /\ Growing(Body, Ahead)'
<1> DEFINE name == <<module, func_n>>
<1>1. get_or_insert_function(name) = <<>>
  BY NewName DEF get_or_insert_function
<1>2. PICK c \in Bytecodes :
          /\ code' = c
          /\ blocks' = [ j \in 0 .. Len(c) |-> 0 + 2 + j ]
          /\ funcs' = [ g \in DOMAIN funcs \cup {name} |->
                          IF g = name
                          THEN <<>> \o << <<Code(name), Br(<<0 + 2>>)>> >> \o create_blocks(c)
                          ELSE funcs[g] ]
  BY <1>1 DEF begin
<1>3. f' = name /\ i' = 0
  BY DEF begin
<1>4. Len(c) \in Nat
  <2>1. c \in Seq([op : Ops \cup {"unknown"}, arg : Int \cup {NoArg}])
    BY BytecodesAssumption, Zenon
  <2>2. \A T : \A x \in Seq(T) : Len(x) \in Nat
    OBVIOUS
  <2> QED  BY <2>1, <2>2, Zenon
<1> DEFINE entry == <<Code(name), Br(<<2>>)>>
           new   == <<entry>> \o create_blocks(c)
           own   == 2 .. Len(c) + 2
<1>5. /\ DOMAIN new = 1 .. Len(c) + 2
      /\ new[1] = entry
      /\ \A b \in own : new[b] = <<>>
  <2>1. create_blocks(c) \in Seq({<<>>}) /\ Len(create_blocks(c)) = Len(c) + 1
    BY <1>4 DEF create_blocks
  <2>2. \A b \in 1 .. Len(c) + 1 : create_blocks(c)[b] = <<>>
    BY DEF create_blocks
  <2> HIDE DEF entry
  <2>3. <<entry>> \in Seq({entry}) /\ Len(<<entry>>) = 1 /\ <<entry>>[1] = entry
    OBVIOUS
  <2>4. /\ DOMAIN new = 1 .. 1 + (Len(c) + 1)
        /\ new[1] = entry
        /\ \A b \in 1 .. Len(c) + 1 : new[1 + b] = create_blocks(c)[b]
    BY <2>1, <2>3, Appended
  <2> HIDE DEF new
  <2>5. ASSUME NEW b \in own PROVE new[b] = <<>>
    <3>1. b - 1 \in 1 .. Len(c) + 1 /\ 1 + (b - 1) = b
      BY <1>4
    <3> QED  BY <2>2, <2>4, <3>1
  <2> QED  BY <1>4, <2>4, <2>5
<1>6. Body' = new
  <2>1. <<>> \o << entry >> \o create_blocks(c) = new
    OBVIOUS
  <2> HIDE DEF name
  <2> QED  BY <1>2, <1>3, <2>1 DEF Body
<1>7. OpcodeBlocks' = own /\ Ahead' = own
  <2>1. \A b \in own : b - 2 \in 0 .. Len(c) /\ 2 + (b - 2) = b
    BY <1>4
  <2>2. \A j \in 0 .. Len(c) : blocks'[j] = 2 + j /\ 2 + j \in own
    BY <1>2, <1>4
  <2>3. \A b \in own : b - 2 \in 0 .. Len(c) /\ blocks'[b - 2] = b
    BY <1>4, <2>1, <2>2
  <2> HIDE DEF own
  <2>4. { blocks'[j] : j \in 0 .. Len(c) } = own
    BY <2>2, <2>3
  <2> QED  BY <1>2, <1>3, <2>4 DEF OpcodeBlocks, Ahead
<1> HIDE DEF new
<1>8. Terminated(new[1]) /\ ~HasPhi(new, 1) /\ Dests(new, 1) = {2}
  <2>1. Ends(<<2>>) = {2}
    BY EndsOf
  <2>2. new[1] = <<Code(name), Br(<<2>>)>>
    BY <1>5
  <2> HIDE DEF name
  <2> QED  BY <2>1, <2>2, CodeBlock
<1>9. \A b \in own : new[b] = <<>> /\ Dests(new, b) = {} /\ ~HasPhi(new, b)
  BY <1>5, EmptyBlock
<1>10. DOMAIN new = {1} \cup own /\ 1 \notin own
  BY <1>4, <1>5
<1> HIDE DEF own, name
<1>11. Preds(new, 1) = {}
  BY <1>8, <1>9, <1>10 DEF Preds
<1> QED  BY <1>6, <1>7, <1>8, <1>9, <1>10, <1>11 DEF Growing

LEMMA FlowInductive == Spec => []FlowInv
<1>1. Init => FlowInv
  BY DEF Init, FlowInv
<1>2. ASSUME NamesInv, CodeInv, FlowInv, [Next]_vars PROVE FlowInv'
  <2>1. \A g \in DOMAIN returned : WellFormed(funcs'[g])
    BY <1>2, Kept DEF FlowInv
  <2>2. CASE start
    BY <1>2, <2>2 DEF start, compilation, FlowInv, Body, OpcodeBlocks, Ahead, Growing
  <2>3. CASE begin
    <3>1. returned' = returned
      BY <2>3 DEF begin
    <3> QED  BY <1>2, <2>1, <2>3, <3>1, BeginFlow DEF FlowInv
  <2>4. CASE Round
    <3>1. returned' = returned
      BY <2>4, RoundFrame
    <3>2. ASSUME phase' = "compiling"
          PROVE  1 \in DOMAIN Body' \ OpcodeBlocks' /\ Growing(Body, Ahead)'
      <4>1. phase = "compiling" /\ i' = i + 1 /\ UNCHANGED <<code, f, blocks>>
        BY <2>4, <3>2, RoundKeeps
      <4>2. PICK body : writes(body) /\ Emits(body)
        BY <1>2, <2>4, <3>2, RoundEmits
      <4>3. Body' = body
        BY <1>2, <4>1, <4>2, CompilingFacts DEF writes, Body
      <4>4. OpcodeBlocks' = OpcodeBlocks /\ Ahead' = { blocks[j] : j \in i + 1 .. Len(code) }
        BY <4>1 DEF OpcodeBlocks, Ahead
      <4>5. /\ 1 \in DOMAIN body \ OpcodeBlocks
            /\ Growing(body, { blocks[j] : j \in i + 1 .. Len(code) })
        BY <1>2, <4>1, <4>2, Grown
      <4> QED  BY <4>3, <4>4, <4>5 DEF Growing
    <3> QED  BY <2>1, <3>1, <3>2 DEF FlowInv
  <2>5. CASE finish
    <3>1. DOMAIN returned' = DOMAIN returned \cup {f} /\ phase' = "idle"
      BY <2>5 DEF finish
    <3>2. WellFormed(funcs'[f])
      BY <1>2, <2>5, Finished
    <3> QED  BY <2>1, <3>1, <3>2 DEF FlowInv
  <2>6. CASE UNCHANGED vars
    BY <1>2, <2>6 DEF vars, FlowInv, Body, OpcodeBlocks, Ahead, Growing
  <2> QED  BY <1>2, <2>2, <2>3, <2>4, <2>5, <2>6 DEF Next
<1> QED  BY <1>1, <1>2, CodeInductive, PTL DEF Spec

\* The functions that compile_bytecode returns are what the LLVM verifier
\* accepts, whatever failed before: the README says that a malformed one
\* aborts the program.
THEOREM VerifierAccepts == Spec => []ReturnedWellFormed
<1>1. FlowInv => ReturnedWellFormed
  BY DEF FlowInv, ReturnedWellFormed
<1> QED  BY <1>1, FlowInductive, PTL

-----------------------------------------------------------------------------
(* The control flow of what has been compiled.                             *)

\* A round changes nothing about where control goes from finished blocks.
LEMMA PathsKept ==
    ASSUME NamesInv, CodeInv, FlowInv, phase = "compiling", NEW body, Emits(body),
           NEW b \in 1 .. Len(Body), b # blocks[i]
    PROVE  /\ body[b] = Body[b]
           /\ Reached(body, Ends(blocks), b) = Reached(Body, Ends(blocks), b)
<1> USE CompilingFacts
<1>1. body[b] = Body[b] /\ Dests(body, b) = Dests(Body, b) /\ Dests(Body, b) \subseteq 1 .. Len(Body)
  <2>1. body[b] = Body[b]
    BY DEF Emits
  <2> QED  BY <2>1, SameBlock, DestsInside
<1>2. ASSUME NEW d \in (1 .. Len(Body)) \ Ends(blocks)
      PROVE  Dests(Body, d) \subseteq 1 .. Len(Body) /\ Dests(body, d) = Dests(Body, d)
  <2>1. blocks[i] \in Ends(blocks)
    BY BlocksListed DEF OpcodeBlocks
  <2>2. body[d] = Body[d]
    BY <2>1 DEF Emits
  <2> QED  BY <2>2, SameBlock, DestsInside
<1>3. PICK D, ends : D = 1 .. Len(Body) /\ ends = Ends(blocks)
  OBVIOUS
<1>4. /\ Dests(Body, b) \subseteq D
      /\ Alike(Body, body, D \ ends, D)
  BY <1>1, <1>2, <1>3 DEF Alike
<1>5. Reached(body, ends, b) = Reached(Body, ends, b)
  BY <1>1, <1>4, ReachesAsBefore
<1> QED  BY <1>1, <1>3, <1>5

LEMMA FollowsKept ==
    ASSUME NamesInv, CodeInv, FlowInv, PathInv, phase = "compiling", NEW body, Emits(body)
    PROVE  /\ Entered(body, blocks)
           /\ \A j \in 0 .. i - 1 : Follows(body, code, blocks, j)
<1> USE CompilingFacts
<1>1. Entered(body, blocks)
  <2>1. 1 \in 1 .. Len(Body) /\ 1 # blocks[i]
    BY DEF OpcodeBlocks
  <2> QED  BY <2>1, PathsKept DEF PathInv, Entered
<1>2. ASSUME NEW j \in 0 .. i - 1 PROVE Follows(body, code, blocks, j)
  <2>1. blocks[j] \in 1 .. Len(Body) /\ blocks[j] # blocks[i]
    OBVIOUS
  <2>2. /\ body[blocks[j]] = Body[blocks[j]]
        /\ Reached(body, Ends(blocks), blocks[j]) = Reached(Body, Ends(blocks), blocks[j])
    BY <2>1, PathsKept
  <2>3. Follows(Body, code, blocks, j)
    BY DEF PathInv
  <2> QED  BY <2>2, <2>3 DEF Follows, OnFalse
<1> QED  BY <1>1, <1>2

\* A new function is entered at its first opcode.
LEMMA BeginEnters ==
    ASSUME NamesInv, begin
    PROVE  Entered(Body', blocks')
<1> DEFINE name == <<module, func_n>>
<1>1. get_or_insert_function(name) = <<>>
  BY NewName DEF get_or_insert_function
<1>2. PICK c \in Bytecodes :
          /\ blocks' = [ j \in 0 .. Len(c) |-> 0 + 2 + j ]
          /\ funcs' = [ g \in DOMAIN funcs \cup {name} |->
                          IF g = name
                          THEN <<>> \o << <<Code(name), Br(<<0 + 2>>)>> >> \o create_blocks(c)
                          ELSE funcs[g] ]
  BY <1>1 DEF begin
<1>3. f' = name
  BY DEF begin
<1>4. Len(c) \in Nat
  <2>1. c \in Seq([op : Ops \cup {"unknown"}, arg : Int \cup {NoArg}])
    BY BytecodesAssumption, Zenon
  <2>2. \A T : \A x \in Seq(T) : Len(x) \in Nat
    OBVIOUS
  <2> QED  BY <2>1, <2>2, Zenon
<1> DEFINE entry == <<Code(name), Br(<<2>>)>>
           new   == <<entry>> \o create_blocks(c)
<1>5. new[1] = entry
  <2>1. create_blocks(c) \in Seq({<<>>})
    BY <1>4 DEF create_blocks
  <2> HIDE DEF entry
  <2>2. <<entry>> \in Seq({entry}) /\ Len(<<entry>>) = 1 /\ <<entry>>[1] = entry
    OBVIOUS
  <2> QED  BY <2>1, <2>2, Appended
<1>6. Body' = new
  <2>1. <<>> \o << entry >> \o create_blocks(c) = new
    OBVIOUS
  <2> HIDE DEF name
  <2> QED  BY <1>2, <1>3, <2>1 DEF Body
<1> HIDE DEF new
<1>7. Dests(new, 1) = {2}
  <2>1. Ends(<<2>>) = {2}
    BY EndsOf
  <2>2. new[1] = <<Code(name), Br(<<2>>)>>
    BY <1>5
  <2> HIDE DEF name
  <2> QED  BY <2>1, <2>2, CodeBlock
<1>8. blocks'[0] = 2 /\ 2 \in Ends(blocks')
  <2>1. DOMAIN blocks' = 0 .. Len(c) /\ 0 \in 0 .. Len(c) /\ blocks'[0] = 2
    BY <1>2, <1>4
  <2> QED  BY <2>1 DEF Ends
<1>9. PICK bs : bs = blocks'
  OBVIOUS
<1>10. Reached(new, Ends(bs), 1) = {2}
  BY <1>7, <1>8, <1>9, ReachesDirectly
<1>11. Entered(new, bs)
  BY <1>8, <1>9, <1>10 DEF Entered
<1> QED  BY <1>6, <1>9, <1>11

\* The exit block goes nowhere, and the function is complete.
LEMMA FinishFollows ==
    ASSUME NamesInv, CodeInv, FlowInv, PathInv, finish
    PROVE  /\ Entered(funcs'[f], blocks)
           /\ \A j \in 0 .. Len(code) - 1 : Follows(funcs'[f], code, blocks, j)
           /\ Dests(funcs'[f], blocks[Len(code)]) = {}
<1> DEFINE insts == <<Code(frame), Ret>>
           body  == inserted(Body, blocks[i], insts)
<1>1. phase = "compiling" /\ i = Len(code) /\ funcs'[f] = body
  BY CompilingFacts DEF finish, writes
<1>2. insts \in Seq(Instructions(f, Len(Body)))
  <2>1. Len(Body) \in Nat /\ frame = f
    BY <1>1, CompilingFacts
  <2> QED  BY <2>1, Made
<1>3. body[blocks[i]] = insts
  <2> HIDE DEF insts
  <2> QED  BY <1>1, <1>2, OneBlock
<1>4. Terminated(body[blocks[i]]) /\ ~HasPhi(body, blocks[i]) /\ Dests(body, blocks[i]) = {}
  <2> HIDE DEF body
  <2> QED  BY <1>3, ExitBlock
<1>5. Emits(body)
  <2> HIDE DEF insts
  <2> QED  BY <1>1, <1>2, <1>4, OneBlockEmits
<1> HIDE DEF body
<1>6. Entered(body, blocks) /\ \A j \in 0 .. i - 1 : Follows(body, code, blocks, j)
  BY <1>1, <1>5, FollowsKept
<1> QED  BY <1>1, <1>4, <1>6

LEMMA PathInductive == Spec => []PathInv
<1>1. Init => PathInv
  BY DEF Init, PathInv
<1>2. ASSUME NamesInv, CodeInv, FlowInv, PathInv, [Next]_vars PROVE PathInv'
  <2> DEFINE Right(body, c, bs) == /\ Entered(body, bs)
                                   /\ \A j \in 0 .. Len(c) - 1 : Follows(body, c, bs, j)
                                   /\ Dests(body, bs[Len(c)]) = {}
             Done == \A g \in DOMAIN returned : Right(funcs[g], returned[g].code, returned[g].blocks)
             Under == Entered(Body, blocks) /\ \A j \in 0 .. i - 1 : Follows(Body, code, blocks, j)
  <2>1. PathInv <=> Done /\ (phase = "compiling" => Under)
    BY DEF PathInv
  <2>2. PathInv' <=> Done' /\ (phase' = "compiling" => Under')
    BY DEF PathInv
  <2>3. returned' = returned => Done'
    <3>1. \A g \in DOMAIN returned : funcs'[g] = funcs[g]
      BY <1>2, Kept
    <3> HIDE DEF Right
    <3> QED  BY <1>2, <2>1, <3>1
  <2>4. CASE start
    <3>1. UNCHANGED <<funcs, returned, phase, i, code, f, blocks>>
      BY <2>4 DEF start, compilation
    <3>2. Under => Under'
      BY <3>1 DEF Body
    <3> HIDE DEF Under, Done
    <3> QED  BY <1>2, <2>1, <2>2, <2>3, <3>1, <3>2
  <2>5. CASE begin
    <3>1. returned' = returned /\ i' = 0
      BY <2>5 DEF begin
    <3>2. Under'
      BY <1>2, <2>5, <3>1, BeginEnters
    <3> HIDE DEF Under, Done
    <3> QED  BY <2>2, <2>3, <3>1, <3>2
  <2>6. CASE Round
    <3>1. returned' = returned
      BY <2>6, RoundFrame
    <3>2. ASSUME phase' = "compiling" PROVE Under'
      <4>1. phase = "compiling" /\ i' = i + 1 /\ UNCHANGED <<code, f, blocks>>
        BY <2>6, <3>2, RoundKeeps
      <4>2. PICK body : writes(body) /\ Emits(body) /\ Follows(body, code, blocks, i)
        BY <1>2, <2>6, <3>2, RoundEmits
      <4>3. Body' = body
        BY <1>2, <4>1, <4>2, CompilingFacts DEF writes, Body
      <4>4. Entered(body, blocks) /\ \A j \in 0 .. i - 1 : Follows(body, code, blocks, j)
        BY <1>2, <4>1, <4>2, FollowsKept
      <4>5. \A j \in 0 .. i : Follows(body, code, blocks, j)
        <5>1. i \in Nat
          BY <1>2, <4>1, CompilingFacts
        <5> QED  BY <4>2, <4>4, <5>1
      <4>6. i' - 1 = i
        BY <1>2, <4>1, CompilingFacts
      <4> QED  BY <4>1, <4>3, <4>4, <4>5, <4>6
    <3> HIDE DEF Under, Done
    <3> QED  BY <2>2, <2>3, <3>1, <3>2
  <2>7. CASE finish
    <3>1. /\ DOMAIN returned' = DOMAIN returned \cup {f} /\ phase' = "idle"
          /\ returned'[f] = [code |-> code, blocks |-> blocks]
          /\ \A g \in DOMAIN returned : g # f => returned'[g] = returned[g]
      BY <2>7 DEF finish
    <3>2. f \notin DOMAIN returned
      BY <1>2, <2>7, CompilingFacts DEF finish
    <3>3. Right(funcs'[f], code, blocks)
      BY <1>2, <2>7, FinishFollows
    <3>4. \A g \in DOMAIN returned : funcs'[g] = funcs[g]
      BY <1>2, Kept
    <3> HIDE DEF Right
    <3>5. Done'
      BY <1>2, <2>1, <3>1, <3>2, <3>3, <3>4
    <3> HIDE DEF Done, Under
    <3> QED  BY <2>2, <3>1, <3>5
  <2>8. CASE UNCHANGED vars
    BY <1>2, <2>8 DEF vars, PathInv, Body
  <2> QED  BY <1>2, <2>4, <2>5, <2>6, <2>7, <2>8 DEF Next
<1> QED  BY <1>1, <1>2, CodeInductive, FlowInductive, PTL DEF Spec

\* The control flow of a returned function is that of its bytecode: from the
\* block of an opcode control reaches the blocks of the opcodes that may
\* follow it and no others, and branchif and branchunless do not swap arms.
THEOREM FollowsBytecode == Spec => []ControlFlowMatches
<1>1. ASSUME PathInv PROVE ControlFlowMatches
  <2>1. ASSUME NEW g \in DOMAIN returned, NEW c, NEW bs,
               c = returned[g].code, bs = returned[g].blocks
        PROVE  /\ Reached(funcs[g], Ends(bs), 1) = {bs[0]}
               /\ \A j \in 0 .. Len(c) - 1 : Follows(funcs[g], c, bs, j)
               /\ Dests(funcs[g], bs[Len(c)]) = {}
    BY <1>1, <2>1 DEF PathInv, Entered
  <2> QED  BY <2>1 DEF ControlFlowMatches, Follows, OnFalse, Ends
<1> QED  BY <1>1, PathInductive, PTL
=============================================================================
