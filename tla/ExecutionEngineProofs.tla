----------------------- MODULE ExecutionEngineProofs -----------------------
(***************************************************************************)
(* What clients, the engine and RubyVM may rely on, for every number of    *)
(* modules, functions, edits and lists of passes.                          *)
(***************************************************************************)
EXTENDS ExecutionEngine, FiniteSetTheorems, WellFoundedInduction, TLAPS

FunctionNames == Names \cup {rb_func} \cup { vm_func(n) : n \in 0 .. MaxFunctions }

Body == [op : {"nothing", "call", "copy"}, fn : Nat, edit : Nat]

Function ==
    [ mod : Nat, name : FunctionNames, renamed : BOOLEAN, edit : Nat, does : Body,
      finished : BOOLEAN, alive : BOOLEAN ]

\* d is about a function that there is.
Wellformed(d) ==
    \/ d = nothing
    \/ d.fn \in Functions /\ d = calls(d.fn)
    \/ d.fn \in Functions /\ d.op = "copy"

FunTyping ==
    /\ fun \in Seq(Function) /\ Len(fun) <= MaxFunctions
    /\ \A f \in Functions : fun[f].mod \in 1 .. nmod /\ Wellformed(fun[f].does)

CodeTyping ==
    /\ DOMAIN code \subseteq Functions /\ stale \subseteq Functions
    /\ code \in [DOMAIN code -> [edit : Nat, does : Body]]
    /\ \A f \in DOMAIN code : Wellformed(code[f].does)

VMTyping ==
    /\ vm \in [ module : 0 .. nmod, func : 0 .. Len(fun), func_n : 0 .. Len(fun),
                modules : SUBSET (1 .. nmod), methods : SUBSET Functions ]
    /\ vm.module # 0 => vm.func \in Functions /\ vm.module \in vm.modules

Typing ==
    /\ nmod \in Nat /\ lists \in Nat /\ EE \subseteq 1 .. nmod /\ careful \in BOOLEAN
    /\ FunTyping /\ CodeTyping /\ VMTyping

-----------------------------------------------------------------------------
(* What the steps do to the functions.                                     *)

LEMMA Bodies ==
    /\ nothing \in Body
    /\ \A g \in Nat : calls(g) \in Body /\ calls(g) # nothing
    /\ \A g, e \in Nat : copy(g, e) \in Body /\ copy(g, e) # nothing
    /\ \A g, h, e \in Nat : copy(g, e) # calls(h)
    /\ \A g, h : calls(g) = calls(h) => g = h
  BY DEF nothing, calls, copy, Body

LEMMA Declared ==
    ASSUME NEW m \in Nat, NEW name \in FunctionNames, NEW renamed \in BOOLEAN
    PROVE  LET d == declaration(m, name, renamed)
           IN  /\ d \in Function /\ d.mod = m /\ d.name = name /\ d.renamed = renamed
               /\ d.edit = 0 /\ d.does = nothing /\ d.finished = TRUE /\ d.alive = TRUE
  BY Bodies DEF declaration, Function

LEMMA Appended ==
    ASSUME NEW T, NEW s \in Seq(T), NEW d \in T
    PROVE  /\ Append(s, d) \in Seq(T)
           /\ Len(Append(s, d)) = Len(s) + 1
           /\ DOMAIN Append(s, d) = DOMAIN s \cup {Len(s) + 1}
           /\ Len(s) + 1 \notin DOMAIN s
           /\ \A g \in DOMAIN s : Append(s, d)[g] = s[g]
           /\ Append(s, d)[Len(s) + 1] = d
  OBVIOUS

LEMMA Rebuilt ==
    ASSUME NEW T, NEW s \in Seq(T), NEW t \in [DOMAIN s -> T]
    PROVE  t \in Seq(T) /\ Len(t) = Len(s) /\ DOMAIN t = DOMAIN s
<1>1. DOMAIN s = 1 .. Len(s) /\ Len(s) \in Nat
  OBVIOUS
<1> QED  BY <1>1

\* A function with a new body.
WithBody(r, does, finished) ==
    [[[r EXCEPT !.edit = @ + 1] EXCEPT !.does = does] EXCEPT !.finished = finished]

LEMMA EditedRecord ==
    ASSUME NEW r \in Function, NEW does \in Body, NEW finished \in BOOLEAN
    PROVE  LET t == WithBody(r, does, finished)
           IN  /\ t \in Function /\ t.mod = r.mod /\ t.name = r.name /\ t.renamed = r.renamed
               /\ t.edit = r.edit + 1 /\ t.does = does /\ t.finished = finished /\ t.alive = r.alive
<1> DEFINE r1 == [r EXCEPT !.edit = @ + 1]
           r2 == [r1 EXCEPT !.does = does]
           r3 == [r2 EXCEPT !.finished = finished]
<1>1. /\ r1 \in Function /\ r1.mod = r.mod /\ r1.name = r.name /\ r1.renamed = r.renamed
      /\ r1.edit = r.edit + 1 /\ r1.alive = r.alive
  BY DEF Function
<1> HIDE DEF r1
<1>2. /\ r2 \in Function /\ r2.mod = r1.mod /\ r2.name = r1.name /\ r2.renamed = r1.renamed
      /\ r2.edit = r1.edit /\ r2.does = does /\ r2.alive = r1.alive
  BY <1>1 DEF Function
<1> HIDE DEF r2
<1>3. /\ r3 \in Function /\ r3.mod = r2.mod /\ r3.name = r2.name /\ r3.renamed = r2.renamed
      /\ r3.edit = r2.edit /\ r3.does = r2.does /\ r3.finished = finished /\ r3.alive = r2.alive
  BY <1>2 DEF Function
<1> HIDE DEF r3
<1>4. /\ r3 \in Function /\ r3.mod = r.mod /\ r3.name = r.name /\ r3.renamed = r.renamed
      /\ r3.edit = r.edit + 1 /\ r3.does = does /\ r3.finished = finished /\ r3.alive = r.alive
  BY <1>1, <1>2, <1>3
<1> QED  BY <1>4, Zenon DEF r3, r2, r1, WithBody

LEMMA EditedFun ==
    ASSUME NEW s \in Seq(Function), NEW f \in DOMAIN s, NEW does \in Body,
           NEW finished \in BOOLEAN
    PROVE  LET t == Edited(s, f, does, finished)
           IN  /\ t \in Seq(Function) /\ Len(t) = Len(s) /\ DOMAIN t = DOMAIN s
               /\ \A g \in DOMAIN s : g # f => t[g] = s[g]
               /\ t[f].mod = s[f].mod /\ t[f].name = s[f].name /\ t[f].renamed = s[f].renamed
               /\ t[f].edit = s[f].edit + 1 /\ t[f].does = does
               /\ t[f].finished = finished /\ t[f].alive = s[f].alive
<1> DEFINE t == Edited(s, f, does, finished)
           r == WithBody(s[f], does, finished)
<1>1. s \in [DOMAIN s -> Function] /\ s[f] \in Function
  OBVIOUS
<1>2. t = [s EXCEPT ![f] = r]
  BY <1>1 DEF Edited, WithBody
<1>3. /\ r \in Function
      /\ r.mod = s[f].mod /\ r.name = s[f].name /\ r.renamed = s[f].renamed
      /\ r.edit = s[f].edit + 1 /\ r.does = does /\ r.finished = finished /\ r.alive = s[f].alive
  BY <1>1, EditedRecord
<1> HIDE DEF t, r
<1>4. /\ t \in [DOMAIN s -> Function] /\ t[f] = r
      /\ \A g \in DOMAIN s : g # f => t[g] = s[g]
  BY <1>1, <1>2, <1>3
<1>5. t \in Seq(Function) /\ Len(t) = Len(s) /\ DOMAIN t = DOMAIN s
  BY <1>4, Rebuilt
<1> QED  BY <1>3, <1>4, <1>5 DEF t

-----------------------------------------------------------------------------
(* The passes.                                                             *)

Unused(m, fs, g) == fs[g].mod = m /\ fs[g].edit = 0 /\ \A f \in Functions : fs[f].does # calls(g)

Inlinable(m, fs, f) ==
    fs[f].mod = m /\ \E g \in Functions : fs[f].does = calls(g) /\ fs[g].edit > 0

\* Function by function, what a list of passes makes of fs.
Outcome(m, fs, ft) ==
    /\ ft \in [Functions -> Function]
    /\ \A g \in Functions :
           /\ ft[g].mod = fs[g].mod /\ ft[g].name = fs[g].name /\ ft[g].renamed = fs[g].renamed
           /\ ft[g].edit = fs[g].edit /\ ft[g].finished = fs[g].finished
           /\ ft[g].alive = (fs[g].alive /\ ~Unused(m, fs, g))
           /\ \/ ft[g].does = fs[g].does
              \/ /\ Inlinable(m, fs, g)
                 /\ ft[g].does = copy(fs[g].does.fn, fs[fs[g].does.fn].edit)

Deleted(r)    == [r EXCEPT !.alive = FALSE]
Inlining(r, d) == [r EXCEPT !.does = d]

LEMMA DeletedRecord ==
    ASSUME NEW r \in Function
    PROVE  LET t == Deleted(r)
           IN  /\ t \in Function /\ t.mod = r.mod /\ t.name = r.name /\ t.renamed = r.renamed
               /\ t.edit = r.edit /\ t.does = r.does /\ t.finished = r.finished /\ t.alive = FALSE
  BY DEF Function, Deleted

LEMMA InliningRecord ==
    ASSUME NEW r \in Function, NEW d \in Body
    PROVE  LET t == Inlining(r, d)
           IN  /\ t \in Function /\ t.mod = r.mod /\ t.name = r.name /\ t.renamed = r.renamed
               /\ t.edit = r.edit /\ t.does = d /\ t.finished = r.finished /\ t.alive = r.alive
  BY DEF Function, Inlining

LEMMA SameRecord ==
    ASSUME NEW r \in Function, NEW t \in Function,
           t.mod = r.mod, t.name = r.name, t.renamed = r.renamed,
           t.edit = r.edit, t.does = r.does, t.finished = r.finished, t.alive = r.alive
    PROVE  t = r
  BY DEF Function

LEMMA GlobalDCE ==
    ASSUME NEW m, NEW fs \in [Functions -> Function]
    PROVE  LET d == createGlobalDCEPass(m, fs)
           IN  /\ d \in [Functions -> Function]
               /\ \A g \in Functions :
                      /\ d[g].mod = fs[g].mod /\ d[g].name = fs[g].name /\ d[g].renamed = fs[g].renamed
                      /\ d[g].edit = fs[g].edit /\ d[g].does = fs[g].does /\ d[g].finished = fs[g].finished
                      /\ d[g].alive = (fs[g].alive /\ ~Unused(m, fs, g))
<1> DEFINE d == createGlobalDCEPass(m, fs)
<1>1. d = [ g \in Functions |-> IF Unused(m, fs, g) THEN Deleted(fs[g]) ELSE fs[g] ]
  BY DEF createGlobalDCEPass, Unused, Deleted
<1> HIDE DEF d
<1>2. ASSUME NEW g \in Functions
      PROVE  /\ d[g] \in Function
             /\ d[g].mod = fs[g].mod /\ d[g].name = fs[g].name /\ d[g].renamed = fs[g].renamed
             /\ d[g].edit = fs[g].edit /\ d[g].does = fs[g].does /\ d[g].finished = fs[g].finished
             /\ d[g].alive = (fs[g].alive /\ ~Unused(m, fs, g))
  <2>1. fs[g] \in Function
    OBVIOUS
  <2>2. CASE Unused(m, fs, g)
    <3>1. d[g] = Deleted(fs[g])
      BY <1>1, <2>2
    <3> QED  BY <2>1, <2>2, <3>1, DeletedRecord
  <2>3. CASE ~Unused(m, fs, g)
    <3>1. d[g] = fs[g]
      BY <1>1, <2>3
    <3>2. fs[g].alive = (fs[g].alive /\ ~Unused(m, fs, g))
      BY <2>1, <2>3 DEF Function
    <3> QED  BY <2>1, <3>1, <3>2
  <2> QED  BY <2>2, <2>3
<1>3. d \in [Functions -> Function]
  BY <1>1, <1>2
<1> QED  BY <1>2, <1>3 DEF d

LEMMA PassesOutcome ==
    ASSUME NEW m, NEW fs \in [Functions -> Function], NEW ft
    PROVE  ft \in Passes(m, fs) <=> Outcome(m, fs, ft)
<1> DEFINE d == createGlobalDCEPass(m, fs)
           inlinable == { f \in Functions : Inlinable(m, fs, f) }
           copied(f) == copy(fs[f].does.fn, fs[fs[f].does.fn].edit)
           inlined(S) == [ f \in Functions |-> IF f \in S THEN Inlining(d[f], copied(f)) ELSE d[f] ]
<1>1. /\ d \in [Functions -> Function]
      /\ \A g \in Functions :
             /\ d[g].mod = fs[g].mod /\ d[g].name = fs[g].name /\ d[g].renamed = fs[g].renamed
             /\ d[g].edit = fs[g].edit /\ d[g].does = fs[g].does /\ d[g].finished = fs[g].finished
             /\ d[g].alive = (fs[g].alive /\ ~Unused(m, fs, g))
  BY GlobalDCE
<1> HIDE DEF d
<1>2. ASSUME NEW f \in inlinable
      PROVE  fs[f].does.fn \in Functions /\ copied(f) \in Body
  <2>1. PICK g \in Functions : fs[f].does = calls(g) /\ fs[g].edit > 0
    BY DEF Inlinable
  <2>2. fs[f].does.fn = g
    BY <2>1 DEF calls
  <2>3. fs[g].edit \in Nat /\ fs[f].does \in Body
    BY DEF Function
  <2>4. g \in Nat
    BY <2>2, <2>3 DEF Body
  <2> QED  BY <2>2, <2>3, <2>4, Bodies
<1>3. Passes(m, fs) = { inlined(S) : S \in SUBSET inlinable }
  <2>1. inlinable = { f \in Functions : d[f].mod = m /\ \E g \in Functions :
                                             d[f].does = calls(g) /\ d[g].edit > 0 }
    BY <1>1 DEF Inlinable
  <2>2. \A f \in inlinable : copied(f) = copy(d[f].does.fn, d[d[f].does.fn].edit)
    BY <1>1, <1>2
  <2> DEFINE Set == { f \in Functions : d[f].mod = m /\ \E g \in Functions :
                                             d[f].does = calls(g) /\ d[g].edit > 0 }
             other(S) == [ f \in Functions |->
                 IF f \in S THEN [d[f] EXCEPT !.does = copy(d[f].does.fn, d[d[f].does.fn].edit)] ELSE d[f] ]
  <2>3. Passes(m, fs) = { other(S) : S \in SUBSET Set }
    BY Zenon DEF Passes, createFunctionInliningPass, d
  <2>4. ASSUME NEW S \in SUBSET inlinable PROVE other(S) = inlined(S)
    BY <2>2 DEF Inlining
  <2> HIDE DEF inlinable, Set, other, inlined
  <2>5. Set = inlinable
    BY <2>1 DEF Set
  <2> QED  BY <2>3, <2>4, <2>5
<1>4. ASSUME NEW S \in SUBSET inlinable, ft = inlined(S) PROVE Outcome(m, fs, ft)
  <2>1. ASSUME NEW g \in Functions
        PROVE  /\ ft[g] \in Function
               /\ ft[g].mod = fs[g].mod /\ ft[g].name = fs[g].name /\ ft[g].renamed = fs[g].renamed
               /\ ft[g].edit = fs[g].edit /\ ft[g].finished = fs[g].finished
               /\ ft[g].alive = (fs[g].alive /\ ~Unused(m, fs, g))
               /\ ft[g].does = fs[g].does \/ (Inlinable(m, fs, g) /\ ft[g].does = copied(g))
    <3>1. d[g] \in Function
      BY <1>1
    <3>2. CASE g \in S
      <4>1. ft[g] = Inlining(d[g], copied(g)) /\ g \in inlinable
        BY <1>4, <3>2
      <4>2. copied(g) \in Body /\ Inlinable(m, fs, g)
        BY <4>1, <1>2
      <4> HIDE DEF copied
      <4> QED  BY <4>1, <4>2, <3>1, <1>1, InliningRecord
    <3>3. CASE g \notin S
      <4>1. ft[g] = d[g]
        BY <1>4, <3>3
      <4> QED  BY <4>1, <3>1, <1>1
    <3> QED  BY <3>2, <3>3
  <2>2. ft \in [Functions -> Function]
    BY <1>4, <2>1
  <2> QED  BY <2>1, <2>2 DEF Outcome
<1>5. ASSUME Outcome(m, fs, ft) PROVE \E S \in SUBSET inlinable : ft = inlined(S)
  <2> DEFINE S == { f \in Functions : ft[f].does # fs[f].does }
  <2>1. ft \in [Functions -> Function]
    BY <1>5 DEF Outcome
  <2>2. \A f \in Functions : f \in S => Inlinable(m, fs, f) /\ ft[f].does = copied(f)
    BY <1>5 DEF Outcome
  <2>3. ASSUME NEW f \in Functions PROVE ft[f] = IF f \in S THEN Inlining(d[f], copied(f)) ELSE d[f]
    <3>1. d[f] \in Function /\ ft[f] \in Function
      BY <1>1, <2>1
    <3>2. /\ ft[f].mod = d[f].mod /\ ft[f].name = d[f].name /\ ft[f].renamed = d[f].renamed
          /\ ft[f].edit = d[f].edit /\ ft[f].finished = d[f].finished
          /\ ft[f].alive = d[f].alive
      BY <1>5, <1>1 DEF Outcome
    <3>3. CASE f \in S
      <4>1. copied(f) \in Body /\ ft[f].does = copied(f)
        BY <3>3, <2>2, <1>2
      <4> HIDE DEF copied
      <4>2. /\ Inlining(d[f], copied(f)) \in Function
            /\ Inlining(d[f], copied(f)).mod = d[f].mod
            /\ Inlining(d[f], copied(f)).name = d[f].name
            /\ Inlining(d[f], copied(f)).renamed = d[f].renamed
            /\ Inlining(d[f], copied(f)).edit = d[f].edit
            /\ Inlining(d[f], copied(f)).does = copied(f)
            /\ Inlining(d[f], copied(f)).finished = d[f].finished
            /\ Inlining(d[f], copied(f)).alive = d[f].alive
        BY <4>1, <3>1, InliningRecord
      <4>3. ft[f] = Inlining(d[f], copied(f))
        BY <4>1, <4>2, <3>1, <3>2, SameRecord
      <4> QED  BY <4>3, <3>3
    <3>4. CASE f \notin S
      <4>1. ft[f].does = d[f].does
        BY <3>4, <1>1
      <4>2. ft[f] = d[f]
        BY <4>1, <3>1, <3>2, SameRecord
      <4> QED  BY <4>2, <3>4
    <3> QED  BY <3>3, <3>4
  <2>4. S \in SUBSET inlinable
    BY <2>2
  <2> HIDE DEF S
  <2>5. ft = inlined(S)
    BY <2>1, <2>3
  <2> QED  BY <2>4, <2>5
<1> HIDE DEF inlinable, inlined
<1> QED  BY <1>3, <1>4, <1>5

\* What a second list does to the outcome of the first, one could have done.
LEMMA OutcomeAgain ==
    ASSUME NEW m, NEW fs \in [Functions -> Function], NEW ft, NEW fu,
           Outcome(m, fs, ft), Outcome(m, ft, fu)
    PROVE  Outcome(m, fs, fu)
<1>1. \A f, g \in Functions : fs[g].edit = 0 => (ft[f].does = calls(g) <=> fs[f].does = calls(g))
  <2> SUFFICES ASSUME NEW f \in Functions, NEW g \in Functions, fs[g].edit = 0
               PROVE  ft[f].does = calls(g) <=> fs[f].does = calls(g)
    OBVIOUS
  <2>1. CASE ft[f].does = fs[f].does
    BY <2>1
  <2>2. CASE Inlinable(m, fs, f) /\ ft[f].does = copy(fs[f].does.fn, fs[fs[f].does.fn].edit)
    <3>1. PICK h \in Functions : fs[f].does = calls(h) /\ fs[h].edit > 0
      BY <2>2 DEF Inlinable
    <3>2. h # g
      BY <3>1
    <3>3. fs[f].does # calls(g)
      BY <3>1, <3>2 DEF calls
    <3>4. ft[f].does # calls(g)
      BY <2>2 DEF calls, copy
    <3> QED  BY <3>3, <3>4
  <2> QED  BY <2>1, <2>2 DEF Outcome
<1>2. \A g \in Functions : Unused(m, ft, g) <=> Unused(m, fs, g)
  BY <1>1 DEF Unused, Outcome
<1>3. ASSUME NEW g \in Functions
      PROVE  \/ fu[g].does = fs[g].does
             \/ /\ Inlinable(m, fs, g)
                /\ fu[g].does = copy(fs[g].does.fn, fs[fs[g].does.fn].edit)
  <2>1. CASE fu[g].does = ft[g].does
    BY <2>1 DEF Outcome
  <2>2. CASE Inlinable(m, ft, g) /\ fu[g].does = copy(ft[g].does.fn, ft[ft[g].does.fn].edit)
    <3>1. PICK h \in Functions : ft[g].does = calls(h) /\ ft[h].edit > 0
      BY <2>2 DEF Inlinable
    <3>2. ft[g].does = fs[g].does
      <4>1. \A a, b : copy(a, b) # calls(h)
        BY DEF copy, calls
      <4> QED  BY <3>1, <4>1 DEF Outcome
    <3>3. ft[g].does.fn = h
      BY <3>1 DEF calls
    <3>4. Inlinable(m, fs, g)
      <4>1. ft[g].mod = m
        BY <2>2 DEF Inlinable
      <4>2. fs[g].mod = m /\ fs[h].edit = ft[h].edit
        BY <4>1 DEF Outcome
      <4> QED  BY <4>2, <3>1, <3>2 DEF Inlinable
    <3> QED  BY <2>2, <3>2, <3>3, <3>4 DEF Outcome
  <2> QED  BY <2>1, <2>2 DEF Outcome
<1> QED  BY <1>2, <1>3 DEF Outcome

LEMMA Least ==
    ASSUME NEW T, T \subseteq Nat, T # {}
    PROVE  \E x \in T : \A y \in T : x <= y
<1>1. PICK R : IsWellFoundedOn(R, Nat) /\ \A x, y \in Nat : y < x => <<y, x>> \in R
  <2>1. \A x, y \in Nat : y < x => <<y, x>> \in OpToRel(<, Nat)
    BY DEF OpToRel
  <2> QED  BY <2>1, NatLessThanWellFounded, Zenon
<1>2. PICK x \in T : \A y \in T : ~(<<y, x>> \in R)
  BY <1>1, WFMin
<1>3. ASSUME NEW y \in T PROVE x <= y
  <2>1. x \in Nat /\ y \in Nat
    OBVIOUS
  <2>2. ~(y < x)
    BY <1>1, <1>2, <2>1, Zenon
  <2> QED  BY <2>1, <2>2
<1> QED  BY <1>3

\* r is what one, two, and up to n lists of passes can do.
IsResult(r, n, m) ==
    r = [ k \in 1 .. n |-> IF k = 1 THEN Passes(m, fun) ELSE UNION { Passes(m, fs) : fs \in r[k - 1] } ]

LEMMA ResultExists ==
    ASSUME NEW m, NEW n \in Nat \ {0}
    PROVE  \E r : IsResult(r, n, m)
<1> DEFINE T == { k \in Nat \ {0} : ~\E r : IsResult(r, k, m) }
<1> SUFFICES ASSUME T # {} PROVE FALSE
  OBVIOUS
<1>1. PICK k \in T : \A j \in T : k <= j
  <2>1. T \subseteq Nat
    OBVIOUS
  <2> HIDE DEF T
  <2> QED  BY <2>1, Least
<1>2. CASE k = 1
  <2>1. IsResult([ i \in 1 .. 1 |-> Passes(m, fun) ], 1, m)
    BY DEF IsResult
  <2> QED  BY <1>2, <2>1
<1>3. CASE k > 1
  <2>1. PICK r : IsResult(r, k - 1, m)
    BY <1>1, <1>3
  <2> DEFINE s == [ i \in 1 .. k |-> IF i = k THEN UNION { Passes(m, fs) : fs \in r[k - 1] } ELSE r[i] ]
  <2>2. \A i \in 1 .. k : s[i] = IF i = 1 THEN Passes(m, fun) ELSE UNION { Passes(m, fs) : fs \in s[i - 1] }
    <3> SUFFICES ASSUME NEW i \in 1 .. k
                 PROVE  s[i] = IF i = 1 THEN Passes(m, fun) ELSE UNION { Passes(m, fs) : fs \in s[i - 1] }
      OBVIOUS
    <3>1. k \in Nat /\ i \in Nat
      OBVIOUS
    <3>2. CASE i = k
      <4>1. s[i] = UNION { Passes(m, fs) : fs \in r[k - 1] } /\ s[i - 1] = r[k - 1]
        BY <1>3, <3>1, <3>2
      <4> QED  BY <4>1, <1>3, <3>2
    <3>3. CASE i # k /\ i # 1
      <4>1. s[i] = r[i] /\ s[i - 1] = r[i - 1]
        BY <1>3, <3>1, <3>3
      <4>2. i \in 1 .. (k - 1)
        BY <3>1, <3>3
      <4>3. r[i] = UNION { Passes(m, fs) : fs \in r[i - 1] }
        BY <2>1, <3>3, <4>2 DEF IsResult
      <4> QED  BY <4>1, <4>3, <3>3
    <3>4. CASE i # k /\ i = 1
      <4>1. s[i] = r[i] /\ i \in 1 .. (k - 1)
        BY <1>3, <3>1, <3>4
      <4>2. r[i] = Passes(m, fun)
        BY <2>1, <3>4, <4>1 DEF IsResult
      <4> QED  BY <4>1, <4>2, <3>4
    <3> QED  BY <3>2, <3>3, <3>4
  <2>3. s = [i \in 1 .. k |-> s[i]]
    OBVIOUS
  <2> HIDE DEF s
  <2>4. IsResult(s, k, m)
    BY <2>2, <2>3 DEF IsResult
  <2> QED  BY <2>4
<1> QED  BY <1>2, <1>3

\* Any number of lists can do what one can, and no more.
LEMMA RepeatedOnce ==
    ASSUME NEW m, NEW n \in Nat \ {0}, fun \in [Functions -> Function]
    PROVE  Repeated(n, m) \subseteq Passes(m, fun)
<1>1. \E r : IsResult(r, n, m)
  BY ResultExists
<1>2. PICK r : IsResult(r, n, m) /\ Repeated(n, m) = r[n]
  BY <1>1 DEF Repeated, IsResult
<1> DEFINE T == { k \in 1 .. n : ~(r[k] \subseteq Passes(m, fun)) }
<1> SUFFICES ASSUME T # {} PROVE FALSE
  BY <1>2
<1>3. PICK k \in T : \A j \in T : k <= j
  <2>1. T \subseteq Nat
    OBVIOUS
  <2> HIDE DEF T
  <2> QED  BY <2>1, Least
<1>4. k # 1
  BY <1>2 DEF IsResult
<1>5. k - 1 \in 1 .. n /\ k - 1 \notin T
  BY <1>3, <1>4
<1>6. r[k - 1] \subseteq Passes(m, fun)
  BY <1>5
<1>7. r[k] = UNION { Passes(m, fs) : fs \in r[k - 1] }
  BY <1>2, <1>4 DEF IsResult
<1>8. ASSUME NEW fs \in r[k - 1], NEW ft \in Passes(m, fs) PROVE ft \in Passes(m, fun)
  <2>1. Outcome(m, fun, fs)
    BY <1>6, PassesOutcome
  <2>2. fs \in [Functions -> Function]
    BY <2>1 DEF Outcome
  <2>3. Outcome(m, fs, ft)
    BY <2>2, PassesOutcome
  <2> QED  BY <2>1, <2>2, <2>3, OutcomeAgain, PassesOutcome
<1> QED  BY <1>7, <1>8

-----------------------------------------------------------------------------
(* Types.                                                                  *)

LEMMA InitTyping == Init => Typing
<1> SUFFICES ASSUME Init PROVE Typing
  OBVIOUS
<1>1. fun = <<>> /\ code = <<>> /\ stale = {} /\ EE = {} /\ nmod = 0 /\ lists = 0 /\ careful = TRUE
  BY DEF Init
<1>2. FunTyping
  BY <1>1, BoundsAssumption DEF FunTyping, Functions
<1>3. CodeTyping
  BY <1>1 DEF CodeTyping
<1>4. VMTyping
  BY <1>1 DEF Init, VMTyping
<1> QED  BY <1>1, <1>2, <1>3, <1>4 DEF Typing

LEMMA WellformedKept ==
    ASSUME Functions \subseteq Functions', NEW d, Wellformed(d)
    PROVE  Wellformed(d)'
  BY DEF Wellformed

LEMMA CodeKept ==
    ASSUME CodeTyping, Functions \subseteq Functions', code' = code, stale' \subseteq Functions'
    PROVE  CodeTyping'
<1>1. \A f \in DOMAIN code : Wellformed(code[f].does)'
  BY WellformedKept DEF CodeTyping
<1> QED  BY <1>1 DEF CodeTyping

\* A step that adds function d, of module m.
LEMMA FunAdded ==
    ASSUME Typing, nmod' \in Nat, nmod <= nmod', Len(fun) < MaxFunctions,
           NEW d \in Function, d.mod \in 1 .. nmod', Wellformed(d.does) \/ d.does = nothing,
           fun' = Append(fun, d)
    PROVE  /\ FunTyping' /\ Len(fun') = Len(fun) + 1
           /\ Functions' = Functions \cup {Len(fun) + 1} /\ Len(fun) + 1 \notin Functions
           /\ \A g \in Functions : fun'[g] = fun[g]
           /\ fun'[Len(fun) + 1] = d
<1>1. fun \in Seq(Function) /\ Len(fun) \in Nat
  BY DEF Typing, FunTyping
<1>2. /\ fun' \in Seq(Function) /\ Len(fun') = Len(fun) + 1
      /\ Functions' = Functions \cup {Len(fun) + 1} /\ Len(fun) + 1 \notin Functions
      /\ \A g \in Functions : fun'[g] = fun[g]
      /\ fun'[Len(fun) + 1] = d
  BY <1>1, Appended DEF Functions
<1>3. Len(fun') <= MaxFunctions
  BY <1>1, <1>2, BoundsAssumption
<1>4. ASSUME NEW f \in Functions' PROVE fun'[f].mod \in 1 .. nmod' /\ Wellformed(fun[f].does)'
  <2>1. CASE f \in Functions
    <3>1. fun'[f] = fun[f] /\ fun[f].mod \in 1 .. nmod /\ Wellformed(fun[f].does)
      BY <1>2, <2>1 DEF Typing, FunTyping
    <3>2. Wellformed(fun[f].does)'
      BY <3>1, <1>2 DEF Wellformed
    <3> QED  BY <3>1, <3>2 DEF Typing
  <2>2. CASE f = Len(fun) + 1
    <3>1. fun'[f] = d
      BY <2>2, <1>2
    <3>2. Wellformed(fun[f].does)'
      BY <3>1, <1>2 DEF Wellformed
    <3> QED  BY <3>1, <3>2
  <2> QED  BY <1>2, <2>1, <2>2
<1> QED  BY <1>2, <1>3, <1>4 DEF FunTyping

\* A step that gives function f a body.
LEMMA FunBuilt ==
    ASSUME Typing, nmod' = nmod, NEW f \in Functions, NEW does \in Body, Wellformed(does),
           NEW finished \in BOOLEAN, fun' = Edited(fun, f, does, finished)
    PROVE  /\ FunTyping' /\ Len(fun') = Len(fun) /\ Functions' = Functions
           /\ \A g \in Functions : g # f => fun'[g] = fun[g]
           /\ fun'[f].mod = fun[f].mod /\ fun'[f].name = fun[f].name
           /\ fun'[f].renamed = fun[f].renamed /\ fun'[f].edit = fun[f].edit + 1
           /\ fun'[f].does = does /\ fun'[f].finished = finished /\ fun'[f].alive = fun[f].alive
<1>1. fun \in Seq(Function) /\ f \in DOMAIN fun
  BY DEF Typing, FunTyping, Functions
<1>2. /\ fun' \in Seq(Function) /\ Len(fun') = Len(fun) /\ Functions' = Functions
      /\ \A g \in Functions : g # f => fun'[g] = fun[g]
      /\ fun'[f].mod = fun[f].mod /\ fun'[f].name = fun[f].name
      /\ fun'[f].renamed = fun[f].renamed /\ fun'[f].edit = fun[f].edit + 1
      /\ fun'[f].does = does /\ fun'[f].finished = finished /\ fun'[f].alive = fun[f].alive
  BY <1>1, EditedFun DEF Functions
<1>3. ASSUME NEW g \in Functions' PROVE fun'[g].mod \in 1 .. nmod' /\ Wellformed(fun[g].does)'
  <2>1. fun[g].mod \in 1 .. nmod /\ Wellformed(fun[g].does)
    BY <1>2 DEF Typing, FunTyping
  <2>2. CASE g # f
    <3>1. fun'[g] = fun[g]
      BY <1>2, <2>2
    <3> QED  BY <2>1, <3>1, <1>2 DEF Wellformed
  <2>3. CASE g = f
    BY <2>1, <2>3, <1>2 DEF Wellformed
  <2> QED  BY <2>2, <2>3
<1> QED  BY <1>2, <1>3 DEF FunTyping, Typing

\* The number of the next function.
New == Len(fun) + 1

\* A step that adds a function with its body.
LEMMA FunCompiled ==
    ASSUME Typing, nmod' = nmod, Len(fun) < MaxFunctions,
           NEW m \in 1 .. nmod, NEW name \in FunctionNames,
           NEW does \in Body, Wellformed(does), NEW finished \in BOOLEAN,
           fun' = Edited(Append(fun, declaration(m, name, FALSE)), New, does, finished)
    PROVE  /\ FunTyping' /\ Len(fun') = Len(fun) + 1
           /\ Functions' = Functions \cup {New} /\ New \notin Functions
           /\ \A g \in Functions : fun'[g] = fun[g]
           /\ fun'[New].mod = m /\ fun'[New].name = name
           /\ fun'[New].renamed = FALSE /\ fun'[New].edit = 1
           /\ fun'[New].does = does /\ fun'[New].finished = finished /\ fun'[New].alive = TRUE
<1> DEFINE d == declaration(m, name, FALSE)
           fs == Append(fun, d)
<1>1. fun \in Seq(Function) /\ Len(fun) \in Nat /\ nmod \in Nat
  BY DEF Typing, FunTyping
<1>2. /\ d \in Function /\ d.mod = m /\ d.name = name /\ d.renamed = FALSE
      /\ d.edit = 0 /\ d.alive = TRUE
  <2>1. m \in Nat /\ FALSE \in BOOLEAN
    BY <1>1
  <2> QED  BY <2>1, Declared
<1> HIDE DEF d
<1>3. /\ fs \in Seq(Function) /\ Len(fs) = Len(fun) + 1 /\ DOMAIN fs = Functions \cup {New}
      /\ New \notin Functions /\ \A g \in Functions : fs[g] = fun[g]
      /\ fs[New] = d
  BY <1>1, <1>2, Appended DEF Functions, New
<1> HIDE DEF fs
<1>4. fun' = Edited(fs, New, does, finished)
  BY DEF fs, d
<1>a. fs \in Seq(Function) /\ New \in DOMAIN fs
  BY <1>3
<1>5. /\ fun' \in Seq(Function) /\ Len(fun') = Len(fs) /\ Functions' = DOMAIN fs
      /\ \A g \in DOMAIN fs : g # New => fun'[g] = fs[g]
      /\ fun'[New].mod = d.mod /\ fun'[New].name = d.name
      /\ fun'[New].renamed = d.renamed /\ fun'[New].edit = d.edit + 1
      /\ fun'[New].does = does /\ fun'[New].finished = finished /\ fun'[New].alive = d.alive
  <2>1. /\ Edited(fs, New, does, finished) \in Seq(Function)
        /\ Len(Edited(fs, New, does, finished)) = Len(fs) 
        /\ DOMAIN Edited(fs, New, does, finished) = DOMAIN fs
    BY <1>a, EditedFun
  <2> DEFINE t == Edited(fs, New, does, finished)
  <2>2. /\ \A g \in DOMAIN fs : g # New => t[g] = fs[g]
        /\ t[New].mod = fs[New].mod /\ t[New].name = fs[New].name
        /\ t[New].renamed = fs[New].renamed /\ t[New].edit = fs[New].edit + 1
        /\ t[New].does = does /\ t[New].finished = finished /\ t[New].alive = fs[New].alive
    BY <1>a, EditedFun
  <2> HIDE DEF t
  <2>3. fun' = t
    BY <1>4 DEF t
  <2>4. /\ \A g \in DOMAIN fs : g # New => fun'[g] = fs[g]
        /\ fun'[New].mod = d.mod /\ fun'[New].name = d.name
        /\ fun'[New].renamed = d.renamed /\ fun'[New].edit = d.edit + 1
        /\ fun'[New].does = does /\ fun'[New].finished = finished /\ fun'[New].alive = d.alive
    BY <2>2, <2>3, <1>3
  <2> QED  BY <2>1, <2>4, <1>4 DEF Functions
<1>6. \A g \in Functions : fun'[g] = fun[g]
  BY <1>3, <1>5
<1>7. ASSUME NEW g \in Functions' PROVE fun'[g].mod \in 1 .. nmod' /\ Wellformed(fun[g].does)'
  <2>1. CASE g \in Functions
    <3>1. fun'[g] = fun[g] /\ fun[g].mod \in 1 .. nmod /\ Wellformed(fun[g].does)
      BY <1>6, <2>1 DEF Typing, FunTyping
    <3> QED  BY <3>1, <1>3, <1>5 DEF Wellformed
  <2>2. CASE g = New
    <3>1. fun'[g].mod = m /\ fun'[g].does = does
      BY <1>2, <1>5, <2>2
    <3> QED  BY <3>1, <1>3, <1>5 DEF Wellformed
  <2> QED  BY <2>1, <2>2, <1>3, <1>5
<1>8. Len(fun') <= MaxFunctions
  <2>1. MaxFunctions \in Nat /\ Len(fun') = Len(fun) + 1
    BY <1>3, <1>5, BoundsAssumption
  <2>2. \A i, j \in Nat : i < j => i + 1 <= j
    OBVIOUS
  <2>3. Len(fun) + 1 <= MaxFunctions
    BY <2>1, <2>2, <1>1
  <2> QED  BY <2>1, <2>3
<1>9. FunTyping'
  BY <1>5, <1>7, <1>8 DEF FunTyping
<1>10. Len(fun') = Len(fun) + 1 /\ Functions' = Functions \cup {New} /\ New \notin Functions
  BY <1>3, <1>5
<1>11. /\ fun'[New].mod = m /\ fun'[New].name = name /\ fun'[New].renamed = FALSE
       /\ fun'[New].edit = 1 /\ fun'[New].does = does /\ fun'[New].finished = finished
       /\ fun'[New].alive = TRUE
  <2>1. fun'[New].mod = m /\ fun'[New].name = name /\ fun'[New].renamed = FALSE /\ fun'[New].alive = TRUE
    BY <1>2, <1>5, Zenon
  <2>2. fun'[New].edit = 1
    <3>1. fun'[New].edit = 0 + 1
      BY <1>2, <1>5, Zenon
    <3>2. 0 + 1 = 1
      OBVIOUS
    <3> QED  BY <3>1, <3>2, Zenon
  <2>3. fun'[New].does = does /\ fun'[New].finished = finished
    BY <1>5, Zenon
  <2> QED  BY <2>1, <2>2, <2>3, Zenon
<1> QED  BY <1>6, <1>9, <1>10, <1>11

\* Passes on module m.
LEMMA FunPassed ==
    ASSUME Typing, nmod' = nmod, NEW m, fun' \in Repeated(lists + 1, m)
    PROVE  FunTyping' /\ Len(fun') = Len(fun) /\ Functions' = Functions /\ Outcome(m, fun, fun')
<1>1. fun \in Seq(Function) /\ fun \in [Functions -> Function] /\ lists + 1 \in Nat \ {0}
  BY DEF Typing, FunTyping, Functions
<1>2. Outcome(m, fun, fun')
  BY <1>1, RepeatedOnce, PassesOutcome
<1>3. fun' \in [DOMAIN fun -> Function]
  BY <1>2 DEF Outcome, Functions
<1>4. fun' \in Seq(Function) /\ Len(fun') = Len(fun) /\ DOMAIN fun' = DOMAIN fun
  BY <1>1, <1>3, Rebuilt
<1>5. ASSUME NEW g \in Functions' PROVE fun'[g].mod \in 1 .. nmod' /\ Wellformed(fun[g].does)'
  <2>1. g \in Functions
    BY <1>4 DEF Functions
  <2>2. fun[g].mod \in 1 .. nmod /\ Wellformed(fun[g].does)
    BY <2>1 DEF Typing, FunTyping
  <2>3. fun'[g].mod = fun[g].mod
    BY <1>2, <2>1 DEF Outcome
  <2>4. CASE fun'[g].does = fun[g].does
    BY <2>2, <2>3, <2>4, <1>4 DEF Wellformed, Functions
  <2>5. CASE Inlinable(m, fun, g) /\ fun'[g].does = copy(fun[g].does.fn, fun[fun[g].does.fn].edit)
    <3>1. PICK h \in Functions : fun[g].does = calls(h)
      BY <2>5 DEF Inlinable
    <3>2. fun[g].does.fn = h
      BY <3>1 DEF calls
    <3>3. fun'[g].does.op = "copy" /\ fun'[g].does.fn = h
      BY <2>5, <3>2 DEF copy
    <3> QED  BY <3>3, <2>2, <2>3, <1>4 DEF Wellformed, Functions
  <2> QED  BY <2>1, <2>4, <2>5, <1>2 DEF Outcome
<1>6. FunTyping'
  BY <1>4, <1>5 DEF FunTyping, Typing
<1> QED  BY <1>2, <1>4, <1>6 DEF Functions

\* A run either makes code for what it reaches and lacks it, and answers, or
\* aborts.
LEMMA RunTyping ==
    ASSUME Typing, NEW by, NEW f \in Functions, run_function(by, f)
    PROVE  /\ UNCHANGED <<nmod, fun, EE, lists, passed, vm, stale>> /\ CodeTyping'
           /\ \/ code' = code
              \/ \E fs \in SUBSET Functions : code' = compiled(fs)
<1> DEFINE uncompiled == Reached(f, IF f \in DOMAIN code THEN code ELSE fun) \ DOMAIN code
<1>1. uncompiled \subseteq Functions
  BY DEF Reached
<1>2. UNCHANGED <<nmod, fun, EE, lists, passed, vm, stale>>
  BY DEF run_function
<1>3. code' = code \/ code' = compiled(uncompiled)
  BY DEF run_function, LLVM_FUNCTION
<1> HIDE DEF uncompiled
<1>4. Functions' = Functions
  BY <1>2 DEF Functions
<1>5. CASE code' = code
  BY <1>2, <1>4, <1>5, CodeKept DEF Typing, CodeTyping
<1>6. CASE code' = compiled(uncompiled)
  <2>1. DOMAIN code' = DOMAIN code \cup uncompiled
    BY <1>6 DEF compiled
  <2>2. ASSUME NEW g \in DOMAIN code'
        PROVE  code'[g] \in [edit : Nat, does : Body] /\ Wellformed(code[g].does)'
    <3>1. CASE g \in DOMAIN code
      <4>1. code'[g] = code[g]
        BY <1>6, <2>1, <3>1 DEF compiled
      <4>2. code[g] \in [edit : Nat, does : Body] /\ Wellformed(code[g].does)
        BY <3>1 DEF Typing, CodeTyping
      <4> QED  BY <4>1, <4>2, <1>4 DEF Wellformed
    <3>2. CASE g \notin DOMAIN code
      <4>1. code'[g] = [edit |-> fun[g].edit, does |-> fun[g].does] /\ g \in Functions
        BY <1>6, <2>1, <3>2, <1>1 DEF compiled
      <4>2. fun[g] \in Function /\ Wellformed(fun[g].does)
        BY <4>1 DEF Typing, FunTyping, Functions
      <4>3. code'[g].does = fun[g].does /\ code'[g].edit = fun[g].edit
        BY <4>1
      <4>4. code'[g] \in [edit : Nat, does : Body]
        BY <4>1, <4>2 DEF Function
      <4> QED  BY <4>2, <4>3, <4>4, <1>4 DEF Wellformed
    <3> QED  BY <3>1, <3>2
  <2>3. code' = [g \in DOMAIN code' |-> code'[g]]
    BY <1>6 DEF compiled
  <2>4. code' \in [DOMAIN code' -> [edit : Nat, does : Body]]
    BY <2>2, <2>3
  <2>5. DOMAIN code' \subseteq Functions' /\ stale' \subseteq Functions'
    BY <2>1, <1>1, <1>2, <1>4 DEF Typing, CodeTyping
  <2>6. CodeTyping'
    BY <2>2, <2>4, <2>5 DEF CodeTyping
  <2> QED  BY <1>1, <1>2, <1>6, <2>6
<1> QED  BY <1>3, <1>5, <1>6

LEMMA VMCompiled ==
    ASSUME VMTyping, NEW methods, vm' = [[vm EXCEPT !.func_n = @ + 1] EXCEPT !.methods = methods]
    PROVE  /\ vm' = [ module |-> vm.module, func |-> vm.func, func_n |-> vm.func_n + 1,
                      modules |-> vm.modules, methods |-> methods ]
           /\ vm'.module = vm.module /\ vm'.func = vm.func /\ vm'.func_n = vm.func_n + 1
           /\ vm'.modules = vm.modules /\ vm'.methods = methods
<1> DEFINE v == [vm EXCEPT !.func_n = @ + 1]
<1>1. v = [ module |-> vm.module, func |-> vm.func, func_n |-> vm.func_n + 1,
            modules |-> vm.modules, methods |-> vm.methods ]
  BY DEF VMTyping
<1>2. vm' = [v EXCEPT !.methods = methods]
  OBVIOUS
<1> HIDE DEF v
<1>3. vm' = [ module |-> vm.module, func |-> vm.func, func_n |-> vm.func_n + 1,
              modules |-> vm.modules, methods |-> methods ]
  BY <1>1, <1>2
<1> QED  BY <1>3

LEMMA BuiltBody ==
    ASSUME Typing, NEW does \in {nothing} \cup { calls(g) : g \in Functions }
    PROVE  does \in Body /\ Wellformed(does)
<1>1. CASE does = nothing
  BY <1>1, Bodies DEF Wellformed
<1>2. ASSUME NEW g \in Functions, does = calls(g) PROVE does \in Body /\ Wellformed(does)
  <2>1. does.fn = g
    BY <1>2 DEF calls
  <2>2. g \in Nat
    BY DEF Typing, FunTyping, Functions
  <2> QED  BY <1>2, <2>1, <2>2, Bodies DEF Wellformed
<1> QED  BY <1>1, <1>2

\* RubyVM.compile_bytecode adds a method, or what is left of one.
LEMMA CompileStep ==
    ASSUME Typing, RubyVM_compile
    PROVE  /\ vm.module # 0 /\ UNCHANGED <<nmod, EE, code, lists, passed, last, stale, careful>>
           /\ FunTyping' /\ Len(fun') = Len(fun) + 1
           /\ Functions' = Functions \cup {New} /\ New \notin Functions
           /\ \A g \in Functions : fun'[g] = fun[g]
           /\ vm.func \in Functions /\ vm.module \in vm.modules
           /\ vm'.module = vm.module /\ vm'.func = vm.func /\ vm'.func_n = vm.func_n + 1
           /\ vm'.modules = vm.modules
           /\ \E f \in {New}, does \in {nothing, calls(vm.func)}, raises \in BOOLEAN :
                  /\ fun'[f].mod = vm.module /\ fun'[f].name = vm_func(vm.func_n)
                  /\ fun'[f].renamed = FALSE /\ fun'[f].edit = 1 /\ fun'[f].alive = TRUE
                  /\ fun'[f].does = does /\ fun'[f].finished = ~raises
                  /\ vm' = [ module |-> vm.module, func |-> vm.func, func_n |-> vm.func_n + 1,
                             modules |-> vm.modules,
                             methods |-> IF raises THEN vm.methods ELSE vm.methods \cup {f} ]
                  /\ vm'.methods = IF raises THEN vm.methods ELSE vm.methods \cup {f}
<1>1. PICK does \in {nothing, calls(vm.func)}, raises \in BOOLEAN :
          /\ fun' = Edited(Append(fun, declaration(vm.module, vm_func(vm.func_n), FALSE)),
                           New, does, ~raises)
          /\ vm' = [vm EXCEPT !.func_n = @ + 1,
                              !.methods = IF raises THEN @ ELSE @ \cup {New}]
  BY DEF RubyVM_compile, New
<1>2. /\ vm.module # 0 /\ Len(fun) < MaxFunctions
      /\ UNCHANGED <<nmod, EE, code, lists, passed, last, stale, careful>>
  BY DEF RubyVM_compile
<1> DEFINE name    == vm_func(vm.func_n)
           methods == IF raises THEN vm.methods ELSE vm.methods \cup {New}
<1>3. /\ vm.module \in 1 .. nmod /\ vm.func \in Functions /\ vm.func_n \in 0 .. Len(fun)
      /\ vm.module \in vm.modules
  BY <1>2 DEF Typing, VMTyping
<1>4. name \in FunctionNames
  <2>1. vm.func_n \in 0 .. MaxFunctions
    BY <1>2, <1>3, BoundsAssumption DEF Typing, FunTyping
  <2> QED  BY <2>1 DEF FunctionNames
<1>5. does \in Body /\ Wellformed(does)
  BY <1>3, BuiltBody
<1> HIDE DEF name, methods
<1>6. /\ FunTyping' /\ Len(fun') = Len(fun) + 1 /\ Functions' = Functions \cup {New}
      /\ New \notin Functions
      /\ \A g \in Functions : fun'[g] = fun[g]
      /\ fun'[New].mod = vm.module /\ fun'[New].name = name
      /\ fun'[New].renamed = FALSE /\ fun'[New].edit = 1
      /\ fun'[New].does = does /\ fun'[New].finished = ~raises
      /\ fun'[New].alive = TRUE
  <2> DEFINE finished == ~raises
  <2>1. fun' = Edited(Append(fun, declaration(vm.module, name, FALSE)), New, does, finished)
    BY <1>1 DEF name
  <2>2. nmod' = nmod /\ finished \in BOOLEAN
    BY <1>2
  <2> HIDE DEF finished
  <2>3. FunTyping' /\ Len(fun') = Len(fun) + 1 /\ Functions' = Functions \cup {New}
    BY <2>1, <2>2, <1>2, <1>3, <1>4, <1>5, FunCompiled
  <2>4. New \notin Functions /\ \A g \in Functions : fun'[g] = fun[g]
    BY <2>1, <2>2, <1>2, <1>3, <1>4, <1>5, FunCompiled
  <2>5. fun'[New].mod = vm.module /\ fun'[New].name = name
    BY <2>1, <2>2, <1>2, <1>3, <1>4, <1>5, FunCompiled
  <2>6. fun'[New].renamed = FALSE /\ fun'[New].edit = 1
    BY <2>1, <2>2, <1>2, <1>3, <1>4, <1>5, FunCompiled
  <2>7. fun'[New].does = does /\ fun'[New].finished = finished /\ fun'[New].alive = TRUE
    BY <2>1, <2>2, <1>2, <1>3, <1>4, <1>5, FunCompiled
  <2> QED  BY <2>3, <2>4, <2>5, <2>6, <2>7 DEF finished
<1>7. /\ vm' = [ module |-> vm.module, func |-> vm.func, func_n |-> vm.func_n + 1,
                 modules |-> vm.modules, methods |-> methods ]
      /\ vm'.module = vm.module /\ vm'.func = vm.func /\ vm'.func_n = vm.func_n + 1
      /\ vm'.modules = vm.modules /\ vm'.methods = methods
  <2>1. vm' = [[vm EXCEPT !.func_n = @ + 1] EXCEPT !.methods = methods]
    BY <1>1 DEF methods
  <2> QED  BY <2>1, VMCompiled DEF Typing
<1> QED  BY <1>2, <1>3, <1>6, <1>7 DEF name, methods

\* RubyVM.start declares a function in a module of its own.
LEMMA StartStep ==
    ASSUME Typing, RubyVM_start
    PROVE  /\ nmod' = nmod + 1 /\ EE' = EE \cup {nmod + 1}
           /\ UNCHANGED <<code, lists, passed, last, stale, careful>>
           /\ FunTyping' /\ Len(fun') = Len(fun) + 1
           /\ Functions' = Functions \cup {New} /\ New \notin Functions
           /\ \A g \in Functions : fun'[g] = fun[g] /\ fun[g].mod # nmod + 1
           /\ fun'[New].mod = nmod + 1 /\ fun'[New].name = rb_func /\ fun'[New].renamed = FALSE
           /\ fun'[New].edit = 0 /\ fun'[New].does = nothing /\ fun'[New].finished = TRUE
           /\ fun'[New].alive = TRUE
           /\ vm' = [ module |-> nmod + 1, func |-> New, func_n |-> 0,
                      modules |-> vm.modules \cup {nmod + 1}, methods |-> vm.methods ]
<1> DEFINE d == declaration(nmod + 1, rb_func, FALSE)
<1>1. rb_func \in FunctionNames /\ nmod + 1 \in Nat /\ nmod \in Nat
  BY DEF FunctionNames, Typing
<1>2. /\ d \in Function /\ d.mod = nmod + 1 /\ d.name = rb_func /\ d.renamed = FALSE
      /\ d.edit = 0 /\ d.does = nothing /\ d.finished = TRUE /\ d.alive = TRUE
  BY <1>1, Declared
<1>3. /\ Len(fun) < MaxFunctions /\ fun' = Append(fun, d) /\ nmod' = nmod + 1
      /\ EE' = EE \cup {nmod + 1}
      /\ UNCHANGED <<code, lists, passed, last, stale, careful>>
      /\ vm' = [ module |-> nmod + 1, func |-> New, func_n |-> 0,
                 modules |-> vm.modules \cup {nmod + 1}, methods |-> vm.methods ]
  BY DEF RubyVM_start, llvm_execution_engine_get, rb_func_of, New
<1> HIDE DEF d
<1>4. nmod' \in Nat /\ nmod <= nmod' /\ d.mod \in 1 .. nmod'
  BY <1>1, <1>2, <1>3
<1>5. /\ FunTyping' /\ Len(fun') = Len(fun) + 1
      /\ Functions' = Functions \cup {New} /\ New \notin Functions
      /\ \A g \in Functions : fun'[g] = fun[g]
      /\ fun'[New] = d
  BY <1>2, <1>3, <1>4, FunAdded DEF New
<1>6. \A g \in Functions : fun[g].mod # nmod + 1
  BY <1>1 DEF Typing, FunTyping
<1> QED  BY <1>2, <1>3, <1>5, <1>6

\* A client adds a declaration.
LEMMA ClientAdded ==
    ASSUME Typing, nmod' = nmod, NEW m \in ClientModules, NEW name \in Names,
           NEW renamed \in BOOLEAN, Len(fun) < MaxFunctions,
           fun' = Append(fun, declaration(m, name, renamed))
    PROVE  /\ FunTyping' /\ Len(fun') = Len(fun) + 1
           /\ Functions' = Functions \cup {New} /\ New \notin Functions
           /\ \A g \in Functions : fun'[g] = fun[g]
           /\ fun'[New].mod = m /\ fun'[New].name = name /\ fun'[New].renamed = renamed
           /\ fun'[New].edit = 0 /\ fun'[New].does = nothing /\ fun'[New].finished = TRUE
           /\ fun'[New].alive = TRUE
<1> DEFINE d == declaration(m, name, renamed)
<1>1. m \in Nat /\ name \in FunctionNames /\ m \in 1 .. nmod' /\ nmod \in Nat
  BY DEF ClientModules, FunctionNames, Typing
<1>2. /\ d \in Function /\ d.mod = m /\ d.name = name /\ d.renamed = renamed
      /\ d.edit = 0 /\ d.does = nothing /\ d.finished = TRUE /\ d.alive = TRUE
  BY <1>1, Declared
<1>3. fun' = Append(fun, d)
  OBVIOUS
<1> HIDE DEF d
<1>4. nmod' \in Nat /\ nmod <= nmod' /\ d.mod \in 1 .. nmod'
  BY <1>1, <1>2
<1>5. /\ FunTyping' /\ Len(fun') = Len(fun) + 1
      /\ Functions' = Functions \cup {New} /\ New \notin Functions
      /\ \A g \in Functions : fun'[g] = fun[g]
      /\ fun'[New] = d
  BY <1>2, <1>3, <1>4, FunAdded DEF New
<1> QED  BY <1>2, <1>5

LEMMA TypingStep == Typing /\ [Next]_vars => Typing'
<1> SUFFICES ASSUME Typing, [Next]_vars PROVE Typing'
  OBVIOUS
<1> USE DEF Typing
<1>1. CASE Module_new
  <2>1. nmod' = nmod + 1 /\ UNCHANGED <<fun, EE, code, lists, passed, vm, last, stale, careful>>
    BY <1>1 DEF Module_new
  <2>2. FunTyping'
    BY <2>1 DEF FunTyping, Functions, Wellformed
  <2>3. CodeTyping'
    BY <2>1 DEF CodeTyping, Functions, Wellformed
  <2>4. VMTyping'
    <3>1. 0 .. nmod \subseteq 0 .. nmod' /\ 1 .. nmod \subseteq 1 .. nmod'
      BY <2>1
    <3>2. vm' = vm /\ Len(fun') = Len(fun) /\ Functions' = Functions
      BY <2>1 DEF Functions
    <3> QED  BY <3>1, <3>2 DEF VMTyping
  <2> QED  BY <2>1, <2>2, <2>3, <2>4
<1>2. ASSUME FunTyping', Functions' = Functions \cup {New}, Len(fun') = Len(fun) + 1,
             UNCHANGED <<nmod, EE, code, lists, vm, stale>>, careful' \in BOOLEAN
      PROVE  Typing'
  <2>1. CodeTyping'
    BY <1>2, CodeKept DEF CodeTyping
  <2>2. VMTyping'
    <3>1. 0 .. Len(fun) \subseteq 0 .. Len(fun')
      BY <1>2 DEF FunTyping
    <3> QED  BY <1>2, <3>1 DEF VMTyping
  <2> QED  BY <1>2, <2>1, <2>2
<1>3. ASSUME NEW m \in ClientModules, NEW name \in Names, get_or_insert_function(m, name)
      PROVE  Typing'
  <2>1. CASE fun' = fun
    BY <1>3, <2>1 DEF get_or_insert_function, FunTyping, CodeTyping, VMTyping, Functions, Wellformed
  <2>2. CASE fun' # fun
    <3>1. FunTyping' /\ Functions' = Functions \cup {New} /\ Len(fun') = Len(fun) + 1
      BY <1>3, <2>2, ClientAdded DEF get_or_insert_function
    <3>2. UNCHANGED <<nmod, EE, code, lists, vm, stale>> /\ careful' \in BOOLEAN
      BY <1>3 DEF get_or_insert_function
    <3> QED  BY <3>1, <3>2, <1>2
  <2> QED  BY <2>1, <2>2
<1>4. ASSUME NEW m \in ClientModules, NEW name \in Names, external_function(m, name)
      PROVE  Typing'
  <2>1. (Named(m, name) # {}) \in BOOLEAN
    OBVIOUS
  <2>2. FunTyping' /\ Functions' = Functions \cup {New} /\ Len(fun') = Len(fun) + 1
    BY <1>4, <2>1, ClientAdded DEF external_function
  <2>3. UNCHANGED <<nmod, EE, code, lists, vm, stale>> /\ careful' \in BOOLEAN
    BY <1>4 DEF external_function, mindful
  <2> QED  BY <2>2, <2>3, <1>2
<1>5. ASSUME NEW f \in Functions, NEW finished \in BOOLEAN,
             NEW does \in {nothing} \cup { calls(g) : g \in Functions }, build(f, does, finished)
      PROVE  Typing'
  <2>1. UNCHANGED <<nmod, EE, code, lists, vm>> /\ careful' \in BOOLEAN
    BY <1>5 DEF build, mindful
  <2>2. does \in Body /\ Wellformed(does)
    BY BuiltBody
  <2>3. CASE fun' = fun /\ stale' = stale
    BY <2>1, <2>3 DEF FunTyping, CodeTyping, VMTyping, Functions, Wellformed
  <2>4. CASE fun' = Edited(fun, f, does, finished) /\ stale' \subseteq stale \cup {f}
    <3>1. FunTyping' /\ Len(fun') = Len(fun) /\ Functions' = Functions
      BY <2>1, <2>2, <2>4, FunBuilt
    <3>2. CodeTyping'
      BY <2>1, <2>4, <3>1, CodeKept DEF CodeTyping
    <3>3. VMTyping'
      BY <2>1, <3>1 DEF VMTyping
    <3> QED  BY <2>1, <3>1, <3>2, <3>3
  <2> QED  BY <1>5, <2>3, <2>4 DEF build
<1>6. ASSUME NEW m \in ClientModules, ExecutionEngine_get(m) PROVE Typing'
  <2>1. EE' = EE \cup {m} /\ UNCHANGED <<nmod, fun, code, lists, vm, stale, careful>>
    BY <1>6 DEF ExecutionEngine_get, llvm_execution_engine_get
  <2> QED  BY <2>1 DEF FunTyping, CodeTyping, VMTyping, Functions, Wellformed, ClientModules
<1>7. ASSUME NEW by, NEW f \in Functions, run_function(by, f), careful' \in BOOLEAN PROVE Typing'
  <2>1. UNCHANGED <<nmod, fun, EE, lists, vm>> /\ CodeTyping'
    BY <1>7, RunTyping
  <2> QED  BY <2>1, <1>7 DEF FunTyping, VMTyping, Functions, Wellformed
<1>8. ASSUME NEW f \in Functions, ExecutionEngine_run_function(f) PROVE Typing'
  BY <1>7, <1>8 DEF ExecutionEngine_run_function, mindful
<1>9. ASSUME NEW m \in ClientModules, PassManager_run(m) PROVE Typing'
  <2>1. UNCHANGED <<nmod, EE, code, vm, stale, careful>> /\ lists' = lists + 1
    BY <1>9 DEF PassManager_run
  <2>2. CASE fun' = fun
    BY <2>1, <2>2 DEF FunTyping, CodeTyping, VMTyping, Functions, Wellformed
  <2>3. CASE fun' \in Repeated(lists + 1, m)
    <3>1. FunTyping' /\ Len(fun') = Len(fun) /\ Functions' = Functions
      BY <2>1, <2>3, FunPassed
    <3>2. CodeTyping'
      BY <2>1, <3>1, CodeKept DEF CodeTyping
    <3>3. VMTyping'
      BY <2>1, <3>1 DEF VMTyping
    <3> QED  BY <2>1, <3>1, <3>2, <3>3
  <2> QED  BY <1>9, <2>2, <2>3 DEF PassManager_run
<1>10. CASE RubyVM_start
  <2>1. /\ nmod' = nmod + 1 /\ EE' = EE \cup {nmod + 1} /\ UNCHANGED <<code, lists, stale, careful>>
        /\ FunTyping' /\ Len(fun') = Len(fun) + 1 /\ Functions' = Functions \cup {New}
    BY <1>10, StartStep
  <2>2. vm' = [ module |-> nmod + 1, func |-> New, func_n |-> 0,
                modules |-> vm.modules \cup {nmod + 1}, methods |-> vm.methods ]
    BY <1>10, StartStep
  <2>3. CodeTyping'
    BY <2>1, CodeKept DEF CodeTyping
  <2>4. VMTyping'
    <3>1. vm.modules \subseteq 1 .. nmod /\ vm.methods \subseteq Functions
      BY DEF VMTyping
    <3>2. nmod + 1 \in 0 .. nmod' /\ vm.modules \cup {nmod + 1} \subseteq 1 .. nmod'
      BY <2>1, <3>1
    <3>3. New \in 0 .. Len(fun') /\ 0 \in 0 .. Len(fun') /\ vm.methods \subseteq Functions'
      BY <2>1, <3>1 DEF FunTyping, New
    <3>4. /\ vm'.func = New /\ New \in Functions'
          /\ vm'.module = nmod + 1 /\ vm'.modules = vm.modules \cup {nmod + 1}
      BY <2>1, <2>2
    <3> QED  BY <2>2, <3>2, <3>3, <3>4 DEF VMTyping
  <2> QED  BY <2>1, <2>3, <2>4
<1>11. CASE RubyVM_compile
  <2>1. /\ vm.module # 0 /\ UNCHANGED <<nmod, EE, code, lists, stale, careful>>
        /\ FunTyping' /\ Len(fun') = Len(fun) + 1 /\ Functions' = Functions \cup {Len(fun) + 1}
        /\ vm.func \in Functions /\ vm.module \in vm.modules
    BY <1>11, CompileStep DEF New
  <2>2. PICK methods \in SUBSET (vm.methods \cup {Len(fun) + 1}) :
            vm' = [ module |-> vm.module, func |-> vm.func, func_n |-> vm.func_n + 1,
                    modules |-> vm.modules, methods |-> methods ]
    <3>1. PICK raises \in BOOLEAN :
              vm' = [ module |-> vm.module, func |-> vm.func, func_n |-> vm.func_n + 1,
                      modules |-> vm.modules,
                      methods |-> IF raises THEN vm.methods ELSE vm.methods \cup {Len(fun) + 1} ]
      BY <1>11, CompileStep DEF New
    <3>2. (IF raises THEN vm.methods ELSE vm.methods \cup {Len(fun) + 1})
              \in SUBSET (vm.methods \cup {Len(fun) + 1})
      OBVIOUS
    <3> QED  BY <3>1, <3>2
  <2>3. CodeTyping'
    BY <2>1, CodeKept DEF CodeTyping
  <2>4. VMTyping'
    <3>1. methods \subseteq Functions' /\ vm.modules \subseteq 1 .. nmod'
      BY <2>1 DEF VMTyping
    <3>2. vm.func_n + 1 \in 0 .. Len(fun') /\ vm.func \in 0 .. Len(fun') /\ vm.func \in Functions'
      BY <2>1 DEF FunTyping, VMTyping, Functions
    <3>3. vm.module \in 0 .. nmod' /\ vm.module \in vm.modules
      BY <2>1 DEF VMTyping
    <3> QED  BY <2>2, <3>1, <3>2, <3>3 DEF VMTyping
  <2> QED  BY <2>1, <2>3, <2>4
<1>12. ASSUME NEW f \in vm.methods, RubyVM_send(f) PROVE Typing'
  <2>1. f \in Functions
    BY DEF VMTyping
  <2> QED  BY <1>7, <1>12, <2>1 DEF RubyVM_send
<1>13. CASE UNCHANGED vars
  BY <1>13 DEF vars, FunTyping, CodeTyping, VMTyping, Functions, Wellformed
<1> QED  BY <1>1, <1>3, <1>4, <1>5, <1>6, <1>8, <1>9, <1>10, <1>11, <1>12, <1>13 DEF Next

-----------------------------------------------------------------------------
(* The bounds, and the names.                                              *)

Counted == Cardinality(vm.modules) <= MaxStarts /\ Cardinality(ClientModules) <= MaxModules

Public(g) == ~fun[g].renamed /\ fun[g].alive

NamesUnique ==
    \A g, h \in Functions :
        Public(g) /\ Public(h) /\ fun[g].mod = fun[h].mod /\ fun[g].name = fun[h].name => g = h

\* The names in the module of RubyVM.
VMNames ==
    vm.module # 0 =>
        \A g \in Functions : fun[g].mod = vm.module =>
            fun[g].name = rb_func \/ \E n \in 0 .. vm.func_n - 1 : fun[g].name = vm_func(n)

LEMMA ModulesFinite ==
    ASSUME Typing
    PROVE  /\ IsFiniteSet(vm.modules) /\ IsFiniteSet(ClientModules)
           /\ Cardinality(vm.modules) \in Nat /\ Cardinality(ClientModules) \in Nat
           /\ Cardinality(vm.modules) + Cardinality(ClientModules) = nmod
<1>1. nmod \in Nat /\ vm.modules \in SUBSET (1 .. nmod)
  BY DEF Typing, VMTyping
<1>2. IsFiniteSet(1 .. nmod) /\ Cardinality(1 .. nmod) = nmod
  BY <1>1, FS_Interval
<1>3. IsFiniteSet(vm.modules)
  BY <1>1, <1>2, FS_Subset
<1>4. (1 .. nmod) \cap vm.modules = vm.modules
  BY <1>1
<1>5. IsFiniteSet(ClientModules) /\ Cardinality(ClientModules) = nmod - Cardinality(vm.modules)
  BY <1>2, <1>4, FS_Difference DEF ClientModules
<1>6. Cardinality(vm.modules) \in Nat /\ Cardinality(ClientModules) \in Nat
  BY <1>3, <1>5, FS_CardinalityType
<1> QED  BY <1>1, <1>3, <1>5, <1>6

LEMMA CountedStep == Typing /\ Counted /\ [Next]_vars => Counted'
<1> SUFFICES ASSUME Typing, Counted, [Next]_vars PROVE Counted'
  OBVIOUS
<1>1. CASE Module_new
  <2>1. nmod' = nmod + 1 /\ vm' = vm /\ Cardinality(ClientModules) < MaxModules
    BY <1>1 DEF Module_new
  <2>2. ClientModules' = ClientModules \cup {nmod + 1} /\ nmod + 1 \notin ClientModules
    BY <2>1 DEF ClientModules, Typing, VMTyping
  <2>3. Cardinality(ClientModules') = Cardinality(ClientModules) + 1
    BY <2>2, ModulesFinite, FS_AddElement
  <2>4. MaxModules \in Nat
    BY BoundsAssumption
  <2>5. Cardinality(ClientModules') <= MaxModules
    BY <2>1, <2>3, <2>4, ModulesFinite
  <2> QED  BY <2>1, <2>5 DEF Counted
<1>2. CASE RubyVM_start
  <2>1. /\ nmod' = nmod + 1 /\ vm'.modules = vm.modules \cup {nmod + 1}
        /\ Cardinality(vm.modules) < MaxStarts
    BY <1>2 DEF RubyVM_start
  <2>2. nmod + 1 \notin vm.modules
    BY DEF Typing, VMTyping
  <2>3. Cardinality(vm'.modules) = Cardinality(vm.modules) + 1
    BY <2>1, <2>2, ModulesFinite, FS_AddElement
  <2>4. ClientModules' = ClientModules
    BY <2>1 DEF ClientModules, Typing, VMTyping
  <2>5. MaxStarts \in Nat
    BY BoundsAssumption
  <2>6. Cardinality(vm'.modules) <= MaxStarts
    BY <2>1, <2>3, <2>5, ModulesFinite
  <2> QED  BY <2>4, <2>6 DEF Counted
<1>3. CASE RubyVM_compile
  <2>1. nmod' = nmod /\ vm'.modules = vm.modules
    <3>1. PICK methods : vm' = [[vm EXCEPT !.func_n = @ + 1] EXCEPT !.methods = methods]
      BY <1>3 DEF RubyVM_compile
    <3> QED  BY <1>3, <3>1, VMCompiled DEF RubyVM_compile, Typing
  <2> QED  BY <2>1 DEF Counted, ClientModules
<1>4. CASE UNCHANGED <<nmod, vm>>
  BY <1>4 DEF Counted, ClientModules
<1>5. ASSUME NEW by, NEW f, run_function(by, f) PROVE UNCHANGED <<nmod, vm>>
  BY <1>5 DEF run_function
<1> QED
  BY <1>1, <1>2, <1>3, <1>4, <1>5
  DEF Next, vars, get_or_insert_function, external_function, build, ExecutionEngine_get,
      ExecutionEngine_run_function, PassManager_run, RubyVM_send

\* A step that adds one function, under a name its module lacks.
LEMMA NamesAdded ==
    ASSUME NamesUnique, NEW f, f \notin Functions, Functions' = Functions \cup {f},
           \A g \in Functions : fun'[g] = fun[g],
           fun'[f].renamed \/ \A g \in Functions :
               Public(g) => ~(fun[g].mod = fun'[f].mod /\ fun[g].name = fun'[f].name)
    PROVE  NamesUnique'
<1> SUFFICES ASSUME NEW g \in Functions', NEW h \in Functions',
                    Public(g)', Public(h)', fun'[g].mod = fun'[h].mod, fun'[g].name = fun'[h].name
             PROVE  g = h
  BY DEF NamesUnique
<1>1. CASE g \in Functions /\ h \in Functions
  BY <1>1 DEF NamesUnique, Public
<1>2. CASE g = f /\ h \in Functions
  BY <1>2 DEF Public
<1>3. CASE h = f /\ g \in Functions
  BY <1>3 DEF Public
<1> QED  BY <1>1, <1>2, <1>3

\* A step that leaves the functions their modules and names.
LEMMA NamesKept ==
    ASSUME Functions' = Functions,
           \A g \in Functions :
               /\ fun'[g].mod = fun[g].mod /\ fun'[g].name = fun[g].name
               /\ fun'[g].renamed = fun[g].renamed /\ (fun'[g].alive => fun[g].alive)
    PROVE  /\ NamesUnique => NamesUnique'
           /\ VMNames /\ vm' = vm => VMNames'
<1>1. NamesUnique => NamesUnique'
  BY DEF NamesUnique, Public
<1>2. VMNames /\ vm' = vm => VMNames'
  BY DEF VMNames
<1> QED  BY <1>1, <1>2

LEMMA NamesStep == Typing /\ NamesUnique /\ VMNames /\ [Next]_vars => NamesUnique' /\ VMNames'
<1> SUFFICES ASSUME Typing, NamesUnique, VMNames, [Next]_vars PROVE NamesUnique' /\ VMNames'
  OBVIOUS
<1>1. CASE UNCHANGED <<fun, vm>>
  BY <1>1 DEF NamesUnique, VMNames, Public, Functions
<1>2. ASSUME NEW m \in ClientModules, NEW name \in Names, NEW renamed \in BOOLEAN,
             renamed \/ Named(m, name) = {}, Len(fun) < MaxFunctions,
             fun' = Append(fun, declaration(m, name, renamed)), nmod' = nmod, vm' = vm
      PROVE  NamesUnique' /\ VMNames'
  <2>1. /\ Functions' = Functions \cup {New} /\ New \notin Functions
        /\ \A g \in Functions : fun'[g] = fun[g]
        /\ fun'[New].mod = m /\ fun'[New].name = name /\ fun'[New].renamed = renamed
    BY <1>2, ClientAdded
  <2>2. ASSUME NEW g \in Functions, Public(g), ~renamed PROVE ~(fun[g].mod = m /\ fun[g].name = name)
    BY <1>2, <2>2 DEF Named, Public
  <2>3. NamesUnique'
    BY <2>1, <2>2, NamesAdded
  <2>4. VMNames'
    <3>1. vm.module # 0 => m # vm.module
      BY DEF Typing, VMTyping, ClientModules
    <3> QED  BY <1>2, <2>1, <3>1 DEF VMNames
  <2> QED  BY <2>3, <2>4
<1>3. ASSUME NEW m \in ClientModules, NEW name \in Names, get_or_insert_function(m, name)
      PROVE  NamesUnique' /\ VMNames'
  BY <1>1, <1>2, <1>3 DEF get_or_insert_function
<1>4. ASSUME NEW m \in ClientModules, NEW name \in Names, external_function(m, name)
      PROVE  NamesUnique' /\ VMNames'
  <2>1. (Named(m, name) # {}) \in BOOLEAN
    OBVIOUS
  <2> QED  BY <1>2, <1>4, <2>1 DEF external_function
<1>5. ASSUME NEW f \in Functions, NEW finished \in BOOLEAN,
             NEW does \in {nothing} \cup { calls(g) : g \in Functions }, build(f, does, finished)
      PROVE  NamesUnique' /\ VMNames'
  <2>1. CASE fun' = fun
    BY <1>1, <1>5, <2>1 DEF build
  <2>2. CASE fun' = Edited(fun, f, does, finished)
    <3>1. does \in Body /\ Wellformed(does)
      BY BuiltBody
    <3>2. nmod' = nmod /\ vm' = vm
      BY <1>5 DEF build
    <3>3. /\ Functions' = Functions
          /\ \A g \in Functions : g # f => fun'[g] = fun[g]
          /\ fun'[f].mod = fun[f].mod /\ fun'[f].name = fun[f].name
          /\ fun'[f].renamed = fun[f].renamed /\ fun'[f].alive = fun[f].alive
      BY <2>2, <3>1, <3>2, FunBuilt
    <3>4. \A g \in Functions :
              /\ fun'[g].mod = fun[g].mod /\ fun'[g].name = fun[g].name
              /\ fun'[g].renamed = fun[g].renamed /\ (fun'[g].alive => fun[g].alive)
      BY <3>3
    <3> QED  BY <3>2, <3>3, <3>4, NamesKept
  <2> QED  BY <1>5, <2>1, <2>2 DEF build
<1>6. ASSUME NEW m \in ClientModules, PassManager_run(m) PROVE NamesUnique' /\ VMNames'
  <2>1. CASE fun' = fun
    BY <1>1, <1>6, <2>1 DEF PassManager_run
  <2>2. CASE fun' \in Repeated(lists + 1, m)
    <3>1. nmod' = nmod /\ vm' = vm
      BY <1>6 DEF PassManager_run
    <3>2. Functions' = Functions /\ Outcome(m, fun, fun')
      BY <2>2, <3>1, FunPassed
    <3>3. \A g \in Functions :
              /\ fun'[g].mod = fun[g].mod /\ fun'[g].name = fun[g].name
              /\ fun'[g].renamed = fun[g].renamed /\ (fun'[g].alive => fun[g].alive)
      BY <3>2 DEF Outcome
    <3> QED  BY <3>1, <3>2, <3>3, NamesKept
  <2> QED  BY <1>6, <2>1, <2>2 DEF PassManager_run
<1>7. CASE RubyVM_start
  <2>1. /\ Functions' = Functions \cup {New} /\ New \notin Functions
        /\ \A g \in Functions : fun'[g] = fun[g] /\ fun[g].mod # nmod + 1
        /\ fun'[New].mod = nmod + 1 /\ fun'[New].name = rb_func
    BY <1>7, StartStep
  <2>2. vm'.module = nmod + 1
    BY <1>7 DEF RubyVM_start
  <2>3. NamesUnique'
    BY <2>1, NamesAdded
  <2>4. VMNames'
    BY <2>1, <2>2 DEF VMNames
  <2> QED  BY <2>3, <2>4
<1>8. CASE RubyVM_compile
  <2>1. /\ vm.module # 0 /\ vm'.module = vm.module /\ vm'.func_n = vm.func_n + 1
        /\ Functions' = Functions \cup {New} /\ New \notin Functions
        /\ \A g \in Functions : fun'[g] = fun[g]
        /\ fun'[New].mod = vm.module /\ fun'[New].name = vm_func(vm.func_n)
    <3>1. /\ vm.module # 0 /\ Functions' = Functions \cup {New} /\ New \notin Functions
          /\ \A g \in Functions : fun'[g] = fun[g]
      BY <1>8, CompileStep
    <3>2. vm'.module = vm.module /\ vm'.func_n = vm.func_n + 1
      BY <1>8, CompileStep
    <3>3. fun'[New].mod = vm.module /\ fun'[New].name = vm_func(vm.func_n)
      BY <1>8, CompileStep
    <3> QED  BY <3>1, <3>2, <3>3
  <2>2. vm.func_n \in 0 .. MaxFunctions /\ vm.func_n \in Nat
    BY BoundsAssumption DEF Typing, FunTyping, VMTyping
  <2>3. ASSUME NEW g \in Functions, fun[g].mod = vm.module PROVE fun[g].name # vm_func(vm.func_n)
    <3>1. CASE fun[g].name = rb_func
      BY <2>2, <3>1, vm_funcAssumption
    <3>2. ASSUME NEW n \in 0 .. vm.func_n - 1, fun[g].name = vm_func(n) PROVE fun[g].name # vm_func(vm.func_n)
      <4>1. n \in 0 .. MaxFunctions /\ n # vm.func_n
        <5>1. MaxFunctions \in Nat /\ vm.func_n <= MaxFunctions /\ n \in Nat /\ n < vm.func_n
          BY <2>2, BoundsAssumption
        <5> QED  BY <5>1, <2>2
      <4> QED  BY <2>2, <3>2, <4>1, vm_funcAssumption
    <3> QED  BY <2>1, <2>3, <3>1, <3>2 DEF VMNames
  <2>4. NamesUnique'
    BY <2>1, <2>3, NamesAdded
  <2>5. VMNames'
    <3>1. \A n \in 0 .. vm.func_n - 1 : n \in 0 .. vm'.func_n - 1
      BY <2>1, <2>2
    <3>2. vm.func_n \in 0 .. vm'.func_n - 1
      BY <2>1, <2>2
    <3> QED  BY <2>1, <3>1, <3>2 DEF VMNames
  <2> QED  BY <2>4, <2>5
<1>9. ASSUME NEW by, NEW f, run_function(by, f) PROVE UNCHANGED <<fun, vm>>
  BY <1>9 DEF run_function
<1> QED
  BY <1>1, <1>3, <1>4, <1>5, <1>6, <1>7, <1>8, <1>9
  DEF Next, vars, Module_new, ExecutionEngine_get, ExecutionEngine_run_function, RubyVM_send

-----------------------------------------------------------------------------
(* RubyVM.                                                                 *)

\* A function of RubyVM that any of its methods may call.
External(g) ==
    /\ fun[g].mod \in vm.modules /\ fun[g].name = rb_func /\ ~fun[g].renamed
    /\ fun[g].does = nothing /\ fun[g].alive /\ fun[g].finished

Callable(f) ==
    /\ fun[f].mod \in vm.modules /\ fun[f].alive /\ fun[f].finished /\ ~IsDeclaration(f)
    /\ fun[f].does = nothing \/ (External(fun[f].does.fn) /\ fun[f].does = calls(fun[f].does.fn))

VMReady ==
    /\ vm.modules \subseteq EE
    /\ vm.module # 0 => External(vm.func) /\ fun[vm.func].mod = vm.module
    /\ \A f \in vm.methods : Callable(f)
    /\ \A f \in DOMAIN code : fun[f].mod \in vm.modules => code[f].does = fun[f].does

\* Nothing about g changes.
Untouched(g) ==
    /\ fun'[g].mod = fun[g].mod /\ fun'[g].name = fun[g].name
    /\ fun'[g].renamed = fun[g].renamed /\ fun'[g].edit = fun[g].edit
    /\ fun'[g].does = fun[g].does /\ fun'[g].finished = fun[g].finished
    /\ fun'[g].alive = fun[g].alive

\* Clients do not touch the functions of RubyVM, and RubyVM makes new ones
\* only.
LEMMA VMFunctionsStay ==
    ASSUME Typing, [Next]_vars
    PROVE  /\ Functions \subseteq Functions'
           /\ \A g \in Functions : fun'[g].mod = fun[g].mod
           /\ \A g \in Functions : fun[g].mod \in vm.modules => Untouched(g)
<1>1. CASE fun' = fun
  BY <1>1 DEF Functions, Untouched
<1>2. ASSUME NEW m \in ClientModules, NEW name \in Names, NEW renamed \in BOOLEAN,
             Len(fun) < MaxFunctions,
             fun' = Append(fun, declaration(m, name, renamed)), nmod' = nmod
      PROVE  Functions \subseteq Functions' /\ \A g \in Functions : fun'[g] = fun[g]
  BY <1>2, ClientAdded
<1>3. ASSUME NEW m \in ClientModules, NEW name \in Names, get_or_insert_function(m, name)
      PROVE  Functions \subseteq Functions' /\ \A g \in Functions : Untouched(g)
  BY <1>1, <1>2, <1>3 DEF get_or_insert_function, Untouched
<1>4. ASSUME NEW m \in ClientModules, NEW name \in Names, external_function(m, name)
      PROVE  Functions \subseteq Functions' /\ \A g \in Functions : Untouched(g)
  <2>1. (Named(m, name) # {}) \in BOOLEAN
    OBVIOUS
  <2> QED  BY <1>2, <1>4, <2>1 DEF external_function, Untouched
<1>5. ASSUME NEW f \in Functions, NEW finished \in BOOLEAN,
             NEW does \in {nothing} \cup { calls(g) : g \in Functions }, build(f, does, finished)
      PROVE  /\ Functions \subseteq Functions'
             /\ \A g \in Functions : fun'[g].mod = fun[g].mod
             /\ \A g \in Functions : fun[g].mod \in vm.modules => Untouched(g)
  <2>1. CASE fun' = fun
    BY <1>1, <2>1
  <2>2. CASE fun' = Edited(fun, f, does, finished)
    <3>1. does \in Body /\ Wellformed(does)
      BY BuiltBody
    <3>2. nmod' = nmod /\ fun[f].mod \notin vm.modules
      BY <1>5 DEF build, ClientModules
    <3>3. /\ Functions' = Functions /\ \A g \in Functions : g # f => fun'[g] = fun[g]
          /\ fun'[f].mod = fun[f].mod
      BY <2>2, <3>1, <3>2, FunBuilt
    <3> QED  BY <3>2, <3>3 DEF Untouched
  <2> QED  BY <1>5, <2>1, <2>2 DEF build
<1>6. ASSUME NEW m \in ClientModules, PassManager_run(m)
      PROVE  /\ Functions \subseteq Functions'
             /\ \A g \in Functions : fun'[g].mod = fun[g].mod
             /\ \A g \in Functions : fun[g].mod \in vm.modules => Untouched(g)
  <2>1. CASE fun' = fun
    BY <1>1, <2>1
  <2>2. CASE fun' \in Repeated(lists + 1, m)
    <3>1. nmod' = nmod
      BY <1>6 DEF PassManager_run
    <3>2. Functions' = Functions /\ Outcome(m, fun, fun')
      BY <2>2, <3>1, FunPassed
    <3>3. ASSUME NEW g \in Functions, fun[g].mod \in vm.modules PROVE Untouched(g)
      <4>1. fun[g].mod # m
        BY <3>3 DEF ClientModules
      <4>2. fun[g].alive \in BOOLEAN
        <5>1. fun[g] \in Function
          BY DEF Typing, FunTyping, Functions
        <5> QED  BY <5>1 DEF Function
      <4>3. ~Unused(m, fun, g) /\ ~Inlinable(m, fun, g)
        BY <4>1 DEF Unused, Inlinable
      <4> QED  BY <3>2, <4>2, <4>3 DEF Outcome, Untouched
    <3> QED  BY <3>2, <3>3 DEF Outcome
  <2> QED  BY <1>6, <2>1, <2>2 DEF PassManager_run
<1>7. CASE RubyVM_start
  BY <1>7, StartStep DEF Untouched
<1>8. CASE RubyVM_compile
  <2>1. Functions' = Functions \cup {New} /\ \A g \in Functions : fun'[g] = fun[g]
    BY <1>8, CompileStep
  <2> QED  BY <2>1 DEF Untouched
<1>9. ASSUME NEW by, NEW f, run_function(by, f) PROVE fun' = fun
  BY <1>9 DEF run_function
<1> QED
  BY <1>1, <1>3, <1>4, <1>5, <1>6, <1>7, <1>8, <1>9
  DEF Next, vars, Untouched, Module_new, ExecutionEngine_get, ExecutionEngine_run_function, RubyVM_send

\* New code is of the functions as they are.
LEMMA RunCode ==
    ASSUME Typing, NEW by, NEW f \in Functions, run_function(by, f)
    PROVE  /\ DOMAIN code \subseteq DOMAIN code' /\ DOMAIN code' \subseteq Functions
           /\ \A g \in DOMAIN code : code'[g] = code[g]
           /\ \A g \in DOMAIN code' : g \notin DOMAIN code =>
                  code'[g].edit = fun[g].edit /\ code'[g].does = fun[g].does
<1>2. ASSUME NEW fs \in SUBSET Functions, code' = compiled(fs)
      PROVE  /\ DOMAIN code' = DOMAIN code \cup fs
             /\ \A g \in DOMAIN code' : code'[g] =
                    IF g \in DOMAIN code THEN code[g] ELSE [edit |-> fun[g].edit, does |-> fun[g].does]
  BY <1>2 DEF compiled
<1>3. DOMAIN code \subseteq Functions
  BY DEF Typing, CodeTyping
<1>4. code' = code \/ \E fs \in SUBSET Functions : code' = compiled(fs)
  BY RunTyping
<1>5. CASE code' # code
  <2>1. PICK fs \in SUBSET Functions : code' = compiled(fs)
    BY <1>4, <1>5
  <2>2. /\ DOMAIN code' = DOMAIN code \cup fs
        /\ \A g \in DOMAIN code' : code'[g] =
               IF g \in DOMAIN code THEN code[g] ELSE [edit |-> fun[g].edit, does |-> fun[g].does]
    BY <1>2, <2>1
  <2>3. DOMAIN code \subseteq DOMAIN code' /\ DOMAIN code' \subseteq Functions
    BY <1>3, <2>2
  <2>4. \A g \in DOMAIN code : code'[g] = code[g]
    BY <2>2
  <2>5. ASSUME NEW g \in DOMAIN code', g \notin DOMAIN code
        PROVE  code'[g].edit = fun[g].edit /\ code'[g].does = fun[g].does
    <3>1. code'[g] = [edit |-> fun[g].edit, does |-> fun[g].does]
      BY <2>2, <2>5
    <3> QED  BY <3>1
  <2> QED  BY <2>3, <2>4, <2>5
<1>6. CASE code' = code
  BY <1>3, <1>6
<1> QED  BY <1>5, <1>6

LEMMA VMReadyStep == Typing /\ VMReady /\ [Next]_vars => VMReady'
<1> SUFFICES ASSUME Typing, VMReady, [Next]_vars PROVE VMReady'
  OBVIOUS
<1>1. /\ Functions \subseteq Functions'
      /\ \A g \in Functions : fun'[g].mod = fun[g].mod
      /\ \A g \in Functions : fun[g].mod \in vm.modules => Untouched(g)
  BY VMFunctionsStay
<1>2. /\ vm.methods \subseteq Functions /\ DOMAIN code \subseteq Functions
      /\ vm.module # 0 => vm.func \in Functions /\ vm.module \in vm.modules
      /\ \A f \in Functions : fun[f].does # nothing => fun[f].does.fn \in Functions
  BY DEF Typing, VMTyping, CodeTyping, FunTyping, Wellformed
<1>3. ASSUME vm.modules \subseteq vm'.modules
      PROVE  /\ \A g \in Functions : External(g) => External(g)'
             /\ \A f \in Functions : Callable(f) => Callable(f)'
  <2>1. ASSUME NEW g \in Functions, External(g) PROVE External(g)'
    BY <1>1, <1>3, <2>1 DEF External, Untouched
  <2>2. ASSUME NEW f \in Functions, Callable(f) PROVE Callable(f)'
    <3>1. Untouched(f)
      BY <1>1, <2>2 DEF Callable
    <3>2. fun[f].does # nothing => External(fun[f].does.fn) /\ fun[f].does.fn \in Functions
      BY <1>2, <2>2 DEF Callable
    <3>3. fun[f].does # nothing => External(fun[f].does.fn)'
      BY <2>1, <3>1, <3>2 DEF Untouched, External
    <3> QED  BY <1>3, <2>2, <3>1, <3>3 DEF Callable, Untouched, IsDeclaration
  <2> QED  BY <2>1, <2>2
<1>4. CASE vm' = vm /\ code' = code /\ EE \subseteq EE'
  <2>1. vm'.module # 0 => External(vm.func)' /\ fun'[vm'.func].mod = vm'.module
    BY <1>1, <1>2, <1>3, <1>4 DEF VMReady, Untouched
  <2>2. \A f \in vm'.methods : Callable(f)'
    BY <1>2, <1>3, <1>4 DEF VMReady
  <2>3. \A f \in DOMAIN code' : fun'[f].mod \in vm'.modules => code'[f].does = fun'[f].does
    BY <1>1, <1>2, <1>4 DEF VMReady, Untouched
  <2> QED  BY <1>4, <2>1, <2>2, <2>3 DEF VMReady
<1>5. ASSUME NEW by, NEW f \in Functions, run_function(by, f) PROVE VMReady'
  <2>1. UNCHANGED <<fun, EE, vm>>
    BY <1>5, RunTyping
  <2>2. \A g \in DOMAIN code' : fun[g].mod \in vm.modules => code'[g].does = fun[g].does
    BY <1>5, RunCode DEF VMReady
  <2>3. \A g : (External(g) => External(g)') /\ (Callable(g) => Callable(g)')
    BY <2>1 DEF External, Callable, IsDeclaration
  <2> QED  BY <2>1, <2>2, <2>3 DEF VMReady
<1>6. CASE RubyVM_start
  <2>1. /\ EE' = EE \cup {nmod + 1} /\ code' = code
        /\ \A g \in Functions : fun[g].mod # nmod + 1
        /\ vm'.modules = vm.modules \cup {nmod + 1} /\ vm'.methods = vm.methods
        /\ vm'.func = New /\ vm'.module = nmod + 1
    BY <1>6, StartStep
  <2>2. /\ fun'[New].mod = nmod + 1 /\ fun'[New].name = rb_func /\ fun'[New].renamed = FALSE
        /\ fun'[New].does = nothing /\ fun'[New].finished = TRUE
        /\ fun'[New].alive = TRUE
    BY <1>6, StartStep
  <2>3. External(vm.func)' /\ fun'[vm'.func].mod = vm'.module
    BY <2>1, <2>2 DEF External
  <2>4. \A f \in vm'.methods : Callable(f)'
    BY <1>2, <1>3, <2>1 DEF VMReady
  <2>5. \A f \in DOMAIN code' : fun'[f].mod \in vm'.modules => code'[f].does = fun'[f].does
    BY <1>1, <1>2, <2>1 DEF VMReady, Untouched
  <2> QED  BY <2>1, <2>3, <2>4, <2>5 DEF VMReady
<1>7. CASE RubyVM_compile
  <2>1. /\ EE' = EE /\ code' = code /\ vm.module # 0 /\ New \notin Functions
        /\ vm'.modules = vm.modules /\ vm'.func = vm.func /\ vm'.module = vm.module
    BY <1>7, CompileStep
  <2>2. PICK does \in {nothing, calls(vm.func)}, raises \in BOOLEAN :
            /\ fun'[New].mod = vm.module /\ fun'[New].edit = 1 /\ fun'[New].alive = TRUE
            /\ fun'[New].does = does /\ fun'[New].finished = ~raises
            /\ vm'.methods = IF raises THEN vm.methods ELSE vm.methods \cup {New}
    BY <1>7, CompileStep
  <2>3. External(vm.func)' /\ fun'[vm.func].mod = vm.module
    BY <1>1, <1>2, <1>3, <2>1 DEF VMReady
  <2>0. PICK f : f = New
    OBVIOUS
  <2>4. ~raises => Callable(f)'
    <3>1. nothing.fn = 0 /\ calls(vm.func).fn = vm.func
      BY DEF nothing, calls
    <3>2. does = nothing \/ (does.fn = vm.func /\ does = calls(vm.func))
      BY <3>1
    <3>3. fun'[f].does # nothing => External(fun[f].does.fn)' /\ fun'[f].does = calls(fun'[f].does.fn)
      BY <2>0, <2>1, <2>2, <2>3, <3>2 DEF External
    <3>4. /\ fun'[f].mod \in vm'.modules /\ fun'[f].alive /\ fun'[f].edit # 0
          /\ ~raises => fun'[f].finished
      <4>1. fun'[f].mod \in vm'.modules
        BY <1>2, <2>0, <2>1, <2>2
      <4>2. fun'[f].alive = TRUE /\ fun'[f].edit = 1 /\ fun'[f].finished = ~raises
        BY <2>0, <2>2, Zenon
      <4>3. ~raises => fun'[f].finished
        BY <4>2, Zenon
      <4>4. fun'[f].alive /\ fun'[f].edit # 0
        BY <4>2
      <4> QED  BY <4>1, <4>3, <4>4
    <3> QED  BY <3>3, <3>4 DEF Callable, IsDeclaration
  <2>5. \A g \in vm'.methods : Callable(g)'
    <3>1. \A g \in vm.methods : Callable(g)'
      BY <1>2, <1>3, <2>1 DEF VMReady
    <3> QED  BY <2>0, <2>2, <2>4, <3>1
  <2>6. \A h \in DOMAIN code' : fun'[h].mod \in vm'.modules => code'[h].does = fun'[h].does
    BY <1>1, <1>2, <2>1 DEF VMReady, Untouched
  <2>7. External(vm.func)' /\ fun'[vm'.func].mod = vm'.module
    BY <2>1, <2>3 DEF External
  <2> QED  BY <2>1, <2>5, <2>6, <2>7 DEF VMReady
<1>8. ASSUME NEW f \in vm.methods PROVE f \in Functions
  BY <1>2
<1> QED
  BY <1>4, <1>5, <1>6, <1>7, <1>8
  DEF Next, vars, Module_new, get_or_insert_function, external_function, build, ExecutionEngine_get,
      llvm_execution_engine_get, ExecutionEngine_run_function, PassManager_run, RubyVM_send

LEMMA VMStep == Typing /\ VMReady /\ VMNeverAborts /\ [Next]_vars => VMNeverAborts'
<1> SUFFICES ASSUME Typing, VMReady, VMNeverAborts, [Next]_vars PROVE last' # aborted("vm")
  BY DEF VMNeverAborts
<1>1. aborted("client") # aborted("vm")
  BY DEF aborted, answered
<1>2. \A by, a : \A f \in Functions : answered(by, f, a) # aborted("vm")
  BY DEF aborted, answered, Typing, FunTyping, Functions
<1>3. CASE last' = last \/ last' = aborted("client")
  BY <1>1, <1>3 DEF VMNeverAborts
<1>4. ASSUME NEW f \in Functions, run_function("client", f) PROVE last' # aborted("vm")
  BY <1>1, <1>2, <1>4 DEF run_function
<1>5. ASSUME NEW f \in vm.methods, RubyVM_send(f) PROVE last' # aborted("vm")
  <2> DEFINE table      == IF f \in DOMAIN code THEN code ELSE fun
             uncompiled == Reached(f, table) \ DOMAIN code
  <2>1. f \in Functions /\ Callable(f)
    BY DEF Typing, VMTyping, VMReady
  <2>2. fun[f].mod \in EE
    BY <2>1 DEF Callable, VMReady
  <2>3. ASSUME NEW g \in uncompiled PROVE CanCompile(g)
    <3>1. table[f].does = fun[f].does
      BY <2>1 DEF VMReady, Callable
    <3>2. CASE g = f
      BY <2>1, <3>2 DEF Callable, CanCompile
    <3>3. CASE g # f
      <4>1. fun[f].does = calls(g)
        BY <3>1, <3>3 DEF Reached
      <4>2. fun[f].does.fn = g /\ fun[f].does # nothing
        BY <4>1 DEF calls, nothing
      <4>3. External(g)
        BY <2>1, <4>2 DEF Callable
      <4> QED  BY <4>3, NamesAssumption DEF External, CanCompile
    <3> QED  BY <3>2, <3>3
  <2>4. run_function("vm", f)
    BY <1>5 DEF RubyVM_send
  <2> DEFINE runs == EE # {} /\ \A g \in uncompiled : CanCompile(g)
  <2>5. \/ last' = answered("vm", f, answer(f, compiled(uncompiled)))
        \/ runs => fun[f].mod \notin EE
    BY <2>4 DEF run_function, LLVM_FUNCTION
  <2>6. runs
    BY <2>2, <2>3
  <2> HIDE DEF runs, uncompiled
  <2> QED  BY <1>2, <2>1, <2>2, <2>5, <2>6
<1> QED
  BY <1>3, <1>4, <1>5
  DEF Next, vars, Module_new, get_or_insert_function, external_function, build, ExecutionEngine_get,
      ExecutionEngine_run_function, PassManager_run, RubyVM_start, RubyVM_compile

-----------------------------------------------------------------------------
(* Calls.                                                                  *)

\* Whoever is called calls nobody himself, exists, and is of the same module.
CallsSound ==
    \A f, g \in Functions : fun[f].does = calls(g) =>
        fun[g].does = nothing /\ fun[g].alive /\ fun[g].mod = fun[f].mod

LEMMA CallsStep == Typing /\ VMReady /\ CallsSound /\ [Next]_vars => CallsSound'
<1> SUFFICES ASSUME Typing, VMReady, CallsSound, [Next]_vars PROVE CallsSound'
  OBVIOUS
<1>1. \A f \in Functions : \A g : fun[f].does = calls(g) => g \in Functions
  <2> SUFFICES ASSUME NEW f \in Functions, NEW g, fun[f].does = calls(g) PROVE g \in Functions
    OBVIOUS
  <2>1. fun[f].does.fn = g /\ fun[f].does # nothing
    BY DEF calls, nothing
  <2> QED  BY <2>1 DEF Typing, FunTyping, Wellformed
<1>2. \A g : nothing # calls(g)
  BY DEF nothing, calls
<1>3. CASE fun' = fun
  BY <1>3 DEF CallsSound, Functions
<1>4. ASSUME Functions' = Functions \cup {New}, New \notin Functions,
             \A g \in Functions : fun'[g] = fun[g], fun'[New].does = nothing
      PROVE  CallsSound'
  BY <1>1, <1>2, <1>4 DEF CallsSound
<1>5. ASSUME NEW m \in ClientModules, NEW name \in Names, get_or_insert_function(m, name)
      PROVE  CallsSound'
  <2>1. CASE fun' # fun
    <3>1. /\ Functions' = Functions \cup {New} /\ New \notin Functions
          /\ \A g \in Functions : fun'[g] = fun[g]
          /\ fun'[New].does = nothing
      BY <1>5, <2>1, ClientAdded DEF get_or_insert_function
    <3> QED  BY <1>4, <3>1
  <2> QED  BY <1>3, <2>1
<1>6. ASSUME NEW m \in ClientModules, NEW name \in Names, external_function(m, name)
      PROVE  CallsSound'
  <2>1. (Named(m, name) # {}) \in BOOLEAN
    OBVIOUS
  <2>2. /\ Functions' = Functions \cup {New} /\ New \notin Functions
        /\ \A g \in Functions : fun'[g] = fun[g]
        /\ fun'[New].does = nothing
    BY <1>6, <2>1, ClientAdded DEF external_function
  <2> QED  BY <1>4, <2>2
<1>7. ASSUME NEW f \in Functions, NEW finished \in BOOLEAN,
             NEW does \in {nothing} \cup { calls(g) : g \in Functions }, build(f, does, finished)
      PROVE  CallsSound'
  <2>1. CASE fun' = Edited(fun, f, does, finished)
    <3>1. does \in Body /\ Wellformed(does) /\ nmod' = nmod
      BY <1>7, BuiltBody DEF build
    <3>2. /\ Functions' = Functions /\ \A g \in Functions : g # f => fun'[g] = fun[g]
          /\ fun'[f].mod = fun[f].mod /\ fun'[f].does = does /\ fun'[f].alive = fun[f].alive
      BY <2>1, <3>1, FunBuilt
    <3>3. ASSUME NEW h \in Functions, does = calls(h)
          PROVE  /\ h # f /\ fun[h].mod = fun[f].mod /\ fun[h].does = nothing
                 /\ \A k \in Functions : fun[k].does # calls(f)
      <4>1. does.op = "call" /\ does.fn = h
        BY <3>3 DEF calls
      <4> QED  BY <1>7, <4>1 DEF build, Callers
    <3>4. ASSUME NEW h \in Functions, does = calls(h) PROVE fun[h].alive
      <4>1. does.fn = h
        BY <3>4 DEF calls
      <4>2. CASE \A g \in {f, does.fn} \cap Functions : fun[g].alive
        BY <4>1, <4>2
      <4>3. CASE ~\A g \in {f, does.fn} \cap Functions : fun[g].alive
        <5>1. fun' = fun
          BY <1>7, <4>3 DEF build
        <5>2. fun'[f].edit = fun[f].edit + 1
          BY <2>1, <3>1, FunBuilt
        <5>3. fun[f].edit \in Nat
          <6>1. fun[f] \in Function
            BY DEF Typing, FunTyping, Functions
          <6> QED  BY <6>1 DEF Function
        <5> QED  BY <5>1, <5>2, <5>3
      <4> QED  BY <4>2, <4>3
    <3>5. ASSUME NEW k \in Functions, NEW g \in Functions, fun'[k].does = calls(g)
          PROVE  fun'[g].does = nothing /\ fun'[g].alive /\ fun'[g].mod = fun'[k].mod
      <4>1. CASE k = f
        BY <3>2, <3>3, <3>4, <3>5, <4>1
      <4>2. CASE k # f
        <5>1. /\ fun[k].does = calls(g) /\ fun'[k] = fun[k] /\ fun[g].does = nothing
              /\ fun[g].alive /\ fun[g].mod = fun[k].mod
          BY <3>2, <3>5, <4>2 DEF CallsSound
        <5>2. CASE g # f
          BY <3>2, <5>1, <5>2
        <5>3. CASE g = f
          <6>1. does = nothing
            BY <3>3, <5>1, <5>3
          <6> QED  BY <3>2, <5>1, <5>3, <6>1
        <5> QED  BY <5>2, <5>3
      <4> QED  BY <4>1, <4>2
    <3> QED  BY <3>2, <3>5 DEF CallsSound
  <2> QED  BY <1>3, <1>7, <2>1 DEF build
<1>8. ASSUME NEW m \in ClientModules, PassManager_run(m) PROVE CallsSound'
  <2>1. CASE fun' \in Repeated(lists + 1, m)
    <3>1. nmod' = nmod
      BY <1>8 DEF PassManager_run
    <3>2. Functions' = Functions /\ Outcome(m, fun, fun')
      BY <2>1, <3>1, FunPassed
    <3>3. ASSUME NEW f \in Functions, NEW g \in Functions, fun'[f].does = calls(g)
          PROVE  fun'[g].does = nothing /\ fun'[g].alive /\ fun'[g].mod = fun'[f].mod
      <4>1. \A a, b : copy(a, b) # calls(g)
        BY DEF copy, calls
      <4>2. fun[f].does = calls(g)
        BY <3>2, <3>3, <4>1 DEF Outcome
      <4>3. fun[g].does = nothing /\ fun[g].alive /\ fun[g].mod = fun[f].mod
        BY <4>2 DEF CallsSound
      <4>4. ~Unused(m, fun, g) /\ ~Inlinable(m, fun, g)
        BY <1>2, <4>2, <4>3 DEF Unused, Inlinable
      <4> QED  BY <3>2, <4>3, <4>4 DEF Outcome
    <3> QED  BY <3>2, <3>3 DEF CallsSound
  <2> QED  BY <1>3, <1>8, <2>1 DEF PassManager_run
<1>9. CASE RubyVM_start
  BY <1>4, <1>9, StartStep
<1>10. CASE RubyVM_compile
  <2>1. /\ Functions' = Functions \cup {New} /\ New \notin Functions
        /\ \A g \in Functions : fun'[g] = fun[g]
        /\ vm.module # 0 /\ vm.func \in Functions
    BY <1>10, CompileStep
  <2>2. fun'[New].mod = vm.module /\ fun'[New].does \in {nothing, calls(vm.func)}
    BY <1>10, CompileStep
  <2>3. External(vm.func) /\ fun[vm.func].mod = vm.module
    BY <2>1 DEF VMReady
  <2>4. ASSUME NEW g, fun'[New].does = calls(g) PROVE g = vm.func
    <3>1. calls(vm.func).fn = vm.func /\ calls(g).fn = g
      BY DEF calls
    <3> QED  BY <1>2, <2>2, <2>4, <3>1
  <2> QED  BY <1>1, <2>1, <2>2, <2>3, <2>4 DEF CallsSound, External
<1>11. ASSUME NEW by, NEW f, run_function(by, f) PROVE fun' = fun
  BY <1>11 DEF run_function
<1> QED
  BY <1>3, <1>5, <1>6, <1>7, <1>8, <1>9, <1>10, <1>11
  DEF Next, vars, Module_new, ExecutionEngine_get, ExecutionEngine_run_function, RubyVM_send

-----------------------------------------------------------------------------
(* Code.                                                                   *)

\* What code calls has code.
CodeClosed == \A f \in DOMAIN code, g \in Functions : code[f].does = calls(g) => g \in DOMAIN code

\* The last run went through code that is still there.
LastCompiled == last.fn # 0 => last.fn \in DOMAIN code /\ last.answer = answer(last.fn, code)

\* A copy is as new as what it was made of.
CopiesCurrent ==
    \A f \in Functions :
        fun[f].does.op = "copy" /\ fun[f].does.fn \notin stale =>
            fun[f].does.edit = fun[fun[f].does.fn].edit

\* Code is as new as its function, but for calls that were inlined since.
CodeCurrent ==
    \A f \in DOMAIN code : f \notin stale =>
        /\ code[f].edit = fun[f].edit
        /\ \/ code[f].does = fun[f].does
           \/ /\ code[f].does.op = "call" /\ fun[f].does.op = "copy"
              /\ code[f].does.fn = fun[f].does.fn

CodeSound == CodeClosed /\ LastCompiled /\ CopiesCurrent /\ CodeCurrent

LEMMA SameAnswer ==
    ASSUME NEW f, NEW t, NEW u, t[f].edit = u[f].edit, t[f].does = u[f].does,
           t[f].does.op \in {"nothing", "call", "copy"},
           t[f].does.op = "call" => t[t[f].does.fn].edit = u[t[f].does.fn].edit
    PROVE  answer(f, t) = answer(f, u)
<1>1. CASE t[f].does.op = "call"
  BY <1>1 DEF answer
<1>2. CASE t[f].does.op = "copy"
  BY <1>2 DEF answer
<1>3. CASE t[f].does.op = "nothing"
  BY <1>3 DEF answer
<1> QED  BY <1>1, <1>2, <1>3

LEMMA InitCodeSound == Init => CodeSound
  BY DEF Init, CodeSound, CodeClosed, LastCompiled, CopiesCurrent, CodeCurrent, Nobody, answered, Functions

\* A run.
LEMMA CodeSoundRun ==
    ASSUME Typing, CallsSound, CodeSound, NEW by, NEW f \in Functions, run_function(by, f)
    PROVE  CodeSound'
<1> DEFINE table      == IF f \in DOMAIN code THEN code ELSE fun
           uncompiled == Reached(f, table) \ DOMAIN code
<1>1. UNCHANGED <<nmod, fun, EE, lists, passed, vm, stale>>
  BY RunTyping
<1>2. /\ DOMAIN code \subseteq DOMAIN code' /\ DOMAIN code' \subseteq Functions
      /\ \A g \in DOMAIN code : code'[g] = code[g]
      /\ \A g \in DOMAIN code' : g \notin DOMAIN code =>
             code'[g].edit = fun[g].edit /\ code'[g].does = fun[g].does
  BY RunCode
<1>3. \/ code' = code /\ last' = aborted(by)
      \/ code' = compiled(uncompiled) /\ last' = answered(by, f, answer(f, compiled(uncompiled)))
  BY DEF run_function, LLVM_FUNCTION
<1>4. code' = compiled(uncompiled) => DOMAIN code' = DOMAIN code \cup uncompiled
  BY DEF compiled
<1>5. Functions' = Functions
  BY <1>1 DEF Functions
<1>6. CodeClosed'
  <2> SUFFICES ASSUME NEW k \in DOMAIN code', NEW g \in Functions, code'[k].does = calls(g)
               PROVE  g \in DOMAIN code'
    BY <1>5 DEF CodeClosed
  <2>1. CASE k \in DOMAIN code
    BY <1>2, <2>1 DEF CodeSound, CodeClosed
  <2>2. CASE k \notin DOMAIN code
    <3>1. code' = compiled(uncompiled) /\ k \in uncompiled /\ fun[k].does = calls(g)
      BY <1>2, <1>3, <1>4, <2>2
    <3>2. f \notin DOMAIN code
      <4>1. ASSUME f \in DOMAIN code, k # f PROVE FALSE
        <5>1. code[f].does = calls(k) /\ k \in Functions
          BY <3>1, <4>1 DEF Reached
        <5> QED  BY <2>2, <4>1, <5>1 DEF CodeSound, CodeClosed
      <4> QED  BY <2>2, <4>1
    <3>3. CASE k = f
      BY <1>4, <3>1, <3>2, <3>3 DEF Reached
    <3>4. CASE k # f
      <4>1. fun[f].does = calls(k) /\ k \in Functions
        BY <3>1, <3>2, <3>4 DEF Reached
      <4>2. fun[k].does = nothing
        BY <4>1 DEF CallsSound
      <4> QED  BY <3>1, <4>2 DEF nothing, calls
    <3> QED  BY <3>3, <3>4
  <2> QED  BY <2>1, <2>2
<1>7. LastCompiled'
  <2>1. CASE last' = aborted(by)
    BY <2>1 DEF LastCompiled, aborted, answered
  <2>2. CASE code' = compiled(uncompiled) /\ last' = answered(by, f, answer(f, compiled(uncompiled)))
    <3>1. f \in DOMAIN code'
      BY <1>4, <2>2 DEF Reached
    <3>2. last'.fn = f /\ last'.answer = answer(f, code')
      BY <2>2 DEF answered
    <3>3. answer(last.fn, code)' = answer(f, code')
      BY <3>2 DEF answer
    <3> QED  BY <3>1, <3>2, <3>3 DEF LastCompiled
  <2> QED  BY <1>3, <2>1, <2>2
<1>8. CopiesCurrent'
  BY <1>1, <1>5 DEF CodeSound, CopiesCurrent
<1>9. CodeCurrent'
  BY <1>1, <1>2 DEF CodeSound, CodeCurrent
<1> QED  BY <1>6, <1>7, <1>8, <1>9 DEF CodeSound

\* A step that makes no code.
LEMMA CodeSoundKept ==
    ASSUME Typing, CodeSound, code' = code, Functions \subseteq Functions',
           last' = last \/ last'.fn = 0,
           CopiesCurrent', CodeCurrent'
    PROVE  CodeSound'
<1>1. CodeClosed'
  <2>1. \A f \in DOMAIN code : \A g : code[f].does = calls(g) => g \in Functions
    <3> SUFFICES ASSUME NEW f \in DOMAIN code, NEW g, code[f].does = calls(g) PROVE g \in Functions
      OBVIOUS
    <3>1. code[f].does.fn = g /\ code[f].does # nothing
      BY DEF calls, nothing
    <3> QED  BY <3>1 DEF Typing, CodeTyping, Wellformed
  <2> QED  BY <2>1 DEF CodeSound, CodeClosed
<1>2. LastCompiled'
  <2>1. CASE last' = last
    <3>1. answer(last.fn, code)' = answer(last.fn, code)
      BY <2>1 DEF answer
    <3> QED  BY <2>1, <3>1 DEF CodeSound, LastCompiled
  <2>2. CASE last'.fn = 0
    BY <2>2 DEF LastCompiled
  <2> QED  BY <2>1, <2>2
<1> QED  BY <1>1, <1>2 DEF CodeSound

\* A step that adds a function.
LEMMA CodeSoundAdded ==
    ASSUME Typing, CodeSound, Functions' = Functions \cup {New}, New \notin Functions,
           \A g \in Functions : fun'[g] = fun[g], fun'[New].does.op # "copy",
           UNCHANGED <<code, stale, last>>
    PROVE  CodeSound'
<1>1. \A f \in Functions : fun[f].does.op = "copy" => fun[f].does.fn \in Functions
  BY DEF Typing, FunTyping, Wellformed, nothing
<1>2. CopiesCurrent'
  BY <1>1 DEF CodeSound, CopiesCurrent
<1>3. CodeCurrent'
  BY DEF CodeSound, CodeCurrent, Typing, CodeTyping
<1> QED  BY <1>2, <1>3, CodeSoundKept

LEMMA CodeSoundStep ==
    Typing /\ VMReady /\ CallsSound /\ CodeSound /\ [Next]_vars => CodeSound'
<1> SUFFICES ASSUME Typing, VMReady, CallsSound, CodeSound, [Next]_vars PROVE CodeSound'
  OBVIOUS
<1>1. CASE UNCHANGED <<fun, code, stale>> /\ (last' = last \/ last'.fn = 0)
  <2>1. Functions' = Functions
    BY <1>1 DEF Functions
  <2>2. CopiesCurrent' /\ CodeCurrent'
    BY <1>1, <2>1 DEF CodeSound, CopiesCurrent, CodeCurrent
  <2> QED  BY <1>1, <2>1, <2>2, CodeSoundKept
<1>2. nothing.op # "copy" /\ \A g : calls(g).op # "copy"
  BY DEF nothing, calls
<1>3. ASSUME NEW m \in ClientModules, NEW name \in Names, get_or_insert_function(m, name)
      PROVE  CodeSound'
  <2>1. UNCHANGED <<code, stale, last>>
    BY <1>3 DEF get_or_insert_function
  <2>2. CASE fun' # fun
    <3>1. /\ Functions' = Functions \cup {New} /\ New \notin Functions
          /\ \A g \in Functions : fun'[g] = fun[g]
          /\ fun'[New].does = nothing
      BY <1>3, <2>2, ClientAdded DEF get_or_insert_function
    <3> QED  BY <1>2, <2>1, <3>1, CodeSoundAdded
  <2> QED  BY <1>1, <2>1, <2>2
<1>4. ASSUME NEW m \in ClientModules, NEW name \in Names, external_function(m, name)
      PROVE  CodeSound'
  <2>1. UNCHANGED <<code, stale, last>>
    BY <1>4 DEF external_function
  <2>2. (Named(m, name) # {}) \in BOOLEAN
    OBVIOUS
  <2>3. /\ Functions' = Functions \cup {New} /\ New \notin Functions
        /\ \A g \in Functions : fun'[g] = fun[g]
        /\ fun'[New].does = nothing
    BY <1>4, <2>2, ClientAdded DEF external_function
  <2> QED  BY <1>2, <2>1, <2>3, CodeSoundAdded
<1>5. ASSUME NEW f \in Functions, NEW finished \in BOOLEAN,
             NEW does \in {nothing} \cup { calls(g) : g \in Functions }, build(f, does, finished)
      PROVE  CodeSound'
  <2>1. CASE fun' = fun /\ stale' = stale /\ last' = aborted("client")
    BY <1>1, <1>5, <2>1 DEF build, aborted, answered
  <2>2. CASE /\ fun' = Edited(fun, f, does, finished) /\ last' = last
             /\ stale' = IF f \in DOMAIN code \/ Inlined(f) THEN stale \cup {f} ELSE stale
    <3>1. does \in Body /\ Wellformed(does) /\ does.op # "copy"
      BY <1>2, BuiltBody
    <3>2. nmod' = nmod /\ code' = code
      BY <1>5 DEF build
    <3>3. /\ Functions' = Functions /\ \A g \in Functions : g # f => fun'[g] = fun[g]
          /\ fun'[f].does = does
      BY <2>2, <3>1, <3>2, FunBuilt
    <3>4. CopiesCurrent'
      <4> SUFFICES ASSUME NEW k \in Functions, fun'[k].does.op = "copy", fun'[k].does.fn \notin stale'
                   PROVE  fun'[k].does.edit = fun'[fun'[k].does.fn].edit
        BY <3>3 DEF CopiesCurrent
      <4>1. k # f /\ fun'[k] = fun[k] /\ fun[k].does.op = "copy"
        BY <3>1, <3>3
      <4>2. PICK h : h = fun[k].does.fn
        OBVIOUS
      <4>3. h \in Functions
        BY <4>1, <4>2 DEF Typing, FunTyping, Wellformed, nothing
      <4>4. h \notin stale /\ h # f
        BY <2>2, <4>1, <4>2 DEF Inlined
      <4>5. fun[k].does.edit = fun[h].edit /\ fun'[h] = fun[h]
        BY <3>3, <4>1, <4>2, <4>3, <4>4 DEF CodeSound, CopiesCurrent
      <4> QED  BY <4>1, <4>2, <4>5
    <3>5. CodeCurrent'
      <4> SUFFICES ASSUME NEW k \in DOMAIN code, k \notin stale'
                   PROVE  k \notin stale /\ k \in Functions /\ k # f
        BY <3>2, <3>3 DEF CodeSound, CodeCurrent
      <4> QED  BY <2>2 DEF Typing, CodeTyping
    <3> QED  BY <2>2, <3>2, <3>3, <3>4, <3>5, CodeSoundKept
  <2> QED  BY <1>5, <2>1, <2>2 DEF build
<1>6. ASSUME NEW m \in ClientModules, PassManager_run(m) PROVE CodeSound'
  <2>1. UNCHANGED <<code, stale, nmod>>
    BY <1>6 DEF PassManager_run
  <2>2. CASE fun' = fun /\ last' = aborted("client")
    BY <1>1, <2>1, <2>2 DEF aborted, answered
  <2>3. CASE fun' \in Repeated(lists + 1, m) /\ last' = last
    <3>1. Functions' = Functions /\ Outcome(m, fun, fun')
      BY <2>1, <2>3, FunPassed
    <3>2. ASSUME NEW k \in Functions, fun'[k].does # fun[k].does
          PROVE  /\ fun'[k].does.op = "copy" /\ fun'[k].does.fn = fun[k].does.fn
                 /\ fun'[k].does.edit = fun[fun[k].does.fn].edit /\ fun[k].does.op = "call"
                 /\ fun[k].does.fn \in Functions
      <4>1. Inlinable(m, fun, k) /\ fun'[k].does = copy(fun[k].does.fn, fun[fun[k].does.fn].edit)
        BY <3>1, <3>2 DEF Outcome
      <4>2. PICK g \in Functions : fun[k].does = calls(g)
        BY <4>1 DEF Inlinable
      <4> QED  BY <4>1, <4>2 DEF copy, calls
    <3>3. CopiesCurrent'
      <4> SUFFICES ASSUME NEW k \in Functions, fun'[k].does.op = "copy", fun'[k].does.fn \notin stale
                   PROVE  fun'[k].does.edit = fun'[fun'[k].does.fn].edit
        BY <2>1, <3>1 DEF CopiesCurrent
      <4>1. \A g \in Functions : fun'[g].edit = fun[g].edit
        BY <3>1 DEF Outcome
      <4>2. CASE fun'[k].does = fun[k].does
        <5>1. PICK h : h = fun[k].does.fn
          OBVIOUS
        <5>2. h \in Functions
          BY <4>2, <5>1 DEF Typing, FunTyping, Wellformed, nothing
        <5>3. fun[k].does.edit = fun[h].edit
          BY <4>2, <5>1 DEF CodeSound, CopiesCurrent
        <5> QED  BY <4>1, <4>2, <5>1, <5>2, <5>3
      <4>3. CASE fun'[k].does # fun[k].does
        BY <3>2, <4>1, <4>3
      <4> QED  BY <4>2, <4>3
    <3>4. CodeCurrent'
      <4> SUFFICES ASSUME NEW k \in DOMAIN code, k \notin stale
                   PROVE  /\ code[k].edit = fun'[k].edit
                          /\ \/ code[k].does = fun'[k].does
                             \/ /\ code[k].does.op = "call" /\ fun'[k].does.op = "copy"
                                /\ code[k].does.fn = fun'[k].does.fn
        BY <2>1 DEF CodeCurrent
      <4>1. k \in Functions
        BY DEF Typing, CodeTyping
      <4>2. /\ code[k].edit = fun[k].edit
            /\ \/ code[k].does = fun[k].does
               \/ /\ code[k].does.op = "call" /\ fun[k].does.op = "copy"
                  /\ code[k].does.fn = fun[k].does.fn
        BY DEF CodeSound, CodeCurrent
      <4>3. fun'[k].edit = fun[k].edit
        BY <3>1, <4>1 DEF Outcome
      <4>4. CASE fun'[k].does = fun[k].does
        BY <4>2, <4>3, <4>4
      <4>5. CASE fun'[k].does # fun[k].does
        BY <3>2, <4>1, <4>2, <4>3, <4>5
      <4> QED  BY <4>4, <4>5
    <3> QED  BY <2>1, <2>3, <3>1, <3>3, <3>4, CodeSoundKept
  <2> QED  BY <1>6, <2>2, <2>3 DEF PassManager_run
<1>7. CASE RubyVM_start
  BY <1>2, <1>7, StartStep, CodeSoundAdded
<1>8. CASE RubyVM_compile
  <2>1. /\ Functions' = Functions \cup {New} /\ New \notin Functions
        /\ \A g \in Functions : fun'[g] = fun[g]
        /\ UNCHANGED <<code, stale, last>>
    BY <1>8, CompileStep
  <2>2. fun'[New].does \in {nothing, calls(vm.func)}
    BY <1>8, CompileStep
  <2> QED  BY <1>2, <2>1, <2>2, CodeSoundAdded
<1>9. ASSUME NEW f \in vm.methods PROVE f \in Functions
  BY DEF Typing, VMTyping
<1> QED
  BY <1>1, <1>3, <1>4, <1>5, <1>6, <1>7, <1>8, <1>9, CodeSoundRun
  DEF Next, vars, Module_new, ExecutionEngine_get, ExecutionEngine_run_function, RubyVM_send

LEMMA CodeAnswers == Typing /\ CodeSound => AnswersCurrent
<1> SUFFICES ASSUME Typing, CodeSound, last.fn # 0, last.fn \notin stale,
                    \A g \in Functions : last.answer[2] # <<>> /\ last.answer[2][1] = g => g \notin stale
             PROVE  last.answer = answer(last.fn, fun)
  BY DEF AnswersCurrent
<1>1. PICK f : f = last.fn
  OBVIOUS
<1>2. f \in DOMAIN code /\ f \in Functions /\ last.answer = answer(f, code)
  BY <1>1 DEF CodeSound, LastCompiled, Typing, CodeTyping
<1>3. /\ code[f].edit = fun[f].edit
      /\ \/ code[f].does = fun[f].does
         \/ /\ code[f].does.op = "call" /\ fun[f].does.op = "copy"
            /\ code[f].does.fn = fun[f].does.fn
  BY <1>1, <1>2 DEF CodeSound, CodeCurrent
<1>4. ASSUME code[f].does.op = "call"
      PROVE  /\ code[f].does.fn \in Functions /\ code[f].does.fn \notin stale
             /\ code[code[f].does.fn].edit = fun[code[f].does.fn].edit
             /\ answer(f, code) = << <<f, code[f].edit>>, <<code[f].does.fn, code[code[f].does.fn].edit>> >>
  <2>1. PICK g : g = code[f].does.fn
    OBVIOUS
  <2>2. g \in Functions /\ code[f].does = calls(g)
    BY <1>2, <1>4, <2>1 DEF Typing, CodeTyping, Wellformed, nothing, calls
  <2>3. g \in DOMAIN code
    BY <1>2, <2>2 DEF CodeSound, CodeClosed
  <2>4. answer(f, code) = << <<f, code[f].edit>>, <<g, code[g].edit>> >>
    BY <1>4, <2>1 DEF answer
  <2>5. g \notin stale
    BY <1>2, <2>2, <2>4
  <2>6. code[g].edit = fun[g].edit
    BY <2>3, <2>5 DEF CodeSound, CodeCurrent
  <2> QED  BY <2>1, <2>2, <2>4, <2>5, <2>6
<1>5. code[f].does.op \in {"nothing", "call", "copy"}
  BY <1>2 DEF Typing, CodeTyping, Body
<1>6. CASE code[f].does = fun[f].does
  BY <1>1, <1>2, <1>3, <1>4, <1>5, <1>6, SameAnswer
<1>7. CASE /\ code[f].does.op = "call" /\ fun[f].does.op = "copy"
           /\ code[f].does.fn = fun[f].does.fn
  <2>1. PICK g : g = fun[f].does.fn
    OBVIOUS
  <2>2. /\ g \notin stale /\ code[g].edit = fun[g].edit
        /\ answer(f, code) = << <<f, code[f].edit>>, <<g, code[g].edit>> >>
    BY <1>4, <1>7, <2>1
  <2>3. fun[f].does.edit = fun[g].edit
    BY <1>2, <1>7, <2>1, <2>2 DEF CodeSound, CopiesCurrent
  <2>4. answer(f, fun) = << <<f, fun[f].edit>>, <<g, fun[f].does.edit>> >>
    BY <1>7, <2>1 DEF answer
  <2> QED  BY <1>1, <1>2, <1>3, <2>2, <2>3, <2>4
<1> QED  BY <1>3, <1>6, <1>7

-----------------------------------------------------------------------------
(* The discipline.                                                         *)

OnlyDeclarationsDeleted ==
    \A f \in Functions : ~fun[f].alive => IsDeclaration(f) /\ fun[f].mod \in passed

CarefulClient ==
    careful => \A f \in Functions : fun[f].mod \in ClientModules => fun[f].finished /\ ~fun[f].renamed

LEMMA DeletedStep ==
    Typing /\ OnlyDeclarationsDeleted /\ [Next]_vars => OnlyDeclarationsDeleted'
<1> SUFFICES ASSUME Typing, OnlyDeclarationsDeleted, [Next]_vars PROVE OnlyDeclarationsDeleted'
  OBVIOUS
<1>1. CASE UNCHANGED <<fun, passed>>
  BY <1>1 DEF OnlyDeclarationsDeleted, IsDeclaration, Functions
<1>2. ASSUME Functions' = Functions \cup {New}, \A g \in Functions : fun'[g] = fun[g],
             fun'[New].alive = TRUE, passed' = passed
      PROVE  OnlyDeclarationsDeleted'
  BY <1>2 DEF OnlyDeclarationsDeleted, IsDeclaration
<1>3. ASSUME NEW m \in ClientModules, NEW name \in Names, get_or_insert_function(m, name)
      PROVE  OnlyDeclarationsDeleted'
  <2>1. passed' = passed
    BY <1>3 DEF get_or_insert_function
  <2>2. CASE fun' # fun
    <3>1. /\ Functions' = Functions \cup {New} /\ \A g \in Functions : fun'[g] = fun[g]
          /\ fun'[New].alive = TRUE
      BY <1>3, <2>2, ClientAdded DEF get_or_insert_function
    <3> QED  BY <1>2, <2>1, <3>1
  <2> QED  BY <1>1, <2>1, <2>2
<1>4. ASSUME NEW m \in ClientModules, NEW name \in Names, external_function(m, name)
      PROVE  OnlyDeclarationsDeleted'
  <2>1. passed' = passed
    BY <1>4 DEF external_function
  <2>2. (Named(m, name) # {}) \in BOOLEAN
    OBVIOUS
  <2>3. /\ Functions' = Functions \cup {New} /\ \A g \in Functions : fun'[g] = fun[g]
        /\ fun'[New].alive = TRUE
    BY <1>4, <2>2, ClientAdded DEF external_function
  <2> QED  BY <1>2, <2>1, <2>3
<1>5. ASSUME NEW f \in Functions, NEW finished \in BOOLEAN,
             NEW does \in {nothing} \cup { calls(g) : g \in Functions }, build(f, does, finished)
      PROVE  OnlyDeclarationsDeleted'
  <2>1. passed' = passed /\ nmod' = nmod
    BY <1>5 DEF build
  <2>2. CASE fun[f].alive /\ fun' = Edited(fun, f, does, finished)
    <3>1. does \in Body /\ Wellformed(does)
      BY BuiltBody
    <3>2. /\ Functions' = Functions /\ \A g \in Functions : g # f => fun'[g] = fun[g]
          /\ fun'[f].alive = fun[f].alive
      BY <2>1, <2>2, <3>1, FunBuilt
    <3> QED  BY <2>1, <2>2, <3>2 DEF OnlyDeclarationsDeleted, IsDeclaration
  <2> QED  BY <1>1, <1>5, <2>1, <2>2 DEF build
<1>6. ASSUME NEW m \in ClientModules, PassManager_run(m) PROVE OnlyDeclarationsDeleted'
  <2>1. passed' = passed \cup {m} /\ nmod' = nmod
    BY <1>6 DEF PassManager_run
  <2>2. CASE fun' = fun
    BY <2>1, <2>2 DEF OnlyDeclarationsDeleted, IsDeclaration, Functions
  <2>3. CASE fun' \in Repeated(lists + 1, m)
    <3>1. Functions' = Functions /\ Outcome(m, fun, fun')
      BY <2>1, <2>3, FunPassed
    <3>2. ASSUME NEW g \in Functions, ~fun'[g].alive
          PROVE  fun'[g].edit = 0 /\ fun'[g].mod \in passed'
      <4>1. fun'[g].edit = fun[g].edit /\ fun'[g].mod = fun[g].mod
        BY <3>1 DEF Outcome
      <4>2. ~fun[g].alive \/ Unused(m, fun, g)
        BY <3>1, <3>2 DEF Outcome
      <4> QED  BY <2>1, <4>1, <4>2 DEF OnlyDeclarationsDeleted, IsDeclaration, Unused
    <3> QED  BY <3>1, <3>2 DEF OnlyDeclarationsDeleted, IsDeclaration
  <2> QED  BY <1>6, <2>2, <2>3 DEF PassManager_run
<1>7. CASE RubyVM_start
  BY <1>2, <1>7, StartStep
<1>8. CASE RubyVM_compile
  <2>1. /\ Functions' = Functions \cup {New} /\ \A g \in Functions : fun'[g] = fun[g]
        /\ passed' = passed
    BY <1>8, CompileStep
  <2>2. fun'[New].alive = TRUE
    BY <1>8, CompileStep
  <2> QED  BY <1>2, <2>1, <2>2
<1>9. ASSUME NEW by, NEW f, run_function(by, f) PROVE UNCHANGED <<fun, passed>>
  BY <1>9 DEF run_function
<1> QED
  BY <1>1, <1>3, <1>4, <1>5, <1>6, <1>7, <1>8, <1>9
  DEF Next, vars, Module_new, ExecutionEngine_get, ExecutionEngine_run_function, RubyVM_send

LEMMA CarefulStep == Typing /\ CarefulClient /\ [Next]_vars => CarefulClient'
<1> SUFFICES ASSUME Typing, CarefulClient, [Next]_vars, careful'
             PROVE  \A f \in Functions' : fun'[f].mod \in ClientModules' =>
                        fun'[f].finished /\ ~fun'[f].renamed
  BY DEF CarefulClient
<1> DEFINE Kept == \A f \in Functions' : fun'[f].mod \in ClientModules' =>
                       fun'[f].finished /\ ~fun'[f].renamed
<1>1. CASE UNCHANGED <<fun, nmod, vm>> /\ (careful' => careful)
  BY <1>1 DEF CarefulClient, ClientModules, Functions
<1>2. CASE Module_new
  <2>1. nmod' = nmod + 1 /\ UNCHANGED <<fun, vm, careful>> /\ Functions' = Functions
    BY <1>2 DEF Module_new, Functions
  <2>2. \A f \in Functions : fun[f].mod \in ClientModules' => fun[f].mod \in ClientModules
    BY <2>1 DEF ClientModules, Typing, FunTyping
  <2> QED  BY <2>1, <2>2 DEF CarefulClient
<1>3. ASSUME Functions' = Functions \cup {New}, \A g \in Functions : fun'[g] = fun[g],
             careful' => careful,
             \A g \in Functions : fun[g].mod \in ClientModules' => fun[g].mod \in ClientModules,
             fun'[New].mod \in ClientModules' => fun'[New].finished = TRUE /\ fun'[New].renamed = FALSE
      PROVE  Kept
  BY <1>3 DEF CarefulClient
<1>4. ASSUME NEW m \in ClientModules, NEW name \in Names, get_or_insert_function(m, name) PROVE Kept
  <2>1. UNCHANGED <<nmod, vm, careful>> /\ ClientModules' = ClientModules
    BY <1>4 DEF get_or_insert_function, ClientModules
  <2>2. CASE fun' # fun
    <3>1. /\ Functions' = Functions \cup {New} /\ \A g \in Functions : fun'[g] = fun[g]
          /\ fun'[New].finished = TRUE /\ fun'[New].renamed = FALSE
      BY <1>4, <2>2, ClientAdded DEF get_or_insert_function
    <3> QED  BY <1>3, <2>1, <3>1
  <2> QED  BY <1>1, <2>1, <2>2
<1>5. ASSUME NEW m \in ClientModules, NEW name \in Names, external_function(m, name) PROVE Kept
  <2>1. UNCHANGED <<nmod, vm>> /\ ClientModules' = ClientModules
    BY <1>5 DEF external_function, ClientModules
  <2>2. (careful' => careful) /\ (Named(m, name) # {}) = FALSE
    BY <1>5 DEF external_function, mindful
  <2>3. /\ Functions' = Functions \cup {New} /\ \A g \in Functions : fun'[g] = fun[g]
        /\ fun'[New].finished = TRUE /\ fun'[New].renamed = FALSE
    BY <1>5, <2>2, ClientAdded DEF external_function
  <2> QED  BY <1>3, <2>1, <2>2, <2>3
<1>6. ASSUME NEW f \in Functions, NEW finished \in BOOLEAN,
             NEW does \in {nothing} \cup { calls(g) : g \in Functions }, build(f, does, finished)
      PROVE  Kept
  <2>1. UNCHANGED <<nmod, vm>> /\ ClientModules' = ClientModules /\ (careful' => careful /\ finished)
    BY <1>6 DEF build, mindful, ClientModules
  <2>2. CASE fun' = Edited(fun, f, does, finished)
    <3>1. does \in Body /\ Wellformed(does)
      BY BuiltBody
    <3>2. /\ Functions' = Functions /\ \A g \in Functions : g # f => fun'[g] = fun[g]
          /\ fun'[f].mod = fun[f].mod /\ fun'[f].renamed = fun[f].renamed
          /\ fun'[f].finished = finished
      BY <2>1, <2>2, <3>1, FunBuilt
    <3>3. fun'[f].finished
      BY <2>1, <3>2, Zenon
    <3> QED  BY <2>1, <3>2, <3>3 DEF CarefulClient
  <2> QED  BY <1>1, <1>6, <2>1, <2>2 DEF build
<1>7. ASSUME NEW m \in ClientModules, PassManager_run(m) PROVE Kept
  <2>1. UNCHANGED <<nmod, vm, careful>> /\ ClientModules' = ClientModules
    BY <1>7 DEF PassManager_run, ClientModules
  <2>2. CASE fun' \in Repeated(lists + 1, m)
    <3>1. Functions' = Functions /\ Outcome(m, fun, fun')
      BY <2>1, <2>2, FunPassed
    <3>2. \A g \in Functions : /\ fun'[g].mod = fun[g].mod
                              /\ fun'[g].finished = fun[g].finished
                              /\ fun'[g].renamed = fun[g].renamed
      BY <3>1 DEF Outcome
    <3> QED  BY <2>1, <3>1, <3>2 DEF CarefulClient
  <2> QED  BY <1>1, <1>7, <2>1, <2>2 DEF PassManager_run
<1>8. CASE RubyVM_start
  <2>1. /\ nmod' = nmod + 1 /\ vm'.modules = vm.modules \cup {nmod + 1} /\ careful' = careful
    BY <1>8 DEF RubyVM_start
  <2>2. /\ Functions' = Functions \cup {New} /\ \A g \in Functions : fun'[g] = fun[g]
        /\ fun'[New].finished = TRUE /\ fun'[New].renamed = FALSE
    BY <1>8, StartStep
  <2>3. \A g \in Functions : fun[g].mod \in ClientModules' => fun[g].mod \in ClientModules
    BY <2>1 DEF ClientModules, Typing, FunTyping
  <2> QED  BY <1>3, <2>1, <2>2, <2>3
<1>9. CASE RubyVM_compile
  <2>1. /\ nmod' = nmod /\ vm'.modules = vm.modules /\ careful' = careful /\ vm.module \in vm.modules
        /\ Functions' = Functions \cup {New} /\ \A g \in Functions : fun'[g] = fun[g]
    BY <1>9, CompileStep
  <2>2. fun'[New].mod = vm.module
    BY <1>9, CompileStep
  <2>3. ClientModules' = ClientModules /\ fun'[New].mod \notin ClientModules'
    BY <2>1, <2>2 DEF ClientModules
  <2> QED  BY <1>3, <2>1, <2>3
<1>10. ASSUME NEW by, NEW f, run_function(by, f) PROVE UNCHANGED <<fun, nmod, vm>>
  BY <1>10 DEF run_function
<1> QED
  BY <1>1, <1>2, <1>4, <1>5, <1>6, <1>7, <1>8, <1>9, <1>10
  DEF Next, vars, mindful, ExecutionEngine_get, ExecutionEngine_run_function, RubyVM_send

LEMMA DisciplineStep ==
    /\ Typing /\ CallsSound /\ CodeSound /\ OnlyDeclarationsDeleted /\ CarefulClient
    /\ DisciplineSuffices /\ [Next]_vars
    => DisciplineSuffices'
<1> SUFFICES ASSUME Typing, CallsSound, CodeSound, OnlyDeclarationsDeleted, CarefulClient,
                    DisciplineSuffices, [Next]_vars, careful'
             PROVE  last' # aborted("client")
  BY DEF DisciplineSuffices
<1>1. CASE last' = last /\ (careful' => careful)
  BY <1>1 DEF DisciplineSuffices
<1>2. \A by, a : \A f \in Functions : answered(by, f, a) # aborted("client")
  BY DEF aborted, answered, Typing, FunTyping, Functions
<1>3. \A g \in Functions : Usable(g) => fun[g].alive
  BY DEF Usable, OnlyDeclarationsDeleted
<1>4. ASSUME NEW f \in Functions, NEW finished \in BOOLEAN,
             NEW does \in {nothing} \cup { calls(g) : g \in Functions }, build(f, does, finished)
      PROVE  last' # aborted("client")
  <2>1. careful /\ \A g \in {f, does.fn} \cap Functions : Usable(g)
    BY <1>4 DEF build, mindful
  <2>2. last' = last
    BY <1>3, <1>4, <2>1 DEF build
  <2> QED  BY <1>1, <2>1, <2>2
<1>5. ASSUME NEW m \in ClientModules, PassManager_run(m) PROVE last' # aborted("client")
  <2>1. careful
    BY <1>5 DEF PassManager_run
  <2>2. \A f \in Functions : fun[f].mod = m => fun[f].finished
    BY <2>1 DEF CarefulClient
  <2> QED  BY <1>1, <1>5, <2>1, <2>2 DEF PassManager_run
<1>6. ASSUME NEW f \in Functions, ExecutionEngine_run_function(f) PROVE last' # aborted("client")
  <2> DEFINE uncompiled == Reached(f, IF f \in DOMAIN code THEN code ELSE fun) \ DOMAIN code
             runs       == EE # {} /\ \A g \in uncompiled : CanCompile(g)
  <2>1. /\ careful /\ fun[f].mod \in EE /\ fun[f].mod \in ClientModules
        /\ \A g \in Reached(f, fun) : Usable(g)
    BY <1>6 DEF ExecutionEngine_run_function, mindful
  <2>2. \/ last' = answered("client", f, answer(f, compiled(uncompiled)))
        \/ runs => fun[f].mod \notin EE
    BY <1>6 DEF ExecutionEngine_run_function, run_function, LLVM_FUNCTION
  <2>3. CASE f \in DOMAIN code
    <3>1. uncompiled = {}
      BY <2>3 DEF Reached, CodeSound, CodeClosed
    <3> HIDE DEF uncompiled
    <3> QED  BY <1>2, <2>1, <2>2, <3>1
  <2>4. CASE f \notin DOMAIN code
    <3>1. ASSUME NEW g \in Reached(f, fun) PROVE CanCompile(g)
      <4>1. g \in Functions /\ fun[g].mod = fun[f].mod
        BY DEF Reached, CallsSound
      <4>2. Usable(g) /\ fun[g].alive
        BY <1>3, <2>1, <4>1
      <4>3. fun[g].finished /\ ~fun[g].renamed
        BY <2>1, <4>1 DEF CarefulClient
      <4> QED  BY <4>2, <4>3 DEF Usable, CanCompile
    <3>2. runs
      BY <2>1, <2>4, <3>1
    <3> HIDE DEF runs, uncompiled
    <3> QED  BY <1>2, <2>1, <2>2, <3>2
  <2> QED  BY <2>3, <2>4
<1>7. ASSUME NEW f \in vm.methods, RubyVM_send(f) PROVE last' # aborted("client")
  <2>1. f \in Functions
    BY DEF Typing, VMTyping
  <2>2. last' = aborted("vm") \/ \E a : last' = answered("vm", f, a)
    BY <1>7 DEF RubyVM_send, run_function
  <2>3. aborted("vm") # aborted("client")
    BY DEF aborted, answered
  <2> QED  BY <1>2, <2>1, <2>2, <2>3
<1> QED
  BY <1>1, <1>4, <1>5, <1>6, <1>7
  DEF Next, vars, mindful, Module_new, get_or_insert_function, external_function, ExecutionEngine_get,
      RubyVM_start, RubyVM_compile

-----------------------------------------------------------------------------
(* The invariant, and what follows from it.                                *)

IInv ==
    /\ Typing /\ Counted /\ NamesUnique /\ VMNames
    /\ VMReady /\ CallsSound /\ CodeSound
    /\ OnlyDeclarationsDeleted /\ CarefulClient
    /\ VMNeverAborts /\ DisciplineSuffices

LEMMA InitIInv == Init => IInv
<1> SUFFICES ASSUME Init PROVE IInv
  OBVIOUS
<1>1. /\ Functions = {} /\ nmod = 0 /\ EE = {} /\ DOMAIN code = {} /\ careful = TRUE
      /\ vm.module = 0 /\ vm.modules = {} /\ vm.methods = {} /\ last = Nobody
  BY DEF Init, Functions
<1>2. Counted
  <2>1. ClientModules = {}
    BY <1>1 DEF ClientModules
  <2> QED  BY <1>1, <2>1, FS_EmptySet, BoundsAssumption DEF Counted
<1>3. NamesUnique /\ VMNames /\ VMReady /\ CallsSound /\ OnlyDeclarationsDeleted /\ CarefulClient
  BY <1>1 DEF NamesUnique, VMNames, VMReady, CallsSound, OnlyDeclarationsDeleted, CarefulClient
<1>4. VMNeverAborts /\ DisciplineSuffices
  BY <1>1 DEF VMNeverAborts, DisciplineSuffices, Nobody, aborted, answered
<1> QED  BY <1>2, <1>3, <1>4, InitTyping, InitCodeSound DEF IInv

LEMMA NextIInv == IInv /\ [Next]_vars => IInv'
  BY TypingStep, CountedStep, NamesStep, VMReadyStep, CallsStep, CodeSoundStep, DeletedStep,
     CarefulStep, VMStep, DisciplineStep
  DEF IInv

LEMMA TypesOK == IInv => TypeOK
<1> SUFFICES ASSUME IInv PROVE TypeOK
  OBVIOUS
<1>1. nmod \in 0 .. MaxModules + MaxStarts
  <2>1. MaxModules \in Nat /\ MaxStarts \in Nat
    BY BoundsAssumption
  <2> QED  BY <2>1, ModulesFinite DEF IInv, Counted
<1>2. ASSUME NEW g \in Functions, NEW h \in Functions, NEW m \in 1 .. nmod,
             {g, h} \subseteq Named(m, fun[g].name)
      PROVE  g = h
  <2>1. g \in Named(m, fun[g].name) /\ h \in Named(m, fun[g].name)
    BY <1>2
  <2> QED  BY <2>1 DEF Named, IInv, NamesUnique, Public
<1> QED  BY <1>1, <1>2 DEF TypeOK, IInv, Typing, FunTyping, CodeTyping, VMTyping

LEMMA RepeatsHarmless == Typing => RepeatedPassesHarmless
<1> SUFFICES ASSUME Typing, NEW m \in ClientModules PROVE Repeated(2, m) \subseteq Repeated(1, m)
  BY DEF RepeatedPassesHarmless
<1>1. Repeated(2, m) \subseteq Passes(m, fun)
  BY RepeatedOnce DEF Typing, FunTyping, Functions
<1>2. Repeated(1, m) = Passes(m, fun)
  <2>1. \E r : IsResult(r, 1, m)
    BY ResultExists
  <2> QED  BY <2>1 DEF Repeated, IsResult
<1> QED  BY <1>1, <1>2

-----------------------------------------------------------------------------
(* Theorems.                                                               *)

\* The invariant holds of every behaviour.
LEMMA Invariance == Spec => []IInv
<1>1. Init => IInv
  BY InitIInv
<1>2. IInv /\ [Next]_vars => IInv'
  BY NextIInv
<1> QED  BY <1>1, <1>2, PTL DEF Spec

\* Numbers refer to what there is, the counts keep to their bounds, and no
\* module ever has two functions of one name: neither get_or_insert_function,
\* nor external_function, nor the names that compile_bytecode makes.
THEOREM Types == Spec => []TypeOK
<1>1. IInv => TypeOK
  BY TypesOK
<1> QED  BY <1>1, Invariance, PTL

\* No pass and no start of RubyVM leaves a call behind whose function was
\* deleted, or is in another module.
THEOREM CallsStay == Spec => []CallsStayInModule
<1>1. IInv => CallsStayInModule
  BY DEF IInv, CallsSound, CallsStayInModule
<1> QED  BY <1>1, Invariance, PTL

\* A method that compile_bytecode returned runs, whatever clients do to their
\* modules, and however often RubyVM is started and compilations fail.
THEOREM MethodsRun == Spec => []VMNeverAborts
<1>1. IInv => VMNeverAborts
  BY DEF IInv
<1> QED  BY <1>1, Invariance, PTL

\* A client who keeps to the discipline never takes the process down: not by
\* running a function, not by building one, and not by the passes.
THEOREM CarefulClientsAreSafe == Spec => []DisciplineSuffices
<1>1. IInv => DisciplineSuffices
  BY DEF IInv
<1> QED  BY <1>1, Invariance, PTL

\* The engine answers with the functions as they are now, if none of those it
\* went through was edited after it was compiled or inlined.
THEOREM AnswersStayCurrent == Spec => []AnswersCurrent
<1>1. IInv => AnswersCurrent
  BY CodeAnswers DEF IInv
<1> QED  BY <1>1, Invariance, PTL

\* That PassManager#run adds its passes again every time does no harm.
THEOREM RepeatedPasses == Spec => []RepeatedPassesHarmless
<1>1. IInv => RepeatedPassesHarmless
  BY RepeatsHarmless DEF IInv
<1> QED  BY <1>1, Invariance, PTL
=============================================================================
