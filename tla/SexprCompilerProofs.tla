------------------------- MODULE SexprCompilerProofs -------------------------
(***************************************************************************)
(* The compiler of s-expressions, for all programs and numbers.            *)
(***************************************************************************)
EXTENDS SexprMeaning, FiniteSetTheorems, TLAPS

Types == {"int", "ptr"}
Type(class) == IF class = "String" THEN "ptr" ELSE "int"

Called == { e.method : e \in { s \in Sexprs : s.type = "call" } }

\* What items of work, the results of parse_sexpr and instructions look like.
Items ==
    { parse(e) : e \in Sexprs } \cup [do : {"list"}, n : Nat]
        \cup [do : {"assign"}, name : Names] \cup [do : {"call"}, method : Called, n : Nat]

Vals    == [kind : {"const", "reg"}, n : Int]
Objects == [class : {"Num", "String", "Nil"}, type : Types, val : Vals] \cup {NoObject}

Funcs == Classes \X UNION { DOMAIN Methods[c] : c \in Classes }
Instructions ==
    [op : {"str"}, text : DOMAIN StrLen] \cup [op : {"load"}, name : Names]
        \cup [op : {"store"}, name : Names, val : Vals] \cup [op : {"call"}, func : Funcs, args : Seq(Vals)]

\* The type of what instruction i gives.
Gives(i) ==
    CASE i.op = "str"  -> "ptr"
      [] i.op = "call" -> Methods[i.func[1]][i.func[2]].type
      [] OTHER         -> variables[i.name].type

\* v is of type t, and known after n instructions.
ValTyped(v, t, n) ==
    \/ v.kind = "const" /\ t = "int"
    \/ v.kind = "reg" /\ v.n \in 1 .. n /\ t = Gives(ir[v.n])

Stores(j, x) == ir[j].op = "store" /\ ir[j].name = x

LoadTyped(k)  == ir[k].name \in DOMAIN variables /\ \E j \in 1 .. k - 1 : Stores(j, ir[k].name)
StoreTyped(k) == ir[k].name \in DOMAIN variables /\ ValTyped(ir[k].val, variables[ir[k].name].type, k - 1)
CallTyped(k)  ==
    LET c == ir[k].func[1]
        m == ir[k].func[2]
    IN  /\ m \in DOMAIN Methods[c]
        /\ Len(ir[k].args) = Len(Methods[c][m].args) + 1
        /\ ValTyped(ir[k].args[1], Type(c), k - 1)
        /\ \A j \in 1 .. Len(Methods[c][m].args) : ValTyped(ir[k].args[j + 1], Methods[c][m].args[j], k - 1)

\* The variables, their classes, and where they are set.
VariablesTyped ==
    /\ DOMAIN variables \subseteq Names
    /\ variables \in [DOMAIN variables -> [class : Classes, type : Types]]
    /\ \A x \in DOMAIN variables : /\ variables[x].type = Type(variables[x].class)
                                   /\ \E j \in 1 .. Len(ir) : Stores(j, x)

InstructionTyped(k) ==
    /\ ir[k].op = "load" => LoadTyped(k)
    /\ ir[k].op = "store" => StoreTyped(k)
    /\ ir[k].op = "call" => CallTyped(k)

IRTyped == ir \in Seq(Instructions) /\ \A k \in 1 .. Len(ir) : InstructionTyped(k)

ObjectTyped(o) == o # NoObject => o.type = Type(o.class) /\ ValTyped(o.val, o.type, Len(ir))

ResultsTyped == results \in Seq(Objects) /\ \A k \in 1 .. Len(results) : ObjectTyped(results[k])

\* How many results an item of work takes; each leaves one.
Takes(i) == CASE i.do = "parse" -> 0 [] i.do = "assign" -> 1 [] i.do = "list" -> i.n [] i.do = "call" -> i.n + 1

\* d is how many results there will be before each item of work.
Depths(d) ==
    /\ d \in [1 .. Len(todo) + 1 -> Nat]
    /\ d[1] = Len(results) /\ d[Len(todo) + 1] = 1
    /\ \A k \in 1 .. Len(todo) : d[k] >= Takes(todo[k]) /\ d[k + 1] = d[k] - Takes(todo[k]) + 1

Balanced == todo \in Seq(Items) /\ \E d \in [1 .. Len(todo) + 1 -> Nat] : Depths(d)

MachineTyped ==
    /\ regs \in Seq(Values) /\ Len(regs) <= Len(ir)
    /\ \A k \in 1 .. Len(regs) : regs[k].type = Gives(ir[k])
    /\ mem \in [Names -> Values \cup {Unset}]
    /\ \A x \in Names : mem[x] # Unset => x \in DOMAIN variables /\ mem[x].type = variables[x].type
    /\ \A j \in 1 .. Len(regs) : ir[j].op = "store" => mem[ir[j].name] # Unset

StatusTyped ==
    /\ status \in {"compiling", "raised", "crashed", "malformed", "unlinked", "running", "finished"}
    /\ status \in {"running", "finished", "unlinked"} => todo = <<>>

IInv == VariablesTyped /\ IRTyped /\ ResultsTyped /\ Balanced /\ MachineTyped /\ StatusTyped

-----------------------------------------------------------------------------
(* The tables, and what instructions look like.                            *)

LEMMA MethodTables ==
    /\ Classes = {"Num", "String"}
    /\ \A c \in Classes : \A m \in DOMAIN Methods[c] :
           /\ Methods[c][m].args \in Seq(Types) /\ Methods[c][m].type \in Types
           /\ Methods[c][m].class \in {"Num", "String", "Nil"}
           /\ Methods[c][m].type = Type(Methods[c][m].class)
<1> DEFINE Row(as, class) == [args |-> as, type |-> Type(class), class |-> class]
           Right(r) == /\ r.args \in Seq(Types) /\ r.type \in Types
                       /\ r.class \in {"Num", "String", "Nil"} /\ r.type = Type(r.class)
<1>1. Classes = {"Num", "String"}
  BY DEF Classes, Methods
<1>2. /\ DOMAIN Methods["Num"] = {"plus", "minus", "to_s"}
      /\ Methods["Num"]["plus"] = Row(<<"int">>, "Num")
      /\ Methods["Num"]["minus"] = Row(<<"int">>, "Num")
      /\ Methods["Num"]["to_s"] = Row(<<>>, "String")
  BY DEF Methods, Type
<1>3. /\ DOMAIN Methods["String"] = {"length", "puts", "plus"}
      /\ Methods["String"]["length"] = Row(<<>>, "Num")
      /\ Methods["String"]["puts"] = Row(<<>>, "Nil")
      /\ Methods["String"]["plus"] = Row(<<"ptr">>, "String")
  BY DEF Methods, Type
<1>4. <<>> \in Seq(Types) /\ <<"int">> \in Seq(Types) /\ <<"ptr">> \in Seq(Types)
  BY DEF Types
<1>5. \A as \in Seq(Types), c \in {"Num", "String", "Nil"} : Right(Row(as, c))
  BY DEF Type, Types
<1> HIDE DEF Row, Right
<1>6. \A m \in DOMAIN Methods["Num"] : Right(Methods["Num"][m])
  BY <1>2, <1>4, <1>5
<1>7. \A m \in DOMAIN Methods["String"] : Right(Methods["String"][m])
  BY <1>3, <1>4, <1>5
<1>8. \A c \in Classes : \A m \in DOMAIN Methods[c] : Right(Methods[c][m])
  BY <1>1, <1>6, <1>7
<1> QED  BY <1>1, <1>8 DEF Right

LEMMA InstructionShapes ==
    ASSUME NEW i \in Instructions
    PROVE  /\ i.op \in {"str", "load", "store", "call"}
           /\ i.op = "str" => i.text \in DOMAIN StrLen
           /\ i.op = "load" => i.name \in Names
           /\ i.op = "store" => i.name \in Names /\ i.val \in Vals
           /\ i.op = "call" => i.func[1] \in Classes /\ i.args \in Seq(Vals)
  BY DEF Instructions, Funcs

\* The compiler adds instructions and variables, and changes none.
Grows ==
    /\ Len(ir) <= Len(ir') /\ \A k \in 1 .. Len(ir) : ir'[k] = ir[k]
    /\ DOMAIN variables \subseteq DOMAIN variables'
    /\ \A x \in DOMAIN variables : variables'[x] = variables[x]

\* The type of an instruction stays.
LEMMA GivesKept ==
    ASSUME IRTyped, Grows, NEW k \in 1 .. Len(ir)
    PROVE  Gives(ir[k])' = Gives(ir[k])
<1>1. ir'[k] = ir[k]
  BY DEF Grows
<1>2. ir[k] \in Instructions /\ InstructionTyped(k)
  BY DEF IRTyped
<1>3. CASE ir[k].op \in {"load", "store"}
  <2>1. ir[k].name \in DOMAIN variables
    BY <1>2, <1>3 DEF InstructionTyped, LoadTyped, StoreTyped
  <2> QED  BY <1>1, <1>3, <2>1 DEF Gives, Grows
<1>4. CASE ir[k].op \in {"str", "call"}
  BY <1>1, <1>4 DEF Gives
<1> QED  BY <1>2, <1>3, <1>4, InstructionShapes

\* What is of a type stays of that type.
LEMMA ValKept ==
    ASSUME IRTyped, Grows, NEW n \in 0 .. Len(ir), NEW v, NEW t, ValTyped(v, t, n)
    PROVE  ValTyped(v, t, n)'
<1>1. Len(ir) \in Nat
  BY DEF IRTyped
<1>2. CASE v.kind = "const" /\ t = "int"
  BY <1>2 DEF ValTyped
<1>3. CASE v.kind = "reg" /\ v.n \in 1 .. n /\ t = Gives(ir[v.n])
  <2>1. v.n \in 1 .. Len(ir)
    BY <1>1, <1>3
  <2>2. Gives(ir[v.n])' = Gives(ir[v.n])
    BY <2>1, GivesKept
  <2> QED  BY <1>3, <2>2 DEF ValTyped
<1> QED  BY <1>2, <1>3 DEF ValTyped

\* It is known after more instructions, too.
LEMMA ValLater ==
    ASSUME NEW m \in Nat, NEW n \in Nat, m <= n, NEW v, NEW t, ValTyped(v, t, m)
    PROVE  ValTyped(v, t, n)
  BY DEF ValTyped

LEMMA InstructionKept ==
    ASSUME IRTyped, Grows, NEW k \in 1 .. Len(ir)
    PROVE  InstructionTyped(k)'
<1>1. Len(ir) \in Nat /\ k - 1 \in 0 .. Len(ir)
  BY DEF IRTyped
<1>2. ir'[k] = ir[k] /\ \A j \in 1 .. k - 1 : ir'[j] = ir[j]
  BY <1>1 DEF Grows
<1>3. ir[k] \in Instructions /\ InstructionTyped(k)
  BY DEF IRTyped
<1>4. CASE ir[k].op = "load"
  <2>1. LoadTyped(k)'
    BY <1>2, <1>3, <1>4 DEF InstructionTyped, LoadTyped, Grows, Stores
  <2> QED  BY <1>2, <1>4, <2>1 DEF InstructionTyped
<1>5. CASE ir[k].op = "store"
  <2>1. PICK x \in DOMAIN variables : x = ir[k].name /\ ValTyped(ir[k].val, variables[x].type, k - 1)
    BY <1>3, <1>5 DEF InstructionTyped, StoreTyped
  <2>2. PICK v, t : v = ir[k].val /\ t = variables[x].type
    OBVIOUS
  <2>3. ValTyped(v, t, k - 1)'
    BY <1>1, <2>1, <2>2, ValKept
  <2>4. StoreTyped(k)'
    BY <1>2, <2>1, <2>2, <2>3 DEF StoreTyped, Grows
  <2> QED  BY <1>2, <1>5, <2>4 DEF InstructionTyped
<1>6. CASE ir[k].op = "call"
  <2>1. PICK c, m, as : c = ir[k].func[1] /\ m = ir[k].func[2] /\ as = ir[k].args
    OBVIOUS
  <2>2. /\ m \in DOMAIN Methods[c] /\ Len(as) = Len(Methods[c][m].args) + 1
        /\ ValTyped(as[1], Type(c), k - 1)
        /\ \A j \in 1 .. Len(Methods[c][m].args) : ValTyped(as[j + 1], Methods[c][m].args[j], k - 1)
    BY <1>3, <1>6, <2>1 DEF InstructionTyped, CallTyped
  <2>3. ValTyped(as[1], Type(c), k - 1)'
    BY <1>1, <2>2, ValKept
  <2>4. ASSUME NEW j \in 1 .. Len(Methods[c][m].args)
        PROVE  ValTyped(as[j + 1], Methods[c][m].args[j], k - 1)'
    BY <1>1, <2>2, ValKept
  <2>5. CallTyped(k)'
    BY <1>2, <2>1, <2>2, <2>3, <2>4 DEF CallTyped
  <2> QED  BY <1>2, <1>6, <2>5 DEF InstructionTyped
<1>7. CASE ir[k].op = "str"
  BY <1>2, <1>7 DEF InstructionTyped
<1> QED  BY <1>3, <1>4, <1>5, <1>6, <1>7, InstructionShapes

\* A step of the compiler leaves the machine as it was.
LEMMA MachineKept ==
    ASSUME IRTyped, MachineTyped, Grows, UNCHANGED machine, Len(ir') \in Nat
    PROVE  MachineTyped'
<1>1. Len(ir) \in Nat /\ Len(regs) \in Nat /\ Len(regs) <= Len(ir)
  BY DEF IRTyped, MachineTyped
<1>2. regs' = regs /\ mem' = mem
  BY DEF machine
<1>3. ASSUME NEW k \in 1 .. Len(regs) PROVE regs[k].type = Gives(ir[k])'
  <2>1. k \in 1 .. Len(ir)
    BY <1>1
  <2> QED  BY <2>1, GivesKept DEF MachineTyped
<1>4. \A j \in 1 .. Len(regs) : ir'[j] = ir[j]
  BY <1>1 DEF Grows
<1>5. \A x \in DOMAIN variables : x \in DOMAIN variables' /\ variables'[x] = variables[x]
  BY DEF Grows
<1>6. regs' \in Seq(Values) /\ Len(regs') <= Len(ir')
  BY <1>1, <1>2 DEF MachineTyped, Grows
<1>7. \A k \in 1 .. Len(regs') : regs'[k].type = Gives(ir[k])'
  BY <1>2, <1>3
<1>8. mem' \in [Names -> Values \cup {Unset}]
  BY <1>2 DEF MachineTyped
<1>9. \A x \in Names : mem'[x] # Unset => x \in DOMAIN variables' /\ mem'[x].type = variables'[x].type
  BY <1>2, <1>5 DEF MachineTyped
<1>10. \A j \in 1 .. Len(regs') : ir'[j].op = "store" => mem'[ir'[j].name] # Unset
  BY <1>2, <1>4 DEF MachineTyped
<1> QED  BY <1>6, <1>7, <1>8, <1>9, <1>10 DEF MachineTyped

-----------------------------------------------------------------------------
(* The recursion of parse_sexpr.                                           *)

LEMMA ItemShapes ==
    ASSUME NEW i \in Items
    PROVE  /\ i.do \in {"parse", "list", "assign", "call"}
           /\ i.do = "parse" => i.sexpr \in Sexprs /\ Takes(i) = 0
           /\ i.do = "assign" => i.name \in Names /\ Takes(i) = 1
           /\ i.do = "list" => i.n \in Nat /\ Takes(i) = i.n
           /\ i.do = "call" => i.n \in Nat /\ Takes(i) = i.n + 1
           /\ Takes(i) \in Nat
  BY DEF Items, Takes, parse

LEMMA ItemsMade ==
    /\ \A e \in Sexprs : parse(e) \in Items /\ Takes(parse(e)) = 0
    /\ \A x \in Names : [do |-> "assign", name |-> x] \in Items /\ Takes([do |-> "assign", name |-> x]) = 1
    /\ \A n \in Nat : [do |-> "list", n |-> n] \in Items /\ Takes([do |-> "list", n |-> n]) = n
    /\ \A n \in Nat, m \in Called :
           /\ [do |-> "call", method |-> m, n |-> n] \in Items
           /\ Takes([do |-> "call", method |-> m, n |-> n]) = n + 1
  BY DEF Items, Takes, parse

\* There are as many results as the next item of work takes.
LEMMA Enough ==
    ASSUME Balanced, todo # <<>>
    PROVE  Item \in Items /\ Len(results) \in Nat /\ Takes(Item) <= Len(results)
<1>1. PICK d \in [1 .. Len(todo) + 1 -> Nat] : Depths(d)
  BY DEF Balanced
<1>2. Len(todo) \in Nat /\ Len(todo) > 0 /\ Item = todo[1] /\ todo[1] \in Items
  BY DEF Balanced, Item
<1>3. 1 \in 1 .. Len(todo) /\ 1 \in 1 .. Len(todo) + 1
  BY <1>2
<1>4. d[1] \in Nat /\ d[1] = Len(results) /\ d[1] >= Takes(todo[1])
  BY <1>1, <1>3 DEF Depths
<1>5. Takes(todo[1]) \in Nat
  BY <1>2, ItemShapes
<1> QED  BY <1>2, <1>4, <1>5

\* An item is done.
LEMMA Taken ==
    ASSUME Balanced, todo # <<>>, todo' = Tail(todo),
           Len(results') = Len(results) - Takes(Item) + 1
    PROVE  Balanced'
<1>1. PICK d \in [1 .. Len(todo) + 1 -> Nat] : Depths(d)
  BY DEF Balanced
<1>2. /\ Len(todo) \in Nat /\ Len(todo) > 0 /\ Item = todo[1] /\ todo \in Seq(Items)
      /\ todo' \in Seq(Items) /\ Len(todo') = Len(todo) - 1
      /\ \A k \in 1 .. Len(todo) - 1 : todo'[k] = todo[k + 1]
  BY DEF Balanced, Item
<1>a. PICK e : e = [k \in 1 .. Len(todo) |-> d[k + 1]]
  OBVIOUS
<1>3. e \in [1 .. Len(todo') + 1 -> Nat]
  <2>1. Len(todo') + 1 = Len(todo)
    BY <1>2
  <2>2. \A k \in 1 .. Len(todo) : k + 1 \in 1 .. Len(todo) + 1
    BY <1>2
  <2> QED  BY <1>a, <2>1, <2>2
<1>4. e[1] = Len(results') /\ e[Len(todo') + 1] = 1
  <2>1. 1 \in 1 .. Len(todo) /\ 1 + 1 = 2 /\ Len(todo) \in 1 .. Len(todo)
    BY <1>2
  <2>2. e[1] = d[2] /\ e[Len(todo)] = d[Len(todo) + 1]
    BY <1>a, <2>1
  <2>3. d[2] = d[1] - Takes(todo[1]) + 1 /\ d[1] = Len(results) /\ d[Len(todo) + 1] = 1
    BY <1>1, <2>1 DEF Depths
  <2>4. Len(todo') + 1 = Len(todo)
    BY <1>2
  <2> QED  BY <1>2, <2>2, <2>3, <2>4
<1>5. ASSUME NEW k \in 1 .. Len(todo')
      PROVE  e[k] >= Takes(todo'[k]) /\ e[k + 1] = e[k] - Takes(todo'[k]) + 1
  <2>1. k \in 1 .. Len(todo) /\ k + 1 \in 1 .. Len(todo) /\ k \in 1 .. Len(todo) - 1
    BY <1>2
  <2>2. e[k] = d[k + 1] /\ e[k + 1] = d[(k + 1) + 1] /\ todo'[k] = todo[k + 1]
    BY <1>a, <1>2, <2>1
  <2> QED  BY <1>1, <2>1, <2>2 DEF Depths
<1>6. Depths(e)'
  BY <1>3, <1>4, <1>5 DEF Depths
<1> QED  BY <1>2, <1>3, <1>6 DEF Balanced

\* Parsing a node comes down to parsing others, and to work on their results.
LEMMA Unfolded ==
    ASSUME Balanced, todo # <<>>, Takes(Item) = 0, NEW items \in Seq(Items), Len(items) > 0,
           \A k \in 1 .. Len(items) - 1 : Takes(items[k]) = 0,
           Takes(items[Len(items)]) = Len(items) - 1,
           todo' = items \o Tail(todo), results' = results
    PROVE  Balanced'
<1>1. PICK d \in [1 .. Len(todo) + 1 -> Nat] : Depths(d)
  BY DEF Balanced
<1>2. PICK n \in Nat, t \in Nat : n = Len(items) /\ t = Len(todo) /\ n > 0 /\ t > 0
  BY DEF Balanced
<1>3. Item = todo[1] /\ todo \in Seq(Items)
  BY DEF Balanced, Item
<1>4. /\ d \in [1 .. t + 1 -> Nat] /\ d[1] = Len(results) /\ d[t + 1] = 1
      /\ \A k \in 1 .. t : d[k] >= Takes(todo[k]) /\ d[k + 1] = d[k] - Takes(todo[k]) + 1
  BY <1>1, <1>2 DEF Depths
<1>5. /\ todo' \in Seq(Items) /\ Len(todo') = n + (t - 1)
      /\ \A k \in 1 .. n : todo'[k] = items[k]
      /\ \A k \in n + 1 .. n + (t - 1) : todo'[k] = todo[k - n + 1]
  <2>1. Tail(todo) \in Seq(Items) /\ Len(Tail(todo)) = t - 1
    BY <1>2, <1>3
  <2>2. \A k \in 1 .. t - 1 : Tail(todo)[k] = todo[k + 1]
    BY <1>2, <1>3
  <2>3. todo' \in Seq(Items) /\ Len(todo') = n + (t - 1)
    BY <1>2, <2>1
  <2>4. \A k \in 1 .. n : todo'[k] = items[k]
    BY <1>2, <2>1
  <2>5. ASSUME NEW k \in n + 1 .. n + (t - 1) PROVE todo'[k] = todo[k - n + 1]
    <3>1. k - n \in 1 .. t - 1 /\ k \in Nat /\ k > n
      BY <1>2
    <3>2. todo'[k] = Tail(todo)[k - n]
      BY <1>2, <2>1, <3>1
    <3> QED  BY <2>2, <3>1, <3>2
  <2> QED  BY <2>3, <2>4, <2>5
<1>6. PICK e : e = [k \in 1 .. n + t |-> IF k <= n THEN d[1] + (k - 1) ELSE d[k - n + 1]]
  OBVIOUS
<1>7. d[1] \in Nat /\ d[2] = d[1] + 1
  <2>1. 1 \in 1 .. t /\ 1 \in 1 .. t + 1 /\ 1 + 1 = 2
    BY <1>2
  <2> QED  BY <1>2, <1>3, <1>4, <2>1
<1>8. \A k \in n + 1 .. n + t : k - n + 1 \in 1 .. t + 1 /\ e[k] = d[k - n + 1]
  BY <1>2, <1>6
<1>9. \A k \in 1 .. n : e[k] = d[1] + (k - 1)
  BY <1>2, <1>6
<1>10. Len(todo') + 1 = n + t
  BY <1>2, <1>5
<1>11. e \in [1 .. n + t -> Nat]
  <2>1. \A k \in 1 .. n + t : k \in 1 .. n \/ k \in n + 1 .. n + t
    BY <1>2
  <2>2. ASSUME NEW k \in 1 .. n + t PROVE e[k] \in Nat
    <3>1. CASE k \in 1 .. n
      BY <1>7, <1>9, <3>1
    <3>2. CASE k \in n + 1 .. n + t
      BY <1>4, <1>8, <3>2
    <3> QED  BY <2>1, <3>1, <3>2
  <2> QED  BY <1>6, <2>2
<1>12. e[1] = Len(results') /\ e[n + t] = 1
  <2>1. 1 \in 1 .. n /\ n + t \in n + 1 .. n + t /\ (n + t) - n + 1 = t + 1 /\ 1 - 1 = 0
    BY <1>2
  <2>2. e[1] = d[1] + 0 /\ e[n + t] = d[t + 1]
    <3>1. e[1] = d[1] + (1 - 1)
      BY <1>9, <2>1
    <3> QED  BY <1>8, <2>1, <3>1
  <2> QED  BY <1>4, <1>7, <2>2
<1>13. ASSUME NEW k \in 1 .. n + (t - 1)
       PROVE  e[k] >= Takes(todo'[k]) /\ e[k + 1] = e[k] - Takes(todo'[k]) + 1
  <2>1. CASE k < n
    <3>1. k \in 1 .. n /\ k + 1 \in 1 .. n /\ k \in 1 .. n - 1
      BY <1>2, <2>1
    <3>2. todo'[k] = items[k] /\ Takes(items[k]) = 0
      BY <1>2, <1>5, <3>1
    <3>3. e[k] = d[1] + (k - 1) /\ e[k + 1] = d[1] + ((k + 1) - 1)
      BY <1>9, <3>1
    <3>4. Takes(todo'[k]) = 0
      BY <3>2
    <3>5. d[1] + (k - 1) >= 0 /\ d[1] + ((k + 1) - 1) = (d[1] + (k - 1)) - 0 + 1
      BY <1>2, <1>7
    <3> QED  BY <3>3, <3>4, <3>5
  <2>2. CASE k = n
    <3>1. n \in 1 .. n /\ n + 1 \in n + 1 .. n + t /\ (n + 1) - n + 1 = 2
      BY <1>2
    <3>2. todo'[n] = items[n] /\ Takes(items[n]) = n - 1
      BY <1>2, <1>5, <3>1
    <3>3. e[n] = d[1] + (n - 1) /\ e[n + 1] = d[2]
      BY <1>8, <1>9, <3>1
    <3>4. Takes(todo'[n]) = n - 1
      BY <3>2
    <3>5. d[1] + (n - 1) >= n - 1 /\ (d[1] + (n - 1)) - (n - 1) + 1 = d[1] + 1
      BY <1>2, <1>7
    <3> QED  BY <1>7, <2>2, <3>3, <3>4, <3>5
  <2>3. CASE k > n
    <3>1. /\ k \in n + 1 .. n + (t - 1) /\ k \in n + 1 .. n + t
          /\ k + 1 \in n + 1 .. n + t /\ k - n + 1 \in 1 .. t
          /\ (k + 1) - n + 1 = (k - n + 1) + 1
      BY <1>2, <2>3
    <3>2. todo'[k] = todo[k - n + 1] /\ e[k] = d[k - n + 1] /\ e[k + 1] = d[(k - n + 1) + 1]
      BY <1>5, <1>8, <3>1
    <3> QED  BY <1>4, <3>1, <3>2
  <2>4. k \in Int
    BY <1>2
  <2> QED  BY <1>2, <2>1, <2>2, <2>3, <2>4
<1>14. Depths(e)'
  BY <1>5, <1>10, <1>11, <1>12, <1>13 DEF Depths
<1> QED  BY <1>5, <1>10, <1>11, <1>14 DEF Balanced

-----------------------------------------------------------------------------
(* What the compiler adds is typed.                                        *)

LEMMA ObjectKept ==
    ASSUME IRTyped, Grows, Len(ir') \in Nat, NEW o, ObjectTyped(o)
    PROVE  ObjectTyped(o)'
<1>1. Len(ir) \in Nat /\ Len(ir) \in 0 .. Len(ir) /\ Len(ir) <= Len(ir')
  BY DEF IRTyped, Grows
<1>2. CASE o # NoObject
  <2>1. PICK v, t, n : v = o.val /\ t = o.type /\ n = Len(ir)
    OBVIOUS
  <2>2. ValTyped(v, t, n) /\ t = Type(o.class) /\ n \in 0 .. Len(ir)
    BY <1>1, <1>2, <2>1 DEF ObjectTyped
  <2>3. ValTyped(v, t, n)'
    BY <2>2, ValKept
  <2>4. ValTyped(v, t, Len(ir))'
    BY <1>1, <2>1, <2>3 DEF ValTyped
  <2> QED  BY <2>1, <2>2, <2>4 DEF ObjectTyped
<1>3. CASE o = NoObject
  BY <1>3 DEF ObjectTyped
<1> QED  BY <1>2, <1>3

\* Results are taken, and one is put in their place.
LEMMA Pushed ==
    ASSUME IRTyped, Grows, Len(ir') \in Nat, ResultsTyped,
           NEW p \in Seq(Objects), Len(p) <= Len(results), \A k \in 1 .. Len(p) : p[k] = results[k],
           NEW o \in Objects, ObjectTyped(o)', results' = Append(p, o)
    PROVE  ResultsTyped' /\ Len(results') = Len(p) + 1
<1>1. /\ results' \in Seq(Objects) /\ Len(results') = Len(p) + 1 /\ results'[Len(p) + 1] = o
      /\ \A k \in 1 .. Len(p) : results'[k] = p[k]
  OBVIOUS
<1>2. ASSUME NEW k \in 1 .. Len(p) PROVE ObjectTyped(results[k])'
  <2>1. PICK q : q = results[k]
    OBVIOUS
  <2>2. k \in 1 .. Len(results)
    BY DEF ResultsTyped
  <2>3. ObjectTyped(q)
    BY <2>1, <2>2 DEF ResultsTyped
  <2>4. ObjectTyped(q)'
    BY <2>3, ObjectKept
  <2>5. results'[k] = q
    BY <1>1, <2>1
  <2> QED  BY <2>4, <2>5 DEF ObjectTyped
<1>3. ObjectTyped(results[Len(p) + 1])'
  BY <1>1 DEF ObjectTyped
<1>4. ASSUME NEW k \in 1 .. Len(p) + 1 PROVE ObjectTyped(results[k])'
  <2>1. k \in 1 .. Len(p) \/ k = Len(p) + 1
    OBVIOUS
  <2> QED  BY <1>2, <1>3, <2>1
<1> QED  BY <1>1, <1>4 DEF ResultsTyped

\* An instruction is added.
LEMMA Emitted ==
    ASSUME IRTyped, Grows, NEW i \in Instructions, ir' = Append(ir, i),
           NEW n \in Nat, n = Len(ir) + 1, InstructionTyped(n)'
    PROVE  IRTyped'
<1>1. ir' \in Seq(Instructions) /\ Len(ir') = n
  BY DEF IRTyped
<1>2. ASSUME NEW k \in 1 .. n PROVE InstructionTyped(k)'
  <2>1. k \in 1 .. Len(ir) \/ k = n
    BY DEF IRTyped
  <2> QED  BY <2>1, InstructionKept
<1> QED  BY <1>1, <1>2 DEF IRTyped

LEMMA Appended ==
    ASSUME IRTyped, UNCHANGED variables, NEW i \in Instructions, ir' = Append(ir, i)
    PROVE  /\ Grows /\ Len(ir) \in Nat /\ Len(ir') \in Nat
           /\ Len(ir') = Len(ir) + 1 /\ ir'[Len(ir) + 1] = i
  BY DEF IRTyped, Grows

LEMMA Unemitted ==
    ASSUME IRTyped, UNCHANGED <<variables, ir>>
    PROVE  Grows /\ Len(ir') \in Nat /\ IRTyped'
<1>1. Grows /\ Len(ir) \in Nat
  BY DEF IRTyped, Grows
<1>2. \A k \in 1 .. Len(ir) : InstructionTyped(k)'
  BY <1>1, InstructionKept
<1> QED  BY <1>1, <1>2 DEF IRTyped

LEMMA VariablesKept ==
    ASSUME VariablesTyped, Grows, UNCHANGED variables, Len(ir) \in Nat, Len(ir') \in Nat
    PROVE  VariablesTyped'
<1>1. ASSUME NEW x \in DOMAIN variables PROVE \E j \in 1 .. Len(ir') : Stores(j, x)'
  <2>1. PICK j \in 1 .. Len(ir) : Stores(j, x)
    BY DEF VariablesTyped
  <2>2. ir'[j] = ir[j] /\ j \in 1 .. Len(ir')
    BY DEF Grows
  <2> QED  BY <2>1, <2>2 DEF Stores
<1> QED  BY <1>1 DEF VariablesTyped

-----------------------------------------------------------------------------
(* The invariant holds at first, and is kept by the compiler.              *)

LEMMA InitIInv ==
    ASSUME Init
    PROVE  IInv
<1>1. program \in Sexprs
  BY SexprsAssumption DEF Init
<1>2. todo = <<parse(program)>> /\ parse(program) \in Items /\ Takes(parse(program)) = 0
  BY <1>1, ItemsMade DEF Init
<1>3. Balanced
  <2>1. PICK d : d = [k \in 1 .. 2 |-> k - 1]
    OBVIOUS
  <2>2. d \in [1 .. 2 -> Nat] /\ d[1] = 0 /\ d[2] = 1
    BY <2>1
  <2>3. Len(todo) = 1 /\ todo[1] = parse(program) /\ todo \in Seq(Items) /\ Len(todo) + 1 = 2
    BY <1>2
  <2>4. Len(results) = 0
    BY DEF Init
  <2>5. \A k \in 1 .. Len(todo) : k = 1
    BY <2>3
  <2>6. d[1] >= Takes(todo[1]) /\ d[1 + 1] = d[1] - Takes(todo[1]) + 1
    BY <1>2, <2>2, <2>3
  <2>7. Depths(d)
    BY <2>2, <2>3, <2>4, <2>5, <2>6 DEF Depths
  <2> QED  BY <2>2, <2>3, <2>7 DEF Balanced
<1>4. VariablesTyped
  BY DEF VariablesTyped, Init
<1>5. IRTyped
  BY DEF IRTyped, Init
<1>6. ResultsTyped
  BY DEF ResultsTyped, Init
<1>7. MachineTyped
  BY DEF MachineTyped, Init
<1>8. StatusTyped
  BY DEF StatusTyped, Init
<1> QED  BY <1>3, <1>4, <1>5, <1>6, <1>7, <1>8 DEF IInv

\* A node is parsed to items of work.
LEMMA Unfolds ==
    ASSUME IInv, Doing("parse"), NEW items \in Seq(Items), Len(items) > 0,
           \A k \in 1 .. Len(items) - 1 : Takes(items[k]) = 0,
           Takes(items[Len(items)]) = Len(items) - 1,
           first(items), UNCHANGED <<results, variables, ir, status, machine>>
    PROVE  IInv'
<1>1. todo # <<>> /\ todo' = items \o Tail(todo) /\ status = "compiling"
  BY DEF Doing, first
<1>2. Takes(Item) = 0
  BY <1>1, Enough, ItemShapes DEF IInv, Doing
<1>3. Balanced'
  BY <1>1, <1>2, Unfolded DEF IInv
<1>4. Grows /\ Len(ir') \in Nat /\ IRTyped'
  BY Unemitted DEF IInv
<1>5. VariablesTyped'
  BY <1>4, VariablesKept DEF IInv, IRTyped
<1>6. ResultsTyped'
  <2>1. ASSUME NEW k \in 1 .. Len(results) PROVE ObjectTyped(results[k])'
    <3>1. PICK q : q = results[k] /\ ObjectTyped(q)
      BY DEF IInv, ResultsTyped
    <3>2. ObjectTyped(q)'
      BY <1>4, <3>1, ObjectKept DEF IInv
    <3> QED  BY <3>1, <3>2 DEF ObjectTyped
  <2> QED  BY <2>1 DEF IInv, ResultsTyped
<1>7. MachineTyped'
  BY <1>4, MachineKept DEF IInv
<1>8. StatusTyped'
  BY <1>1 DEF StatusTyped
<1> QED  BY <1>3, <1>4, <1>5, <1>6, <1>7, <1>8 DEF IInv

\* An item of work is done: p are the results it leaves, o is its own.
LEMMA Gave ==
    ASSUME IInv, status = "compiling", todo # <<>>, first(<<>>), UNCHANGED <<status, machine>>,
           Grows, Len(ir') \in Nat, IRTyped', VariablesTyped',
           NEW p \in Seq(Objects), Len(p) = Len(results) - Takes(Item),
           \A k \in 1 .. Len(p) : p[k] = results[k],
           NEW o \in Objects, ObjectTyped(o)', results' = Append(p, o)
    PROVE  IInv'
<1>1. todo' = Tail(todo)
  BY DEF first, IInv, Balanced
<1>2. Len(results) \in Nat /\ Takes(Item) \in Nat /\ Takes(Item) <= Len(results)
  BY Enough, ItemShapes DEF IInv
<1>3. Len(p) <= Len(results)
  BY <1>2
<1>4. ResultsTyped' /\ Len(results') = Len(p) + 1
  BY <1>3, Pushed DEF IInv
<1>5. Len(results') = Len(results) - Takes(Item) + 1
  BY <1>2, <1>4
<1>6. Balanced'
  BY <1>1, <1>5, Taken DEF IInv
<1>7. MachineTyped'
  BY MachineKept DEF IInv
<1>8. StatusTyped'
  BY DEF StatusTyped
<1> QED  BY <1>4, <1>6, <1>7, <1>8 DEF IInv

LEMMA LitKeeps ==
    ASSUME IInv, lit
    PROVE  IInv'
<1>1. /\ status = "compiling" /\ todo # <<>> /\ first(<<>>) /\ UNCHANGED <<variables, ir, status, machine>>
      /\ Item.do = "parse" /\ Item.sexpr.type = "lit"
  BY DEF lit, Parsing, Doing, compilerOnly
<1>2. Item.sexpr \in Sexprs /\ Takes(Item) = 0
  BY <1>1, Enough, ItemShapes DEF IInv
<1>3. Item.sexpr.n \in Int
  BY <1>1, <1>2, SexprsAssumption DEF AreSexprs
<1>4. PICK o : o = RObject("Num", "int", [kind |-> "const", n |-> Item.sexpr.n])
  OBVIOUS
<1>5. o \in Objects /\ ObjectTyped(o)'
  BY <1>3, <1>4 DEF RObject, Objects, Types, Vals, ObjectTyped, ValTyped, Type
<1>6. Grows /\ Len(ir') \in Nat /\ IRTyped'
  BY <1>1, Unemitted DEF IInv
<1>7. VariablesTyped'
  BY <1>1, <1>6, VariablesKept DEF IInv, IRTyped
<1>8. /\ results \in Seq(Objects) /\ results' = Append(results, o)
      /\ Len(results) = Len(results) - Takes(Item)
  BY <1>2, <1>4 DEF lit, push, IInv, ResultsTyped
<1> QED  BY <1>1, <1>5, <1>6, <1>7, <1>8, Gave

LEMMA StrKeeps ==
    ASSUME IInv, str
    PROVE  IInv'
<1>1. /\ status = "compiling" /\ todo # <<>> /\ first(<<>>) /\ UNCHANGED <<variables, status, machine>>
      /\ Item.do = "parse" /\ Item.sexpr.type = "str"
  BY DEF str, Parsing, Doing, compilerOnly
<1>2. Item.sexpr \in Sexprs /\ Takes(Item) = 0
  BY <1>1, Enough, ItemShapes DEF IInv
<1>3. PICK i : i = [op |-> "str", text |-> Item.sexpr.text]
  OBVIOUS
<1>4. i \in Instructions /\ i.op = "str"
  BY <1>1, <1>2, <1>3, SexprsAssumption DEF AreSexprs, Instructions
<1>5. ir' = Append(ir, i)
  BY <1>3 DEF str, emit
<1>6. /\ Grows /\ Len(ir) \in Nat /\ Len(ir') \in Nat
      /\ Len(ir') = Len(ir) + 1 /\ ir'[Len(ir) + 1] = i
  BY <1>1, <1>4, <1>5, Appended DEF IInv
<1>7. PICK n \in Nat : n = Len(ir) + 1
  BY <1>6
<1>8. InstructionTyped(n)'
  BY <1>4, <1>6, <1>7 DEF InstructionTyped
<1>9. IRTyped'
  BY <1>4, <1>5, <1>6, <1>7, <1>8, Emitted DEF IInv
<1>10. VariablesTyped'
  BY <1>1, <1>6, VariablesKept DEF IInv
<1>11. PICK o : o = RObject("String", "ptr", [kind |-> "reg", n |-> n])
  OBVIOUS
<1>12. o \in Objects /\ o.class = "String" /\ o.type = "ptr" /\ o.val = [kind |-> "reg", n |-> n]
  BY <1>7, <1>11 DEF RObject, Objects, Types, Vals
<1>13. ObjectTyped(o)'
  <2>1. (Gives(ir[n]) = "ptr")'
    BY <1>4, <1>6, <1>7 DEF Gives
  <2>2. ValTyped(o.val, "ptr", Len(ir))'
    BY <1>6, <1>7, <1>12, <2>1 DEF ValTyped
  <2> QED  BY <1>12, <2>2 DEF ObjectTyped, Type
<1>14. /\ results \in Seq(Objects) /\ results' = Append(results, o)
       /\ Len(results) = Len(results) - Takes(Item)
  BY <1>2, <1>7, <1>11 DEF str, push, reg, IInv, ResultsTyped
<1> QED  BY <1>1, <1>6, <1>9, <1>10, <1>12, <1>13, <1>14, Gave

LEMMA LvarKeeps ==
    ASSUME IInv, lvar
    PROVE  IInv'
<1>1. /\ status = "compiling" /\ todo # <<>> /\ first(<<>>) /\ UNCHANGED <<variables, status, machine>>
      /\ Item.do = "parse" /\ Item.sexpr.name \in DOMAIN variables
  BY DEF lvar, Parsing, Doing, compilerOnly
<1>2. Takes(Item) = 0
  BY <1>1, Enough, ItemShapes DEF IInv
<1>3. PICK x \in DOMAIN variables : x = Item.sexpr.name
  BY <1>1
<1>4. PICK i : i = [op |-> "load", name |-> x]
  OBVIOUS
<1>5. i \in Instructions /\ i.op = "load" /\ i.name = x
  BY <1>4 DEF IInv, VariablesTyped, Instructions
<1>6. ir' = Append(ir, i)
  BY <1>3, <1>4 DEF lvar, emit
<1>7. /\ Grows /\ Len(ir) \in Nat /\ Len(ir') \in Nat
      /\ Len(ir') = Len(ir) + 1 /\ ir'[Len(ir) + 1] = i
  BY <1>1, <1>5, <1>6, Appended DEF IInv
<1>8. PICK n \in Nat : n = Len(ir) + 1
  BY <1>7
<1>9. InstructionTyped(n)'
  <2>1. PICK j \in 1 .. Len(ir) : Stores(j, x)
    BY DEF IInv, VariablesTyped
  <2>2. Stores(j, x)' /\ j \in 1 .. n - 1
    BY <1>7, <1>8, <2>1 DEF Stores, Grows
  <2>3. LoadTyped(n)'
    BY <1>1, <1>5, <1>7, <1>8, <2>2 DEF LoadTyped
  <2> QED  BY <1>5, <1>7, <1>8, <2>3 DEF InstructionTyped
<1>10. IRTyped'
  BY <1>5, <1>6, <1>7, <1>8, <1>9, Emitted DEF IInv
<1>11. VariablesTyped'
  BY <1>1, <1>7, VariablesKept DEF IInv
<1>12. PICK var : var = variables[x]
  OBVIOUS
<1>13. var.class \in {"Num", "String"} /\ var.type \in Types /\ var.type = Type(var.class)
  BY <1>12, MethodTables DEF IInv, VariablesTyped
<1>14. PICK o : o = RObject(var.class, var.type, [kind |-> "reg", n |-> n])
  OBVIOUS
<1>15. o \in Objects /\ o.class = var.class /\ o.type = var.type /\ o.val = [kind |-> "reg", n |-> n]
  BY <1>8, <1>13, <1>14 DEF RObject, Objects, Vals
<1>16. ObjectTyped(o)'
  <2>1. (Gives(ir[n]) = var.type)'
    BY <1>1, <1>5, <1>7, <1>8, <1>12 DEF Gives
  <2>2. ValTyped(o.val, o.type, Len(ir))'
    BY <1>7, <1>8, <1>15, <2>1 DEF ValTyped
  <2> QED  BY <1>13, <1>15, <2>2 DEF ObjectTyped
<1>17. /\ results \in Seq(Objects) /\ results' = Append(results, o)
       /\ Len(results) = Len(results) - Takes(Item)
  BY <1>2, <1>3, <1>8, <1>12, <1>14 DEF lvar, push, reg, IInv, ResultsTyped
<1> QED  BY <1>1, <1>7, <1>10, <1>11, <1>15, <1>16, <1>17, Gave

LEMMA ParsesAll ==
    ASSUME NEW es \in Seq(Sexprs)
    PROVE  /\ parseAll(es) \in Seq(Items) /\ Len(parseAll(es)) = Len(es) /\ Len(es) \in Nat
           /\ \A k \in 1 .. Len(es) : Takes(parseAll(es)[k]) = 0
  BY ItemsMade DEF parseAll

LEMMA LasgnKeeps ==
    ASSUME IInv, lasgn
    PROVE  IInv'
<1>1. /\ Doing("parse") /\ status = "compiling" /\ todo # <<>>
      /\ UNCHANGED <<results, variables, ir, status, machine>> /\ Item.sexpr.type = "lasgn"
  BY DEF lasgn, Parsing, Doing, compilerOnly
<1>2. Item.sexpr \in Sexprs
  BY <1>1, Enough, ItemShapes DEF IInv, Doing
<1>3. Item.sexpr.val \in Sexprs /\ Item.sexpr.name \in Names
  BY <1>1, <1>2, SexprsAssumption DEF AreSexprs
<1>4. PICK e, i : e = parse(Item.sexpr.val) /\ i = [do |-> "assign", name |-> Item.sexpr.name]
  OBVIOUS
<1>5. e \in Items /\ Takes(e) = 0 /\ i \in Items /\ Takes(i) = 1
  BY <1>3, <1>4, ItemsMade
<1>6. PICK items : items = <<e, i>>
  OBVIOUS
<1>7. /\ items \in Seq(Items) /\ Len(items) > 0 /\ Takes(items[Len(items)]) = Len(items) - 1
      /\ \A k \in 1 .. Len(items) - 1 : Takes(items[k]) = 0
  BY <1>5, <1>6
<1>8. first(items)
  BY <1>4, <1>6 DEF lasgn
<1> QED  BY <1>1, <1>7, <1>8, Unfolds

LEMMA CallKeeps ==
    ASSUME IInv, call
    PROVE  IInv'
<1>1. /\ Doing("parse") /\ status = "compiling" /\ todo # <<>>
      /\ UNCHANGED <<results, variables, ir, status, machine>> /\ Item.sexpr.type = "call"
  BY DEF call, Parsing, Doing, compilerOnly
<1>2. Item.sexpr \in Sexprs
  BY <1>1, Enough, ItemShapes DEF IInv, Doing
<1>3. Item.sexpr.recv \in Sexprs /\ Item.sexpr.args \in Seq(Sexprs) /\ Item.sexpr.method \in Called
  BY <1>1, <1>2, SexprsAssumption DEF AreSexprs, Called
<1>4. PICK e, es, i : /\ e = parse(Item.sexpr.recv) /\ es = parseAll(Item.sexpr.args)
                      /\ i = [do |-> "call", method |-> Item.sexpr.method, n |-> Len(Item.sexpr.args)]
  OBVIOUS
<1>5. /\ e \in Items /\ Takes(e) = 0 /\ es \in Seq(Items) /\ Len(es) \in Nat
      /\ \A k \in 1 .. Len(es) : Takes(es[k]) = 0
      /\ i \in Items /\ Takes(i) = Len(es) + 1
  BY <1>3, <1>4, ItemsMade, ParsesAll
<1>6. PICK items : items = <<e>> \o es \o <<i>>
  OBVIOUS
<1>7. /\ items \in Seq(Items) /\ Len(items) = Len(es) + 2 /\ items[1] = e
      /\ items[Len(es) + 2] = i /\ \A k \in 1 .. Len(es) : items[k + 1] = es[k]
  BY <1>5, <1>6
<1>8. /\ Takes(items[Len(items)]) = Len(items) - 1
      /\ \A k \in 1 .. Len(items) - 1 : Takes(items[k]) = 0
  <2>1. ASSUME NEW k \in 1 .. Len(items) - 1 PROVE Takes(items[k]) = 0
    <3>1. k = 1 \/ (k - 1 \in 1 .. Len(es) /\ k = (k - 1) + 1)
      BY <1>5, <1>7
    <3> QED  BY <1>5, <1>7, <3>1
  <2> QED  BY <1>5, <1>7, <2>1
<1>9. first(items)
  BY <1>4, <1>6 DEF call
<1> QED  BY <1>1, <1>5, <1>7, <1>8, <1>9, Unfolds

LEMMA BlockKeeps ==
    ASSUME IInv, block
    PROVE  IInv'
<1>1. /\ Doing("parse") /\ status = "compiling" /\ todo # <<>>
      /\ UNCHANGED <<results, variables, ir, status, machine>> /\ Item.sexpr.type = "block"
  BY DEF block, Parsing, Doing, compilerOnly
<1>2. Item.sexpr \in Sexprs
  BY <1>1, Enough, ItemShapes DEF IInv, Doing
<1>3. Item.sexpr.body \in Seq(Sexprs)
  BY <1>1, <1>2, SexprsAssumption DEF AreSexprs
<1>4. PICK es, i : es = parseAll(Item.sexpr.body) /\ i = [do |-> "list", n |-> Len(Item.sexpr.body)]
  OBVIOUS
<1>5. /\ es \in Seq(Items) /\ Len(es) \in Nat /\ \A k \in 1 .. Len(es) : Takes(es[k]) = 0
      /\ i \in Items /\ Takes(i) = Len(es)
  BY <1>3, <1>4, ItemsMade, ParsesAll
<1>6. PICK items : items = es \o <<i>>
  OBVIOUS
<1>7. /\ items \in Seq(Items) /\ Len(items) = Len(es) + 1 /\ items[Len(es) + 1] = i
      /\ \A k \in 1 .. Len(es) : items[k] = es[k]
  BY <1>5, <1>6
<1>8. /\ Takes(items[Len(items)]) = Len(items) - 1
      /\ \A k \in 1 .. Len(items) - 1 : Takes(items[k]) = 0
  BY <1>5, <1>7
<1>9. first(items)
  BY <1>4, <1>6 DEF block
<1> QED  BY <1>1, <1>5, <1>7, <1>8, <1>9, Unfolds

\* The results an item of work leaves, and those it takes.
LEMMA Slices ==
    ASSUME IInv, NEW n \in Nat, n <= Len(results)
    PROVE  /\ below(n) \in Seq(Objects) /\ Len(below(n)) = Len(results) - n
           /\ \A k \in 1 .. Len(below(n)) : below(n)[k] = results[k]
           /\ operands(n) \in Seq(Objects) /\ Len(operands(n)) = n
           /\ \A k \in 1 .. n : ObjectTyped(operands(n)[k])
<1>1. results \in Seq(Objects) /\ Len(results) \in Nat
  BY DEF IInv, ResultsTyped
<1>2. PICK m \in Nat : m = Len(results) - n /\ m + n = Len(results)
  BY <1>1
<1>3. below(n) = SubSeq(results, 1, m) /\ operands(n) = SubSeq(results, m + 1, m + n)
  BY <1>1, <1>2 DEF below, operands
<1>4. \A k \in 1 .. m : results[k] \in Objects
  BY <1>1, <1>2
<1>5. \A k \in 1 .. n : m + k \in 1 .. Len(results) /\ results[m + k] \in Objects
  BY <1>1, <1>2
<1>6. below(n) = [k \in 1 .. m |-> results[k]]
  <2>1. SubSeq(results, 1, m) = [k \in 1 .. 1 + m - 1 |-> results[k + 1 - 1]]
    BY <1>1, <1>2
  <2> QED  BY <1>2, <1>3, <2>1
<1>7. operands(n) = [k \in 1 .. n |-> results[m + k]]
  <2>1. SubSeq(results, m + 1, m + n) = [k \in 1 .. n |-> results[m + k]]
    BY <1>1, <1>2
  <2> QED  BY <1>3, <2>1
<1>8. below(n) \in Seq(Objects) /\ Len(below(n)) = m
  <2>1. PICK b : b = [k \in 1 .. m |-> results[k]]
    OBVIOUS
  <2>2. b \in Seq(Objects) /\ Len(b) = m
    BY <1>4, <2>1
  <2> QED  BY <1>6, <2>1, <2>2
<1>9. operands(n) \in Seq(Objects) /\ Len(operands(n)) = n
  BY <1>5, <1>7, SMTT(30)
<1>10. ASSUME NEW k \in 1 .. n PROVE ObjectTyped(operands(n)[k])
  BY <1>5, <1>7 DEF IInv, ResultsTyped
<1> QED  BY <1>2, <1>6, <1>8, <1>9, <1>10

LEMMA ListKeeps ==
    ASSUME IInv, list
    PROVE  IInv'
<1>1. /\ status = "compiling" /\ todo # <<>> /\ first(<<>>) /\ UNCHANGED <<variables, ir, status, machine>>
      /\ Item.do = "list"
  BY DEF list, Doing, compilerOnly
<1>2. Item.n \in Nat /\ Takes(Item) = Item.n /\ Len(results) \in Nat /\ Item.n <= Len(results)
  BY <1>1, Enough, ItemShapes DEF IInv
<1>3. NoObject \in Objects /\ ObjectTyped(NoObject)'
  BY DEF Objects, ObjectTyped
<1>4. Grows /\ Len(ir') \in Nat /\ IRTyped'
  BY <1>1, Unemitted DEF IInv
<1>5. VariablesTyped'
  BY <1>1, <1>4, VariablesKept DEF IInv, IRTyped
<1>6. PICK p : p = below(Item.n)
  OBVIOUS
<1>7. /\ p \in Seq(Objects) /\ Len(p) = Len(results) - Item.n
      /\ \A k \in 1 .. Len(p) : p[k] = results[k]
  BY <1>2, <1>6, Slices
<1>8. results' = Append(p, NoObject)
  BY <1>6 DEF list
<1> QED  BY <1>1, <1>2, <1>3, <1>4, <1>5, <1>7, <1>8, Gave

LEMMA ValueTyped ==
    ASSUME IInv, Doing("assign")
    PROVE  /\ value \in Objects /\ ObjectTyped(value)
           /\ Item.name \in Names /\ Takes(Item) = 1 /\ Len(results) \in Nat /\ Len(results) > 0
<1>1. Item.name \in Names /\ Takes(Item) = 1 /\ Len(results) \in Nat /\ Len(results) > 0
  BY Enough, ItemShapes DEF IInv, Doing
<1> QED  BY <1>1 DEF IInv, ResultsTyped, value

LEMMA ObjectShapes ==
    ASSUME NEW o \in Objects
    PROVE  /\ o.class = "Array" => o = NoObject
           /\ o.class # "Array" => /\ o # NoObject /\ o.val \in Vals /\ o.type \in Types
                                   /\ o.class \in {"Num", "String", "Nil"}
  BY DEF Objects, NoObject

\* The variable an assignment sets has the type of its value.
LEMMA AssignVariables ==
    ASSUME IInv, assign
    PROVE  /\ Item.name \in DOMAIN variables' /\ Item.name \in Names
           /\ variables'[Item.name].type = value.type
           /\ DOMAIN variables' \subseteq Names
           /\ variables' \in [DOMAIN variables' -> [class : Classes, type : Types]]
           /\ \A x \in DOMAIN variables' : /\ variables'[x].type = Type(variables'[x].class)
                                           /\ x \in DOMAIN variables \/ x = Item.name
           /\ DOMAIN variables \subseteq DOMAIN variables'
           /\ \A x \in DOMAIN variables : variables'[x] = variables[x]
<1>1. PICK x, r : x = Item.name /\ r = [class |-> value.class, type |-> value.type]
  OBVIOUS
<1>2. Doing("assign") /\ value.class # "Array"
  BY DEF assign
<1>3. x \in Names /\ value.type = Type(value.class) /\ value.type \in Types
  BY <1>1, <1>2, ValueTyped, ObjectShapes DEF ObjectTyped
<1>4. variables' = [ y \in DOMAIN variables \cup {x} |-> IF y \in DOMAIN variables THEN variables[y] ELSE r ]
  BY <1>1 DEF assign
<1>5. \/ x \notin DOMAIN variables /\ value.class \in Classes
      \/ x \in DOMAIN variables /\ variables[x].type = value.type
  BY <1>1 DEF assign, IsNew
<1>6. /\ DOMAIN variables' = DOMAIN variables \cup {x}
      /\ \A y \in DOMAIN variables : variables'[y] = variables[y]
      /\ x \notin DOMAIN variables => variables'[x] = r
  BY <1>4
<1>7. r.type = value.type /\ r.class = value.class
  BY <1>1
<1>8. \A y \in DOMAIN variables : /\ y \in Names /\ variables[y] \in [class : Classes, type : Types]
                                  /\ variables[y].type = Type(variables[y].class)
  BY DEF IInv, VariablesTyped
<1>9. x \notin DOMAIN variables => r \in [class : Classes, type : Types] /\ r.type = Type(r.class)
  BY <1>1, <1>3, <1>5, <1>7
<1>10. \A y \in DOMAIN variables' : /\ y \in Names /\ variables'[y] \in [class : Classes, type : Types]
                                    /\ variables'[y].type = Type(variables'[y].class)
  BY <1>3, <1>6, <1>8, <1>9
<1>11. variables' \in [DOMAIN variables' -> [class : Classes, type : Types]]
  BY <1>4, <1>6, <1>10
<1>12. variables'[x].type = value.type
  BY <1>5, <1>6, <1>7
<1> QED  BY <1>1, <1>3, <1>6, <1>10, <1>11, <1>12

LEMMA AssignKeeps ==
    ASSUME IInv, assign
    PROVE  IInv'
<1>1. /\ status = "compiling" /\ todo # <<>> /\ todo' = Tail(todo)
      /\ UNCHANGED <<results, status, machine>> /\ Doing("assign") /\ value.class # "Array"
  BY DEF assign, Doing, compilerOnly, first, IInv, Balanced
<1>2. PICK x, v, t : x = Item.name /\ v = value.val /\ t = value.type
  OBVIOUS
<1>3. x \in Names /\ v \in Vals /\ ValTyped(v, t, Len(ir))
  BY <1>1, <1>2, ValueTyped, ObjectShapes DEF ObjectTyped
<1>4. PICK i : i = [op |-> "store", name |-> x, val |-> v]
  OBVIOUS
<1>5. i \in Instructions /\ i.op = "store" /\ i.name = x /\ i.val = v
  BY <1>3, <1>4 DEF Instructions
<1>6. ir' = Append(ir, i)
  BY <1>2, <1>4 DEF assign, emit
<1>7. PICK n \in Nat, m \in Nat : n = Len(ir) + 1 /\ m = Len(ir) /\ m = n - 1
  BY DEF IInv, IRTyped
<1>8. Len(ir') = n /\ ir'[n] = i /\ \A k \in 1 .. m : ir'[k] = ir[k]
  BY <1>5, <1>6, <1>7 DEF IInv, IRTyped
<1>9. Grows /\ Len(ir') \in Nat
  <2>1. Len(ir) <= Len(ir') /\ Len(ir') \in Nat
    BY <1>7, <1>8
  <2> QED  BY <1>7, <1>8, <2>1, AssignVariables DEF Grows
<1>10. InstructionTyped(n)'
  <2>1. m \in 0 .. Len(ir) /\ ValTyped(v, t, m)
    BY <1>3, <1>7
  <2>2. ValTyped(v, t, m)'
    BY <1>9, <2>1, ValKept DEF IInv
  <2>3. x \in DOMAIN variables' /\ variables'[x].type = t
    BY <1>2, AssignVariables
  <2>4. StoreTyped(n)'
    BY <1>5, <1>7, <1>8, <2>2, <2>3 DEF StoreTyped
  <2> QED  BY <1>5, <1>8, <2>4 DEF InstructionTyped
<1>11. IRTyped'
  BY <1>5, <1>6, <1>7, <1>9, <1>10, Emitted DEF IInv
<1>12. VariablesTyped'
  <2>1. ASSUME NEW y \in DOMAIN variables' PROVE \E j \in 1 .. n : Stores(j, y)'
    <3>1. CASE y = x
      BY <1>5, <1>7, <1>8, <3>1 DEF Stores
    <3>2. CASE y \in DOMAIN variables
      <4>1. PICK j \in 1 .. m : Stores(j, y)
        BY <1>7, <3>2 DEF IInv, VariablesTyped
      <4> QED  BY <1>7, <1>8, <4>1 DEF Stores
    <3> QED  BY <1>2, <3>1, <3>2, AssignVariables
  <2> QED  BY <1>8, <2>1, AssignVariables DEF VariablesTyped
<1>13. ResultsTyped'
  <2>1. ASSUME NEW k \in 1 .. Len(results) PROVE ObjectTyped(results[k])'
    <3>1. PICK q : q = results[k] /\ ObjectTyped(q)
      BY DEF IInv, ResultsTyped
    <3>2. ObjectTyped(q)'
      BY <1>9, <3>1, ObjectKept DEF IInv
    <3> QED  BY <1>1, <3>1, <3>2 DEF ObjectTyped
  <2> QED  BY <1>1, <2>1 DEF IInv, ResultsTyped
<1>14. Balanced'
  <2>1. Len(results') = Len(results) - Takes(Item) + 1
    BY <1>1, ValueTyped
  <2> QED  BY <1>1, <2>1, Taken DEF IInv
<1>15. MachineTyped'
  BY <1>1, <1>9, MachineKept DEF IInv
<1>16. StatusTyped'
  BY <1>1 DEF StatusTyped
<1> QED  BY <1>11, <1>12, <1>13, <1>14, <1>15, <1>16 DEF IInv

LEMMA InvokeKeeps ==
    ASSUME IInv, invoke
    PROVE  IInv'
<1>1. /\ status = "compiling" /\ todo # <<>> /\ first(<<>>) /\ UNCHANGED <<variables, status, machine>>
      /\ Item.do = "call"
  BY DEF invoke, Doing, compilerOnly
<1>2. Item.n \in Nat /\ Takes(Item) = Item.n + 1 /\ Len(results) \in Nat /\ Item.n + 1 <= Len(results)
  BY <1>1, Enough, ItemShapes DEF IInv
<1>arity. PICK z \in Nat : z = Item.n
  BY <1>2
<1>3. PICK ops, p : z = Item.n /\ ops = operands(Item.n + 1) /\ p = below(Item.n + 1)
  BY <1>arity
<1>4. /\ p \in Seq(Objects) /\ Len(p) = Len(results) - Takes(Item)
      /\ \A k \in 1 .. Len(p) : p[k] = results[k]
      /\ ops \in Seq(Objects) /\ Len(ops) = z + 1 /\ \A k \in 1 .. z + 1 : ObjectTyped(ops[k])
  <2>1. PICK n \in Nat : n = Item.n + 1
    BY <1>2
  <2>2. n <= Len(results) /\ ops = operands(n) /\ p = below(n) /\ n = Takes(Item) /\ n = z + 1
    BY <1>2, <1>3, <2>1
  <2> QED  BY <2>2, Slices
<1>5. PICK c, m, f : c = ops[1].class /\ m = Item.method /\ f = Methods[c][m]
  OBVIOUS
<1>6. /\ ops[1] = recv /\ Tail(ops) = args /\ Tail(ops) \in Seq(Objects) /\ Len(Tail(ops)) = z
      /\ \A k \in 1 .. z : k + 1 \in 1 .. z + 1 /\ Tail(ops)[k] = ops[k + 1]
  BY <1>3, <1>4 DEF recv, args
<1>7. /\ c \in Classes /\ m \in DOMAIN Methods[c] /\ \A k \in 1 .. z : ops[k + 1].class # "Array"
      /\ func = f
  <2>1. recv.class = c
    BY <1>5, <1>6
  <2>2. DOMAIN args = 1 .. z /\ \A k \in 1 .. z : args[k] = ops[k + 1]
    BY <1>6
  <2>3. recv.class \in Classes /\ \A k \in DOMAIN args : args[k].class # "Array"
    BY DEF invoke, AreObjects
  <2>4. Item.method \in DOMAIN Methods[recv.class] /\ func = Methods[recv.class][Item.method]
    BY DEF invoke, HasMethod, func
  <2> QED  BY <1>5, <2>1, <2>2, <2>3, <2>4
<1>8. f.args = [k \in 1 .. z |-> ops[k + 1].type]
  <2>1. f.args = [k \in DOMAIN args |-> args[k].type]
    BY <1>7 DEF invoke, Fits
  <2>2. DOMAIN args = 1 .. z
    BY <1>6
  <2> QED  BY <1>6, <2>1, <2>2
<1>9. /\ f.args \in Seq(Types) /\ f.type \in Types /\ f.class \in {"Num", "String", "Nil"}
      /\ f.type = Type(f.class) /\ c \in {"Num", "String"}
  BY <1>5, <1>7, MethodTables
<1>10. Len(f.args) = z /\ \A k \in 1 .. z : f.args[k] = ops[k + 1].type
  BY <1>8, <1>9
<1>11. PICK vals : vals = [k \in 1 .. z + 1 |-> ops[k].val]
  OBVIOUS
<1>12. ASSUME NEW k \in 1 .. z + 1
       PROVE  ops[k].class # "Array" /\ ops[k] # NoObject /\ ops[k].val \in Vals
  <2>1. k = 1 \/ (k - 1 \in 1 .. z /\ k = (k - 1) + 1)
    OBVIOUS
  <2>2. ops[k].class # "Array"
    BY <1>5, <1>7, <1>9, <2>1
  <2> QED  BY <1>4, <2>2, ObjectShapes
<1>13. vals \in Seq(Vals) /\ Len(vals) = z + 1 /\ \A k \in 1 .. z + 1 : vals[k] = ops[k].val
  BY <1>11, <1>12
<1>14. ASSUME NEW k \in 1 .. z + 1
       PROVE  ops[k].type = Type(ops[k].class) /\ ValTyped(vals[k], ops[k].type, Len(ir))
  BY <1>4, <1>12, <1>13 DEF ObjectTyped
<1>15. PICK i : i = [op |-> "call", func |-> <<c, m>>, args |-> vals]
  OBVIOUS
<1>16. i \in Instructions /\ i.op = "call" /\ i.func = <<c, m>> /\ i.args = vals
  BY <1>7, <1>13, <1>15 DEF Instructions, Funcs
<1>17. ir' = Append(ir, i)
  BY <1>3, <1>5, <1>6, <1>11, <1>15 DEF invoke, emit
<1>18. /\ Grows /\ Len(ir) \in Nat /\ Len(ir') \in Nat
       /\ Len(ir') = Len(ir) + 1 /\ ir'[Len(ir) + 1] = i
  BY <1>1, <1>16, <1>17, Appended DEF IInv
<1>19. PICK n \in Nat, l \in Nat : n = Len(ir) + 1 /\ l = Len(ir) /\ l = n - 1
  BY <1>18
<1>20. InstructionTyped(n)'
  <2>1. ASSUME NEW k \in 1 .. z + 1 PROVE ValTyped(vals[k], ops[k].type, l)'
    <3>1. l \in 0 .. Len(ir) /\ ValTyped(vals[k], ops[k].type, l)
      BY <1>14, <1>19
    <3> QED  BY <1>18, <3>1, ValKept DEF IInv
  <2>2. ops[1].type = Type(c) /\ ValTyped(vals[1], Type(c), l)'
    BY <1>5, <1>14, <2>1
  <2>3. ASSUME NEW k \in 1 .. z PROVE ValTyped(vals[k + 1], f.args[k], l)'
    <3>1. k + 1 \in 1 .. z + 1 /\ f.args[k] = ops[k + 1].type
      BY <1>10
    <3> QED  BY <2>1, <3>1
  <2>4. (ir[n].func[1] = c /\ ir[n].func[2] = m /\ ir[n].args = vals /\ ir[n].op = "call")'
    BY <1>16, <1>18, <1>19
  <2>5. CallTyped(n)'
    BY <1>5, <1>7, <1>10, <1>13, <1>19, <2>2, <2>3, <2>4 DEF CallTyped
  <2> QED  BY <2>4, <2>5 DEF InstructionTyped
<1>21. IRTyped'
  BY <1>16, <1>17, <1>18, <1>19, <1>20, Emitted DEF IInv
<1>22. VariablesTyped'
  BY <1>1, <1>18, VariablesKept DEF IInv
<1>23. PICK o : o = RObject(f.class, f.type, [kind |-> "reg", n |-> n])
  OBVIOUS
<1>24. o \in Objects /\ o.class = f.class /\ o.type = f.type /\ o.val = [kind |-> "reg", n |-> n]
  BY <1>9, <1>19, <1>23 DEF RObject, Objects, Vals
<1>25. ObjectTyped(o)'
  <2>1. (Gives(ir[n]) = f.type)'
    BY <1>5, <1>16, <1>18, <1>19 DEF Gives
  <2>2. ValTyped(o.val, o.type, Len(ir))'
    BY <1>18, <1>19, <1>24, <2>1 DEF ValTyped
  <2> QED  BY <1>9, <1>24, <2>2 DEF ObjectTyped
<1>26. results' = Append(p, o)
  BY <1>3, <1>7, <1>19, <1>23 DEF invoke, reg
<1> QED  BY <1>1, <1>4, <1>18, <1>21, <1>22, <1>24, <1>25, <1>26, Gave

-----------------------------------------------------------------------------
(* The invariant is kept where compilation ends, and when the program runs. *)

LEMMA CompilerKept ==
    ASSUME VariablesTyped, IRTyped, ResultsTyped, Balanced, UNCHANGED compiler
    PROVE  VariablesTyped' /\ IRTyped' /\ ResultsTyped' /\ Balanced'
<1>1. todo' = todo /\ results' = results /\ variables' = variables /\ ir' = ir
  BY DEF compiler
<1>2. Grows /\ Len(ir') \in Nat /\ Len(ir) \in Nat /\ IRTyped'
  BY <1>1, Unemitted DEF IRTyped
<1>3. VariablesTyped'
  BY <1>1, <1>2, VariablesKept
<1>4. ASSUME NEW k \in 1 .. Len(results) PROVE ObjectTyped(results[k])'
  <2>1. PICK q : q = results[k] /\ ObjectTyped(q)
    BY DEF ResultsTyped
  <2>2. ObjectTyped(q)'
    BY <1>2, <2>1, ObjectKept
  <2> QED  BY <1>1, <2>1, <2>2 DEF ObjectTyped
<1>5. ResultsTyped'
  BY <1>1, <1>4 DEF ResultsTyped
<1>6. Balanced'
  BY <1>1 DEF Balanced, Depths
<1> QED  BY <1>2, <1>3, <1>5, <1>6

\* Nothing changes but the status.
LEMMA StatusKeeps ==
    ASSUME IInv, UNCHANGED <<compiler, machine>>, StatusTyped'
    PROVE  IInv'
<1>1. VariablesTyped' /\ IRTyped' /\ ResultsTyped' /\ Balanced'
  BY CompilerKept DEF IInv
<1>2. MachineTyped'
  <2>1. Grows /\ Len(ir') \in Nat
    BY Unemitted DEF IInv, compiler
  <2> QED  BY <2>1, MachineKept DEF IInv
<1> QED  BY <1>1, <1>2 DEF IInv

LEMMA EndsKeep ==
    ASSUME IInv, raises \/ crashes \/ malforms \/ finish \/ runReturn
    PROVE  IInv'
<1>1. CASE raises \/ crashes \/ malforms
  <2>1. UNCHANGED <<compiler, machine>> /\ StatusTyped'
    BY <1>1 DEF raises, crashes, malforms, Stop, StatusTyped
  <2> QED  BY <2>1, StatusKeeps
<1>2. CASE finish
  <2>1. UNCHANGED <<compiler, machine>> /\ todo' = <<>>
    BY <1>2 DEF finish, compiler
  <2>2. status' \in {"unlinked", "running"}
    BY <1>2 DEF finish
  <2>3. StatusTyped'
    BY <2>1, <2>2 DEF StatusTyped
  <2> QED  BY <2>1, <2>3, StatusKeeps
<1>3. CASE runReturn
  <2>1. UNCHANGED <<compiler, machine>> /\ todo' = todo /\ todo = <<>> /\ status' = "finished"
    BY <1>3 DEF runReturn, compiler, IInv, StatusTyped
  <2>2. StatusTyped'
    BY <2>1 DEF StatusTyped
  <2> QED  BY <2>1, <2>2, StatusKeeps
<1> QED  BY <1>1, <1>2, <1>3

\* A value, and what it is known to be.
LEMMA OperandTyped ==
    ASSUME IInv, NEW v \in Vals, NEW t, ValTyped(v, t, Len(regs))
    PROVE  operand(v) \in Values /\ operand(v).type = t
<1>1. CASE v.kind = "const" /\ t = "int"
  BY <1>1 DEF operand, int, Vals, Values, Ints
<1>2. CASE v.kind = "reg" /\ v.n \in 1 .. Len(regs) /\ t = Gives(ir[v.n])
  BY <1>2 DEF operand, IInv, MachineTyped
<1> QED  BY <1>1, <1>2 DEF ValTyped

LEMMA ValueShapes ==
    ASSUME NEW v \in Values
    PROVE  /\ v.type \in Types /\ v # Unset
           /\ v.type = "int" => v.n \in Int
           /\ v.type = "ptr" => v.text \in Texts /\ v.len \in Int \cup {Unset}
  BY UnsetAssumption DEF Values, Ints, Ptrs, Types

LEMMA Member ==
    ASSUME NEW S, NEW q \in Seq(S), NEW j \in 1 .. Len(q)
    PROVE  q[j] \in S
  OBVIOUS

\* The members of a sequence one longer than another: the first, and those after it.
LEMMA FirstAndRest ==
    ASSUME NEW S, NEW T, NEW q \in Seq(S), NEW ts \in Seq(T), Len(q) = Len(ts) + 1
    PROVE  q[1] \in S /\ \A j \in 1 .. Len(ts) : q[j + 1] \in S
<1>1. PICK n \in Nat : n = Len(ts)
  OBVIOUS
<1>2. Len(q) = n + 1
  BY <1>1
<1> QED  BY <1>1, <1>2, Member

\* The instruction that runs next.
LEMMA NextInstruction ==
    ASSUME IInv, Len(regs) < Len(ir)
    PROVE  \E k \in 1 .. Len(ir) : /\ k - 1 = Len(regs) /\ k = Len(regs) + 1 /\ ins = ir[k]
                                   /\ ir[k] \in Instructions /\ InstructionTyped(k)
<1>1. Len(regs) \in Nat /\ Len(ir) \in Nat
  BY DEF IInv, IRTyped, MachineTyped
<1>2. PICK k \in 1 .. Len(ir) : k - 1 = Len(regs) /\ k = Len(regs) + 1
  BY <1>1
<1>3. ins = ir[k]
  BY <1>2 DEF ins
<1> QED  BY <1>2, <1>3 DEF IInv, IRTyped

LEMMA CallOperands ==
    ASSUME IInv, Len(regs) < Len(ir), ins.op = "call", NEW r, r = Methods[ins.func[1]][ins.func[2]]
    PROVE  /\ ins.func[1] \in Classes /\ ins.func[2] \in DOMAIN Methods[ins.func[1]]
           /\ Len(ins.args) = Len(r.args) + 1 /\ r.args \in Seq(Types)
           /\ a(1) \in Values /\ a(1).type = Type(ins.func[1])
           /\ \A j \in 1 .. Len(r.args) : a(j + 1) \in Values /\ a(j + 1).type = r.args[j]
<1>1. PICK k \in 1 .. Len(ir) : /\ k - 1 = Len(regs) /\ k = Len(regs) + 1 /\ ins = ir[k]
                                /\ ir[k] \in Instructions /\ InstructionTyped(k)
  BY NextInstruction
<1>2. CallTyped(k) /\ ins.func[1] \in Classes /\ ins.args \in Seq(Vals)
  BY <1>1, InstructionShapes DEF InstructionTyped
<1>3. /\ ins.func[2] \in DOMAIN Methods[ins.func[1]] /\ Len(ins.args) = Len(r.args) + 1
      /\ ValTyped(ins.args[1], Type(ins.func[1]), Len(regs))
      /\ \A j \in 1 .. Len(r.args) : ValTyped(ins.args[j + 1], r.args[j], Len(regs))
  BY <1>1, <1>2 DEF CallTyped
<1>4. r.args \in Seq(Types)
  BY <1>2, <1>3, MethodTables
<1>5. ins.args[1] \in Vals /\ \A j \in 1 .. Len(r.args) : ins.args[j + 1] \in Vals
  <2>1. PICK ts \in Seq(Types) : ts = r.args
    BY <1>4
  <2>2. PICK q \in Seq(Vals) : q = ins.args
    BY <1>2
  <2>3. Len(q) = Len(ts) + 1
    BY <1>3, <2>1, <2>2
  <2>4. q[1] \in Vals /\ \A j \in 1 .. Len(ts) : q[j + 1] \in Vals
    BY <2>3, FirstAndRest
  <2> QED  BY <2>1, <2>2, <2>4
<1>6. a(1) \in Values /\ a(1).type = Type(ins.func[1])
  BY <1>3, <1>5, OperandTyped DEF a
<1>7. ASSUME NEW j \in 1 .. Len(r.args)
      PROVE  a(j + 1) \in Values /\ a(j + 1).type = r.args[j]
  <2>1. ins.args[j + 1] \in Vals
    BY <1>5
  <2> QED  BY <1>3, <2>1, OperandTyped DEF a
<1> QED  BY <1>2, <1>3, <1>4, <1>6, <1>7

\* An instruction gives a value of its type, and a store writes one.
LEMMA Ran ==
    ASSUME IInv, status = "running", Len(regs) < Len(ir), NEW v \in Values, v.type = Gives(ins), gives(v),
           ins.op # "store" => mem' = mem,
           ins.op = "store" => mem' = [mem EXCEPT ![ins.name] = v]
    PROVE  IInv'
<1>1. /\ UNCHANGED compiler /\ UNCHANGED status
      /\ variables' = variables /\ ir' = ir /\ regs' = Append(regs, v) /\ todo' = todo
  BY DEF gives, compiler
<1>2. VariablesTyped' /\ IRTyped' /\ ResultsTyped' /\ Balanced'
  BY <1>1, CompilerKept DEF IInv
<1>3. PICK k \in 1 .. Len(ir) : /\ k - 1 = Len(regs) /\ k = Len(regs) + 1 /\ ins = ir[k]
                                /\ ir[k] \in Instructions /\ InstructionTyped(k)
  BY NextInstruction
<1>4. /\ regs \in Seq(Values) /\ regs' \in Seq(Values) /\ Len(regs') = k /\ regs'[k] = v
      /\ \A j \in 1 .. k - 1 : regs'[j] = regs[j]
  BY <1>1, <1>3 DEF IInv, MachineTyped
<1>5. k \in Nat /\ \A j \in 1 .. k : j = k \/ j \in 1 .. k - 1
  BY DEF IInv, IRTyped
<1>6. ASSUME NEW j \in 1 .. k PROVE (regs[j].type = Gives(ir[j]))'
  <2>1. CASE j = k
    BY <1>1, <1>3, <1>4, <2>1 DEF Gives
  <2>2. CASE j \in 1 .. k - 1
    <3>1. regs[j].type = Gives(ir[j])
      BY <1>3, <2>2 DEF IInv, MachineTyped
    <3> QED  BY <1>1, <1>4, <2>2, <3>1 DEF Gives
  <2> QED  BY <1>5, <2>1, <2>2
<1>7. CASE ins.op # "store"
  <2>1. mem' = mem
    BY <1>7
  <2>2. \A j \in 1 .. k : ir'[j].op = "store" => mem'[ir'[j].name] # Unset
    BY <1>1, <1>3, <1>5, <1>7, <2>1 DEF IInv, MachineTyped
  <2>3. /\ mem' \in [Names -> Values \cup {Unset}]
        /\ \A x \in Names : mem'[x] # Unset => x \in DOMAIN variables' /\ mem'[x].type = variables'[x].type
    BY <1>1, <2>1 DEF IInv, MachineTyped
  <2>4. MachineTyped'
    BY <1>1, <1>4, <1>6, <2>2, <2>3 DEF MachineTyped, IInv
  <2> QED  BY <1>1, <1>2, <2>4 DEF IInv, StatusTyped
<1>8. CASE ins.op = "store"
  <2>1. PICK x \in Names : x = ins.name /\ x \in DOMAIN variables
    BY <1>3, <1>8, InstructionShapes DEF InstructionTyped, StoreTyped
  <2>2. v.type = variables[x].type
    BY <1>8, <2>1 DEF Gives
  <2>3. mem \in [Names -> Values \cup {Unset}] /\ mem' = [mem EXCEPT ![x] = v] /\ v # Unset
    BY <1>8, <2>1, ValueShapes DEF IInv, MachineTyped
  <2>4. mem' \in [Names -> Values \cup {Unset}] /\ mem'[x] = v /\ \A y \in Names : y # x => mem'[y] = mem[y]
    BY <2>3
  <2>5. \A j \in 1 .. k : ir'[j].op = "store" => mem'[ir'[j].name] # Unset
    <3>1. ASSUME NEW j \in 1 .. k - 1, ir[j].op = "store" PROVE mem'[ir[j].name] # Unset
      <4>1. ir[j].name \in Names /\ mem[ir[j].name] # Unset
        BY <1>3, <1>5, <3>1, InstructionShapes DEF IInv, MachineTyped, IRTyped
      <4> QED  BY <2>3, <2>4, <4>1
    <3> QED  BY <1>1, <1>3, <1>5, <2>1, <2>3, <2>4, <3>1
  <2>6. \A y \in Names : mem'[y] # Unset => y \in DOMAIN variables' /\ mem'[y].type = variables'[y].type
    BY <1>1, <2>1, <2>2, <2>4 DEF IInv, MachineTyped
  <2>7. MachineTyped'
    BY <1>1, <1>4, <1>6, <2>4, <2>5, <2>6 DEF MachineTyped, IInv
  <2> QED  BY <1>1, <1>2, <2>7 DEF IInv, StatusTyped
<1> QED  BY <1>7, <1>8

\* A load finds the variable written.
LEMMA LoadOperand ==
    ASSUME IInv, Len(regs) < Len(ir), ins.op = "load"
    PROVE  mem[ins.name] \in Values /\ mem[ins.name] # Unset /\ mem[ins.name].type = Gives(ins)
<1>1. PICK k \in 1 .. Len(ir) : /\ k - 1 = Len(regs) /\ k = Len(regs) + 1 /\ ins = ir[k]
                                /\ ir[k] \in Instructions /\ InstructionTyped(k)
  BY NextInstruction
<1>2. PICK x : x = ins.name
  OBVIOUS
<1>3. x \in Names /\ x \in DOMAIN variables
  BY <1>1, <1>2, InstructionShapes DEF InstructionTyped, LoadTyped
<1>4. PICK j \in 1 .. Len(regs) : ir[j].op = "store" /\ ir[j].name = x
  BY <1>1, <1>2 DEF InstructionTyped, LoadTyped, Stores
<1>5. mem[x] # Unset
  BY <1>4 DEF IInv, MachineTyped
<1>6. mem[x] \in Values /\ mem[x].type = variables[x].type
  BY <1>3, <1>5 DEF IInv, MachineTyped
<1> QED  BY <1>2, <1>5, <1>6 DEF Gives

LEMMA StoreOperand ==
    ASSUME IInv, Len(regs) < Len(ir), ins.op = "store"
    PROVE  operand(ins.val) \in Values /\ operand(ins.val).type = Gives(ins)
<1>1. PICK k \in 1 .. Len(ir) : /\ k - 1 = Len(regs) /\ k = Len(regs) + 1 /\ ins = ir[k]
                                /\ ir[k] \in Instructions /\ InstructionTyped(k)
  BY NextInstruction
<1>2. PICK v, t : v = ins.val /\ t = variables[ins.name].type
  OBVIOUS
<1>3. v \in Vals /\ ValTyped(v, t, Len(regs))
  BY <1>1, <1>2, InstructionShapes DEF InstructionTyped, StoreTyped
<1>4. operand(v) \in Values /\ operand(v).type = t
  BY <1>3, OperandTyped
<1> QED  BY <1>2, <1>4 DEF Gives

\* The rows of the tables for the functions with a body.
LEMMA Rows ==
    /\ Methods["Num"]["plus"].type = "int" /\ Methods["Num"]["plus"].args = <<"int">>
    /\ Methods["Num"]["minus"].type = "int" /\ Methods["Num"]["minus"].args = <<"int">>
    /\ Methods["Num"]["to_s"].type = "ptr"
    /\ Methods["String"]["length"].type = "int"
    /\ Methods["String"]["puts"].type = "int"
  BY DEF Methods

LEMMA Wrapped ==
    ASSUME NEW n \in Int
    PROVE  int(wrap(n)) \in Values /\ int(wrap(n)).type = "int"
<1>1. 2 * IntLimit \in Nat /\ 2 * IntLimit > 0
  BY IntLimitAssumption
<1>2. (n + IntLimit) % (2 * IntLimit) \in Int
  BY <1>1, IntLimitAssumption
<1>3. wrap(n) \in Int
  BY <1>2, IntLimitAssumption DEF wrap
<1> QED  BY <1>3 DEF int, Values, Ints

LEMMA MadePointer ==
    ASSUME NEW t \in Texts, NEW n \in Int \cup {Unset}
    PROVE  ptr(t, n) \in Values /\ ptr(t, n).type = "ptr"
  BY DEF ptr, Values, Ptrs

LEMMA ArithmeticKeeps ==
    ASSUME IInv, runPlus \/ runMinus
    PROVE  IInv'
<1>1. PICK m, n : /\ m \in {"plus", "minus"} /\ Calls("Num", m)
                  /\ n = IF m = "plus" THEN a(1).n + a(2).n ELSE a(1).n - a(2).n
                  /\ gives(int(wrap(n))) /\ pure
  BY DEF runPlus, runMinus
<1>2. /\ status = "running" /\ Len(regs) < Len(ir) /\ ins.op = "call"
      /\ ins.func = <<"Num", m>> /\ ins.func[1] = "Num" /\ ins.func[2] = m
  BY <1>1 DEF Calls, Executing
<1>3. PICK r : r = Methods[ins.func[1]][ins.func[2]]
  OBVIOUS
<1>4. r.type = "int" /\ r.args = <<"int">>
  BY <1>1, <1>2, <1>3, Rows
<1>5. a(1) \in Values /\ a(1).type = "int"
  BY <1>2, <1>3, CallOperands DEF Type
<1>6. a(2) \in Values /\ a(2).type = "int"
  <2>1. Len(r.args) = 1 /\ 1 \in 1 .. 1 /\ 1 + 1 = 2 /\ r.args[1] = "int"
    BY <1>4
  <2>2. a(1 + 1) \in Values /\ a(1 + 1).type = r.args[1]
    BY <1>2, <1>3, <2>1, CallOperands
  <2> QED  BY <2>1, <2>2
<1>7. n \in Int
  BY <1>1, <1>5, <1>6, ValueShapes
<1>8. PICK v : v = int(wrap(n))
  OBVIOUS
<1>9. v \in Values /\ v.type = Gives(ins)
  BY <1>2, <1>3, <1>4, <1>7, <1>8, Wrapped DEF Gives
<1> QED  BY <1>1, <1>2, <1>8, <1>9, Ran DEF pure

LEMMA CallsKeep ==
    ASSUME IInv, runToS \/ runLength \/ runPuts
    PROVE  IInv'
<1>1. CASE runToS
  <2>1. /\ status = "running" /\ Len(regs) < Len(ir) /\ ins.op = "call" /\ mem' = mem
        /\ ins.func[1] = "Num" /\ ins.func[2] = "to_s"
    BY <1>1 DEF runToS, Calls, Executing, pure
  <2>2. a(1) \in Values /\ a(1).type = "int"
    BY <2>1, CallOperands DEF Type
  <2>3. PICK v : v = ptr([dec |-> a(1).n], Unset)
    OBVIOUS
  <2>4. v \in Values /\ v.type = "ptr"
    BY <2>2, <2>3, ValueShapes, MadePointer DEF Texts
  <2>5. v.type = Gives(ins) /\ gives(v)
    BY <1>1, <2>1, <2>3, <2>4, Rows DEF Gives, runToS
  <2> QED  BY <2>1, <2>4, <2>5, Ran
<1>2. CASE runLength
  <2>1. /\ status = "running" /\ Len(regs) < Len(ir) /\ ins.op = "call" /\ mem' = mem
        /\ ins.func[1] = "String" /\ ins.func[2] = "length"
    BY <1>2 DEF runLength, Calls, Executing
  <2>2. a(1) \in Values /\ a(1).type = "ptr"
    BY <2>1, CallOperands DEF Type
  <2>3. PICK n : /\ n \in IF a(1).len = Unset THEN {-IntLimit, 0, IntLimit - 1} ELSE {a(1).len}
                 /\ gives(int(n))
    BY <1>2 DEF runLength
  <2>4. n \in Int
    BY <2>2, <2>3, ValueShapes, IntLimitAssumption
  <2>5. PICK v : v = int(n)
    OBVIOUS
  <2>6. v \in Values /\ v.type = "int"
    BY <2>4, <2>5 DEF int, Values, Ints
  <2>7. v.type = Gives(ins) /\ gives(v)
    BY <2>1, <2>3, <2>5, <2>6, Rows DEF Gives
  <2> QED  BY <2>1, <2>6, <2>7, Ran
<1>3. CASE runPuts
  <2>1. /\ status = "running" /\ Len(regs) < Len(ir) /\ ins.op = "call" /\ mem' = mem
        /\ ins.func[1] = "String" /\ ins.func[2] = "puts"
    BY <1>3 DEF runPuts, Calls, Executing
  <2>2. PICK v : v = int(0)
    OBVIOUS
  <2>3. v \in Values /\ v.type = "int"
    BY <2>2 DEF int, Values, Ints
  <2>4. v.type = Gives(ins) /\ gives(v)
    BY <1>3, <2>1, <2>2, <2>3, Rows DEF Gives, runPuts
  <2> QED  BY <2>1, <2>3, <2>4, Ran
<1> QED  BY <1>1, <1>2, <1>3

LEMMA MemoryKeeps ==
    ASSUME IInv, runStr \/ runLoad \/ runStore
    PROVE  IInv'
<1>1. CASE runStr
  <2>1. status = "running" /\ Len(regs) < Len(ir) /\ ins.op = "str" /\ mem' = mem
    BY <1>1 DEF runStr, Executing, pure
  <2>2. ins.text \in DOMAIN StrLen
    BY <2>1, NextInstruction, InstructionShapes
  <2>3. PICK v : v = ptr([lit |-> ins.text], StrLen[ins.text])
    OBVIOUS
  <2>4. v \in Values /\ v.type = "ptr"
    <3>1. StrLen[ins.text] \in Int
      BY <2>2, StrLenAssumption
    <3> QED  BY <2>2, <2>3, <3>1, MadePointer DEF Texts
  <2>5. v.type = Gives(ins) /\ gives(v)
    BY <1>1, <2>1, <2>3, <2>4 DEF Gives, runStr
  <2> QED  BY <2>1, <2>4, <2>5, Ran
<1>2. CASE runLoad
  <2>1. status = "running" /\ Len(regs) < Len(ir) /\ ins.op = "load" /\ mem' = mem
    BY <1>2 DEF runLoad, Executing
  <2>2. PICK v : v = mem[ins.name]
    OBVIOUS
  <2>3. v \in Values /\ v.type = Gives(ins) /\ gives(v)
    BY <1>2, <2>1, <2>2, LoadOperand DEF runLoad
  <2> QED  BY <2>1, <2>3, Ran
<1>3. CASE runStore
  <2>1. status = "running" /\ Len(regs) < Len(ir) /\ ins.op = "store"
    BY <1>3 DEF runStore, Executing
  <2>2. PICK v : v = operand(ins.val)
    OBVIOUS
  <2>3. v \in Values /\ v.type = Gives(ins) /\ gives(v) /\ mem' = [mem EXCEPT ![ins.name] = v]
    BY <1>3, <2>1, <2>2, StoreOperand DEF runStore
  <2> QED  BY <2>1, <2>3, Ran
<1> QED  BY <1>1, <1>2, <1>3

LEMMA NextIInv ==
    ASSUME IInv, [Next]_vars
    PROVE  IInv'
<1>1. CASE Compile
  BY <1>1, LitKeeps, StrKeeps, LvarKeeps, LasgnKeeps, CallKeeps, BlockKeeps, ListKeeps, AssignKeeps,
     InvokeKeeps DEF Compile
<1>2. CASE Give
  BY <1>2, EndsKeep DEF Give
<1>3. CASE Run
  BY <1>3, MemoryKeeps, ArithmeticKeeps, CallsKeep, EndsKeep DEF Run
<1>4. CASE Finished \/ UNCHANGED vars
  <2>1. UNCHANGED <<compiler, machine>> /\ status' = status
    BY <1>4 DEF Finished, vars
  <2>2. StatusTyped'
    BY <2>1 DEF IInv, StatusTyped, compiler
  <2> QED  BY <2>1, <2>2, StatusKeeps
<1> QED  BY <1>1, <1>2, <1>3, <1>4 DEF Next

LEMMA Invariance == Spec => []IInv
<1>1. Init => IInv
  BY InitIInv
<1>2. IInv /\ [Next]_vars => IInv'
  BY NextIInv
<1> QED  BY <1>1, <1>2, PTL DEF Spec

-----------------------------------------------------------------------------
(* The properties.                                                         *)

\* parse_sexpr leaves one value for every operand and every program, and an
\* instruction uses the results of instructions before it.
THEOREM RecursionBalanced == Spec => []TypeOK
<1>1. ASSUME IInv PROVE TypeOK
  <2>1. /\ status \in {"compiling", "raised", "crashed", "malformed", "unlinked", "running", "finished"}
        /\ DOMAIN variables \subseteq Names /\ Len(regs) <= Len(ir)
    BY <1>1 DEF IInv, StatusTyped, VariablesTyped, MachineTyped
  <2>2. ASSUME todo # <<>>
        PROVE  Len(results) >= CASE Item.do = "call" -> Item.n + 1
                                 [] Item.do = "assign" -> 1
                                 [] Item.do = "list" -> Item.n
                                 [] OTHER -> 0
    <3>1. Item \in Items /\ Len(results) \in Nat /\ Takes(Item) <= Len(results)
      BY <1>1, <2>2, Enough DEF IInv
    <3> QED  BY <3>1, ItemShapes
  <2>3. ASSUME todo = <<>> PROVE Len(results) = 1
    <3>1. PICK d \in [1 .. Len(todo) + 1 -> Nat] : Depths(d)
      BY <1>1 DEF IInv, Balanced
    <3>2. Len(todo) + 1 = 1
      BY <2>3
    <3> QED  BY <3>1, <3>2 DEF Depths
  <2>4. ASSUME NEW k \in DOMAIN ir, ir[k].op = "call", NEW j \in DOMAIN ir[k].args, ir[k].args[j].kind = "reg"
        PROVE  ir[k].args[j].n < k
    <3>1. k \in 1 .. Len(ir) /\ k \in Nat /\ ir[k] \in Instructions /\ CallTyped(k)
      BY <1>1, <2>4 DEF IInv, IRTyped, InstructionTyped
    <3>2. PICK r : r = Methods[ir[k].func[1]][ir[k].func[2]]
      OBVIOUS
    <3>3. /\ r.args \in Seq(Types) /\ ir[k].args \in Seq(Vals) /\ Len(ir[k].args) = Len(r.args) + 1
          /\ ValTyped(ir[k].args[1], Type(ir[k].func[1]), k - 1)
          /\ \A i \in 1 .. Len(r.args) : ValTyped(ir[k].args[i + 1], r.args[i], k - 1)
      BY <2>4, <3>1, <3>2, InstructionShapes, MethodTables DEF CallTyped
    <3>4. j = 1 \/ (j - 1 \in 1 .. Len(r.args) /\ j = (j - 1) + 1)
      BY <3>3
    <3>5. ir[k].args[j].n \in 1 .. k - 1
      BY <2>4, <3>3, <3>4 DEF ValTyped
    <3> QED  BY <3>1, <3>5
  <2> QED  BY <1>1, <2>1, <2>2, <2>3, <2>4 DEF TypeOK, IInv, StatusTyped
<1> QED  BY <1>1, Invariance, PTL

\* The static class parse_sexpr gives an expression is that of its value: a
\* call is given what its function takes, and a variable holds what its
\* alloca is for.
THEOREM StaticClasses == Spec => []ClassesSound
<1>1. ASSUME IInv PROVE ClassesSound
  <2>1. ASSUME Len(regs) < Len(ir), ins.op = "call"
        PROVE  /\ a(1).type = IF ins.func[1] = "String" THEN "ptr" ELSE "int"
               /\ [k \in 1 .. Len(ins.args) - 1 |-> a(k + 1).type] = Methods[ins.func[1]][ins.func[2]].args
    <3>1. PICK r : r = Methods[ins.func[1]][ins.func[2]]
      OBVIOUS
    <3>2. /\ a(1).type = Type(ins.func[1]) /\ Len(ins.args) = Len(r.args) + 1 /\ r.args \in Seq(Types)
          /\ \A j \in 1 .. Len(r.args) : a(j + 1).type = r.args[j]
      BY <1>1, <2>1, <3>1, CallOperands
    <3>3. Len(ins.args) - 1 = Len(r.args) /\ r.args = [j \in 1 .. Len(r.args) |-> r.args[j]]
      BY <3>2
    <3> QED  BY <3>1, <3>2, <3>3 DEF Type
  <2>2. ASSUME NEW x \in DOMAIN variables, mem[x] # Unset
        PROVE  mem[x].type = IF variables[x].class = "String" THEN "ptr" ELSE "int"
    BY <1>1, <2>2 DEF IInv, VariablesTyped, MachineTyped, Type
  <2> QED  BY <2>1, <2>2 DEF ClassesSound
<1> QED  BY <1>1, Invariance, PTL

\* The compiled program reads no variable before it has written it.
THEOREM WritesFirst == Spec => []SetBeforeRead
<1>1. ASSUME IInv PROVE SetBeforeRead
  BY <1>1, LoadOperand DEF SetBeforeRead
<1> QED  BY <1>1, Invariance, PTL

-----------------------------------------------------------------------------
(* Evaluation in the order of todo.  A point is the values of the results  *)
(* and a state; each item of work leads from a point to another.           *)

\* The n values at the end of p give way to v.
Replaced(p, q, n, v) ==
    /\ n <= Len(p) /\ Len(q) = Len(p) - n + 1 /\ q[Len(q)] = v
    /\ \A k \in 1 .. Len(p) - n : q[k] = p[k]

Points(V, E) == [stack : Seq(V), st : E]

\* Each item of work is a step of L.
Chain(c, T, L) ==
    /\ c \in [1 .. Len(todo) + 1 -> T]
    /\ \A k \in 1 .. Len(todo) : <<todo[k], c[k], c[k + 1]>> \in L

\* After a step there is a chain from x to where c leads.
Leads(c, x, T, L) == \E e : Chain(e, T, L)' /\ e[1] = x /\ e[Len(todo') + 1] = c[Len(todo) + 1]

Links(items, f, T, L) ==
    /\ f \in [1 .. Len(items) + 1 -> T]
    /\ \A k \in 1 .. Len(items) : <<items[k], f[k], f[k + 1]>> \in L

LEMMA ChainTaken ==
    ASSUME NEW T, NEW L, NEW c, Chain(c, T, L), todo \in Seq(Items), todo # <<>>, todo' = Tail(todo)
    PROVE  Leads(c, c[2], T, L)
<1>1. PICK n \in Nat : n = Len(todo) /\ n > 0
  OBVIOUS
<1>2. Len(todo') = n - 1 /\ \A k \in 1 .. n - 1 : todo'[k] = todo[k + 1]
  BY <1>1
<1>3. c \in [1 .. n + 1 -> T] /\ \A k \in 1 .. n : <<todo[k], c[k], c[k + 1]>> \in L
  BY <1>1 DEF Chain
<1>4. PICK e : e = [k \in 1 .. n |-> c[k + 1]]
  OBVIOUS
<1>5. e \in [1 .. n -> T] /\ \A k \in 1 .. n : e[k] = c[k + 1]
  BY <1>3, <1>4
<1>6. \A k \in 1 .. n - 1 : <<todo'[k], e[k], e[k + 1]>> \in L
  <2>1. ASSUME NEW k \in 1 .. n - 1 PROVE <<todo'[k], e[k], e[k + 1]>> \in L
    <3>1. k \in 1 .. n /\ k + 1 \in 1 .. n
      BY <1>1
    <3>2. e[k] = c[k + 1] /\ e[k + 1] = c[(k + 1) + 1] /\ todo'[k] = todo[k + 1]
      BY <1>2, <1>5, <3>1
    <3> QED  BY <1>3, <3>1, <3>2
  <2> QED  BY <2>1
<1>7. Chain(e, T, L)'
  BY <1>1, <1>2, <1>5, <1>6 DEF Chain
<1>8. e[1] = c[2] /\ e[Len(todo') + 1] = c[Len(todo) + 1]
  BY <1>1, <1>2, <1>5
<1> QED  BY <1>7, <1>8 DEF Leads

LEMMA ChainUnfolded ==
    ASSUME NEW T, NEW L, NEW c, Chain(c, T, L), todo \in Seq(Items), todo # <<>>,
           NEW items \in Seq(Items), Len(items) > 0, todo' = items \o Tail(todo),
           NEW f, Links(items, f, T, L), f[1] = c[1], f[Len(items) + 1] = c[2]
    PROVE  Leads(c, c[1], T, L)
<1>1. PICK n \in Nat, t \in Nat : n = Len(items) /\ t = Len(todo) /\ n > 0 /\ t > 0
  OBVIOUS
<1>2. c \in [1 .. t + 1 -> T] /\ \A k \in 1 .. t : <<todo[k], c[k], c[k + 1]>> \in L
  BY <1>1 DEF Chain
<1>3. /\ Len(todo') = n + (t - 1)
      /\ \A k \in 1 .. n : todo'[k] = items[k]
      /\ \A k \in n + 1 .. n + (t - 1) : todo'[k] = todo[k - n + 1]
  <2>1. Tail(todo) \in Seq(Items) /\ Len(Tail(todo)) = t - 1
    BY <1>1
  <2>2. \A k \in 1 .. t - 1 : Tail(todo)[k] = todo[k + 1]
    BY <1>1
  <2>3. Len(todo') = n + (t - 1)
    BY <1>1, <2>1
  <2>4. \A k \in 1 .. n : todo'[k] = items[k]
    BY <1>1, <2>1
  <2>5. ASSUME NEW k \in n + 1 .. n + (t - 1) PROVE todo'[k] = todo[k - n + 1]
    <3>1. k - n \in 1 .. t - 1 /\ k \in Nat /\ k > n
      BY <1>1
    <3>2. todo'[k] = Tail(todo)[k - n]
      BY <1>1, <2>1, <3>1
    <3> QED  BY <2>2, <3>1, <3>2
  <2> QED  BY <2>3, <2>4, <2>5
<1>maps. \A k \in 1 .. n + 1 : f[k] \in T
  BY <1>1 DEF Links
<1>4. PICK e : e = [k \in 1 .. n + t |-> IF k <= n THEN f[k] ELSE c[k - n + 1]]
  OBVIOUS
<1>5. /\ \A k \in 1 .. n : e[k] = f[k] /\ f[k] \in T
      /\ \A k \in n + 1 .. n + t : e[k] = c[k - n + 1] /\ c[k - n + 1] \in T
  <2>1. ASSUME NEW k \in 1 .. n PROVE e[k] = f[k] /\ f[k] \in T
    <3>1. k \in 1 .. n + t /\ k \in 1 .. Len(items) + 1 /\ k <= n
      BY <1>1
    <3>2. k \in 1 .. n + 1
      BY <1>1
    <3> QED  BY <1>4, <1>maps, <3>1, <3>2
  <2>2. ASSUME NEW k \in n + 1 .. n + t PROVE e[k] = c[k - n + 1] /\ c[k - n + 1] \in T
    <3>1. k \in 1 .. n + t /\ ~(k <= n) /\ k - n + 1 \in 1 .. t + 1
      BY <1>1
    <3> QED  BY <1>2, <1>4, <3>1
  <2> QED  BY <2>1, <2>2
<1>6. e \in [1 .. n + t -> T]
  <2>1. \A k \in 1 .. n + t : k \in 1 .. n \/ k \in n + 1 .. n + t
    BY <1>1
  <2> QED  BY <1>4, <1>5, <2>1
<1>7. f[n + 1] = c[2] /\ f[1] = c[1] /\ \A k \in 1 .. n : <<items[k], f[k], f[k + 1]>> \in L
  BY <1>1 DEF Links
<1>8. ASSUME NEW k \in 1 .. n + (t - 1) PROVE <<todo'[k], e[k], e[k + 1]>> \in L
  <2>1. CASE k < n
    <3>1. k \in 1 .. n /\ k + 1 \in 1 .. n
      BY <1>1, <2>1
    <3>2. todo'[k] = items[k] /\ e[k] = f[k] /\ e[k + 1] = f[k + 1]
      BY <1>3, <1>5, <3>1
    <3> QED  BY <1>7, <3>1, <3>2
  <2>2. CASE k = n
    <3>1. n \in 1 .. n /\ n + 1 \in n + 1 .. n + t /\ (n + 1) - n + 1 = 2
      BY <1>1
    <3>2. todo'[n] = items[n] /\ e[n] = f[n] /\ e[n + 1] = c[2]
      BY <1>3, <1>5, <3>1
    <3> QED  BY <1>7, <2>2, <3>1, <3>2
  <2>3. CASE k > n
    <3>1. /\ k \in n + 1 .. n + (t - 1) /\ k \in n + 1 .. n + t
          /\ k + 1 \in n + 1 .. n + t /\ k - n + 1 \in 1 .. t
          /\ (k + 1) - n + 1 = (k - n + 1) + 1
      BY <1>1, <2>3
    <3>2. todo'[k] = todo[k - n + 1] /\ e[k] = c[k - n + 1] /\ e[k + 1] = c[(k - n + 1) + 1]
      BY <1>3, <1>5, <3>1
    <3> QED  BY <1>2, <3>1, <3>2
  <2>4. k < n \/ k = n \/ k > n
    BY <1>1
  <2> QED  BY <2>1, <2>2, <2>3, <2>4
<1>9. Len(todo') + 1 = n + t
  BY <1>1, <1>3
<1>10. Chain(e, T, L)'
  BY <1>3, <1>6, <1>8, <1>9 DEF Chain
<1>11. e[1] = c[1] /\ e[n + t] = c[t + 1]
  <2>1. 1 \in 1 .. n /\ n + t \in n + 1 .. n + t /\ (n + t) - n + 1 = t + 1
    BY <1>1
  <2> QED  BY <1>5, <1>7, <2>1
<1> QED  BY <1>1, <1>9, <1>10, <1>11 DEF Leads

\* After the first k of some s-expressions, evaluated from s to rs.
PointAt(s, rs, k) ==
    [stack |-> [j \in 1 .. Len(s.stack) + k |->
                   IF j <= Len(s.stack) THEN s.stack[j] ELSE rs[j - Len(s.stack)].v],
     st |-> Before(rs, s.st, k + 1)]

Holds(p, s, rs, k) ==
    /\ p.st = Before(rs, s.st, k + 1) /\ Len(p.stack) = Len(s.stack) + k
    /\ \A j \in 1 .. Len(s.stack) : p.stack[j] = s.stack[j]
    /\ \A j \in 1 .. k : p.stack[Len(s.stack) + j] = rs[j].v

LEMMA PointsMade ==
    ASSUME NEW V, NEW E, NEW s \in Points(V, E), NEW rs \in Seq([v : V, st : E]),
           NEW k \in Nat, k <= Len(rs)
    PROVE  PointAt(s, rs, k) \in Points(V, E) /\ Holds(PointAt(s, rs, k), s, rs, k)
<1>arity. PICK m \in Nat : m = Len(s.stack)
  BY DEF Points
<1>1. PICK p : m = Len(s.stack) /\ p = PointAt(s, rs, k).stack
  BY <1>arity
<1>2. s.stack \in Seq(V) /\ s.st \in E
  BY DEF Points
<1>3. ASSUME NEW j \in 1 .. Len(rs) PROVE rs[j].v \in V /\ rs[j].st \in E
  <2>1. PICK R : R = [v : V, st : E]
    OBVIOUS
  <2>2. rs[j] \in R
    BY <2>1, Member
  <2> QED  BY <2>1, <2>2
<1>4. p = [j \in 1 .. m + k |-> IF j <= m THEN s.stack[j] ELSE rs[j - m].v]
  BY <1>1 DEF PointAt
<1>5. \A j \in 1 .. m : j \in 1 .. m + k /\ p[j] = s.stack[j] /\ p[j] \in V
  BY <1>1, <1>2, <1>4
<1>6. \A j \in m + 1 .. m + k : j - m \in 1 .. Len(rs) /\ p[j] = rs[j - m].v /\ p[j] \in V
  BY <1>1, <1>3, <1>4
<1>7. \A j \in 1 .. k : p[m + j] = rs[j].v
  <2>1. ASSUME NEW j \in 1 .. k PROVE p[m + j] = rs[j].v
    <3>1. m + j \in m + 1 .. m + k /\ (m + j) - m = j
      BY <1>1
    <3> QED  BY <1>6, <3>1
  <2> QED  BY <2>1
<1>8. \A j \in 1 .. m + k : p[j] \in V
  <2>1. \A j \in 1 .. m + k : j \in 1 .. m \/ j \in m + 1 .. m + k
    BY <1>1
  <2> QED  BY <1>5, <1>6, <2>1
<1>9. p \in Seq(V) /\ Len(p) = m + k
  BY <1>4, <1>8
<1>10. PointAt(s, rs, k).st = Before(rs, s.st, k + 1)
  BY DEF PointAt
<1>11. Before(rs, s.st, k + 1) \in E
  <2>1. CASE k = 0
    BY <1>2, <2>1 DEF Before
  <2>2. CASE k # 0
    <3>1. k + 1 # 1 /\ (k + 1) - 1 = k /\ k \in 1 .. Len(rs)
      BY <2>2
    <3> QED  BY <1>3, <3>1 DEF Before
  <2> QED  BY <2>1, <2>2
<1>12. PointAt(s, rs, k) \in Points(V, E)
  BY <1>1, <1>9, <1>10, <1>11 DEF PointAt, Points
<1> QED  BY <1>1, <1>5, <1>7, <1>9, <1>10, <1>12 DEF Holds

LEMMA PointSteps ==
    ASSUME NEW V, NEW E, NEW s \in Points(V, E), NEW rs \in Seq([v : V, st : E]),
           NEW k \in 1 .. Len(rs)
    PROVE  /\ Replaced(PointAt(s, rs, k - 1).stack, PointAt(s, rs, k).stack, 0, rs[k].v)
           /\ PointAt(s, rs, k - 1).st = Before(rs, s.st, k)
           /\ PointAt(s, rs, k).st = rs[k].st
<1>1. PICK l \in Nat, m \in Nat : l = k - 1 /\ m = Len(s.stack) /\ k = l + 1 /\ l <= Len(rs)
  BY DEF Points
<1>2. PICK p, q : p = PointAt(s, rs, l).stack /\ q = PointAt(s, rs, k).stack
  OBVIOUS
<1>9. Holds(PointAt(s, rs, l), s, rs, l)
  <2>1. l <= Len(rs)
    BY <1>1
  <2> QED  BY <2>1, PointsMade
<1>10. Holds(PointAt(s, rs, k), s, rs, k)
  <2>1. k \in Nat /\ k <= Len(rs)
    OBVIOUS
  <2> QED  BY <2>1, PointsMade
<1>3. /\ Len(p) = m + l /\ \A j \in 1 .. m : p[j] = s.stack[j]
      /\ \A j \in 1 .. l : p[m + j] = rs[j].v
      /\ PointAt(s, rs, l).st = Before(rs, s.st, l + 1)
  BY <1>1, <1>2, <1>9 DEF Holds
<1>4. /\ Len(q) = m + k /\ \A j \in 1 .. m : q[j] = s.stack[j]
      /\ \A j \in 1 .. k : q[m + j] = rs[j].v
      /\ PointAt(s, rs, k).st = Before(rs, s.st, k + 1)
  BY <1>1, <1>2, <1>10 DEF Holds
<1>5. ASSUME NEW j \in 1 .. m + l PROVE q[j] = p[j]
  <2>1. CASE j <= m
    BY <1>1, <1>3, <1>4, <2>1, SMTT(30)
  <2>2. CASE j > m
    <3>1. PICK i \in 1 .. l : j = m + i
      <4>1. j - m \in 1 .. l /\ j = m + (j - m)
        BY <1>1, <2>2
      <4> QED  BY <4>1
    <3>2. i \in 1 .. k
      BY <1>1
    <3> QED  BY <1>3, <1>4, <3>1, <3>2
  <2> QED  BY <1>1, <2>1, <2>2
<1>6. q[m + k] = rs[k].v
  BY <1>4
<1>7. Replaced(p, q, 0, rs[k].v)
  <2>1. Len(p) - 0 = m + l /\ 0 <= Len(p) /\ Len(q) = Len(p) - 0 + 1 /\ Len(q) = m + k
    BY <1>1, <1>3, <1>4
  <2> QED  BY <1>5, <1>6, <2>1 DEF Replaced
<1>8. Before(rs, s.st, k + 1) = rs[k].st
  BY <1>1 DEF Before
<1> QED  BY <1>1, <1>2, <1>3, <1>4, <1>7, <1>8

\* Two points with the same values and state are one.
LEMMA PointsEqual ==
    ASSUME NEW V, NEW E, NEW s \in Points(V, E), NEW t \in Points(V, E), s.st = t.st,
           Len(s.stack) = Len(t.stack), \A j \in 1 .. Len(s.stack) : s.stack[j] = t.stack[j]
    PROVE  s = t
<1>1. s.stack = t.stack
  BY DEF Points
<1> QED  BY <1>1 DEF Points

LEMMA PointAtFirst ==
    ASSUME NEW V, NEW E, NEW s \in Points(V, E), NEW rs \in Seq([v : V, st : E])
    PROVE  PointAt(s, rs, 0) = s
<1>1. PICK t : t = PointAt(s, rs, 0)
  OBVIOUS
<1>2. Len(rs) >= 0 /\ Len(s.stack) \in Nat
  BY DEF Points
<1>3. t \in Points(V, E) /\ Holds(t, s, rs, 0)
  BY <1>1, <1>2, PointsMade
<1>4. Before(rs, s.st, 0 + 1) = s.st
  BY DEF Before
<1>5. /\ Len(t.stack) = Len(s.stack) /\ t.st = s.st
      /\ \A j \in 1 .. Len(s.stack) : t.stack[j] = s.stack[j]
  BY <1>2, <1>3, <1>4 DEF Holds
<1>6. t = s
  BY <1>3, <1>5, PointsEqual
<1> QED  BY <1>1, <1>6

\* The points between the children of a node.
ParsesIn(es, s, rs, L) ==
    \A k \in 1 .. Len(es) : <<parse(es[k]), PointAt(s, rs, k - 1), PointAt(s, rs, k)>> \in L

\* A node gives way to its children and the work on their results.
LEMMA ChainChildren ==
    ASSUME NEW V, NEW E, NEW L, NEW c, Chain(c, Points(V, E), L), todo \in Seq(Items), todo # <<>>,
           NEW es \in Seq(Sexprs), NEW work \in Items, todo' = (parseAll(es) \o <<work>>) \o Tail(todo),
           NEW rs \in Seq([v : V, st : E]), Len(rs) = Len(es), ParsesIn(es, c[1], rs, L),
           <<work, PointAt(c[1], rs, Len(rs)), c[2]>> \in L
    PROVE  Leads(c, c[1], Points(V, E), L)
<1>len. PICK n \in Nat : n = Len(es)
  OBVIOUS
<1>1. PICK T : n = Len(es) /\ T = Points(V, E)
  BY <1>len
<1>2. c[1] \in T /\ c[2] \in T
  <2>1. Len(todo) \in Nat /\ Len(todo) > 0
    OBVIOUS
  <2>2. 1 \in 1 .. Len(todo) + 1 /\ 2 \in 1 .. Len(todo) + 1
    BY <2>1
  <2> QED  BY <1>1, <2>2 DEF Chain
<1>3. PICK items : items = parseAll(es) \o <<work>>
  OBVIOUS
<1>4. parseAll(es) \in Seq(Items) /\ Len(parseAll(es)) = n /\ \A k \in 1 .. n : parseAll(es)[k] = parse(es[k])
  BY <1>1, ItemsMade DEF parseAll
<1>5. /\ items \in Seq(Items) /\ Len(items) = n + 1 /\ items[n + 1] = work
      /\ \A k \in 1 .. n : items[k] = parse(es[k])
  <2>1. PICK ps \in Seq(Items) : ps = parseAll(es)
    BY <1>4
  <2>2. Len(ps) = n /\ items = ps \o <<work>> /\ \A k \in 1 .. n : ps[k] = parse(es[k])
    BY <1>3, <1>4, <2>1
  <2>8. <<work>> \in Seq(Items)
    OBVIOUS
  <2>3. PICK w \in Seq(Items) : w = <<work>> /\ Len(w) = 1 /\ w[1] = work
    BY <2>8
  <2>4. items = ps \o w
    BY <2>2, <2>3
  <2>5. items \in Seq(Items) /\ Len(items) = Len(ps) + 1
    BY <2>3, <2>4
  <2>6. items[Len(ps) + 1] = work
    BY <2>3, <2>4
  <2>7. \A k \in 1 .. Len(ps) : items[k] = ps[k]
    BY <2>3, <2>4
  <2> QED  BY <2>2, <2>5, <2>6, <2>7
<1>6. PICK f : f = [k \in 1 .. n + 2 |-> IF k <= n + 1 THEN PointAt(c[1], rs, k - 1) ELSE c[2]]
  OBVIOUS
<1>7. \A k \in 1 .. n + 1 : f[k] = PointAt(c[1], rs, k - 1)
  BY <1>6
<1>8. f[n + 2] = c[2]
  BY <1>6
<1>9. f \in [1 .. n + 2 -> T]
  <2>1. ASSUME NEW k \in 1 .. n + 1 PROVE f[k] \in T
    <3>1. PICK l \in Nat : l = k - 1 /\ l <= Len(rs)
      BY <1>1
    <3>2. PointAt(c[1], rs, l) \in T
      BY <1>1, <1>2, <3>1, PointsMade
    <3> QED  BY <1>7, <3>1, <3>2
  <2>2. \A k \in 1 .. n + 2 : k \in 1 .. n + 1 \/ k = n + 2
    OBVIOUS
  <2> QED  BY <1>2, <1>6, <1>8, <2>1, <2>2
<1>10. f[1] = c[1]
  <2>1. 1 \in 1 .. n + 1 /\ 1 - 1 = 0
    OBVIOUS
  <2>2. f[1] = PointAt(c[1], rs, 0)
    BY <1>7, <2>1
  <2> QED  BY <1>1, <1>2, <2>2, PointAtFirst
<1>11. \A k \in 1 .. n + 1 : <<items[k], f[k], f[k + 1]>> \in L
  <2>1. ASSUME NEW k \in 1 .. n PROVE <<items[k], f[k], f[k + 1]>> \in L
    <3>1. k \in 1 .. n + 1 /\ k + 1 \in 1 .. n + 1 /\ (k + 1) - 1 = k
      OBVIOUS
    <3>2. f[k] = PointAt(c[1], rs, k - 1) /\ f[k + 1] = PointAt(c[1], rs, k)
      BY <1>7, <3>1
    <3> QED  BY <1>1, <1>5, <3>2 DEF ParsesIn
  <2>2. <<items[n + 1], f[n + 1], f[(n + 1) + 1]>> \in L
    <3>1. n + 1 \in 1 .. n + 1 /\ (n + 1) - 1 = n /\ (n + 1) + 1 = n + 2
      OBVIOUS
    <3>2. f[n + 1] = PointAt(c[1], rs, n)
      BY <1>7, <3>1
    <3> QED  BY <1>1, <1>5, <1>8, <3>1, <3>2
  <2>3. \A k \in 1 .. n + 1 : k \in 1 .. n \/ k = n + 1
    OBVIOUS
  <2> QED  BY <2>1, <2>2, <2>3
<1>12. Len(items) + 1 = n + 2 /\ Len(items) > 0 /\ todo' = items \o Tail(todo)
  BY <1>3, <1>5
<1>13. Links(items, f, T, L)
  BY <1>5, <1>9, <1>11, <1>12 DEF Links
<1>15. Chain(c, T, L) /\ items \in Seq(Items) /\ f[1] = c[1] /\ f[Len(items) + 1] = c[2]
  BY <1>1, <1>5, <1>8, <1>10, <1>12
<1>16. Len(items) > 0 /\ todo' = items \o Tail(todo)
  BY <1>12
<1>14. Leads(c, c[1], T, L)
  BY <1>13, <1>15, <1>16, ChainUnfolded
<1> QED  BY <1>1, <1>14

\* The n values at the end of p.
Top(p, n) == [k \in 1 .. n |-> p[Len(p) - n + k]]

LEMMA SameSequence ==
    ASSUME NEW S, NEW p \in Seq(S), NEW q \in Seq(S), Len(p) = Len(q),
           \A k \in 1 .. Len(p) : p[k] = q[k]
    PROVE  p = q
  OBVIOUS

\* What a node puts on the stack replaces the results of its children.
LEMMA PointReplaced ==
    ASSUME NEW V, NEW E, NEW s \in Points(V, E), NEW t \in Points(V, E), NEW v,
           NEW rs \in Seq([v : V, st : E]), Replaced(s.stack, t.stack, 0, v)
    PROVE  Replaced(PointAt(s, rs, Len(rs)).stack, t.stack, Len(rs), v)
<1>1. PICK n \in Nat, m \in Nat : n = Len(rs) /\ m = Len(s.stack)
  BY DEF Points
<1>2. n \in Nat /\ n <= Len(rs)
  BY <1>1
<1>3. Holds(PointAt(s, rs, n), s, rs, n)
  BY <1>2, PointsMade
<1>4. PICK p : p = PointAt(s, rs, n).stack
  OBVIOUS
<1>5. Len(p) = m + n /\ (\A j \in 1 .. m : p[j] = s.stack[j]) /\ \A j \in 1 .. n : p[m + j] = rs[j].v
  BY <1>1, <1>3, <1>4 DEF Holds
<1>6. Len(t.stack) = m + 1 /\ t.stack[m + 1] = v /\ \A k \in 1 .. m : t.stack[k] = s.stack[k]
  <2>1. m - 0 + 1 = m + 1 /\ m - 0 = m
    BY <1>1
  <2>2. Len(t.stack) = m + 1 /\ t.stack[Len(t.stack)] = v /\ \A k \in 1 .. m : t.stack[k] = s.stack[k]
    BY <1>1, <2>1 DEF Replaced
  <2> QED  BY <2>2
<1>7. Replaced(p, t.stack, n, v)
  <2>1. n <= Len(p) /\ Len(t.stack) = Len(p) - n + 1 /\ Len(p) - n = m
    BY <1>1, <1>5, <1>6
  <2> QED  BY <1>5, <1>6, <2>1 DEF Replaced
<1> QED  BY <1>1, <1>4, <1>7

\* The results of the children are its end.
LEMMA PointTop ==
    ASSUME NEW V, NEW E, NEW s \in Points(V, E), NEW rs \in Seq([v : V, st : E])
    PROVE  /\ Top(PointAt(s, rs, Len(rs)).stack, Len(rs)) = ValuesOf(rs)
           /\ PointAt(s, rs, Len(rs)).st = After(rs, s.st)
<1>1. PICK n \in Nat, m \in Nat : n = Len(rs) /\ m = Len(s.stack)
  BY DEF Points
<1>2. n \in Nat /\ n <= Len(rs)
  BY <1>1
<1>3. Holds(PointAt(s, rs, n), s, rs, n)
  BY <1>2, PointsMade
<1>4. PICK p : p = PointAt(s, rs, n).stack
  OBVIOUS
<1>5. Len(p) = m + n /\ (\A j \in 1 .. m : p[j] = s.stack[j]) /\ \A j \in 1 .. n : p[m + j] = rs[j].v
  BY <1>1, <1>3, <1>4 DEF Holds
<1>8. Top(p, n) = ValuesOf(rs)
  <2>1. \A k \in 1 .. n : p[Len(p) - n + k] = rs[k].v
    <3>1. ASSUME NEW k \in 1 .. n PROVE p[Len(p) - n + k] = rs[k].v
      <4>1. Len(p) - n + k = m + k
        BY <1>1, <1>5
      <4> QED  BY <1>5, <4>1
    <3> QED  BY <3>1
  <2> QED  BY <1>1, <2>1 DEF Top, ValuesOf
<1> QED  BY <1>1, <1>3, <1>4, <1>8 DEF After, Holds

\* The children of a node, one after the other, and the work on their results.
LEMMA ChildrenFirst ==
    ASSUME IInv, lasgn \/ call \/ block
    PROVE  /\ Item.sexpr \in Sexprs /\ Children(Item.sexpr) \in Seq(Sexprs)
           /\ Item.sexpr.type \in {"lasgn", "call", "block"}
           /\ \E w \in Items :
                  /\ todo' = (parseAll(Children(Item.sexpr)) \o <<w>>) \o Tail(todo)
                  /\ lasgn => w = [do |-> "assign", name |-> Item.sexpr.name]
                  /\ call => w = [do |-> "call", method |-> Item.sexpr.method, n |-> Len(Item.sexpr.args)]
                  /\ block => w = [do |-> "list", n |-> Len(Item.sexpr.body)]
<1>1. Doing("parse") /\ Item.do = "parse" /\ todo # <<>>
  BY DEF lasgn, call, block, Parsing, Doing
<1>2. PICK e : e = Item.sexpr /\ e \in Sexprs
  BY <1>1, Enough, ItemShapes DEF IInv
<1>3. CASE lasgn
  <2>1. PICK w : w = [do |-> "assign", name |-> e.name]
    OBVIOUS
  <2>2. e.type = "lasgn" /\ e.val \in Sexprs /\ e.name \in Names /\ todo' = <<parse(e.val), w>> \o Tail(todo)
    BY <1>2, <1>3, <2>1, SexprsAssumption DEF lasgn, Parsing, first, AreSexprs
  <2>3. Children(e) = <<e.val>> /\ Children(e) \in Seq(Sexprs) /\ Len(<<e.val>>) = 1 /\ <<e.val>>[1] = e.val
    BY <2>2 DEF Children
  <2>4. w \in Items
    BY <2>1, <2>2 DEF Items
  <2>5. parseAll(<<e.val>>) = <<parse(e.val)>>
    BY <2>3 DEF parseAll
  <2>6. <<parse(e.val)>> \o <<w>> = <<parse(e.val), w>>
    <3>1. PICK x \in Items : x = parse(e.val)
      BY <2>2, ItemsMade
    <3>2. <<x>> \in Seq(Items) /\ <<w>> \in Seq(Items) /\ <<x, w>> \in Seq(Items)
      BY <2>4
    <3>4. PICK p, q : p = <<x>> \o <<w>> /\ q = <<x, w>>
      OBVIOUS
    <3>5. p \in Seq(Items) /\ Len(p) = 2 /\ p[1] = x /\ p[2] = w
      BY <3>2, <3>4
    <3>6. q \in Seq(Items) /\ Len(q) = 2 /\ q[1] = x /\ q[2] = w
      BY <3>2, <3>4
    <3>7. p = q
      BY <3>5, <3>6, SameSequence
    <3>3. <<x>> \o <<w>> = <<x, w>>
      BY <3>4, <3>7
    <3> QED  BY <3>1, <3>3
  <2>7. ~call /\ ~block
    BY <1>2, <2>2 DEF call, block, Parsing
  <2> QED  BY <1>2, <2>1, <2>2, <2>3, <2>4, <2>5, <2>6, <2>7
<1>4. CASE call
  <2>1. PICK w : w = [do |-> "call", method |-> e.method, n |-> Len(e.args)]
    OBVIOUS
  <2>2. /\ e.type = "call" /\ e.recv \in Sexprs /\ e.args \in Seq(Sexprs)
        /\ todo' = (<<parse(e.recv)>> \o parseAll(e.args) \o <<w>>) \o Tail(todo)
    BY <1>2, <1>4, <2>1, SexprsAssumption DEF call, Parsing, first, AreSexprs
  <2>7. PICK others \in Seq(Sexprs), x \in Sexprs : others = e.args /\ x = e.recv
    BY <2>2
  <2>8. <<x>> \o others \in Seq(Sexprs)
    BY <2>7
  <2>9. Children(e) = <<x>> \o others
    <3>1. e.type = "call"
      BY <2>2
    <3>2. Children(e) = <<e.recv>> \o e.args
      BY <3>1, Zenon DEF Children
    <3> QED  BY <2>7, <3>2
  <2>3. PICK es \in Seq(Sexprs) : es = Children(e) /\ es = <<x>> \o others
    BY <2>8, <2>9
  <2>4. w \in Items
    BY <1>2, <2>1, <2>2 DEF Items, Called
  <2>5. parseAll(es) = <<parse(e.recv)>> \o parseAll(e.args)
    <3>1. Len(others) \in Nat
      BY <2>7
    <3>2. PICK n \in Nat : n = Len(others)
      BY <3>1
    <3>3. Len(es) = n + 1 /\ es[1] = x /\ \A k \in 1 .. n : es[k + 1] = others[k]
      BY <2>3, <2>7, <3>2
    <3>4. PICK p, q : p = parseAll(es) /\ q = parseAll(others)
      OBVIOUS
    <3>5. p = [k \in 1 .. n + 1 |-> parse(es[k])] /\ q = [k \in 1 .. n |-> parse(others[k])]
      BY <3>2, <3>3, <3>4 DEF parseAll
    <3>6. q \in Seq(Items) /\ Len(q) = n /\ p \in Seq(Items) /\ Len(p) = n + 1 /\ parse(x) \in Items
      BY <2>7, <3>2, <3>3, <3>4, ParsesAll, ItemsMade
    <3>11. PICK y \in Items : y = parse(x)
      BY <3>6
    <3>12. <<y>> \in Seq(Items)
      OBVIOUS
    <3>13. PICK z \in Seq(Items) : z = <<y>> /\ Len(z) = 1 /\ z[1] = y
      BY <3>12
    <3>7. PICK r \in Seq(Items) : r = z \o q
      <4>1. q \in Seq(Items)
        BY <3>6
      <4>2. z \o q \in Seq(Items)
        BY <4>1
      <4> QED  BY <4>2
    <3>8. Len(r) = n + 1 /\ r[1] = parse(x) /\ \A k \in 1 .. n : r[k + 1] = q[k]
      <4>1. q \in Seq(Items) /\ Len(q) = n
        BY <3>6
      <4>2. Len(r) = n + 1 /\ r[1] = z[1] /\ \A k \in 1 .. n : r[k + 1] = q[k]
        BY <3>7, <3>13, <4>1
      <4> QED  BY <3>11, <3>13, <4>2
    <3>9. ASSUME NEW k \in 1 .. n + 1 PROVE p[k] = r[k]
      <4>1. CASE k = 1
        BY <3>3, <3>5, <3>8, <4>1
      <4>2. CASE k # 1
        <5>1. PICK l \in 1 .. n : k = l + 1
          <6>1. k - 1 \in 1 .. n /\ k = (k - 1) + 1
            BY <4>2
          <6> QED  BY <6>1
        <5>3. l + 1 \in 1 .. n + 1
          OBVIOUS
        <5>2. r[l + 1] = parse(others[l]) /\ p[l + 1] = parse(es[l + 1]) /\ es[l + 1] = others[l]
          BY <3>3, <3>5, <3>8, <5>3
        <5> QED  BY <5>1, <5>2
      <4> QED  BY <4>1, <4>2
    <3>10. p = r
      BY <3>6, <3>8, <3>9, SameSequence
    <3> QED  BY <2>7, <3>4, <3>7, <3>10, <3>11, <3>13
  <2>6. ~lasgn /\ ~block
    BY <1>2, <2>2 DEF lasgn, block, Parsing
  <2> QED  BY <1>2, <2>1, <2>2, <2>3, <2>4, <2>5, <2>6
<1>5. CASE block
  <2>1. PICK w : w = [do |-> "list", n |-> Len(e.body)]
    OBVIOUS
  <2>2. /\ e.type = "block" /\ e.body \in Seq(Sexprs)
        /\ todo' = (parseAll(e.body) \o <<w>>) \o Tail(todo)
    BY <1>2, <1>5, <2>1, SexprsAssumption DEF block, Parsing, first, AreSexprs
  <2>3. Children(e) = e.body
    BY <2>2 DEF Children
  <2>4. w \in Items
    BY <2>1, <2>2 DEF Items
  <2>5. ~lasgn /\ ~call
    BY <1>2, <2>2 DEF lasgn, call, Parsing
  <2> QED  BY <1>2, <2>1, <2>2, <2>3, <2>4, <2>5
<1> QED  BY <1>3, <1>4, <1>5

LEMMA ChainFirst ==
    ASSUME NEW T, NEW L, NEW c, Chain(c, T, L), todo \in Seq(Items), todo # <<>>
    PROVE  c[1] \in T /\ c[2] \in T /\ <<Item, c[1], c[2]>> \in L
<1>1. PICK n \in Nat : n = Len(todo) /\ n > 0
  OBVIOUS
<1>2. c \in [1 .. n + 1 -> T] /\ \A k \in 1 .. n : <<todo[k], c[k], c[k + 1]>> \in L
  BY <1>1 DEF Chain
<1>3. 1 \in 1 .. n /\ 1 \in 1 .. n + 1 /\ 2 \in 1 .. n + 1 /\ 1 + 1 = 2 /\ Item = todo[1]
  BY <1>1 DEF Item
<1> QED  BY <1>2, <1>3

-----------------------------------------------------------------------------
(* The evaluation to classes of a program whose classes agree.             *)

Agreeing    == Kinds \ {"Error"}
ClassPoints == Points(Agreeing, Typings)

ClassStep(i, s, t) ==
    /\ i.do = "parse" => /\ Class(i.sexpr, s.st).v # "Error"
                         /\ Replaced(s.stack, t.stack, 0, Class(i.sexpr, s.st).v)
                         /\ t.st = Class(i.sexpr, s.st).st
    /\ i.do = "list" => Replaced(s.stack, t.stack, i.n, "Array") /\ t.st = s.st
    /\ i.do = "assign" =>
           \E k \in Classes : /\ Top(s.stack, 1) = <<k>> /\ Replaced(s.stack, t.stack, 1, k)
                              /\ s.st[i.name] \in {"Error", k} /\ t.st = [s.st EXCEPT ![i.name] = k]
    /\ i.do = "call" => /\ Accepts(i.method, Top(s.stack, i.n + 1))
                        /\ Replaced(s.stack, t.stack, i.n + 1, ResultClass[i.method]) /\ t.st = s.st

ClassSteps == { z \in Items \X ClassPoints \X ClassPoints : ClassStep(z[1], z[2], z[3]) }

LEMMA ClassStepIn ==
    ASSUME NEW i \in Items, NEW s \in ClassPoints, NEW t \in ClassPoints
    PROVE  <<i, s, t>> \in ClassSteps <=> ClassStep(i, s, t)
  BY DEF ClassSteps

\* What a method accepts its function takes.
LEMMA Accepted ==
    ASSUME NEW m, NEW cs, Accepts(m, cs)
    PROVE  /\ Len(cs) \in {1, 2} /\ cs[1] \in Classes
           /\ Len(cs) = 2 => cs[2] \in {"Num", "Nil"}
           /\ m \in DOMAIN Methods[cs[1]] /\ Methods[cs[1]][m].class = ResultClass[m]
           /\ Methods[cs[1]][m].args = IF Len(cs) = 2 THEN <<"int">> ELSE <<>>
           /\ <<cs[1], m>> \notin Bodiless
<1>1. CASE m = "plus" /\ cs \in { <<"Num", "Num">>, <<"Num", "Nil">> }
  BY <1>1 DEF Methods, ResultClass, Classes, Bodiless
<1>2. CASE m = "minus" /\ cs \in { <<"Num", "Num">>, <<"Num", "Nil">> }
  BY <1>2 DEF Methods, ResultClass, Classes, Bodiless
<1>3. CASE m = "to_s" /\ cs = <<"Num">>
  BY <1>3 DEF Methods, ResultClass, Classes, Bodiless
<1>4. CASE m = "length" /\ cs = <<"String">>
  BY <1>4 DEF Methods, ResultClass, Classes, Bodiless
<1>5. CASE m = "puts" /\ cs = <<"String">>
  BY <1>5 DEF Methods, ResultClass, Classes, Bodiless
<1> QED  BY <1>1, <1>2, <1>3, <1>4, <1>5 DEF Accepts

\* Results that agree, each of an s-expression in the state the one before left.
AgreeInTurn(es, env, rs) ==
    /\ rs \in Seq([v : Agreeing, st : Typings]) /\ Len(rs) = Len(es)
    /\ \A k \in 1 .. Len(rs) : rs[k] = Class(es[k], Before(rs, env, k))

\* The children of a node whose classes agree have classes.
LEMMA ChildrenAgree ==
    ASSUME NEW e \in Sexprs, NEW env \in Typings, Class(e, env).v # "Error",
           e.type \in {"lasgn", "call", "block"}, NEW rs, rs = ClassAll(Children(e), env)
    PROVE  AgreeInTurn(Children(e), env, rs) /\ Class(e, env) = Classified(e, env, rs)
<1>1. PICK es, R : es = Children(e) /\ R = [v : Kinds, st : Typings]
  OBVIOUS
<1>2. ClassedInTurn(es, env) /\ Class(e, env) = Classified(e, env, rs)
  BY <1>1, ClassAssumption
<1>3. /\ rs \in Seq(R) /\ Len(rs) = Len(es)
      /\ \A k \in 1 .. Len(es) : rs[k] = Class(es[k], Before(rs, env, k))
  BY <1>1, <1>2 DEF ClassedInTurn
<1>4. Classified(e, env, rs).v # "Error"
  BY <1>2
<1>5. \A k \in 1 .. Len(rs) : rs[k].v # "Error"
  <2>1. CASE e.type = "lasgn"
    <3>1. Children(e) = <<e.val>>
      BY <2>1, Zenon DEF Children
    <3>2. Len(rs) = 1
      BY <1>1, <1>3, <3>1
    <3>3. rs[1].v \in Classes
      BY <1>4, <2>1 DEF Classified
    <3> QED  BY <3>2, <3>3, MethodTables
  <2>2. CASE e.type = "block"
    BY <1>4, <2>2 DEF Classified
  <2>3. CASE e.type = "call"
    <3>1. Accepts(e.method, ValuesOf(rs))
      BY <1>4, <2>3 DEF Classified
    <3>2. PICK cs : cs = ValuesOf(rs)
      OBVIOUS
    <3>3. /\ Len(cs) \in {1, 2} /\ cs[1] \in Classes
          /\ Len(cs) = 2 => cs[2] \in {"Num", "Nil"}
      BY <3>1, <3>2, Accepted
    <3>4. Len(cs) = Len(rs) /\ \A k \in 1 .. Len(rs) : cs[k] = rs[k].v
      BY <1>3, <3>2 DEF ValuesOf
    <3>5. ASSUME NEW k \in 1 .. Len(rs) PROVE rs[k].v # "Error"
      <4>1. k = 1 \/ (k = 2 /\ Len(cs) = 2)
        BY <3>3, <3>4
      <4>2. cs[k] # "Error"
        BY <3>3, <4>1, MethodTables
      <4> QED  BY <3>4, <4>2
    <3> QED  BY <3>5
  <2> QED  BY <2>1, <2>2, <2>3
<1>6. PICK A : A = [v : Agreeing, st : Typings]
  OBVIOUS
<1>7. ASSUME NEW k \in 1 .. Len(rs) PROVE rs[k] \in A
  <2>1. PICK r \in R : r = rs[k] /\ r.v # "Error"
    BY <1>3, <1>5, Member
  <2> QED  BY <1>1, <1>6, <2>1 DEF Agreeing
<1>8. rs \in Seq(A)
  BY <1>3, <1>7
<1> QED  BY <1>1, <1>2, <1>3, <1>6, <1>8 DEF AgreeInTurn

LEMMA ClassNode ==
    ASSUME IInv, NEW c, Chain(c, ClassPoints, ClassSteps), lasgn \/ call \/ block
    PROVE  Leads(c, c[1], ClassPoints, ClassSteps)
<1>1. todo \in Seq(Items) /\ todo # <<>> /\ Item.do = "parse"
  BY DEF IInv, Balanced, lasgn, call, block, Parsing, Doing
<1>2. PICK s \in ClassPoints, t \in ClassPoints : s = c[1] /\ t = c[2] /\ <<Item, s, t>> \in ClassSteps
  BY <1>1, ChainFirst
<1>3. PICK e \in Sexprs : e = Item.sexpr
  BY ChildrenFirst
<1>4. PICK es \in Seq(Sexprs), w \in Items :
          /\ es = Children(e) /\ e.type \in {"lasgn", "call", "block"}
          /\ todo' = (parseAll(es) \o <<w>>) \o Tail(todo)
          /\ lasgn => w = [do |-> "assign", name |-> e.name]
          /\ call => w = [do |-> "call", method |-> e.method, n |-> Len(e.args)]
          /\ block => w = [do |-> "list", n |-> Len(e.body)]
  BY <1>3, ChildrenFirst
<1>5. ClassStep(Item, s, t)
  BY <1>1, <1>2, ClassStepIn, Enough DEF IInv
<1>6. PICK env, r : env = s.st /\ r = Class(e, env)
  OBVIOUS
<1>env. env \in Typings
  BY <1>6 DEF ClassPoints, Points
<1>7. r.v # "Error" /\ Replaced(s.stack, t.stack, 0, r.v) /\ t.st = r.st
  BY <1>1, <1>3, <1>5, <1>6 DEF ClassStep
<1>8. PICK rs : rs = ClassAll(es, env)
  OBVIOUS
<1>9. /\ rs \in Seq([v : Agreeing, st : Typings]) /\ Len(rs) = Len(es)
      /\ \A k \in 1 .. Len(rs) : rs[k] = Class(es[k], Before(rs, env, k))
      /\ r = Classified(e, env, rs)
  <2>1. rs = ClassAll(Children(e), env)
    BY <1>4, <1>8
  <2>2. e.type \in {"lasgn", "call", "block"} /\ Class(e, env).v # "Error"
    BY <1>4, <1>6, <1>7
  <2>3. AgreeInTurn(Children(e), env, rs) /\ Class(e, env) = Classified(e, env, rs)
    <3>1. e.type \in {"lasgn", "call", "block"}
      BY <2>2
    <3>2. Class(e, env).v # "Error"
      BY <2>2
    <3> QED  BY <1>env, <2>1, <3>1, <3>2, ChildrenAgree
  <2>4. es = Children(e) /\ r = Class(e, env)
    BY <1>4, <1>6
  <2> QED  BY <2>3, <2>4 DEF AgreeInTurn
<1>10. ParsesIn(es, s, rs, ClassSteps)
  <2>1. ASSUME NEW k \in 1 .. Len(es)
        PROVE  <<parse(es[k]), PointAt(s, rs, k - 1), PointAt(s, rs, k)>> \in ClassSteps
    <3>1. PICK l \in Nat : l = k - 1 /\ l <= Len(rs) /\ k \in Nat /\ k <= Len(rs) /\ k \in 1 .. Len(rs)
      BY <1>9
    <3>2. /\ Replaced(PointAt(s, rs, k - 1).stack, PointAt(s, rs, k).stack, 0, rs[k].v)
          /\ PointAt(s, rs, k - 1).st = Before(rs, s.st, k)
          /\ PointAt(s, rs, k).st = rs[k].st
      BY <1>9, <3>1, PointSteps DEF ClassPoints
    <3>3. PICK p, q : p = PointAt(s, rs, k - 1) /\ q = PointAt(s, rs, k)
      OBVIOUS
    <3>4. p = PointAt(s, rs, l)
      BY <3>1, <3>3
    <3>5. p \in ClassPoints
      BY <1>9, <3>1, <3>4, PointsMade DEF ClassPoints
    <3>6. q \in ClassPoints
      BY <1>9, <3>1, <3>3, PointsMade DEF ClassPoints
    <3>7. PICK i : i = parse(es[k])
      OBVIOUS
    <3>8. i \in Items /\ i.do = "parse" /\ i.sexpr = es[k]
      BY <3>7, ItemsMade, Member DEF parse
    <3>9. rs[k] = Class(es[k], p.st)
      BY <1>6, <1>9, <3>1, <3>2, <3>3
    <3>10. rs[k].v # "Error"
      <4>1. PICK A : A = [v : Agreeing, st : Typings]
        OBVIOUS
      <4>2. rs[k] \in A
        BY <1>9, <3>1, <4>1, Member
      <4> QED  BY <4>1, <4>2 DEF Agreeing
    <3>11. ClassStep(i, p, q)
      BY <3>2, <3>3, <3>8, <3>9, <3>10 DEF ClassStep
    <3> QED  BY <3>3, <3>5, <3>6, <3>7, <3>8, <3>11, ClassStepIn
  <2> QED  BY <2>1 DEF ParsesIn
<1>11. PICK p : p = PointAt(s, rs, Len(rs))
  OBVIOUS
<1>12. /\ Replaced(p.stack, t.stack, Len(rs), r.v) /\ Top(p.stack, Len(rs)) = ValuesOf(rs)
       /\ p.st = After(rs, env)
  <2>4. PICK x : x = r.v
    OBVIOUS
  <2>5. rs \in Seq([v : Agreeing, st : Typings])
    BY <1>9
  <2>1. Replaced(s.stack, t.stack, 0, x)
    BY <1>7, <2>4
  <2>2. s \in Points(Agreeing, Typings)
    BY DEF ClassPoints
  <2>7. t \in Points(Agreeing, Typings)
    BY DEF ClassPoints
  <2>3. Replaced(PointAt(s, rs, Len(rs)).stack, t.stack, Len(rs), x)
    BY <2>1, <2>2, <2>5, <2>7, PointReplaced, Zenon
  <2>6. /\ Top(PointAt(s, rs, Len(rs)).stack, Len(rs)) = ValuesOf(rs)
        /\ PointAt(s, rs, Len(rs)).st = After(rs, s.st)
    BY <2>2, <2>5, PointTop
  <2> QED  BY <1>6, <1>11, <2>3, <2>4, <2>6
<1>13. p \in ClassPoints
  <2>1. PICK n \in Nat : n = Len(rs) /\ n <= Len(rs)
    BY <1>9
  <2> QED  BY <1>9, <1>11, <2>1, PointsMade DEF ClassPoints
<1>14. ClassStep(w, p, t)
  <2>1. CASE lasgn
    <3>1. e.type = "lasgn" /\ w = [do |-> "assign", name |-> e.name]
      BY <1>3, <1>4, <2>1 DEF lasgn, Parsing
    <3>2. es = <<e.val>>
      BY <1>4, <3>1, Zenon DEF Children
    <3>3. Len(rs) = 1
      BY <1>9, <3>2
    <3>4. /\ rs[1].v \in Classes /\ rs[1].st[e.name] \in {"Error", rs[1].v}
          /\ r = [v |-> rs[1].v, st |-> [rs[1].st EXCEPT ![e.name] = rs[1].v]]
      BY <1>7, <1>9, <3>1 DEF Classified
    <3>5. p.st = rs[1].st
      BY <1>12, <3>3 DEF After, Before
    <3>6. ValuesOf(rs) = <<rs[1].v>>
      BY <3>3 DEF ValuesOf
    <3>7. w.do = "assign" /\ w.name = e.name
      BY <3>1
    <3>8. PICK k \in Classes : k = rs[1].v
      BY <3>4
    <3>9. /\ Top(p.stack, 1) = <<k>> /\ Replaced(p.stack, t.stack, 1, k)
          /\ p.st[w.name] \in {"Error", k} /\ t.st = [p.st EXCEPT ![w.name] = k]
      BY <1>7, <1>12, <3>3, <3>4, <3>5, <3>6, <3>7, <3>8
    <3> QED  BY <3>7, <3>9 DEF ClassStep
  <2>2. CASE call
    <3>1. e.type = "call" /\ w = [do |-> "call", method |-> e.method, n |-> Len(e.args)]
      BY <1>3, <1>4, <2>2 DEF call, Parsing
    <3>2. es = <<e.recv>> \o e.args
      BY <1>4, <3>1, Zenon DEF Children
    <3>3. Len(rs) = Len(e.args) + 1
      <4>1. PICK x \in Sexprs, others \in Seq(Sexprs) : x = e.recv /\ others = e.args
        BY <3>1, SexprsAssumption DEF AreSexprs
      <4>3. PICK q \in Seq(Sexprs) : q = <<x>> /\ Len(q) = 1
        <5>1. <<x>> \in Seq(Sexprs)
          OBVIOUS
        <5> QED  BY <5>1
      <4>4. Len(q \o others) = Len(q) + Len(others) /\ Len(others) \in Nat
        OBVIOUS
      <4>2. Len(q \o others) = Len(others) + 1
        BY <4>3, <4>4
      <4> QED  BY <1>9, <3>2, <4>1, <4>2, <4>3
    <3>4. /\ Accepts(e.method, ValuesOf(rs))
          /\ r = [v |-> ResultClass[e.method], st |-> After(rs, env)]
      BY <1>7, <1>9, <3>1 DEF Classified
    <3>5. w.do = "call" /\ w.method = e.method /\ w.n + 1 = Len(rs)
      BY <3>1, <3>3
    <3>6. r.v = ResultClass[e.method] /\ r.st = After(rs, env)
      BY <3>4
    <3> QED  BY <1>7, <1>12, <3>4, <3>5, <3>6 DEF ClassStep
  <2>3. CASE block
    <3>1. e.type = "block" /\ w = [do |-> "list", n |-> Len(e.body)]
      BY <1>3, <1>4, <2>3 DEF block, Parsing
    <3>2. es = e.body
      BY <1>4, <3>1, Zenon DEF Children
    <3>3. r.v = "Array" /\ r.st = After(rs, env)
      BY <1>7, <1>9, <3>1 DEF Classified
    <3>4. w.do = "list" /\ w.n = Len(rs)
      BY <1>9, <3>1, <3>2
    <3> QED  BY <1>7, <1>12, <3>3, <3>4 DEF ClassStep
  <2> QED  BY <2>1, <2>2, <2>3
<1>15. <<w, p, t>> \in ClassSteps
  BY <1>13, <1>14, ClassStepIn
<1>16. Leads(c, c[1], Points(Agreeing, Typings), ClassSteps)
  BY <1>1, <1>2, <1>4, <1>9, <1>10, <1>11, <1>15, ChainChildren DEF ClassPoints
<1> QED  BY <1>16 DEF ClassPoints

LEMMA OperandsAre ==
    ASSUME IInv, NEW n \in Nat, n <= Len(results)
    PROVE  \A k \in 1 .. n : operands(n)[k] = results[Len(results) - n + k]
<1>1. results \in Seq(Objects) /\ Len(results) \in Nat
  BY DEF IInv, ResultsTyped
<1>2. PICK m \in Nat : m = Len(results) - n /\ m + n = Len(results)
  BY <1>1
<1>3. operands(n) = SubSeq(results, m + 1, m + n)
  BY <1>1, <1>2 DEF operands
<1>4. SubSeq(results, m + 1, m + n) = [k \in 1 .. n |-> results[m + k]]
  BY <1>1, <1>2
<1> QED  BY <1>2, <1>3, <1>4

\* The point the compiler has reached.
ClassesReached(s) ==
    /\ Len(s.stack) = Len(results) /\ \A k \in 1 .. Len(results) : s.stack[k] = results[k].class
    /\ \A x \in Names : s.st[x] = IF x \in DOMAIN variables THEN variables[x].class ELSE "Error"

ClassesAgree ==
    /\ \E c : Chain(c, ClassPoints, ClassSteps) /\ ClassesReached(c[1])
    /\ status \in {"compiling", "running", "finished"}
    /\ \A k \in 1 .. Len(ir) : ir[k].op = "call" => ir[k].func \notin Bodiless

\* The item to do, and the points it leads between.
LEMMA ClassItem ==
    ASSUME IInv, ClassesAgree, todo # <<>>
    PROVE  \E c, s, t : /\ Chain(c, ClassPoints, ClassSteps) /\ s = c[1] /\ t = c[2]
                        /\ s \in ClassPoints /\ t \in ClassPoints /\ Item \in Items
                        /\ ClassesReached(s) /\ ClassStep(Item, s, t)
<1>1. PICK c : Chain(c, ClassPoints, ClassSteps) /\ ClassesReached(c[1])
  BY DEF ClassesAgree
<1>2. todo \in Seq(Items) /\ Item \in Items
  BY Enough DEF IInv, Balanced
<1>3. c[1] \in ClassPoints /\ c[2] \in ClassPoints /\ <<Item, c[1], c[2]>> \in ClassSteps
  BY <1>1, <1>2, ChainFirst
<1> QED  BY <1>1, <1>2, <1>3, ClassStepIn

LEMMA AgreeLed ==
    ASSUME NEW c, NEW s, Leads(c, s, ClassPoints, ClassSteps), ClassesReached(s)',
           status' = "compiling",
           \A k \in 1 .. Len(ir') : ir'[k].op = "call" => ir'[k].func \notin Bodiless
    PROVE  ClassesAgree'
<1>1. PICK e : Chain(e, ClassPoints, ClassSteps)' /\ e[1] = s
  BY DEF Leads
<1>2. ClassesReached(e[1])'
  BY <1>1
<1> QED  BY <1>1, <1>2 DEF ClassesAgree

\* p are the results that n less leave.
Left(p, n) == p \in Seq(Objects) /\ Len(p) = Len(results) - n /\ \A k \in 1 .. Len(p) : p[k] = results[k]

LEMMA ClassesPushed ==
    ASSUME ResultsTyped, NEW s \in ClassPoints, NEW t \in ClassPoints, ClassesReached(s),
           NEW n \in Nat, n <= Len(results), NEW o \in Objects, Replaced(s.stack, t.stack, n, o.class),
           NEW p, Left(p, n), results' = Append(p, o)
    PROVE  /\ Len(t.stack) = Len(results')
           /\ \A k \in 1 .. Len(results') : t.stack[k] = results'[k].class
<1>0. p \in Seq(Objects) /\ Len(p) = Len(results) - n /\ \A k \in 1 .. Len(p) : p[k] = results[k]
  BY DEF Left
<1>arity. Len(p) \in Nat
  BY <1>0
<1>1. PICK m \in Nat : m = Len(p) /\ m = Len(results) - n
  BY <1>0, <1>arity
<1>2. results \in Seq(Objects) /\ Len(results) = Len(s.stack) /\ Len(results) \in Nat
  BY DEF ResultsTyped, ClassesReached
<1>3. Len(results') = m + 1 /\ results'[m + 1] = o /\ \A k \in 1 .. m : results'[k] = p[k]
  BY <1>0, <1>1
<1>4. Len(t.stack) = m + 1 /\ t.stack[m + 1] = o.class /\ \A k \in 1 .. m : t.stack[k] = s.stack[k]
  BY <1>1, <1>2 DEF Replaced
<1>5. \A k \in 1 .. m : s.stack[k] = results[k].class
  BY <1>1, <1>2 DEF ClassesReached
<1>6. \A k \in 1 .. m + 1 : k \in 1 .. m \/ k = m + 1
  OBVIOUS
<1> QED  BY <1>0, <1>1, <1>3, <1>4, <1>5, <1>6

\* The variables, when none changes.
LEMMA VariablesReached ==
    ASSUME NEW s, NEW t, ClassesReached(s), UNCHANGED variables, t.st = s.st,
           Len(t.stack) = Len(results'), \A k \in 1 .. Len(results') : t.stack[k] = results'[k].class
    PROVE  ClassesReached(t)'
  BY DEF ClassesReached

LEMMA RegIn == ASSUME IInv PROVE reg \in Vals
<1>1. Len(ir) + 1 \in Int
  BY DEF IInv, IRTyped
<1> QED  BY <1>1 DEF reg, Vals

LEMMA LeafAgrees ==
    ASSUME IInv, ClassesAgree, lit \/ str \/ lvar
    PROVE  ClassesAgree'
<1>1. /\ status' = "compiling" /\ todo # <<>> /\ UNCHANGED variables /\ Item.do = "parse"
      /\ todo \in Seq(Items) /\ todo' = Tail(todo)
  BY DEF lit, str, lvar, Parsing, Doing, compilerOnly, first, IInv, Balanced
<1>2. PICK c, s, t : /\ Chain(c, ClassPoints, ClassSteps) /\ s = c[1] /\ t = c[2]
                     /\ s \in ClassPoints /\ t \in ClassPoints /\ Item \in Items
                     /\ ClassesReached(s) /\ ClassStep(Item, s, t)
  BY <1>1, ClassItem
<1>3. PICK e, env, r : e = Item.sexpr /\ env = s.st /\ r = Class(e, env)
  OBVIOUS
<1>4. e \in Sexprs
  BY <1>1, <1>2, <1>3, ItemShapes
<1>5. env \in Typings
  BY <1>2, <1>3 DEF ClassPoints, Points
<1>6. r.v # "Error" /\ Replaced(s.stack, t.stack, 0, r.v) /\ t.st = r.st
  BY <1>1, <1>2, <1>3 DEF ClassStep
<1>7. PICK rs : r = Classified(e, env, rs)
  BY <1>3, <1>4, <1>5, ClassAssumption
<1>8. PICK o \in Objects : results' = Append(results, o) /\ o.class = r.v
  <2>1. CASE lit
    <3>1. PICK o : o = RObject("Num", "int", [kind |-> "const", n |-> e.n])
      OBVIOUS
    <3>2. e.type = "lit" /\ results' = Append(results, o)
      BY <1>3, <2>1, <3>1 DEF lit, Parsing, push
    <3>3. e.n \in Int
      BY <1>4, <3>2, SexprsAssumption DEF AreSexprs
    <3>4. o \in Objects /\ o.class = "Num"
      BY <3>1, <3>3 DEF RObject, Objects, Types, Vals
    <3> QED  BY <1>7, <3>2, <3>4 DEF Classified
  <2>2. CASE str
    <3>1. PICK o : o = RObject("String", "ptr", reg)
      OBVIOUS
    <3>2. e.type = "str" /\ results' = Append(results, o)
      BY <1>3, <2>2, <3>1 DEF str, Parsing, push
    <3>3. o \in Objects /\ o.class = "String"
      BY <3>1, RegIn DEF RObject, Objects, Types
    <3> QED  BY <1>7, <3>2, <3>3 DEF Classified
  <2>3. CASE lvar
    <3>1. PICK x \in DOMAIN variables : x = e.name
      BY <1>3, <2>3 DEF lvar
    <3>2. PICK o : o = RObject(variables[x].class, variables[x].type, reg)
      OBVIOUS
    <3>3. e.type = "lvar" /\ results' = Append(results, o)
      BY <1>3, <2>3, <3>1, <3>2 DEF lvar, Parsing, push
    <3>4. x \in Names /\ variables[x].class \in Classes /\ variables[x].type \in Types
      BY <3>1 DEF IInv, VariablesTyped
    <3>5. o \in Objects /\ o.class = variables[x].class
      BY <3>2, <3>4, RegIn, MethodTables DEF RObject, Objects
    <3>6. r.v = env[x]
      BY <1>7, <3>1, <3>3 DEF Classified
    <3>7. env[x] = variables[x].class
      BY <1>2, <1>3, <3>1, <3>4 DEF ClassesReached
    <3> QED  BY <3>3, <3>5, <3>6, <3>7
  <2> QED  BY <2>1, <2>2, <2>3
<1>9. r.st = env
  <2>1. e.type \in {"lit", "str", "lvar"}
    BY <1>3 DEF lit, str, lvar, Parsing
  <2> QED  BY <1>7, <2>1 DEF Classified
<1>10. ClassesReached(t)'
  <2>1. results \in Seq(Objects) /\ Len(results) - 0 = Len(results) /\ 0 <= Len(results)
    BY DEF IInv, ResultsTyped
  <2>2. Replaced(s.stack, t.stack, 0, o.class)
    BY <1>6, <1>8
  <2>4. Left(results, 0)
    BY <2>1 DEF Left
  <2>3. /\ Len(t.stack) = Len(results')
        /\ \A k \in 1 .. Len(results') : t.stack[k] = results'[k].class
    BY <1>2, <1>8, <2>1, <2>2, <2>4, ClassesPushed DEF IInv
  <2> QED  BY <1>1, <1>2, <1>3, <1>6, <1>9, <2>3, VariablesReached
<1>11. \A k \in 1 .. Len(ir') : ir'[k].op = "call" => ir'[k].func \notin Bodiless
  <2>1. CASE lit
    BY <2>1 DEF lit, ClassesAgree
  <2>2. CASE str \/ lvar
    <3>1. PICK i : ir' = Append(ir, i) /\ i.op # "call"
      <4>1. CASE str
        <5>1. PICK i : i = [op |-> "str", text |-> Item.sexpr.text]
          OBVIOUS
        <5>2. ir' = Append(ir, i) /\ i.op = "str"
          BY <4>1, <5>1 DEF str, emit
        <5> QED  BY <5>2
      <4>2. CASE lvar
        <5>1. PICK i : i = [op |-> "load", name |-> Item.sexpr.name]
          OBVIOUS
        <5>2. ir' = Append(ir, i) /\ i.op = "load"
          BY <4>2, <5>1 DEF lvar, emit
        <5> QED  BY <5>2
      <4> QED  BY <2>2, <4>1, <4>2
    <3> QED  BY <3>1 DEF ClassesAgree, IInv, IRTyped
  <2> QED  BY <2>1, <2>2
<1>12. Leads(c, t, ClassPoints, ClassSteps)
  BY <1>1, <1>2, ChainTaken
<1> QED  BY <1>1, <1>10, <1>11, <1>12, AgreeLed

LEMMA NodeAgrees ==
    ASSUME IInv, ClassesAgree, lasgn \/ call \/ block
    PROVE  ClassesAgree'
<1>1. todo # <<>> /\ status' = "compiling" /\ UNCHANGED <<results, variables, ir>>
  BY DEF lasgn, call, block, Parsing, Doing
<1>2. PICK c : Chain(c, ClassPoints, ClassSteps) /\ ClassesReached(c[1])
  BY DEF ClassesAgree
<1>3. Leads(c, c[1], ClassPoints, ClassSteps)
  BY <1>2, ClassNode
<1>4. ClassesReached(c[1])'
  BY <1>1, <1>2 DEF ClassesReached
<1> QED  BY <1>1, <1>3, <1>4, AgreeLed DEF ClassesAgree

LEMMA ListAgrees ==
    ASSUME IInv, ClassesAgree, list
    PROVE  ClassesAgree'
<1>1. /\ status' = "compiling" /\ todo # <<>> /\ UNCHANGED <<variables, ir>> /\ Item.do = "list"
      /\ todo \in Seq(Items) /\ todo' = Tail(todo)
  BY DEF list, Doing, compilerOnly, first, IInv, Balanced
<1>2. PICK c, s, t : /\ Chain(c, ClassPoints, ClassSteps) /\ s = c[1] /\ t = c[2]
                     /\ s \in ClassPoints /\ t \in ClassPoints /\ Item \in Items
                     /\ ClassesReached(s) /\ ClassStep(Item, s, t)
  BY <1>1, ClassItem
<1>3. PICK n \in Nat : n = Item.n /\ n <= Len(results)
  BY <1>1, Enough, ItemShapes DEF IInv
<1>4. PICK p : p = below(n) /\ results' = Append(p, NoObject)
  BY <1>3 DEF list
<1>5. Left(p, n)
  BY <1>3, <1>4, Slices DEF Left
<1>6. Replaced(s.stack, t.stack, n, "Array") /\ t.st = s.st
  BY <1>1, <1>2, <1>3 DEF ClassStep
<1>7. PICK o \in Objects : o = NoObject /\ o.class = "Array"
  <2>1. NoObject \in Objects
    BY DEF Objects
  <2>2. NoObject.class = "Array"
    BY DEF NoObject
  <2> QED  BY <2>1, <2>2
<1>11. Replaced(s.stack, t.stack, n, o.class) /\ results' = Append(p, o)
  <2>1. o.class = "Array"
    BY <1>7
  <2>2. Replaced(s.stack, t.stack, n, o.class)
    BY <1>6, <2>1
  <2>3. results' = Append(p, o)
    BY <1>4, <1>7
  <2> QED  BY <2>2, <2>3
<1>8. /\ Len(t.stack) = Len(results')
      /\ \A k \in 1 .. Len(results') : t.stack[k] = results'[k].class
  <2>1. ResultsTyped /\ n <= Len(results)
    BY <1>3 DEF IInv
  <2>2. s \in ClassPoints /\ t \in ClassPoints /\ ClassesReached(s)
    BY <1>2
  <2> QED  BY <1>5, <1>11, <2>1, <2>2, ClassesPushed
<1>9. ClassesReached(t)'
  BY <1>1, <1>2, <1>6, <1>8, VariablesReached
<1>10. Leads(c, t, ClassPoints, ClassSteps)
  BY <1>1, <1>2, ChainTaken
<1> QED  BY <1>1, <1>9, <1>10, AgreeLed DEF ClassesAgree

\* s leads to t by an assignment of a value of class k to x.
Assigning(s, t, x, k) ==
    /\ Replaced(s.stack, t.stack, 1, k) /\ k \in Classes
    /\ s.st[x] \in {"Error", k} /\ t.st = [s.st EXCEPT ![x] = k]

\* What a step of the evaluation says of an assignment and of a call.
LEMMA AssignStep ==
    ASSUME IInv, ClassesAgree, Doing("assign")
    PROVE  \E c, s, t : /\ Chain(c, ClassPoints, ClassSteps) /\ s = c[1] /\ t = c[2]
                        /\ s \in ClassPoints /\ t \in ClassPoints /\ ClassesReached(s)
                        /\ Assigning(s, t, Item.name, value.class)
<1>1. Item.do = "assign" /\ todo # <<>>
  BY DEF Doing
<1>2. PICK c, s, t : /\ Chain(c, ClassPoints, ClassSteps) /\ s = c[1] /\ t = c[2]
                     /\ s \in ClassPoints /\ t \in ClassPoints /\ Item \in Items
                     /\ ClassesReached(s) /\ ClassStep(Item, s, t)
  BY <1>1, ClassItem
<1>3. PICK k \in Classes : /\ Top(s.stack, 1) = <<k>> /\ Replaced(s.stack, t.stack, 1, k)
                           /\ s.st[Item.name] \in {"Error", k} /\ t.st = [s.st EXCEPT ![Item.name] = k]
  BY <1>1, <1>2 DEF ClassStep
<1>4. PICK n \in Nat : n = Len(results) /\ n > 0 /\ n = Len(s.stack)
  BY <1>2, ValueTyped DEF ClassesReached
<1>5. k = value.class
  <2>1. Top(s.stack, 1)[1] = s.stack[n - 1 + 1] /\ n - 1 + 1 = n
    BY <1>4 DEF Top
  <2>2. s.stack[n] = results[n].class
    BY <1>2, <1>4 DEF ClassesReached
  <2>3. Top(s.stack, 1)[1] = k
    BY <1>3
  <2>4. s.stack[n] = k
    BY <2>1, <2>3
  <2> QED  BY <1>4, <2>2, <2>4 DEF value
<1>6. Assigning(s, t, Item.name, k)
  BY <1>3 DEF Assigning
<1> QED  BY <1>2, <1>5, <1>6

LEMMA CallStep ==
    ASSUME IInv, ClassesAgree, Doing("call")
    PROVE  \E c, s, t : /\ Chain(c, ClassPoints, ClassSteps) /\ s = c[1] /\ t = c[2]
                        /\ s \in ClassPoints /\ t \in ClassPoints /\ ClassesReached(s)
                        /\ Replaced(s.stack, t.stack, Item.n + 1, ResultClass[Item.method]) /\ t.st = s.st
                        /\ Accepts(Item.method, [k \in 1 .. Item.n + 1 |-> operands(Item.n + 1)[k].class])
<1>1. Item.do = "call" /\ todo # <<>>
  BY DEF Doing
<1>2. PICK c, s, t : /\ Chain(c, ClassPoints, ClassSteps) /\ s = c[1] /\ t = c[2]
                     /\ s \in ClassPoints /\ t \in ClassPoints /\ Item \in Items
                     /\ ClassesReached(s) /\ ClassStep(Item, s, t)
  BY <1>1, ClassItem
<1>3. /\ Accepts(Item.method, Top(s.stack, Item.n + 1))
      /\ Replaced(s.stack, t.stack, Item.n + 1, ResultClass[Item.method]) /\ t.st = s.st
  BY <1>1, <1>2 DEF ClassStep
<1>4. PICK n \in Nat : n = Item.n + 1 /\ n <= Len(results)
  BY <1>1, Enough, ItemShapes DEF IInv
<1>5. Top(s.stack, n) = [k \in 1 .. n |-> operands(n)[k].class]
  <2>1. PICK l \in Nat : l = Len(results) /\ l = Len(s.stack)
    BY <1>2 DEF ClassesReached, IInv, ResultsTyped
  <2>2. ASSUME NEW k \in 1 .. n PROVE s.stack[l - n + k] = operands(n)[k].class
    <3>1. l - n + k \in 1 .. l
      BY <1>4, <2>1
    <3>2. s.stack[l - n + k] = results[l - n + k].class
      BY <1>2, <2>1, <3>1 DEF ClassesReached
    <3>3. operands(n)[k] = results[l - n + k]
      BY <1>4, <2>1, OperandsAre
    <3> QED  BY <3>2, <3>3
  <2> QED  BY <2>1, <2>2 DEF Top
<1> QED  BY <1>2, <1>3, <1>4, <1>5

\* A call that is accepted has a function, and is given what it takes.
LEMMA CallFits ==
    ASSUME IInv, ClassesAgree, Doing("call")
    PROVE  /\ AreObjects /\ HasMethod /\ Fits
           /\ func.class = ResultClass[Item.method] /\ <<recv.class, Item.method>> \notin Bodiless
<1>1. PICK n \in Nat, z \in Nat : n = Item.n + 1 /\ n = z + 1 /\ n <= Len(results)
  BY Enough, ItemShapes DEF Doing, IInv
<1>2. PICK ops : ops = operands(n)
  OBVIOUS
<1>3. ops \in Seq(Objects) /\ Len(ops) = n /\ \A k \in 1 .. n : ObjectTyped(ops[k])
  BY <1>1, <1>2, Slices
<1>4. PICK cs : cs = [k \in 1 .. n |-> ops[k].class]
  OBVIOUS
<1>5. Accepts(Item.method, cs)
  BY <1>1, <1>2, <1>4, CallStep
<1>6. PICK m : m = Item.method
  OBVIOUS
<1>7. /\ Len(cs) \in {1, 2} /\ cs[1] \in Classes
      /\ Len(cs) = 2 => cs[2] \in {"Num", "Nil"}
      /\ m \in DOMAIN Methods[cs[1]] /\ Methods[cs[1]][m].class = ResultClass[m]
      /\ Methods[cs[1]][m].args = IF Len(cs) = 2 THEN <<"int">> ELSE <<>>
      /\ <<cs[1], m>> \notin Bodiless
  BY <1>5, <1>6, Accepted
<1>8. Len(cs) = n /\ \A k \in 1 .. n : cs[k] = ops[k].class
  BY <1>4
<1>9. /\ recv = ops[1] /\ args = Tail(ops) /\ Len(Tail(ops)) = z /\ Tail(ops) \in Seq(Objects)
      /\ \A k \in 1 .. z : k + 1 \in 1 .. n /\ Tail(ops)[k] = ops[k + 1]
  <2>1. recv = ops[1] /\ args = Tail(ops)
    BY <1>1, <1>2 DEF recv, args
  <2>2. Len(ops) > 0 /\ Len(ops) = z + 1
    BY <1>1, <1>3
  <2> QED  BY <1>1, <1>3, <2>1, <2>2
<1>10. recv.class = cs[1] /\ DOMAIN args = 1 .. z
  BY <1>1, <1>8, <1>9
<1>11. z \in {0, 1}
  BY <1>1, <1>7, <1>8
<1>12. z = 1 => args[1] = ops[2] /\ ops[2].class \in {"Num", "Nil"} /\ ops[2].type = "int"
  <2>1. ASSUME z = 1 PROVE args[1] = ops[2] /\ ops[2].class \in {"Num", "Nil"}
    <3>1. 1 \in 1 .. z /\ 1 + 1 = 2 /\ 2 \in 1 .. n /\ Len(cs) = 2
      BY <1>1, <1>8, <2>1
    <3> QED  BY <1>7, <1>8, <1>9, <3>1
  <2>2. ASSUME z = 1 PROVE ops[2].type = "int"
    <3>1. PICK o \in Objects : o = ops[2] /\ ObjectTyped(o)
      BY <1>1, <1>3, <2>2
    <3>2. o.class \in {"Num", "Nil"}
      BY <2>1, <2>2, <3>1
    <3> QED  BY <3>1, <3>2, ObjectShapes DEF ObjectTyped, Type
  <2> QED  BY <2>1, <2>2
<1>13. AreObjects
  <2>1. ASSUME NEW k \in 1 .. z PROVE args[k].class # "Array"
    <3>1. z = 1 /\ k = 1
      BY <1>11
    <3> QED  BY <1>12, <3>1
  <2> QED  BY <1>7, <1>10, <2>1 DEF AreObjects
<1>14. HasMethod
  BY <1>6, <1>7, <1>10 DEF HasMethod
<1>15. func = Methods[cs[1]][m]
  BY <1>6, <1>10 DEF func
<1>16. Fits
  <2>1. PICK f : f = [k \in DOMAIN args |-> args[k].type]
    OBVIOUS
  <2>2. f = [k \in 1 .. z |-> args[k].type]
    BY <1>10, <2>1
  <2>3. CASE z = 0
    <3>1. func.args = <<>>
      BY <1>1, <1>7, <1>8, <1>15, <2>3
    <3>2. f = <<>>
      BY <2>2, <2>3
    <3> QED  BY <2>1, <3>1, <3>2 DEF Fits
  <2>4. CASE z = 1
    <3>1. func.args = <<"int">>
      BY <1>1, <1>7, <1>8, <1>15, <2>4
    <3>2. args[1].type = "int"
      BY <1>12, <2>4
    <3>3. f = <<"int">>
      BY <2>2, <2>4, <3>2
    <3> QED  BY <2>1, <3>1, <3>3 DEF Fits
  <2> QED  BY <1>11, <2>3, <2>4
<1> QED  BY <1>6, <1>7, <1>10, <1>13, <1>14, <1>15, <1>16

LEMMA AssignAgrees ==
    ASSUME IInv, ClassesAgree, assign
    PROVE  ClassesAgree'
<1>1. /\ status' = "compiling" /\ todo # <<>> /\ results' = results /\ Doing("assign")
      /\ todo \in Seq(Items) /\ todo' = Tail(todo)
  BY DEF assign, Doing, compilerOnly, first, IInv, Balanced
<1>2. PICK x, v : x = Item.name /\ v = value.class
  OBVIOUS
<1>3. PICK c, s, t : /\ Chain(c, ClassPoints, ClassSteps) /\ s = c[1] /\ t = c[2]
                     /\ s \in ClassPoints /\ t \in ClassPoints /\ ClassesReached(s)
                     /\ Assigning(s, t, x, v)
  BY <1>1, <1>2, AssignStep
<1>step. /\ Replaced(s.stack, t.stack, 1, v) /\ v \in Classes
         /\ s.st[x] \in {"Error", v} /\ t.st = [s.st EXCEPT ![x] = v]
  BY <1>3 DEF Assigning
<1>4. PICK n \in Nat : n = Len(results) /\ n > 0 /\ results[n].class = v
  <2>1. PICK n \in Nat : n = Len(results) /\ n > 0
    BY <1>1, ValueTyped
  <2> QED  BY <1>2, <2>1 DEF value
<1>5. Len(t.stack) = n /\ \A k \in 1 .. n : t.stack[k] = results[k].class
  <2>1. Len(s.stack) = n /\ \A k \in 1 .. n : s.stack[k] = results[k].class
    BY <1>3, <1>4 DEF ClassesReached
  <2>2. Len(t.stack) = n - 1 + 1 /\ t.stack[Len(t.stack)] = v /\ \A k \in 1 .. n - 1 : t.stack[k] = s.stack[k]
    BY <1>step, <2>1 DEF Replaced
  <2>3. \A k \in 1 .. n : k \in 1 .. n - 1 \/ k = n
    OBVIOUS
  <2>4. Len(t.stack) = n
    BY <2>2
  <2> QED  BY <1>4, <2>1, <2>2, <2>3, <2>4
<1>6. s.st \in Typings /\ x \in Names
  BY <1>1, <1>2, <1>3, ValueTyped DEF ClassPoints, Points
<1>7. \A y \in Names : t.st[y] = IF y = x THEN v ELSE s.st[y]
  BY <1>step, <1>6 DEF Typings
<1>8. /\ DOMAIN variables' = DOMAIN variables \cup {x}
      /\ \A y \in DOMAIN variables : variables'[y] = variables[y]
      /\ x \notin DOMAIN variables => variables'[x].class = v
  BY <1>2 DEF assign
<1>9. \A y \in Names : t.st[y] = IF y \in DOMAIN variables' THEN variables'[y].class ELSE "Error"
  <2>1. \A y \in Names : s.st[y] = IF y \in DOMAIN variables THEN variables[y].class ELSE "Error"
    BY <1>3 DEF ClassesReached
  <2>2. x \in DOMAIN variables => variables[x].class = v
    <3>1. ASSUME x \in DOMAIN variables PROVE variables[x].class = v
      <4>1. variables[x].class \in Classes
        BY <3>1 DEF IInv, VariablesTyped
      <4>2. s.st[x] = variables[x].class
        BY <1>6, <2>1, <3>1
      <4> QED  BY <1>step, <4>1, <4>2, MethodTables
    <3> QED  BY <3>1
  <2>3. ASSUME NEW y \in Names PROVE t.st[y] = IF y \in DOMAIN variables' THEN variables'[y].class ELSE "Error"
    <3>1. CASE y = x
      BY <1>7, <1>8, <2>2, <3>1
    <3>2. CASE y # x
      BY <1>7, <1>8, <2>1, <3>2
    <3> QED  BY <3>1, <3>2
  <2> QED  BY <2>3
<1>10. ClassesReached(t)'
  BY <1>1, <1>4, <1>5, <1>9 DEF ClassesReached
<1>11. \A k \in 1 .. Len(ir') : ir'[k].op = "call" => ir'[k].func \notin Bodiless
  <2>1. PICK i : i = [op |-> "store", name |-> Item.name, val |-> value.val]
    OBVIOUS
  <2>2. ir' = Append(ir, i) /\ i.op = "store"
    BY <2>1 DEF assign, emit
  <2> QED  BY <2>2 DEF ClassesAgree, IInv, IRTyped
<1>12. Leads(c, t, ClassPoints, ClassSteps)
  BY <1>1, <1>3, ChainTaken
<1> QED  BY <1>1, <1>10, <1>11, <1>12, AgreeLed

LEMMA InvokeAgrees ==
    ASSUME IInv, ClassesAgree, invoke
    PROVE  ClassesAgree'
<1>1. /\ status' = "compiling" /\ todo # <<>> /\ UNCHANGED variables /\ Doing("call")
      /\ todo \in Seq(Items) /\ todo' = Tail(todo)
  BY DEF invoke, Doing, compilerOnly, first, IInv, Balanced
<1>2. PICK n \in Nat : n = Item.n + 1 /\ n <= Len(results)
  BY <1>1, Enough, ItemShapes DEF IInv, Doing
<1>3. PICK c, s, t : /\ Chain(c, ClassPoints, ClassSteps) /\ s = c[1] /\ t = c[2]
                     /\ s \in ClassPoints /\ t \in ClassPoints /\ ClassesReached(s)
                     /\ Replaced(s.stack, t.stack, Item.n + 1, ResultClass[Item.method]) /\ t.st = s.st
  BY <1>1, CallStep
<1>4. PICK p, o : p = below(n) /\ o = RObject(func.class, func.type, reg)
  OBVIOUS
<1>5. results' = Append(p, o)
  BY <1>2, <1>4 DEF invoke
<1>6. Left(p, n)
  BY <1>2, <1>4, Slices DEF Left
<1>7. o \in Objects /\ o.class = ResultClass[Item.method]
  <2>1. PICK f : f = func
    OBVIOUS
  <2>2. f.type \in Types /\ f.class \in {"Num", "String", "Nil"}
    BY <1>1, <2>1, MethodTables DEF invoke, AreObjects, HasMethod, func
  <2>3. o \in Objects /\ o.class = f.class
    BY <1>4, <2>1, <2>2, RegIn DEF RObject, Objects
  <2> QED  BY <1>1, <2>1, <2>3, CallFits
<1>8. Replaced(s.stack, t.stack, n, o.class)
  BY <1>2, <1>3, <1>7
<1>9. /\ Len(t.stack) = Len(results')
      /\ \A k \in 1 .. Len(results') : t.stack[k] = results'[k].class
  <2>1. ResultsTyped /\ n <= Len(results)
    BY <1>2 DEF IInv
  <2>2. s \in ClassPoints /\ t \in ClassPoints /\ ClassesReached(s)
    BY <1>3
  <2> QED  BY <1>5, <1>6, <1>7, <1>8, <2>1, <2>2, ClassesPushed
<1>10. ClassesReached(t)'
  BY <1>1, <1>3, <1>9, VariablesReached
<1>11. \A k \in 1 .. Len(ir') : ir'[k].op = "call" => ir'[k].func \notin Bodiless
  <2>1. PICK i : ir' = Append(ir, i) /\ i.func = <<recv.class, Item.method>>
    <3>1. PICK vals : vals = [k \in 1 .. Item.n + 1 |-> operands(Item.n + 1)[k].val]
      OBVIOUS
    <3>2. PICK i : i = [op |-> "call", func |-> <<recv.class, Item.method>>, args |-> vals]
      OBVIOUS
    <3>3. ir' = Append(ir, i)
      BY <3>1, <3>2 DEF invoke, emit
    <3> QED  BY <3>2, <3>3
  <2>2. i.func \notin Bodiless
    BY <1>1, <2>1, CallFits
  <2> QED  BY <2>1, <2>2 DEF ClassesAgree, IInv, IRTyped
<1>12. Leads(c, t, ClassPoints, ClassSteps)
  BY <1>1, <1>3, ChainTaken
<1> QED  BY <1>1, <1>10, <1>11, <1>12, AgreeLed

\* None of the ways in which compilation ends without code is open.
LEMMA NeverStuck ==
    ASSUME IInv, ClassesAgree
    PROVE  ~raises /\ ~crashes /\ ~malforms
<1>1. ASSUME Doing("call") PROVE AreObjects /\ HasMethod /\ Fits
  BY <1>1, CallFits
<1>2. ASSUME Doing("assign")
      PROVE  /\ value.class # "Array" /\ value.class \in Classes
             /\ Item.name \in DOMAIN variables => variables[Item.name].type = value.type
  <2>1. PICK x, o : x = Item.name /\ o = value
    OBVIOUS
  <2>2. PICK s : ClassesReached(s) /\ o.class \in Classes /\ s.st[x] \in {"Error", o.class}
    BY <1>2, <2>1, AssignStep DEF Assigning
  <2>3. o \in Objects /\ ObjectTyped(o) /\ x \in Names
    BY <1>2, <2>1, ValueTyped
  <2>4. o.class # "Array" /\ o.type = Type(o.class)
    BY <2>2, <2>3, MethodTables, ObjectShapes DEF ObjectTyped
  <2>5. ASSUME x \in DOMAIN variables PROVE variables[x].type = o.type
    <3>1. variables[x].class \in Classes /\ variables[x].type = Type(variables[x].class)
      BY <2>5 DEF IInv, VariablesTyped
    <3>2. s.st[x] = variables[x].class
      BY <2>2, <2>3, <2>5 DEF ClassesReached
    <3>3. variables[x].class = o.class
      BY <2>2, <3>1, <3>2, MethodTables
    <3> QED  BY <2>4, <3>1, <3>3
  <2> QED  BY <2>1, <2>2, <2>4, <2>5
<1>3. ASSUME Parsing("lvar") PROVE Item.sexpr.name \in DOMAIN variables
  <2>1. todo # <<>> /\ Item.do = "parse"
    BY <1>3 DEF Parsing, Doing
  <2>2. PICK s : s \in ClassPoints /\ Item \in Items /\ ClassesReached(s) /\ Class(Item.sexpr, s.st).v # "Error"
    BY <2>1, ClassItem DEF ClassStep
  <2>3. PICK e, env : e = Item.sexpr /\ env = s.st
    OBVIOUS
  <2>4. e \in Sexprs /\ e.type = "lvar" /\ env \in Typings
    BY <1>3, <2>1, <2>2, <2>3, ItemShapes DEF Parsing, ClassPoints, Points
  <2>5. e.name \in Names
    BY <2>4, SexprsAssumption DEF AreSexprs
  <2>6. PICK rs : Class(e, env) = Classified(e, env, rs)
    BY <2>4, ClassAssumption
  <2>7. Class(e, env).v = env[e.name]
    BY <2>4, <2>6 DEF Classified
  <2> QED  BY <2>2, <2>3, <2>5, <2>7 DEF ClassesReached
<1>4. ~raises
  <2>1. ~(Doing("assign") /\ (value.class = "Array" \/ (IsNew /\ value.class \notin Classes)))
    BY <1>2
  <2>2. ~(Doing("call") /\ ~AreObjects)
    BY <1>1
  <2> QED  BY <1>3, <2>1, <2>2 DEF raises
<1>5. ~crashes
  BY <1>1 DEF crashes
<1>6. ~malforms
  BY <1>1, <1>2 DEF malforms, IsNew
<1> QED  BY <1>4, <1>5, <1>6

LEMMA AgreeKept ==
    ASSUME ClassesAgree, UNCHANGED compiler, status' \in {"compiling", "running", "finished"}
    PROVE  ClassesAgree'
<1>1. UNCHANGED <<todo, results, variables, ir>>
  BY DEF compiler
<1>2. PICK c : Chain(c, ClassPoints, ClassSteps) /\ ClassesReached(c[1])
  BY DEF ClassesAgree
<1>3. Chain(c, ClassPoints, ClassSteps)' /\ ClassesReached(c[1])'
  BY <1>1, <1>2 DEF Chain, ClassesReached
<1>4. \A k \in 1 .. Len(ir') : ir'[k].op = "call" => ir'[k].func \notin Bodiless
  BY <1>1 DEF ClassesAgree
<1> QED  BY <1>3, <1>4 DEF ClassesAgree

LEMMA NextAgrees ==
    ASSUME IInv, ClassesAgree, [Next]_vars
    PROVE  ClassesAgree'
<1>1. CASE Compile
  BY <1>1, LeafAgrees, NodeAgrees, ListAgrees, AssignAgrees, InvokeAgrees DEF Compile
<1>2. CASE raises \/ crashes \/ malforms
  BY <1>2, NeverStuck
<1>3. CASE finish
  <2>1. UNCHANGED compiler
    BY <1>3 DEF finish
  <2>2. ~\E k \in DOMAIN ir : ir[k].op = "call" /\ ir[k].func \in Bodiless
    <3>1. DOMAIN ir = 1 .. Len(ir)
      BY DEF IInv, IRTyped
    <3> QED  BY <3>1 DEF ClassesAgree
  <2>3. status' = "running"
    BY <1>3, <2>2 DEF finish
  <2> QED  BY <2>1, <2>3, AgreeKept
<1>4. CASE Run
  <2>1. UNCHANGED compiler
    BY <1>4 DEF Run, runStr, runLoad, runStore, runPlus, runMinus, runToS, runLength, runPuts, runReturn, gives
  <2>2. status' \in {"compiling", "running", "finished"}
    BY <1>4 DEF Run, runStr, runLoad, runStore, runPlus, runMinus, runToS, runLength, runPuts, runReturn, gives,
                ClassesAgree
  <2> QED  BY <2>1, <2>2, AgreeKept
<1>5. CASE Finished \/ UNCHANGED vars
  <2>1. UNCHANGED compiler /\ status' = status
    BY <1>5 DEF Finished, vars
  <2> QED  BY <2>1, AgreeKept DEF ClassesAgree
<1> QED  BY <1>1, <1>2, <1>3, <1>4, <1>5 DEF Next, Give

LEMMA InitAgrees ==
    ASSUME Init, WellTyped(program)
    PROVE  ClassesAgree
<1>1. /\ todo = <<parse(program)>> /\ results = <<>> /\ variables = <<>> /\ ir = <<>> /\ status = "compiling"
      /\ program \in Sexprs
  BY SexprsAssumption DEF Init
<1>2. PICK r : r = Class(program, Untyped)
  OBVIOUS
<1>3. Untyped \in Typings /\ Untyped \in [Names -> {"Error"}]
  BY DEF Untyped, Typings
<1>4. r \in [v : Kinds, st : Typings] /\ r.v # "Error"
  BY <1>1, <1>2, <1>3, ClassAssumption DEF WellTyped
<1>5. PICK s, t : s = [stack |-> <<>>, st |-> Untyped] /\ t = [stack |-> <<r.v>>, st |-> r.st]
  OBVIOUS
<1>6. s \in ClassPoints /\ t \in ClassPoints
  <2>1. r.v \in Agreeing /\ r.st \in Typings
    BY <1>4 DEF Agreeing
  <2>2. <<>> \in Seq(Agreeing) /\ <<r.v>> \in Seq(Agreeing)
    BY <2>1
  <2> QED  BY <1>3, <1>5, <2>1, <2>2 DEF ClassPoints, Points
<1>7. PICK i : i = parse(program)
  OBVIOUS
<1>8. i \in Items /\ i.do = "parse" /\ i.sexpr = program
  BY <1>1, <1>7, ItemsMade DEF parse
<1>9. Replaced(s.stack, t.stack, 0, r.v)
  <2>1. s.stack = <<>> /\ t.stack = <<r.v>>
    BY <1>5
  <2> QED  BY <2>1 DEF Replaced
<1>10. ClassStep(i, s, t)
  BY <1>2, <1>4, <1>5, <1>8, <1>9 DEF ClassStep
<1>11. PICK c : c = [k \in 1 .. 2 |-> IF k = 1 THEN s ELSE t]
  OBVIOUS
<1>12. c[1] = s /\ c[2] = t /\ c \in [1 .. 2 -> ClassPoints]
  BY <1>6, <1>11
<1>13. Chain(c, ClassPoints, ClassSteps)
  <2>1. Len(todo) = 1 /\ todo[1] = i
    BY <1>1, <1>7
  <2>2. <<i, s, t>> \in ClassSteps
    BY <1>6, <1>8, <1>10, ClassStepIn
  <2>3. \A k \in 1 .. 1 : k = 1 /\ k + 1 = 2
    OBVIOUS
  <2> QED  BY <1>12, <2>1, <2>2, <2>3 DEF Chain
<1>14. ClassesReached(s)
  <2>1. s.stack = <<>> /\ s.st = Untyped
    BY <1>5
  <2> QED  BY <1>1, <2>1 DEF ClassesReached, Untyped
<1> QED  BY <1>1, <1>12, <1>13, <1>14 DEF ClassesAgree

\* A program whose classes agree is compiled to code that links: parse_sexpr
\* looks up no variable and no method that is missing, and hands LLVM no store
\* or call whose types differ, though it checks none of this.
THEOREM WellTypedLinks == Spec => []WellTypedCompiles
<1> DEFINE I == IInv /\ (WellTyped(program) => ClassesAgree)
<1>1. Init => I
  BY InitIInv, InitAgrees
<1>2. I /\ [Next]_vars => I'
  <2>1. ASSUME I, [Next]_vars PROVE I'
    <3>1. program' = program
      BY <2>1 DEF Next, Compile, Give, Run, lit, str, lvar, lasgn, call, block, list, assign, invoke, raises, crashes,
                  malforms, finish, Stop, compilerOnly, runStr, runLoad, runStore, runPlus, runMinus, runToS,
                  runLength, runPuts, runReturn, gives, Finished, vars
    <3>2. WellTyped(program)' => WellTyped(program)
      BY <3>1 DEF WellTyped
    <3> QED  BY <2>1, <3>2, NextIInv, NextAgrees
  <2> QED  BY <2>1
<1>3. I => WellTypedCompiles
  BY DEF WellTypedCompiles, ClassesAgree
<1> QED  BY <1>1, <1>2, <1>3, PTL DEF Spec

-----------------------------------------------------------------------------
(* The evaluation to values of a program that is compiled.                 *)

Meanings    == Denotations \cup {Unset}
ValuePoints == Points(Meanings, States)

ValueStep(i, s, t) ==
    /\ i.do = "parse" => /\ <<i.sexpr, s.st>> \in Evaluations
                         /\ Replaced(s.stack, t.stack, 0, Meaning(i.sexpr, s.st).v)
                         /\ t.st = Meaning(i.sexpr, s.st).st
    /\ i.do = "list" => Replaced(s.stack, t.stack, i.n, Unset) /\ t.st = s.st
    /\ i.do = "assign" => /\ Replaced(s.stack, t.stack, 1, Top(s.stack, 1)[1])
                          /\ t.st = Assigned(s.st, i.name, Top(s.stack, 1)[1])
    /\ i.do = "call" /\ Applies(i.method, Top(s.stack, i.n + 1)) =>
           /\ Replaced(s.stack, t.stack, i.n + 1, Apply(i.method, Top(s.stack, i.n + 1), s.st).v)
           /\ t.st = Apply(i.method, Top(s.stack, i.n + 1), s.st).st

ValueSteps == { z \in Items \X ValuePoints \X ValuePoints : ValueStep(z[1], z[2], z[3]) }

LEMMA ValueStepIn ==
    ASSUME NEW i \in Items, NEW s \in ValuePoints, NEW t \in ValuePoints
    PROVE  <<i, s, t>> \in ValueSteps <=> ValueStep(i, s, t)
  BY DEF ValueSteps

MeantBy(e, es, st, rs) ==
    /\ rs \in Seq([v : Meanings, st : States]) /\ Len(rs) = Len(es)
    /\ \A k \in 1 .. Len(rs) : /\ <<es[k], Before(rs, st, k)>> \in Evaluations
                               /\ rs[k] = Meaning(es[k], Before(rs, st, k))
    /\ Meaning(e, st) = Result(e, st, rs)

\* What is evaluated has a value, from those of its children.
LEMMA MeantAt ==
    ASSUME NEW e, NEW st, <<e, st>> \in Evaluations
    PROVE  /\ e \in Sexprs /\ st \in States /\ Meaning(e, st) \in Results
           /\ MeantBy(e, Children(e), st, MeaningAll(Children(e), st))
<1>0. PICK rs : rs = MeaningAll(Children(e), st)
  OBVIOUS
<1>1. PICK z \in Evaluations : z = <<e, st>>
  OBVIOUS
<1>2. z[1] = e /\ z[2] = st /\ z \in Sexprs \X States
  BY <1>1, MeaningAssumption
<1>3. /\ Meaning(z[1], z[2]) \in Results /\ MeantInTurn(Children(z[1]), z[2], Evaluations)
      /\ Meaning(z[1], z[2]) = Result(z[1], z[2], MeaningAll(Children(z[1]), z[2]))
  BY MeaningAssumption DEF AreMeant
<1>4. PICK es : es = Children(e)
  OBVIOUS
<1>5. MeantInTurn(es, st, Evaluations) /\ rs = MeaningAll(es, st)
  BY <1>0, <1>2, <1>3, <1>4
<1>6. /\ rs \in Seq(Results) /\ Len(rs) = Len(es)
      /\ \A k \in 1 .. Len(es) : <<es[k], Before(rs, st, k)>> \in Evaluations /\ rs[k] = Meaning(es[k], Before(rs, st, k))
  BY <1>5 DEF MeantInTurn
<1>7. Results = [v : Meanings, st : States]
  BY DEF Results, Meanings
<1> QED  BY <1>0, <1>2, <1>3, <1>4, <1>6, <1>7 DEF MeantBy

LEMMA ValueNode ==
    ASSUME IInv, NEW c, Chain(c, ValuePoints, ValueSteps), lasgn \/ call \/ block
    PROVE  Leads(c, c[1], ValuePoints, ValueSteps)
<1>1. todo \in Seq(Items) /\ todo # <<>> /\ Item.do = "parse"
  BY DEF IInv, Balanced, lasgn, call, block, Parsing, Doing
<1>2. PICK s \in ValuePoints, t \in ValuePoints : s = c[1] /\ t = c[2] /\ <<Item, s, t>> \in ValueSteps
  BY <1>1, ChainFirst
<1>3. PICK e \in Sexprs : e = Item.sexpr
  BY ChildrenFirst
<1>4. PICK es \in Seq(Sexprs), w \in Items :
          /\ es = Children(e) /\ e.type \in {"lasgn", "call", "block"}
          /\ todo' = (parseAll(es) \o <<w>>) \o Tail(todo)
          /\ lasgn => w = [do |-> "assign", name |-> e.name]
          /\ call => w = [do |-> "call", method |-> e.method, n |-> Len(e.args)]
          /\ block => w = [do |-> "list", n |-> Len(e.body)]
  BY <1>3, ChildrenFirst
<1>5. ValueStep(Item, s, t)
  BY <1>1, <1>2, ValueStepIn, Enough DEF IInv
<1>6. PICK st, r : st = s.st /\ r = Meaning(e, st)
  OBVIOUS
<1>7. <<e, st>> \in Evaluations /\ Replaced(s.stack, t.stack, 0, r.v) /\ t.st = r.st
  BY <1>1, <1>3, <1>5, <1>6 DEF ValueStep
<1>8. PICK rs : rs = MeaningAll(es, st)
  OBVIOUS
<1>9. /\ rs \in Seq([v : Meanings, st : States]) /\ Len(rs) = Len(es)
      /\ \A k \in 1 .. Len(rs) : /\ <<es[k], Before(rs, st, k)>> \in Evaluations
                                 /\ rs[k] = Meaning(es[k], Before(rs, st, k))
      /\ r = Result(e, st, rs)
  <2>1. <<e, st>> \in Evaluations
    BY <1>7
  <2>2. MeantBy(e, es, st, rs)
    BY <1>4, <1>8, <2>1, MeantAt
  <2> QED  BY <1>6, <2>2 DEF MeantBy
<1>10. ParsesIn(es, s, rs, ValueSteps)
  <2>1. ASSUME NEW k \in 1 .. Len(es)
        PROVE  <<parse(es[k]), PointAt(s, rs, k - 1), PointAt(s, rs, k)>> \in ValueSteps
    <3>1. PICK l \in Nat : l = k - 1 /\ l <= Len(rs) /\ k \in Nat /\ k <= Len(rs) /\ k \in 1 .. Len(rs)
      BY <1>9
    <3>2. /\ Replaced(PointAt(s, rs, k - 1).stack, PointAt(s, rs, k).stack, 0, rs[k].v)
          /\ PointAt(s, rs, k - 1).st = Before(rs, s.st, k)
          /\ PointAt(s, rs, k).st = rs[k].st
      BY <1>9, <3>1, PointSteps DEF ValuePoints
    <3>3. PICK p, q : p = PointAt(s, rs, k - 1) /\ q = PointAt(s, rs, k)
      OBVIOUS
    <3>4. p = PointAt(s, rs, l)
      BY <3>1, <3>3
    <3>5. p \in ValuePoints
      BY <1>9, <3>1, <3>4, PointsMade DEF ValuePoints
    <3>6. q \in ValuePoints
      BY <1>9, <3>1, <3>3, PointsMade DEF ValuePoints
    <3>7. PICK i : i = parse(es[k])
      OBVIOUS
    <3>8. i \in Items /\ i.do = "parse" /\ i.sexpr = es[k]
      BY <3>7, ItemsMade, Member DEF parse
    <3>9. rs[k] = Meaning(es[k], p.st) /\ <<es[k], p.st>> \in Evaluations
      BY <1>6, <1>9, <3>1, <3>2, <3>3
    <3>10. ValueStep(i, p, q)
      BY <3>2, <3>3, <3>8, <3>9 DEF ValueStep
    <3> QED  BY <3>3, <3>5, <3>6, <3>7, <3>8, <3>10, ValueStepIn
  <2> QED  BY <2>1 DEF ParsesIn
<1>11. PICK p : p = PointAt(s, rs, Len(rs))
  OBVIOUS
<1>12. /\ Replaced(p.stack, t.stack, Len(rs), r.v) /\ Top(p.stack, Len(rs)) = ValuesOf(rs)
       /\ p.st = After(rs, st)
  <2>1. PICK x : x = r.v
    OBVIOUS
  <2>2. rs \in Seq([v : Meanings, st : States])
    BY <1>9
  <2>3. Replaced(s.stack, t.stack, 0, x)
    BY <1>7, <2>1
  <2>4. s \in Points(Meanings, States)
    BY DEF ValuePoints
  <2>5. t \in Points(Meanings, States)
    BY DEF ValuePoints
  <2>6. Replaced(PointAt(s, rs, Len(rs)).stack, t.stack, Len(rs), x)
    BY <2>2, <2>3, <2>4, <2>5, PointReplaced, Zenon
  <2>7. /\ Top(PointAt(s, rs, Len(rs)).stack, Len(rs)) = ValuesOf(rs)
        /\ PointAt(s, rs, Len(rs)).st = After(rs, s.st)
    BY <2>2, <2>4, PointTop, SMTT(30)
  <2> QED  BY <1>6, <1>11, <2>1, <2>6, <2>7
<1>13. p \in ValuePoints
  <2>1. PICK n \in Nat : n = Len(rs) /\ n <= Len(rs)
    BY <1>9
  <2> QED  BY <1>9, <1>11, <2>1, PointsMade DEF ValuePoints
<1>14. ValueStep(w, p, t)
  <2>1. CASE lasgn
    <3>1. e.type = "lasgn" /\ w = [do |-> "assign", name |-> e.name]
      BY <1>3, <1>4, <2>1 DEF lasgn, Parsing
    <3>2. es = <<e.val>>
      BY <1>4, <3>1, Zenon DEF Children
    <3>3. Len(rs) = 1
      BY <1>9, <3>2
    <3>4. r = [v |-> rs[1].v, st |-> Assigned(rs[1].st, e.name, rs[1].v)]
      BY <1>9, <3>1 DEF Result
    <3>5. p.st = rs[1].st
      BY <1>12, <3>3 DEF After, Before
    <3>6. Top(p.stack, 1)[1] = rs[1].v
      BY <1>12, <3>3 DEF ValuesOf
    <3>7. w.do = "assign" /\ w.name = e.name
      BY <3>1
    <3>8. r.v = rs[1].v /\ r.st = Assigned(rs[1].st, e.name, rs[1].v)
      BY <3>4
    <3>9. Replaced(p.stack, t.stack, 1, Top(p.stack, 1)[1])
      BY <1>12, <3>3, <3>6, <3>8
    <3>10. t.st = Assigned(p.st, w.name, Top(p.stack, 1)[1])
      BY <1>7, <3>5, <3>6, <3>7, <3>8
    <3> QED  BY <3>7, <3>9, <3>10 DEF ValueStep
  <2>2. CASE call
    <3>1. e.type = "call" /\ w = [do |-> "call", method |-> e.method, n |-> Len(e.args)]
      BY <1>3, <1>4, <2>2 DEF call, Parsing
    <3>2. es = <<e.recv>> \o e.args
      BY <1>4, <3>1, Zenon DEF Children
    <3>3. Len(rs) = Len(e.args) + 1
      <4>1. PICK x \in Sexprs, others \in Seq(Sexprs) : x = e.recv /\ others = e.args
        BY <3>1, SexprsAssumption DEF AreSexprs
      <4>2. PICK q \in Seq(Sexprs) : q = <<x>> /\ Len(q) = 1
        <5>1. <<x>> \in Seq(Sexprs)
          OBVIOUS
        <5> QED  BY <5>1
      <4>3. Len(q \o others) = Len(q) + Len(others) /\ Len(others) \in Nat
        OBVIOUS
      <4>4. Len(q \o others) = Len(others) + 1
        BY <4>2, <4>3
      <4> QED  BY <1>9, <3>2, <4>1, <4>2, <4>4
    <3>4. w.do = "call" /\ w.method = e.method /\ w.n + 1 = Len(rs)
      BY <3>1, <3>3
    <3>5. PICK vs : vs = ValuesOf(rs) /\ vs = Top(p.stack, w.n + 1)
      BY <1>12, <3>4
    <3>6. ASSUME Applies(e.method, vs)
          PROVE  r.v = Apply(e.method, vs, p.st).v /\ r.st = Apply(e.method, vs, p.st).st
      BY <1>9, <1>12, <3>1, <3>5, <3>6 DEF Result
    <3>7. Replaced(p.stack, t.stack, w.n + 1, r.v) /\ t.st = r.st
      BY <1>7, <1>12, <3>4
    <3> QED  BY <3>4, <3>5, <3>6, <3>7 DEF ValueStep
  <2>3. CASE block
    <3>1. e.type = "block" /\ w = [do |-> "list", n |-> Len(e.body)]
      BY <1>3, <1>4, <2>3 DEF block, Parsing
    <3>2. es = e.body
      BY <1>4, <3>1, Zenon DEF Children
    <3>3. r.v = Unset /\ r.st = After(rs, st)
      BY <1>9, <3>1 DEF Result
    <3>4. w.do = "list" /\ w.n = Len(rs)
      BY <1>9, <3>1, <3>2
    <3> QED  BY <1>7, <1>12, <3>3, <3>4 DEF ValueStep
  <2> QED  BY <2>1, <2>2, <2>3
<1>15. <<w, p, t>> \in ValueSteps
  BY <1>13, <1>14, ValueStepIn
<1>16. Leads(c, c[1], Points(Meanings, States), ValueSteps)
  BY <1>1, <1>2, <1>4, <1>9, <1>10, <1>11, <1>15, ChainChildren DEF ValuePoints
<1> QED  BY <1>16 DEF ValuePoints

-----------------------------------------------------------------------------
(* What the instructions give and do, by the values of those before them.  *)

Read(v, vals)     == IF v.kind = "const" THEN int(v.n) ELSE vals[v.n]
ReadAll(os, vals) == [j \in 1 .. Len(os) |-> Read(os[j], vals)]

\* Running, a string may lack its length.
Reads(x, v) == x = v \/ \E t, l : x = ptr(t, Unset) /\ v = ptr(t, l)

\* Instruction i gives v, and leads from the state st to t.
Effect(i, v, st, t, vals) ==
    /\ i.op = "str" => v = ptr([lit |-> i.text], StrLen[i.text]) /\ t = st
    /\ i.op = "load" => v = st.env[i.name] /\ t = st
    /\ i.op = "store" => v = Read(i.val, vals) /\ t = Assigned(st, i.name, v)
    /\ i.op = "call" => /\ v = Apply(i.func[2], ReadAll(i.args, vals), st).v
                        /\ t = Apply(i.func[2], ReadAll(i.args, vals), st).st

\* The values of the instructions, and the states before and after them.
Coded(vals, sts) ==
    /\ vals \in Seq(Denotations) /\ Len(vals) = Len(ir)
    /\ sts \in Seq(States) /\ Len(sts) = Len(ir) + 1 /\ sts[1] = Start
    /\ \A k \in 1 .. Len(ir) : Effect(ir[k], vals[k], sts[k], sts[k + 1], vals)

\* The memory holds what the state says, where it has been written.
Remembers(st) == /\ \A x \in Names : mem[x] # Unset => Reads(mem[x], st.env[x])
                 /\ out = st.out

Executed(vals, sts) ==
    ~garbage => /\ \A k \in 1 .. Len(regs) : Reads(regs[k], vals[k])
                /\ Remembers(sts[Len(regs) + 1])

\* v is known after n instructions, and so are the operands of i.
Known(v, n)  == v.kind = "const" \/ (v.kind = "reg" /\ v.n \in 1 .. n)
Knowns(i, n) == /\ i.op = "store" => Known(i.val, n)
                /\ i.op = "call" => \A j \in 1 .. Len(i.args) : Known(i.args[j], n)

LEMMA ReadsShape ==
    ASSUME NEW x \in Values, NEW v, Reads(x, v)
    PROVE  /\ x.type = "int" => v = x
           /\ x.type = "ptr" => /\ v.text = x.text
                                /\ x.len # Unset => v.len = x.len
<1>1. CASE x = v
  BY <1>1
<1>2. CASE \E t, l : x = ptr(t, Unset) /\ v = ptr(t, l)
  <2>1. PICK t, l : x = ptr(t, Unset) /\ v = ptr(t, l)
    BY <1>2
  <2>2. x.type = "ptr" /\ x.text = t /\ x.len = Unset /\ v.text = t
    BY <2>1 DEF ptr
  <2> QED  BY <2>2
<1> QED  BY <1>1, <1>2 DEF Reads

LEMMA KnownInstructions ==
    ASSUME IRTyped, NEW k \in 1 .. Len(ir)
    PROVE  Knowns(ir[k], k - 1)
<1>1. ir[k] \in Instructions /\ InstructionTyped(k)
  BY DEF IRTyped
<1>2. ASSUME ir[k].op = "store" PROVE Known(ir[k].val, k - 1)
  BY <1>1, <1>2 DEF InstructionTyped, StoreTyped, ValTyped, Known
<1>3. ASSUME ir[k].op = "call", NEW j \in 1 .. Len(ir[k].args) PROVE Known(ir[k].args[j], k - 1)
  <2>1. CallTyped(k) /\ ir[k].args \in Seq(Vals) /\ ir[k].func[1] \in Classes
    BY <1>1, <1>3, InstructionShapes DEF InstructionTyped
  <2>2. PICK r : r = Methods[ir[k].func[1]][ir[k].func[2]]
    OBVIOUS
  <2>3. /\ r.args \in Seq(Types) /\ Len(ir[k].args) = Len(r.args) + 1
        /\ ValTyped(ir[k].args[1], Type(ir[k].func[1]), k - 1)
        /\ \A l \in 1 .. Len(r.args) : ValTyped(ir[k].args[l + 1], r.args[l], k - 1)
    BY <2>1, <2>2, MethodTables DEF CallTyped
  <2>4. j = 1 \/ (j - 1 \in 1 .. Len(r.args) /\ j = (j - 1) + 1)
    BY <2>1, <2>3
  <2>5. PICK t : ValTyped(ir[k].args[j], t, k - 1)
    BY <2>3, <2>4
  <2> QED  BY <2>5 DEF ValTyped, Known
<1> QED  BY <1>2, <1>3 DEF Knowns

\* What is known reads the same when more is.
LEMMA EffectKept ==
    ASSUME NEW n \in Nat, NEW vals, NEW more, \A k \in 1 .. n : more[k] = vals[k],
           NEW i, Knowns(i, n), NEW v, NEW st, NEW t, Effect(i, v, st, t, vals)
    PROVE  Effect(i, v, st, t, more)
<1>1. ASSUME NEW x, Known(x, n) PROVE Read(x, more) = Read(x, vals)
  BY <1>1 DEF Known, Read
<1>2. ASSUME i.op = "store" PROVE Read(i.val, more) = Read(i.val, vals)
  BY <1>1, <1>2 DEF Knowns
<1>3. ASSUME i.op = "call" PROVE ReadAll(i.args, more) = ReadAll(i.args, vals)
  <2>1. \A j \in 1 .. Len(i.args) : Read(i.args[j], more) = Read(i.args[j], vals)
    BY <1>1, <1>3 DEF Knowns
  <2> QED  BY <2>1 DEF ReadAll
<1>4. ASSUME i.op = "store" PROVE v = Read(i.val, more) /\ t = Assigned(st, i.name, v)
  BY <1>2, <1>4 DEF Effect
<1>5. ASSUME i.op = "call"
      PROVE  /\ v = Apply(i.func[2], ReadAll(i.args, more), st).v
             /\ t = Apply(i.func[2], ReadAll(i.args, more), st).st
  BY <1>3, <1>5 DEF Effect
<1> QED  BY <1>4, <1>5 DEF Effect

\* Another instruction gives v, and leads to t.
Codes(more, vals, sts, v, t) ==
    /\ \A k \in 1 .. Len(ir) : more[k] = vals[k]
    /\ more[Len(ir) + 1] = v /\ sts[Len(ir) + 2] = t /\ Len(ir) \in Nat

\* An instruction is added, with its value and the state after it.
LEMMA CodeAdded ==
    ASSUME IInv, NEW vals, NEW sts, Coded(vals, sts), Executed(vals, sts), UNCHANGED machine,
           NEW i, ir' = Append(ir, i), Knowns(i, Len(ir)),
           NEW v \in Denotations, NEW t \in States, Effect(i, v, sts[Len(ir) + 1], t, vals)
    PROVE  \E vs, ss : Coded(vs, ss)' /\ Executed(vs, ss)' /\ Codes(vs, vals, ss, v, t)
<1>0. PICK vs, ss : vs = Append(vals, v) /\ ss = Append(sts, t)
  OBVIOUS
<1>1. ir \in Seq(Instructions) /\ regs \in Seq(Values) /\ Len(regs) <= Len(ir)
  BY DEF IInv, IRTyped, MachineTyped
<1>2. PICK n \in Nat : n = Len(ir)
  BY <1>1
<1>3. Len(ir') = n + 1 /\ ir'[n + 1] = i /\ \A k \in 1 .. n : ir'[k] = ir[k]
  BY <1>1, <1>2
<1>4. vals \in Seq(Denotations) /\ Len(vals) = n /\ sts \in Seq(States) /\ Len(sts) = n + 1 /\ sts[1] = Start
  BY <1>2 DEF Coded
<1>5. /\ vs \in Seq(Denotations) /\ Len(vs) = n + 1 /\ vs[n + 1] = v
      /\ \A k \in 1 .. n : vs[k] = vals[k]
  BY <1>0, <1>4
<1>6. /\ ss \in Seq(States) /\ Len(ss) = n + 2 /\ ss[n + 2] = t
      /\ \A k \in 1 .. n + 1 : ss[k] = sts[k]
  BY <1>0, <1>4
<1>7. ASSUME NEW k \in 1 .. n + 1 PROVE Effect(ir'[k], vs[k], ss[k], ss[k + 1], vs)
  <2>1. CASE k = n + 1
    <3>1. n + 1 \in 1 .. n + 1 /\ (n + 1) + 1 = n + 2
      OBVIOUS
    <3>2. Effect(i, v, sts[n + 1], t, vals) /\ Knowns(i, n)
      BY <1>2
    <3>3. \A j \in 1 .. n : vs[j] = vals[j]
      BY <1>5
    <3>4. Effect(i, v, sts[n + 1], t, vals)
      BY <3>2
    <3>5. Effect(i, v, sts[n + 1], t, vs)
      BY <3>2, <3>3, <3>4, EffectKept
    <3>6. ir'[n + 1] = i /\ vs[n + 1] = v /\ ss[n + 1] = sts[n + 1] /\ ss[(n + 1) + 1] = t
      BY <1>3, <1>5, <1>6, <3>1
    <3> QED  BY <2>1, <3>5, <3>6
  <2>2. CASE k \in 1 .. n
    <3>1. Effect(ir[k], vals[k], sts[k], sts[k + 1], vals)
      BY <1>2, <2>2 DEF Coded
    <3>2. Knowns(ir[k], k - 1)
      BY <1>2, <2>2, KnownInstructions DEF IInv
    <3>3. k - 1 \in Nat /\ \A j \in 1 .. k - 1 : vs[j] = vals[j]
      BY <1>5, <2>2
    <3>4. Effect(ir[k], vals[k], sts[k], sts[k + 1], vs)
      BY <3>1, <3>2, <3>3, EffectKept
    <3>5. k \in 1 .. n + 1 /\ k + 1 \in 1 .. n + 1
      BY <2>2
    <3>6. ir'[k] = ir[k] /\ vs[k] = vals[k] /\ ss[k] = sts[k] /\ ss[k + 1] = sts[k + 1]
      BY <1>3, <1>5, <1>6, <2>2, <3>5
    <3> QED  BY <3>4, <3>6
  <2>3. k = n + 1 \/ k \in 1 .. n
    OBVIOUS
  <2> QED  BY <2>1, <2>2, <2>3
<1>8. Coded(vs, ss)'
  <2>1. ss[1] = Start
    BY <1>4, <1>6
  <2> QED  BY <1>3, <1>5, <1>6, <1>7, <2>1 DEF Coded
<1>9. Executed(vs, ss)'
  <2>1. regs' = regs /\ mem' = mem /\ out' = out /\ garbage' = garbage
    BY DEF machine
  <2>2. Len(regs) + 1 \in 1 .. n + 1 /\ \A k \in 1 .. Len(regs) : k \in 1 .. n
    BY <1>1, <1>2
  <2>3. ss[Len(regs) + 1] = sts[Len(regs) + 1] /\ \A k \in 1 .. Len(regs) : vs[k] = vals[k]
    BY <1>5, <1>6, <2>2
  <2> QED  BY <2>1, <2>3 DEF Executed, Remembers
<1> QED  BY <1>2, <1>5, <1>6, <1>8, <1>9 DEF Codes

LEMMA Uncoded ==
    ASSUME NEW vals, NEW sts, Coded(vals, sts), Executed(vals, sts), UNCHANGED <<machine, ir>>
    PROVE  Coded(vals, sts)' /\ Executed(vals, sts)'
  BY DEF Coded, Executed, Remembers, machine

-----------------------------------------------------------------------------
(* The point the compiler has reached.                                     *)

ObjectMeans(o, v, vals) == o # NoObject => v = Read(o.val, vals) /\ v \in Denotations /\ v.type = o.type

StackMeans(q, vals) ==
    Len(q) = Len(results) /\ \A k \in 1 .. Len(results) : ObjectMeans(results[k], q[k], vals)

Typed(st) ==
    \A x \in DOMAIN variables : st.env[x] \in Denotations /\ st.env[x].type = variables[x].type

ValuesReached(s, vals, sts) == StackMeans(s.stack, vals) /\ s.st = sts[Len(ir) + 1] /\ Typed(s.st)

\* The value of an object stays when instructions are added.
LEMMA ObjectMeansKept ==
    ASSUME NEW vals, NEW more, \A k \in 1 .. Len(ir) : more[k] = vals[k],
           NEW o, ObjectTyped(o), NEW v, ObjectMeans(o, v, vals)
    PROVE  ObjectMeans(o, v, more)
<1>1. ASSUME o # NoObject PROVE Read(o.val, more) = Read(o.val, vals)
  BY <1>1 DEF ObjectTyped, ValTyped, Read
<1> QED  BY <1>1 DEF ObjectMeans

LEMMA StackPushed ==
    ASSUME ResultsTyped, NEW s \in ValuePoints, NEW t \in ValuePoints,
           NEW vals, StackMeans(s.stack, vals), NEW more, \A k \in 1 .. Len(ir) : more[k] = vals[k],
           NEW n \in Nat, n <= Len(results), NEW v, Replaced(s.stack, t.stack, n, v),
           NEW o \in Objects, ObjectMeans(o, v, more), NEW p, Left(p, n), results' = Append(p, o)
    PROVE  StackMeans(t.stack, more)'
<1>0. p \in Seq(Objects) /\ Len(p) = Len(results) - n /\ \A k \in 1 .. Len(p) : p[k] = results[k]
  BY DEF Left
<1>arity. Len(p) \in Nat
  BY <1>0
<1>1. PICK m \in Nat : m = Len(p) /\ m = Len(results) - n
  BY <1>0, <1>arity
<1>2. results \in Seq(Objects) /\ Len(results) = Len(s.stack) /\ Len(results) \in Nat
  BY DEF ResultsTyped, StackMeans
<1>3. Len(results') = m + 1 /\ results'[m + 1] = o /\ \A k \in 1 .. m : results'[k] = p[k]
  BY <1>0, <1>1
<1>4. Len(t.stack) = m + 1 /\ t.stack[m + 1] = v /\ \A k \in 1 .. m : t.stack[k] = s.stack[k]
  BY <1>1, <1>2 DEF Replaced
<1>5. ASSUME NEW k \in 1 .. m + 1 PROVE ObjectMeans(results'[k], t.stack[k], more)
  <2>1. CASE k = m + 1
    BY <1>3, <1>4, <2>1
  <2>2. CASE k \in 1 .. m
    <3>1. k \in 1 .. Len(results) /\ k \in 1 .. Len(p)
      BY <1>1, <1>2, <2>2
    <3>2. ObjectMeans(results[k], s.stack[k], vals) /\ ObjectTyped(results[k])
      BY <3>1 DEF StackMeans, ResultsTyped
    <3>3. ObjectMeans(results[k], s.stack[k], more)
      BY <3>2, ObjectMeansKept
    <3>4. results'[k] = results[k] /\ t.stack[k] = s.stack[k]
      BY <1>0, <1>3, <1>4, <2>2, <3>1
    <3> QED  BY <3>3, <3>4
  <2>3. k = m + 1 \/ k \in 1 .. m
    OBVIOUS
  <2> QED  BY <2>1, <2>2, <2>3
<1>6. \A k \in 1 .. Len(results') : ObjectMeans(results'[k], t.stack[k], more)
  BY <1>3, <1>5
<1>7. Len(t.stack) = Len(results')
  BY <1>3, <1>4
<1> QED  BY <1>6, <1>7 DEF StackMeans, ObjectMeans

\* c leads to the meaning of the program, from where the compiler has come.
Leading(c, vals, sts) ==
    /\ Coded(vals, sts) /\ Executed(vals, sts)
    /\ Chain(c, ValuePoints, ValueSteps) /\ ValuesReached(c[1], vals, sts)
    /\ c[Len(todo) + 1].st = Meaning(program, Start).st

Meant == \E c, vals, sts : Leading(c, vals, sts)

LEMMA MeansLed ==
    ASSUME NEW c, NEW vals, NEW sts, Leading(c, vals, sts), UNCHANGED program,
           NEW s, Leads(c, s, ValuePoints, ValueSteps), NEW vs, NEW ss,
           Coded(vs, ss)', Executed(vs, ss)', ValuesReached(s, vs, ss)'
    PROVE  Meant'
<1>1. PICK e : /\ Chain(e, ValuePoints, ValueSteps)' /\ e[1] = s
               /\ e[Len(todo') + 1] = c[Len(todo) + 1]
  BY DEF Leads
<1>2. ValuesReached(e[1], vs, ss)'
  BY <1>1
<1>3. e[Len(todo') + 1].st = Meaning(program', Start).st
  BY <1>1 DEF Leading
<1>4. Leading(e, vs, ss)'
  BY <1>1, <1>2, <1>3 DEF Leading
<1> QED  BY <1>4 DEF Meant

\* The item to do, and the points it leads between.
LEMMA ValueItem ==
    ASSUME IInv, todo # <<>>, NEW c, NEW vals, NEW sts, Leading(c, vals, sts)
    PROVE  \E s, t : /\ s = c[1] /\ t = c[2] /\ s \in ValuePoints /\ t \in ValuePoints
                     /\ Item \in Items /\ ValuesReached(s, vals, sts) /\ ValueStep(Item, s, t)
<1>1. Chain(c, ValuePoints, ValueSteps) /\ ValuesReached(c[1], vals, sts)
  BY DEF Leading
<1>2. todo \in Seq(Items) /\ Item \in Items
  BY Enough DEF IInv, Balanced
<1>3. c[1] \in ValuePoints /\ c[2] \in ValuePoints /\ <<Item, c[1], c[2]>> \in ValueSteps
  BY <1>1, <1>2, ChainFirst
<1> QED  BY <1>1, <1>2, <1>3, ValueStepIn

LEMMA NodeMeans ==
    ASSUME IInv, Meant, lasgn \/ call \/ block
    PROVE  Meant'
<1>1. /\ UNCHANGED <<program, machine, ir>> /\ UNCHANGED <<results, variables>>
  BY DEF lasgn, call, block, compilerOnly
<1>2. PICK c, vals, sts : Leading(c, vals, sts)
  BY DEF Meant
<1>3. Chain(c, ValuePoints, ValueSteps) /\ ValuesReached(c[1], vals, sts) /\ Coded(vals, sts) /\ Executed(vals, sts)
  BY <1>2 DEF Leading
<1>4. Leads(c, c[1], ValuePoints, ValueSteps)
  BY <1>3, ValueNode
<1>5. Coded(vals, sts)' /\ Executed(vals, sts)'
  BY <1>1, <1>3, Uncoded
<1>6. ValuesReached(c[1], vals, sts)'
  BY <1>1, <1>3 DEF ValuesReached, StackMeans, Typed
<1> QED  BY <1>1, <1>2, <1>4, <1>5, <1>6, MeansLed

LEMMA ListMeans ==
    ASSUME IInv, Meant, list
    PROVE  Meant'
<1>1. /\ UNCHANGED <<program, machine, ir>> /\ UNCHANGED variables /\ todo # <<>> /\ Item.do = "list"
      /\ todo \in Seq(Items) /\ todo' = Tail(todo)
  BY DEF list, Doing, compilerOnly, first, IInv, Balanced
<1>2. PICK c, vals, sts : Leading(c, vals, sts)
  BY DEF Meant
<1>3. PICK s, t : /\ s = c[1] /\ t = c[2] /\ s \in ValuePoints /\ t \in ValuePoints
                  /\ Item \in Items /\ ValuesReached(s, vals, sts) /\ ValueStep(Item, s, t)
  BY <1>1, <1>2, ValueItem
<1>4. PICK n \in Nat : n = Item.n /\ n <= Len(results)
  BY <1>1, Enough, ItemShapes DEF IInv
<1>5. PICK p : p = below(n) /\ results' = Append(p, NoObject)
  BY <1>4 DEF list
<1>6. Left(p, n)
  BY <1>4, <1>5, Slices DEF Left
<1>7. Replaced(s.stack, t.stack, n, Unset) /\ t.st = s.st
  BY <1>1, <1>3, <1>4 DEF ValueStep
<1>8. PICK o \in Objects : o = NoObject
  BY DEF Objects
<1>9. ObjectMeans(o, Unset, vals) /\ results' = Append(p, o)
  BY <1>5, <1>8 DEF ObjectMeans
<1>10. StackMeans(s.stack, vals) /\ s.st = sts[Len(ir) + 1] /\ Typed(s.st)
  BY <1>3 DEF ValuesReached
<1>11. StackMeans(t.stack, vals)'
  BY <1>3, <1>4, <1>6, <1>7, <1>9, <1>10, StackPushed DEF IInv
<1>12. ValuesReached(t, vals, sts)'
  BY <1>1, <1>7, <1>10, <1>11 DEF ValuesReached, Typed
<1>13. Coded(vals, sts)' /\ Executed(vals, sts)'
  BY <1>1, <1>2, Uncoded DEF Leading
<1>14. Leads(c, t, ValuePoints, ValueSteps)
  BY <1>1, <1>2, <1>3, ChainTaken DEF Leading
<1> QED  BY <1>1, <1>2, <1>12, <1>13, <1>14, MeansLed

\* A literal has its value before the program runs.
LEMMA LitMeans ==
    ASSUME IInv, Meant, lit
    PROVE  Meant'
<1>1. /\ UNCHANGED <<program, machine, ir>> /\ UNCHANGED variables /\ todo # <<>> /\ Item.do = "parse"
      /\ todo \in Seq(Items) /\ todo' = Tail(todo)
  BY DEF lit, Parsing, Doing, compilerOnly, first, IInv, Balanced
<1>2. PICK c, vals, sts : Leading(c, vals, sts)
  BY DEF Meant
<1>3. PICK s, t : /\ s = c[1] /\ t = c[2] /\ s \in ValuePoints /\ t \in ValuePoints
                  /\ Item \in Items /\ ValuesReached(s, vals, sts) /\ ValueStep(Item, s, t)
  BY <1>1, <1>2, ValueItem
<1>4. PICK e, st, r : e = Item.sexpr /\ st = s.st /\ r = Meaning(e, st)
  OBVIOUS
<1>5. <<e, st>> \in Evaluations /\ Replaced(s.stack, t.stack, 0, r.v) /\ t.st = r.st
  BY <1>1, <1>3, <1>4 DEF ValueStep
<1>6. PICK rs : MeantBy(e, Children(e), st, rs)
  BY <1>5, MeantAt
<1>7. e \in Sexprs /\ e.type = "lit" /\ r = Result(e, st, rs)
  BY <1>1, <1>3, <1>4, <1>6, ItemShapes DEF lit, Parsing, MeantBy
<1>8. e.n \in Int
  BY <1>7, SexprsAssumption DEF AreSexprs
<1>9. r.v = int(e.n) /\ r.st = st
  BY <1>7 DEF Result
<1>10. PICK o : o = RObject("Num", "int", [kind |-> "const", n |-> e.n])
  OBVIOUS
<1>11. o \in Objects /\ results' = Append(results, o)
  BY <1>4, <1>8, <1>10 DEF RObject, Objects, Types, Vals, lit, push
<1>12. ObjectMeans(o, int(e.n), vals)
  <2>1. o.type = "int" /\ o.val.kind = "const" /\ o.val.n = e.n
    BY <1>10 DEF RObject
  <2>2. int(e.n) \in Denotations /\ int(e.n).type = "int"
    BY <1>8 DEF int, Denotations, Ints
  <2> QED  BY <2>1, <2>2 DEF ObjectMeans, Read
<1>13. StackMeans(s.stack, vals) /\ s.st = sts[Len(ir) + 1] /\ Typed(s.st)
  BY <1>3 DEF ValuesReached
<1>14. StackMeans(t.stack, vals)'
  <2>1. Left(results, 0) /\ 0 <= Len(results)
    BY DEF Left, IInv, ResultsTyped
  <2>2. Replaced(s.stack, t.stack, 0, int(e.n))
    BY <1>5, <1>9
  <2> QED  BY <1>3, <1>11, <1>12, <1>13, <2>1, <2>2, StackPushed DEF IInv
<1>15. ValuesReached(t, vals, sts)'
  BY <1>1, <1>4, <1>5, <1>9, <1>13, <1>14 DEF ValuesReached, Typed
<1>16. Coded(vals, sts)' /\ Executed(vals, sts)'
  BY <1>1, <1>2, Uncoded DEF Leading
<1>17. Leads(c, t, ValuePoints, ValueSteps)
  BY <1>1, <1>2, <1>3, ChainTaken DEF Leading
<1> QED  BY <1>1, <1>2, <1>15, <1>16, <1>17, MeansLed

\* The result of an item is that of a new instruction, or one it has taken.
Resulting(o, v, vals) ==
    \/ o.val = reg /\ o.type = v.type
    \/ ObjectTyped(o) /\ ObjectMeans(o, v, vals)

\* A step adds an instruction, and its result is that of the item.
LEMMA MeansEmitted ==
    ASSUME IInv, NEW c, NEW vals, NEW sts, Leading(c, vals, sts), UNCHANGED <<program, machine>>,
           todo # <<>>, todo' = Tail(todo), NEW s, NEW t, s = c[1], t = c[2],
           NEW i, ir' = Append(ir, i), Knowns(i, Len(ir)),
           NEW v \in Denotations, Effect(i, v, s.st, t.st, vals),
           NEW n \in Nat, n <= Len(results), Replaced(s.stack, t.stack, n, v),
           NEW o \in Objects, Resulting(o, v, vals), NEW p, Left(p, n), results' = Append(p, o),
           Typed(t.st)'
    PROVE  Meant'
<1>1. Chain(c, ValuePoints, ValueSteps) /\ ValuesReached(s, vals, sts) /\ Coded(vals, sts) /\ Executed(vals, sts)
  BY DEF Leading
<1>2. todo \in Seq(Items)
  BY DEF IInv, Balanced
<1>3. s \in ValuePoints /\ t \in ValuePoints
  BY <1>1, <1>2, ChainFirst
<1>4. PICK st \in States : st = t.st
  BY <1>3 DEF ValuePoints, Points
<1>5. Effect(i, v, sts[Len(ir) + 1], st, vals)
  BY <1>1, <1>4 DEF ValuesReached
<1>6. PICK vs, ss : Coded(vs, ss)' /\ Executed(vs, ss)' /\ Codes(vs, vals, ss, v, st)
  <2>1. UNCHANGED machine
    OBVIOUS
  <2>2. Coded(vals, sts)
    BY <1>1
  <2>3. Executed(vals, sts)
    BY <1>1
  <2> QED  BY <1>5, <2>1, <2>2, <2>3, CodeAdded
<1>7. /\ \A k \in 1 .. Len(ir) : vs[k] = vals[k]
      /\ vs[Len(ir) + 1] = v /\ ss[Len(ir') + 1] = st
  BY <1>6 DEF Codes, IInv, IRTyped
<1>8. ObjectMeans(o, v, vs)
  <2>1. CASE o.val = reg /\ o.type = v.type
    <3>1. Read(o.val, vs) = v
      BY <1>7, <2>1 DEF Read, reg
    <3> QED  BY <2>1, <3>1 DEF ObjectMeans
  <2>2. CASE ObjectTyped(o) /\ ObjectMeans(o, v, vals)
    BY <1>7, <2>2, ObjectMeansKept
  <2> QED  BY <2>1, <2>2 DEF Resulting
<1>9. StackMeans(t.stack, vs)'
  <2>1. StackMeans(s.stack, vals)
    BY <1>1 DEF ValuesReached
  <2>2. ResultsTyped
    BY DEF IInv
  <2>3. \A k \in 1 .. Len(ir) : vs[k] = vals[k]
    BY <1>7
  <2>4. ObjectMeans(o, v, vs)
    BY <1>8
  <2>5. s \in ValuePoints
    BY <1>3
  <2>6. t \in ValuePoints
    BY <1>3
  <2> QED  BY <2>1, <2>2, <2>3, <2>4, <2>5, <2>6, StackPushed, ZenonT(30)
<1>10. ValuesReached(t, vs, ss)'
  BY <1>4, <1>7, <1>9 DEF ValuesReached
<1>11. Leads(c, t, ValuePoints, ValueSteps)
  BY <1>1, <1>2, ChainTaken
<1> QED  BY <1>6, <1>10, <1>11, MeansLed

LEMMA StrMeans ==
    ASSUME IInv, Meant, str
    PROVE  Meant'
<1>1. /\ UNCHANGED <<program, machine>> /\ UNCHANGED variables /\ todo # <<>> /\ Item.do = "parse"
      /\ todo' = Tail(todo)
  BY DEF str, Parsing, Doing, compilerOnly, first, IInv, Balanced
<1>2. PICK c, vals, sts : Leading(c, vals, sts)
  BY DEF Meant
<1>3. PICK s, t : /\ s = c[1] /\ t = c[2] /\ s \in ValuePoints /\ t \in ValuePoints
                  /\ Item \in Items /\ ValuesReached(s, vals, sts) /\ ValueStep(Item, s, t)
  BY <1>1, <1>2, ValueItem
<1>4. PICK e, st, r : e = Item.sexpr /\ st = s.st /\ r = Meaning(e, st)
  OBVIOUS
<1>5. <<e, st>> \in Evaluations /\ Replaced(s.stack, t.stack, 0, r.v) /\ t.st = r.st
  BY <1>1, <1>3, <1>4 DEF ValueStep
<1>6. PICK rs : MeantBy(e, Children(e), st, rs)
  BY <1>5, MeantAt
<1>7. e \in Sexprs /\ e.type = "str" /\ r = Result(e, st, rs)
  BY <1>1, <1>3, <1>4, <1>6, ItemShapes DEF str, Parsing, MeantBy
<1>8. e.text \in DOMAIN StrLen /\ StrLen[e.text] \in Int
  BY <1>7, SexprsAssumption, StrLenAssumption DEF AreSexprs
<1>9. PICK v : v = ptr([lit |-> e.text], StrLen[e.text])
  OBVIOUS
<1>10. v \in Denotations /\ v.type = "ptr"
  BY <1>8, <1>9 DEF ptr, Denotations, Texts
<1>11. r.v = v /\ r.st = st
  BY <1>7, <1>9 DEF Result
<1>12. PICK i : i = [op |-> "str", text |-> e.text]
  OBVIOUS
<1>13. ir' = Append(ir, i) /\ Knowns(i, Len(ir)) /\ Effect(i, v, s.st, t.st, vals)
  BY <1>4, <1>5, <1>9, <1>11, <1>12 DEF str, emit, Knowns, Effect
<1>14. PICK o : o = RObject("String", "ptr", reg)
  OBVIOUS
<1>15. o \in Objects /\ results' = Append(results, o) /\ Resulting(o, v, vals)
  <2>1. o \in Objects /\ o.type = "ptr" /\ o.val = reg
    BY <1>14, RegIn DEF RObject, Objects, Types
  <2> QED  BY <1>10, <1>14, <2>1 DEF str, push, Resulting
<1>16. Left(results, 0) /\ 0 <= Len(results) /\ Replaced(s.stack, t.stack, 0, v)
  BY <1>5, <1>11 DEF Left, IInv, ResultsTyped
<1>17. Typed(t.st)'
  BY <1>1, <1>3, <1>4, <1>5, <1>11 DEF ValuesReached, Typed
<1> QED  BY <1>1, <1>2, <1>3, <1>10, <1>13, <1>15, <1>16, <1>17, MeansEmitted

LEMMA LvarMeans ==
    ASSUME IInv, Meant, lvar
    PROVE  Meant'
<1>1. /\ UNCHANGED <<program, machine>> /\ UNCHANGED variables /\ todo # <<>> /\ Item.do = "parse"
      /\ todo' = Tail(todo)
  BY DEF lvar, Parsing, Doing, compilerOnly, first, IInv, Balanced
<1>2. PICK c, vals, sts : Leading(c, vals, sts)
  BY DEF Meant
<1>3. PICK s, t : /\ s = c[1] /\ t = c[2] /\ s \in ValuePoints /\ t \in ValuePoints
                  /\ Item \in Items /\ ValuesReached(s, vals, sts) /\ ValueStep(Item, s, t)
  BY <1>1, <1>2, ValueItem
<1>4. PICK e, st, r : e = Item.sexpr /\ st = s.st /\ r = Meaning(e, st)
  OBVIOUS
<1>5. <<e, st>> \in Evaluations /\ Replaced(s.stack, t.stack, 0, r.v) /\ t.st = r.st
  BY <1>1, <1>3, <1>4 DEF ValueStep
<1>6. PICK rs : MeantBy(e, Children(e), st, rs)
  BY <1>5, MeantAt
<1>7. e.type = "lvar" /\ r = Result(e, st, rs)
  BY <1>4, <1>6 DEF lvar, Parsing, MeantBy
<1>8. PICK x \in DOMAIN variables : x = e.name
  BY <1>4 DEF lvar
<1>9. PICK v : v = st.env[x]
  OBVIOUS
<1>10. v \in Denotations /\ v.type = variables[x].type
  BY <1>3, <1>4, <1>8, <1>9 DEF ValuesReached, Typed
<1>11. r.v = v /\ r.st = st
  BY <1>7, <1>8, <1>9 DEF Result
<1>12. PICK i : i = [op |-> "load", name |-> x]
  OBVIOUS
<1>13. ir' = Append(ir, i) /\ Knowns(i, Len(ir)) /\ Effect(i, v, s.st, t.st, vals)
  BY <1>4, <1>5, <1>8, <1>9, <1>11, <1>12 DEF lvar, emit, Knowns, Effect
<1>14. PICK o : o = RObject(variables[x].class, variables[x].type, reg)
  OBVIOUS
<1>15. o \in Objects /\ results' = Append(results, o) /\ Resulting(o, v, vals)
  <2>1. variables[x].class \in Classes /\ variables[x].type \in Types
    BY DEF IInv, VariablesTyped
  <2>2. o \in Objects /\ o.type = variables[x].type /\ o.val = reg
    BY <1>14, <2>1, RegIn, MethodTables DEF RObject, Objects
  <2>3. results' = Append(results, o)
    BY <1>4, <1>8, <1>14 DEF lvar, push
  <2> QED  BY <1>10, <2>2, <2>3 DEF Resulting
<1>16. Left(results, 0) /\ 0 <= Len(results) /\ Replaced(s.stack, t.stack, 0, v)
  BY <1>5, <1>11 DEF Left, IInv, ResultsTyped
<1>17. Typed(t.st)'
  BY <1>1, <1>3, <1>4, <1>5, <1>11 DEF ValuesReached, Typed
<1> QED  BY <1>1, <1>2, <1>3, <1>10, <1>13, <1>15, <1>16, <1>17, MeansEmitted

LEMMA StatesShape ==
    ASSUME NEW s \in ValuePoints
    PROVE  s.st \in States /\ s.st.env \in [Names -> Meanings] /\ s.st.out \in Seq(Texts)
<1>1. s.st \in States
  BY DEF ValuePoints, Points
<1> QED  BY <1>1 DEF States, Meanings

LEMMA AssignMeans ==
    ASSUME IInv, Meant, assign
    PROVE  Meant'
<1>1. /\ UNCHANGED <<program, machine>> /\ results' = results /\ todo # <<>> /\ Item.do = "assign"
      /\ todo' = Tail(todo) /\ Doing("assign") /\ value.class # "Array"
  BY DEF assign, Doing, compilerOnly, first, IInv, Balanced
<1>2. PICK c, vals, sts : Leading(c, vals, sts)
  BY DEF Meant
<1>3. PICK s, t : /\ s = c[1] /\ t = c[2] /\ s \in ValuePoints /\ t \in ValuePoints
                  /\ Item \in Items /\ ValuesReached(s, vals, sts) /\ ValueStep(Item, s, t)
  BY <1>1, <1>2, ValueItem
<1>4. PICK x, v : x = Item.name /\ v = Top(s.stack, 1)[1]
  OBVIOUS
<1>5. Replaced(s.stack, t.stack, 1, v) /\ t.st = Assigned(s.st, x, v)
  BY <1>1, <1>3, <1>4 DEF ValueStep
<1>6. PICK n \in Nat : n = Len(results) /\ n > 0 /\ results \in Seq(Objects)
  BY <1>1, ValueTyped DEF IInv, ResultsTyped
<1>7. PICK o \in Objects : o = value /\ o = results[n] /\ ObjectTyped(o)
  BY <1>1, <1>6, ValueTyped DEF value
<1>8. o # NoObject
  BY <1>1, <1>7, ObjectShapes
<1>9. ObjectMeans(o, v, vals)
  <2>1. Len(s.stack) = n /\ ObjectMeans(results[n], s.stack[n], vals)
    BY <1>3, <1>6 DEF ValuesReached, StackMeans
  <2>2. Top(s.stack, 1)[1] = s.stack[n - 1 + 1] /\ n - 1 + 1 = n
    BY <2>1 DEF Top
  <2>3. v = s.stack[n]
    BY <1>4, <2>2
  <2> QED  BY <1>7, <2>1, <2>3
<1>10. v = Read(o.val, vals) /\ v \in Denotations /\ v.type = o.type
  BY <1>8, <1>9 DEF ObjectMeans
<1>11. PICK i : i = [op |-> "store", name |-> x, val |-> o.val]
  OBVIOUS
<1>12. ir' = Append(ir, i)
  BY <1>4, <1>7, <1>11 DEF assign, emit
<1>13. Knowns(i, Len(ir))
  BY <1>7, <1>8, <1>11 DEF Knowns, Known, ObjectTyped, ValTyped
<1>14. Effect(i, v, s.st, t.st, vals)
  BY <1>5, <1>10, <1>11 DEF Effect
<1>15. PICK p : p = below(1)
  OBVIOUS
<1>16. Left(p, 1) /\ results' = Append(p, o)
  <2>1. PICK l \in Nat : l = 1 /\ l <= Len(results)
    BY <1>6
  <2>2. PICK b : b = below(l)
    OBVIOUS
  <2>3. b \in Seq(Objects) /\ Len(b) = Len(results) - l /\ \A k \in 1 .. Len(b) : b[k] = results[k]
    BY <2>1, <2>2, Slices
  <2>4. p \in Seq(Objects) /\ Len(p) = n - 1 /\ \A k \in 1 .. Len(p) : p[k] = results[k]
    BY <1>6, <1>15, <2>1, <2>2, <2>3
  <2>5. n - 1 \in Nat
    <3>1. n > 0
      BY <1>6
    <3> QED  BY <3>1
  <2>6. PICK m \in Nat : m = n - 1
    BY <2>5
  <2>7. PICK q : q = Append(p, o)
    OBVIOUS
  <2>8. q \in Seq(Objects) /\ Len(q) = m + 1 /\ q[m + 1] = o /\ \A k \in 1 .. m : q[k] = p[k]
    <3>1. p \in Seq(Objects) /\ Len(p) = m
      BY <2>4, <2>6
    <3> QED  BY <2>7, <3>1
  <2>9. m + 1 = n
    BY <2>6
  <2>10. q \in Seq(Objects) /\ Len(q) = n /\ q[n] = o /\ \A k \in 1 .. m : q[k] = p[k]
    BY <2>8, <2>9
  <2>11. \A k \in 1 .. n : k = n \/ k \in 1 .. n - 1
    OBVIOUS
  <2>12. \A k \in 1 .. n : q[k] = results[k]
    BY <1>7, <2>4, <2>6, <2>10, <2>11
  <2>13. q = results
    BY <1>6, <2>10, <2>12, SameSequence
  <2>14. results' = Append(p, o)
    BY <1>1, <2>13, <2>7
  <2> QED  BY <1>6, <2>4, <2>14 DEF Left
<1>17. Typed(t.st)'
  <2>1. s.st.env \in [Names -> Meanings] /\ x \in Names
    BY <1>1, <1>3, <1>4, StatesShape, ValueTyped
  <2>2. t.st.env[x] = v /\ \A y \in Names : y # x => t.st.env[y] = s.st.env[y]
    BY <1>5, <2>1 DEF Assigned
  <2>3. /\ DOMAIN variables' = DOMAIN variables \cup {x} /\ DOMAIN variables' \subseteq Names
        /\ variables'[x].type = o.type
    BY <1>4, <1>7, AssignVariables DEF assign
  <2>4. \A y \in DOMAIN variables : variables'[y] = variables[y]
    BY DEF assign
  <2>5. ASSUME NEW y \in DOMAIN variables'
        PROVE  t.st.env[y] \in Denotations /\ t.st.env[y].type = variables'[y].type
    <3>1. CASE y = x
      BY <1>10, <2>2, <2>3, <3>1
    <3>2. CASE y # x
      <4>1. y \in DOMAIN variables /\ y \in Names
        BY <2>3, <2>5, <3>2
      <4>2. s.st.env[y] \in Denotations /\ s.st.env[y].type = variables[y].type
        BY <1>3, <4>1 DEF ValuesReached, Typed
      <4> QED  BY <2>2, <2>4, <3>2, <4>1, <4>2
    <3> QED  BY <3>1, <3>2
  <2> QED  BY <2>5 DEF Typed
<1>18. Resulting(o, v, vals) /\ 1 <= Len(results)
  BY <1>6, <1>7, <1>9 DEF Resulting
<1> QED  BY <1>1, <1>2, <1>3, <1>5, <1>10, <1>12, <1>13, <1>14, <1>16, <1>17, <1>18, MeansEmitted

-----------------------------------------------------------------------------
(* Calls.                                                                  *)

\* The rows of the functions that have a body.
LEMMA RowsApplied ==
    ASSUME NEW k \in Classes, NEW m \in DOMAIN Methods[k], <<k, m>> \notin Bodiless
    PROVE  \/ k = "Num" /\ m \in {"plus", "minus"} /\ Methods[k][m].args = <<"int">> /\ Methods[k][m].type = "int"
           \/ k = "Num" /\ m = "to_s" /\ Methods[k][m].args = <<>> /\ Methods[k][m].type = "ptr"
           \/ k = "String" /\ m \in {"length", "puts"} /\ Methods[k][m].args = <<>> /\ Methods[k][m].type = "int"
  BY DEF Classes, Methods, Bodiless

LEMMA DigitsInt ==
    ASSUME NEW n \in Int
    PROVE  Digits(n) \in Int
<1>1. PICK m \in Nat : m = IF n < 0 THEN -n ELSE n
  OBVIOUS
<1>2. PICK S : S = { k \in 1 .. m : 10 ^ k <= m }
  OBVIOUS
<1>3. IsFiniteSet(1 .. m)
  BY FS_Interval
<1>4. IsFiniteSet(S)
  BY <1>2, <1>3, FS_Subset
<1>5. Cardinality(S) \in Int
  BY <1>4, FS_CardinalityType
<1>6. Digits(n) = Cardinality(S) + IF n < 0 THEN 2 ELSE 1
  BY <1>1, <1>2 DEF Digits
<1> QED  BY <1>5, <1>6

LEMMA DenotationShapes ==
    ASSUME NEW v \in Denotations
    PROVE  /\ v.type = "int" => v.n \in Int
           /\ v.type = "ptr" => v.text \in Texts /\ v.len \in Int
           /\ v \in Values
<1>1. v \in Values
  BY DEF Denotations, Values, Ptrs
<1> QED  BY <1>1 DEF Denotations, Ints

\* The values vs are for the method m of class k.
Suits(k, m, vs) ==
    /\ Len(vs) = Len(Methods[k][m].args) + 1
    /\ \A j \in 1 .. Len(vs) : vs[j] \in Denotations
    /\ vs[1].type = Type(k)
    /\ \A j \in 1 .. Len(Methods[k][m].args) : vs[j + 1].type = Methods[k][m].args[j]

LEMMA CallApplies ==
    ASSUME NEW k \in Classes, NEW m \in DOMAIN Methods[k], <<k, m>> \notin Bodiless,
           NEW vs, Suits(k, m, vs), NEW st
    PROVE  /\ Applies(m, vs) /\ Apply(m, vs, st).v \in Denotations
           /\ Apply(m, vs, st).v.type = Methods[k][m].type
           /\ Apply(m, vs, st).st.env = st.env
<1>1. /\ Len(vs) = Len(Methods[k][m].args) + 1 /\ \A j \in 1 .. Len(vs) : vs[j] \in Denotations
      /\ vs[1].type = Type(k)
      /\ \A j \in 1 .. Len(Methods[k][m].args) : vs[j + 1].type = Methods[k][m].args[j]
  BY DEF Suits
<1>2. \A v \in Denotations : v # Unset
  BY DenotationShapes, UnsetAssumption
<1>3. CASE k = "Num" /\ m \in {"plus", "minus"} /\ Methods[k][m].args = <<"int">> /\ Methods[k][m].type = "int"
  <2>1. Len(vs) = 2 /\ vs[1].type = "int" /\ vs[1 + 1].type = "int" /\ 1 + 1 = 2
    BY <1>1, <1>3 DEF Type
  <2>2. vs[1] \in Denotations /\ vs[2] \in Denotations
    BY <1>1, <2>1
  <2>3. \A j \in 1 .. 2 : j = 1 \/ j = 2
    OBVIOUS
  <2>4. Applies(m, vs)
    BY <1>2, <1>3, <2>1, <2>2, <2>3 DEF Applies, Are
  <2>5. PICK n \in Int : n = IF m = "plus" THEN vs[1].n + vs[2].n ELSE vs[1].n - vs[2].n
    BY <2>1, <2>2, DenotationShapes
  <2>6. Apply(m, vs, st) = [v |-> int(wrap(n)), st |-> st]
    BY <1>3, <2>5 DEF Apply
  <2>7. int(wrap(n)) \in Denotations /\ int(wrap(n)).type = "int"
    BY Wrapped DEF Values, Denotations, Ints, Ptrs
  <2> QED  BY <1>3, <2>4, <2>6, <2>7
<1>4. CASE k = "Num" /\ m = "to_s" /\ Methods[k][m].args = <<>> /\ Methods[k][m].type = "ptr"
  <2>1. Len(vs) = 1 /\ vs[1].type = "int"
    BY <1>1, <1>4 DEF Type
  <2>2. vs[1] \in Denotations
    BY <1>1, <2>1
  <2>3. \A j \in 1 .. 1 : j = 1
    OBVIOUS
  <2>4. Applies(m, vs)
    BY <1>2, <1>4, <2>1, <2>2, <2>3 DEF Applies, Are
  <2>5. PICK n \in Int : n = vs[1].n
    BY <2>1, <2>2, DenotationShapes
  <2>6. Apply(m, vs, st) = [v |-> ptr([dec |-> n], Digits(n)), st |-> st]
    BY <1>4, <2>5 DEF Apply
  <2>7. ptr([dec |-> n], Digits(n)) \in Denotations /\ ptr([dec |-> n], Digits(n)).type = "ptr"
    BY DigitsInt DEF ptr, Denotations, Texts
  <2> QED  BY <1>4, <2>4, <2>6, <2>7
<1>5. CASE k = "String" /\ m \in {"length", "puts"} /\ Methods[k][m].args = <<>> /\ Methods[k][m].type = "int"
  <2>1. Len(vs) = 1 /\ vs[1].type = "ptr"
    BY <1>1, <1>5 DEF Type
  <2>2. vs[1] \in Denotations
    BY <1>1, <2>1
  <2>3. \A j \in 1 .. 1 : j = 1
    OBVIOUS
  <2>4. Applies(m, vs)
    BY <1>2, <1>5, <2>1, <2>2, <2>3 DEF Applies, Are
  <2>5. PICK n \in Int : n = IF m = "length" THEN vs[1].len ELSE 0
    BY <2>1, <2>2, DenotationShapes
  <2>6. Apply(m, vs, st).v = int(n) /\ Apply(m, vs, st).st.env = st.env
    BY <1>5, <2>5 DEF Apply
  <2>7. int(n) \in Denotations /\ int(n).type = "int"
    BY DEF int, Denotations, Ints
  <2> QED  BY <1>5, <2>4, <2>6, <2>7
<1> QED  BY <1>3, <1>4, <1>5, RowsApplied

\* The operands of a call, on the stack.
LEMMA OperandsMean ==
    ASSUME IInv, Doing("call"), AreObjects, HasMethod, Fits, NEW n \in Nat, n = Item.n + 1,
           NEW s \in ValuePoints, NEW vals, StackMeans(s.stack, vals)
    PROVE  /\ n <= Len(results) /\ Suits(recv.class, Item.method, Top(s.stack, n))
           /\ \A k \in 1 .. n : /\ Top(s.stack, n)[k] = Read(operands(n)[k].val, vals)
                                /\ Known(operands(n)[k].val, Len(ir))
<1>1. n <= Len(results) /\ Item.n \in Nat /\ n > 0
  BY Enough, ItemShapes DEF Doing, IInv
<1>2. PICK ops, vs : ops = operands(n) /\ vs = Top(s.stack, n)
  OBVIOUS
<1>3. ops \in Seq(Objects) /\ Len(ops) = n /\ \A k \in 1 .. n : ObjectTyped(ops[k])
  BY <1>1, <1>2, Slices
<1>4. /\ recv = ops[1] /\ args = Tail(ops) /\ Len(args) = n - 1 /\ DOMAIN args = 1 .. n - 1
      /\ \A k \in 1 .. n - 1 : args[k] = ops[k + 1]
  <2>1. recv = ops[1] /\ args = Tail(ops)
    BY <1>2 DEF recv, args
  <2> QED  BY <1>1, <1>3, <2>1
<1>5. ASSUME NEW k \in 1 .. n PROVE ops[k] # NoObject
  <2>1. CASE k = 1
    <3>1. ops[1].class \in Classes /\ ops[1] \in Objects
      BY <1>1, <1>3, <1>4 DEF AreObjects
    <3>2. NoObject.class = "Array"
      BY DEF NoObject
    <3> QED  BY <2>1, <3>1, <3>2, MethodTables
  <2>2. CASE k # 1
    <3>1. k - 1 \in 1 .. n - 1 /\ (k - 1) + 1 = k
      BY <2>2
    <3>2. ops[k].class # "Array"
      BY <1>4, <3>1 DEF AreObjects
    <3>3. NoObject.class = "Array"
      BY DEF NoObject
    <3> QED  BY <3>2, <3>3
  <2> QED  BY <2>1, <2>2
<1>6. PICK l \in Nat : l = Len(results) /\ l = Len(s.stack)
  BY DEF StackMeans, IInv, ResultsTyped
<1>7. ASSUME NEW k \in 1 .. n
      PROVE  vs[k] = Read(ops[k].val, vals) /\ vs[k] \in Denotations /\ vs[k].type = ops[k].type
  <2>1. PICK j \in 1 .. l : j = l - n + k
    BY <1>1, <1>6
  <2>2. vs[k] = s.stack[j]
    BY <1>2, <1>6, <2>1 DEF Top
  <2>3. ops[k] = results[j]
    BY <1>1, <1>2, <1>6, <2>1, OperandsAre
  <2>4. ObjectMeans(results[j], s.stack[j], vals)
    BY <1>6 DEF StackMeans
  <2> QED  BY <1>5, <2>2, <2>3, <2>4 DEF ObjectMeans
<1>8. ASSUME NEW k \in 1 .. n PROVE Known(ops[k].val, Len(ir))
  BY <1>3, <1>5 DEF ObjectTyped, ValTyped, Known
<1>9. Len(vs) = n
  BY <1>2 DEF Top
<1>10. Suits(recv.class, Item.method, vs)
  <2>1. PICK r : r = Methods[recv.class][Item.method]
    OBVIOUS
  <2>2. r.args = [k \in DOMAIN args |-> args[k].type]
    BY <2>1 DEF Fits, func
  <2>3. Len(r.args) = n - 1 /\ \A k \in 1 .. n - 1 : r.args[k] = ops[k + 1].type
    BY <1>1, <1>4, <2>2
  <2>4. vs[1].type = Type(recv.class)
    <3>1. 1 \in 1 .. n
      BY <1>1
    <3>2. vs[1].type = ops[1].type /\ ObjectTyped(ops[1]) /\ ops[1] # NoObject
      BY <1>3, <1>5, <1>7, <3>1
    <3> QED  BY <1>4, <3>2 DEF ObjectTyped
  <2>5. ASSUME NEW k \in 1 .. n - 1 PROVE vs[k + 1].type = r.args[k]
    <3>1. k + 1 \in 1 .. n
      OBVIOUS
    <3> QED  BY <1>7, <2>3, <3>1
  <2>6. \A k \in 1 .. n : vs[k] \in Denotations
    BY <1>7
  <2>7. Len(vs) = Len(r.args) + 1
    BY <1>9, <2>3
  <2> QED  BY <1>9, <2>1, <2>3, <2>4, <2>5, <2>6, <2>7 DEF Suits
<1> QED  BY <1>1, <1>2, <1>7, <1>8, <1>10

\* No instruction calls a function that has no body.
Linked == \A k \in 1 .. Len(ir) : ir[k].op = "call" => ir[k].func \notin Bodiless

LEMMA InvokeMeans ==
    ASSUME IInv, Meant, invoke, Linked'
    PROVE  Meant'
<1>1. /\ UNCHANGED <<program, machine>> /\ UNCHANGED variables /\ todo # <<>> /\ Item.do = "call"
      /\ todo' = Tail(todo) /\ Doing("call") /\ AreObjects /\ HasMethod /\ Fits
  BY DEF invoke, Doing, compilerOnly, first, IInv, Balanced
<1>2. PICK c, vals, sts : Leading(c, vals, sts)
  BY DEF Meant
<1>3. PICK s, t : /\ s = c[1] /\ t = c[2] /\ s \in ValuePoints /\ t \in ValuePoints
                  /\ Item \in Items /\ ValuesReached(s, vals, sts) /\ ValueStep(Item, s, t)
  BY <1>1, <1>2, ValueItem
<1>4. PICK n \in Nat : n = Item.n + 1
  BY <1>1, <1>3, ItemShapes
<1>5. PICK m, k, vs : m = Item.method /\ k = recv.class /\ vs = Top(s.stack, n)
  OBVIOUS
<1>6. StackMeans(s.stack, vals) /\ s.st = sts[Len(ir) + 1] /\ Typed(s.st)
  BY <1>3 DEF ValuesReached
<1>7. /\ n <= Len(results) /\ Suits(k, m, vs)
      /\ \A j \in 1 .. n : vs[j] = Read(operands(n)[j].val, vals) /\ Known(operands(n)[j].val, Len(ir))
  BY <1>1, <1>3, <1>4, <1>5, <1>6, OperandsMean
<1>8. PICK os : os = [j \in 1 .. n |-> operands(n)[j].val]
  OBVIOUS
<1>9. PICK i : i = [op |-> "call", func |-> <<k, m>>, args |-> os]
  OBVIOUS
<1>10. ir' = Append(ir, i)
  BY <1>4, <1>5, <1>8, <1>9 DEF invoke, emit
<1>11. ReadAll(os, vals) = vs
  <2>1. Len(os) = n /\ \A j \in 1 .. n : os[j] = operands(n)[j].val
    BY <1>8
  <2>2. vs = [j \in 1 .. n |-> vs[j]]
    BY <1>5 DEF Top
  <2> QED  BY <1>7, <2>1, <2>2 DEF ReadAll
<1>12. Knowns(i, Len(ir))
  BY <1>7, <1>8, <1>9 DEF Knowns
<1>13. k \in Classes /\ m \in DOMAIN Methods[k] /\ <<k, m>> \notin Bodiless
  <2>1. k \in Classes /\ m \in DOMAIN Methods[k]
    BY <1>1, <1>5 DEF AreObjects, HasMethod
  <2>2. Len(ir) + 1 \in 1 .. Len(ir') /\ ir'[Len(ir) + 1] = i
    BY <1>10 DEF IInv, IRTyped
  <2> QED  BY <1>9, <2>1, <2>2 DEF Linked
<1>14. PICK v : v = Apply(m, vs, s.st).v
  OBVIOUS
<1>15. /\ Applies(m, vs) /\ v \in Denotations /\ v.type = Methods[k][m].type
       /\ Apply(m, vs, s.st).st.env = s.st.env
  BY <1>7, <1>13, <1>14, CallApplies
<1>16. Replaced(s.stack, t.stack, n, v) /\ t.st = Apply(m, vs, s.st).st
  BY <1>1, <1>3, <1>4, <1>5, <1>14, <1>15 DEF ValueStep
<1>17. Effect(i, v, s.st, t.st, vals)
  <2>1. i.op = "call" /\ i.func[2] = m /\ i.args = os
    BY <1>9
  <2> QED  BY <1>11, <1>14, <1>16, <2>1 DEF Effect
<1>18. PICK p, o : p = below(n) /\ o = RObject(func.class, func.type, reg)
  OBVIOUS
<1>19. results' = Append(p, o) /\ Left(p, n)
  BY <1>4, <1>7, <1>18, Slices DEF invoke, Left
<1>20. o \in Objects /\ Resulting(o, v, vals)
  <2>1. PICK f : f = func
    OBVIOUS
  <2>2. f = Methods[k][m] /\ f.type \in Types /\ f.class \in {"Num", "String", "Nil"}
    BY <1>5, <1>13, <2>1, MethodTables DEF func
  <2>3. o \in Objects /\ o.type = f.type /\ o.val = reg
    BY <1>18, <2>1, <2>2, RegIn DEF RObject, Objects
  <2> QED  BY <1>15, <2>2, <2>3 DEF Resulting
<1>21. Typed(t.st)'
  BY <1>1, <1>6, <1>15, <1>16 DEF Typed
<1> QED  BY <1>1, <1>2, <1>3, <1>7, <1>10, <1>12, <1>15, <1>16, <1>17, <1>19, <1>20, <1>21, MeansEmitted

-----------------------------------------------------------------------------
(* The program running.                                                    *)

\* The k-th instruction, which is to run.
LEMMA NextEffect ==
    ASSUME IInv, Len(regs) < Len(ir), NEW c, NEW vals, NEW sts, Leading(c, vals, sts),
           NEW k, k = Len(regs) + 1
    PROVE  /\ k \in 1 .. Len(ir) /\ Len(regs) = k - 1 /\ ins \in Instructions /\ Knowns(ins, Len(regs))
           /\ Effect(ins, vals[k], sts[k], sts[k + 1], vals)
           /\ sts[k] \in States
           /\ ~garbage => Remembers(sts[k])
<1>1. PICK l \in 1 .. Len(ir) : /\ l - 1 = Len(regs) /\ l = Len(regs) + 1 /\ ins = ir[l]
                                /\ ir[l] \in Instructions /\ InstructionTyped(l)
  BY NextInstruction
<1>2. l = k
  BY <1>1
<1>3. Coded(vals, sts) /\ Executed(vals, sts)
  BY DEF Leading
<1>4. Effect(ins, vals[k], sts[k], sts[k + 1], vals)
  BY <1>1, <1>2, <1>3 DEF Coded
<1>5. Knowns(ins, Len(regs))
  BY <1>1, KnownInstructions DEF IInv
<1>6. sts[k] \in States
  <2>1. sts \in Seq(States) /\ Len(sts) = Len(ir) + 1 /\ Len(ir) \in Nat
    BY <1>3 DEF Coded, IInv, IRTyped
  <2>2. k \in 1 .. Len(sts)
    BY <1>1, <1>2, <2>1
  <2> QED  BY <2>1, <2>2, Member
<1> QED  BY <1>1, <1>2, <1>3, <1>4, <1>5, <1>6 DEF Executed

LEMMA KnownReads ==
    ASSUME NEW vals, NEW sts, Executed(vals, sts), ~garbage, NEW v, Known(v, Len(regs))
    PROVE  Reads(operand(v), Read(v, vals))
<1>1. CASE v.kind = "const"
  BY <1>1 DEF operand, Read, Reads
<1>2. CASE v.kind = "reg" /\ v.n \in 1 .. Len(regs)
  BY <1>2 DEF operand, Read, Executed
<1> QED  BY <1>1, <1>2 DEF Known

LEMMA CallReads ==
    ASSUME NEW vals, NEW sts, Executed(vals, sts), ~garbage, ins.op = "call", Knowns(ins, Len(regs)),
           NEW j \in 1 .. Len(ins.args)
    PROVE  Reads(a(j), ReadAll(ins.args, vals)[j])
<1>1. Known(ins.args[j], Len(regs))
  BY DEF Knowns
<1>2. ReadAll(ins.args, vals)[j] = Read(ins.args[j], vals)
  BY DEF ReadAll
<1> QED  BY <1>1, <1>2, KnownReads DEF a

\* The k-th instruction gives x, and what has been read is not garbage.
Follows(x, k, vals, sts) ==
    ~garbage' => ~garbage /\ Reads(x, vals[k]) /\ Remembers(sts[k + 1])'

LEMMA RanMeans ==
    ASSUME IInv, NEW c, NEW vals, NEW sts, Leading(c, vals, sts), NEW x, gives(x),
           NEW k, k = Len(regs) + 1, Follows(x, k, vals, sts)
    PROVE  Meant'
<1>1. /\ UNCHANGED <<program, todo, results, variables, ir>> /\ regs' = Append(regs, x)
  BY DEF gives, compiler
<1>2. Coded(vals, sts)' /\ Chain(c, ValuePoints, ValueSteps)'
  BY <1>1 DEF Leading, Coded, Chain
<1>3. ValuesReached(c[1], vals, sts)' /\ (c[Len(todo) + 1].st = Meaning(program, Start).st)'
  BY <1>1 DEF Leading, ValuesReached, StackMeans, Typed
<1>4. Executed(vals, sts)'
  <2>1. Executed(vals, sts)
    BY DEF Leading
  <2>2. PICK n \in Nat : n = Len(regs) /\ regs \in Seq(Values)
    BY DEF IInv, MachineTyped
  <2>3. Len(regs') = n + 1 /\ regs'[n + 1] = x /\ \A j \in 1 .. n : regs'[j] = regs[j]
    BY <1>1, <2>2
  <2>4. \A j \in 1 .. n + 1 : j = n + 1 \/ j \in 1 .. n
    OBVIOUS
  <2>5. ASSUME ~garbage' PROVE \A j \in 1 .. n + 1 : Reads(regs'[j], vals[j])
    BY <2>1, <2>2, <2>3, <2>4, <2>5 DEF Executed, Follows
  <2>6. ASSUME ~garbage' PROVE Remembers(sts[Len(regs) + 1])'
    <3>1. Remembers(sts[k + 1])' /\ k = Len(regs')
      BY <2>2, <2>3, <2>6 DEF Follows
    <3> QED  BY <3>1
  <2> QED  BY <2>3, <2>5, <2>6 DEF Executed
<1> QED  BY <1>2, <1>3, <1>4 DEF Leading, Meant

\* What is remembered, when neither the memory nor the output changes.
LEMMA Undisturbed ==
    ASSUME NEW st, NEW t, Remembers(st), t.env = st.env, t.out = st.out, UNCHANGED <<mem, out>>
    PROVE  Remembers(t)'
  BY DEF Remembers

LEMMA StrRuns ==
    ASSUME IInv, Meant, runStr
    PROVE  Meant'
<1>1. PICK c, vals, sts : Leading(c, vals, sts)
  BY DEF Meant
<1>2. PICK k : k = Len(regs) + 1
  OBVIOUS
<1>3. Len(regs) < Len(ir) /\ ins.op = "str" /\ UNCHANGED <<mem, out, garbage>>
  BY DEF runStr, Executing, pure
<1>4. PICK x : x = ptr([lit |-> ins.text], StrLen[ins.text])
  OBVIOUS
<1>5. gives(x)
  BY <1>4 DEF runStr
<1>6. Effect(ins, vals[k], sts[k], sts[k + 1], vals) /\ (~garbage => Remembers(sts[k]))
  BY <1>1, <1>2, <1>3, NextEffect
<1>7. vals[k] = x /\ sts[k + 1] = sts[k]
  BY <1>3, <1>4, <1>6 DEF Effect
<1>8. Follows(x, k, vals, sts)
  BY <1>3, <1>6, <1>7, Undisturbed DEF Follows, Reads
<1> QED  BY <1>1, <1>2, <1>5, <1>8, RanMeans

LEMMA LoadRuns ==
    ASSUME IInv, Meant, runLoad
    PROVE  Meant'
<1>1. PICK c, vals, sts : Leading(c, vals, sts)
  BY DEF Meant
<1>2. PICK k : k = Len(regs) + 1
  OBVIOUS
<1>3. Len(regs) < Len(ir) /\ ins.op = "load" /\ UNCHANGED <<mem, out>> /\ (~garbage' => ~garbage)
  BY DEF runLoad, Executing
<1>4. PICK x : x = mem[ins.name]
  OBVIOUS
<1>5. gives(x)
  BY <1>4 DEF runLoad
<1>6. Effect(ins, vals[k], sts[k], sts[k + 1], vals) /\ (~garbage => Remembers(sts[k])) /\ ins \in Instructions
  BY <1>1, <1>2, <1>3, NextEffect
<1>7. vals[k] = sts[k].env[ins.name] /\ sts[k + 1] = sts[k]
  BY <1>3, <1>6 DEF Effect
<1>8. ins.name \in Names /\ x # Unset
  BY <1>3, <1>4, <1>6, InstructionShapes, LoadOperand
<1>9. Follows(x, k, vals, sts)
  BY <1>3, <1>4, <1>6, <1>7, <1>8, Undisturbed DEF Follows, Remembers
<1> QED  BY <1>1, <1>2, <1>5, <1>9, RanMeans

LEMMA StoreRuns ==
    ASSUME IInv, Meant, runStore
    PROVE  Meant'
<1>1. PICK c, vals, sts : Leading(c, vals, sts)
  BY DEF Meant
<1>2. PICK k : k = Len(regs) + 1
  OBVIOUS
<1>3. Len(regs) < Len(ir) /\ ins.op = "store" /\ UNCHANGED <<out, garbage>>
  BY DEF runStore, Executing
<1>4. PICK x, y : x = operand(ins.val) /\ y = ins.name
  OBVIOUS
<1>5. gives(x) /\ mem' = [mem EXCEPT ![y] = x]
  BY <1>4 DEF runStore
<1>6. /\ Effect(ins, vals[k], sts[k], sts[k + 1], vals) /\ (~garbage => Remembers(sts[k]))
      /\ ins \in Instructions /\ sts[k] \in States /\ Knowns(ins, Len(regs))
  BY <1>1, <1>2, <1>3, NextEffect
<1>7. vals[k] = Read(ins.val, vals) /\ sts[k + 1] = Assigned(sts[k], y, vals[k])
  BY <1>3, <1>4, <1>6 DEF Effect
<1>8. y \in Names /\ Known(ins.val, Len(regs))
  BY <1>3, <1>4, <1>6, InstructionShapes DEF Knowns
<1>9. ASSUME ~garbage PROVE Reads(x, vals[k])
  BY <1>1, <1>4, <1>7, <1>8, <1>9, KnownReads DEF Leading
<1>10. ASSUME ~garbage PROVE Remembers(sts[k + 1])'
  <2>1. sts[k].env \in [Names -> Denotations \cup {Unset}]
    BY <1>6 DEF States
  <2>2. /\ sts[k + 1].env[y] = vals[k] /\ sts[k + 1].out = sts[k].out
        /\ \A z \in Names : z # y => sts[k + 1].env[z] = sts[k].env[z]
    BY <1>7, <1>8, <2>1 DEF Assigned
  <2>3. mem'[y] = x /\ \A z \in Names : z # y => mem'[z] = mem[z]
    BY <1>5, <1>8 DEF IInv, MachineTyped
  <2>4. Remembers(sts[k])
    BY <1>6, <1>10
  <2> QED  BY <1>3, <1>9, <1>10, <2>2, <2>3, <2>4 DEF Remembers
<1>11. Follows(x, k, vals, sts)
  BY <1>3, <1>9, <1>10 DEF Follows
<1> QED  BY <1>1, <1>2, <1>5, <1>11, RanMeans

\* A call runs as what it applies is applied to the values of its operands.
LEMMA CallRuns ==
    ASSUME IInv, NEW c, NEW vals, NEW sts, Leading(c, vals, sts), Len(regs) < Len(ir), ins.op = "call",
           NEW k, k = Len(regs) + 1, NEW m, ins.func[2] = m, NEW r, r = Methods[ins.func[1]][m]
    PROVE  \E vs : /\ vals[k] = Apply(m, vs, sts[k]).v /\ sts[k + 1] = Apply(m, vs, sts[k]).st
                   /\ ~garbage => /\ Remembers(sts[k])
                                  /\ \A j \in 1 .. Len(r.args) + 1 : Reads(a(j), vs[j])
<1>1. PICK vs : vs = ReadAll(ins.args, vals)
  OBVIOUS
<1>2. /\ Effect(ins, vals[k], sts[k], sts[k + 1], vals) /\ (~garbage => Remembers(sts[k]))
      /\ Knowns(ins, Len(regs))
  BY NextEffect
<1>3. vals[k] = Apply(m, vs, sts[k]).v /\ sts[k + 1] = Apply(m, vs, sts[k]).st
  BY <1>1, <1>2 DEF Effect
<1>4. Len(ins.args) = Len(r.args) + 1
  BY CallOperands
<1>5. ASSUME ~garbage, NEW j \in 1 .. Len(r.args) + 1 PROVE Reads(a(j), vs[j])
  <2>1. j \in 1 .. Len(ins.args) /\ Executed(vals, sts)
    BY <1>4 DEF Leading
  <2> QED  BY <1>1, <1>2, <1>5, <2>1, CallReads
<1> QED  BY <1>2, <1>3, <1>5

LEMMA ArithmeticRuns ==
    ASSUME IInv, Meant, runPlus \/ runMinus
    PROVE  Meant'
<1>1. PICK c, vals, sts : Leading(c, vals, sts)
  BY DEF Meant
<1>2. PICK m, n : /\ m \in {"plus", "minus"} /\ Calls("Num", m)
                  /\ n = IF m = "plus" THEN a(1).n + a(2).n ELSE a(1).n - a(2).n
                  /\ gives(int(wrap(n))) /\ pure
  BY DEF runPlus, runMinus
<1>3. /\ Len(regs) < Len(ir) /\ ins.op = "call" /\ UNCHANGED <<mem, out, garbage>>
      /\ ins.func = <<"Num", m>> /\ ins.func[1] = "Num" /\ ins.func[2] = m
  BY <1>2 DEF Calls, Executing, pure
<1>4. PICK k, r : k = Len(regs) + 1 /\ r = Methods[ins.func[1]][m]
  OBVIOUS
<1>5. r.args = <<"int">> /\ Len(r.args) = 1
  <2>1. r.args = <<"int">>
    BY <1>2, <1>3, <1>4, Rows
  <2> QED  BY <2>1
<1>6. a(1) \in Values /\ a(1).type = "int"
  BY <1>3, <1>4, CallOperands DEF Type
<1>7. a(2) \in Values /\ a(2).type = "int"
  <2>1. 1 \in 1 .. 1 /\ 1 + 1 = 2 /\ r.args[1] = "int"
    BY <1>5
  <2>2. a(1 + 1) \in Values /\ a(1 + 1).type = r.args[1]
    BY <1>3, <1>4, <1>5, <2>1, CallOperands
  <2> QED  BY <2>1, <2>2
<1>8. PICK vs : /\ vals[k] = Apply(m, vs, sts[k]).v /\ sts[k + 1] = Apply(m, vs, sts[k]).st
                /\ ~garbage => /\ Remembers(sts[k])
                               /\ \A j \in 1 .. Len(r.args) + 1 : Reads(a(j), vs[j])
  BY <1>1, <1>3, <1>4, CallRuns
<1>9. PICK x, l : /\ x = int(wrap(n))
                  /\ l = IF m = "plus" THEN vs[1].n + vs[2].n ELSE vs[1].n - vs[2].n
  OBVIOUS
<1>10. vals[k] = int(wrap(l)) /\ sts[k + 1] = sts[k]
  BY <1>2, <1>8, <1>9 DEF Apply
<1>11. ASSUME ~garbage PROVE vals[k] = x
  <2>1. 1 \in 1 .. 1 + 1 /\ 2 \in 1 .. 1 + 1
    OBVIOUS
  <2>2. Reads(a(1), vs[1]) /\ Reads(a(2), vs[2])
    BY <1>5, <1>8, <1>11, <2>1
  <2>3. vs[1] = a(1) /\ vs[2] = a(2)
    BY <1>6, <1>7, <2>2, ReadsShape
  <2>4. l = n
    BY <1>2, <1>9, <2>3
  <2> QED  BY <1>9, <1>10, <2>4
<1>12. Follows(x, k, vals, sts)
  BY <1>3, <1>8, <1>10, <1>11, Undisturbed DEF Follows, Reads
<1> QED  BY <1>1, <1>2, <1>4, <1>9, <1>12, RanMeans

LEMMA ToSRuns ==
    ASSUME IInv, Meant, runToS
    PROVE  Meant'
<1>1. PICK c, vals, sts : Leading(c, vals, sts)
  BY DEF Meant
<1>2. PICK m : m = "to_s"
  OBVIOUS
<1>3. /\ Len(regs) < Len(ir) /\ ins.op = "call" /\ UNCHANGED <<mem, out, garbage>>
      /\ ins.func[1] = "Num" /\ ins.func[2] = m
  BY <1>2 DEF runToS, Calls, Executing, pure
<1>4. PICK k, r : k = Len(regs) + 1 /\ r = Methods[ins.func[1]][m]
  OBVIOUS
<1>5. r.args \in Seq(Types) /\ a(1) \in Values /\ a(1).type = "int"
  BY <1>3, <1>4, CallOperands DEF Type
<1>6. PICK vs : /\ vals[k] = Apply(m, vs, sts[k]).v /\ sts[k + 1] = Apply(m, vs, sts[k]).st
                /\ ~garbage => /\ Remembers(sts[k])
                               /\ \A j \in 1 .. Len(r.args) + 1 : Reads(a(j), vs[j])
  BY <1>1, <1>3, <1>4, CallRuns
<1>7. PICK x : x = ptr([dec |-> a(1).n], Unset)
  OBVIOUS
<1>8. gives(x)
  BY <1>7 DEF runToS
<1>9. vals[k] = ptr([dec |-> vs[1].n], Digits(vs[1].n)) /\ sts[k + 1] = sts[k]
  BY <1>2, <1>6 DEF Apply
<1>10. ASSUME ~garbage PROVE Reads(x, vals[k])
  <2>1. Reads(a(1), vs[1])
    BY <1>5, <1>6, <1>10
  <2>2. vs[1] = a(1)
    BY <1>5, <2>1, ReadsShape
  <2> QED  BY <1>7, <1>9, <2>2 DEF Reads
<1>11. Follows(x, k, vals, sts)
  BY <1>3, <1>6, <1>9, <1>10, Undisturbed DEF Follows
<1> QED  BY <1>1, <1>4, <1>8, <1>11, RanMeans

LEMMA LengthRuns ==
    ASSUME IInv, Meant, runLength
    PROVE  Meant'
<1>1. PICK c, vals, sts : Leading(c, vals, sts)
  BY DEF Meant
<1>2. PICK m : m = "length"
  OBVIOUS
<1>3. /\ Len(regs) < Len(ir) /\ ins.op = "call" /\ UNCHANGED <<mem, out>>
      /\ ins.func[1] = "String" /\ ins.func[2] = m /\ (~garbage' => ~garbage /\ a(1).len # Unset)
  <2>1. /\ Len(regs) < Len(ir) /\ ins.op = "call" /\ UNCHANGED <<mem, out>>
        /\ ins.func[1] = "String" /\ ins.func[2] = m
    BY <1>2 DEF runLength, Calls, Executing
  <2>2. garbage' = (garbage \/ a(1).len = Unset)
    BY DEF runLength
  <2>3. ~garbage' => ~garbage /\ a(1).len # Unset
    BY <2>2
  <2> QED  BY <2>1, <2>3
<1>4. PICK k, r : k = Len(regs) + 1 /\ r = Methods[ins.func[1]][m]
  OBVIOUS
<1>5. r.args \in Seq(Types) /\ a(1) \in Values /\ a(1).type = "ptr"
  BY <1>3, <1>4, CallOperands DEF Type
<1>6. PICK vs : /\ vals[k] = Apply(m, vs, sts[k]).v /\ sts[k + 1] = Apply(m, vs, sts[k]).st
                /\ ~garbage => /\ Remembers(sts[k])
                               /\ \A j \in 1 .. Len(r.args) + 1 : Reads(a(j), vs[j])
  BY <1>1, <1>3, <1>4, CallRuns
<1>7. PICK n : /\ n \in IF a(1).len = Unset THEN {-IntLimit, 0, IntLimit - 1} ELSE {a(1).len}
               /\ gives(int(n))
  BY DEF runLength
<1>8. PICK x : x = int(n)
  OBVIOUS
<1>9. vals[k] = int(vs[1].len) /\ sts[k + 1] = sts[k]
  BY <1>2, <1>6 DEF Apply
<1>10. ASSUME ~garbage, a(1).len # Unset PROVE x = vals[k]
  <2>1. Reads(a(1), vs[1])
    BY <1>5, <1>6, <1>10
  <2>2. vs[1].len = a(1).len
    BY <1>5, <1>10, <2>1, ReadsShape
  <2> QED  BY <1>7, <1>8, <1>9, <1>10, <2>2
<1>11. Follows(x, k, vals, sts)
  BY <1>3, <1>6, <1>9, <1>10, Undisturbed DEF Follows, Reads
<1> QED  BY <1>1, <1>4, <1>7, <1>8, <1>11, RanMeans

LEMMA PutsRuns ==
    ASSUME IInv, Meant, runPuts
    PROVE  Meant'
<1>1. PICK c, vals, sts : Leading(c, vals, sts)
  BY DEF Meant
<1>2. PICK m : m = "puts"
  OBVIOUS
<1>3. /\ Len(regs) < Len(ir) /\ ins.op = "call" /\ UNCHANGED <<mem, garbage>> /\ out' = Append(out, a(1).text)
      /\ ins.func[1] = "String" /\ ins.func[2] = m
  BY <1>2 DEF runPuts, Calls, Executing
<1>4. PICK k, r : k = Len(regs) + 1 /\ r = Methods[ins.func[1]][m]
  OBVIOUS
<1>5. r.args \in Seq(Types) /\ a(1) \in Values /\ a(1).type = "ptr"
  BY <1>3, <1>4, CallOperands DEF Type
<1>6. PICK vs : /\ vals[k] = Apply(m, vs, sts[k]).v /\ sts[k + 1] = Apply(m, vs, sts[k]).st
                /\ ~garbage => /\ Remembers(sts[k])
                               /\ \A j \in 1 .. Len(r.args) + 1 : Reads(a(j), vs[j])
  BY <1>1, <1>3, <1>4, CallRuns
<1>7. PICK x : x = int(0)
  OBVIOUS
<1>8. gives(x)
  BY <1>7 DEF runPuts
<1>9. /\ vals[k] = x
      /\ sts[k + 1].env = sts[k].env /\ sts[k + 1].out = Append(sts[k].out, vs[1].text)
  BY <1>2, <1>6, <1>7 DEF Apply
<1>10. ASSUME ~garbage PROVE Remembers(sts[k + 1])'
  <2>1. Reads(a(1), vs[1])
    BY <1>5, <1>6, <1>10
  <2>2. vs[1].text = a(1).text
    BY <1>5, <2>1, ReadsShape
  <2> QED  BY <1>3, <1>6, <1>9, <1>10, <2>2 DEF Remembers
<1>11. Follows(x, k, vals, sts)
  BY <1>3, <1>9, <1>10 DEF Follows, Reads
<1> QED  BY <1>1, <1>4, <1>8, <1>11, RanMeans

-----------------------------------------------------------------------------
(* The output.                                                             *)

LEMMA InitMeant ==
    ASSUME Init
    PROVE  Meant
<1>1. /\ todo = <<parse(program)>> /\ results = <<>> /\ variables = <<>> /\ ir = <<>> /\ regs = <<>>
      /\ mem = [x \in Names |-> Unset] /\ out = <<>> /\ program \in Programs
  BY DEF Init
<1>2. <<program, Start>> \in Evaluations
  BY <1>1, MeaningAssumption
<1>3. PICK r : r = Meaning(program, Start)
  OBVIOUS
<1>4. program \in Sexprs /\ Start \in States /\ r \in Results
  BY <1>2, <1>3, MeantAt
<1>5. r.v \in Meanings /\ r.st \in States
  BY <1>4 DEF Results, Meanings
<1>6. PICK s, t : s = [stack |-> <<>>, st |-> Start] /\ t = [stack |-> <<r.v>>, st |-> r.st]
  OBVIOUS
<1>7. s \in ValuePoints /\ t \in ValuePoints
  <2>1. <<>> \in Seq(Meanings) /\ <<r.v>> \in Seq(Meanings)
    BY <1>5
  <2> QED  BY <1>4, <1>5, <1>6, <2>1 DEF ValuePoints, Points
<1>8. PICK i : i = parse(program)
  OBVIOUS
<1>9. i \in Items /\ i.do = "parse" /\ i.sexpr = program
  BY <1>4, <1>8, ItemsMade DEF parse
<1>10. Replaced(s.stack, t.stack, 0, r.v)
  <2>1. s.stack = <<>> /\ t.stack = <<r.v>>
    BY <1>6
  <2> QED  BY <2>1 DEF Replaced
<1>11. ValueStep(i, s, t)
  BY <1>2, <1>3, <1>6, <1>9, <1>10 DEF ValueStep
<1>12. PICK c : c = [k \in 1 .. 2 |-> IF k = 1 THEN s ELSE t]
  OBVIOUS
<1>13. c[1] = s /\ c[2] = t /\ c \in [1 .. 2 -> ValuePoints]
  BY <1>7, <1>12
<1>14. Chain(c, ValuePoints, ValueSteps)
  <2>1. Len(todo) = 1 /\ todo[1] = i
    BY <1>1, <1>8
  <2>2. <<i, s, t>> \in ValueSteps
    BY <1>7, <1>9, <1>11, ValueStepIn
  <2>3. \A k \in 1 .. 1 : k = 1 /\ k + 1 = 2
    OBVIOUS
  <2> QED  BY <1>13, <2>1, <2>2, <2>3 DEF Chain
<1>15. PICK vals, sts : vals = <<>> /\ sts = <<Start>>
  OBVIOUS
<1>16. Coded(vals, sts)
  <2>1. vals \in Seq(Denotations) /\ Len(vals) = 0
    BY <1>15
  <2>2. sts \in Seq(States) /\ Len(sts) = 1 /\ sts[1] = Start
    <3>1. <<Start>> \in Seq(States)
      BY <1>4
    <3> QED  BY <1>15, <3>1
  <2>3. Len(ir) = 0
    BY <1>1
  <2> QED  BY <2>1, <2>2, <2>3 DEF Coded
<1>17. Executed(vals, sts)
  <2>1. Remembers(Start)
    BY <1>1 DEF Remembers, Start
  <2>2. Len(regs) = 0 /\ sts[1] = Start
    BY <1>1, <1>15
  <2> QED  BY <2>1, <2>2 DEF Executed
<1>18. ValuesReached(s, vals, sts)
  <2>1. s.stack = <<>> /\ s.st = Start /\ sts[1] = Start
    BY <1>6, <1>15
  <2> QED  BY <1>1, <2>1 DEF ValuesReached, StackMeans, Typed
<1>19. c[Len(todo) + 1].st = Meaning(program, Start).st
  <2>1. Len(todo) + 1 = 2 /\ t.st = r.st
    BY <1>1, <1>6
  <2> QED  BY <1>3, <1>13, <2>1
<1> QED  BY <1>13, <1>14, <1>16, <1>17, <1>18, <1>19 DEF Leading, Meant

LEMMA MeantKept ==
    ASSUME Meant, UNCHANGED <<program, compiler, machine>>
    PROVE  Meant'
<1>1. /\ UNCHANGED <<program, todo, results, variables, ir>> /\ UNCHANGED <<regs, mem, out, garbage>>
  BY DEF compiler, machine
<1>2. PICK c, vals, sts : Leading(c, vals, sts)
  BY DEF Meant
<1>3. Coded(vals, sts)' /\ Chain(c, ValuePoints, ValueSteps)'
  BY <1>1, <1>2 DEF Leading, Coded, Chain
<1>4. ValuesReached(c[1], vals, sts)' /\ (c[Len(todo) + 1].st = Meaning(program, Start).st)'
  BY <1>1, <1>2 DEF Leading, ValuesReached, StackMeans, Typed
<1>5. Executed(vals, sts)'
  BY <1>1, <1>2 DEF Leading, Executed, Remembers
<1> QED  BY <1>3, <1>4, <1>5 DEF Leading, Meant

\* Linked code runs only, and to its end.
Runs ==
    /\ status \in {"running", "finished"} => Linked
    /\ status = "finished" => Len(regs) = Len(ir)

LEMMA RunsKept ==
    ASSUME IInv, Runs, [Next]_vars
    PROVE  Runs'
<1>1. CASE Compile
  <2>1. status' = "compiling"
    BY <1>1 DEF Compile, lit, str, lvar, lasgn, call, block, list, assign, invoke, Parsing, Doing
  <2> QED  BY <2>1 DEF Runs
<1>2. CASE raises \/ crashes \/ malforms
  <2>1. status' \in {"raised", "crashed", "malformed"}
    BY <1>2 DEF raises, crashes, malforms, Stop
  <2> QED  BY <2>1 DEF Runs
<1>3. CASE finish
  <2>1. ir' = ir /\ status' \in {"unlinked", "running"}
    BY <1>3 DEF finish, compiler
  <2>2. ASSUME status' = "running" PROVE Linked
    <3>1. ~\E k \in DOMAIN ir : ir[k].op = "call" /\ ir[k].func \in Bodiless
      BY <1>3, <2>2 DEF finish
    <3>2. DOMAIN ir = 1 .. Len(ir)
      BY DEF IInv, IRTyped
    <3> QED  BY <3>1, <3>2 DEF Linked
  <2> QED  BY <2>1, <2>2 DEF Runs, Linked
<1>4. CASE runReturn
  <2>1. UNCHANGED <<ir, regs>> /\ status = "running" /\ Len(regs) = Len(ir)
    BY <1>4 DEF runReturn, compiler, machine
  <2> QED  BY <2>1 DEF Runs, Linked
<1>5. CASE runStr \/ runLoad \/ runStore \/ runPlus \/ runMinus \/ runToS \/ runLength \/ runPuts
  <2>1. ir' = ir /\ status = "running" /\ status' = "running"
    BY <1>5 DEF runStr, runLoad, runStore, runPlus, runMinus, runToS, runLength, runPuts, gives, compiler,
                Calls, Executing
  <2> QED  BY <2>1 DEF Runs, Linked
<1>6. CASE Finished \/ UNCHANGED vars
  <2>1. UNCHANGED <<ir, regs, status>>
    BY <1>6 DEF Finished, vars, compiler, machine
  <2> QED  BY <2>1 DEF Runs, Linked
<1> QED  BY <1>1, <1>2, <1>3, <1>4, <1>5, <1>6 DEF Next, Give, Run

\* Instructions are only added.
LEMMA LinkedBefore ==
    ASSUME IInv, [Next]_vars, Linked'
    PROVE  Linked
<1>1. CASE ir' = ir
  BY <1>1 DEF Linked
<1>2. CASE \E i : ir' = Append(ir, i)
  BY <1>2 DEF Linked, IInv, IRTyped
<1>3. CASE Compile
  <2>1. CASE str \/ lvar \/ assign \/ invoke
    BY <1>2, <2>1 DEF str, lvar, assign, invoke, emit
  <2>2. CASE lit \/ lasgn \/ call \/ block \/ list
    BY <1>1, <2>2 DEF lit, lasgn, call, block, list
  <2> QED  BY <1>3, <2>1, <2>2 DEF Compile
<1>4. CASE Give \/ Run \/ Finished \/ UNCHANGED vars
  <2>1. ir' = ir
    BY <1>4 DEF Give, Run, raises, crashes, malforms, finish, Stop, runStr, runLoad, runStore, runPlus, runMinus,
                runToS, runLength, runPuts, runReturn, gives, Finished, vars, compiler
  <2> QED  BY <1>1, <2>1
<1> QED  BY <1>3, <1>4 DEF Next

LEMMA NextMeant ==
    ASSUME IInv, Meant, [Next]_vars, Linked'
    PROVE  Meant'
<1>1. CASE Compile
  BY <1>1, LitMeans, StrMeans, LvarMeans, NodeMeans, ListMeans, AssignMeans, InvokeMeans DEF Compile
<1>2. CASE Give \/ runReturn
  <2>1. UNCHANGED <<program, compiler, machine>>
    BY <1>2 DEF Give, raises, crashes, malforms, finish, Stop, runReturn
  <2> QED  BY <2>1, MeantKept
<1>3. CASE runStr \/ runLoad \/ runStore \/ runPlus \/ runMinus \/ runToS \/ runLength \/ runPuts
  BY <1>3, StrRuns, LoadRuns, StoreRuns, ArithmeticRuns, ToSRuns, LengthRuns, PutsRuns
<1>4. CASE Finished \/ UNCHANGED vars
  <2>1. UNCHANGED <<program, compiler, machine>>
    BY <1>4 DEF Finished, vars
  <2> QED  BY <2>1, MeantKept
<1> QED  BY <1>1, <1>2, <1>3, <1>4 DEF Next, Run

\* The compiled program prints what the s-expression means: parse_sexpr emits
\* the code of receivers, arguments and statements in the order in which they
\* are evaluated, and each result is where the code that uses it looks for it.
THEOREM MeaningPrinted == Spec => []OutputMatches
<1> DEFINE I == IInv /\ Runs /\ (Linked => Meant)
<1>1. Init => I
  <2>1. Init => Runs
    BY DEF Init, Runs
  <2> QED  BY <2>1, InitIInv, InitMeant
<1>2. I /\ [Next]_vars => I'
  BY NextIInv, RunsKept, LinkedBefore, NextMeant
<1>3. I => OutputMatches
  <2>1. ASSUME I, status = "finished", ~garbage
        PROVE  out = Meaning(program, Start).st.out
    <3>1. Meant /\ Len(regs) = Len(ir) /\ todo = <<>>
      BY <2>1 DEF Runs, IInv, StatusTyped
    <3>2. PICK c, vals, sts : Leading(c, vals, sts)
      BY <3>1 DEF Meant
    <3>3. Len(todo) + 1 = 1
      BY <3>1
    <3>4. c[1].st = sts[Len(ir) + 1] /\ c[1].st = Meaning(program, Start).st
      BY <3>2, <3>3 DEF Leading, ValuesReached
    <3>5. out = sts[Len(regs) + 1].out
      BY <2>1, <3>2 DEF Leading, Executed, Remembers
    <3> QED  BY <3>1, <3>4, <3>5
  <2> QED  BY <2>1 DEF OutputMatches
<1> QED  BY <1>1, <1>2, <1>3, PTL DEF Spec
==============================================================================
