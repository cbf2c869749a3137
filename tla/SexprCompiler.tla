--------------------------- MODULE SexprCompiler ---------------------------
(***************************************************************************)
(* lib/rcompiler.rb: an s-expression is compiled to straight-line code by  *)
(* a table of statically typed methods, and the code is run.               *)
(*                                                                         *)
(* parse_sexpr is recursive; todo is its recursion unfolded, the nodes     *)
(* still to parse and the work left for after their operands, and results  *)
(* the values of the calls that have returned.  Once compiled, the         *)
(* instructions of main execute one by one.                                *)
(***************************************************************************)
EXTENDS Integers, Sequences

CONSTANTS Programs,  \* the s-expressions to compile
          Sexprs,    \* those, and what they are made of
          Names,     \* local variables
          IntLimit,  \* 2^31: an Int32Ty is in -IntLimit .. IntLimit-1
          StrLen,    \* what strlen says of the text of a literal
          Unset      \* memory nobody has written

ASSUME IntLimitAssumption == IntLimit \in Nat \ {0}
ASSUME StrLenAssumption   == StrLen \in [DOMAIN StrLen -> Nat]

\* S holds what parse_sexpr takes its members apart into.
AreSexprs(S) ==
    \A e \in S :
        \/ e.type = "lit" /\ e.n \in Int
        \/ e.type = "str" /\ e.text \in DOMAIN StrLen
        \/ e.type = "lvar" /\ e.name \in Names
        \/ e.type = "lasgn" /\ e.name \in Names /\ e.val \in S
        \/ e.type = "call" /\ e.recv \in S /\ e.args \in Seq(S)
        \/ e.type = "block" /\ e.body \in Seq(S)

ASSUME SexprsAssumption == Programs \subseteq Sexprs /\ AreSexprs(Sexprs)

\* The values of a program: numbers, and strings, whose length may be unset.
Ints   == [type : {"int"}, n : Int]
Texts  == [lit : DOMAIN StrLen] \cup [dec : Int]
Ptrs   == [type : {"ptr"}, text : Texts, len : Int \cup {Unset}]
Values == Ints \cup Ptrs

ASSUME UnsetAssumption == Unset \notin Values

VARIABLES program,
          todo, results,   \* the recursion of parse_sexpr
          variables,       \* @variables: name -> [class, type of its alloca]
          ir,              \* the instructions of main
          status,          \* of the compiler, then of the program
          regs, mem, out,  \* results of instructions, the allocas, the output
          garbage          \* the program has read memory nobody wrote

compiler == <<todo, results, variables, ir>>
machine  == <<regs, mem, out, garbage>>
vars     == <<program, compiler, status, machine>>

-----------------------------------------------------------------------------
(* The method tables of Compiler#initialize.                               *)

\* Mutant of Methods: the class of length is String.
Methods_lengthString ==
    [ Num    |-> [ plus   |-> [args |-> <<"int">>, type |-> "int", class |-> "Num"],
                   minus  |-> [args |-> <<"int">>, type |-> "int", class |-> "Num"],
                   to_s   |-> [args |-> <<>>, type |-> "ptr", class |-> "String"] ],
      String |-> [ length |-> [args |-> <<>>, type |-> "int", class |-> "String"],
                   puts   |-> [args |-> <<>>, type |-> "int", class |-> "Nil"],
                   plus   |-> [args |-> <<"ptr">>, type |-> "ptr", class |-> "String"] ] ]

\* Per class and method: the types of the arguments after the receiver, the
\* type of the result, and the class parse_sexpr gives it.
Methods ==
    [ Num    |-> [ plus   |-> [args |-> <<"int">>, type |-> "int", class |-> "Num"],
                   minus  |-> [args |-> <<"int">>, type |-> "int", class |-> "Num"],
                   to_s   |-> [args |-> <<>>, type |-> "ptr", class |-> "String"] ],
      String |-> [ length |-> [args |-> <<>>, type |-> "int", class |-> "Num"],
                   puts   |-> [args |-> <<>>, type |-> "int", class |-> "Nil"],
                   plus   |-> [args |-> <<"ptr">>, type |-> "ptr", class |-> "String"] ] ]

\* The methods whose functions are declared and never given a block.
Bodiless == { <<"String", "plus">> }

\* classes[:Nil] is nil; a list of results is no RObject.
Classes == DOMAIN Methods

RObject(class, type, val) == [class |-> class, type |-> type, val |-> val]
NoObject == [class |-> "Array"]

-----------------------------------------------------------------------------
(* parse_sexpr.                                                            *)

Item == Head(todo)
Doing(work) == status = "compiling" /\ todo # <<>> /\ Item.do = work
Parsing(type) == Doing("parse") /\ Item.sexpr.type = type

parse(e) == [do |-> "parse", sexpr |-> e]
parseAll(es) == [ k \in 1 .. Len(es) |-> parse(es[k]) ]

push(robj) == results' = Append(results, robj)
operands(n) == SubSeq(results, Len(results) - n + 1, Len(results))
below(n) == SubSeq(results, 1, Len(results) - n)

emit(ins) == ir' = Append(ir, ins)
reg == [kind |-> "reg", n |-> Len(ir) + 1]

compilerOnly == UNCHANGED <<program, machine>>

\* Put work in front of what is left to do.
first(items) == todo' = items \o Tail(todo)

lit ==
    /\ Parsing("lit")
    /\ push(RObject("Num", "int", [kind |-> "const", n |-> Item.sexpr.n]))
    /\ first(<<>>)
    /\ compilerOnly /\ UNCHANGED <<variables, ir, status>>

str ==
    /\ Parsing("str")
    /\ emit([op |-> "str", text |-> Item.sexpr.text])
    /\ push(RObject("String", "ptr", reg))
    /\ first(<<>>)
    /\ compilerOnly /\ UNCHANGED <<variables, status>>

\* Mutant of lvar: every variable is a Num.
lvar_num ==
    /\ Parsing("lvar") /\ Item.sexpr.name \in DOMAIN variables
    /\ emit([op |-> "load", name |-> Item.sexpr.name])
    /\ push(RObject("Num", "int", reg))
    /\ first(<<>>)
    /\ compilerOnly /\ UNCHANGED <<variables, status>>

lvar ==
    /\ Parsing("lvar") /\ Item.sexpr.name \in DOMAIN variables
    /\ emit([op |-> "load", name |-> Item.sexpr.name])
    /\ LET var == variables[Item.sexpr.name] IN push(RObject(var.class, var.type, reg))
    /\ first(<<>>)
    /\ compilerOnly /\ UNCHANGED <<variables, status>>

\* Mutant of lasgn: the variable exists before its value has been parsed.
lasgn_early ==
    /\ Parsing("lasgn")
    /\ first(<<parse(Item.sexpr.val), [do |-> "assign", name |-> Item.sexpr.name]>>)
    /\ variables' = [ x \in DOMAIN variables \cup {Item.sexpr.name} |->
                        IF x \in DOMAIN variables THEN variables[x]
                        ELSE [class |-> "Num", type |-> "int"] ]
    /\ compilerOnly /\ UNCHANGED <<results, ir, status>>

lasgn ==
    /\ Parsing("lasgn")
    /\ first(<<parse(Item.sexpr.val), [do |-> "assign", name |-> Item.sexpr.name]>>)
    /\ compilerOnly /\ UNCHANGED <<results, variables, ir, status>>

call ==
    /\ Parsing("call")
    /\ first(<<parse(Item.sexpr.recv)>> \o parseAll(Item.sexpr.args)
                \o <<[do |-> "call", method |-> Item.sexpr.method, n |-> Len(Item.sexpr.args)]>>)
    /\ compilerOnly /\ UNCHANGED <<results, variables, ir, status>>

\* Any other node is the list of its children.
block ==
    /\ Parsing("block")
    /\ first(parseAll(Item.sexpr.body) \o <<[do |-> "list", n |-> Len(Item.sexpr.body)]>>)
    /\ compilerOnly /\ UNCHANGED <<results, variables, ir, status>>

\* Mutant of list: the results of the children stay.
list_leaves ==
    /\ Doing("list")
    /\ push(NoObject)
    /\ first(<<>>)
    /\ compilerOnly /\ UNCHANGED <<variables, ir, status>>

list ==
    /\ Doing("list")
    /\ results' = Append(below(Item.n), NoObject)
    /\ first(<<>>)
    /\ compilerOnly /\ UNCHANGED <<variables, ir, status>>

-----------------------------------------------------------------------------
(* After the operands of an assignment.                                    *)

value == results[Len(results)]
IsNew == Item.name \notin DOMAIN variables

\* The alloca, if there is none, and the store; the value is the result.  A
\* variable keeps the class of its first value.
assign ==
    /\ Doing("assign") /\ value.class # "Array"
    /\ \/ IsNew /\ value.class \in Classes
       \/ ~IsNew /\ variables[Item.name].type = value.type
    /\ variables' = [ x \in DOMAIN variables \cup {Item.name} |->
                        IF x \in DOMAIN variables THEN variables[x]
                        ELSE [class |-> value.class, type |-> value.type] ]
    /\ emit([op |-> "store", name |-> Item.name, val |-> value.val])
    /\ first(<<>>)
    /\ compilerOnly /\ UNCHANGED <<results, status>>

-----------------------------------------------------------------------------
(* After the operands of a call.                                           *)

recv == operands(Item.n + 1)[1]
args == Tail(operands(Item.n + 1))

AreObjects == recv.class \in Classes /\ \A k \in DOMAIN args : args[k].class # "Array"
HasMethod  == Item.method \in DOMAIN Methods[recv.class]
func       == Methods[recv.class][Item.method]
Fits       == func.args = [ k \in DOMAIN args |-> args[k].type ]

\* Mutant of invoke: the receiver and an argument change places.
invoke_swapped ==
    /\ Doing("call") /\ AreObjects /\ HasMethod /\ Fits
    /\ LET vals == [ k \in 1 .. Item.n + 1 |-> operands(Item.n + 1)[Item.n + 2 - k].val ]
       IN  emit([op |-> "call", func |-> <<recv.class, Item.method>>, args |-> vals])
    /\ results' = Append(below(Item.n + 1), RObject(func.class, func.type, reg))
    /\ first(<<>>)
    /\ compilerOnly /\ UNCHANGED <<variables, status>>

invoke ==
    /\ Doing("call") /\ AreObjects /\ HasMethod /\ Fits
    /\ LET vals == [ k \in 1 .. Item.n + 1 |-> operands(Item.n + 1)[k].val ]
       IN  emit([op |-> "call", func |-> <<recv.class, Item.method>>, args |-> vals])
    /\ results' = Append(below(Item.n + 1), RObject(func.class, func.type, reg))
    /\ first(<<>>)
    /\ compilerOnly /\ UNCHANGED <<variables, status>>

-----------------------------------------------------------------------------
(* Where compilation ends without code.                                    *)

Stop(s) == status' = s /\ UNCHANGED <<program, compiler, machine>>

\* NoMethodError: nil or an Array in the place of an RObject or its methods.
raises ==
    /\ \/ Parsing("lvar") /\ Item.sexpr.name \notin DOMAIN variables
       \/ Doing("assign") /\ (value.class = "Array" \/ (IsNew /\ value.class \notin Classes))
       \/ Doing("call") /\ ~AreObjects
    /\ Stop("raised")

\* The function is nil, and the binding takes it for a wrapped pointer.
crashes == Doing("call") /\ AreObjects /\ ~HasMethod /\ Stop("crashed")

\* LLVM is given a store or a call whose types do not agree.
malforms ==
    /\ \/ Doing("assign") /\ value.class # "Array" /\ ~IsNew
                          /\ variables[Item.name].type # value.type
       \/ Doing("call") /\ AreObjects /\ HasMethod /\ ~Fits
    /\ Stop("malformed")

\* The bitcode is written; a function without a body keeps it from linking.
finish ==
    /\ status = "compiling" /\ todo = <<>>
    /\ status' = IF \E k \in DOMAIN ir : ir[k].op = "call" /\ ir[k].func \in Bodiless
                 THEN "unlinked" ELSE "running"
    /\ UNCHANGED <<program, compiler, machine>>

-----------------------------------------------------------------------------
(* The program, running.                                                   *)

int(n) == [type |-> "int", n |-> n]
ptr(text, len) == [type |-> "ptr", text |-> text, len |-> len]
wrap(n) == ((n + IntLimit) % (2 * IntLimit)) - IntLimit

ins == ir[Len(regs) + 1]
operand(v) == IF v.kind = "const" THEN int(v.n) ELSE regs[v.n]
a(k) == operand(ins.args[k])

Executing(op) == status = "running" /\ Len(regs) < Len(ir) /\ ins.op = op
Calls(c, m) == Executing("call") /\ ins.func = <<c, m>>

gives(v) == regs' = Append(regs, v) /\ UNCHANGED <<program, compiler, status>>
pure == UNCHANGED <<mem, out, garbage>>

\* str_from_cstr
runStr == Executing("str") /\ gives(ptr([lit |-> ins.text], StrLen[ins.text])) /\ pure

runLoad ==
    /\ Executing("load")
    /\ gives(mem[ins.name])
    /\ garbage' = (garbage \/ mem[ins.name] = Unset)
    /\ UNCHANGED <<mem, out>>

runStore ==
    /\ Executing("store")
    /\ mem' = [mem EXCEPT ![ins.name] = operand(ins.val)]
    /\ gives(operand(ins.val))
    /\ UNCHANGED <<out, garbage>>

runPlus  == Calls("Num", "plus") /\ gives(int(wrap(a(1).n + a(2).n))) /\ pure
runMinus == Calls("Num", "minus") /\ gives(int(wrap(a(1).n - a(2).n))) /\ pure

\* Num#to_s sets the pointer of the new string and not its length.
runToS == Calls("Num", "to_s") /\ gives(ptr([dec |-> a(1).n], Unset)) /\ pure

\* An int nobody wrote may be any; one at each end and zero stand for them.
runLength ==
    /\ Calls("String", "length")
    /\ \E n \in IF a(1).len = Unset THEN {-IntLimit, 0, IntLimit - 1} ELSE {a(1).len} :
           gives(int(n))
    /\ garbage' = (garbage \/ a(1).len = Unset)
    /\ UNCHANGED <<mem, out>>

runPuts ==
    /\ Calls("String", "puts")
    /\ out' = Append(out, a(1).text)
    /\ gives(int(0))
    /\ UNCHANGED <<mem, garbage>>

runReturn ==
    /\ status = "running" /\ Len(regs) = Len(ir)
    /\ status' = "finished"
    /\ UNCHANGED <<program, compiler, machine>>

Stopped  == status \notin {"compiling", "running"}
Finished == Stopped /\ UNCHANGED vars

-----------------------------------------------------------------------------
Init ==
    /\ program \in Programs
    /\ todo = <<parse(program)>> /\ results = <<>>
    /\ variables = <<>> /\ ir = <<>>
    /\ status = "compiling"
    /\ regs = <<>> /\ mem = [x \in Names |-> Unset] /\ out = <<>>
    /\ garbage = FALSE

Compile == lit \/ str \/ lvar \/ lasgn \/ call \/ block \/ list \/ assign \/ invoke
Give    == raises \/ crashes \/ malforms \/ finish
Run     == runStr \/ runLoad \/ runStore \/ runPlus \/ runMinus \/ runToS \/ runLength
              \/ runPuts \/ runReturn

Next == Compile \/ Give \/ Run \/ Finished

Spec == Init /\ [][Next]_vars

-----------------------------------------------------------------------------
(* Properties.                                                             *)

\* The recursion is balanced, with a value for every operand the work left
\* to do will take and one for the whole in the end; an instruction uses
\* only the results of instructions before it.
TypeOK ==
    /\ status \in {"compiling", "raised", "crashed", "malformed", "unlinked", "running", "finished"}
    /\ DOMAIN variables \subseteq Names
    /\ Len(regs) <= Len(ir)
    /\ status = "compiling" /\ todo # <<>> =>
           Len(results) >= CASE Item.do = "call" -> Item.n + 1
                             [] Item.do = "assign" -> 1
                             [] Item.do = "list" -> Item.n
                             [] OTHER -> 0
    /\ status \in {"running", "finished", "unlinked"} => Len(results) = 1
    /\ \A k \in DOMAIN ir : ir[k].op = "call" =>
           \A j \in DOMAIN ir[k].args : ir[k].args[j].kind = "reg" => ir[k].args[j].n < k

\* The static classes are sound: what a call is given when the program runs
\* has the types of its function, and a variable of class String holds a
\* pointer, one of class Num an int, whatever it was assigned before.
ClassesSound ==
    /\ status = "running" /\ Len(regs) < Len(ir) /\ ins.op = "call" =>
           /\ a(1).type = IF ins.func[1] = "String" THEN "ptr" ELSE "int"
           /\ [ k \in 1 .. Len(ins.args) - 1 |-> a(k + 1).type ]
                  = Methods[ins.func[1]][ins.func[2]].args
    /\ \A x \in DOMAIN variables :
           mem[x] # Unset => mem[x].type = IF variables[x].class = "String" THEN "ptr" ELSE "int"

\* The program reads a variable only after it has written it, a variable that
\* is defined by an expression it occurs in included.
SetBeforeRead ==
    status = "running" /\ Len(regs) < Len(ir) /\ ins.op = "load" => mem[ins.name] # Unset
=============================================================================
