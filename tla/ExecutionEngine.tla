-------------------------- MODULE ExecutionEngine --------------------------
(***************************************************************************)
(* The functions of all modules, the one execution engine of the process,  *)
(* and the pass manager of a client (ext/llvm_module.cpp), as the client   *)
(* and RubyVM use them side by side.                                       *)
(*                                                                         *)
(* Modules and functions are numbered as they are made, and a Ruby object  *)
(* for a function is its number.  A body is the number of the edit that    *)
(* gave it and the function it calls.  The engine compiles a function when *)
(* it runs it first and keeps the code for good; a call of a function      *)
(* without a body goes to the symbol of its name in the process.  What is  *)
(* undefined ends the model: "aborted".                                    *)
(***************************************************************************)
EXTENDS Integers, Sequences, FiniteSets, Functions, TLC

CONSTANTS Names,         \* the names a client gives to functions
          Provided,      \* those that are symbols of the process
          rb_func,       \* the name of the functions RubyVM.start declares
          MaxModules, MaxStarts, MaxFunctions, MaxEdits, MaxLists  \* bounds

ASSUME NamesAssumption == rb_func \in Provided
ASSUME BoundsAssumption ==
    {MaxModules, MaxStarts, MaxFunctions, MaxEdits, MaxLists} \subseteq Nat

VARIABLES nmod,     \* the number of modules
          fun,      \* the functions
          EE,       \* the modules of the engine; none: there is no engine
          code,     \* compiled function -> its code
          lists,    \* how often the client's pass manager was given its passes
          vm,       \* @module, @rb_funcs, @func_n, and the methods compiled
          last,     \* the last run
          passed,   \* history: modules on which passes were run
          stale,    \* history: functions edited after they were compiled or inlined
          careful   \* history: the client has kept to the discipline

vars == <<nmod, fun, EE, code, lists, passed, vm, last, stale, careful>>

Functions == DOMAIN fun

\* What a body does besides being itself.
nothing   == [op |-> "nothing", fn |-> 0, edit |-> 0]
calls(g)  == [op |-> "call", fn |-> g, edit |-> 0]
copy(g, e) == [op |-> "copy", fn |-> g, edit |-> e]  \* inlined

\* Mutant of declaration: two functions of one name.
declaration_keeps(m, name, renamed) ==
    [ mod |-> m, name |-> name, renamed |-> FALSE, edit |-> 0, does |-> nothing,
      finished |-> TRUE, alive |-> TRUE ]

\* A name LLVM had to change, because it was taken, is "renamed".
declaration(m, name, renamed) ==
    [ mod |-> m, name |-> name, renamed |-> renamed, edit |-> 0, does |-> nothing,
      finished |-> TRUE, alive |-> TRUE ]

Named(m, name) ==
    { g \in Functions : fun[g].mod = m /\ fun[g].name = name /\ ~fun[g].renamed /\ fun[g].alive }

IsDeclaration(g) == fun[g].edit = 0
ClientModules    == (1 .. nmod) \ vm.modules
Callers(g)       == { f \in Functions : fun[f].does = calls(g) }
Inlined(g)       == \E f \in Functions : fun[f].does.op = "copy" /\ fun[f].does.fn = g
vm_func(n)       == "vm_func" \o ToString(n)

\* Different numbers are written differently.
ASSUME vm_funcAssumption ==
    \A i, j \in 0 .. MaxFunctions :
        vm_func(i) # rb_func /\ (vm_func(i) = vm_func(j) => i = j)

\* Of all functions, those of RubyVM included.
Edits == FoldFunction(LAMBDA r, n : r.edit + n, 0, fun)

\* fs with a new body for f.
Edited(fs, f, does, finished) ==
    [fs EXCEPT ![f].edit = @ + 1, ![f].does = does, ![f].finished = finished]

answered(by, f, a) == [by |-> by, fn |-> f, answer |-> a]
aborted(by)        == answered(by, 0, <<"aborted">>)
Nobody             == answered("nobody", 0, <<>>)
Going              == last.answer # <<"aborted">>

\* The discipline, for a step of the client.
mindful(cond) == careful' = (careful /\ cond)
Usable(g)     == IsDeclaration(g) => fun[g].name \in Provided /\ fun[g].mod \notin passed

-----------------------------------------------------------------------------
(* Modules.                                                                *)

\* LLVM::Module.new.
Module_new ==
    /\ Going /\ Cardinality(ClientModules) < MaxModules
    /\ nmod' = nmod + 1
    /\ UNCHANGED <<fun, EE, code, lists, passed, vm, last, stale, careful>>

\* get_or_insert_function: what has the name, else a declaration.  That the
\* name may have another type is in Bindings.
get_or_insert_function(m, name) ==
    /\ Going
    /\ IF Named(m, name) # {} THEN UNCHANGED fun
       ELSE Len(fun) < MaxFunctions /\ fun' = Append(fun, declaration(m, name, FALSE))
    /\ UNCHANGED <<nmod, EE, code, lists, passed, vm, last, stale, careful>>

\* external_function: always a declaration.
external_function(m, name) ==
    /\ Going /\ Len(fun) < MaxFunctions
    /\ fun' = Append(fun, declaration(m, name, Named(m, name) # {}))
    /\ mindful(name \in Provided /\ Named(m, name) = {})
    /\ UNCHANGED <<nmod, EE, code, lists, passed, vm, last, stale>>

\* create_block and builder calls: a new body, of which a block may still
\* lack its terminator.  A body made of a call is not called itself: a bound.
build(f, does, finished) ==
    /\ Going /\ fun[f].mod \in ClientModules /\ Edits < MaxEdits
    /\ does.op = "call" => /\ does.fn # f /\ Callers(f) = {}
                           /\ fun[does.fn].mod = fun[f].mod /\ fun[does.fn].does = nothing
    /\ IF \A g \in {f, does.fn} \cap Functions : fun[g].alive
       THEN /\ fun' = Edited(fun, f, does, finished)
            /\ stale' = IF f \in DOMAIN code \/ Inlined(f) THEN stale \cup {f} ELSE stale
            /\ UNCHANGED last
       ELSE /\ last' = aborted("client")
            /\ UNCHANGED <<fun, stale>>
    /\ mindful(finished /\ \A g \in {f, does.fn} \cap Functions : Usable(g))
    /\ UNCHANGED <<nmod, EE, code, lists, passed, vm>>

-----------------------------------------------------------------------------
(* The engine.                                                             *)

\* The engine is made for the first module, and given the others.
llvm_execution_engine_get(m) == EE \cup {m}

ExecutionEngine_get(m) ==
    /\ Going /\ m \in ClientModules
    /\ EE' = llvm_execution_engine_get(m)
    /\ UNCHANGED <<nmod, fun, code, lists, passed, vm, last, stale, careful>>

\* What running f executes: f, and what it calls.
Reached(f, table) == {f} \cup { g \in Functions : table[f].does = calls(g) }

CanCompile(g) ==
    /\ fun[g].alive /\ fun[g].finished
    /\ IsDeclaration(g) => fun[g].name \in Provided /\ ~fun[g].renamed

\* The bodies that an execution of f goes through.
answer(f, table) ==
    LET does == table[f].does
    IN  << <<f, table[f].edit>>,
           CASE does.op = "call"    -> <<does.fn, table[does.fn].edit>>
             [] does.op = "copy"    -> <<does.fn, does.edit>>
             [] does.op = "nothing" -> <<>> >>

\* The code of fs is made now, other code stays.
compiled(fs) ==
    [ g \in DOMAIN code \cup fs |-> IF g \in DOMAIN code THEN code[g]
                                    ELSE [edit |-> fun[g].edit, does |-> fun[g].does] ]

\* Mutant of LLVM_FUNCTION: found by its name.
LLVM_FUNCTION_named(f) ==
    CHOOSE g \in Functions : fun[g].name = fun[f].name /\
                             \A h \in Functions : fun[h].name = fun[f].name => g <= h

\* The function that argument f wraps.
LLVM_FUNCTION(f) == f

\* run_function and run_autoconvert.  Whether a function of a module that the
\* engine was not given can be compiled is LLVM's affair.
run_function(by, arg) ==
    LET f          == LLVM_FUNCTION(arg)
        uncompiled == Reached(f, IF f \in DOMAIN code THEN code ELSE fun) \ DOMAIN code
        now        == compiled(uncompiled)
        runs       == EE # {} /\ \A g \in uncompiled : CanCompile(g)
    IN  /\ \/ runs /\ code' = now /\ last' = answered(by, arg, answer(f, now))
           \/ (runs => fun[f].mod \notin EE) /\ last' = aborted(by) /\ UNCHANGED code
        /\ UNCHANGED <<nmod, fun, EE, lists, passed, vm, stale>>

ExecutionEngine_run_function(f) ==
    /\ Going /\ fun[f].mod \in ClientModules
    /\ run_function("client", f)
    /\ mindful(fun[f].mod \in EE /\ \A g \in Reached(f, fun) : Usable(g))

-----------------------------------------------------------------------------
(* PassManager.                                                            *)

\* Mutant of createGlobalDCEPass: what has a body goes as well.
createGlobalDCEPass_all(m, fs) ==
    [ g \in Functions |->
        IF fs[g].mod = m /\ \A f \in Functions : fs[f].does # calls(g)
        THEN [fs[g] EXCEPT !.alive = FALSE] ELSE fs[g] ]

\* Declarations nobody calls are deleted.  Everything the bindings make has
\* external linkage, so whatever has a body stays.
createGlobalDCEPass(m, fs) ==
    [ g \in Functions |->
        IF fs[g].mod = m /\ fs[g].edit = 0 /\ \A f \in Functions : fs[f].does # calls(g)
        THEN [fs[g] EXCEPT !.alive = FALSE] ELSE fs[g] ]

\* Some of the calls that can be are replaced by what they call.
createFunctionInliningPass(m, fs) ==
    LET inlinable == { f \in Functions : fs[f].mod = m /\ \E g \in Functions :
                                             fs[f].does = calls(g) /\ fs[g].edit > 0 }
        copied(f) == LET g == fs[f].does.fn IN copy(g, fs[g].edit)
    IN  { [ f \in Functions |-> IF f \in S THEN [fs[f] EXCEPT !.does = copied(f)] ELSE fs[f] ] :
            S \in SUBSET inlinable }

\* The passes in their order, those left out that keep to the inside of a
\* function.
Passes(m, fs) == createFunctionInliningPass(m, createGlobalDCEPass(m, fs))

\* n lists of passes, one after the other.
Repeated(n, m) ==
    LET result[k \in 1 .. n] ==
            IF k = 1 THEN Passes(m, fun) ELSE UNION { Passes(m, fs) : fs \in result[k - 1] }
    IN  result[n]

\* Every run adds the passes once more and runs all of them.  The verifier
\* aborts on a block without a terminator.
PassManager_run(m) ==
    /\ Going /\ m \in ClientModules /\ lists < MaxLists
    /\ lists' = lists + 1
    /\ passed' = passed \cup {m}
    /\ \/ /\ \A f \in Functions : fun[f].mod = m => fun[f].finished
          /\ fun' \in Repeated(lists + 1, m)
          /\ UNCHANGED last
       \/ /\ \E f \in Functions : fun[f].mod = m /\ ~fun[f].finished
          /\ last' = aborted("client")
          /\ UNCHANGED fun
    /\ UNCHANGED <<nmod, EE, code, vm, stale, careful>>

-----------------------------------------------------------------------------
(* RubyVM, in the same process.                                            *)

\* Mutant of rb_func_of: declared once, by the first start.
rb_func_of_first(m) == IF vm.func # 0 THEN vm.func ELSE Len(fun) + 1

\* The function that start declares in module m.
rb_func_of(m) == Len(fun) + 1

\* RubyVM.start: a module, for the engine, with the external functions.
RubyVM_start ==
    /\ Going /\ Cardinality(vm.modules) < MaxStarts /\ Len(fun) < MaxFunctions
    /\ nmod' = nmod + 1
    /\ EE' = llvm_execution_engine_get(nmod + 1)
    /\ fun' = Append(fun, declaration(nmod + 1, rb_func, FALSE))
    /\ vm' = [ module |-> nmod + 1, func |-> rb_func_of(nmod + 1), func_n |-> 0,
               modules |-> vm.modules \cup {nmod + 1}, methods |-> vm.methods ]
    /\ UNCHANGED <<code, lists, passed, last, stale, careful>>

\* Mutant of RubyVM_compile: a compilation that raises hands out its function.
RubyVM_compile_raised ==
    /\ Going /\ vm.module # 0 /\ Len(fun) < MaxFunctions /\ Edits < MaxEdits
    /\ \E does \in {nothing, calls(vm.func)}, raises \in BOOLEAN :
           LET f == Len(fun) + 1
           IN  /\ fun' = Edited(Append(fun, declaration(vm.module, vm_func(vm.func_n), FALSE)),
                                f, does, ~raises)
               /\ vm' = [vm EXCEPT !.func_n = @ + 1, !.methods = @ \cup {f}]
    /\ UNCHANGED <<nmod, EE, code, lists, passed, last, stale, careful>>

\* RubyVM.compile_bytecode, under a name that is always new: a function that
\* calls an external function, or none; or one left unfinished, if it raises.
RubyVM_compile ==
    /\ Going /\ vm.module # 0 /\ Len(fun) < MaxFunctions /\ Edits < MaxEdits
    /\ \E does \in {nothing, calls(vm.func)}, raises \in BOOLEAN :
           LET f == Len(fun) + 1
           IN  /\ fun' = Edited(Append(fun, declaration(vm.module, vm_func(vm.func_n), FALSE)),
                                f, does, ~raises)
               /\ vm' = [vm EXCEPT !.func_n = @ + 1,
                                   !.methods = IF raises THEN @ ELSE @ \cup {f}]
    /\ UNCHANGED <<nmod, EE, code, lists, passed, last, stale, careful>>

\* RubyVM.method_send, and the end of call_bytecode.
RubyVM_send(f) == Going /\ run_function("vm", f) /\ UNCHANGED careful

-----------------------------------------------------------------------------
Init ==
    /\ nmod = 0 /\ fun = <<>> /\ EE = {} /\ code = <<>> /\ lists = 0
    /\ vm = [module |-> 0, func |-> 0, func_n |-> 0, modules |-> {}, methods |-> {}]
    /\ last = Nobody
    /\ passed = {} /\ stale = {} /\ careful = TRUE

Next ==
    \/ Module_new
    \/ \E m \in ClientModules, name \in Names : get_or_insert_function(m, name)
    \/ \E m \in ClientModules, name \in Names : external_function(m, name)
    \/ \E f \in Functions, finished \in BOOLEAN, does \in {nothing} \cup { calls(g) : g \in Functions } :
           build(f, does, finished)
    \/ \E m \in ClientModules : ExecutionEngine_get(m)
    \/ \E f \in Functions : ExecutionEngine_run_function(f)
    \/ \E m \in ClientModules : PassManager_run(m)
    \/ RubyVM_start
    \/ RubyVM_compile
    \/ \E f \in vm.methods : RubyVM_send(f)

Spec == Init /\ [][Next]_vars

-----------------------------------------------------------------------------
(* Properties.                                                             *)

\* Numbers refer to what there is, and a module has one function of a name.
TypeOK ==
    /\ nmod \in 0 .. MaxModules + MaxStarts
    /\ Len(fun) <= MaxFunctions
    /\ \A f \in Functions : fun[f].mod \in 1 .. nmod
    /\ EE \subseteq 1 .. nmod
    /\ DOMAIN code \subseteq Functions /\ stale \subseteq Functions
    /\ vm.methods \subseteq Functions
    /\ \A m \in 1 .. nmod, g, h \in Functions :
           {g, h} \subseteq Named(m, fun[g].name) => g = h

\* A call is a call of a function that still exists, in the same module:
\* neither the passes nor a restart of RubyVM leaves a call behind whose
\* function is gone or belongs to another module.
CallsStayInModule ==
    \A f, g \in Functions : fun[f].does = calls(g) => fun[g].alive /\ fun[g].mod = fun[f].mod

\* Whatever clients do to their modules, before RubyVM.start or after it, and
\* however often RubyVM is started and compilations fail, a method that
\* compile_bytecode returned runs: there is an engine, and the names of the
\* external functions are those of the process.
VMNeverAborts == last # aborted("vm")

\* A client is safe who, for every function he runs, has given its module to
\* the engine; declares external functions of the process only, each once in
\* a module; calls and runs no others without a body; finishes all bodies; and
\* uses no declaration once passes have been run on its module.
DisciplineSuffices == careful => last # aborted("client")

\* What a run executes is what the functions are now, unless one of them was
\* edited after its code was made or a copy of it was inlined.
AnswersCurrent ==
    LET involved == {last.fn} \cup { g \in Functions : last.answer[2] # <<>> /\ last.answer[2][1] = g }
    IN  last.fn # 0 /\ involved \cap stale = {} => last.answer = answer(last.fn, fun)

\* PassManager#run adds its passes again every time, and it does not matter:
\* what a repetition can do, one list of the passes could have done.
RepeatedPassesHarmless ==
    \A m \in ClientModules : Repeated(2, m) \subseteq Repeated(1, m)
=============================================================================
