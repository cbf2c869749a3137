------------------------------ MODULE Bindings ------------------------------
(***************************************************************************)
(* ext/: the Ruby objects that stand for LLVM's, and the methods that take *)
(* them apart again.                                                       *)
(*                                                                         *)
(* An object is a Ruby class and a pointer; nothing ties one to the other  *)
(* but the line that made the object.  A method found by the class of its  *)
(* receiver casts the pointers of receiver and arguments to the C++ class  *)
(* it was written for, after whatever check it makes.  A client holds a    *)
(* few objects and calls any method on them in any order.                  *)
(***************************************************************************)
EXTENDS Integers, Sequences, FiniteSets

CONSTANTS MaxHeld  \* bound on the objects a client holds at a time

VARIABLES held,      \* the objects the client holds
          accident   \* the parameter and the object of the call that went wrong

vars == <<held, accident>>

-----------------------------------------------------------------------------
(* The two class hierarchies: class -> superclass.                         *)

\* Init_llvmruby.
RubyClasses ==
    [ Type |-> "Object", PointerType |-> "Type", StructType |-> "Type", ArrayType |-> "Type",
      VectorType |-> "Type", FunctionType |-> "Type", Value |-> "Object", Module |-> "Object",
      Function |-> "Object", BasicBlock |-> "Value", Builder |-> "Object",
      Instruction |-> "Value", UnaryInstruction |-> "Instruction",
      BinaryOperator |-> "Instruction", TerminatorInst |-> "Instruction",
      AllocationInst |-> "Instruction", ReturnInst |-> "TerminatorInst",
      BranchInst |-> "TerminatorInst", SwitchInst |-> "TerminatorInst",
      LoadInst |-> "UnaryInstruction", StoreInst |-> "Instruction",
      FreeInst |-> "UnaryInstruction", GetElementPtrInst |-> "Instruction",
      AllocaInst |-> "AllocationInst", MallocInst |-> "AllocationInst",
      CmpInst |-> "Instruction", ICmpInst |-> "CmpInst", FCmpInst |-> "CmpInst",
      Phi |-> "Value", PassManager |-> "Object" ]

\* LLVM's.  CondBranch is a BranchInst with a condition; OtherInst stands for
\* the classes of calls, casts and vector instructions, OtherType for void,
\* label and the floating-point types.  Left out: the terminators that only
\* a parser makes.
LLVMClasses ==
    [ IntegerType |-> "Type", OtherType |-> "Type", PointerType |-> "Type", StructType |-> "Type",
      ArrayType |-> "Type", VectorType |-> "Type", FunctionType |-> "Type", Argument |-> "Value",
      BasicBlock |-> "Value", Constant |-> "Value", ConstantInt |-> "Constant",
      GlobalVariable |-> "Constant", Function |-> "Constant", Instruction |-> "Value",
      BinaryOperator |-> "Instruction", CmpInst |-> "Instruction", PHINode |-> "Instruction",
      OtherInst |-> "Instruction", LoadInst |-> "Instruction", StoreInst |-> "Instruction",
      FreeInst |-> "Instruction", GetElementPtrInst |-> "Instruction",
      AllocationInst |-> "Instruction", AllocaInst |-> "AllocationInst",
      MallocInst |-> "AllocationInst", TerminatorInst |-> "Instruction",
      ReturnInst |-> "TerminatorInst", BranchInst |-> "TerminatorInst",
      CondBranch |-> "BranchInst", SwitchInst |-> "TerminatorInst" ]

\* c and what it inherits from; no chain has more than four links.
Ancestors(classes) ==
    LET up(c) == IF c \in DOMAIN classes THEN classes[c] ELSE c
    IN  [ c \in DOMAIN classes |-> { c, up(c), up(up(c)), up(up(up(c))), up(up(up(up(c)))) } ]
RubyAncestors == Ancestors(RubyClasses)
LLVMAncestors == Ancestors(LLVMClasses)

RubyIs(c, k) == c = k \/ (c \in DOMAIN RubyAncestors /\ k \in RubyAncestors[c])
LLVMIs(c, k) == c = k \/ (c \in DOMAIN LLVMAncestors /\ k \in LLVMAncestors[c])

Kinds(k)      == { c \in DOMAIN LLVMClasses : LLVMIs(c, k) }
Abstract      == { "Value", "Type", "Instruction", "AllocationInst", "TerminatorInst" }
AValue        == Kinds("Value") \ (Abstract \cup {"Function"})
AnInstruction == Kinds("Instruction") \ Abstract
AType         == Kinds("Type") \ Abstract

-----------------------------------------------------------------------------
(* Objects and parameters.                                                 *)

obj(c, k)  == [class |-> c, to |-> k]
objs(c, K) == { obj(c, k) : k \in K }

\* A Ruby integer; it has no pointer.
Fixnum == obj("Fixnum", "none")

\* Wrapping a null pointer raises nothing.
null == "null"

\* What `new` makes of a class without an allocator of its own: a T_OBJECT.
blank(c) == obj(c, "blank")

llvm_value_wrap(K)    == objs("Value", K)
llvm_basic_block_wrap == objs("BasicBlock", {"BasicBlock"})
llvm_function_wrap(K) == objs("Function", K)

\* By opcode, for terminators, binary operators and memory instructions.
gInstructionClasses(k) ==
    CASE k = "CondBranch" -> "BranchInst"
      [] k \in { "CmpInst", "PHINode", "OtherInst" } -> "Instruction"
      [] OTHER -> k

llvm_instruction_wrap(K) == { obj(gInstructionClasses(k), k) : k \in K }

\* A parameter: how it is checked, and what it is cast to.
CHECK_TYPE(class, cast) == [check |-> "CHECK_TYPE", class |-> class, cast |-> cast]
Data_Get_Struct(cast)   == [check |-> "Data_Get_Struct", class |-> "", cast |-> cast]
DATA_PTR(cast)          == [check |-> "DATA_PTR", class |-> "", cast |-> cast]
Unused                  == [check |-> "unused", class |-> "", cast |-> ""]

\* The allocator of PassManager is defined on Module: its objects are no
\* T_DATA either, though they hold a pointer where one would.
IsTData(o) == o.class \notin { "Fixnum", "PassManager" } /\ o.to # "blank"

Accepts(p, o) ==
    CASE p.check = "CHECK_TYPE"      -> RubyIs(o.class, p.class)
      [] p.check = "Data_Get_Struct" -> IsTData(o)
      [] OTHER                       -> TRUE

Fits(p, o) == p.check = "unused" \/ LLVMIs(o.to, p.cast)

\* How the result comes about: as it is; a constant if every operand is; or a
\* cast, which is its operand if the type does not change.
method(names, on, self, params, gives) ==
    [names |-> names, on |-> on, self |-> self, params |-> params, gives |-> gives, how |-> "plain"]
folding(m) == [m EXCEPT !.how = "folds"]
casting(m) == [m EXCEPT !.how = "casts"]

\* A module function: its receiver is a class.
function(names, params, gives) == method(names, "Class", Unused, params, gives)

Value == Data_Get_Struct("Value")
Block == Data_Get_Struct("BasicBlock")
Type  == Data_Get_Struct("Type")

DATA_GET_BUILDER         == Data_Get_Struct("IRBuilder")
DATA_GET_INSTRUCTION     == Data_Get_Struct("Instruction")
DATA_GET_TERMINATOR_INST == Data_Get_Struct("TerminatorInst")
DATA_GET_BRANCH_INST     == Data_Get_Struct("BranchInst")
DATA_GET_SWITCH_INST     == Data_Get_Struct("SwitchInst")
DATA_GET_ALLOCATION_INST == Data_Get_Struct("AllocationInst")

LLVM_VAL         == DATA_PTR("Value")
LLVM_TYPE        == DATA_PTR("Type")
LLVM_MODULE      == DATA_PTR("Module")
LLVM_FUNCTION    == DATA_PTR("Function")
LLVM_BASIC_BLOCK == DATA_PTR("BasicBlock")
LLVM_INSTRUCTION == DATA_PTR("Instruction")
LLVM_PHI         == DATA_PTR("PHINode")

-----------------------------------------------------------------------------
(* The methods, file by file.  Strings, symbols and numbers a method takes *)
(* besides are left out, and so is what it answers when that is no object. *)

TypeMethods ==
    { function({"pointer"}, <<Type>>, objs("PointerType", {"PointerType"})),
      function({"struct"}, <<Type>>, objs("StructType", {"StructType"})),
      function({"array"}, <<Type>>, objs("ArrayType", {"ArrayType"})),
      function({"vector"}, <<Type>>, objs("VectorType", {"VectorType"})),
      function({"function"}, <<LLVM_TYPE, LLVM_TYPE>>,
               objs("FunctionType", {"FunctionType"})),
      method({"to_s", "type_id"}, "Type", Type, <<>>, {}) }

TypeConstants ==
    { function({"Int1Ty", "Int32Ty", "MACHINE_WORD"}, <<>>, objs("Type", {"IntegerType"})),
      function({"VoidTy", "LabelTy", "FloatTy", "DoubleTy"}, <<>>, objs("Type", {"OtherType"})) }

ValueMethods ==
    { method({"name", "name=", "num_uses"}, "Value", Value, <<>>, {}),
      method({"type"}, "Value", Value, <<>>, objs("Type", AType)),
      method({"used_in_basic_block?"}, "Value", Value, <<Block>>, {}),
      method({"replace_all_uses_with"}, "Value", Value, <<Value>>, {}),
      function({"get_constant"}, <<DATA_PTR("IntegerType")>>, llvm_value_wrap({"ConstantInt"})),
      function({"get_immediate_constant"}, <<>>, llvm_value_wrap({"ConstantInt"})),
      function({"get_float_constant", "get_double_constant"}, <<>>, llvm_value_wrap({"Constant"})),
      function({"get_struct_constant"}, <<DATA_PTR("StructType"), DATA_PTR("Constant")>>,
               llvm_value_wrap({"Constant"})) }

\* Mutant of InstructionMethods: any value will do for the other instruction.
InstructionMethods_anyValue ==
    { method({"inspect"}, "Instruction", LLVM_INSTRUCTION, <<>>, {}),
      method({"identical_to?", "same_operation_as?"}, "Instruction", DATA_GET_INSTRUCTION,
             <<CHECK_TYPE("Value", "Instruction")>>, {}),
      method({"used_outside_of_block?"}, "Instruction", DATA_GET_INSTRUCTION,
             <<CHECK_TYPE("BasicBlock", "BasicBlock")>>, {}) }

InstructionMethods ==
    { method({"inspect", "get_opcode_name"}, "Instruction", LLVM_INSTRUCTION, <<>>, {}),
      method({"may_read_from_memory?", "may_write_to_memory?"}, "Instruction", DATA_GET_INSTRUCTION, <<>>, {}),
      method({"identical_to?", "same_operation_as?"}, "Instruction", DATA_GET_INSTRUCTION,
             <<CHECK_TYPE("Instruction", "Instruction")>>, {}),
      method({"used_outside_of_block?"}, "Instruction", DATA_GET_INSTRUCTION,
             <<CHECK_TYPE("BasicBlock", "BasicBlock")>>, {}) }

TerminatorMethods ==
    { method({"num_successors"}, "TerminatorInst", DATA_GET_TERMINATOR_INST, <<>>, {}),
      method({"get_successor"}, "TerminatorInst", DATA_GET_TERMINATOR_INST, <<>>, llvm_basic_block_wrap),
      method({"set_successor"}, "TerminatorInst", DATA_GET_TERMINATOR_INST, <<Block>>, {}) }

\* condition and condition= need the branch to be a conditional one.
BranchMethods ==
    { method({"conditional?", "unconditional?"}, "BranchInst", DATA_GET_BRANCH_INST, <<>>, {}),
      method({"condition"}, "BranchInst", Data_Get_Struct("CondBranch"), <<>>, llvm_value_wrap(AValue)),
      method({"condition="}, "BranchInst", Data_Get_Struct("CondBranch"), <<Value>>, {}) }

SwitchMethods ==
    { method({"get_default_dest"}, "SwitchInst", DATA_GET_SWITCH_INST, <<>>, llvm_basic_block_wrap),
      method({"get_num_cases"}, "SwitchInst", DATA_GET_SWITCH_INST, <<>>, {}),
      method({"add_case"}, "SwitchInst", DATA_GET_SWITCH_INST, <<Data_Get_Struct("ConstantInt"), Block>>, {}) }

\* Mutant of AllocationMethods: registered for every instruction.
AllocationMethods_forAll ==
    { method({"array_allocation?", "alignment"}, "Instruction", DATA_GET_ALLOCATION_INST, <<>>, {}),
      method({"array_size"}, "Instruction", DATA_GET_ALLOCATION_INST, <<>>, llvm_value_wrap(AValue)),
      method({"allocated_type"}, "Instruction", DATA_GET_ALLOCATION_INST, <<>>, objs("Type", AType)) }

AllocationMethods ==
    { method({"array_allocation?", "alignment"}, "AllocationInst", DATA_GET_ALLOCATION_INST, <<>>, {}),
      method({"array_size"}, "AllocationInst", DATA_GET_ALLOCATION_INST, <<>>, llvm_value_wrap(AValue)),
      method({"allocated_type"}, "AllocationInst", DATA_GET_ALLOCATION_INST, <<>>, objs("Type", AType)) }

FunctionMethods ==
    { method({"create_block", "get_basic_block_list"}, "Function", LLVM_FUNCTION, <<>>, llvm_basic_block_wrap),
      method({"arguments"}, "Function", LLVM_FUNCTION, <<>>, llvm_value_wrap({"Argument"})),
      method({"inspect"}, "Function", LLVM_FUNCTION, <<>>, {}) }

BlockMethods ==
    { method({"size"}, "BasicBlock", LLVM_BASIC_BLOCK, <<>>, {}),
      method({"get_instruction_list"}, "BasicBlock", LLVM_BASIC_BLOCK, <<>>,
             llvm_instruction_wrap(AnInstruction)),
      method({"builder"}, "BasicBlock", Block, <<>>, objs("Builder", {"IRBuilder"})) }

-----------------------------------------------------------------------------
(* The builder, the module and the engine.                                 *)

build(name, params, gives) ==
    method({name}, "Builder", DATA_GET_BUILDER, params, gives)

FlowMethods ==
    { build("set_insert_point", <<CHECK_TYPE("BasicBlock", "BasicBlock")>>, {}),
      folding(build("bin_op", <<Value, Value>>, objs("BinaryOperator", {"BinaryOperator"}))),
      build("phi", <<CHECK_TYPE("Type", "Type")>>, objs("Phi", {"PHINode"})),
      method({"add_incoming"}, "Phi", LLVM_PHI,
             <<CHECK_TYPE("Value", "Value"), CHECK_TYPE("BasicBlock", "BasicBlock")>>, {}),
      build("return", <<CHECK_TYPE("Value", "Value")>>, objs("ReturnInst", {"ReturnInst"})),
      build("br", <<Block>>, objs("BranchInst", {"BranchInst"})),
      build("cond_br", <<Value, Block, Block>>, objs("BranchInst", {"CondBranch"})),
      build("switch", <<Value, Block>>, llvm_instruction_wrap({"SwitchInst"})) }

\* Mutant of MemoryMethods: the alloca is wrapped as what is loaded from it.
MemoryMethods_loadInst ==
    { build("malloc", <<Type>>, llvm_instruction_wrap({"MallocInst"})),
      build("free", <<LLVM_VAL>>, llvm_instruction_wrap({"FreeInst"})),
      build("alloca", <<Type>>, objs("LoadInst", {"AllocaInst"})),
      build("load", <<Value>>, objs("LoadInst", {"LoadInst"})),
      build("store", <<Value, Value>>, objs("StoreInst", {"StoreInst"})) }

MemoryMethods ==
    { build("malloc", <<Type>>, llvm_instruction_wrap({"MallocInst"})),
      build("free", <<LLVM_VAL>>, llvm_instruction_wrap({"FreeInst"})),
      build("alloca", <<Type>>, objs("AllocationInst", {"AllocaInst"})),
      build("load", <<Value>>, objs("LoadInst", {"LoadInst"})),
      build("store", <<Value, Value>>, objs("StoreInst", {"StoreInst"})) }

CompareMethods ==
    { folding(build("icmp", <<LLVM_VAL, LLVM_VAL>>, objs("ICmpInst", {"CmpInst"}))),
      folding(build("fcmp", <<LLVM_VAL, LLVM_VAL>>, objs("FCmpInst", {"CmpInst"}))) }

AddressMethods ==
    { folding(build("gep", <<Value, Value>>, llvm_value_wrap({"GetElementPtrInst"}))),
      folding(build("struct_gep", <<Value>>, llvm_value_wrap({"GetElementPtrInst"}))),
      casting(build("cast", <<Value, Type>>, llvm_value_wrap({"OtherInst"}))),
      casting(build("int_to_ptr", <<Value, Type>>, llvm_value_wrap({"OtherInst"}))),
      casting(build("int_cast", <<LLVM_VAL, LLVM_TYPE>>, llvm_value_wrap({"OtherInst"}))) }

CallMethods ==
    { build("call", <<LLVM_FUNCTION>>, llvm_value_wrap({"OtherInst"})),
      build("call", <<LLVM_FUNCTION, LLVM_VAL>>, llvm_value_wrap({"OtherInst"})),
      folding(build("insert_element", <<Value, Value, Value>>, llvm_value_wrap({"OtherInst"}))),
      folding(build("extract_element", <<Value, Value>>, llvm_value_wrap({"OtherInst"}))),
      method({"get_global"}, "Builder", Unused, <<>>, llvm_value_wrap({"GlobalVariable"})),
      build("create_global_string_ptr", <<>>, llvm_value_wrap({"Constant"})) }

ModuleMethods ==
    { function({"new"}, <<>>, objs("Module", {"Module"})),
      method({"get_or_insert_function"}, "Module", LLVM_MODULE,
             <<CHECK_TYPE("FunctionType", "FunctionType")>>, llvm_function_wrap({"Function", "Constant"})),
      method({"get_function"}, "Module", LLVM_MODULE, <<>>, llvm_function_wrap({"Function", null})),
      method({"global_variable"}, "Module", LLVM_MODULE, <<LLVM_TYPE, DATA_PTR("Constant")>>,
             llvm_value_wrap({"GlobalVariable"})),
      method({"inspect"}, "Module", LLVM_MODULE, <<>>, {}) }

\* A function of that name and another type is a constant, cast all the same;
\* one that is not there, or a text that does not parse, is null.
ModuleFiles ==
    { method({"external_function"}, "Module", LLVM_MODULE,
             <<CHECK_TYPE("FunctionType", "FunctionType")>>, llvm_function_wrap({"Function"})),
      function({"read_assembly", "read_bitcode"}, <<>>, objs("Module", {"Module", null})),
      method({"write_bitcode"}, "Module", LLVM_MODULE, <<>>, {}) }

EngineMethods ==
    { function({"get"}, <<CHECK_TYPE("Module", "Module")>>, {}),
      function({"run_function"}, <<CHECK_TYPE("Function", "Function")>>, {}),
      function({"run_autoconvert"}, <<LLVM_FUNCTION>>, {}) }

PassManagerMethods ==
    { function({"new"}, <<>>, objs("PassManager", {"PassManager"})),
      method({"run"}, "PassManager", DATA_PTR("PassManager"), <<LLVM_MODULE>>, {}) }

\* Every other class inherits Object's; these are the ones a check names or
\* whose methods do not check their receivers.
Allocators ==
    { function({"new"}, <<>>, {blank(c)}) :
          c \in {"FunctionType", "Function", "BasicBlock", "Instruction", "Phi"} }

\* What Init_llvmruby registers.
Methods ==
    UNION { TypeMethods, ValueMethods, InstructionMethods, TerminatorMethods, BranchMethods,
            SwitchMethods, AllocationMethods, FunctionMethods, BlockMethods, FlowMethods,
            MemoryMethods, CompareMethods, AddressMethods, CallMethods, ModuleMethods,
            ModuleFiles, EngineMethods, PassManagerMethods, TypeConstants, Allocators }

-----------------------------------------------------------------------------
(* Calls.                                                                  *)

\* The parameters of a call and what is passed for them, the receiver first.
Params(m) == IF m.on = "Class" THEN m.params ELSE <<m.self>> \o m.params

Responds(m, o) == RubyIs(o.class, m.on)

\* Every way to call m on what the client holds; an integer responds to none.
Calls(m) ==
    { os \in [ 1 .. Len(Params(m)) -> held \cup {Fixnum} ] : m.on # "Class" => Responds(m, os[1]) }

IsConstant(o) == LLVMIs(o.to, "Constant")

Results(m, os) ==
    LET class == (CHOOSE o \in m.gives : TRUE).class
    IN  CASE m.how = "folds" /\ \A n \in 2 .. Len(os) : IsConstant(os[n])
                              -> objs(class, {"Constant", "ConstantInt"})
          [] m.how = "casts" -> objs(class, {os[2].to}) \cup
                                    IF IsConstant(os[2]) THEN objs(class, {"Constant", "ConstantInt"})
                                    ELSE m.gives
          [] OTHER           -> m.gives

Accepted(m, os) == \A n \in 1 .. Len(os) : Accepts(Params(m)[n], os[n])
Fitting(m, os)  == \A n \in 1 .. Len(os) : Fits(Params(m)[n], os[n])

succeeds ==
    /\ accident = {}
    /\ \E m \in Methods : \E os \in Calls(m) :
           /\ Accepted(m, os) /\ Fitting(m, os)
           /\ \/ m.gives = {} /\ UNCHANGED held
              \/ /\ m.gives # {} /\ Cardinality(held) < MaxHeld
                 /\ \E o \in Results(m, os) : held' = held \cup {o}
           /\ UNCHANGED accident

\* A pointer is taken for what it is not.  Nothing can be said after that.
confuses ==
    /\ accident = {}
    /\ \E m \in Methods : \E os \in Calls(m) : \E n \in 1 .. Len(os) :
           /\ Accepted(m, os) /\ ~Fits(Params(m)[n], os[n])
           /\ accident' = { [ param |-> Params(m)[n], object |-> os[n],
                             receiver |-> n = 1 /\ m.on # "Class" ] }
           /\ held' = {}

\* The client lets go of an object; nothing happens to LLVM's.
forgets == accident = {} /\ \E o \in held : held' = held \ {o} /\ UNCHANGED accident

Init == held = {} /\ accident = {}

\* A call that raises TypeError does so before it changes anything.
Next == succeeds \/ confuses \/ forgets

Spec == Init /\ [][Next]_vars

-----------------------------------------------------------------------------
(* Properties.                                                             *)

\* The Ruby class that reflects a C++ class, and the most special C++ class
\* the Ruby class speaks of.
Reflection ==
    [ CondBranch |-> "BranchInst", IntegerType |-> "Type", Constant |-> "Value",
      ConstantInt |-> "Value", PHINode |-> "Phi", IRBuilder |-> "Builder" ]
reflects(cast) == IF cast \in DOMAIN Reflection THEN Reflection[cast] ELSE cast
speaksOf(class) == CASE class = "Phi" -> "PHINode"
                     [] class = "Builder" -> "IRBuilder"
                     [] class \in {"ICmpInst", "FCmpInst"} -> "CmpInst"
                     [] OTHER -> class

\* The class of the object is that of its pointer.
Honest(o) == LLVMIs(o.to, speaksOf(o.class))

\* What a client can hold under a false class: a constant that bin_op, icmp
\* or fcmp has folded, functions and modules that are not there, and what
\* `new` makes of the classes that only the bindings should instantiate.
FalseClass(o) ==
    \/ o.to = "blank"
    \/ o.class \in {"BinaryOperator", "ICmpInst", "FCmpInst"} /\ IsConstant(o)
    \/ o.class = "Function" /\ o.to \in {null, "Constant"}
    \/ o.class = "Module" /\ o.to = null

\* An object is of a class that Init_llvmruby defines, and the class tells the
\* C++ class of its pointer, however it was come by, from the builder or out
\* of the lists, with these exceptions.
ClassesHonest == \A o \in held : o.class \in DOMAIN RubyClasses /\ (Honest(o) \/ FalseClass(o))

\* A parameter CHECK_TYPE guards is never cast wrongly, except under a false
\* class: the checks name the classes that the casts need.
ChecksProtect ==
    \A a \in accident : a.param.check = "CHECK_TYPE" => FalseClass(a.object)

\* A method that a class responds to is right for every object of the class,
\* and a client that passes for every parameter an object of the class which
\* reflects what it is cast to is safe, but for false classes and for the
\* casts no Ruby class reflects: to constants, to integer types, to a branch
\* with a condition.
ClassesSuffice ==
    \A a \in accident :
        a.receiver \/ RubyIs(a.object.class, reflects(a.param.cast)) =>
            FalseClass(a.object) \/ a.param.cast \in {"Constant", "ConstantInt", "IntegerType", "CondBranch"}
=============================================================================
