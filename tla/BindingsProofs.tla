--------------------------- MODULE BindingsProofs ---------------------------
(***************************************************************************)
(* What the class of an object tells, for clients that hold any number of  *)
(* objects: the Ruby hierarchy mirrors LLVM's, every method gives objects  *)
(* of the right class but for the false ones that FalseClass lists, and    *)
(* every check and every registration names the class that reflects what   *)
(* the pointer is cast to.                                                 *)
(***************************************************************************)
EXTENDS Bindings, SequenceTheorems, TLAPS

-----------------------------------------------------------------------------
(* The two hierarchies.                                                    *)

\* The superclass; a class without one is its own.
RubyUp(c) == IF c \in DOMAIN RubyClasses THEN RubyClasses[c] ELSE c
LLVMUp(c) == IF c \in DOMAIN LLVMClasses THEN LLVMClasses[c] ELSE c

LEMMA LLVMSuper ==
    /\ LLVMUp("IntegerType") = "Type" /\ LLVMUp("OtherType") = "Type" /\ LLVMUp("PointerType") = "Type"
    /\ LLVMUp("StructType") = "Type" /\ LLVMUp("ArrayType") = "Type" /\ LLVMUp("VectorType") = "Type"
    /\ LLVMUp("FunctionType") = "Type"
    /\ LLVMUp("Argument") = "Value" /\ LLVMUp("BasicBlock") = "Value" /\ LLVMUp("Constant") = "Value"
    /\ LLVMUp("Instruction") = "Value"
    /\ LLVMUp("ConstantInt") = "Constant" /\ LLVMUp("GlobalVariable") = "Constant"
    /\ LLVMUp("Function") = "Constant"
    /\ \A c \in { "BinaryOperator", "CmpInst", "PHINode", "OtherInst", "LoadInst", "StoreInst", "FreeInst",
                  "GetElementPtrInst", "AllocationInst", "TerminatorInst" } : LLVMUp(c) = "Instruction"
    /\ LLVMUp("AllocaInst") = "AllocationInst" /\ LLVMUp("MallocInst") = "AllocationInst"
    /\ \A c \in { "ReturnInst", "BranchInst", "SwitchInst" } : LLVMUp(c) = "TerminatorInst"
    /\ LLVMUp("CondBranch") = "BranchInst"
    /\ LLVMUp("Type") = "Type" /\ LLVMUp("Value") = "Value"
  BY DEF LLVMUp, LLVMClasses

\* No chain has more than four links.
LEMMA LLVMTop ==
    ASSUME NEW c \in DOMAIN LLVMClasses
    PROVE  LLVMUp(LLVMUp(LLVMUp(LLVMUp(c)))) \in {"Type", "Value"}
<1>1. c \in { "IntegerType", "OtherType", "PointerType", "StructType",
              "ArrayType", "VectorType", "FunctionType", "Argument",
              "BasicBlock", "Constant", "ConstantInt",
              "GlobalVariable", "Function", "Instruction",
              "BinaryOperator", "CmpInst", "PHINode",
              "OtherInst", "LoadInst", "StoreInst",
              "FreeInst", "GetElementPtrInst",
              "AllocationInst", "AllocaInst",
              "MallocInst", "TerminatorInst",
              "ReturnInst", "BranchInst",
              "CondBranch", "SwitchInst" }
  BY DEF LLVMClasses
<1> QED  BY <1>1, LLVMSuper

LEMMA LLVMChain ==
    ASSUME NEW c, NEW k
    PROVE  LLVMIs(c, k) <=> \/ k = c \/ k = LLVMUp(c) \/ k = LLVMUp(LLVMUp(c))
                            \/ k = LLVMUp(LLVMUp(LLVMUp(c))) \/ k = LLVMUp(LLVMUp(LLVMUp(LLVMUp(c))))
<1>1. CASE c \notin DOMAIN LLVMClasses
  BY <1>1 DEF LLVMIs, LLVMAncestors, Ancestors, LLVMUp
<1>2. CASE c \in DOMAIN LLVMClasses
  <2>1. LLVMAncestors[c] = { c, LLVMUp(c), LLVMUp(LLVMUp(c)), LLVMUp(LLVMUp(LLVMUp(c))),
                             LLVMUp(LLVMUp(LLVMUp(LLVMUp(c)))) }
    BY <1>2 DEF LLVMAncestors, Ancestors, LLVMUp
  <2>2. DOMAIN LLVMAncestors = DOMAIN LLVMClasses
    BY DEF LLVMAncestors, Ancestors
  <2> QED  BY <1>2, <2>1, <2>2 DEF LLVMIs
<1> QED  BY <1>1, <1>2

LEMMA LLVMTransitive ==
    ASSUME NEW a, NEW b, NEW c, LLVMIs(a, b), LLVMIs(b, c)
    PROVE  LLVMIs(a, c)
<1>1. LLVMUp("Type") = "Type" /\ LLVMUp("Value") = "Value"
  BY LLVMSuper
<1>2. CASE a \in DOMAIN LLVMClasses
  <2>1. LLVMUp(LLVMUp(LLVMUp(LLVMUp(LLVMUp(a))))) = LLVMUp(LLVMUp(LLVMUp(LLVMUp(a))))
    BY <1>1, <1>2, LLVMTop
  <2> QED  BY <2>1, LLVMChain
<1>3. CASE a \notin DOMAIN LLVMClasses
  <2>1. LLVMUp(a) = a
    BY <1>3 DEF LLVMUp
  <2> QED  BY <2>1, LLVMChain
<1> QED  BY <1>2, <1>3

-----------------------------------------------------------------------------
\* The inheritance that the parameters and results of methods need.
LEMMA LLVMFacts ==
    /\ \A c : LLVMIs(c, c)
    /\ \A c \in { "PointerType", "StructType", "ArrayType", "VectorType", "FunctionType", "IntegerType",
                  "OtherType" } : LLVMIs(c, "Type")
    /\ \A c \in { "BasicBlock", "Instruction", "Argument", "Constant", "ConstantInt", "GlobalVariable",
                  "PHINode", "OtherInst", "GetElementPtrInst" } : LLVMIs(c, "Value")
    /\ \A c \in { "BinaryOperator", "TerminatorInst", "AllocationInst", "LoadInst", "StoreInst", "FreeInst",
                  "GetElementPtrInst", "CmpInst" } : LLVMIs(c, "Instruction")
    /\ \A c \in { "ReturnInst", "BranchInst", "SwitchInst" } : LLVMIs(c, "TerminatorInst")
    /\ \A c \in { "AllocaInst", "MallocInst" } : LLVMIs(c, "AllocationInst")
    /\ LLVMIs("CondBranch", "BranchInst")
  BY LLVMSuper, LLVMChain

\* The classes that reflect no C++ class.
Unreflected == {"Object", "UnaryInstruction"}

LEMMA RubyChain ==
    ASSUME NEW c \in DOMAIN RubyClasses, NEW k
    PROVE  RubyIs(c, k) <=> \/ k = c \/ k = RubyUp(c) \/ k = RubyUp(RubyUp(c))
                            \/ k = RubyUp(RubyUp(RubyUp(c))) \/ k = RubyUp(RubyUp(RubyUp(RubyUp(c))))
<1>1. RubyAncestors[c] = { c, RubyUp(c), RubyUp(RubyUp(c)), RubyUp(RubyUp(RubyUp(c))),
                           RubyUp(RubyUp(RubyUp(RubyUp(c)))) }
  BY DEF RubyAncestors, Ancestors, RubyUp
<1>2. DOMAIN RubyAncestors = DOMAIN RubyClasses
  BY DEF RubyAncestors, Ancestors
<1> QED  BY <1>1, <1>2 DEF RubyIs

LEMMA RubySuper ==
    /\ RubyUp("Object") = "Object"
    /\ \A c \in { "Type", "Value", "Module", "Function", "Builder", "PassManager" } : RubyUp(c) = "Object"
    /\ \A c \in { "PointerType", "StructType", "ArrayType", "VectorType", "FunctionType" } : RubyUp(c) = "Type"
    /\ \A c \in { "BasicBlock", "Instruction", "Phi" } : RubyUp(c) = "Value"
    /\ \A c \in { "UnaryInstruction", "BinaryOperator", "TerminatorInst", "AllocationInst", "StoreInst",
                  "GetElementPtrInst", "CmpInst" } : RubyUp(c) = "Instruction"
    /\ \A c \in { "ReturnInst", "BranchInst", "SwitchInst" } : RubyUp(c) = "TerminatorInst"
    /\ \A c \in { "LoadInst", "FreeInst" } : RubyUp(c) = "UnaryInstruction"
    /\ \A c \in { "AllocaInst", "MallocInst" } : RubyUp(c) = "AllocationInst"
    /\ \A c \in { "ICmpInst", "FCmpInst" } : RubyUp(c) = "CmpInst"
  BY DEF RubyUp, RubyClasses

LEMMA SpeaksOf ==
    /\ speaksOf("Phi") = "PHINode" /\ speaksOf("Builder") = "IRBuilder"
    /\ \A c \in {"ICmpInst", "FCmpInst"} : speaksOf(c) = "CmpInst"
    /\ \A c \in { "Type", "PointerType", "StructType", "ArrayType", "VectorType", "FunctionType", "Value",
                  "Module", "Function", "BasicBlock", "Instruction", "UnaryInstruction", "BinaryOperator",
                  "TerminatorInst", "AllocationInst", "ReturnInst", "BranchInst", "SwitchInst", "LoadInst",
                  "StoreInst", "FreeInst", "GetElementPtrInst", "AllocaInst", "MallocInst", "CmpInst",
                  "PassManager" } : speaksOf(c) = c
  BY DEF speaksOf

\* The Ruby classes with instances.
Instantiated == DOMAIN RubyClasses \ {"UnaryInstruction"}

\* The Ruby hierarchy mirrors LLVM's.
LEMMA HierarchyMirrored ==
    ASSUME NEW c \in Instantiated, NEW k, RubyIs(c, k)
    PROVE  k \in Unreflected \/ LLVMIs(speaksOf(c), speaksOf(k))
<1> USE RubySuper, SpeaksOf, LLVMFacts
<1> DEFINE chain == {c, RubyUp(c), RubyUp(RubyUp(c)), RubyUp(RubyUp(RubyUp(c))), RubyUp(RubyUp(RubyUp(RubyUp(c))))}
<1>1. k \in chain
  BY RubyChain DEF Instantiated
<1>2. ASSUME NEW p, chain \subseteq {c, p, "UnaryInstruction", "Instruction", "Value", "Object"},
             LLVMIs(speaksOf(c), "Instruction"), LLVMIs(speaksOf(c), speaksOf(p))
      PROVE  k \in Unreflected \/ LLVMIs(speaksOf(c), speaksOf(k))
  <2>1. LLVMIs(speaksOf(c), "Value")
    BY <1>2, LLVMTransitive
  <2> HIDE DEF chain
  <2>2. k = c \/ k = p \/ k = "Instruction" \/ k = "Value" \/ k \in Unreflected
    BY <1>1, <1>2 DEF Unreflected
  <2> QED  BY <1>2, <2>1, <2>2
<1>3. CASE c \in { "Type", "Value", "Module", "Function", "Builder", "PassManager" }
  <2>1. chain = {c, "Object"}
    BY <1>3
  <2> QED  BY <1>1, <1>3, <2>1 DEF Unreflected
<1>4. CASE c \in { "PointerType", "StructType", "ArrayType", "VectorType", "FunctionType" }
  <2>1. chain = {c, "Type", "Object"}
    BY <1>4
  <2> QED  BY <1>1, <1>4, <2>1 DEF Unreflected
<1>5. CASE c \in { "BasicBlock", "Instruction", "Phi" }
  <2>1. chain = {c, "Value", "Object"}
    BY <1>5
  <2> QED  BY <1>1, <1>5, <2>1 DEF Unreflected
<1>6. CASE c \in { "BinaryOperator", "TerminatorInst", "AllocationInst", "StoreInst", "GetElementPtrInst",
                   "CmpInst" }
  <2>1. chain = {c, "Instruction", "Value", "Object"} /\ speaksOf(c) = c
    BY <1>6
  <2>2. LLVMIs(speaksOf(c), "Instruction")
    BY <1>6, <2>1
  <2> HIDE DEF chain
  <2> QED  BY <1>2, <2>1, <2>2
<1>7. CASE c \in { "ReturnInst", "BranchInst", "SwitchInst" }
  <2>1. chain = {c, "TerminatorInst", "Instruction", "Value", "Object"} /\ speaksOf(c) = c
    BY <1>7
  <2>2. LLVMIs(speaksOf(c), "TerminatorInst")
    BY <1>7, <2>1
  <2>3. LLVMIs(speaksOf(c), "Instruction")
    BY <2>2, LLVMTransitive
  <2> HIDE DEF chain
  <2> QED  BY <1>2, <2>1, <2>2, <2>3
<1>8. CASE c \in { "LoadInst", "FreeInst" }
  <2>1. chain = {c, "UnaryInstruction", "Instruction", "Value", "Object"} /\ speaksOf(c) = c
    BY <1>8
  <2>2. LLVMIs(speaksOf(c), "Instruction")
    BY <1>8, <2>1
  <2> HIDE DEF chain
  <2> QED  BY <1>2, <2>1, <2>2
<1>9. CASE c \in { "AllocaInst", "MallocInst" }
  <2>1. chain = {c, "AllocationInst", "Instruction", "Value", "Object"} /\ speaksOf(c) = c
    BY <1>9
  <2>2. LLVMIs(speaksOf(c), "AllocationInst")
    BY <1>9, <2>1
  <2>3. LLVMIs(speaksOf(c), "Instruction")
    BY <2>2, LLVMTransitive
  <2> HIDE DEF chain
  <2> QED  BY <1>2, <2>1, <2>2, <2>3
<1>10. CASE c \in { "ICmpInst", "FCmpInst" }
  <2>1. chain = {c, "CmpInst", "Instruction", "Value", "Object"} /\ speaksOf(c) = "CmpInst"
    BY <1>10
  <2>2. LLVMIs(speaksOf(c), "Instruction")
    BY <2>1
  <2> HIDE DEF chain
  <2> QED  BY <1>2, <2>1, <2>2
<1>11. c \in { "Type", "PointerType", "StructType", "ArrayType", "VectorType", "FunctionType", "Value",
               "Module", "Function", "BasicBlock", "Builder", "Instruction", "BinaryOperator",
               "TerminatorInst", "AllocationInst", "ReturnInst", "BranchInst", "SwitchInst", "LoadInst",
               "StoreInst", "FreeInst", "GetElementPtrInst", "AllocaInst", "MallocInst", "CmpInst",
               "ICmpInst", "FCmpInst", "Phi", "PassManager" }
  BY DEF Instantiated, RubyClasses
<1> HIDE DEF chain
<1> QED  BY <1>3, <1>4, <1>5, <1>6, <1>7, <1>8, <1>9, <1>10, <1>11

-----------------------------------------------------------------------------
(* What a method must be.                                                  *)

\* The C++ classes that no Ruby class reflects.
Unmatched == {"Constant", "ConstantInt", "IntegerType", "CondBranch"}

ObjectRight(o) == o.class \in Instantiated /\ (Honest(o) \/ FalseClass(o))

Returns(G) == \A o \in G : ObjectRight(o)

\* A check is for the class that reflects the cast, and so would a client pass
\* an object of it.
Checked(p) == p.check = "CHECK_TYPE" =>
                  p.class \in Instantiated /\ speaksOf(p.class) = p.cast

Matched(p) == p.check # "unused" =>
                  \/ p.cast \in Unmatched
                  \/ reflects(p.cast) \in Instantiated /\ speaksOf(reflects(p.cast)) = p.cast

\* The class a method is registered on reflects what its receiver is cast to.
Receives(on, self) ==
    on = "Class" \/ self.check = "unused" \/ self.cast \in Unmatched
        \/ (on \in Instantiated /\ speaksOf(on) = self.cast)

\* The parameters of all methods.
Parameters ==
    { Unused, Value, Block, Type, DATA_GET_BUILDER, DATA_GET_INSTRUCTION, DATA_GET_TERMINATOR_INST,
      DATA_GET_BRANCH_INST, DATA_GET_SWITCH_INST, DATA_GET_ALLOCATION_INST, LLVM_VAL, LLVM_TYPE,
      LLVM_MODULE, LLVM_FUNCTION, LLVM_BASIC_BLOCK, LLVM_INSTRUCTION, LLVM_PHI, DATA_PTR("PassManager") }
    \cup { DATA_PTR(c) : c \in {"IntegerType", "StructType", "Constant"} }
    \cup { Data_Get_Struct(c) : c \in {"CondBranch", "ConstantInt"} }
    \cup { CHECK_TYPE(c, c) : c \in {"Instruction", "BasicBlock", "Type", "Value", "FunctionType",
                                     "Module", "Function"} }

Right(m) ==
    /\ m.self \in Parameters /\ m.params \in Seq(Parameters)
    /\ Returns(m.gives) /\ Receives(m.on, m.self)
    /\ m.how = "folds" =>
           \E c \in {"BinaryOperator", "ICmpInst", "FCmpInst", "Value"} : \A o \in m.gives : o.class = c
    /\ m.how = "casts" =>
           /\ m.on # "Class" /\ m.params # <<>> /\ m.params[1].check # "unused" /\ m.params[1].cast = "Value"
           /\ \A o \in m.gives : o.class = "Value"

LEMMA Instances ==
    /\ "Fixnum" \notin Instantiated
    /\ \A c \in { "Type", "PointerType", "StructType", "ArrayType", "VectorType", "FunctionType", "Value",
               "Module", "Function", "BasicBlock", "Builder", "Instruction", "BinaryOperator",
               "TerminatorInst", "AllocationInst", "ReturnInst", "BranchInst", "SwitchInst", "LoadInst",
               "StoreInst", "FreeInst", "GetElementPtrInst", "AllocaInst", "MallocInst", "CmpInst",
               "ICmpInst", "FCmpInst", "Phi", "PassManager" } : c \in Instantiated /\ c \notin Unreflected
  BY DEF Instantiated, RubyClasses, Unreflected

LEMMA ParametersRight == \A p \in Parameters : Checked(p) /\ Matched(p)
<1> USE Instances, SpeaksOf
<1>1. /\ reflects("IRBuilder") = "Builder" /\ reflects("PHINode") = "Phi"
      /\ \A c \in {"Value", "BasicBlock", "Type", "Instruction", "TerminatorInst", "BranchInst",
                   "SwitchInst", "AllocationInst", "Module", "Function", "StructType", "FunctionType",
                   "PassManager"} : reflects(c) = c
  BY DEF reflects, Reflection
<1>2. ASSUME NEW c \in {"Value", "BasicBlock", "Type", "Instruction", "TerminatorInst", "BranchInst",
                   "SwitchInst", "AllocationInst", "Module", "Function", "StructType", "FunctionType",
                   "PassManager", "IRBuilder", "PHINode"} \cup Unmatched
      PROVE  /\ Checked(Data_Get_Struct(c)) /\ Matched(Data_Get_Struct(c))
             /\ Checked(DATA_PTR(c)) /\ Matched(DATA_PTR(c))
  <2>1. c \in Unmatched \/ (reflects(c) \in Instantiated /\ speaksOf(reflects(c)) = c)
    BY <1>1
  <2> QED  BY <2>1 DEF Data_Get_Struct, DATA_PTR, Checked, Matched
<1>3. ASSUME NEW c \in {"Instruction", "BasicBlock", "Type", "Value", "FunctionType", "Module", "Function"}
      PROVE  Checked(CHECK_TYPE(c, c)) /\ Matched(CHECK_TYPE(c, c))
  <2>1. c \in Instantiated /\ speaksOf(c) = c /\ reflects(c) = c
    BY <1>1
  <2> QED  BY <2>1 DEF CHECK_TYPE, Checked, Matched
<1>4. Checked(Unused) /\ Matched(Unused)
  BY DEF Unused, Checked, Matched
<1>5. ASSUME NEW p \in Parameters PROVE Checked(p) /\ Matched(p)
  <2>1. \/ p = Unused
        \/ \E c \in {"Instruction", "BasicBlock", "Type", "Value", "FunctionType", "Module", "Function"} :
               p = CHECK_TYPE(c, c)
        \/ \E c \in {"Value", "BasicBlock", "Type", "Instruction", "TerminatorInst", "BranchInst",
                   "SwitchInst", "AllocationInst", "Module", "Function", "StructType", "FunctionType",
                   "PassManager", "IRBuilder", "PHINode"} \cup Unmatched :
               p = Data_Get_Struct(c) \/ p = DATA_PTR(c)
    BY DEF Parameters, Value, Block, Type, DATA_GET_BUILDER, DATA_GET_INSTRUCTION,
           DATA_GET_TERMINATOR_INST, DATA_GET_BRANCH_INST, DATA_GET_SWITCH_INST, DATA_GET_ALLOCATION_INST,
           LLVM_VAL, LLVM_TYPE, LLVM_MODULE, LLVM_FUNCTION, LLVM_BASIC_BLOCK, LLVM_INSTRUCTION, LLVM_PHI,
           Unmatched
  <2> QED  BY <1>2, <1>3, <1>4, <2>1
<1> QED  BY <1>5

-----------------------------------------------------------------------------
(* What methods give.                                                      *)

LEMMA GivesHonest ==
    ASSUME NEW c \in Instantiated, NEW K, \A k \in K : LLVMIs(k, speaksOf(c))
    PROVE  Returns(objs(c, K)) /\ \A o \in objs(c, K) : o.class = c
  BY DEF Returns, ObjectRight, Honest, objs, obj

LEMMA KindsAre ==
    /\ \A k \in AValue : LLVMIs(k, "Value")
    /\ \A k \in AType : LLVMIs(k, "Type")
    /\ \A k \in AnInstruction : LLVMIs(k, "Instruction") /\ k \in DOMAIN LLVMClasses /\ k \notin Abstract
  BY DEF AValue, AType, AnInstruction, Kinds

LEMMA WrappedInstruction ==
    ASSUME NEW k \in DOMAIN LLVMClasses, LLVMIs(k, "Instruction"), k \notin Abstract
    PROVE  ObjectRight(obj(gInstructionClasses(k), k))
<1>1. \/ k = "CondBranch" \/ k \in { "CmpInst", "PHINode", "OtherInst" }
      \/ k \in { "BinaryOperator", "LoadInst", "StoreInst", "FreeInst", "GetElementPtrInst", "AllocaInst",
                 "MallocInst", "ReturnInst", "BranchInst", "SwitchInst" }
  <2>1. k \in { "IntegerType", "OtherType", "PointerType", "StructType", "ArrayType", "VectorType",
                "FunctionType", "Argument", "BasicBlock", "Constant", "ConstantInt", "GlobalVariable",
                "Function" } => ~LLVMIs(k, "Instruction")
    BY LLVMSuper, LLVMChain
  <2> QED  BY <2>1 DEF LLVMClasses, Abstract
<1>2. CASE k = "CondBranch"
  <2>1. gInstructionClasses(k) = "BranchInst"
    BY <1>2 DEF gInstructionClasses
  <2> QED  BY <1>2, <2>1, Instances, SpeaksOf, LLVMFacts DEF ObjectRight, Honest, obj
<1>3. CASE k \in { "CmpInst", "PHINode", "OtherInst" }
  <2>1. gInstructionClasses(k) = "Instruction"
    BY <1>3 DEF gInstructionClasses
  <2> QED  BY <1>3, <2>1, Instances, SpeaksOf DEF ObjectRight, Honest, obj
<1>4. CASE k \in { "BinaryOperator", "LoadInst", "StoreInst", "FreeInst", "GetElementPtrInst", "AllocaInst",
                   "MallocInst", "ReturnInst", "BranchInst", "SwitchInst" }
  <2>1. gInstructionClasses(k) = k
    BY <1>4 DEF gInstructionClasses
  <2> QED  BY <1>4, <2>1, Instances, SpeaksOf, LLVMFacts DEF ObjectRight, Honest, obj
<1> QED  BY <1>1, <1>2, <1>3, <1>4

LEMMA WrappedInstructions ==
    ASSUME NEW K \in SUBSET AnInstruction
    PROVE  Returns(llvm_instruction_wrap(K))
  BY KindsAre, WrappedInstruction DEF llvm_instruction_wrap, Returns

LEMMA GivesRight ==
    /\ Returns({})
    /\ \A K : (\A k \in K : LLVMIs(k, "Value")) => Returns(llvm_value_wrap(K))
    /\ Returns(llvm_basic_block_wrap)
    /\ Returns(llvm_function_wrap({"Function"}))
    /\ Returns(llvm_function_wrap({"Function", "Constant"})) /\ Returns(llvm_function_wrap({"Function", null}))
    /\ Returns(objs("Module", {"Module"})) /\ Returns(objs("Module", {"Module", null}))
    /\ \A c \in Instantiated : Returns({blank(c)})
    /\ \A c \in Instantiated : Returns(objs(c, {speaksOf(c)}))
<1> USE Instances, SpeaksOf, LLVMFacts
<1>1. Returns({})
  BY DEF Returns
<1>2. ASSUME NEW K, \A k \in K : LLVMIs(k, "Value") PROVE Returns(llvm_value_wrap(K))
  BY <1>2, GivesHonest DEF llvm_value_wrap
<1>3. Returns(llvm_basic_block_wrap)
  BY GivesHonest DEF llvm_basic_block_wrap
<1>4. ASSUME NEW k \in {"Function", "Constant", null} PROVE ObjectRight(obj("Function", k))
  BY <1>4 DEF ObjectRight, Honest, FalseClass, IsConstant, obj
<1>5. \A K \in SUBSET {"Function", "Constant", null} : Returns(llvm_function_wrap(K))
  BY <1>4 DEF Returns, llvm_function_wrap, objs
<1>6. /\ Returns(llvm_function_wrap({"Function"}))
      /\ Returns(llvm_function_wrap({"Function", "Constant"})) /\ Returns(llvm_function_wrap({"Function", null}))
  BY <1>5
<1>7. ASSUME NEW k \in {"Module", null} PROVE ObjectRight(obj("Module", k))
  BY <1>7 DEF ObjectRight, Honest, FalseClass, obj
<1>8. Returns(objs("Module", {"Module"})) /\ Returns(objs("Module", {"Module", null}))
  BY <1>7 DEF Returns, objs
<1>9. ASSUME NEW c \in Instantiated PROVE Returns({blank(c)})
  BY DEF Returns, blank, ObjectRight, FalseClass, obj
<1>10. ASSUME NEW c \in Instantiated PROVE Returns(objs(c, {speaksOf(c)}))
  BY GivesHonest
<1> QED  BY <1>1, <1>2, <1>3, <1>6, <1>8, <1>9, <1>10

LEMMA GivesOfMethods ==
    /\ \A c \in { "PointerType", "StructType", "ArrayType", "VectorType", "FunctionType", "BinaryOperator",
                  "ReturnInst", "BranchInst", "LoadInst", "StoreInst", "PassManager" } : Returns(objs(c, {c}))
    /\ Returns(objs("Type", AType)) /\ Returns(objs("Type", {"IntegerType"})) /\ Returns(objs("Type", {"OtherType"}))
    /\ Returns(objs("Builder", {"IRBuilder"})) /\ Returns(objs("Phi", {"PHINode"}))
    /\ Returns(objs("BranchInst", {"CondBranch"})) /\ Returns(objs("AllocationInst", {"AllocaInst"}))
    /\ Returns(objs("ICmpInst", {"CmpInst"})) /\ Returns(objs("FCmpInst", {"CmpInst"}))
    /\ \A k \in {"ConstantInt", "Constant", "Argument", "GlobalVariable", "GetElementPtrInst", "OtherInst"} :
           Returns(llvm_value_wrap({k}))
    /\ Returns(llvm_value_wrap(AValue))
    /\ \A k \in {"SwitchInst", "MallocInst", "FreeInst"} : Returns(llvm_instruction_wrap({k}))
    /\ Returns(llvm_instruction_wrap(AnInstruction))
<1> USE Instances, SpeaksOf, LLVMFacts
<1>1. \A c \in { "PointerType", "StructType", "ArrayType", "VectorType", "FunctionType", "BinaryOperator",
                  "ReturnInst", "BranchInst", "LoadInst", "StoreInst", "PassManager" } : Returns(objs(c, {c}))
  BY GivesHonest
<1>2. Returns(objs("Type", AType)) /\ Returns(objs("Type", {"IntegerType"})) /\ Returns(objs("Type", {"OtherType"}))
  BY GivesHonest, KindsAre
<1>3. Returns(objs("Builder", {"IRBuilder"})) /\ Returns(objs("Phi", {"PHINode"}))
  BY GivesHonest
<1>4. Returns(objs("BranchInst", {"CondBranch"})) /\ Returns(objs("AllocationInst", {"AllocaInst"}))
  BY GivesHonest
<1>5. Returns(objs("ICmpInst", {"CmpInst"})) /\ Returns(objs("FCmpInst", {"CmpInst"}))
  BY GivesHonest
<1>6. \A k \in {"ConstantInt", "Constant", "Argument", "GlobalVariable", "GetElementPtrInst", "OtherInst"} :
           Returns(llvm_value_wrap({k}))
  BY GivesRight
<1>7. Returns(llvm_value_wrap(AValue))
  BY GivesRight, KindsAre
<1>8. ASSUME NEW k \in {"SwitchInst", "MallocInst", "FreeInst"} PROVE k \in AnInstruction
  <2>1. LLVMIs(k, "Instruction")
    BY LLVMTransitive
  <2> QED  BY <2>1 DEF AnInstruction, Kinds, Abstract, LLVMClasses
<1>9. Returns(llvm_instruction_wrap(AnInstruction))
      /\ \A k \in {"SwitchInst", "MallocInst", "FreeInst"} : Returns(llvm_instruction_wrap({k}))
  BY <1>8, WrappedInstructions
<1> QED  BY <1>1, <1>2, <1>3, <1>4, <1>5, <1>6, <1>7, <1>9

-----------------------------------------------------------------------------
(* Every method is right.                                                  *)

LEMMA Lists ==
    /\ <<>> \in Seq(Parameters)
    /\ \A p \in Parameters : <<p>> \in Seq(Parameters)
    /\ \A p, q \in Parameters : <<p, q>> \in Seq(Parameters)
    /\ \A p, q, r \in Parameters : <<p, q, r>> \in Seq(Parameters)
  OBVIOUS

LEMMA InParameters ==
    /\ Unused \in Parameters /\ Value \in Parameters /\ Block \in Parameters /\ Type \in Parameters
    /\ DATA_GET_BUILDER \in Parameters /\ DATA_GET_INSTRUCTION \in Parameters
    /\ DATA_GET_TERMINATOR_INST \in Parameters /\ DATA_GET_BRANCH_INST \in Parameters
    /\ DATA_GET_SWITCH_INST \in Parameters /\ DATA_GET_ALLOCATION_INST \in Parameters
    /\ LLVM_VAL \in Parameters /\ LLVM_TYPE \in Parameters /\ LLVM_MODULE \in Parameters
    /\ LLVM_FUNCTION \in Parameters /\ LLVM_BASIC_BLOCK \in Parameters /\ LLVM_INSTRUCTION \in Parameters
    /\ LLVM_PHI \in Parameters
    /\ \A c \in {"IntegerType", "StructType", "Constant", "PassManager"} : DATA_PTR(c) \in Parameters
    /\ \A c \in {"CondBranch", "ConstantInt"} : Data_Get_Struct(c) \in Parameters
    /\ \A c \in {"Instruction", "BasicBlock", "Type", "Value", "FunctionType", "Module", "Function"} :
           CHECK_TYPE(c, c) \in Parameters
  BY DEF Parameters

LEMMA Receivers ==
    /\ \A self : Receives("Class", self)
    /\ \A on : Receives(on, Unused) /\ Receives(on, Data_Get_Struct("CondBranch"))
    /\ Receives("Type", Type) /\ Receives("Value", Value) /\ Receives("BasicBlock", Block)
    /\ Receives("Builder", DATA_GET_BUILDER) /\ Receives("Instruction", DATA_GET_INSTRUCTION)
    /\ Receives("TerminatorInst", DATA_GET_TERMINATOR_INST) /\ Receives("BranchInst", DATA_GET_BRANCH_INST)
    /\ Receives("SwitchInst", DATA_GET_SWITCH_INST) /\ Receives("AllocationInst", DATA_GET_ALLOCATION_INST)
    /\ Receives("Module", LLVM_MODULE) /\ Receives("Function", LLVM_FUNCTION)
    /\ Receives("BasicBlock", LLVM_BASIC_BLOCK) /\ Receives("Instruction", LLVM_INSTRUCTION)
    /\ Receives("Phi", LLVM_PHI) /\ Receives("PassManager", DATA_PTR("PassManager"))
<1> USE Instances, SpeaksOf
<1>1. (\A self : Receives("Class", self))
      /\ \A on : Receives(on, Unused) /\ Receives(on, Data_Get_Struct("CondBranch"))
  BY DEF Receives, Unused, Data_Get_Struct, Unmatched
<1>2. ASSUME NEW c \in Instantiated
      PROVE  Receives(c, Data_Get_Struct(speaksOf(c))) /\ Receives(c, DATA_PTR(speaksOf(c)))
  BY DEF Receives, Data_Get_Struct, DATA_PTR
<1>3. /\ Receives("Type", Type) /\ Receives("Value", Value) /\ Receives("BasicBlock", Block)
      /\ Receives("Builder", DATA_GET_BUILDER) /\ Receives("Instruction", DATA_GET_INSTRUCTION)
      /\ Receives("TerminatorInst", DATA_GET_TERMINATOR_INST) /\ Receives("BranchInst", DATA_GET_BRANCH_INST)
      /\ Receives("SwitchInst", DATA_GET_SWITCH_INST) /\ Receives("AllocationInst", DATA_GET_ALLOCATION_INST)
  BY <1>2 DEF Type, Value, Block, DATA_GET_BUILDER, DATA_GET_INSTRUCTION, DATA_GET_TERMINATOR_INST,
              DATA_GET_BRANCH_INST, DATA_GET_SWITCH_INST, DATA_GET_ALLOCATION_INST
<1>4. /\ Receives("Module", LLVM_MODULE) /\ Receives("Function", LLVM_FUNCTION)
      /\ Receives("BasicBlock", LLVM_BASIC_BLOCK) /\ Receives("Instruction", LLVM_INSTRUCTION)
      /\ Receives("Phi", LLVM_PHI) /\ Receives("PassManager", DATA_PTR("PassManager"))
  BY <1>2 DEF LLVM_MODULE, LLVM_FUNCTION, LLVM_BASIC_BLOCK, LLVM_INSTRUCTION, LLVM_PHI
<1> QED  BY <1>1, <1>3, <1>4

LEMMA Plain ==
    ASSUME NEW names, NEW on, NEW self \in Parameters, NEW params \in Seq(Parameters), NEW gives,
           Receives(on, self), Returns(gives)
    PROVE  Right(method(names, on, self, params, gives))
  BY DEF Right, method

LEMMA Modular ==
    ASSUME NEW names, NEW params \in Seq(Parameters), NEW gives, Returns(gives)
    PROVE  Right(function(names, params, gives))
  BY Plain, InParameters, Receivers DEF function

LEMMA Built ==
    ASSUME NEW name, NEW params \in Seq(Parameters), NEW gives, Returns(gives)
    PROVE  Right(build(name, params, gives))
  BY Plain, InParameters, Receivers DEF build

LEMMA Folded ==
    ASSUME NEW name, NEW params \in Seq(Parameters),
           NEW c \in {"BinaryOperator", "ICmpInst", "FCmpInst", "Value"}, NEW K, Returns(objs(c, K))
    PROVE  Right(folding(build(name, params, objs(c, K))))
<1>1. \A o \in objs(c, K) : o.class = c
  BY DEF objs, obj
<1>2. Right(build(name, params, objs(c, K)))
  BY Built
<1> QED  BY <1>1, <1>2 DEF Right, folding, build, method

LEMMA Cast ==
    ASSUME NEW name, NEW p \in {Value, LLVM_VAL}, NEW q \in Parameters, NEW K, Returns(llvm_value_wrap(K))
    PROVE  Right(casting(build(name, <<p, q>>, llvm_value_wrap(K))))
<1>1. \A o \in llvm_value_wrap(K) : o.class = "Value"
  BY DEF llvm_value_wrap, objs, obj
<1>2. p \in Parameters
  BY InParameters
<1>4. p.check # "unused" /\ p.cast = "Value"
  <2>1. CASE p = Value
    BY <2>1 DEF Value, Data_Get_Struct
  <2>2. CASE p = LLVM_VAL
    BY <2>2 DEF LLVM_VAL, DATA_PTR
  <2> QED  BY <2>1, <2>2
<1>3. Right(build(name, <<p, q>>, llvm_value_wrap(K)))
  BY <1>2, Built, Lists
<1> QED  BY <1>1, <1>3, <1>4 DEF Right, casting, build, method

LEMMA FoldedValue ==
    ASSUME NEW name, NEW params \in Seq(Parameters), NEW K, Returns(llvm_value_wrap(K))
    PROVE  Right(folding(build(name, params, llvm_value_wrap(K))))
  BY Folded DEF llvm_value_wrap

LEMMA TypeMethodsRight == \A m \in TypeMethods : Right(m)
<1>1. { <<>>, <<Type>>, <<LLVM_TYPE, LLVM_TYPE>> } \subseteq Seq(Parameters)
  BY Lists, InParameters
<1>2. /\ Returns({})
      /\ \A c \in { "PointerType", "StructType", "ArrayType", "VectorType", "FunctionType" } : Returns(objs(c, {c}))
  BY GivesRight, GivesOfMethods
<1>3. ASSUME NEW names, NEW params \in Seq(Parameters), NEW gives, Returns(gives)
      PROVE  Right(method(names, "Type", Type, params, gives))
  <2>1. Type \in Parameters /\ Receives("Type", Type)
    BY InParameters, Receivers
  <2> QED  BY <1>3, <2>1, Plain
<1> QED  BY <1>1, <1>2, <1>3, Modular DEF TypeMethods

LEMMA TypeConstantsRight == \A m \in TypeConstants : Right(m)
<1>1. <<>> \in Seq(Parameters)
  BY Lists, InParameters
<1>2. /\ Returns(objs("Type", {"IntegerType"})) /\ Returns(objs("Type", {"OtherType"}))
  BY GivesRight, GivesOfMethods
<1> QED  BY <1>1, <1>2, Modular DEF TypeConstants

LEMMA ValueMethodsRight == \A m \in ValueMethods : Right(m)
<1>1. { <<>>, <<Block>>, <<Value>>, <<DATA_PTR("IntegerType")>>,
        <<DATA_PTR("StructType"), DATA_PTR("Constant")>> } \subseteq Seq(Parameters)
  BY Lists, InParameters
<1>2. /\ Returns({}) /\ Returns(objs("Type", AType)) /\ Returns(llvm_value_wrap({"ConstantInt"}))
      /\ Returns(llvm_value_wrap({"Constant"}))
  BY GivesRight, GivesOfMethods
<1>3. ASSUME NEW names, NEW params \in Seq(Parameters), NEW gives, Returns(gives)
      PROVE  Right(method(names, "Value", Value, params, gives))
  <2>1. Value \in Parameters /\ Receives("Value", Value)
    BY InParameters, Receivers
  <2> QED  BY <1>3, <2>1, Plain
<1> QED  BY <1>1, <1>2, <1>3, Modular DEF ValueMethods

LEMMA InstructionMethodsRight == \A m \in InstructionMethods : Right(m)
<1>1. { <<>>, <<CHECK_TYPE("Instruction", "Instruction")>>,
        <<CHECK_TYPE("BasicBlock", "BasicBlock")>> } \subseteq Seq(Parameters)
  BY Lists, InParameters
<1>2. Returns({})
  BY GivesRight, GivesOfMethods
<1>3. ASSUME NEW names, NEW params \in Seq(Parameters), NEW gives, Returns(gives)
      PROVE  Right(method(names, "Instruction", LLVM_INSTRUCTION, params, gives))
  <2>1. LLVM_INSTRUCTION \in Parameters /\ Receives("Instruction", LLVM_INSTRUCTION)
    BY InParameters, Receivers
  <2> QED  BY <1>3, <2>1, Plain
<1>4. ASSUME NEW names, NEW params \in Seq(Parameters), NEW gives, Returns(gives)
      PROVE  Right(method(names, "Instruction", DATA_GET_INSTRUCTION, params, gives))
  <2>1. DATA_GET_INSTRUCTION \in Parameters /\ Receives("Instruction", DATA_GET_INSTRUCTION)
    BY InParameters, Receivers
  <2> QED  BY <1>4, <2>1, Plain
<1> QED  BY <1>1, <1>2, <1>3, <1>4 DEF InstructionMethods

LEMMA TerminatorMethodsRight == \A m \in TerminatorMethods : Right(m)
<1>1. { <<>>, <<Block>> } \subseteq Seq(Parameters)
  BY Lists, InParameters
<1>2. /\ Returns({}) /\ Returns(llvm_basic_block_wrap)
  BY GivesRight, GivesOfMethods
<1>3. ASSUME NEW names, NEW params \in Seq(Parameters), NEW gives, Returns(gives)
      PROVE  Right(method(names, "TerminatorInst", DATA_GET_TERMINATOR_INST, params, gives))
  <2>1. DATA_GET_TERMINATOR_INST \in Parameters /\ Receives("TerminatorInst", DATA_GET_TERMINATOR_INST)
    BY InParameters, Receivers
  <2> QED  BY <1>3, <2>1, Plain
<1> QED  BY <1>1, <1>2, <1>3 DEF TerminatorMethods

LEMMA BranchMethodsRight == \A m \in BranchMethods : Right(m)
<1>1. { <<>>, <<Value>> } \subseteq Seq(Parameters)
  BY Lists, InParameters
<1>2. /\ Returns({}) /\ Returns(llvm_value_wrap(AValue))
  BY GivesRight, GivesOfMethods
<1>3. ASSUME NEW names, NEW params \in Seq(Parameters), NEW gives, Returns(gives)
      PROVE  Right(method(names, "BranchInst", DATA_GET_BRANCH_INST, params, gives))
  <2>1. DATA_GET_BRANCH_INST \in Parameters /\ Receives("BranchInst", DATA_GET_BRANCH_INST)
    BY InParameters, Receivers
  <2> QED  BY <1>3, <2>1, Plain
<1>4. ASSUME NEW names, NEW params \in Seq(Parameters), NEW gives, Returns(gives)
      PROVE  Right(method(names, "BranchInst", Data_Get_Struct("CondBranch"), params, gives))
  <2>1. Data_Get_Struct("CondBranch") \in Parameters /\ Receives("BranchInst", Data_Get_Struct("CondBranch"))
    BY InParameters, Receivers
  <2> QED  BY <1>4, <2>1, Plain
<1> QED  BY <1>1, <1>2, <1>3, <1>4 DEF BranchMethods

LEMMA SwitchMethodsRight == \A m \in SwitchMethods : Right(m)
<1>1. { <<>>, <<Data_Get_Struct("ConstantInt"), Block>> } \subseteq Seq(Parameters)
  BY Lists, InParameters
<1>2. /\ Returns({}) /\ Returns(llvm_basic_block_wrap)
  BY GivesRight, GivesOfMethods
<1>3. ASSUME NEW names, NEW params \in Seq(Parameters), NEW gives, Returns(gives)
      PROVE  Right(method(names, "SwitchInst", DATA_GET_SWITCH_INST, params, gives))
  <2>1. DATA_GET_SWITCH_INST \in Parameters /\ Receives("SwitchInst", DATA_GET_SWITCH_INST)
    BY InParameters, Receivers
  <2> QED  BY <1>3, <2>1, Plain
<1> QED  BY <1>1, <1>2, <1>3 DEF SwitchMethods

LEMMA AllocationMethodsRight == \A m \in AllocationMethods : Right(m)
<1>1. <<>> \in Seq(Parameters)
  BY Lists, InParameters
<1>2. /\ Returns({}) /\ Returns(llvm_value_wrap(AValue)) /\ Returns(objs("Type", AType))
  BY GivesRight, GivesOfMethods
<1>3. ASSUME NEW names, NEW params \in Seq(Parameters), NEW gives, Returns(gives)
      PROVE  Right(method(names, "AllocationInst", DATA_GET_ALLOCATION_INST, params, gives))
  <2>1. DATA_GET_ALLOCATION_INST \in Parameters /\ Receives("AllocationInst", DATA_GET_ALLOCATION_INST)
    BY InParameters, Receivers
  <2> QED  BY <1>3, <2>1, Plain
<1> QED  BY <1>1, <1>2, <1>3 DEF AllocationMethods

LEMMA FunctionMethodsRight == \A m \in FunctionMethods : Right(m)
<1>1. <<>> \in Seq(Parameters)
  BY Lists, InParameters
<1>2. /\ Returns({}) /\ Returns(llvm_basic_block_wrap) /\ Returns(llvm_value_wrap({"Argument"}))
  BY GivesRight, GivesOfMethods
<1>3. ASSUME NEW names, NEW params \in Seq(Parameters), NEW gives, Returns(gives)
      PROVE  Right(method(names, "Function", LLVM_FUNCTION, params, gives))
  <2>1. LLVM_FUNCTION \in Parameters /\ Receives("Function", LLVM_FUNCTION)
    BY InParameters, Receivers
  <2> QED  BY <1>3, <2>1, Plain
<1> QED  BY <1>1, <1>2, <1>3 DEF FunctionMethods

LEMMA BlockMethodsRight == \A m \in BlockMethods : Right(m)
<1>1. <<>> \in Seq(Parameters)
  BY Lists, InParameters
<1>2. /\ Returns({}) /\ Returns(llvm_instruction_wrap(AnInstruction))
      /\ Returns(objs("Builder", {"IRBuilder"}))
  BY GivesRight, GivesOfMethods
<1>3. ASSUME NEW names, NEW params \in Seq(Parameters), NEW gives, Returns(gives)
      PROVE  Right(method(names, "BasicBlock", LLVM_BASIC_BLOCK, params, gives))
  <2>1. LLVM_BASIC_BLOCK \in Parameters /\ Receives("BasicBlock", LLVM_BASIC_BLOCK)
    BY InParameters, Receivers
  <2> QED  BY <1>3, <2>1, Plain
<1>4. ASSUME NEW names, NEW params \in Seq(Parameters), NEW gives, Returns(gives)
      PROVE  Right(method(names, "BasicBlock", Block, params, gives))
  <2>1. Block \in Parameters /\ Receives("BasicBlock", Block)
    BY InParameters, Receivers
  <2> QED  BY <1>4, <2>1, Plain
<1> QED  BY <1>1, <1>2, <1>3, <1>4 DEF BlockMethods

LEMMA FlowMethodsRight == \A m \in FlowMethods : Right(m)
<1>1. { <<CHECK_TYPE("BasicBlock", "BasicBlock")>>, <<Value, Value>>,
        <<CHECK_TYPE("Type", "Type")>>,
        <<CHECK_TYPE("Value", "Value"), CHECK_TYPE("BasicBlock", "BasicBlock")>>,
        <<CHECK_TYPE("Value", "Value")>>, <<Block>>, <<Value, Block, Block>>,
        <<Value, Block>> } \subseteq Seq(Parameters)
  BY Lists, InParameters
<1>2. /\ Returns({})
      /\ \A c \in { "BinaryOperator", "ReturnInst", "BranchInst" } : Returns(objs(c, {c}))
      /\ Returns(objs("Phi", {"PHINode"})) /\ Returns(objs("BranchInst", {"CondBranch"}))
      /\ Returns(llvm_instruction_wrap({"SwitchInst"}))
  BY GivesRight, GivesOfMethods
<1>3. ASSUME NEW names, NEW params \in Seq(Parameters), NEW gives, Returns(gives)
      PROVE  Right(method(names, "Phi", LLVM_PHI, params, gives))
  <2>1. LLVM_PHI \in Parameters /\ Receives("Phi", LLVM_PHI)
    BY InParameters, Receivers
  <2> QED  BY <1>3, <2>1, Plain
<1>4. Right(folding(build("bin_op", <<Value, Value>>, objs("BinaryOperator", {"BinaryOperator"}))))
  BY <1>1, <1>2, Folded
<1> QED  BY <1>1, <1>2, <1>3, <1>4, Built DEF FlowMethods

LEMMA MemoryMethodsRight == \A m \in MemoryMethods : Right(m)
<1>1. { <<Type>>, <<LLVM_VAL>>, <<Value>>, <<Value, Value>> } \subseteq Seq(Parameters)
  BY Lists, InParameters
<1>2. /\ \A k \in { "MallocInst", "FreeInst" } : Returns(llvm_instruction_wrap({k}))
      /\ Returns(objs("AllocationInst", {"AllocaInst"}))
      /\ \A c \in { "LoadInst", "StoreInst" } : Returns(objs(c, {c}))
  BY GivesRight, GivesOfMethods
<1> QED  BY <1>1, <1>2, Built DEF MemoryMethods

LEMMA CompareMethodsRight == \A m \in CompareMethods : Right(m)
<1>1. <<LLVM_VAL, LLVM_VAL>> \in Seq(Parameters)
  BY Lists, InParameters
<1>2. \A c \in { "ICmpInst", "FCmpInst" } : Returns(objs(c, {"CmpInst"}))
  BY GivesRight, GivesOfMethods
<1> QED  BY <1>1, <1>2, Folded DEF CompareMethods

LEMMA AddressMethodsRight == \A m \in AddressMethods : Right(m)
<1>1. { <<Value>>, <<Value, Value>> } \subseteq Seq(Parameters)
  BY Lists, InParameters
<1>2. \A k \in { "GetElementPtrInst", "OtherInst" } : Returns(llvm_value_wrap({k}))
  BY GivesRight, GivesOfMethods
<1>3. Type \in Parameters /\ LLVM_TYPE \in Parameters
  BY InParameters
<1> QED  BY <1>1, <1>2, <1>3, FoldedValue, Cast DEF AddressMethods

LEMMA CallMethodsRight == \A m \in CallMethods : Right(m)
<1>1. { <<>>, <<LLVM_FUNCTION>>, <<LLVM_FUNCTION, LLVM_VAL>>,
        <<Value, Value, Value>>, <<Value, Value>> } \subseteq Seq(Parameters)
  BY Lists, InParameters
<1>2. \A k \in { "OtherInst", "GlobalVariable", "Constant" } : Returns(llvm_value_wrap({k}))
  BY GivesRight, GivesOfMethods
<1>3. ASSUME NEW names, NEW params \in Seq(Parameters), NEW gives, Returns(gives)
      PROVE  Right(method(names, "Builder", Unused, params, gives))
  <2>1. Unused \in Parameters /\ Receives("Builder", Unused)
    BY InParameters, Receivers
  <2> QED  BY <1>3, <2>1, Plain
<1> QED  BY <1>1, <1>2, <1>3, Built, FoldedValue DEF CallMethods

LEMMA ModuleMethodsRight == \A m \in ModuleMethods : Right(m)
<1>1. { <<>>, <<CHECK_TYPE("FunctionType", "FunctionType")>>,
        <<LLVM_TYPE, DATA_PTR("Constant")>> } \subseteq Seq(Parameters)
  BY Lists, InParameters
<1>2. /\ Returns({}) /\ Returns(objs("Module", {"Module"}))
      /\ Returns(llvm_function_wrap({"Function", "Constant"}))
      /\ Returns(llvm_function_wrap({"Function", null})) /\ Returns(llvm_value_wrap({"GlobalVariable"}))
  BY GivesRight, GivesOfMethods
<1>3. ASSUME NEW names, NEW params \in Seq(Parameters), NEW gives, Returns(gives)
      PROVE  Right(method(names, "Module", LLVM_MODULE, params, gives))
  <2>1. LLVM_MODULE \in Parameters /\ Receives("Module", LLVM_MODULE)
    BY InParameters, Receivers
  <2> QED  BY <1>3, <2>1, Plain
<1> QED  BY <1>1, <1>2, <1>3, Modular DEF ModuleMethods

LEMMA ModuleFilesRight == \A m \in ModuleFiles : Right(m)
<1>1. { <<>>, <<CHECK_TYPE("FunctionType", "FunctionType")>> } \subseteq Seq(Parameters)
  BY Lists, InParameters
<1>2. /\ Returns({}) /\ Returns(llvm_function_wrap({"Function"}))
      /\ Returns(objs("Module", {"Module", null}))
  BY GivesRight, GivesOfMethods
<1>3. ASSUME NEW names, NEW params \in Seq(Parameters), NEW gives, Returns(gives)
      PROVE  Right(method(names, "Module", LLVM_MODULE, params, gives))
  <2>1. LLVM_MODULE \in Parameters /\ Receives("Module", LLVM_MODULE)
    BY InParameters, Receivers
  <2> QED  BY <1>3, <2>1, Plain
<1> QED  BY <1>1, <1>2, <1>3, Modular DEF ModuleFiles

LEMMA EngineMethodsRight == \A m \in EngineMethods : Right(m)
<1>1. { <<CHECK_TYPE("Module", "Module")>>, <<CHECK_TYPE("Function", "Function")>>,
        <<LLVM_FUNCTION>> } \subseteq Seq(Parameters)
  BY Lists, InParameters
<1>2. Returns({})
  BY GivesRight, GivesOfMethods
<1> QED  BY <1>1, <1>2, Modular DEF EngineMethods

LEMMA PassManagerMethodsRight == \A m \in PassManagerMethods : Right(m)
<1>1. { <<>>, <<LLVM_MODULE>> } \subseteq Seq(Parameters)
  BY Lists, InParameters
<1>2. /\ Returns({}) /\ Returns(objs("PassManager", {"PassManager"}))
  BY GivesRight, GivesOfMethods
<1>3. ASSUME NEW names, NEW params \in Seq(Parameters), NEW gives, Returns(gives)
      PROVE  Right(method(names, "PassManager", DATA_PTR("PassManager"), params, gives))
  <2>1. DATA_PTR("PassManager") \in Parameters /\ Receives("PassManager", DATA_PTR("PassManager"))
    BY InParameters, Receivers
  <2> QED  BY <1>3, <2>1, Plain
<1> QED  BY <1>1, <1>2, <1>3, Modular DEF PassManagerMethods

LEMMA AllocatorsRight == \A m \in Allocators : Right(m)
<1>1. <<>> \in Seq(Parameters)
  BY Lists, InParameters
<1>2. \A c \in {"FunctionType", "Function", "BasicBlock", "Instruction", "Phi"} : Returns({blank(c)})
  BY GivesRight, GivesOfMethods, Instances
<1> QED  BY <1>1, <1>2, Modular DEF Allocators

LEMMA MethodsRight == \A m \in Methods : Right(m)
  BY TypeMethodsRight, TypeConstantsRight, ValueMethodsRight, InstructionMethodsRight,
     TerminatorMethodsRight, BranchMethodsRight, SwitchMethodsRight, AllocationMethodsRight,
     FunctionMethodsRight, BlockMethodsRight, FlowMethodsRight, MemoryMethodsRight, CompareMethodsRight,
     AddressMethodsRight, CallMethodsRight, ModuleMethodsRight, ModuleFilesRight, EngineMethodsRight,
     PassManagerMethodsRight, AllocatorsRight
  DEF Methods

-----------------------------------------------------------------------------
(* Calls.                                                                  *)

LEMMA ParamsShape ==
    ASSUME NEW m, Right(m)
    PROVE  /\ Params(m) \in Seq(Parameters)
           /\ m.on # "Class" => Params(m)[1] = m.self
           /\ m.on # "Class" /\ m.params # <<>> => Params(m)[2] = m.params[1] /\ Len(Params(m)) >= 2
<1>1. m.params \in Seq(Parameters) /\ m.self \in Parameters
  BY DEF Right
<1> DEFINE rest == m.params
<1>2. CASE m.on = "Class"
  BY <1>1, <1>2 DEF Params
<1>3. CASE m.on # "Class"
  <2>1. Params(m) = <<m.self>> \o rest
    BY <1>3 DEF Params
  <2>2. <<m.self>> \in Seq(Parameters) /\ Len(<<m.self>>) = 1 /\ <<m.self>>[1] = m.self
    BY <1>1
  <2>3. rest \in Seq(Parameters) /\ Len(rest) \in Nat /\ (rest # <<>> => Len(rest) >= 1)
    BY <1>1
  <2> HIDE DEF rest
  <2>4. /\ Params(m) \in Seq(Parameters) /\ Len(Params(m)) = 1 + Len(rest)
        /\ \A i \in 1 .. 1 + Len(rest) : Params(m)[i] = IF i <= 1 THEN <<m.self>>[i] ELSE rest[i - 1]
    BY <2>1, <2>2, <2>3
  <2>5. Params(m)[1] = m.self
    BY <2>2, <2>3, <2>4
  <2>6. rest # <<>> => Params(m)[2] = rest[1] /\ Len(Params(m)) >= 2
    BY <2>3, <2>4
  <2> QED  BY <2>4, <2>5, <2>6 DEF rest
<1> QED  BY <1>2, <1>3

LEMMA CallShape ==
    ASSUME NEW m, Right(m), NEW os \in Calls(m)
    PROVE  /\ Len(os) = Len(Params(m))
           /\ m.on # "Class" => Responds(m, os[1])
           /\ \A n \in 1 .. Len(os) : os[n] \in held \cup {Fixnum} /\ Params(m)[n] \in Parameters
<1>1. Params(m) \in Seq(Parameters) /\ Len(Params(m)) \in Nat
  BY ParamsShape
<1>2. os \in [1 .. Len(Params(m)) -> held \cup {Fixnum}] /\ (m.on # "Class" => Responds(m, os[1]))
  BY DEF Calls
<1>3. Len(os) = Len(Params(m))
  BY <1>1, <1>2
<1>4. ASSUME NEW n \in 1 .. Len(os) PROVE os[n] \in held \cup {Fixnum} /\ Params(m)[n] \in Parameters
  BY <1>1, <1>2, <1>3
<1> QED  BY <1>2, <1>3, <1>4

LEMMA Constants ==
    \A k \in {"Constant", "ConstantInt"} : LLVMIs(k, "Constant") /\ LLVMIs(k, "Value")
  BY LLVMSuper, LLVMChain

\* The objects a call may give.
LEMMA ResultsRight ==
    ASSUME NEW m, Right(m), m.gives # {}, NEW os \in Calls(m), Fitting(m, os), NEW r \in Results(m, os)
    PROVE  ObjectRight(r)
<1> DEFINE class == (CHOOSE o \in m.gives : TRUE).class
<1>1. \E o \in m.gives : class = o.class
  OBVIOUS
<1> HIDE DEF class
<1>2. ASSUME NEW c \in {"BinaryOperator", "ICmpInst", "FCmpInst", "Value"}, NEW k \in {"Constant", "ConstantInt"}
      PROVE  ObjectRight(obj(c, k))
  <2>1. obj(c, k).class = c /\ obj(c, k).to = k
    BY DEF obj
  <2>2. c \in Instantiated
    BY Instances
  <2>3. CASE c = "Value"
    BY <2>1, <2>2, <2>3, Constants, SpeaksOf DEF ObjectRight, Honest
  <2>4. CASE c # "Value"
    BY <2>1, <2>2, <2>4, Constants DEF ObjectRight, FalseClass, IsConstant
  <2> QED  BY <2>3, <2>4
<1>3. CASE m.how = "folds" /\ r \in objs(class, {"Constant", "ConstantInt"})
  <2>1. class \in {"BinaryOperator", "ICmpInst", "FCmpInst", "Value"}
    BY <1>1, <1>3 DEF Right
  <2> QED  BY <1>2, <1>3, <2>1 DEF objs
<1>4. CASE m.how = "casts" /\ r \in objs(class, {"Constant", "ConstantInt", os[2].to})
  <2>1. class = "Value"
    BY <1>1, <1>4 DEF Right
  <2>2. /\ m.on # "Class" /\ m.params # <<>> /\ m.params \in Seq(Parameters)
        /\ m.params[1].check # "unused" /\ m.params[1].cast = "Value"
    BY <1>4 DEF Right
  <2>3. 2 \in 1 .. Len(os) /\ Params(m)[2] = m.params[1]
    <3>1. Params(m)[2] = m.params[1] /\ Len(Params(m)) >= 2 /\ Len(Params(m)) \in Nat
      BY <2>2, ParamsShape
    <3> QED  BY <3>1, CallShape
  <2>4. LLVMIs(os[2].to, "Value")
    BY <2>2, <2>3 DEF Fitting, Fits
  <2>5. ObjectRight(obj("Value", os[2].to))
    BY <2>4, Instances, SpeaksOf DEF ObjectRight, Honest, obj
  <2> QED  BY <1>2, <1>4, <2>1, <2>5 DEF objs
<1>5. CASE r \in m.gives
  BY <1>5 DEF Right, Returns
<1>6. \/ m.how = "folds" /\ r \in objs(class, {"Constant", "ConstantInt"})
      \/ m.how = "casts" /\ r \in objs(class, {"Constant", "ConstantInt", os[2].to})
      \/ r \in m.gives
  BY DEF Results, objs, class
<1> QED  BY <1>3, <1>4, <1>5, <1>6

\* What the class promises is so.
LEMMA ClassKept ==
    ASSUME \A o \in held : ObjectRight(o),
           NEW o \in held \cup {Fixnum}, NEW k \in Instantiated, RubyIs(o.class, k)
    PROVE  FalseClass(o) \/ LLVMIs(o.to, speaksOf(k))
<1>1. CASE o \in held
  <2>1. o.class \in Instantiated /\ (Honest(o) \/ FalseClass(o))
    BY <1>1 DEF ObjectRight
  <2>2. k \notin Unreflected
    BY DEF Instantiated, Unreflected, RubyClasses
  <2>3. LLVMIs(speaksOf(o.class), speaksOf(k))
    BY <2>1, <2>2, HierarchyMirrored
  <2> QED  BY <2>1, <2>3, LLVMTransitive DEF Honest
<1>2. CASE o = Fixnum
  <2>1. o.class = "Fixnum"
    BY <1>2 DEF Fixnum, obj
  <2>2. "Fixnum" \notin DOMAIN RubyAncestors
    BY DEF RubyAncestors, Ancestors, RubyClasses
  <2>3. k = "Fixnum"
    BY <2>1, <2>2 DEF RubyIs
  <2> QED  BY <2>3, Instances
<1> QED  BY <1>1, <1>2

\* The inductive part: what the client holds.
HeldRight == \A o \in held : ObjectRight(o)

\* A call that confuses: why it was possible.
LEMMA Confused ==
    ASSUME HeldRight, NEW m, Right(m), NEW os \in Calls(m), NEW n \in 1 .. Len(os), Accepted(m, os),
           ~Fits(Params(m)[n], os[n])
    PROVE  /\ Params(m)[n].check = "CHECK_TYPE" => FalseClass(os[n])
           /\ (n = 1 /\ m.on # "Class") \/ RubyIs(os[n].class, reflects(Params(m)[n].cast)) =>
                  FalseClass(os[n]) \/ Params(m)[n].cast \in Unmatched
<1> DEFINE p == Params(m)[n]
           o == os[n]
<1>1. o \in held \cup {Fixnum} /\ p \in Parameters
  BY CallShape
<1>2. Checked(p) /\ Matched(p)
  BY <1>1, ParametersRight
<1>3. Accepts(p, o)
  BY DEF Accepted
<1>4. p.check # "unused" /\ ~LLVMIs(o.to, p.cast)
  BY DEF Fits
<1>5. ASSUME n = 1, m.on # "Class"
      PROVE  Responds(m, o) /\ Receives(m.on, p)
  <2>1. p = m.self
    BY <1>5, ParamsShape
  <2> QED  BY <1>5, <2>1, CallShape DEF Right
<1> HIDE DEF p, o
<1>6. ASSUME NEW k \in Instantiated, RubyIs(o.class, k), speaksOf(k) = p.cast
      PROVE  FalseClass(o)
  BY <1>1, <1>4, <1>6, ClassKept DEF HeldRight
<1>7. ASSUME p.check = "CHECK_TYPE" PROVE FalseClass(o)
  <2>1. RubyIs(o.class, p.class)
    BY <1>3, <1>7 DEF Accepts
  <2> QED  BY <1>2, <1>6, <1>7, <2>1 DEF Checked
<1>8. ASSUME n = 1, m.on # "Class" PROVE FalseClass(o) \/ p.cast \in Unmatched
  <2>1. RubyIs(o.class, m.on)
    BY <1>5, <1>8 DEF Responds
  <2> QED  BY <1>4, <1>5, <1>6, <1>8, <2>1 DEF Receives
<1>9. ASSUME RubyIs(o.class, reflects(p.cast)) PROVE FalseClass(o) \/ p.cast \in Unmatched
  BY <1>2, <1>4, <1>6, <1>9 DEF Matched
<1> QED  BY <1>7, <1>8, <1>9 DEF p, o

-----------------------------------------------------------------------------
Inv == HeldRight /\ ChecksProtect /\ ClassesSuffice

\* Nothing false is held, and nothing but the false has gone wrong.
LEMMA InvInductive == Spec => []Inv
<1>1. Init => Inv
  BY DEF Init, Inv, HeldRight, ChecksProtect, ClassesSuffice
<1>2. Inv /\ [Next]_vars => Inv'
  <2> SUFFICES ASSUME Inv, [Next]_vars PROVE Inv'
    OBVIOUS
  <2>1. CASE succeeds
    <3>1. PICK m \in Methods : \E os \in Calls(m) :
              /\ Accepted(m, os) /\ Fitting(m, os)
              /\ \/ m.gives = {} /\ UNCHANGED held
                 \/ /\ m.gives # {} /\ Cardinality(held) < MaxHeld
                    /\ \E o \in Results(m, os) : held' = held \cup {o}
              /\ UNCHANGED accident
      BY <2>1 DEF succeeds
    <3>2. PICK os \in Calls(m) :
              /\ Fitting(m, os) /\ UNCHANGED accident
              /\ \/ UNCHANGED held
                 \/ m.gives # {} /\ \E o \in Results(m, os) : held' = held \cup {o}
      BY <3>1
    <3>3. Right(m)
      BY MethodsRight
    <3>4. HeldRight'
      <4>1. CASE UNCHANGED held
        BY <4>1 DEF Inv, HeldRight
      <4>2. ASSUME m.gives # {}, NEW o \in Results(m, os), held' = held \cup {o} PROVE HeldRight'
        <5>1. ObjectRight(o)
          BY <3>2, <3>3, <4>2, ResultsRight
        <5> QED  BY <4>2, <5>1 DEF Inv, HeldRight
      <4> QED  BY <3>2, <4>1, <4>2
    <3> QED  BY <3>2, <3>4 DEF Inv, ChecksProtect, ClassesSuffice
  <2>2. CASE confuses
    <3>1. PICK m \in Methods : \E os \in Calls(m) : \E n \in 1 .. Len(os) :
              /\ Accepted(m, os) /\ ~Fits(Params(m)[n], os[n])
              /\ accident' = { [ param |-> Params(m)[n], object |-> os[n],
                                 receiver |-> n = 1 /\ m.on # "Class" ] }
              /\ held' = {}
      BY <2>2 DEF confuses
    <3>2. PICK os \in Calls(m) : \E n \in 1 .. Len(os) :
              /\ Accepted(m, os) /\ ~Fits(Params(m)[n], os[n])
              /\ accident' = { [ param |-> Params(m)[n], object |-> os[n],
                                 receiver |-> n = 1 /\ m.on # "Class" ] }
              /\ held' = {}
      BY <3>1
    <3>3. PICK n \in 1 .. Len(os) :
              /\ Accepted(m, os) /\ ~Fits(Params(m)[n], os[n])
              /\ accident' = { [ param |-> Params(m)[n], object |-> os[n],
                                 receiver |-> n = 1 /\ m.on # "Class" ] }
              /\ held' = {}
      BY <3>2
    <3>4. Right(m)
      BY MethodsRight
    <3>5. /\ Params(m)[n].check = "CHECK_TYPE" => FalseClass(os[n])
          /\ (n = 1 /\ m.on # "Class") \/ RubyIs(os[n].class, reflects(Params(m)[n].cast)) =>
                 FalseClass(os[n]) \/ Params(m)[n].cast \in Unmatched
      BY <3>3, <3>4, Confused DEF Inv
    <3>6. PICK p, o : /\ p = Params(m)[n] /\ o = os[n]
      OBVIOUS
    <3>7. ASSUME NEW a \in accident'
          PROVE  a.param = p /\ a.object = o /\ a.receiver = (n = 1 /\ m.on # "Class")
      BY <3>3, <3>6, <3>7
    <3>8. ChecksProtect'
      BY <3>5, <3>6, <3>7 DEF ChecksProtect
    <3>9. ClassesSuffice'
      BY <3>5, <3>6, <3>7 DEF ClassesSuffice, Unmatched
    <3> QED  BY <3>3, <3>8, <3>9 DEF Inv, HeldRight
  <2>3. CASE forgets
    BY <2>3 DEF forgets, Inv, HeldRight, ChecksProtect, ClassesSuffice
  <2>4. CASE UNCHANGED vars
    BY <2>4 DEF vars, Inv, HeldRight, ChecksProtect, ClassesSuffice
  <2> QED  BY <2>1, <2>2, <2>3, <2>4 DEF Next
<1> QED  BY <1>1, <1>2, PTL DEF Spec

\* However a client came by an object, from the builder, out of a block's list
\* or by a cast, its class is one Init_llvmruby defines and tells the C++ class
\* of its pointer, but for folded constants, absent functions and modules, and
\* objects of a bare `new`.
THEOREM ClassesTell == Spec => []ClassesHonest
<1>1. Inv => ClassesHonest
  BY DEF Inv, HeldRight, ObjectRight, Instantiated, ClassesHonest
<1> QED  BY <1>1, InvInductive, PTL

\* A pointer that CHECK_TYPE let through is cast to what it is, or its object
\* is one of those of a false class.
THEOREM ChecksAreRight == Spec => []ChecksProtect
<1>1. Inv => ChecksProtect
  BY DEF Inv
<1> QED  BY <1>1, InvInductive, PTL

\* Receivers that method lookup finds, and arguments of the classes that
\* reflect the casts, are cast to what they are, with the exceptions
\* ClassesSuffice names.
THEOREM ClassesAreEnough == Spec => []ClassesSuffice
<1>1. Inv => ClassesSuffice
  BY DEF Inv
<1> QED  BY <1>1, InvInductive, PTL
=============================================================================
