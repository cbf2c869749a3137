------------------------- MODULE MCBytecodeCompiler -------------------------
(***************************************************************************)
(* BytecodeCompiler on every bytecode of up to MaxLength opcodes, one or   *)
(* two for each way the compiler treats an opcode, and on sequences of     *)
(* compilations that fail, succeed and restart.                            *)
(***************************************************************************)
EXTENDS BytecodeCompiler

CONSTANT MaxLength

\* Branches back, to the opcode itself, forward, to the exit block by its
\* negative index, and out of range on both sides.
Opcodes ==
    { [op |-> "nop", arg |-> NoArg], [op |-> "putnil", arg |-> NoArg],
      [op |-> "newhash", arg |-> 2], [op |-> "newhash", arg |-> NoArg],
      [op |-> "jump", arg |-> 0], [op |-> "jump", arg |-> -1], [op |-> "jump", arg |-> NoArg],
      [op |-> "branchif", arg |-> 1], [op |-> "branchif", arg |-> 3],
      [op |-> "branchunless", arg |-> 0], [op |-> "branchunless", arg |-> -4],
      [op |-> "unknown", arg |-> NoArg] }

MCBytecodes == UNION { [1 .. n -> Opcodes] : n \in 0 .. MaxLength }
=============================================================================
