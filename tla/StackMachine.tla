---------------------------- MODULE StackMachine ----------------------------
(***************************************************************************)
(* What RubyVM promises: the bytecode executed by a stack machine over     *)
(* Ruby values.  The operands are a sequence, integers are integers, an    *)
(* instruction is one step.                                                *)
(*                                                                         *)
(* The promise has limits, and they are explicit.  An arithmetic result    *)
(* that is no Fixnum, an operation on something that is no Fixnum, a       *)
(* comparison of a negative integer, a branch on nil and a newhash of an   *)
(* odd count have results this machine leaves open (the operators          *)
(* *Results).  An instruction that lacks operands, room, a local slot or   *)
(* an array element to work on ends the run as "undefined".                *)
(***************************************************************************)
EXTENDS Certificate

CONSTANTS Calls, Refs, MaxArrayLen

VARIABLES program, self, farg,
          pc,
          operands,     \* the operand stack, last element on top
          localvars,    \* local variables; absent until assigned
          objects, ivars,
          status, result

vars == <<program, self, farg, pc, operands, localvars, objects, ivars, status, result>>

Absent == [t |-> "absent", n |-> 0]
Nil    == Obj(Qnil)
False  == Obj(Qfalse)
True   == Obj(Qtrue)

-----------------------------------------------------------------------------
(* Results.                                                                *)

AreFix(a, b)  == a.t = "fix" /\ b.t = "fix"
Truth(c)      == IF c THEN True ELSE False

IntResults(a, b, n) == IF AreFix(a, b) /\ n \in FixRange THEN {Fix(n)} ELSE RubyFixnums

CompareResults(a, b, c) ==
    IF AreFix(a, b) /\ a.n >= 0 /\ b.n >= 0 THEN {Truth(c)} ELSE {True, False}

BranchResults(v) == IF v = False THEN {FALSE} ELSE IF v = Nil THEN BOOLEAN ELSE {TRUE}

\* n operands, the lowest first, make n/2 pairs; a later key wins.
Pairs(vs) ==
    [ k \in { vs[i] : i \in { j \in DOMAIN vs : j % 2 = 1 } } |->
        LET last == CHOOSE i \in DOMAIN vs : /\ i % 2 = 1 /\ vs[i] = k
                                             /\ \A j \in DOMAIN vs :
                                                   j % 2 = 1 /\ vs[j] = k => j <= i
        IN  vs[last + 1] ]

-----------------------------------------------------------------------------
top(n) == operands[Len(operands) - n + 1]
rest(n) == SubSeq(operands, 1, Len(operands) - n)
last(n) == SubSeq(operands, Len(operands) - n + 1, Len(operands))

ins == program.code[pc + 1]

Fetched(op) == status = "running" /\ pc < Len(program.code) /\ ins.op = op

CanTake == /\ Len(operands) >= reads(ins)
           /\ Len(operands) - pops(ins) + pushes(ins) <= StackSize

Executing(op) == Fetched(op) /\ CanTake

still == UNCHANGED <<program, self, farg, status, result>>

\* Replace the n top operands by vs and go on.
Yields(n, vs) == operands' = rest(n) \o vs /\ pc' = pc + 1 /\ still

pure == UNCHANGED <<localvars, objects, ivars>>

enter ==
    /\ status = "entry"
    /\ operands' = <<Denotes(farg)>>
    /\ status' = "running"
    /\ pure /\ UNCHANGED <<program, self, farg, pc, result>>

nop       == Executing("nop") /\ Yields(0, <<>>) /\ pure
putnil    == Executing("putnil") /\ Yields(0, <<Nil>>) /\ pure
putself   == Executing("putself") /\ Yields(0, <<Denotes(self)>>) /\ pure
putobject == Executing("putobject") /\ Yields(0, <<Denotes(ins.arg)>>) /\ pure
pop       == Executing("pop") /\ Yields(1, <<>>) /\ pure
dup       == Executing("dup") /\ Yields(0, <<top(1)>>) /\ pure
swap      == Executing("swap") /\ Yields(2, <<top(1), top(2)>>) /\ pure

setlocal ==
    /\ Executing("setlocal") /\ ins.arg \in DOMAIN localvars
    /\ localvars' = [localvars EXCEPT ![ins.arg] = top(1)]
    /\ Yields(1, <<>>) /\ UNCHANGED <<objects, ivars>>

\* Reading a local that was never assigned settles on some value for it.
getlocal ==
    /\ Executing("getlocal") /\ ins.arg \in DOMAIN localvars
    /\ \E v \in IF localvars[ins.arg] = Absent THEN RubyValues ELSE {localvars[ins.arg]} :
           /\ localvars' = [localvars EXCEPT ![ins.arg] = v]
           /\ Yields(0, <<v>>)
    /\ UNCHANGED <<objects, ivars>>

arithmetic(op, results) ==
    Executing(op) /\ pure /\ \E v \in results : Yields(2, <<v>>)

opt_plus  == arithmetic("opt_plus", IntResults(top(2), top(1), top(2).n + top(1).n))
opt_minus == arithmetic("opt_minus", IntResults(top(2), top(1), top(2).n - top(1).n))
opt_mult  == arithmetic("opt_mult", IntResults(top(2), top(1), top(2).n * top(1).n))
opt_lt    == arithmetic("opt_lt", CompareResults(top(2), top(1), top(2).n < top(1).n))
opt_gt    == arithmetic("opt_gt", CompareResults(top(2), top(1), top(2).n > top(1).n))
opt_ge    == arithmetic("opt_ge", CompareResults(top(2), top(1), top(2).n >= top(1).n))

-----------------------------------------------------------------------------
IsArray(v) == v.t = "obj" /\ v.n \in Refs /\ objects[v.n].kind = "array"
Elems(v)   == objects[v.n].elems

\* An index that is a natural number; the machine has no others.
IsIndex(v, n) == v.t = "fix" /\ v.n = n

opt_aref ==
    /\ Executing("opt_aref") /\ IsArray(top(2))
    /\ \/ \E i \in 0 .. Len(Elems(top(2))) - 1 :
              IsIndex(top(1), i) /\ Yields(2, <<Elems(top(2))[i + 1]>>)
       \/ top(1).t # "fix" /\ \E i \in DOMAIN Elems(top(2)) : Yields(2, <<Elems(top(2))[i]>>)
    /\ pure

\* The elements of s with v at index i, nil filling the gap.
Stored(s, i, v) ==
    LET n == IF i < Len(s) THEN Len(s) ELSE i + 1
    IN  [ j \in 1 .. n |-> IF j = i + 1 THEN v ELSE IF j <= Len(s) THEN s[j] ELSE Nil ]

opt_aset ==
    /\ Executing("opt_aset") /\ IsArray(top(3))
    /\ \E i \in 0 .. MaxArrayLen - 1 :
           /\ IsIndex(top(2), i) \/ top(2).t # "fix"
           /\ objects' = [objects EXCEPT ![top(3).n].elems = Stored(@, i, top(1))]
    /\ Yields(3, <<top(1)>>) /\ UNCHANGED <<localvars, ivars>>

opt_length ==
    /\ Executing("opt_length") /\ IsArray(top(1))
    /\ Yields(1, <<Fix(Len(Elems(top(1))))>>) /\ pure

getinstancevariable ==
    Executing("getinstancevariable") /\ Yields(0, <<ivars[ins.arg]>>) /\ pure

setinstancevariable ==
    /\ Executing("setinstancevariable")
    /\ ivars' = [ivars EXCEPT ![ins.arg] = top(1)]
    /\ Yields(0, <<>>) /\ UNCHANGED <<localvars, objects>>

\* A new object is one nobody refers to.
Allocates(obj, r) ==
    objects[r].kind = "free" /\ objects' = [objects EXCEPT ![r] = obj]

Makes(op, obj) ==
    /\ Executing(op)
    /\ \E r \in Refs : Allocates(obj, r) /\ Yields(0, <<Obj(r)>>)
    /\ UNCHANGED <<localvars, ivars>>

newarray == Makes("newarray", [kind |-> "array", elems |-> <<>>])
send     == Makes("send", [kind |-> "string", elems |-> <<>>])

newhash ==
    LET vs(v) == IF ins.arg <= 0 THEN <<>>
                 ELSE IF ins.arg % 2 = 0 THEN last(ins.arg) ELSE Append(last(ins.arg), v)
    IN  \E v \in RubyValues : Makes("newhash", [kind |-> "hash", elems |-> Pairs(vs(v))])

-----------------------------------------------------------------------------
goto(i) == pc' = i /\ still /\ pure

jump == Executing("jump") /\ goto(target(program.code, ins.arg)) /\ UNCHANGED operands

branch(op, takenIf) ==
    /\ Executing(op)
    /\ operands' = rest(1)
    /\ \E c \in BranchResults(top(1)) :
           goto(IF c = takenIf THEN target(program.code, ins.arg) ELSE pc + 1)

branchif     == branch("branchif", TRUE)
branchunless == branch("branchunless", FALSE)

return ==
    /\ status = "running" /\ pc = Len(program.code) /\ Len(operands) > 0
    /\ result' = top(1) /\ operands' = rest(1) /\ status' = "returned"
    /\ pure /\ UNCHANGED <<program, self, farg, pc>>

Halt(s) == status' = s /\ pure /\ UNCHANGED <<program, self, farg, pc, operands, result>>

\* An exception leaves the machine: no memory, or an index past every array.
raise ==
    /\ \/ Executing("newarray") \/ Executing("send") \/ Fetched("newhash")
       \/ /\ Executing("opt_aset") /\ IsArray(top(3))
          /\ ~\E i \in 0 .. MaxArrayLen - 1 : IsIndex(top(2), i)
    /\ Halt("raised")

Local(v) == v \in DOMAIN localvars

undefined ==
    /\ status = "running"
    /\ \/ pc = Len(program.code) /\ operands = <<>>
       \/ /\ pc < Len(program.code)
          /\ \/ ~CanTake
             \/ ins.op \in {"setlocal", "getlocal"} /\ ~Local(ins.arg)
             \/ ins.op = "opt_length" /\ ~IsArray(top(1))
             \/ ins.op = "opt_aset" /\ ~IsArray(top(3))
             \/ /\ ins.op = "opt_aref"
                /\ ~(/\ IsArray(top(2))
                     /\ \E i \in 0 .. Len(Elems(top(2))) - 1 : IsIndex(top(1), i))
    /\ Halt("undefined")

-----------------------------------------------------------------------------
Init ==
    /\ IsProgram(program)
    /\ \E c \in Calls : /\ self = c.self /\ farg = c.farg
                        /\ objects = [ r \in Refs |-> View(c.heap[r]) ]
                        /\ ivars = [ x \in DOMAIN c.ivars |-> Denotes(c.ivars[x]) ]
    /\ operands = <<>>
    /\ localvars = [ s \in 0 .. LocalsSize - 1 |-> Absent ]
    /\ pc = 0 /\ status = "entry" /\ result = Nil

Next ==
    \/ enter \/ nop \/ putnil \/ putself \/ putobject \/ pop \/ dup \/ swap
    \/ setlocal \/ getlocal
    \/ opt_plus \/ opt_minus \/ opt_mult \/ opt_lt \/ opt_gt \/ opt_ge
    \/ opt_aref \/ opt_aset \/ opt_length \/ getinstancevariable \/ setinstancevariable
    \/ newarray \/ send \/ newhash
    \/ jump \/ branchif \/ branchunless \/ return \/ raise \/ undefined

Spec == Init /\ [][Next]_vars
=============================================================================
