---------------------------- MODULE MCRubyVMTests ----------------------------
(***************************************************************************)
(* RubyVM on the programs of test/test_ruby_vm.rb, each with more          *)
(* arguments than the test tries: 6-bit words, a stack of eight slots.     *)
(***************************************************************************)
EXTENDS RubyVM

I(op)    == [op |-> op, arg |-> 0]
J(op, a) == [op |-> op, arg |-> a]

\* putobject n.immediate
P(n) == [op |-> "putobject", arg |-> Fixnum(n)]

MCRefs  == {8, 16, 24}
MCIvars == {0}

simple_loop == << P(1), I("opt_plus"), I("dup"), P(10), I("opt_lt"), J("branchif", 0) >>

array_loop ==
    << I("dup"), J("setlocal", 0), I("opt_length"), P(1), I("opt_minus"),
       I("dup"), J("getlocal", 0), I("swap"), I("opt_aref"),
       P(2), I("opt_mult"), J("setlocal", 1),
       I("dup"), J("getlocal", 0), I("swap"), J("getlocal", 1), I("opt_aset"), I("pop"),
       I("dup"), P(0), I("opt_gt"), J("branchif", 3), J("getlocal", 0) >>

opt_aset_test == << I("newarray"), I("dup"), P(0), P(5), I("opt_aset"), I("pop") >>
newhash_test  == << P(1), P(2), P(3), P(4), P(1), P(5), J("newhash", 6) >>
ivar_test     == << P(7), I("setinstancevariable"), I("pop"), I("getinstancevariable") >>
putself_test  == << P(5), I("putself") >>
send_test     == << I("send") >>
length_test   == << I("opt_length") >>
compare(op)   == << P(0), I("opt_plus"), P(1), I(op) >>

\* A jump forward, over an instruction.
forward_jump == << I("setinstancevariable"), J("jump", 3), I("nop"), I("putself") >>

\* A loop that leaves one value behind each time round.
leaky_loop == << P(7), I("setinstancevariable"), J("jump", 0) >>

\* The branches here all go to a position of the same depth, so one pass over
\* the code certifies it.
Depth(c) == LET d[i \in 0 .. Len(c)] ==
                    IF i = 0 THEN 1 ELSE d[i - 1] - pops(c[i]) + pushes(c[i])
            IN  d

Assigned(c) == [ i \in 0 .. Len(c) |-> { c[j].arg : j \in { k \in 1 .. i : c[k].op = "setlocal" } } ]

Test(c) == [code |-> c, depth |-> Depth(c), assigned |-> Assigned(c)]

MCPrograms ==
    { Test(c) : c \in { simple_loop, array_loop, opt_aset_test, newhash_test, ivar_test,
                        putself_test, send_test, length_test, forward_jump, leaky_loop }
                      \cup { compare(op) : op \in {"opt_lt", "opt_gt", "opt_ge"} } }

Elements == { Fixnum(n) : n \in {-3, 0, 5} }
Arrays   == UNION { [1 .. n -> Elements] : n \in 0 .. 3 }

MCCalls ==
    { [self |-> 8, farg |-> Fixnum(n), ivars |-> [x \in MCIvars |-> Qnil],
       heap |-> [r \in MCRefs |-> IF r = 8 THEN String ELSE Free]] : n \in FixRange }
    \cup { [self |-> 8, farg |-> 16, ivars |-> [x \in MCIvars |-> Qnil],
            heap |-> [r \in MCRefs |-> IF r = 8 THEN String ELSE IF r = 16 THEN Array(s) ELSE Free]]
             : s \in Arrays }

-----------------------------------------------------------------------------
Runs(c) == status = "entry" /\ code = c
Returns(w) == status = "returned" /\ result = w

\* test_simple_loop counts up to 10 from any smaller natural number; from 10
\* on it adds 1 and stops.
SimpleLoopCounts ==
    \A n \in 0 .. FixLimit - 2 :
        Runs(simple_loop) /\ farg = Fixnum(n)
            ~> Returns(Fixnum(IF n < 10 THEN 10 ELSE n + 1))

\* test_array_loop doubles every element of any array but the empty one, in
\* place, and returns the array.
ArrayLoopDoubles ==
    \A s \in Arrays \ {<<>>} :
        Runs(array_loop) /\ farg = 16 /\ elems(16) = s
            ~> Returns(16) /\ heap[16] = Array([ i \in DOMAIN s |-> Fixnum(2 * Denotes(s[i]).n) ])

\* A loop through setinstancevariable, which leaves its operand on the stack,
\* climbs out of the stack of any program that does not return first.
LeakyLoopOverruns == Runs(leaky_loop) ~> status = "overrun"

\* The comparisons of two Fixnums order them as integers, as the signed
\* predicates opt_lt, opt_gt and opt_ge choose say.
ComparisonsOrderIntegers ==
    status = "returned" /\ isFixnum(farg) =>
        /\ code = compare("opt_lt") => result = boolWord(Denotes(farg).n < 1)
        /\ code = compare("opt_gt") => result = boolWord(Denotes(farg).n > 1)
        /\ code = compare("opt_ge") => result = boolWord(Denotes(farg).n >= 1)
=============================================================================
