---------------------------- MODULE SexprMeaning ----------------------------
(***************************************************************************)
(* What the s-expressions of SexprCompiler mean, and which of them are     *)
(* well typed.                                                             *)
(*                                                                         *)
(* Both are evaluations by recursion on the s-expression, given here by    *)
(* the equations they satisfy.  An evaluation takes an s-expression and    *)
(* the state before it to [v, st]: its value, and the state after it.      *)
(***************************************************************************)
EXTENDS SexprCompiler, FiniteSets

CONSTANTS Meaning(_, _),     \* evaluation to values
          MeaningAll(_, _),  \* the results of s-expressions one after the other
          Evaluations,       \* the <<s-expression, state>> it comes to
          Class(_, _),       \* evaluation to classes
          ClassAll(_, _)

\* In a list of results, the state before the k-th; and after the last.
Before(rs, st, k) == IF k = 1 THEN st ELSE rs[k - 1].st
After(rs, st)     == Before(rs, st, Len(rs) + 1)

ValuesOf(rs) == [ k \in 1 .. Len(rs) |-> rs[k].v ]

\* The s-expressions of which e is made, in the order they are evaluated.
Children(e) ==
    CASE e.type = "lasgn" -> <<e.val>>
      [] e.type = "call"  -> <<e.recv>> \o e.args
      [] e.type = "block" -> e.body
      [] OTHER            -> <<>>

-----------------------------------------------------------------------------
(* Values.  A state is the variables and the output; Unset is the value of *)
(* a list, of a variable before it is assigned, and of what has no value.  *)

\* The number of characters of n in decimal.
Digits(n) ==
    LET m == IF n < 0 THEN -n ELSE n
    IN  Cardinality({ k \in 1 .. m : 10 ^ k <= m }) + IF n < 0 THEN 2 ELSE 1

Denotations == Ints \cup [type : {"ptr"}, text : Texts, len : Int]
States      == [env : [Names -> Denotations \cup {Unset}], out : Seq(Texts)]
Results     == [v : Denotations \cup {Unset}, st : States]
Start       == [env |-> [x \in Names |-> Unset], out |-> <<>>]

Assigned(st, x, v) == [env |-> [st.env EXCEPT ![x] = v], out |-> st.out]

Are(vs, type) == \A k \in 1 .. Len(vs) : vs[k] # Unset /\ vs[k].type = type

Applies(m, vs) ==
    \/ m \in {"plus", "minus"} /\ Len(vs) = 2 /\ Are(vs, "int")
    \/ m = "to_s" /\ Len(vs) = 1 /\ Are(vs, "int")
    \/ m \in {"length", "puts"} /\ Len(vs) = 1 /\ Are(vs, "ptr")

Apply(m, vs, st) ==
    CASE m = "plus"   -> [v |-> int(wrap(vs[1].n + vs[2].n)), st |-> st]
      [] m = "minus"  -> [v |-> int(wrap(vs[1].n - vs[2].n)), st |-> st]
      [] m = "to_s"   -> [v |-> ptr([dec |-> vs[1].n], Digits(vs[1].n)), st |-> st]
      [] m = "length" -> [v |-> int(vs[1].len), st |-> st]
      [] m = "puts"   -> [v |-> int(0), st |-> [env |-> st.env, out |-> Append(st.out, vs[1].text)]]

\* What e gives, from the results of its children.
Result(e, st, rs) ==
    CASE e.type = "lit"   -> [v |-> int(e.n), st |-> st]
      [] e.type = "str"   -> [v |-> ptr([lit |-> e.text], StrLen[e.text]), st |-> st]
      [] e.type = "lvar"  -> [v |-> st.env[e.name], st |-> st]
      [] e.type = "lasgn" -> [v |-> rs[1].v, st |-> Assigned(rs[1].st, e.name, rs[1].v)]
      [] e.type = "block" -> [v |-> Unset, st |-> After(rs, st)]
      [] e.type = "call"  -> IF Applies(e.method, ValuesOf(rs))
                             THEN Apply(e.method, ValuesOf(rs), After(rs, st))
                             ELSE [v |-> Unset, st |-> After(rs, st)]

\* Children are evaluated in order, each in the state the one before it left.
MeantInTurn(es, st, E) ==
    LET rs == MeaningAll(es, st)
    IN  /\ rs \in Seq(Results) /\ Len(rs) = Len(es)
        /\ \A k \in 1 .. Len(es) : /\ <<es[k], Before(rs, st, k)>> \in E
                                   /\ rs[k] = Meaning(es[k], Before(rs, st, k))

AreMeant(E) ==
    \A z \in E : /\ Meaning(z[1], z[2]) \in Results
                 /\ MeantInTurn(Children(z[1]), z[2], E)
                 /\ Meaning(z[1], z[2]) = Result(z[1], z[2], MeaningAll(Children(z[1]), z[2]))

ASSUME MeaningAssumption ==
    /\ { <<p, Start>> : p \in Programs } \subseteq Evaluations
    /\ Evaluations \subseteq Sexprs \X States
    /\ AreMeant(Evaluations)

-----------------------------------------------------------------------------
(* Classes.  A state is the class each variable has been given; "Error" is *)
(* the class of one that has none, and of an operation that does not take  *)
(* its operands.                                                           *)

Kinds    == {"Num", "String", "Nil", "Array", "Error"}
Typings  == [Names -> {"Num", "String", "Error"}]
Untyped  == [x \in Names |-> "Error"]

Accepts(m, cs) ==
    \/ m \in {"plus", "minus"} /\ cs \in { <<"Num", "Num">>, <<"Num", "Nil">> }
    \/ m = "to_s" /\ cs = <<"Num">>
    \/ m \in {"length", "puts"} /\ cs = <<"String">>

ResultClass == [plus |-> "Num", minus |-> "Num", to_s |-> "String", length |-> "Num", puts |-> "Nil"]

\* The class of e, from those of its children.  A variable is assigned
\* numbers only, or strings only.
Classified(e, env, rs) ==
    CASE e.type = "lit"   -> [v |-> "Num", st |-> env]
      [] e.type = "str"   -> [v |-> "String", st |-> env]
      [] e.type = "lvar"  -> [v |-> env[e.name], st |-> env]
      [] e.type = "lasgn" -> IF rs[1].v \in Classes /\ rs[1].st[e.name] \in {"Error", rs[1].v}
                             THEN [v |-> rs[1].v, st |-> [rs[1].st EXCEPT ![e.name] = rs[1].v]]
                             ELSE [v |-> "Error", st |-> rs[1].st]
      [] e.type = "block" -> [v  |-> IF \E k \in 1 .. Len(rs) : rs[k].v = "Error"
                                     THEN "Error" ELSE "Array",
                              st |-> After(rs, env)]
      [] e.type = "call"  -> [v  |-> IF Accepts(e.method, ValuesOf(rs))
                                     THEN ResultClass[e.method] ELSE "Error",
                              st |-> After(rs, env)]

ClassedInTurn(es, env) ==
    LET rs == ClassAll(es, env)
    IN  /\ rs \in Seq([v : Kinds, st : Typings]) /\ Len(rs) = Len(es)
        /\ \A k \in 1 .. Len(es) : rs[k] = Class(es[k], Before(rs, env, k))

ASSUME ClassAssumption ==
    \A e \in Sexprs : \A env \in Typings :
        /\ Class(e, env) \in [v : Kinds, st : Typings]
        /\ ClassedInTurn(Children(e), env)
        /\ Class(e, env) = Classified(e, env, ClassAll(Children(e), env))

WellTyped(e) == Class(e, Untyped).v # "Error"

-----------------------------------------------------------------------------
(* Properties.                                                             *)

\* The compiled program prints what the s-expression means, receivers before
\* arguments and assignments where they stand, unless it has read the length
\* to_s leaves out.
OutputMatches ==
    status = "finished" /\ ~garbage => out = Meaning(program, Start).st.out

\* A program whose classes agree is compiled and linked: the compiler, which
\* checks nothing, gets stuck on none of them.
WellTypedCompiles ==
    status \in {"raised", "crashed", "malformed", "unlinked"} => ~WellTyped(program)
=============================================================================
