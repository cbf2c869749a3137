-------------------------- MODULE MCSexprCompiler --------------------------
(***************************************************************************)
(* SexprCompiler on the programs of lib/rcompiler.rb, on every call of     *)
(* nested depth two, and on every sequence of a few statements; and the    *)
(* evaluations of SexprMeaning, by recursion on the s-expression.          *)
(***************************************************************************)
EXTENDS SexprMeaning

Lit(n)            == [type |-> "lit", n |-> n]
Str(s)            == [type |-> "str", text |-> s]
Lvar(x)           == [type |-> "lvar", name |-> x]
Lasgn(x, e)       == [type |-> "lasgn", name |-> x, val |-> e]
Call(e, m, es)    == [type |-> "call", recv |-> e, method |-> m, args |-> es]
Block(es)         == [type |-> "block", body |-> es]

MCNames  == {"x", "y"}
MCStrLen == [t \in {"khan", "ab"} |-> IF t = "khan" THEN 4 ELSE 2]

\* "size" is no method of any class.
MethodNames == {"plus", "minus", "to_s", "length", "puts", "size"}

Atoms == { Lit(3), Str("khan"), Lvar("x"), Block(<<>>) }

CallsOf(es, more) ==
    { Call(e, m, as) : e \in es, m \in MethodNames, as \in {<<>>} \cup { <<f>> : f \in more } }

Nested == CallsOf(CallsOf(Atoms, {Lit(2)}) \cup Atoms, {Lit(-1), Str("ab"), Lvar("x")})

Puts(e) == Call(Call(e, "to_s", <<>>), "puts", <<>>)

Statements ==
    { Lasgn("x", Lit(1)), Lasgn("x", Str("ab")), Lasgn("y", Lvar("x")),
      Lasgn("x", Call(Lvar("x"), "plus", <<Lvar("y")>>)),
      Lasgn("x", Call(Lit(2), "minus", <<Lasgn("y", Lit(3))>>)),
      Lasgn("y", Call(Str("khan"), "puts", <<>>)),
      Lasgn("y", Call(Str("khan"), "length", <<>>)),
      Puts(Lvar("x")), Call(Lvar("x"), "puts", <<>>), Puts(Lvar("y")) }

\* The s-expressions in the file, the commented ones included.
File ==
    { Call(Call(Call(Str("khan"), "length", <<>>), "to_s", <<>>), "puts", <<>>),
      Puts(Call(Lit(2), "plus", <<Lit(3)>>)),
      Block(<<Lasgn("x", Lit(2)), Lasgn("y", Lit(3)),
              Lasgn("x", Call(Lvar("x"), "plus", <<Lvar("y")>>)), Puts(Lvar("x"))>>) }

MCPrograms ==
    File \cup Nested
         \cup { Block(<<Lasgn("x", Lit(1)), e>>) : e \in Nested }
         \cup { Block(<<s, t, u, v>>) : s, t, u, v \in Statements }

\* S itself: TLC sorts a set it compares, and then finds its members quickly.
Sorted(S) == IF S = {} THEN {} ELSE S

\* With what they are made of; no program is nested deeper.
Deeper(es) == { e : e \in es \cup UNION { { Children(e)[k] : k \in DOMAIN Children(e) } : e \in es } }
MCSexprs   == Sorted(MCPrograms \cup Deeper(Deeper(Deeper(File \cup Nested \cup Statements))))

-----------------------------------------------------------------------------
(* The evaluations, by recursion.                                          *)

RECURSIVE EvalAll(_, _)
Eval(e, st) == Result(e, st, EvalAll(Children(e), st))
EvalAll(es, st) ==
    IF es = <<>> THEN <<>>
    ELSE LET r == Eval(Head(es), st) IN <<r>> \o EvalAll(Tail(es), r.st)

\* What evaluating Z comes to: children, each in the state it is evaluated in.
Visited(Z) ==
    LET Turn(z, k) == <<Children(z[1])[k], Before(EvalAll(Children(z[1]), z[2]), z[2], k)>>
    IN  Sorted({ Turn(z, IF k <= Len(Children(z[1])) THEN k ELSE 1) :
                     z \in { z \in Z : Children(z[1]) # <<>> }, k \in 1 .. 4 })

\* No program is nested deeper than five, and no node has more than four children.
MCEvaluations ==
    LET one   == Sorted({ <<p, Start>> : p \in MCPrograms })
        two   == Visited(one)
        three == Visited(two)
        four  == Visited(three)
        five  == Visited(four)
    IN  Sorted(one \cup (two \cup (three \cup (four \cup five))))

RECURSIVE ClassifyAll(_, _)
Classify(e, env) == Classified(e, env, ClassifyAll(Children(e), env))
ClassifyAll(es, env) ==
    IF es = <<>> THEN <<>>
    ELSE LET r == Classify(Head(es), env) IN <<r>> \o ClassifyAll(Tail(es), r.st)
=============================================================================
