--------------------------- MODULE MCForConstants ---------------------------
(* Instances of ForConstants for TLC: the expressions and scopes tried. *)
EXTENDS ForConstants, FiniteSetsExt

Globals == {Sym(n) : n \in Global}
Operands == {Lit(1)} \cup Globals
Atoms == {Lit(1), Lit(-1), Sym("+"), Sym("-"), Opaque(Num(1)), Opaque(Other),
          BreakHere} \cup Globals
Sums == {App(op, l, r) : op \in {"+", "-", "x"}, l \in Operands, r \in Operands}
Conditions == {Truth(TRUE), Truth(FALSE), App("<", Sym("x"), Lit(1)),
               If(Truth(TRUE), Truth(FALSE), Truth(TRUE))}
Branches == {If(c, Sym("x"), n) : c \in Conditions, n \in {Lit(-1), BreakHere}}
\* Lets of the name of a global.
Lets == {Let("x", i, b) : i \in Operands,
                          b \in {Sym("x"), App("+", Sym("x"), Lit(1))}}
\* Lets of the name of an operator.
OperatorLets == {Let("+", i, App("+", Sym("x"), Lit(1))) : i \in {Lit(1), Sym("-")}}

AllInits == Atoms \cup Sums \cup Branches \cup Lets \cup OperatorLets

\* The bounds of a `for`.
AllLimits == {Lit(1), Sym("x"), Opaque(Num(1))} \cup Sums
                \cup {App("-", App("+", Sym("x"), Lit(1)), Lit(1))}

Binders == {[by |-> "for", name |-> "x", int |-> 0],
            [by |-> "for", name |-> "x", int |-> 1],
            [by |-> "let", name |-> "x", int |-> -1]}
OperatorBinders == {[by |-> "for", name |-> "+", int |-> 0]}
AllScopes == {<<>>} \cup {<<b>> : b \in Binders \cup OperatorBinders}
                  \cup {<<b, c>> : b, c \in Binders}

\* Every expression tried and its parts, ranked by their depth.
Closed(S) == S \cup UNION {Parts(e) : e \in S}
AllExprs == Closed(Closed(AllInits \cup AllLimits))

RECURSIVE Depth(_)
Depth(e) == 1 + Max({0} \cup {Depth(p) : p \in Parts(e)})
Depths == [e \in AllExprs |-> Depth(e)]
=============================================================================
