----------------------------- MODULE MCSemantics -----------------------------
(* Instances of Semantics for TLC: the forms and sessions tried. *)
EXTENDS Semantics

Names == {"+", "<", "list", "print", "f", "d", "x"}
Words == -3..3

C(n) == Const(Num(n))
X == Name("x")
Y == Name("y")
Show(e) == CallOf(<<Name("print"), e>>)
Add(a, b) == CallOf(<<Name("+"), a, b>>)
Less(a, b) == CallOf(<<Name("<"), a, b>>)
Leave(e) == BreakWith(<<e>>)
Thunk(e) == Fn(<<>>, e)

-----------------------------------------------------------------------------
(* Loops in loops, with shadowing lets, closures and breaks anywhere. *)

Steps == {X, Show(X), BreakWith(<<>>), Leave(Y), Leave(Leave(X)),
          Leave(Show(Y)), DoAll(<<Show(X), Leave(Y), Show(Y)>>)}
Lets == {Let(<<"x", "y">>, <<Y, b>>, DoAll(<<Show(X), c>>)) :
            b \in {X, Add(X, Y)}, c \in {Y, Leave(Y)}}
         \cup {Let(<<"x", "y">>, <<Leave(X), Show(X)>>, Leave(Y))}
Branches == {IfElse(Less(X, C(1)), a, b) : a \in {Show(Y), Leave(Y)}, b \in {Y, Leave(X)}}
Calls == {CallOf(<<Fn(<<"y">>, Show(Add(X, Y))), a>>) : a \in {X, Leave(Y)}}
            \cup {CallOf(<<Fn(<<"y">>, CallOf(<<Thunk(Add(X, Y))>>)), X>>),
                  Let(<<"f">>, <<Thunk(X)>>, Let(<<"x">>, <<Y>>, Show(CallOf(<<Name("f")>>)))),
                  CallOf(<<Fn(<<"x">>, RangeLoop("y", <<C(0), C(2), C(1)>>, Leave(Y))), X>>)}
\* Symbols with a prefix, which is a number, a symbol of the source, or one of e.
Prefixed == {Show(FreshLike(<<IfElse(Less(X, C(0)), X,
                                     IfElse(Less(X, C(1)), Quoted(Interned), e))>>)) :
                e \in {Leave(Y), Fresh}}
Bodies == Steps \cup Lets \cup Branches \cup Calls \cup Prefixed

\* Upwards, downwards, with an overflow at the end.
Bounds == {<<C(0), C(2), C(1)>>, <<X, C(-2), C(-1)>>, <<C(2), C(3), C(2)>>}
\* No iteration: a step of zero, a break in a bound, a bound that is no number.
Unbounded == {<<C(0), C(2), C(0)>>, <<Y, Leave(X), C(1)>>, <<Y, Show(X), C(1)>>}
Ranges(bodies) == {RangeLoop(n, b, e) : n \in {"x", "y"}, b \in Bounds, e \in bodies}
                     \cup {RangeLoop(n, b, e) : n \in {"x", "y"}, b \in Unbounded, e \in Steps}
States(bodies) == {StateLoop(<<"x", "y">>, <<Y, X>>, c, n, e) :
                      c \in {Less(X, C(2)), Const(Bool(TRUE))},
                      n \in {<<Add(X, C(1)), X>>, <<Y, X>>, <<Y, Leave(X)>>},
                      e \in bodies}
                     \cup {StateLoop(<<"x", "y">>, <<Y, X>>, c, <<Y, X>>, e) :
                              c \in {Leave(Y), X}, e \in Steps}
Loops(bodies) == Ranges(bodies) \cup States(bodies)

Outer(bodies) ==
    {RangeLoop("x", <<C(0), C(2), C(1)>>, DoAll(<<e, Show(X)>>)) : e \in bodies}
    \cup {StateLoop(<<"x", "y">>, <<C(0), C(1)>>, Less(X, C(2)), <<Add(X, C(1)), X>>,
                    DoAll(<<Show(e), Show(Y)>>)) : e \in bodies}

LoopSessions ==
    {LowerSession(<<Form(NoTarget, Let(<<"x", "y">>, <<C(0), C(1)>>, e))>>) :
        e \in {b \in Bodies \cup Loops(Bodies) \cup Outer(Loops(Bodies)) : Lowers(b, FALSE)}}

-----------------------------------------------------------------------------
(* Sessions of several forms: definitions, failures, data, recursion. *)

CountDown == Fn(<<"x">>, IfElse(Less(X, C(1)), Show(X),
                                CallOf(<<Name("f"), Add(X, C(-1))>>)))
\* Each function keeps the x of its iteration.
Keeping == StateLoop(<<"f", "x">>, <<Thunk(C(3)), C(0)>>, Less(X, C(2)),
                     <<Thunk(X), Add(X, C(1))>>, Show(CallOf(<<Name("f")>>)))

Forms ==
    {Form("f", CountDown), Form("f", C(1)), Form("f", Keeping),
     Form(NoTarget, CallOf(<<Name("f"), C(2)>>)),
     Form(NoTarget, CallOf(<<Name("f")>>)),
     Form("d", Template(ListOf(<<Unquote(Fresh), Unquote(Show(C(1)))>>))),
     Form("d", CallOf(<<Name("list"), FreshLike(<<Quoted(Interned)>>), C(1)>>)),
     Form("d", Template(ListOf(<<Splice(Name("d")), Unquote(C(1))>>))),
     Form("x", Unrolled(<<Show(Name("d")), Template(ListOf(<<Unquote(Name("d"))>>))>>)),
     Form("+", Name("<")),
     Form(NoTarget, Show(Add(C(2), C(2))))}

FormSessions == {LowerSession(forms) : forms \in [1..3 -> Forms]}

-----------------------------------------------------------------------------
(* Templates in templates, to two quasiquotes and three unquotes. *)

Pair == Quoted(Datum(TRUE, 3))
Values == {Show(X), DoAll(<<Show(X), Y>>), Pair, Leave(Y), Fresh,
           Template(ListOf(<<Atom, Unquote(X)>>)), Thunk(X)}
Commas(es) == {Unquote(e) : e \in es} \cup {Splice(e) : e \in es}
In(t) == {t, ListOf(<<Atom, t>>), QuoteIn(t), Node("quasiquote", <<t>>)}
Holes == Commas(Values)
\* A hole, in lists, quotes and quasiquotes, next to and inside other holes.
Shallow == Holes \cup UNION {In(h) : h \in Holes}
Deeper == Commas({Stray(t) : t \in Shallow})
Trees == {Atom} \cup Shallow \cup UNION {In(t) : t \in Shallow \cup Deeper}
            \cup {ListOf(<<Node("quasiquote", <<d>>), h>>) :
                     d \in Deeper, h \in {Unquote(X), Splice(Pair), Unquote(Show(Y))}}
            \cup {Node("quasiquote", <<Node("quasiquote", <<d>>)>>) : d \in Commas({Stray(t) : t \in Deeper})}

TemplateSessions ==
    {LowerSession(<<Form("d", RangeLoop("x", <<C(0), C(2), C(1)>>,
                                 Let(<<"y">>, <<C(2)>>, Leave(e)))),
                    Form(NoTarget, CallOf(<<Name("list"), Name("d")>>))>>) :
        e \in {u \in {Template(t) : t \in Trees} : Lowers(u, TRUE)}}

AllSessions == LoopSessions \cup FormSessions \cup TemplateSessions

-----------------------------------------------------------------------------
(* The judgments of the forms, and of all that is in them. *)

RECURSIVE JudgmentsOf(_, _, _, _)
JudgmentsOf(e, locals, captures, loops) ==
    LET all(es) == UNION {JudgmentsOf(es[i], locals, captures, loops) : i \in DOMAIN es}
        below(d, inner) == JudgmentsOf(d, locals \cup Range(e.targets), captures,
                                       loops \cup inner)
    IN {[expr |-> e, locals |-> locals, captures |-> captures, loops |-> loops]}
       \cup all(e.operands)
       \cup CASE e.op = "let" -> below(e.body, {})
              [] e.op = "if" -> all(<<e.yes, e.no>>)
              [] e.op = "closure" -> JudgmentsOf(e.function.body, Range(e.function.params),
                                                 e.captures, {})
              [] e.op = "range" -> below(e.body, {e.id})
              [] e.op = "state" -> below(e.cond, {}) \cup below(e.body, {e.id})
                    \cup UNION {below(e.nexts[i], {}) : i \in DOMAIN e.nexts}
              [] OTHER -> {}

AllForms == UNION {Range(s) : s \in AllSessions}
AllCode == {c : c \in UNION {JudgmentsOf(f.body, {}, {}, {}) : f \in AllForms}}
=============================================================================
