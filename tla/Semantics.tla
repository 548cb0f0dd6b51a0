----------------------------- MODULE Semantics -----------------------------
(***************************************************************************)
(* The meaning of source forms, by names and environments, and Evaluator   *)
(* held against it.  `Lower` is lower_expr as a function, with the slots   *)
(* and loops it assigns; `Denote` is the language itself, which has        *)
(* neither: a variable is what its name is bound to in the text around it, *)
(* a break leaves the innermost loop it is written in.                     *)
(*                                                                         *)
(* Core expressions are records with the field `form`.                     *)
(***************************************************************************)
EXTENDS Evaluator

Const(v) == [form |-> "const", value |-> v]
Name(n) == [form |-> "name", name |-> n]
Let(names, inits, body) ==
    [form |-> "let", names |-> names, inits |-> inits, body |-> body]
Fn(params, body) == [form |-> "fn", params |-> params, body |-> body]
CallOf(es) == [form |-> "call", es |-> es]
IfElse(c, y, n) == [form |-> "if", cond |-> c, yes |-> y, no |-> n]
RangeLoop(name, bounds, body) ==
    [form |-> "range", names |-> <<name>>, inits |-> bounds, body |-> body]
StateLoop(names, inits, cond, nexts, body) ==
    [form |-> "state", names |-> names, inits |-> inits, cond |-> cond,
     nexts |-> nexts, body |-> body]
BreakWith(es) == [form |-> "break", es |-> es]
DoAll(es) == [form |-> "do", es |-> es]
Unrolled(es) == [form |-> "sequence", es |-> es]
FreshLike(es) == [form |-> "gensym", es |-> es]
Fresh == FreshLike(<<>>)
Quoted(v) == Const(v)
Template(tree) == [form |-> "template", tree |-> tree]

\* An expression that is none: it has an unquote outside a quasiquote.
Stray(tree) == [form |-> "stray", tree |-> tree]

\* A template is a tree of lists; `head` says what its first symbol makes of it.
\* What an unquote has in it is both an expression and, deeper, a template.
Node(head, items) == [head |-> head, items |-> items]
\* The atoms of a tree are not told apart; one that is a template alone is a number.
Atom == Node("atom", <<>>)
ListOf(trees) == Node("list", trees)
QuoteIn(tree) == Node("quote", <<tree>>)

\* An expression as the tree it is written as.
RECURSIVE Written(_)
Written(e) ==
    CASE e.form = "call" -> ListOf([i \in DOMAIN e.es |-> Written(e.es[i])])
      [] e.form = "gensym" -> ListOf(<<Atom>> \o [i \in DOMAIN e.es |-> Written(e.es[i])])
      [] e.form = "template" -> Node("quasiquote", <<e.tree>>)
      [] e.form = "stray" -> e.tree
      [] OTHER -> Atom

Unquote(e) == [head |-> "unquote", items |-> <<Written(e)>>, expr |-> e]
Splice(e) == [head |-> "unquote-splicing", items |-> <<Written(e)>>, expr |-> e]
IsUnquote(t) == t.head \in {"unquote", "unquote-splicing"}

\* The nodes of a datum that are the tree's own: its list and its head symbol.
OwnNodes(t) == IF t.head \in {"atom", "list"} THEN 1 ELSE 2

\* A top-level form: an expression or the initializer of a def.
Form(target, e) == [target |-> target, expr |-> e]

-----------------------------------------------------------------------------
(* expand_quasi_datum: the expressions of a template that are evaluated, in  *)
(* their order, and how many nodes the rest of it has.                       *)

\* Mutant of DepthIn: a nested quasiquote is only a list.
DepthInFlat(t, depth) == IF IsUnquote(t) THEN depth - 1 ELSE depth

\* The depth of what is in a list.
DepthIn(t, depth) ==
    CASE t.head = "quasiquote" -> depth + 1
      [] IsUnquote(t) -> depth - 1
      [] OTHER -> depth

RECURSIVE NodesIn(_)
NodesIn(t) == FoldSeq(LAMBDA u, n : NodesIn(u) + n, OwnNodes(t), t.items)

RECURSIVE ExpandQuasi(_, _)
ExpandQuasi(t, depth) ==
    IF t.head \in {"atom", "quote"} THEN [holes |-> <<>>, nodes |-> NodesIn(t)]
    ELSE IF IsUnquote(t) /\ depth = 1
    THEN [holes |-> <<[expr |-> t.expr, splice |-> t.head = "unquote-splicing"]>>, nodes |-> 0]
    ELSE LET parts == [i \in DOMAIN t.items |-> ExpandQuasi(t.items[i], DepthIn(t, depth))]
         IN [holes |-> FlattenSeq([i \in DOMAIN parts |-> parts[i].holes]),
             nodes |-> FoldSeq(LAMBDA q, n : q.nodes + n, OwnNodes(t), parts)]

\* A quasiquote with these holes, as both the lowerer and the language see it.
WithHoles(t, q) ==
    [form |-> "quasi", list |-> t.head # "atom", nodes |-> q.nodes,
     es |-> [i \in DOMAIN q.holes |-> q.holes[i].expr],
     splices |-> {i \in DOMAIN q.holes : q.holes[i].splice}]

Expanded(t) == WithHoles(t, ExpandQuasi(t, 1))

-----------------------------------------------------------------------------
(* lower_expr.  `scope` gives the names in sight a slot and the function    *)
(* that has it, `loop` is the innermost entry of its loop stack or NoLoop,  *)
(* `path` the place of the expression, `fn` the place of its function.      *)

NoLoop == <<0>>

\* Mutant of LoopOf: a condition may break its own loop.
LoopOfBodyAndCond(part, path, loop) == IF part \in {"body", "cond"} THEN path ELSE loop

\* The loop stack a part of a loop is lowered with.
LoopOf(part, path, loop) == IF part = "body" THEN path ELSE loop

\* declare, in a scope of its own.
Declared(scope, names, path, fn) ==
    [n \in DOMAIN scope \cup Range(names) |->
        IF n \in Range(names)
        THEN [slot |-> path \o <<CHOOSE i \in DOMAIN names : names[i] = n>>, fn |-> fn]
        ELSE scope[n]]

Slots(names, path) == [i \in DOMAIN names |-> path \o <<i>>]

\* The variables of enclosing functions that lowered code needs.
RECURSIVE Captured(_)
CapturedIn(es) == UNION {Captured(es[i]) : i \in DOMAIN es}
Captured(e) ==
    LET parts == CASE e.op = "let" -> <<e.body>>
                   [] e.op = "if" -> <<e.yes, e.no>>
                   [] e.op = "range" -> <<e.body>>
                   [] e.op = "state" -> <<e.cond, e.body>> \o e.nexts
                   [] OTHER -> <<>>
    IN CapturedIn(e.operands \o parts)
         \cup (IF e.op = "capture" THEN {e.slot} ELSE {})
         \cup (IF e.op = "closure" THEN e.captures \ e.own ELSE {})

RECURSIVE Lower(_, _, _, _, _)
LowerAll(es, path, fn, scope, loop) ==
    [i \in DOMAIN es |-> Lower(es[i], Append(path, i), fn, scope, loop)]
Lower(e, path, fn, scope, loop) ==
    LET all(es) == LowerAll(es, path, fn, scope, loop)
        \* a subexpression lowered with the form's own names in scope
        inside(part, k, b) == Lower(b, Append(path, k), fn, Declared(scope, e.names, path, fn),
                                    LoopOf(part, path, loop))
    IN
    CASE e.form = "const" -> [op |-> "const", value |-> e.value, operands |-> <<>>]
      [] e.form = "name" /\ e.name \notin DOMAIN scope ->
            [op |-> "global", name |-> e.name, operands |-> <<>>]
      [] e.form = "name" /\ e.name \in DOMAIN scope ->
            [op |-> IF scope[e.name].fn = fn THEN "local" ELSE "capture",
             slot |-> scope[e.name].slot, operands |-> <<>>]
      [] e.form = "let" ->
            [op |-> "let", operands |-> all(e.inits), targets |-> Slots(e.names, path),
             body |-> Lower(e.body, Append(path, 9), fn,
                            Declared(scope, e.names, path, fn), loop)]
      [] e.form = "fn" ->
            LET body == Lower(e.body, Append(path, 9), path,
                              Declared(scope, e.params, path, path), NoLoop)
                captures == Captured(body)
            IN [op |-> "closure", operands |-> <<>>, captures |-> captures,
                own |-> {s \in captures : \E n \in DOMAIN scope :
                            scope[n].slot = s /\ scope[n].fn = fn},
                function |-> [params |-> Slots(e.params, path), body |-> body]]
      [] e.form = "call" -> [op |-> "call", operands |-> all(e.es)]
      [] e.form = "if" ->
            [op |-> "if", operands |-> all(<<e.cond>>),
             yes |-> Lower(e.yes, Append(path, 8), fn, scope, loop),
             no |-> Lower(e.no, Append(path, 9), fn, scope, loop)]
      [] e.form = "range" ->
            [op |-> "range", id |-> path, operands |-> all(e.inits),
             targets |-> Slots(e.names, path), body |-> inside("body", 9, e.body)]
      [] e.form = "state" ->
            [op |-> "state", id |-> path, operands |-> all(e.inits),
             targets |-> Slots(e.names, path), cond |-> inside("cond", 7, e.cond),
             nexts |-> [i \in DOMAIN e.nexts |-> inside("next", 10 + i, e.nexts[i])],
             body |-> inside("body", 9, e.body)]
      [] e.form = "break" -> [op |-> "break", target |-> loop, operands |-> all(e.es)]
      [] e.form \in {"do", "sequence"} -> [op |-> e.form, operands |-> all(e.es)]
      [] e.form = "quasi" ->
            [op |-> "quasi", operands |-> all(e.es), splices |-> e.splices,
             nodes |-> e.nodes, list |-> e.list]
      [] e.form = "template" -> Lower(Expanded(e.tree), path, fn, scope, loop)
      [] e.form = "gensym" -> [op |-> "gensym", operands |-> all(e.es)]

\* Whether the expander and lower_expr accept the expression: a break needs a
\* loop around it, in the same function, an unquote a quasiquote, a splice a list.
RECURSIVE Lowers(_, _)
Lowers(e, inLoop) ==
    CASE e.form \in {"const", "name"} -> TRUE
      [] e.form = "let" ->
            (\A i \in DOMAIN e.inits : Lowers(e.inits[i], inLoop)) /\ Lowers(e.body, inLoop)
      [] e.form = "fn" -> Lowers(e.body, FALSE)
      [] e.form = "if" -> \A b \in {e.cond, e.yes, e.no} : Lowers(b, inLoop)
      [] e.form \in {"range", "state"} ->
            /\ \A i \in DOMAIN e.inits : Lowers(e.inits[i], inLoop)
            /\ e.form = "state" =>
                  Lowers(e.cond, inLoop) /\ \A i \in DOMAIN e.nexts : Lowers(e.nexts[i], inLoop)
            /\ Lowers(e.body, TRUE)
      [] e.form = "stray" -> FALSE
      [] e.form = "template" -> /\ e.tree.head # "unquote-splicing"
                                /\ Lowers(Expanded(e.tree), inLoop)
      [] OTHER -> /\ e.form = "break" => inLoop
                  /\ e.form = "gensym" => Len(e.es) <= 1
                  /\ \A i \in DOMAIN e.es : Lowers(e.es[i], inLoop)

\* A session of the given forms as Evaluator is handed it.
LowerSession(forms) ==
    [i \in DOMAIN forms |->
        [target |-> forms[i].target, source |-> forms[i].expr,
         body |-> Lower(forms[i].expr, <<i>>, <<>>, <<>>, NoLoop)]]

-----------------------------------------------------------------------------
(* A template by the quasiquotes and unquotes around its parts.              *)

RECURSIVE PathsIn(_)
PathsIn(t) == {<<>>} \cup UNION {{<<i>> \o p : p \in PathsIn(t.items[i])} : i \in DOMAIN t.items}

RECURSIVE PartAt(_, _)
PartAt(t, p) == IF p = <<>> THEN t ELSE PartAt(t.items[Head(p)], Tail(p))

Reading(t) ==
    LET paths == PathsIn(t)
        above(p, heads) == {q \in paths : IsStrictPrefix(q, p) /\ PartAt(t, q).head \in heads}
        isHole(p) ==
            /\ IsUnquote(PartAt(t, p))
            /\ above(p, {"quote"}) = {}
            /\ Cardinality(above(p, {"unquote", "unquote-splicing"}))
                  = Cardinality(above(p, {"quasiquote"}))
        \* an unquote inside what is evaluated belongs to the expression
        holes == {p \in paths : isHole(p) /\ \A q \in paths : IsStrictPrefix(q, p) => ~isHole(q)}
        before(p, q) == \E i \in DOMAIN p \cap DOMAIN q :
                            p[i] < q[i] /\ \A j \in 1..(i - 1) : p[j] = q[j]
        kept == {p \in paths : \A h \in holes : ~IsPrefix(h, p)}
        inOrder == SetToSortSeq(holes, before)
    IN WithHoles(t, [holes |-> [i \in DOMAIN inOrder |->
                         LET u == PartAt(t, inOrder[i])
                         IN [expr |-> u.expr, splice |-> u.head = "unquote-splicing"]],
                     nodes |-> MapThenSumSet(LAMBDA p : OwnNodes(PartAt(t, p)), kept)])

-----------------------------------------------------------------------------
(* The language.  A result is a value, a break on its way to its loop, or an *)
(* error; it carries the state `st` the expression leaves behind.            *)

Ok(v, st) == [is |-> "value", value |-> v, st |-> st]
Err(st) == [is |-> "error", st |-> st]

Extend(env, names, values) ==
    [n \in DOMAIN env \cup Range(names) |->
        IF n \in Range(names) THEN values[CHOOSE i \in DOMAIN names : names[i] = n]
        ELSE env[n]]

\* A datum comes into being: the runtime counts its nodes, for good.
Made(v, st) ==
    LET charge == [st EXCEPT !.charged = @ + v.nodes] IN
    IF charge.charged > MaxNodes THEN Err(charge) ELSE Ok(v, charge)

RECURSIVE Denote(_, _, _), DenoteAll(_, _, _, _, _),
          DenoteRange(_, _, _, _, _, _), DenoteState(_, _, _, _)

\* A bound is an integer, a prefix a symbol of the source, what is unquoted a
\* datum, what is spliced a list.
Acceptable(e, i, v) ==
    CASE e.form = "range" -> v.type = "int"
      [] e.form = "gensym" -> IsInterned(v)
      [] e.form = "quasi" -> IsDatum(v) /\ (i \in e.splices => v.type = "datum" /\ v.list)
      [] OTHER -> TRUE

\* The expressions `es` of e, after the first of them gave `values`: from left to
\* right, each value tested before the next expression.  The value of the result
\* is the sequence of their values.
DenoteAll(e, es, values, env, st) ==
    IF Len(values) = Len(es) THEN Ok(values, st)
    ELSE LET i == Len(values) + 1
             r == Denote(es[i], env, st)
         IN IF r.is # "value" THEN r
            ELSE IF ~Acceptable(e, i, r.value) THEN Err(r.st)
            ELSE DenoteAll(e, es, Append(values, r.value), env, r.st)

Called(f, args, st) ==
    CASE f.type = "builtin" ->
            LET v == Primitive(f.op, args)
                after == IF f.op # "print" THEN st
                         ELSE [st EXCEPT !.printed =
                                 @ \o [i \in DOMAIN args |-> Shown(args[i])]]
            IN IF v.type = "error" THEN Err(st)
               ELSE IF v.type = "datum" THEN Made(v, st) ELSE Ok(v, after)
      [] f.type = "closure" ->
            IF Len(args) # Len(f.params) THEN Err(st)
            ELSE Denote(f.body, Extend(f.env, f.params, args), st)
      [] OTHER -> Err(st)

\* The iterations from `current` on, after n of them.
DenoteRange(e, current, bounds, env, st, n) ==
    IF IF bounds[3].int > 0 THEN current >= bounds[2].int ELSE current <= bounds[2].int
    THEN Ok(Unit, st)
    ELSE IF n = MaxIterations THEN Err(st)
    ELSE LET r == Denote(e.body, Extend(env, e.names, <<Num(current)>>), st) IN
         IF r.is = "break" THEN Ok(r.value, r.st)
         ELSE IF r.is = "error" \/ current + bounds[3].int \notin Word THEN Err(r.st)
         ELSE DenoteRange(e, current + bounds[3].int, bounds, env, r.st, n + 1)

\* `env` binds the states.  Break of the condition and of the new states is
\* that of a loop further out.
DenoteState(e, env, st, n) ==
    LET c == Denote(e.cond, env, st) IN
    IF c.is # "value" THEN c
    ELSE IF c.value.type # "bool" THEN Err(c.st)
    ELSE IF ~c.value.bool THEN Ok(Unit, c.st)
    ELSE IF n = MaxIterations THEN Err(c.st)
    ELSE LET r == Denote(e.body, env, c.st) IN
         IF r.is = "break" THEN Ok(r.value, r.st)
         ELSE IF r.is = "error" THEN r
         ELSE LET new == DenoteAll(e, e.nexts, <<>>, env, r.st) IN
              IF new.is # "value" THEN new
              ELSE DenoteState(e, Extend(env, e.names, new.value), new.st, n + 1)

Denote(e, env, st) ==
    CASE e.form = "const" -> Ok(e.value, st)
      [] e.form = "name" ->
            IF e.name \in DOMAIN env THEN Ok(env[e.name], st)
            ELSE IF e.name \in DOMAIN st.globals THEN Ok(st.globals[e.name], st)
            ELSE Err(st)
      [] e.form = "let" ->
            LET r == DenoteAll(e, e.inits, <<>>, env, st) IN
            IF r.is # "value" THEN r
            ELSE Denote(e.body, Extend(env, e.names, r.value), r.st)
      [] e.form = "fn" ->
            Ok([type |-> "closure", params |-> e.params, body |-> e.body, env |-> env], st)
      [] e.form = "call" ->
            LET r == DenoteAll(e, e.es, <<>>, env, st) IN
            IF r.is # "value" THEN r ELSE Called(Head(r.value), Tail(r.value), r.st)
      [] e.form = "if" ->
            LET c == Denote(e.cond, env, st) IN
            IF c.is # "value" THEN c
            ELSE IF c.value.type # "bool" THEN Err(c.st)
            ELSE Denote(IF c.value.bool THEN e.yes ELSE e.no, env, c.st)
      [] e.form = "range" ->
            LET r == DenoteAll(e, e.inits, <<>>, env, st) IN
            IF r.is # "value" THEN r
            ELSE IF r.value[3].int = 0 THEN Err(r.st)
            ELSE DenoteRange(e, r.value[1].int, r.value, env, r.st, 0)
      [] e.form = "state" ->
            LET r == DenoteAll(e, e.inits, <<>>, env, st) IN
            IF r.is # "value" THEN r
            ELSE DenoteState(e, Extend(env, e.names, r.value), r.st, 0)
      [] e.form \in {"break", "do", "sequence"} ->
            LET r == DenoteAll(e, e.es, <<>>, env, st)
                v == IF r.value = <<>> \/ e.form = "sequence" THEN Unit ELSE Last(r.value)
            IN IF r.is # "value" THEN r
               ELSE [is |-> IF e.form = "break" THEN "break" ELSE "value",
                     value |-> v, st |-> r.st]
      [] e.form = "quasi" ->
            LET r == DenoteAll(e, e.es, <<>>, env, st) IN
            IF r.is # "value" THEN r
            ELSE IF e.nodes = 0 THEN Made(AsDatum(r.value[1]), r.st)
            ELSE Made(Datum(e.list, FoldFunction(+, e.nodes, [i \in DOMAIN r.value |->
                          NodesOf(r.value[i]) - (IF i \in e.splices THEN 1 ELSE 0)])), r.st)
      [] e.form = "template" -> Denote(Reading(e.tree), env, st)
      [] e.form = "gensym" ->
            LET r == DenoteAll(e, e.es, <<>>, env, st) IN
            IF r.is # "value" THEN r
            ELSE Ok(Symbol(r.st.gensyms), [r.st EXCEPT !.gensyms = @ + 1])

-----------------------------------------------------------------------------

\* The state the session's first n forms lead to, and the last one's result.
RECURSIVE DenoteForms(_)
DenoteForms(n) ==
    IF n = 0
    THEN Ok(Unit, [globals |-> [op \in {"+", "<", "list", "print"} |-> Builtin(op)],
                   printed |-> <<>>, charged |-> 0, gensyms |-> 0])
    ELSE LET form == session[n]
             r == Denote(form.source, <<>>, DenoteForms(n - 1).st)
         IN IF r.is # "value" \/ form.target = NoTarget THEN r
            ELSE Ok(Unit, [r.st EXCEPT !.globals = Extend(@, <<form.target>>, <<r.value>>)])

\* Running the lowered code of the forms gives what the forms mean, by names and
\* environments alone: the results, the output in its order, the globals, also
\* of forms after one that failed, and the counters of the runtime.
MeansItsSource ==
    control = Idle /\ next > 1 =>
        LET r == DenoteForms(next - 1) IN
        /\ outcome.is = r.is
        /\ r.is = "value" => outcome.value = Shown(r.value)
        /\ printed = r.st.printed
        /\ charged = r.st.charged
        /\ gensyms = r.st.gensyms
        /\ DOMAIN globals = DOMAIN r.st.globals
        /\ \A n \in DOMAIN globals : Shown(globals[n]) = Shown(r.st.globals[n])
=============================================================================
