---------------------------- MODULE ForConstants ----------------------------
(***************************************************************************)
(* The constants of `for`, in the two front ends.  The interpreter reads   *)
(* them from the globals its program has defined (RuntimeConstants in      *)
(* globals.rs); the compiler runs nothing and folds what it can            *)
(* (ConstantEnv in compiler.rs).  Both are fed the same top-level forms,   *)
(* and both expand `for` with the same code (eval_constant_int in          *)
(* expand.rs), which is to see the same bounds.                            *)
(*                                                                         *)
(* Numbers are words in two's complement.  Operators stand for one each of *)
(* the arithmetic and the comparison builtins.                             *)
(***************************************************************************)
EXTENDS Integers, Sequences

CONSTANTS
    Global,       \* names of globals, the operators not included
    ReservedName, \* names `def` may not bind
    Redefinable,  \* the operators the programs tried define
    HalfRange,    \* 2^(w - 1) for words of w bits
    Texts,        \* the expressions written, parts of expressions included,
    Rank,         \*   and a number for each, less for its parts
    Inits,        \* the initializers tried,
    Limits,       \*   the bounds of a `for`,
    Scopes        \*   and the binders around it

Operator == {"+", "-", "<"}
Name == Global \cup Operator \cup ReservedName
Word == -HalfRange .. HalfRange - 1

\* Values of the interpreter; "other" is a function, a string, a datum.
Num(n) == [type |-> "int", int |-> n]
Bool(b) == [type |-> "bool", bool |-> b]
Builtin(op) == [type |-> "builtin", op |-> op]
Other == [type |-> "other"]
Unbound == [type |-> "unbound"]
Error == [type |-> "error"]
Value == {Num(n) : n \in Word} \cup {Bool(b) : b \in BOOLEAN}
             \cup {Builtin(op) : op \in Operator} \cup {Other}

\* No constant: no word.
None == HalfRange
Constant == Word \cup {None}

\* What a name stands for in a program, where it stands for something.
Binding == [Name -> Value \cup {Unbound}]
\* The constant a name is known to be.
Knowledge == [Name -> Constant]

\* The binders around a `for`: lets and other `for` forms.
Binder == [by : {"let", "for"}, name : Name, int : Word]

VARIABLES
    store,       \* GlobalStore of the interpreter, by name
    integers,    \* ConstantEnv.integers of the compiler
    redefined,   \* ConstantEnv.redefined_operators
    refused,     \* whether some form was refused by either
    last         \* what the last form was and, of a `for`, the bounds it got

vars == <<store, integers, redefined, refused, last>>

-----------------------------------------------------------------------------
(* Expressions: records with a field `form`.  "opaque" is an expression the *)
(* compiler knows nothing of, a call of a function or a loop; "break" one   *)
(* that cannot be lowered where it stands.                                  *)
(*                                                                          *)
(* What recurses over expressions is a step, which says what an expression  *)
(* of each form is taken to when its parts are known, and the function of   *)
(* expressions that the step defines.                                       *)

Lit(n) == [form |-> "int", int |-> n]
Truth(b) == [form |-> "bool", bool |-> b]
Sym(n) == [form |-> "symbol", name |-> n]
Opaque(v) == [form |-> "opaque", value |-> v]
BreakHere == [form |-> "break"]
App(op, l, r) == [form |-> "app", op |-> op, left |-> l, right |-> r]
Let(n, i, b) == [form |-> "let", name |-> n, init |-> i, body |-> b]
If(c, y, n) == [form |-> "if", cond |-> c, yes |-> y, no |-> n]

Parts(e) ==
    CASE e.form = "app" -> {e.left, e.right}
      [] e.form = "let" -> {e.init, e.body}
      [] e.form = "if" -> {e.cond, e.yes, e.no}
      [] OTHER -> {}

\* The fields of an expression that are none.
WellFormed(e) ==
    /\ e.form \in {"int", "bool", "symbol", "opaque", "break", "app", "let", "if"}
    /\ e.form = "int" => e.int \in Word
    /\ e.form = "bool" => e.bool \in BOOLEAN
    /\ e.form \in {"symbol", "let"} => e.name \in Name
    /\ e.form = "opaque" => e.value \in Value
    /\ e.form = "app" => e.op \in Name

Expr == {e \in Texts : WellFormed(e)}

ASSUME NamesAssumption ==
    /\ Global \cap (Operator \cup ReservedName) = {}
    /\ ReservedName \cap Operator = {}
    /\ Redefinable \subseteq Operator
    /\ HalfRange \in Nat \ {0}

\* An expression is finite: its parts are expressions that rank below it.
ASSUME ExprAssumption ==
    /\ Rank \in [Expr -> Nat]
    /\ \A e \in Expr : \A p \in Parts(e) : p \in Expr /\ Rank[p] < Rank[e]
    /\ Inits \subseteq Expr
    /\ Limits \subseteq Expr
    /\ Scopes \subseteq Seq(Binder)

\* Mutant of Checked: arithmetic that does not notice the overflow.
CheckedNever(n) == n

\* checked_add, checked_sub.
Checked(n) == IF n \in Word THEN n ELSE None

Compute(op, a, b) == IF op = "+" THEN Checked(a + b) ELSE Checked(a - b)

\* lower_expr accepts the expression.
Lowers(e) ==
    LET lowers[x \in Expr] == x.form # "break" /\ \A p \in Parts(x) : lowers[p]
    IN lowers[e]

\* apply: only builtins are applied here, to two numbers.
Apply(f, a, b) ==
    IF f.type # "builtin" \/ a.type # "int" \/ b.type # "int" THEN Error
    ELSE IF f.op = "<" THEN Bool(a.int < b.int)
    ELSE LET n == Compute(f.op, a.int, b.int) IN
         IF n = None THEN Error ELSE Num(n)

\* A local, or else a global.
Lookup(n, locals) ==
    LET v == IF locals[n] = Unbound THEN store[n] ELSE locals[n]
    IN IF v = Unbound THEN Error ELSE v

\* eval_expr on what the expression is lowered to.  `locals` has the values of
\* the names bound around it, Unbound where there is none.
EvalStep(e, locals, eval) ==
    CASE e.form = "int" -> Num(e.int)
      [] e.form = "bool" -> Bool(e.bool)
      [] e.form = "opaque" -> e.value
      [] e.form = "symbol" -> Lookup(e.name, locals)
      [] e.form = "app" ->
            Apply(Lookup(e.op, locals), eval[e.left][locals], eval[e.right][locals])
      [] e.form = "let" ->
            LET v == eval[e.init][locals] IN
            IF v = Error THEN Error
            ELSE eval[e.body][[locals EXCEPT ![e.name] = v]]
      [] e.form = "if" ->
            LET c == eval[e.cond][locals] IN
            IF c.type # "bool" THEN Error
            ELSE eval[IF c.bool THEN e.yes ELSE e.no][locals]
      [] OTHER -> Error

Eval(e, locals) ==
    LET eval[x \in Expr] == [env \in Binding |-> EvalStep(x, env, eval)]
    IN eval[e][locals]

NoLocals == [n \in Name |-> Unbound]

-----------------------------------------------------------------------------
(* The compiler's folding: try_fold_int and try_fold_bool *)

\* Mutant of Foldable: comparisons and arithmetic are never distrusted.
FoldableAlways(op, marked) == TRUE

\* operator_is_foldable
Foldable(op, marked) == op \notin marked

\* The constant an expression folds to, or None, and the set of the truth value
\* it folds to.  `marked` are the names defined so far; `locals` the constants
\* bound by the lets around it; `fold` has both of the parts.
FoldIntStep(e, marked, locals, fold) ==
    CASE e.form = "int" -> e.int
      [] e.form = "symbol" ->
            IF locals[e.name] # None THEN locals[e.name]
            ELSE integers[e.name]
      [] e.form = "app" /\ e.op \in {"+", "-"} /\ Foldable(e.op, marked) ->
            LET a == fold[e.left][locals].int
                b == fold[e.right][locals].int
            IN IF a = None \/ b = None THEN None ELSE Compute(e.op, a, b)
      [] e.form = "let" ->
            LET v == fold[e.init][locals].int IN
            IF v = None THEN None
            ELSE fold[e.body][[locals EXCEPT ![e.name] = v]].int
      [] e.form = "if" ->
            LET c == fold[e.cond][locals].truth IN
            IF c = {} THEN None
            ELSE fold[IF TRUE \in c THEN e.yes ELSE e.no][locals].int
      [] OTHER -> None
FoldBoolStep(e, marked, locals, fold) ==
    CASE e.form = "bool" -> {e.bool}
      [] e.form = "app" /\ e.op = "<" /\ Foldable(e.op, marked) ->
            LET a == fold[e.left][locals].int
                b == fold[e.right][locals].int
            IN IF a = None \/ b = None THEN {} ELSE {a < b}
      [] e.form = "if" ->
            LET c == fold[e.cond][locals].truth IN
            IF c = {} THEN {}
            ELSE fold[IF TRUE \in c THEN e.yes ELSE e.no][locals].truth
      [] OTHER -> {}

FoldInt(e, marked, locals) ==
    LET fold[x \in Expr] ==
            [env \in Knowledge |-> [int |-> FoldIntStep(x, marked, env, fold),
                                    truth |-> FoldBoolStep(x, marked, env, fold)]]
    IN fold[e][locals].int

NoConstants == [n \in Name |-> None]

-----------------------------------------------------------------------------
(* The bounds of a `for`: eval_constant_int *)

\* Mutant of Known: the globals come first.
KnownGlobal(n, constants, forVars) ==
    IF constants[n] # None THEN constants[n] ELSE forVars[n]

\* An enclosing `for` variable, or else a constant of the front end.
Known(n, constants, forVars) ==
    IF forVars[n] # None THEN forVars[n] ELSE constants[n]

\* The bound, or None if the form is refused.
BoundStep(e, constants, forVars, bound) ==
    CASE e.form = "int" -> e.int
      [] e.form = "symbol" -> Known(e.name, constants, forVars)
      [] e.form = "app" /\ e.op \in {"+", "-"} ->
            LET a == bound[e.left]
                b == bound[e.right]
            IN IF a = None \/ b = None THEN None ELSE Compute(e.op, a, b)
      [] OTHER -> None

BoundOf(e, constants, forVars) ==
    LET bound[x \in Expr] == BoundStep(x, constants, forVars, bound)
    IN bound[e]

\* RuntimeConstants: the globals whose value is a number.
RuntimeConstants ==
    [n \in Name |-> IF store[n] \in {Num(i) : i \in Word} THEN store[n].int
                    ELSE None]

\* What the innermost binder of the kinds asked for gives a name; the outermost
\* is the first of its scope.
BoundBy(scope, kinds, n) ==
    LET binders == {i \in DOMAIN scope :
                      scope[i].name = n /\ scope[i].by \in kinds}
    IN IF binders = {} THEN None
       ELSE scope[CHOOSE i \in binders : \A j \in binders : j <= i].int

ForVars(scope) == [n \in Name |-> BoundBy(scope, {"for"}, n)]

LocalsOf(scope) ==
    [n \in Name |-> LET i == BoundBy(scope, {"let", "for"}, n) IN
                    IF i = None THEN Unbound ELSE Num(i)]

\* The name is that of a let around it (history).
IsLocal(n, scope) ==
    \E i \in DOMAIN scope :
        /\ scope[i].name = n
        /\ scope[i].by = "let"
        /\ \A j \in DOMAIN scope : scope[j].name = n => j <= i

\* The names of values a bound consists of (history).
NamesStep(e, names) ==
    CASE e.form = "symbol" -> {e.name}
      [] e.form = "app" -> names[e.left] \cup names[e.right]
      [] OTHER -> {}

NamesOf(e) ==
    LET names[x \in Expr] == NamesStep(x, names)
    IN names[e]

-----------------------------------------------------------------------------
(* Top-level forms, each given to both front ends *)

\* A program ends at the first form that is refused.
Running == ~refused

\* Mutant of Recorded: what cannot be folded leaves the old constant.
RecordedIfFolded(n, folded) ==
    IF folded = None THEN integers ELSE [integers EXCEPT ![n] = folded]

\* expand_only sets the constant or invalidates it.
Recorded(n, folded) == [integers EXCEPT ![n] = folded]

\* The compiler records the constant before it lowers; the interpreter binds
\* the name only when the initializer has been lowered and evaluated.
Def(n, e) ==
    /\ Running
    /\ redefined' = redefined \cup {n}
    /\ LET folded == FoldInt(e, redefined', NoConstants)
           lowered == n \notin ReservedName /\ Lowers(e)
           value == IF lowered THEN Eval(e, NoLocals) ELSE Error
       IN /\ integers' = Recorded(n, folded)
          /\ store' = IF value = Error THEN store ELSE [store EXCEPT ![n] = value]
          /\ refused' = (refused \/ value = Error)
          /\ last' = [form |-> "def"]

\* A `for` with the bound e inside the binders of `scope`.
ForLoop(e, scope) ==
    /\ Running
    /\ LET interpreted == BoundOf(e, RuntimeConstants, ForVars(scope))
           compiled == BoundOf(e, integers, ForVars(scope))
       IN /\ last' = [form |-> "for", interpreted |-> interpreted,
                      compiled |-> compiled,
                      value |-> Eval(e, LocalsOf(scope)),
                      usesLocal |-> \E n \in NamesOf(e) : IsLocal(n, scope),
                      operators |-> {scope[i].name : i \in DOMAIN scope} \cap Operator]
          /\ refused' = (refused \/ interpreted = None \/ compiled = None)
    /\ UNCHANGED <<store, integers, redefined>>

Init ==
    /\ store = [n \in Name |-> IF n \in Operator THEN Builtin(n) ELSE Unbound]
    /\ integers = NoConstants
    /\ redefined = {}
    /\ refused = FALSE
    /\ last = [form |-> "none"]

Next ==
    \/ \E n \in Global \cup Redefinable \cup ReservedName, e \in Inits : Def(n, e)
    \/ \E e \in Limits, scope \in Scopes : ForLoop(e, scope)

Spec == Init /\ [][Next]_vars

-----------------------------------------------------------------------------
(* Properties *)

\* The type invariant.
TypeOK ==
    /\ store \in Binding
    /\ integers \in Knowledge
    /\ redefined \subseteq Name
    /\ refused \in BOOLEAN
    /\ last.form \in {"none", "def", "for"}

\* What the compiler has as a constant, without running anything, is the value
\* the interpreter's global has, as long as no form was refused: redefinition
\* of names and of operators, shadowing and overflow included.
ConstantsSound ==
    ~refused => \A n \in Name :
                    integers[n] # None => store[n] = Num(integers[n])

\* A `for` the compiler can unroll, it unrolls as the interpreter does; the
\* interpreter may know more constants, never fewer.
ForsAgree ==
    last.form = "for" /\ last.compiled # None
        => last.interpreted = last.compiled

\* As long as no operator is redefined or bound around it and no runtime local
\* is named, the bound `for` unrolls to is the value its expression has there,
\* whatever for variables and globals share a name.
BoundIsValue ==
    /\ last.form = "for"
    /\ last.interpreted # None
    /\ ~last.usesLocal
    /\ last.operators = {}
    /\ redefined \cap Operator = {}
    => last.value = Num(last.interpreted)

\* "Anything else ([...] runtime locals) is rejected" (eval_constant_int).
LocalsRejected ==
    last.form = "for" /\ last.usesLocal => last.interpreted = None
=============================================================================
