-------------------------- MODULE ForConstantsProofs --------------------------
(***************************************************************************)
(* Proofs about ForConstants, for words of any width, any expressions,     *)
(* any scopes and any program over them: the types, that what the compiler *)
(* folds is what the interpreter computes, that both front ends take a     *)
(* `for` to have the same bound, and that the bound is the value of its    *)
(* expression.                                                             *)
(*                                                                         *)
(* The operators that recurse over expressions are functions a step        *)
(* defines.  The first part shows of each that there is such a function,   *)
(* because its step looks at the parts of an expression only               *)
(* (RecursionExists); the second relates them.                             *)
(***************************************************************************)
EXTENDS ForConstants, SequenceLemmas

-----------------------------------------------------------------------------
(* Expressions, words and values *)

LEMMA PartsBelow ==
    ASSUME NEW e \in Expr
    PROVE  /\ WellFormed(e)
           /\ e.form = "app" => /\ e.left \in Expr /\ Rank[e.left] < Rank[e]
                                /\ e.right \in Expr /\ Rank[e.right] < Rank[e]
           /\ e.form = "let" => /\ e.init \in Expr /\ Rank[e.init] < Rank[e]
                                /\ e.body \in Expr /\ Rank[e.body] < Rank[e]
           /\ e.form = "if" => /\ e.cond \in Expr /\ Rank[e.cond] < Rank[e]
                               /\ e.yes \in Expr /\ Rank[e.yes] < Rank[e]
                               /\ e.no \in Expr /\ Rank[e.no] < Rank[e]
  <1>1. \A p \in Parts(e) : p \in Expr /\ Rank[p] < Rank[e] BY ExprAssumption
  <1>2. WellFormed(e) BY DEF Expr
  <1>3. CASE e.form = "app" BY <1>1, <1>2, <1>3 DEF Parts
  <1>4. CASE e.form = "let" BY <1>1, <1>2, <1>4 DEF Parts
  <1>5. CASE e.form = "if" BY <1>1, <1>2, <1>5 DEF Parts
  <1> QED BY <1>2, <1>3, <1>4, <1>5

LEMMA RankType == Rank \in [Expr -> Nat]
  BY ExprAssumption

LEMMA WordFacts ==
    /\ HalfRange \in Nat \ {0} /\ None \in Int /\ None \notin Word /\ None \in Constant
    /\ Word \subseteq Int /\ Word \subseteq Constant
    /\ \A c \in Constant : c # None => c \in Word
  BY NamesAssumption DEF None, Word, Constant

LEMMA ComputeType ==
    ASSUME NEW op, NEW a \in Word, NEW b \in Word
    PROVE  Compute(op, a, b) \in Constant
  BY WordFacts DEF Compute, Checked

-----------------------------------------------------------------------------
(* The functions that the steps define: the bound of a `for` *)

LEMMA BoundStepType ==
    ASSUME NEW e \in Expr, NEW constants \in Knowledge, NEW forVars \in Knowledge,
           NEW f \in [Expr -> Constant]
    PROVE  BoundStep(e, constants, forVars, f) \in Constant
  <1>1. CASE e.form = "int" BY <1>1, PartsBelow, WordFacts DEF BoundStep, WellFormed
  <1>2. CASE e.form = "symbol"
    <2>1. e.name \in Name BY <1>2, PartsBelow DEF WellFormed
    <2> QED BY <1>2, <2>1 DEF BoundStep, Known, Knowledge
  <1>3. CASE e.form = "app" /\ e.op \in {"+", "-"}
    <2>1. f[e.left] \in Constant /\ f[e.right] \in Constant BY <1>3, PartsBelow
    <2>2. f[e.left] # None /\ f[e.right] # None
            => Compute(e.op, f[e.left], f[e.right]) \in Constant
      BY <2>1, WordFacts, ComputeType
    <2> QED BY <1>3, <2>2, WordFacts DEF BoundStep
  <1>4. CASE ~(e.form \in {"int", "symbol"} \/ (e.form = "app" /\ e.op \in {"+", "-"}))
    BY <1>4, WordFacts DEF BoundStep
  <1> QED BY <1>1, <1>2, <1>3, <1>4

LEMMA BoundStepLooksBelow ==
    ASSUME NEW e \in Expr, NEW constants, NEW forVars, NEW f, NEW g,
           \A p \in Expr : Rank[p] < Rank[e] => f[p] = g[p]
    PROVE  BoundStep(e, constants, forVars, f) = BoundStep(e, constants, forVars, g)
  <1>1. e.form = "app" => f[e.left] = g[e.left] /\ f[e.right] = g[e.right]
    BY PartsBelow
  <1> QED BY <1>1 DEF BoundStep

LEMMA BoundIsDefined ==
    ASSUME NEW constants \in Knowledge, NEW forVars \in Knowledge
    PROVE  \E f \in [Expr -> Constant] : \A e \in Expr :
              /\ BoundOf(e, constants, forVars) = f[e]
              /\ f[e] = BoundStep(e, constants, forVars, f)
  <1> DEFINE step(x, f) == BoundStep(x, constants, forVars, f)
             H == [x \in Expr |-> [f \in [Expr -> Constant] |-> step(x, f)]]
             body(f) == [x \in Expr |-> step(x, f)]
             bound == CHOOSE f : f = body(f)
  <1>1. \A x \in Expr, f \in [Expr -> Constant] : step(x, f) \in Constant
    BY BoundStepType
  <1>2. ASSUME NEW x \in Expr, NEW f, NEW g,
               \A y \in Expr : Rank[y] < Rank[x] => f[y] = g[y]
        PROVE  step(x, f) = step(x, g)
    BY <1>2, BoundStepLooksBelow
  <1>3. \A e \in Expr : BoundOf(e, constants, forVars) = bound[e] BY DEF BoundOf
  <1> HIDE DEF step
  <1>4. LooksBelow(H, Expr, Constant, Rank)
    <2>1. H \in [Expr -> [[Expr -> Constant] -> Constant]] BY <1>1
    <2>2. \A x \in Expr, f \in [Expr -> Constant] : H[x][f] = step(x, f) OBVIOUS
    <2>3. ASSUME NEW x \in Expr, NEW f \in [Expr -> Constant], NEW g \in [Expr -> Constant],
                 \A y \in Expr : Rank[y] < Rank[x] => f[y] = g[y]
          PROVE  H[x][f] = H[x][g]
      <3> HIDE DEF H
      <3>1. step(x, f) = step(x, g) BY <1>2, <2>3
      <3> QED BY <2>2, <3>1
    <2> HIDE DEF H
    <2> QED BY <2>1, <2>3 DEF LooksBelow
  <1>5. PICK f : Solves(f, H, Expr, Constant)
    <2>1. Constant # {} BY WordFacts
    <2> HIDE DEF H
    <2> QED BY <1>4, <2>1, RankType, RecursionExists
  <1>6. f \in [Expr -> Constant] /\ \A x \in Expr : f[x] = step(x, f)
    BY <1>5 DEF Solves
  <1>7. bound = body(bound)
    <2>1. f = body(f) BY <1>6
    <2> HIDE DEF body
    <2> QED BY <2>1, Zenon
  <1>8. \A x \in Expr : bound[x] = step(x, bound)
    <2> HIDE DEF bound
    <2> QED BY <1>7
  <1> HIDE DEF bound
  <1>9. \A x \in Expr : bound[x] = f[x]
    <2>1. ASSUME NEW x \in Expr, \A y \in Expr : Rank[y] < Rank[x] => bound[y] = f[y]
          PROVE  bound[x] = f[x]
      BY <1>2, <1>6, <1>8, <2>1
    <2> QED BY <2>1, RankType, AgreeByRank
  <1> QED BY <1>3, <1>6, <1>9 DEF step
-----------------------------------------------------------------------------
(* The names of a bound *)

LEMMA NamesStepType ==
    ASSUME NEW e \in Expr, NEW f \in [Expr -> SUBSET Name]
    PROVE  NamesStep(e, f) \in SUBSET Name
  <1>1. CASE e.form = "symbol" BY <1>1, PartsBelow DEF NamesStep, WellFormed
  <1>2. CASE e.form = "app" BY <1>2, PartsBelow DEF NamesStep
  <1> QED BY <1>1, <1>2 DEF NamesStep

LEMMA NamesStepLooksBelow ==
    ASSUME NEW e \in Expr, NEW f, NEW g,
           \A p \in Expr : Rank[p] < Rank[e] => f[p] = g[p]
    PROVE  NamesStep(e, f) = NamesStep(e, g)
  <1>1. e.form = "app" => f[e.left] = g[e.left] /\ f[e.right] = g[e.right]
    BY PartsBelow
  <1> QED BY <1>1 DEF NamesStep

LEMMA NamesAreDefined ==
    \E f \in [Expr -> SUBSET Name] : \A e \in Expr :
       /\ NamesOf(e) = f[e]
       /\ f[e] = NamesStep(e, f)
  <1> DEFINE step(x, f) == NamesStep(x, f)
             H == [x \in Expr |-> [f \in [Expr -> SUBSET Name] |-> step(x, f)]]
             body(f) == [x \in Expr |-> step(x, f)]
             names == CHOOSE f : f = body(f)
  <1>1. \A x \in Expr, f \in [Expr -> SUBSET Name] : step(x, f) \in SUBSET Name
    BY NamesStepType
  <1>2. ASSUME NEW x \in Expr, NEW f, NEW g,
               \A y \in Expr : Rank[y] < Rank[x] => f[y] = g[y]
        PROVE  step(x, f) = step(x, g)
    BY <1>2, NamesStepLooksBelow
  <1>3. \A e \in Expr : NamesOf(e) = names[e] BY DEF NamesOf
  <1> HIDE DEF step
  <1>4. LooksBelow(H, Expr, SUBSET Name, Rank)
    <2>1. H \in [Expr -> [[Expr -> SUBSET Name] -> SUBSET Name]] BY <1>1
    <2>2. \A x \in Expr, f \in [Expr -> SUBSET Name] : H[x][f] = step(x, f) OBVIOUS
    <2>3. ASSUME NEW x \in Expr, NEW f \in [Expr -> SUBSET Name], NEW g \in [Expr -> SUBSET Name],
                 \A y \in Expr : Rank[y] < Rank[x] => f[y] = g[y]
          PROVE  H[x][f] = H[x][g]
      <3> HIDE DEF H
      <3>1. step(x, f) = step(x, g) BY <1>2, <2>3
      <3> QED BY <2>2, <3>1
    <2> HIDE DEF H
    <2> QED BY <2>1, <2>3 DEF LooksBelow
  <1>5. PICK f : Solves(f, H, Expr, SUBSET Name)
    <2>1. SUBSET Name # {} OBVIOUS
    <2> HIDE DEF H
    <2> QED BY <1>4, <2>1, RankType, RecursionExists
  <1>6. f \in [Expr -> SUBSET Name] /\ \A x \in Expr : f[x] = step(x, f)
    BY <1>5 DEF Solves
  <1>7. names = body(names)
    <2>1. f = body(f) BY <1>6
    <2> HIDE DEF body
    <2> QED BY <2>1, Zenon
  <1>8. \A x \in Expr : names[x] = step(x, names)
    <2> HIDE DEF names
    <2> QED BY <1>7
  <1> HIDE DEF names
  <1>9. \A x \in Expr : names[x] = f[x]
    <2>1. ASSUME NEW x \in Expr, \A y \in Expr : Rank[y] < Rank[x] => names[y] = f[y]
          PROVE  names[x] = f[x]
      BY <1>2, <1>6, <1>8, <2>1
    <2> QED BY <2>1, RankType, AgreeByRank
  <1> QED BY <1>3, <1>6, <1>9 DEF step
-----------------------------------------------------------------------------
(* Evaluation *)

Result == Value \cup {Error}
Evaluation == [Binding -> Result]

LEMMA ValueFacts ==
    /\ \A n \in Word : Num(n) \in Value
    /\ \A b \in BOOLEAN : Bool(b) \in Value
    /\ Error \notin Value /\ Unbound \notin Value /\ Error # Unbound
    /\ \A v \in Result : v # Error => v \in Value
  BY DEF Value, Result, Num, Bool, Builtin, Other, Error, Unbound

LEMMA ResultFacts ==
    ASSUME NEW v \in Result
    PROVE  /\ v.type = "int" => v = Num(v.int) /\ v.int \in Word
           /\ v.type = "bool" => v = Bool(v.bool) /\ v.bool \in BOOLEAN
           /\ v.type = "error" => v = Error
  BY DEF Value, Result, Num, Bool, Builtin, Other, Error

LEMMA ApplyType ==
    ASSUME NEW f, NEW a \in Result, NEW b \in Result
    PROVE  Apply(f, a, b) \in Result
  <1>1. CASE f.type # "builtin" \/ a.type # "int" \/ b.type # "int"
    BY <1>1 DEF Apply, Result
  <1>2. CASE ~(f.type # "builtin" \/ a.type # "int" \/ b.type # "int")
    <2>1. a.int \in Word /\ b.int \in Word BY <1>2, ResultFacts
    <2>2. CASE f.op = "<"
      <3>1. (a.int < b.int) \in BOOLEAN OBVIOUS
      <3>2. Bool(a.int < b.int) \in Result BY <3>1, ValueFacts DEF Result
      <3> QED BY <1>2, <2>2, <3>2 DEF Apply
    <2>3. CASE f.op # "<"
      <3> DEFINE n == Compute(f.op, a.int, b.int)
      <3>1. n \in Constant BY <2>1, ComputeType
      <3>2. Apply(f, a, b) = IF n = None THEN Error ELSE Num(n) BY <1>2, <2>3 DEF Apply
      <3> HIDE DEF n
      <3> QED BY <3>1, <3>2, WordFacts, ValueFacts DEF Result
    <2> QED BY <2>2, <2>3
  <1> QED BY <1>1, <1>2

LEMMA LookupType ==
    ASSUME store \in Binding, NEW locals \in Binding, NEW n \in Name
    PROVE  Lookup(n, locals) \in Result
  <1>1. store[n] \in Value \cup {Unbound} /\ locals[n] \in Value \cup {Unbound}
    BY DEF Binding
  <1> QED BY <1>1 DEF Lookup, Result

LEMMA EvalStepType ==
    ASSUME store \in Binding, NEW e \in Expr, NEW locals \in Binding,
           NEW f \in [Expr -> Evaluation]
    PROVE  EvalStep(e, locals, f) \in Result
  <1>1. \A p \in Expr, env \in Binding : f[p][env] \in Result BY DEF Evaluation
  <1>2. CASE e.form \in {"int", "bool", "opaque", "break"}
    BY <1>2, PartsBelow, ValueFacts DEF EvalStep, WellFormed, Result
  <1>3. CASE e.form = "symbol"
    BY <1>3, PartsBelow, LookupType DEF EvalStep, WellFormed
  <1>4. CASE e.form = "app"
    <2>1. f[e.left][locals] \in Result /\ f[e.right][locals] \in Result
      BY <1>1, <1>4, PartsBelow
    <2>2. Apply(Lookup(e.op, locals), f[e.left][locals], f[e.right][locals]) \in Result
      BY <2>1, ApplyType
    <2> QED BY <1>4, <2>2 DEF EvalStep
  <1>5. CASE e.form = "let"
    <2> DEFINE v == f[e.init][locals]
               inner == [locals EXCEPT ![e.name] = v]
    <2>1. e.init \in Expr /\ e.body \in Expr /\ e.name \in Name
      BY <1>5, PartsBelow DEF WellFormed
    <2>2. v \in Result BY <1>1, <2>1
    <2>3. v # Error => inner \in Binding
      <3> HIDE DEF v
      <3> QED BY <2>1, <2>2, ValueFacts DEF Binding
    <2>4. v # Error => f[e.body][inner] \in Result BY <1>1, <2>1, <2>3
    <2>5. EvalStep(e, locals, f) = IF v = Error THEN Error ELSE f[e.body][inner]
      BY <1>5 DEF EvalStep
    <2> HIDE DEF v, inner
    <2> QED BY <2>4, <2>5 DEF Result
  <1>6. CASE e.form = "if"
    <2>1. f[e.yes][locals] \in Result /\ f[e.no][locals] \in Result
      BY <1>1, <1>6, PartsBelow
    <2> QED BY <1>6, <2>1 DEF EvalStep, Result
  <1> QED BY <1>2, <1>3, <1>4, <1>5, <1>6, PartsBelow DEF WellFormed

LEMMA EvalStepLooksBelow ==
    ASSUME NEW e \in Expr, NEW locals, NEW f, NEW g,
           \A p \in Expr : Rank[p] < Rank[e] => f[p] = g[p]
    PROVE  EvalStep(e, locals, f) = EvalStep(e, locals, g)
  <1>1. CASE e.form = "app"
    <2>1. f[e.left] = g[e.left] /\ f[e.right] = g[e.right] BY <1>1, PartsBelow
    <2> QED BY <1>1, <2>1 DEF EvalStep
  <1>2. CASE e.form = "let"
    <2>1. f[e.init] = g[e.init] /\ f[e.body] = g[e.body] BY <1>2, PartsBelow
    <2> QED BY <1>2, <2>1 DEF EvalStep
  <1>3. CASE e.form = "if"
    <2>1. f[e.cond] = g[e.cond] /\ f[e.yes] = g[e.yes] /\ f[e.no] = g[e.no]
      BY <1>3, PartsBelow
    <2> QED BY <1>3, <2>1 DEF EvalStep
  <1>4. CASE e.form \notin {"app", "let", "if"}
    BY <1>4 DEF EvalStep
  <1> QED BY <1>1, <1>2, <1>3, <1>4

LEMMA EvalIsDefined ==
    ASSUME store \in Binding
    PROVE  \E f \in [Expr -> Evaluation] : \A e \in Expr :
              /\ \A locals : Eval(e, locals) = f[e][locals]
              /\ \A locals \in Binding : f[e][locals] = EvalStep(e, locals, f)
  <1> DEFINE step(x, f) == [env \in Binding |-> EvalStep(x, env, f)]
             H == [x \in Expr |-> [f \in [Expr -> Evaluation] |-> step(x, f)]]
             body(f) == [x \in Expr |-> step(x, f)]
             eval == CHOOSE f : f = body(f)
  <1>1. \A x \in Expr, f \in [Expr -> Evaluation] : step(x, f) \in Evaluation
    <2>1. \A x \in Expr, f \in [Expr -> Evaluation] :
             \A env \in Binding : EvalStep(x, env, f) \in Result
      BY EvalStepType
    <2> QED BY <2>1 DEF Evaluation
  <1>2. ASSUME NEW x \in Expr, NEW f, NEW g,
               \A y \in Expr : Rank[y] < Rank[x] => f[y] = g[y]
        PROVE  step(x, f) = step(x, g)
    BY <1>2, EvalStepLooksBelow
  <1>3. \A e \in Expr : \A locals : Eval(e, locals) = eval[e][locals] BY DEF Eval
  <1> HIDE DEF step
  <1>4. LooksBelow(H, Expr, Evaluation, Rank)
    <2>1. H \in [Expr -> [[Expr -> Evaluation] -> Evaluation]] BY <1>1
    <2>2. \A x \in Expr, f \in [Expr -> Evaluation] : H[x][f] = step(x, f) OBVIOUS
    <2>3. ASSUME NEW x \in Expr, NEW f \in [Expr -> Evaluation], NEW g \in [Expr -> Evaluation],
                 \A y \in Expr : Rank[y] < Rank[x] => f[y] = g[y]
          PROVE  H[x][f] = H[x][g]
      <3> HIDE DEF H
      <3>1. step(x, f) = step(x, g) BY <1>2, <2>3
      <3> QED BY <2>2, <3>1
    <2> HIDE DEF H
    <2> QED BY <2>1, <2>3 DEF LooksBelow
  <1>5. PICK f : Solves(f, H, Expr, Evaluation)
    <2>1. [env \in Binding |-> Error] \in Evaluation BY DEF Evaluation, Result
    <2> HIDE DEF H
    <2> QED BY <1>4, <2>1, RankType, RecursionExists
  <1>6. f \in [Expr -> Evaluation] /\ \A x \in Expr : f[x] = step(x, f)
    BY <1>5 DEF Solves
  <1>7. eval = body(eval)
    <2>1. f = body(f) BY <1>6
    <2> HIDE DEF body
    <2> QED BY <2>1, Zenon
  <1>8. \A x \in Expr : eval[x] = step(x, eval)
    <2> HIDE DEF eval
    <2> QED BY <1>7
  <1> HIDE DEF eval
  <1>9. \A x \in Expr : eval[x] = f[x]
    <2>1. ASSUME NEW x \in Expr, \A y \in Expr : Rank[y] < Rank[x] => eval[y] = f[y]
          PROVE  eval[x] = f[x]
      BY <1>2, <1>6, <1>8, <2>1
    <2> QED BY <2>1, RankType, AgreeByRank
  <1>10. \A e \in Expr : \A locals \in Binding : f[e][locals] = EvalStep(e, locals, f)
    BY <1>6 DEF step
  <1> QED BY <1>3, <1>6, <1>9, <1>10
-----------------------------------------------------------------------------
(* Folding *)

Folded == [int : Constant, truth : SUBSET BOOLEAN]
Folding == [Knowledge -> Folded]

FoldStep(e, marked, locals, f) ==
    [int |-> FoldIntStep(e, marked, locals, f), truth |-> FoldBoolStep(e, marked, locals, f)]

LEMMA FoldIntStepType ==
    ASSUME integers \in Knowledge, NEW marked, NEW e \in Expr, NEW locals \in Knowledge,
           NEW f \in [Expr -> Folding]
    PROVE  FoldIntStep(e, marked, locals, f) \in Constant
  <1>1. \A p \in Expr, env \in Knowledge : f[p][env].int \in Constant
    BY DEF Folding, Folded
  <1>2. CASE e.form = "int" BY <1>2, PartsBelow, WordFacts DEF FoldIntStep, WellFormed
  <1>3. CASE e.form = "symbol"
    <2>1. e.name \in Name BY <1>3, PartsBelow DEF WellFormed
    <2> QED BY <1>3, <2>1 DEF FoldIntStep, Knowledge
  <1>4. CASE e.form = "app" /\ e.op \in {"+", "-"} /\ Foldable(e.op, marked)
    <2> DEFINE a == f[e.left][locals].int
               b == f[e.right][locals].int
    <2>1. a \in Constant /\ b \in Constant BY <1>1, <1>4, PartsBelow
    <2>2. FoldIntStep(e, marked, locals, f)
            = IF a = None \/ b = None THEN None ELSE Compute(e.op, a, b)
      BY <1>4 DEF FoldIntStep
    <2> HIDE DEF a, b
    <2> QED BY <2>1, <2>2, WordFacts, ComputeType
  <1>5. CASE e.form = "let"
    <2> DEFINE v == f[e.init][locals].int
               inner == [locals EXCEPT ![e.name] = v]
    <2>1. e.init \in Expr /\ e.body \in Expr /\ e.name \in Name
      BY <1>5, PartsBelow DEF WellFormed
    <2>2. v \in Constant BY <1>1, <2>1
    <2>3. inner \in Knowledge
      <3> HIDE DEF v
      <3> QED BY <2>1, <2>2 DEF Knowledge
    <2>4. f[e.body][inner].int \in Constant BY <1>1, <2>1, <2>3
    <2>5. FoldIntStep(e, marked, locals, f) = IF v = None THEN None ELSE f[e.body][inner].int
      BY <1>5 DEF FoldIntStep
    <2> HIDE DEF v, inner
    <2> QED BY <2>4, <2>5, WordFacts
  <1>6. CASE e.form = "if"
    <2>1. f[e.yes][locals].int \in Constant /\ f[e.no][locals].int \in Constant
      BY <1>1, <1>6, PartsBelow
    <2> QED BY <1>6, <2>1, WordFacts DEF FoldIntStep
  <1>7. CASE ~(\/ e.form \in {"int", "symbol", "let", "if"}
               \/ e.form = "app" /\ e.op \in {"+", "-"} /\ Foldable(e.op, marked))
    BY <1>7, WordFacts DEF FoldIntStep
  <1> QED BY <1>2, <1>3, <1>4, <1>5, <1>6, <1>7

LEMMA FoldBoolStepType ==
    ASSUME NEW marked, NEW e \in Expr, NEW locals \in Knowledge, NEW f \in [Expr -> Folding]
    PROVE  FoldBoolStep(e, marked, locals, f) \in SUBSET BOOLEAN
  <1>1. CASE e.form = "bool" BY <1>1, PartsBelow DEF FoldBoolStep, WellFormed
  <1>2. CASE e.form = "app" /\ e.op = "<" /\ Foldable(e.op, marked)
    <2> DEFINE a == f[e.left][locals].int
               b == f[e.right][locals].int
    <2>1. FoldBoolStep(e, marked, locals, f) = IF a = None \/ b = None THEN {} ELSE {a < b}
      BY <1>2 DEF FoldBoolStep
    <2> HIDE DEF a, b
    <2>2. (a < b) \in BOOLEAN OBVIOUS
    <2> QED BY <2>1, <2>2
  <1>3. CASE e.form = "if"
    <2>1. \A p \in Expr : f[p][locals].truth \in SUBSET BOOLEAN
      BY DEF Folding, Folded
    <2>2. /\ f[e.yes][locals].truth \in SUBSET BOOLEAN
          /\ f[e.no][locals].truth \in SUBSET BOOLEAN
      BY <1>3, <2>1, PartsBelow
    <2> QED BY <1>3, <2>2 DEF FoldBoolStep
  <1>4. CASE ~(\/ e.form \in {"bool", "if"}
               \/ e.form = "app" /\ e.op = "<" /\ Foldable(e.op, marked))
    BY <1>4 DEF FoldBoolStep
  <1> QED BY <1>1, <1>2, <1>3, <1>4

LEMMA FoldStepType ==
    ASSUME integers \in Knowledge, NEW marked, NEW e \in Expr, NEW locals \in Knowledge,
           NEW f \in [Expr -> Folding]
    PROVE  FoldStep(e, marked, locals, f) \in Folded
  BY FoldIntStepType, FoldBoolStepType DEF FoldStep, Folded

LEMMA FoldStepLooksBelow ==
    ASSUME NEW marked, NEW e \in Expr, NEW locals, NEW f, NEW g,
           \A p \in Expr : Rank[p] < Rank[e] => f[p] = g[p]
    PROVE  FoldStep(e, marked, locals, f) = FoldStep(e, marked, locals, g)
  <1> SUFFICES /\ FoldIntStep(e, marked, locals, f) = FoldIntStep(e, marked, locals, g)
               /\ FoldBoolStep(e, marked, locals, f) = FoldBoolStep(e, marked, locals, g)
    BY DEF FoldStep
  <1>1. CASE e.form = "app"
    <2>1. f[e.left] = g[e.left] /\ f[e.right] = g[e.right] BY <1>1, PartsBelow
    <2> QED BY <1>1, <2>1 DEF FoldIntStep, FoldBoolStep
  <1>2. CASE e.form = "let"
    <2>1. f[e.init] = g[e.init] /\ f[e.body] = g[e.body] BY <1>2, PartsBelow
    <2> QED BY <1>2, <2>1 DEF FoldIntStep, FoldBoolStep
  <1>3. CASE e.form = "if"
    <2>1. f[e.cond] = g[e.cond] /\ f[e.yes] = g[e.yes] /\ f[e.no] = g[e.no]
      BY <1>3, PartsBelow
    <2> QED BY <1>3, <2>1 DEF FoldIntStep, FoldBoolStep
  <1>4. CASE e.form \notin {"app", "let", "if"}
    BY <1>4 DEF FoldIntStep, FoldBoolStep
  <1> QED BY <1>1, <1>2, <1>3, <1>4

LEMMA FoldIsDefined ==
    ASSUME integers \in Knowledge, NEW marked
    PROVE  \E f \in [Expr -> Folding] : \A e \in Expr :
              /\ \A locals : FoldInt(e, marked, locals) = f[e][locals].int
              /\ \A locals \in Knowledge : f[e][locals] = FoldStep(e, marked, locals, f)
  <1> DEFINE step(x, f) == [env \in Knowledge |-> FoldStep(x, marked, env, f)]
             H == [x \in Expr |-> [f \in [Expr -> Folding] |-> step(x, f)]]
             body(f) == [x \in Expr |-> step(x, f)]
             fold == CHOOSE f : f = body(f)
  <1>1. \A x \in Expr, f \in [Expr -> Folding] : step(x, f) \in Folding
    <2>1. \A x \in Expr, f \in [Expr -> Folding] :
             \A env \in Knowledge : FoldStep(x, marked, env, f) \in Folded
      BY FoldStepType
    <2> QED BY <2>1 DEF Folding
  <1>2. ASSUME NEW x \in Expr, NEW f, NEW g,
               \A y \in Expr : Rank[y] < Rank[x] => f[y] = g[y]
        PROVE  step(x, f) = step(x, g)
    BY <1>2, FoldStepLooksBelow
  <1>3. \A e \in Expr : \A locals : FoldInt(e, marked, locals) = fold[e][locals].int
    BY DEF FoldInt, FoldStep
  <1> HIDE DEF step
  <1>4. LooksBelow(H, Expr, Folding, Rank)
    <2>1. H \in [Expr -> [[Expr -> Folding] -> Folding]] BY <1>1
    <2>2. \A x \in Expr, f \in [Expr -> Folding] : H[x][f] = step(x, f) OBVIOUS
    <2>3. ASSUME NEW x \in Expr, NEW f \in [Expr -> Folding], NEW g \in [Expr -> Folding],
                 \A y \in Expr : Rank[y] < Rank[x] => f[y] = g[y]
          PROVE  H[x][f] = H[x][g]
      <3> HIDE DEF H
      <3>1. step(x, f) = step(x, g) BY <1>2, <2>3
      <3> QED BY <2>2, <3>1
    <2> HIDE DEF H
    <2> QED BY <2>1, <2>3 DEF LooksBelow
  <1>5. PICK f : Solves(f, H, Expr, Folding)
    <2>1. [env \in Knowledge |-> [int |-> None, truth |-> {}]] \in Folding
      BY WordFacts DEF Folding, Folded
    <2> HIDE DEF H
    <2> QED BY <1>4, <2>1, RankType, RecursionExists
  <1>6. f \in [Expr -> Folding] /\ \A x \in Expr : f[x] = step(x, f)
    BY <1>5 DEF Solves
  <1>7. fold = body(fold)
    <2>1. f = body(f) BY <1>6
    <2> HIDE DEF body
    <2> QED BY <2>1, Zenon
  <1>8. \A x \in Expr : fold[x] = step(x, fold)
    <2> HIDE DEF fold
    <2> QED BY <1>7
  <1> HIDE DEF fold
  <1>9. \A x \in Expr : fold[x] = f[x]
    <2>1. ASSUME NEW x \in Expr, \A y \in Expr : Rank[y] < Rank[x] => fold[y] = f[y]
          PROVE  fold[x] = f[x]
      BY <1>2, <1>6, <1>8, <2>1
    <2> QED BY <2>1, RankType, AgreeByRank
  <1>10. \A e \in Expr : \A locals \in Knowledge : f[e][locals] = FoldStep(e, marked, locals, f)
    BY <1>6 DEF step
  <1> QED BY <1>3, <1>6, <1>9, <1>10
-----------------------------------------------------------------------------
(* What is folded is what is computed *)

\* The compiler's locals are the interpreter's; the compiler folds a let only
\* when it knows what it binds.
SameLocals(constants, values) ==
    \A n \in Name :
        values[n] = IF constants[n] = None THEN Unbound ELSE Num(constants[n])

\* The result is an error or what was folded.
Matches(folded, result) ==
    /\ folded.int # None => result \in {Error, Num(folded.int)}
    /\ folded.truth # {} =>
          \E b \in BOOLEAN : folded.truth = {b} /\ result \in {Error, Bool(b)}

\* What the compiler knows, and that it knows of the operators redefined.
StoreIsKnown(marked) ==
    /\ \A n \in Name : integers[n] # None => store[n] = Num(integers[n])
    /\ \A op \in Operator : op \notin marked => store[op] = Builtin(op)

LEMMA TypesDiffer ==
    ASSUME NEW n, NEW b, NEW op
    PROVE  /\ Num(n).type = "int" /\ Num(n).int = n
           /\ Bool(b).type = "bool" /\ Bool(b).bool = b
           /\ Builtin(op).type = "builtin" /\ Builtin(op).op = op
           /\ Error.type = "error" /\ Unbound.type = "unbound"
  BY DEF Num, Bool, Builtin, Error, Unbound

\* An operator that was not redefined is itself, or is bound to a number, whose
\* call fails.
LEMMA OperatorApplied ==
    ASSUME NEW marked, StoreIsKnown(marked), NEW constants, NEW values,
           SameLocals(constants, values), NEW op \in Operator, op \notin marked,
           NEW a, NEW b
    PROVE  LET v == Apply(Lookup(op, values), a, b) IN
           v = Error \/ v = Apply(Builtin(op), a, b)
  <1>1. op \in Name BY DEF Name
  <1>2. store[op] = Builtin(op) BY DEF StoreIsKnown
  <1>3. CASE constants[op] = None
    <2>1. values[op] = Unbound BY <1>1, <1>3 DEF SameLocals
    <2>2. Builtin(op) # Unbound BY DEF Builtin, Unbound
    <2> QED BY <1>2, <2>1, <2>2 DEF Lookup
  <1>4. CASE constants[op] # None
    <2>1. values[op] = Num(constants[op]) BY <1>1, <1>4 DEF SameLocals
    <2>2. Lookup(op, values).type # "builtin"
      <3>1. Num(constants[op]) # Unbound BY DEF Num, Unbound
      <3> QED BY <2>1, <3>1, TypesDiffer DEF Lookup
    <2> QED BY <2>2 DEF Apply
  <1> QED BY <1>3, <1>4

\* A builtin of operands that match.
LEMMA ArithmeticMatches ==
    ASSUME NEW a \in Word, NEW b \in Word, NEW l \in {Error, Num(a)},
           NEW r \in {Error, Num(b)}, NEW op \in {"+", "-"}, Compute(op, a, b) # None
    PROVE  Apply(Builtin(op), l, r) \in {Error, Num(Compute(op, a, b))}
  <1>1. CASE l = Error \/ r = Error BY <1>1, TypesDiffer DEF Apply
  <1>2. CASE l = Num(a) /\ r = Num(b) BY <1>2, TypesDiffer DEF Apply
  <1> QED BY <1>1, <1>2

LEMMA ComparisonMatches ==
    ASSUME NEW a \in Word, NEW b \in Word, NEW l \in {Error, Num(a)},
           NEW r \in {Error, Num(b)}
    PROVE  Apply(Builtin("<"), l, r) \in {Error, Bool(a < b)}
  <1>1. CASE l = Error \/ r = Error BY <1>1, TypesDiffer DEF Apply
  <1>2. CASE l = Num(a) /\ r = Num(b) BY <1>2, TypesDiffer DEF Apply
  <1> QED BY <1>1, <1>2

LEMMA FoldStepMatches ==
    ASSUME store \in Binding, integers \in Knowledge, NEW marked, StoreIsKnown(marked),
           NEW e \in Expr, NEW constants \in Knowledge, NEW values \in Binding,
           SameLocals(constants, values),
           NEW fold \in [Expr -> Folding], NEW eval \in [Expr -> Evaluation],
           \A p \in Expr : Rank[p] < Rank[e] =>
               \A env \in Knowledge, bound \in Binding :
                   SameLocals(env, bound) => Matches(fold[p][env], eval[p][bound])
    PROVE  Matches(FoldStep(e, marked, constants, fold), EvalStep(e, values, eval))
  <1> DEFINE int == FoldIntStep(e, marked, constants, fold)
             truth == FoldBoolStep(e, marked, constants, fold)
             result == EvalStep(e, values, eval)
  <1>1. \A p \in Expr : Rank[p] < Rank[e] => Matches(fold[p][constants], eval[p][values])
    OBVIOUS
  <1>2. SUFFICES /\ int # None => result \in {Error, Num(int)}
                 /\ truth # {} => \E b \in BOOLEAN : truth = {b} /\ result \in {Error, Bool(b)}
    BY DEF Matches, FoldStep
  <1>3. CASE e.form = "int"
    <2>1. int = e.int /\ truth = {} /\ result = Num(e.int)
      BY <1>3 DEF FoldIntStep, FoldBoolStep, EvalStep
    <2> QED BY <2>1
  <1>4. CASE e.form = "bool"
    <2>1. int = None /\ truth = {e.bool} /\ result = Bool(e.bool)
      BY <1>4 DEF FoldIntStep, FoldBoolStep, EvalStep
    <2>2. e.bool \in BOOLEAN BY <1>4, PartsBelow DEF WellFormed
    <2> QED BY <2>1, <2>2
  <1>5. CASE e.form = "symbol"
    <2>1. e.name \in Name BY <1>5, PartsBelow DEF WellFormed
    <2>2. /\ int = IF constants[e.name] # None THEN constants[e.name] ELSE integers[e.name]
          /\ truth = {} /\ result = Lookup(e.name, values)
      BY <1>5 DEF FoldIntStep, FoldBoolStep, EvalStep
    <2>3. \A n : Num(n) # Unbound BY DEF Num, Unbound
    <2>4. CASE constants[e.name] # None
      <3>1. values[e.name] = Num(constants[e.name]) BY <2>1, <2>4 DEF SameLocals
      <3> QED BY <2>2, <2>3, <2>4, <3>1 DEF Lookup
    <2>5. CASE constants[e.name] = None
      <3>1. values[e.name] = Unbound BY <2>1, <2>5 DEF SameLocals
      <3>2. integers[e.name] # None => store[e.name] = Num(integers[e.name])
        BY <2>1 DEF StoreIsKnown
      <3> QED BY <2>2, <2>3, <2>5, <3>1, <3>2 DEF Lookup
    <2> QED BY <2>4, <2>5
  <1>6. CASE e.form = "app"
    <2> DEFINE a == fold[e.left][constants].int
               b == fold[e.right][constants].int
               l == eval[e.left][values]
               r == eval[e.right][values]
    <2>1. a \in Constant /\ b \in Constant
      <3>1. e.left \in Expr /\ e.right \in Expr BY <1>6, PartsBelow
      <3> QED BY <3>1 DEF Folding, Folded
    <2>2. (a # None => l \in {Error, Num(a)}) /\ (b # None => r \in {Error, Num(b)})
      BY <1>1, <1>6, PartsBelow DEF Matches
    <2>3. result = Apply(Lookup(e.op, values), l, r) BY <1>6 DEF EvalStep
    <2>4. int # None => /\ e.op \in {"+", "-"} /\ e.op \notin marked
                        /\ a # None /\ b # None /\ int = Compute(e.op, a, b)
      BY <1>6 DEF FoldIntStep, Foldable
    <2>5. truth # {} => /\ e.op = "<" /\ e.op \notin marked
                        /\ a # None /\ b # None /\ truth = {a < b}
      BY <1>6 DEF FoldBoolStep, Foldable
    <2> HIDE DEF a, b, l, r, int, truth, result
    <2>6. ASSUME int # None PROVE result \in {Error, Num(int)}
      <3>1. a \in Word /\ b \in Word BY <2>1, <2>4, <2>6, WordFacts
      <3>2. e.op \in Operator BY <2>4, <2>6 DEF Operator
      <3>3. Apply(Builtin(e.op), l, r) \in {Error, Num(int)}
        BY <2>2, <2>4, <2>6, <3>1, ArithmeticMatches
      <3>4. result = Error \/ result = Apply(Builtin(e.op), l, r)
        BY <2>3, <2>4, <2>6, <3>2, OperatorApplied
      <3> QED BY <3>3, <3>4
    <2>7. ASSUME truth # {}
          PROVE  \E t \in BOOLEAN : truth = {t} /\ result \in {Error, Bool(t)}
      <3>1. a \in Word /\ b \in Word BY <2>1, <2>5, <2>7, WordFacts
      <3>2. e.op \in Operator BY <2>5, <2>7 DEF Operator
      <3>3. Apply(Builtin("<"), l, r) \in {Error, Bool(a < b)}
        BY <2>2, <2>5, <2>7, <3>1, ComparisonMatches
      <3>4. result = Error \/ result = Apply(Builtin("<"), l, r)
        BY <2>3, <2>5, <2>7, <3>2, OperatorApplied
      <3>5. (a < b) \in BOOLEAN OBVIOUS
      <3> QED BY <2>5, <2>7, <3>3, <3>4, <3>5
    <2> QED BY <2>6, <2>7
  <1>7. CASE e.form = "let"
    <2> DEFINE c == fold[e.init][constants].int
               v == eval[e.init][values]
               known == [constants EXCEPT ![e.name] = c]
               bound == [values EXCEPT ![e.name] = v]
    <2>1. /\ e.init \in Expr /\ Rank[e.init] < Rank[e]
          /\ e.body \in Expr /\ Rank[e.body] < Rank[e] /\ e.name \in Name
      BY <1>7, PartsBelow DEF WellFormed
    <2>2. c \in Constant /\ v \in Result BY <2>1 DEF Folding, Folded, Evaluation
    <2>3. c # None => v \in {Error, Num(c)} BY <1>1, <2>1 DEF Matches
    <2>4. /\ int = IF c = None THEN None ELSE fold[e.body][known].int
          /\ truth = {}
          /\ result = IF v = Error THEN Error ELSE eval[e.body][bound]
      BY <1>7 DEF FoldIntStep, FoldBoolStep, EvalStep
    <2>5. CASE c = None \/ v = Error BY <2>4, <2>5
    <2>6. CASE c # None /\ v # Error
      <3>1. v = Num(c) /\ v \in Value BY <2>2, <2>3, <2>6, ValueFacts
      <3>2. known \in Knowledge /\ bound \in Binding
        <4> HIDE DEF c, v
        <4> QED BY <2>1, <2>2, <3>1 DEF Knowledge, Binding
      <3>3. SameLocals(known, bound)
        <4> HIDE DEF c, v
        <4>1. \A n \in Name : known[n] = (IF n = e.name THEN c ELSE constants[n])
                               /\ bound[n] = (IF n = e.name THEN v ELSE values[n])
          BY DEF Knowledge, Binding
        <4> QED BY <2>6, <3>1, <4>1 DEF SameLocals
      <3> HIDE DEF c, v, known, bound
      <3>4. Matches(fold[e.body][known], eval[e.body][bound]) BY <2>1, <3>2, <3>3
      <3> HIDE DEF int, truth, result
      <3> QED BY <2>4, <2>6, <3>4 DEF Matches
    <2> QED BY <2>5, <2>6
  <1>8. CASE e.form = "if"
    <2> DEFINE c == fold[e.cond][constants].truth
               v == eval[e.cond][values]
    <2>1. c # {} => \E t \in BOOLEAN : c = {t} /\ v \in {Error, Bool(t)}
      BY <1>1, <1>8, PartsBelow DEF Matches
    <2>2. /\ Matches(fold[e.yes][constants], eval[e.yes][values])
          /\ Matches(fold[e.no][constants], eval[e.no][values])
      BY <1>1, <1>8, PartsBelow
    <2> DEFINE branch == IF TRUE \in c THEN e.yes ELSE e.no
    <2>3. /\ int = IF c = {} THEN None ELSE fold[branch][constants].int
          /\ truth = IF c = {} THEN {} ELSE fold[branch][constants].truth
          /\ result = IF v.type # "bool" THEN Error
                      ELSE eval[IF v.bool THEN e.yes ELSE e.no][values]
      BY <1>8 DEF FoldIntStep, FoldBoolStep, EvalStep
    <2> HIDE DEF c, v, int, truth, result
    <2>4. CASE c = {} BY <2>3, <2>4
    <2>5. CASE c # {}
      <3>1. PICK t \in BOOLEAN : c = {t} /\ v \in {Error, Bool(t)} BY <2>1, <2>5
      <3>2. Matches(fold[branch][constants], eval[branch][values]) BY <2>2
      <3>3. result = Error \/ result = eval[branch][values]
        <4>1. CASE v = Error BY <2>3, <4>1, TypesDiffer
        <4>2. CASE v = Bool(t)
          <5>1. v.type = "bool" /\ v.bool = t BY <4>2, TypesDiffer
          <5>2. CASE t = TRUE
            <6>1. branch = e.yes /\ (IF v.bool THEN e.yes ELSE e.no) = e.yes
              BY <3>1, <5>1, <5>2
            <6> QED BY <2>3, <5>1, <6>1
          <5>3. CASE t = FALSE
            <6>1. branch = e.no /\ (IF v.bool THEN e.yes ELSE e.no) = e.no
              BY <3>1, <5>1, <5>3
            <6> QED BY <2>3, <5>1, <6>1
          <5> QED BY <5>2, <5>3
        <4> QED BY <3>1, <4>1, <4>2
      <3> HIDE DEF branch
      <3> QED BY <2>3, <2>5, <3>2, <3>3 DEF Matches
    <2> QED BY <2>4, <2>5
  <1>9. CASE e.form \in {"opaque", "break"}
    <2>1. int = None /\ truth = {} BY <1>9 DEF FoldIntStep, FoldBoolStep
    <2> QED BY <2>1
  <1> QED BY <1>3, <1>4, <1>5, <1>6, <1>7, <1>8, <1>9, PartsBelow DEF WellFormed
\* What an initializer folds to is its value, if it has one.
LEMMA FoldIsValue ==
    ASSUME store \in Binding, integers \in Knowledge, NEW marked, StoreIsKnown(marked),
           NEW e \in Expr
    PROVE  LET folded == FoldInt(e, marked, NoConstants) IN
           /\ folded \in Constant
           /\ folded # None => Eval(e, NoLocals) \in {Error, Num(folded)}
  <1>1. PICK fold \in [Expr -> Folding] : \A x \in Expr :
           /\ \A locals : FoldInt(x, marked, locals) = fold[x][locals].int
           /\ \A locals \in Knowledge : fold[x][locals] = FoldStep(x, marked, locals, fold)
    BY FoldIsDefined
  <1>2. PICK eval \in [Expr -> Evaluation] : \A x \in Expr :
           /\ \A locals : Eval(x, locals) = eval[x][locals]
           /\ \A locals \in Binding : eval[x][locals] = EvalStep(x, locals, eval)
    BY EvalIsDefined
  <1> DEFINE P == {x \in Expr : \A env \in Knowledge, bound \in Binding :
                     SameLocals(env, bound) => Matches(fold[x][env], eval[x][bound])}
  <1>3. ASSUME NEW x \in Expr, \A y \in Expr : Rank[y] < Rank[x] => y \in P
        PROVE  x \in P
    <2>1. \A y \in Expr : Rank[y] < Rank[x] =>
             \A env \in Knowledge, bound \in Binding :
                 SameLocals(env, bound) => Matches(fold[y][env], eval[y][bound])
      BY <1>3
    <2>2. ASSUME NEW env \in Knowledge, NEW bound \in Binding, SameLocals(env, bound)
          PROVE  Matches(fold[x][env], eval[x][bound])
      <3>1. Matches(FoldStep(x, marked, env, fold), EvalStep(x, bound, eval))
        BY <2>1, <2>2, FoldStepMatches
      <3> QED BY <1>1, <1>2, <3>1
    <2> QED BY <2>2
  <1>4. P = Expr
    <2>1. P \in SUBSET Expr OBVIOUS
    <2> HIDE DEF P
    <2> QED BY <1>3, <2>1, RankType, RankInduction
  <1>5. NoConstants \in Knowledge /\ NoLocals \in Binding /\ SameLocals(NoConstants, NoLocals)
    BY WordFacts DEF NoConstants, NoLocals, Knowledge, Binding, SameLocals
  <1>6. Matches(fold[e][NoConstants], eval[e][NoLocals]) BY <1>4, <1>5
  <1>7. fold[e][NoConstants].int \in Constant BY <1>5 DEF Folding, Folded
  <1> QED BY <1>1, <1>2, <1>6, <1>7 DEF Matches

LEMMA EvalType ==
    ASSUME store \in Binding, NEW e \in Expr, NEW locals \in Binding
    PROVE  Eval(e, locals) \in Result
  <1>1. PICK eval \in [Expr -> Evaluation] : \A x \in Expr :
           \A env : Eval(x, env) = eval[x][env]
    BY EvalIsDefined
  <1> QED BY <1>1 DEF Evaluation

-----------------------------------------------------------------------------
(* Bounds *)

\* Who knows more constants takes more bounds, and to the same numbers.
LEMMA BoundIsMonotone ==
    ASSUME NEW less \in Knowledge, NEW more \in Knowledge, NEW forVars \in Knowledge,
           \A n \in Name : less[n] # None => more[n] = less[n],
           NEW e \in Expr, BoundOf(e, less, forVars) # None
    PROVE  BoundOf(e, more, forVars) = BoundOf(e, less, forVars)
  <1>1. PICK f \in [Expr -> Constant] : \A x \in Expr :
           /\ BoundOf(x, less, forVars) = f[x]
           /\ f[x] = BoundStep(x, less, forVars, f)
    BY BoundIsDefined
  <1>2. PICK g \in [Expr -> Constant] : \A x \in Expr :
           /\ BoundOf(x, more, forVars) = g[x]
           /\ g[x] = BoundStep(x, more, forVars, g)
    BY BoundIsDefined
  <1> DEFINE P == {x \in Expr : f[x] # None => g[x] = f[x]}
  <1>3. ASSUME NEW x \in Expr, \A y \in Expr : Rank[y] < Rank[x] => y \in P
        PROVE  x \in P
    <2> SUFFICES ASSUME f[x] # None PROVE g[x] = f[x] OBVIOUS
    <2>1. f[x] = BoundStep(x, less, forVars, f) /\ g[x] = BoundStep(x, more, forVars, g)
      BY <1>1, <1>2
    <2>2. CASE x.form = "int" BY <2>1, <2>2 DEF BoundStep
    <2>3. CASE x.form = "symbol"
      <3>1. x.name \in Name BY <2>3, PartsBelow DEF WellFormed
      <3> QED BY <2>1, <2>3, <3>1 DEF BoundStep, Known
    <2>4. CASE x.form = "app" /\ x.op \in {"+", "-"}
      <3>1. x.left \in P /\ x.right \in P BY <1>3, <2>4, PartsBelow
      <3> QED BY <2>1, <2>4, <3>1 DEF BoundStep
    <2>5. CASE ~(x.form \in {"int", "symbol"} \/ (x.form = "app" /\ x.op \in {"+", "-"}))
      BY <2>1, <2>5 DEF BoundStep
    <2> QED BY <2>2, <2>3, <2>4, <2>5
  <1>4. P = Expr
    <2>1. P \in SUBSET Expr OBVIOUS
    <2> HIDE DEF P
    <2> QED BY <1>3, <2>1, RankType, RankInduction
  <1> QED BY <1>1, <1>2, <1>4
LEMMA RuntimeConstantsType == RuntimeConstants \in Knowledge
  <1>1. ASSUME NEW n \in Name, store[n] \in {Num(i) : i \in Word}
        PROVE  store[n].int \in Word
    BY <1>1, TypesDiffer
  <1> QED BY <1>1, WordFacts DEF RuntimeConstants, Knowledge

\* The binders of a name.
BindersOf(scope, kinds, n) ==
    {i \in DOMAIN scope : scope[i].name = n /\ scope[i].by \in kinds}

\* The one that counts is the innermost.
LEMMA Innermost ==
    ASSUME NEW scope \in Seq(Binder), NEW kinds, NEW n, BindersOf(scope, kinds, n) # {}
    PROVE  \E i \in BindersOf(scope, kinds, n) :
              /\ BoundBy(scope, kinds, n) = scope[i].int
              /\ scope[i].int \in Word
              /\ \A j \in BindersOf(scope, kinds, n) : j <= i
  <1> DEFINE B == BindersOf(scope, kinds, n)
             m == CHOOSE i \in B : \A j \in B : j <= i
  <1>1. Len(scope) \in Nat /\ DOMAIN scope = 1..Len(scope) OBVIOUS
  <1>2. B \in SUBSET (1..Len(scope)) BY <1>1 DEF BindersOf
  <1>3. BoundBy(scope, kinds, n) = scope[m].int BY DEF BoundBy, BindersOf
  <1> HIDE DEF B
  <1>4. \E i \in B : \A j \in B : j <= i BY <1>1, <1>2, LastPosition DEF B
  <1>5. m \in B /\ \A j \in B : j <= m BY <1>4
  <1>6. scope[m].int \in Word
    <2>1. m \in DOMAIN scope BY <1>1, <1>2, <1>5
    <2>2. scope[m] \in Binder BY <2>1
    <2> QED BY <2>2 DEF Binder
  <1> HIDE DEF m
  <1> QED BY <1>3, <1>5, <1>6 DEF B

LEMMA BoundByNone ==
    ASSUME NEW scope, NEW kinds, NEW n, BindersOf(scope, kinds, n) = {}
    PROVE  BoundBy(scope, kinds, n) = None
  BY DEF BoundBy, BindersOf

LEMMA BoundByType ==
    ASSUME NEW scope \in Seq(Binder), NEW kinds, NEW n
    PROVE  BoundBy(scope, kinds, n) \in Constant
  <1>1. CASE BindersOf(scope, kinds, n) = {} BY <1>1, BoundByNone, WordFacts
  <1>2. CASE BindersOf(scope, kinds, n) # {} BY <1>2, Innermost, WordFacts
  <1> QED BY <1>1, <1>2

LEMMA ScopeTypes ==
    ASSUME NEW scope \in Seq(Binder)
    PROVE  ForVars(scope) \in Knowledge /\ LocalsOf(scope) \in Binding
  <1>1. ForVars(scope) \in Knowledge BY BoundByType DEF ForVars, Knowledge
  <1>2. ASSUME NEW n \in Name PROVE LocalsOf(scope)[n] \in Value \cup {Unbound}
    <2> DEFINE i == BoundBy(scope, {"let", "for"}, n)
    <2>1. i \in Constant BY BoundByType
    <2>2. LocalsOf(scope)[n] = IF i = None THEN Unbound ELSE Num(i) BY DEF LocalsOf
    <2> HIDE DEF i
    <2> QED BY <2>1, <2>2, WordFacts, ValueFacts
  <1>3. LocalsOf(scope) = [n \in Name |-> LocalsOf(scope)[n]] BY DEF LocalsOf
  <1> QED BY <1>1, <1>2, <1>3 DEF Binding

\* A name that is not that of a let around it is looked up alike in a bound and
\* in an evaluation.
LEMMA NameIsValue ==
    ASSUME NEW scope \in Seq(Binder), NEW n \in Name, ~IsLocal(n, scope),
           Known(n, RuntimeConstants, ForVars(scope)) # None
    PROVE  Lookup(n, LocalsOf(scope)) = Num(Known(n, RuntimeConstants, ForVars(scope)))
  <1> DEFINE fors == BindersOf(scope, {"for"}, n)
             all == BindersOf(scope, {"let", "for"}, n)
             local == BoundBy(scope, {"let", "for"}, n)
  <1>1. /\ ForVars(scope)[n] = BoundBy(scope, {"for"}, n)
        /\ LocalsOf(scope)[n] = IF local = None THEN Unbound ELSE Num(local)
    BY DEF ForVars, LocalsOf
  <1>2. \A i : Num(i) # Unbound BY DEF Num, Unbound
  <1>3. \A i \in DOMAIN scope : scope[i].by \in {"let", "for"}
    <2>1. \A i \in DOMAIN scope : scope[i] \in Binder OBVIOUS
    <2> QED BY <2>1 DEF Binder
  <1>4. CASE all = {}
    <2>1. fors = {} BY <1>4 DEF BindersOf
    <2>2. ForVars(scope)[n] = None /\ local = None BY <1>1, <1>4, <2>1, BoundByNone
    <2>3. Known(n, RuntimeConstants, ForVars(scope)) = RuntimeConstants[n]
      BY <2>2 DEF Known
    <2>4. RuntimeConstants[n] # None => store[n] = Num(RuntimeConstants[n])
      <3>1. RuntimeConstants[n] # None => store[n] \in {Num(i) : i \in Word}
        BY DEF RuntimeConstants
      <3> QED BY <3>1, TypesDiffer DEF RuntimeConstants
    <2>5. Lookup(n, LocalsOf(scope)) = IF store[n] = Unbound THEN Error ELSE store[n]
      BY <1>1, <2>2 DEF Lookup
    <2> QED BY <1>2, <2>3, <2>4, <2>5
  <1>5. CASE all # {}
    <2>1. PICK i \in all : /\ local = scope[i].int /\ scope[i].int \in Word
                           /\ \A j \in all : j <= i
      BY <1>5, Innermost
    <2>2. i \in DOMAIN scope /\ scope[i].name = n /\ scope[i].by \in {"let", "for"}
      BY DEF BindersOf
    <2>3. \A j \in DOMAIN scope : scope[j].name = n => j <= i
      BY <1>3, <2>1 DEF BindersOf
    <2>4. scope[i].by = "for" BY <2>2, <2>3 DEF IsLocal
    <2>5. i \in fors BY <2>2, <2>4 DEF BindersOf
    <2>6. PICK k \in fors : /\ BoundBy(scope, {"for"}, n) = scope[k].int
                            /\ \A j \in fors : j <= k
      BY <2>5, Innermost
    <2>7. i = k
      <3>1. k \in DOMAIN scope /\ scope[k].name = n BY <2>6 DEF BindersOf
      <3>2. i \in Nat /\ k \in Nat BY <2>2, <3>1
      <3> QED BY <2>3, <2>5, <2>6, <3>1, <3>2
    <2>8. local # None /\ ForVars(scope)[n] = local BY <1>1, <2>1, <2>6, <2>7, WordFacts
    <2>9. Known(n, RuntimeConstants, ForVars(scope)) = local BY <2>8 DEF Known
    <2>10. LocalsOf(scope)[n] = Num(local) BY <1>1, <2>8
    <2> HIDE DEF local
    <2> QED BY <1>2, <2>9, <2>10 DEF Lookup
  <1> QED BY <1>4, <1>5

\* A builtin of numbers is what the bound is computed to.
LEMMA ArithmeticOfNumbers ==
    ASSUME NEW a, NEW b, NEW op \in {"+", "-"}, Compute(op, a, b) # None
    PROVE  Apply(Builtin(op), Num(a), Num(b)) = Num(Compute(op, a, b))
  BY TypesDiffer DEF Apply

\* Where names and operators are looked up alike, bounds are values.
LEMMA BoundsByNames ==
    ASSUME store \in Binding, NEW constants \in Knowledge, NEW forVars \in Knowledge,
           NEW locals \in Binding, NEW S \in SUBSET Name,
           \A n \in S : Known(n, constants, forVars) # None
                          => Lookup(n, locals) = Num(Known(n, constants, forVars)),
           \A op \in Operator : Lookup(op, locals) = Builtin(op),
           NEW e \in Expr, NamesOf(e) \subseteq S, BoundOf(e, constants, forVars) # None
    PROVE  Eval(e, locals) = Num(BoundOf(e, constants, forVars))
  <1>1. PICK f \in [Expr -> Constant] : \A x \in Expr :
           /\ BoundOf(x, constants, forVars) = f[x]
           /\ f[x] = BoundStep(x, constants, forVars, f)
    BY BoundIsDefined
  <1>2. PICK names \in [Expr -> SUBSET Name] : \A x \in Expr :
           NamesOf(x) = names[x] /\ names[x] = NamesStep(x, names)
    BY NamesAreDefined
  <1>3. PICK eval \in [Expr -> Evaluation] : \A x \in Expr :
           /\ \A env : Eval(x, env) = eval[x][env]
           /\ \A env \in Binding : eval[x][env] = EvalStep(x, env, eval)
    BY EvalIsDefined
  <1> DEFINE P == {x \in Expr : names[x] \subseteq S /\ f[x] # None
                                   => eval[x][locals] = Num(f[x])}
  <1>4. ASSUME NEW x \in Expr, \A y \in Expr : Rank[y] < Rank[x] => y \in P
        PROVE  x \in P
    <2> SUFFICES ASSUME names[x] \subseteq S, f[x] # None
                 PROVE  eval[x][locals] = Num(f[x])
      OBVIOUS
    <2>1. /\ f[x] = BoundStep(x, constants, forVars, f)
          /\ names[x] = NamesStep(x, names)
          /\ eval[x][locals] = EvalStep(x, locals, eval)
      BY <1>1, <1>2, <1>3
    <2>2. CASE x.form = "int" BY <2>1, <2>2 DEF BoundStep, EvalStep
    <2>3. CASE x.form = "symbol"
      <3>1. x.name \in S BY <2>1, <2>3 DEF NamesStep
      <3>2. f[x] = Known(x.name, constants, forVars) /\ eval[x][locals] = Lookup(x.name, locals)
        BY <2>1, <2>3 DEF BoundStep, EvalStep
      <3> QED BY <3>1, <3>2
    <2>4. CASE x.form = "app" /\ x.op \in {"+", "-"}
      <3>1. x.left \in P /\ x.right \in P BY <1>4, <2>4, PartsBelow
      <3>2. names[x] = names[x.left] \cup names[x.right] BY <2>1, <2>4 DEF NamesStep
      <3>3. /\ f[x.left] # None /\ f[x.right] # None
            /\ f[x] = Compute(x.op, f[x.left], f[x.right])
        BY <2>1, <2>4 DEF BoundStep
      <3>4. eval[x.left][locals] = Num(f[x.left]) /\ eval[x.right][locals] = Num(f[x.right])
        BY <3>1, <3>2, <3>3
      <3>5. Lookup(x.op, locals) = Builtin(x.op) BY <2>4 DEF Operator
      <3>6. eval[x][locals] = Apply(Builtin(x.op), Num(f[x.left]), Num(f[x.right]))
        BY <2>1, <2>4, <3>4, <3>5 DEF EvalStep
      <3> QED BY <2>4, <3>3, <3>6, ArithmeticOfNumbers
    <2>5. CASE ~(x.form \in {"int", "symbol"} \/ (x.form = "app" /\ x.op \in {"+", "-"}))
      BY <2>1, <2>5 DEF BoundStep
    <2> QED BY <2>2, <2>3, <2>4, <2>5
  <1>5. P = Expr
    <2>1. P \in SUBSET Expr OBVIOUS
    <2> HIDE DEF P
    <2> QED BY <1>4, <2>1, RankType, RankInduction
  <1> QED BY <1>1, <1>2, <1>3, <1>5

LEMMA BoundIsItsValue ==
    ASSUME store \in Binding, \A op \in Operator : store[op] = Builtin(op),
           NEW scope \in Seq(Binder), \A i \in DOMAIN scope : scope[i].name \notin Operator,
           NEW e \in Expr, \A n \in NamesOf(e) : ~IsLocal(n, scope),
           BoundOf(e, RuntimeConstants, ForVars(scope)) # None
    PROVE  Eval(e, LocalsOf(scope)) = Num(BoundOf(e, RuntimeConstants, ForVars(scope)))
  <1> DEFINE S == {n \in Name : ~IsLocal(n, scope)}
  <1>1. /\ RuntimeConstants \in Knowledge /\ ForVars(scope) \in Knowledge
        /\ LocalsOf(scope) \in Binding
    BY RuntimeConstantsType, ScopeTypes
  <1>2. \A n \in S : Known(n, RuntimeConstants, ForVars(scope)) # None
          => Lookup(n, LocalsOf(scope)) = Num(Known(n, RuntimeConstants, ForVars(scope)))
    BY NameIsValue
  <1>3. ASSUME NEW op \in Operator PROVE Lookup(op, LocalsOf(scope)) = Builtin(op)
    <2>1. BindersOf(scope, {"let", "for"}, op) = {} BY DEF BindersOf
    <2>2. op \in Name BY DEF Name
    <2>3. LocalsOf(scope)[op] = Unbound BY <2>1, <2>2, BoundByNone DEF LocalsOf
    <2>4. Builtin(op) # Unbound BY DEF Builtin, Unbound
    <2> QED BY <2>3, <2>4 DEF Lookup
  <1>4. NamesOf(e) \subseteq S
    <2>1. PICK names \in [Expr -> SUBSET Name] : \A x \in Expr : NamesOf(x) = names[x]
      BY NamesAreDefined
    <2>2. NamesOf(e) \subseteq Name BY <2>1
    <2> QED BY <2>2
  <1>5. S \in SUBSET Name OBVIOUS
  <1> HIDE DEF S
  <1> QED BY <1>1, <1>2, <1>3, <1>4, <1>5, BoundsByNames

-----------------------------------------------------------------------------
(* The invariant *)

\* An operator nobody defined is the builtin.
OperatorsKept == \A op \in Operator : op \notin redefined => store[op] = Builtin(op)

Inv ==
    /\ TypeOK
    /\ ConstantsSound
    /\ OperatorsKept
    /\ ForsAgree
    /\ BoundIsValue

\* A definition keeps the types, and what the compiler knows is what the
\* interpreter has then.
LEMMA DefKeepsInv ==
    ASSUME Inv, NEW n \in Name, NEW e \in Inits, Def(n, e)
    PROVE  Inv'
  <1> DEFINE marked == redefined \cup {n}
             folded == FoldInt(e, marked, NoConstants)
             value == IF n \notin ReservedName /\ Lowers(e) THEN Eval(e, NoLocals) ELSE Error
  <1> USE DEF Inv
  <1>1. /\ ~refused /\ redefined' = marked
        /\ integers' = Recorded(n, folded)
        /\ store' = IF value = Error THEN store ELSE [store EXCEPT ![n] = value]
        /\ refused' = (refused \/ value = Error)
        /\ last' = [form |-> "def"]
    BY DEF Def, Running
  <1>2. store \in Binding /\ integers \in Knowledge /\ redefined \subseteq Name
    BY DEF TypeOK
  <1>3. e \in Expr BY ExprAssumption
  <1>4. StoreIsKnown(marked) BY <1>1 DEF StoreIsKnown, ConstantsSound, OperatorsKept
  <1>5. /\ folded \in Constant
        /\ folded # None => Eval(e, NoLocals) \in {Error, Num(folded)}
    BY <1>2, <1>3, <1>4, FoldIsValue
  <1>6. value \in Result
    <2>1. NoLocals \in Binding BY DEF NoLocals, Binding
    <2> QED BY <1>2, <1>3, <2>1, EvalType DEF Result
  <1>7. folded # None => value \in {Error, Num(folded)} BY <1>5
  <1>8. integers' = [integers EXCEPT ![n] = folded] BY <1>1 DEF Recorded
  <1>9. marked \subseteq Name /\ n \in marked /\ redefined \subseteq marked BY <1>2
  <1> HIDE DEF folded, value, marked
  <1>10. TypeOK'
    <2>1. store' \in Binding BY <1>1, <1>2, <1>6, ValueFacts DEF Binding
    <2>2. integers' \in Knowledge BY <1>2, <1>5, <1>8 DEF Knowledge
    <2>3. refused' \in BOOLEAN BY <1>1 DEF TypeOK
    <2> QED BY <1>1, <1>9, <2>1, <2>2, <2>3 DEF TypeOK
  <1>11. ConstantsSound'
    <2> SUFFICES ASSUME ~refused', NEW m \in Name, integers'[m] # None
                 PROVE  store'[m] = Num(integers'[m])
      BY DEF ConstantsSound
    <2>1. value # Error BY <1>1
    <2>2. store' = [store EXCEPT ![n] = value] BY <1>1, <2>1
    <2>3. CASE m = n
      <3>1. integers'[m] = folded /\ store'[m] = value
        BY <1>2, <1>8, <2>2, <2>3 DEF Knowledge, Binding
      <3> QED BY <1>7, <2>1, <3>1
    <2>4. CASE m # n
      <3>1. integers'[m] = integers[m] /\ store'[m] = store[m]
        BY <1>2, <1>8, <2>2, <2>4 DEF Knowledge, Binding
      <3> QED BY <1>1, <3>1 DEF ConstantsSound
    <2> QED BY <2>3, <2>4
  <1>12. OperatorsKept'
    <2> SUFFICES ASSUME NEW op \in Operator, op \notin redefined'
                 PROVE  store'[op] = Builtin(op)
      BY DEF OperatorsKept
    <2>1. op # n /\ op \notin redefined BY <1>1, <1>9
    <2>2. store'[op] = store[op] BY <1>1, <1>2, <2>1 DEF Binding, Name
    <2> QED BY <2>1, <2>2 DEF OperatorsKept
  <1>13. ForsAgree' /\ BoundIsValue' BY <1>1 DEF ForsAgree, BoundIsValue
  <1> QED BY <1>10, <1>11, <1>12, <1>13

\* A `for` gets the bounds its properties speak of.
LEMMA ForLoopKeepsInv ==
    ASSUME Inv, NEW e \in Limits, NEW scope \in Scopes, ForLoop(e, scope)
    PROVE  Inv'
  <1> DEFINE interpreted == BoundOf(e, RuntimeConstants, ForVars(scope))
             compiled == BoundOf(e, integers, ForVars(scope))
             value == Eval(e, LocalsOf(scope))
             usesLocal == \E n \in NamesOf(e) : IsLocal(n, scope)
             operators == {scope[i].name : i \in DOMAIN scope} \cap Operator
  <1> USE DEF Inv
  <1>1. /\ ~refused
        /\ last' = [form |-> "for", interpreted |-> interpreted, compiled |-> compiled,
                    value |-> value, usesLocal |-> usesLocal, operators |-> operators]
        /\ refused' = (refused \/ interpreted = None \/ compiled = None)
        /\ UNCHANGED <<store, integers, redefined>>
    BY DEF ForLoop, Running
  <1>2. store \in Binding /\ integers \in Knowledge BY DEF TypeOK
  <1>3. e \in Expr /\ scope \in Seq(Binder) BY ExprAssumption
  <1>4. compiled # None => interpreted = compiled
    <2>1. ASSUME NEW n \in Name, integers[n] # None
          PROVE  RuntimeConstants[n] = integers[n]
      <3>1. store[n] = Num(integers[n]) BY <1>1, <2>1 DEF ConstantsSound
      <3>2. integers[n] \in Word BY <1>2, <2>1, WordFacts DEF Knowledge
      <3> QED BY <3>1, <3>2, TypesDiffer DEF RuntimeConstants
    <2>2. ForVars(scope) \in Knowledge BY <1>3, ScopeTypes
    <2> QED BY <1>2, <1>3, <2>1, <2>2, RuntimeConstantsType, BoundIsMonotone
  <1>5. interpreted # None /\ ~usesLocal /\ operators = {} /\ redefined \cap Operator = {}
          => value = Num(interpreted)
    <2> SUFFICES ASSUME interpreted # None, ~usesLocal, operators = {},
                        redefined \cap Operator = {}
                 PROVE  value = Num(interpreted)
      OBVIOUS
    <2>1. \A op \in Operator : store[op] = Builtin(op) BY DEF OperatorsKept
    <2>2. \A i \in DOMAIN scope : scope[i].name \notin Operator OBVIOUS
    <2>3. \A n \in NamesOf(e) : ~IsLocal(n, scope) OBVIOUS
    <2> QED BY <1>2, <1>3, <2>1, <2>2, <2>3, BoundIsItsValue
  <1> HIDE DEF interpreted, compiled, value, usesLocal, operators
  <1>6. TypeOK' BY <1>1 DEF TypeOK
  <1>7. ConstantsSound' BY <1>1 DEF ConstantsSound
  <1>8. OperatorsKept' BY <1>1 DEF OperatorsKept
  <1>9. ForsAgree' BY <1>1, <1>4 DEF ForsAgree
  <1>10. BoundIsValue' BY <1>1, <1>5 DEF BoundIsValue
  <1> QED BY <1>6, <1>7, <1>8, <1>9, <1>10

LEMMA Invariance == Spec => []Inv
  <1>1. Init => Inv
    <2> SUFFICES ASSUME Init PROVE Inv OBVIOUS
    <2>1. store \in Binding
      <3>1. \A n \in Operator : Builtin(n) \in Value BY DEF Value
      <3> QED BY <3>1 DEF Init, Binding
    <2>2. integers \in Knowledge BY WordFacts DEF Init, NoConstants, Knowledge
    <2>3. TypeOK BY <2>1, <2>2 DEF Init, TypeOK
    <2>4. ConstantsSound BY DEF Init, NoConstants, ConstantsSound
    <2>5. OperatorsKept
      <3>1. Operator \subseteq Name BY DEF Name
      <3> QED BY <3>1 DEF Init, OperatorsKept
    <2> QED BY <2>3, <2>4, <2>5 DEF Init, Inv, ForsAgree, BoundIsValue
  <1>2. Inv /\ [Next]_vars => Inv'
    <2> SUFFICES ASSUME Inv, [Next]_vars PROVE Inv' OBVIOUS
    <2>1. ASSUME NEW n \in Global \cup Redefinable \cup ReservedName, NEW e \in Inits, Def(n, e)
          PROVE  Inv'
      <3>1. n \in Name BY NamesAssumption DEF Name
      <3> QED BY <2>1, <3>1, DefKeepsInv
    <2>2. ASSUME NEW e \in Limits, NEW scope \in Scopes, ForLoop(e, scope)
          PROVE  Inv'
      BY <2>2, ForLoopKeepsInv
    <2>3. ASSUME UNCHANGED vars PROVE Inv'
      BY <2>3 DEF vars, Inv, TypeOK, ConstantsSound, OperatorsKept, ForsAgree, BoundIsValue
    <2> QED BY <2>1, <2>2, <2>3 DEF Next
  <1> QED BY <1>1, <1>2, PTL DEF Spec

-----------------------------------------------------------------------------
(* The theorems *)

\* Types: an initializer folds to a word or to nothing and evaluates to a value
\* or an error, whatever the programs define.
THEOREM ForConstantsTypes == Spec => []TypeOK
  <1>1. Inv => TypeOK BY DEF Inv
  <1> QED BY <1>1, Invariance, PTL

\* What ConstantEnv records is what the interpreter's global has, until a form is
\* refused: the folding of try_fold_int is sound for every expression, although
\* it never looks at what a let binds an operator to.
THEOREM FoldingIsSound == Spec => []ConstantsSound
  <1>1. Inv => ConstantsSound BY DEF Inv
  <1> QED BY <1>1, Invariance, PTL

\* eval_constant_int gives both front ends the same bound wherever the compiler
\* gets one.
THEOREM FrontEndsAgree == Spec => []ForsAgree
  <1>1. Inv => ForsAgree BY DEF Inv
  <1> QED BY <1>1, Invariance, PTL

\* The bound is the value of its expression where neither the program nor the
\* forms around give an operator or one of its names another meaning.
THEOREM BoundsAreValues == Spec => []BoundIsValue
  <1>1. Inv => BoundIsValue BY DEF Inv
  <1> QED BY <1>1, Invariance, PTL
=============================================================================
