-------------------------- MODULE EvaluatorProofs --------------------------
(***************************************************************************)
(* The interpreter is sound for the code it is given: what lower_expr makes *)
(* and verify_module lets through is evaluated without an internal error,  *)
(* whatever the sessions, the integers and the limits are.                 *)
(*                                                                         *)
(* The invariant says of every eval_* function in progress that a judgment *)
(* of `Code` holds of its expression in its frame, where the slots written *)
(* and the loop bodies entered so far take the place of those of the text. *)
(***************************************************************************)
EXTENDS Evaluator, SequenceLemmas

-----------------------------------------------------------------------------
(* The invariant *)

\* What can be said of a value by itself.
Plain(v) ==
    /\ v.type = "int" => v.int \in Word
    /\ v.type = "datum" => v.nodes \in Nat \ {0}

\* The function of a closure can be evaluated with what it captured.
FunctionOK(v) ==
    /\ IsSequence(v.function.params)
    /\ Judgment(v.function.body, Range(v.function.params), DOMAIN v.captures, {}) \in Code

\* So are the values captured by those captured, and so on: a value is one of
\* some values whose captured values are among them.
CapturesClosed(V) ==
    \A v \in V : /\ Plain(v)
                 /\ v.type = "closure" => /\ FunctionOK(v)
                                          /\ \A s \in DOMAIN v.captures : v.captures[s] \in V
ValueOK(v) == \E V : v \in V /\ CapturesClosed(V)

ValuesOK(f) == \A s \in DOMAIN f : ValueOK(f[s])

IsFrame(f) == DOMAIN f = {"locals", "captures", "konts"}
IsKont(k) == DOMAIN k = {"expr", "stage", "values", "iterations", "current"}

\* The loops whose bodies the first n eval_* functions of a frame are in.
Around(f, n) == {f.konts[j].expr.id : j \in {i \in 1..n : f.konts[i].stage = "body"}}

\* The expression can be evaluated in the frame, inside its first n functions.
FitsBy(c, f, n) ==
    /\ c.locals \subseteq DOMAIN f.locals
    /\ c.captures \subseteq DOMAIN f.captures
    /\ c.loops \subseteq Around(f, n)
Fits(e, f, n) == \E c \in Code : c.expr = e /\ FitsBy(c, f, n)

\* How far an expression is with its operands, or its loop.
AtOperands(k, written) ==
    /\ k.stage = "operands"
    /\ Len(k.values) <= Len(k.expr.operands)
    /\ k.expr.op = "range" => \A i \in 1..Len(k.values) : k.values[i].type = "int"
    /\ k.expr.op = "state" => \A i \in 1..Len(k.values) : k.expr.targets[i] \in written
InRange(k) ==
    /\ k.stage = "body" /\ k.expr.op = "range"
    /\ Len(k.values) = 3 /\ \A i \in 1..3 : k.values[i].type = "int"
InState(k, written) ==
    /\ k.stage \in {"cond", "body", "next"} /\ k.expr.op = "state"
    /\ Range(k.expr.targets) \subseteq written
    /\ k.stage = "next" => Len(k.values) < Len(k.expr.nexts)

Sane(k, written) ==
    /\ IsKont(k)
    /\ IsSequence(k.values) /\ ValuesOK(k.values)
    /\ k.current \in Word /\ k.iterations \in 0..MaxIterations
    /\ AtOperands(k, written) \/ InRange(k) \/ InState(k, written)
KontOK(f, j) == Fits(f.konts[j].expr, f, j - 1) /\ Sane(f.konts[j], DOMAIN f.locals)

\* It waits for the value of a subexpression.
Waiting(k) == k.stage = "operands" => Len(k.values) < Len(k.expr.operands)
Settled(f) == \A j \in 1..Len(f.konts) : Waiting(f.konts[j])

FrameOK(f) ==
    /\ IsFrame(f)
    /\ ValuesOK(f.locals) /\ ValuesOK(f.captures)
    /\ IsSequence(f.konts)
    /\ \A j \in 1..Len(f.konts) : KontOK(f, j)
    /\ \A j \in 1..(Len(f.konts) - 1) : Waiting(f.konts[j])

CallsOK(cs) ==
    /\ IsSequence(cs)
    /\ \A i \in 1..Len(cs) : FrameOK(cs[i])
    /\ \A i \in 1..(Len(cs) - 1) : Settled(cs[i])

\* What is to be done can be done in the innermost frame.
ControlOK(c, f) ==
    LET n == Len(f.konts) IN
    /\ c.at \in {"eval", "value", "break"} => Settled(f)
    /\ c.at = "eval" => Fits(c.expr, f, n)
    /\ c.at \in {"value", "break"} => ValueOK(c.value)
    /\ c.at = "break" => c.target \in Around(f, n)
    /\ c.at = "ready" => /\ c = Ready /\ n > 0
                         /\ f.konts[n].stage = "operands"
                         /\ Len(f.konts[n].values) = Len(f.konts[n].expr.operands)
    /\ c.at = "test" => c = Test /\ n > 0 /\ InRange(f.konts[n])

Machine(cs, c) ==
    \/ cs = <<>> /\ c = Idle
    \/ /\ cs # <<>> /\ c.at \in {"eval", "ready", "test", "value", "break"}
       /\ CallsOK(cs) /\ ControlOK(c, cs[Len(cs)])

Store ==
    /\ DOMAIN globals \subseteq GlobalName /\ ValuesOK(globals)
    /\ charged \in Nat /\ gensyms \in Nat

Forms ==
    /\ session \in Sessions
    /\ next \in 1..(Len(session) + 1)
    /\ control # Idle => next <= Len(session)
    /\ NoInternalError

Inv == Forms /\ Machine(calls, control) /\ Store

-----------------------------------------------------------------------------
(* Sequences of anything *)

LEMMA SequenceFacts ==
    ASSUME NEW s, IsSequence(s)
    PROVE  /\ Len(s) \in Nat /\ DOMAIN s = 1..Len(s)
           /\ s = <<>> <=> Len(s) = 0
           /\ \A i \in 1..Len(s) : s[i] \in Range(s)
  BY DEF IsSequence

LEMMA IsSequenceOf == ASSUME NEW S, NEW s \in Seq(S) PROVE IsSequence(s)
  <1>1. \A i \in 1..Len(s) : s[i] \in Range(s) BY DEF Range
  <1> QED BY <1>1 DEF IsSequence

LEMMA NoSequence == IsSequence(<<>>) /\ Len(<<>>) = 0 /\ DOMAIN <<>> = {}
  BY DEF IsSequence

LEMMA Pushed ==
    ASSUME NEW s, IsSequence(s), NEW x
    PROVE  LET t == Append(s, x)
           IN  /\ IsSequence(t) /\ Len(t) = Len(s) + 1 /\ t # <<>>
               /\ \A i \in 1..Len(s) : t[i] = s[i]
               /\ t[Len(t)] = x
  <1> DEFINE S == Range(s) \cup {x}
  <1>1. s \in Seq(S) /\ x \in S BY DEF IsSequence
  <1> HIDE DEF S
  <1>2. Append(s, x) \in Seq(S) BY <1>1
  <1>3. IsSequence(Append(s, x)) BY <1>2, IsSequenceOf
  <1>4. /\ Len(Append(s, x)) = Len(s) + 1 /\ Len(s) \in Nat
        /\ \A i \in 1..Len(s) : Append(s, x)[i] = s[i]
        /\ Append(s, x)[Len(s) + 1] = x
    BY <1>1
  <1> QED BY <1>1, <1>2, <1>3, <1>4

LEMMA Popped ==
    ASSUME NEW s, IsSequence(s), s # <<>>
    PROVE  LET t == Front(s)
           IN  /\ IsSequence(t) /\ Len(t) = Len(s) - 1 /\ Len(s) \in 1..Len(s)
               /\ \A i \in 1..(Len(s) - 1) : t[i] = s[i]
               /\ Last(s) = s[Len(s)]
  <1>1. s \in Seq(Range(s)) BY DEF IsSequence
  <1>2. Front(s) \in Seq(Range(s)) BY <1>1, FrontLast
  <1> QED BY <1>1, <1>2, IsSequenceOf, FrontLast

LEMMA Replaced ==
    ASSUME NEW s, IsSequence(s), s # <<>>, NEW x
    PROVE  LET t == Append(Front(s), x)
           IN  /\ IsSequence(t) /\ Len(t) = Len(s) /\ t # <<>>
               /\ \A i \in 1..(Len(s) - 1) : t[i] = s[i]
               /\ t[Len(s)] = x
  <1> DEFINE f == Front(s)
  <1>1. /\ IsSequence(f) /\ Len(f) = Len(s) - 1
        /\ \A i \in 1..(Len(s) - 1) : f[i] = s[i]
    BY Popped
  <1>2. Len(s) \in Nat BY SequenceFacts
  <1> HIDE DEF f
  <1>3. /\ IsSequence(Append(f, x)) /\ Len(Append(f, x)) = Len(f) + 1
        /\ Append(f, x) # <<>>
        /\ \A i \in 1..Len(f) : Append(f, x)[i] = f[i]
        /\ Append(f, x)[Len(Append(f, x))] = x
    BY <1>1, Pushed
  <1> QED BY <1>1, <1>2, <1>3 DEF f

LEMMA WithoutFirst ==
    ASSUME NEW s, IsSequence(s), s # <<>>
    PROVE  LET t == Tail(s)
           IN  /\ IsSequence(t) /\ Len(t) = Len(s) - 1
               /\ \A i \in 1..Len(t) : t[i] = s[i + 1]
  <1>1. s \in Seq(Range(s)) BY DEF IsSequence
  <1>2. Tail(s) \in Seq(Range(s)) BY <1>1
  <1>3. IsSequence(Tail(s)) BY <1>2, IsSequenceOf
  <1>4. Len(Tail(s)) = Len(s) - 1 /\ Len(s) \in Nat
    BY <1>1
  <1>5. \A i \in 1..Len(Tail(s)) : Tail(s)[i] = s[i + 1]
    BY <1>1, <1>4
  <1> QED BY <1>3, <1>4, <1>5

-----------------------------------------------------------------------------
(* Values *)

LEMMA PlainIsOK ==
    ASSUME NEW v, Plain(v), v.type # "closure" PROVE ValueOK(v)
  <1>1. CapturesClosed({v}) BY DEF CapturesClosed
  <1> QED BY <1>1 DEF ValueOK

LEMMA ValueIsPlain == ASSUME NEW v, ValueOK(v) PROVE Plain(v)
  BY DEF ValueOK, CapturesClosed

LEMMA ClosureParts ==
    ASSUME NEW v, ValueOK(v), v.type = "closure"
    PROVE  FunctionOK(v) /\ ValuesOK(v.captures)
  BY DEF ValueOK, CapturesClosed, ValuesOK

LEMMA ClosureIsOK ==
    ASSUME NEW v, Plain(v), v.type = "closure", FunctionOK(v), ValuesOK(v.captures)
    PROVE  ValueOK(v)
  <1> DEFINE among(s) == CHOOSE V : v.captures[s] \in V /\ CapturesClosed(V)
             W == {v} \cup UNION {among(s) : s \in DOMAIN v.captures}
  <1>1. ASSUME NEW s \in DOMAIN v.captures
        PROVE  v.captures[s] \in among(s) /\ CapturesClosed(among(s))
    <2>1. \E V : v.captures[s] \in V /\ CapturesClosed(V)
      BY DEF ValuesOK, ValueOK
    <2> QED BY <2>1, Zenon
  <1> HIDE DEF among
  <1>2. \A s \in DOMAIN v.captures : v.captures[s] \in W BY <1>1
  <1>3. ASSUME NEW w \in W
        PROVE  /\ Plain(w)
               /\ w.type = "closure" =>
                     FunctionOK(w) /\ \A s \in DOMAIN w.captures : w.captures[s] \in W
    <2>1. CASE w = v BY <1>2, <2>1
    <2>2. CASE w # v
      <3>1. PICK s \in DOMAIN v.captures : w \in among(s) BY <2>2
      <3>2. among(s) \subseteq W OBVIOUS
      <3> HIDE DEF W
      <3> QED BY <1>1, <3>1, <3>2 DEF CapturesClosed
    <2> QED BY <2>1, <2>2
  <1>4. v \in W OBVIOUS
  <1> HIDE DEF W
  <1>5. CapturesClosed(W) BY <1>3 DEF CapturesClosed
  <1> QED BY <1>4, <1>5 DEF ValueOK

LEMMA StoredFacts ==
    ASSUME NEW locals, ValuesOK(locals), NEW slots, IsSequence(slots),
           NEW values, IsSequence(values), ValuesOK(values), Len(slots) <= Len(values)
    PROVE  LET t == Stored(locals, slots, values)
           IN  DOMAIN t = DOMAIN locals \cup Range(slots) /\ ValuesOK(t)
  <1> DEFINE t == Stored(locals, slots, values)
             at(s) == CHOOSE i \in DOMAIN slots : slots[i] = s
  <1>1. /\ DOMAIN t = DOMAIN locals \cup Range(slots)
        /\ \A s \in DOMAIN t : t[s] = IF s \in Range(slots) THEN values[at(s)]
                                     ELSE locals[s]
    BY DEF Stored
  <1>2. ASSUME NEW s \in Range(slots) PROVE ValueOK(values[at(s)])
    <2>1. at(s) \in DOMAIN slots BY DEF Range
    <2>2. DOMAIN slots \subseteq DOMAIN values BY SequenceFacts
    <2> HIDE DEF at
    <2> QED BY <2>1, <2>2 DEF ValuesOK
  <1> HIDE DEF t, at
  <1>3. ValuesOK(t) BY <1>1, <1>2 DEF ValuesOK
  <1> QED BY <1>1, <1>3 DEF t

LEMMA OneStored ==
    ASSUME NEW locals, ValuesOK(locals), NEW slot, NEW v, ValueOK(v)
    PROVE  LET t == Stored(locals, <<slot>>, <<v>>)
           IN  DOMAIN t = DOMAIN locals \cup {slot} /\ ValuesOK(t)
  <1>1. IsSequence(<<slot>>) /\ IsSequence(<<v>>)
    <2>1. <<slot>> \in Seq({slot}) /\ <<v>> \in Seq({v}) OBVIOUS
    <2> QED BY <2>1, IsSequenceOf
  <1>2. ValuesOK(<<v>>) BY DEF ValuesOK
  <1>3. Len(<<slot>>) <= Len(<<v>>) /\ Range(<<slot>>) = {slot} BY DEF Range
  <1> QED BY <1>1, <1>2, <1>3, StoredFacts

-----------------------------------------------------------------------------
(* Sums: the nodes of a new datum *)

\* What a fold of + over the elements of S computes for each subset of S.
SumEquation(g, F, base, S, s) ==
    g[s] = IF s = {} THEN base
           ELSE F[CHOOSE x \in s : TRUE] + g[s \ {CHOOSE x \in s : TRUE}]

\* The sums over the subsets of at most n elements.
SumsUpTo(F, base, S, n) ==
    LET small == {s \in SUBSET S : Cardinality(s) <= n} IN
    \E g : /\ g \in [small -> Nat \ {0}]
           /\ \A s \in small : SumEquation(g, F, base, S, s)

LEMMA OneLess ==
    ASSUME NEW S, IsFiniteSet(S), NEW s \in SUBSET S, s # {}
    PROVE  LET x == CHOOSE x \in s : TRUE
           IN  /\ x \in s /\ s \ {x} \in SUBSET S
               /\ Cardinality(s) \in Nat /\ Cardinality(s \ {x}) = Cardinality(s) - 1
  <1> DEFINE x == CHOOSE x \in s : TRUE
  <1>1. x \in s OBVIOUS
  <1>2. IsFiniteSet(s) BY FS_Subset
  <1> HIDE DEF x
  <1>3. Cardinality(s) \in Nat BY <1>2, FS_CardinalityType
  <1>4. Cardinality(s \ {x}) = Cardinality(s) - 1 BY <1>1, <1>2, FS_RemoveElement
  <1> QED BY <1>1, <1>3, <1>4 DEF x

LEMMA FirstSums ==
    ASSUME NEW S, IsFiniteSet(S), NEW F, NEW base \in Nat \ {0}
    PROVE  SumsUpTo(F, base, S, 0)
  <1> DEFINE small == {s \in SUBSET S : Cardinality(s) <= 0}
             g == [s \in small |-> base]
  <1>1. ASSUME NEW s \in small PROVE s = {}
    <2>1. IsFiniteSet(s) BY FS_Subset
    <2>2. Cardinality(s) \in Nat /\ Cardinality(s) <= 0 BY <2>1, FS_CardinalityType
    <2>3. Cardinality(s) = 0 BY <2>2
    <2> QED BY <2>1, <2>3, FS_EmptySet
  <1>2. \A s \in small : g[s] = base OBVIOUS
  <1>3. g \in [small -> Nat \ {0}] OBVIOUS
  <1> HIDE DEF g
  <1>4. \A s \in small : SumEquation(g, F, base, S, s)
    BY <1>1, <1>2 DEF SumEquation
  <1> QED BY <1>3, <1>4 DEF SumsUpTo

LEMMA MoreSums ==
    ASSUME NEW S, IsFiniteSet(S), NEW F \in [S -> Nat], NEW base \in Nat \ {0},
           NEW n \in Nat, SumsUpTo(F, base, S, n)
    PROVE  SumsUpTo(F, base, S, n + 1)
  <1> DEFINE small == {s \in SUBSET S : Cardinality(s) <= n}
             larger == {s \in SUBSET S : Cardinality(s) <= n + 1}
             x(s) == CHOOSE x \in s : TRUE
  <1>1. PICK g : /\ g \in [small -> Nat \ {0}]
                 /\ \A s \in small : SumEquation(g, F, base, S, s)
    BY DEF SumsUpTo
  <1> DEFINE h == [s \in larger |-> IF s = {} THEN base ELSE F[x(s)] + g[s \ {x(s)}]]
  <1>2. ASSUME NEW s \in larger, s # {}
        PROVE  x(s) \in S /\ s \ {x(s)} \in small /\ F[x(s)] + g[s \ {x(s)}] \in Nat \ {0}
    <2>1. /\ x(s) \in s /\ s \ {x(s)} \in SUBSET S /\ Cardinality(s) \in Nat
          /\ Cardinality(s \ {x(s)}) = Cardinality(s) - 1
      BY <1>2, OneLess
    <2>2. Cardinality(s) <= n + 1 /\ s \in SUBSET S OBVIOUS
    <2> HIDE DEF x, larger
    <2>3. x(s) \in S /\ s \ {x(s)} \in small BY <2>1, <2>2
    <2>4. F[x(s)] \in Nat BY <2>3
    <2> HIDE DEF small
    <2>5. g[s \ {x(s)}] \in Nat \ {0} BY <1>1, <2>3
    <2> QED BY <2>3, <2>4, <2>5
  <1>3. h \in [larger -> Nat \ {0}]
    <2> HIDE DEF larger, x
    <2> QED BY <1>2
  <1>4. ASSUME NEW s \in small PROVE s \in larger
    <2>1. IsFiniteSet(s) BY FS_Subset
    <2>2. Cardinality(s) \in Nat /\ Cardinality(s) <= n BY <2>1, FS_CardinalityType
    <2>3. Cardinality(s) <= n + 1 BY <2>2
    <2> QED BY <2>3
  <1>5. ASSUME NEW s \in larger
        PROVE  h[s] = IF s = {} THEN base ELSE F[x(s)] + g[s \ {x(s)}]
    OBVIOUS
  <1> HIDE DEF h, small, larger
  <1>6. ASSUME NEW s \in small PROVE h[s] = g[s]
    <2>1. g[s] = IF s = {} THEN base ELSE F[x(s)] + g[s \ {x(s)}]
      BY <1>1 DEF SumEquation
    <2> HIDE DEF x
    <2> QED BY <1>4, <1>5, <2>1
  <1>7. ASSUME NEW s \in larger PROVE SumEquation(h, F, base, S, s)
    <2>1. s # {} => h[s \ {x(s)}] = g[s \ {x(s)}] BY <1>2, <1>6
    <2>2. h[s] = IF s = {} THEN base ELSE F[x(s)] + g[s \ {x(s)}] BY <1>5
    <2>3. h[s] = IF s = {} THEN base ELSE F[x(s)] + h[s \ {x(s)}]
      <3> HIDE DEF x
      <3> QED BY <2>1, <2>2
    <2> QED BY <2>3 DEF SumEquation
  <1> QED BY <1>3, <1>7 DEF SumsUpTo, larger

\* There is a function of the sums, by the least size for which there is none.
LEMMA SumsExist ==
    ASSUME NEW S, IsFiniteSet(S), NEW F \in [S -> Nat], NEW base \in Nat \ {0}
    PROVE  \E g \in [SUBSET S -> Nat \ {0}] :
              \A s \in SUBSET S : SumEquation(g, F, base, S, s)
  <1> DEFINE n == Cardinality(S)
             P == {m \in 1..(n + 1) : ~SumsUpTo(F, base, S, m - 1)}
  <1>1. n \in Nat BY FS_CardinalityType
  <1>2. P = {}
    <2> SUFFICES ASSUME P # {} PROVE FALSE OBVIOUS
    <2>1. PICK m \in P : \A j \in P : m <= j
      <3> HIDE DEF n
      <3>1. P \in SUBSET (1..(n + 1)) /\ n + 1 \in Nat BY <1>1
      <3> HIDE DEF P
      <3> QED BY <3>1, FirstPosition
    <2>2. m \in 1..(n + 1) /\ ~SumsUpTo(F, base, S, m - 1) OBVIOUS
    <2> HIDE DEF n
    <2>3. CASE m = 1
      <3>1. m - 1 = 0 BY <2>3
      <3> QED BY <2>2, <3>1, FirstSums
    <2>4. CASE m # 1
      <3>1. m - 1 \in 1..(n + 1) /\ m - 2 \in Nat /\ (m - 1) - 1 = m - 2
            /\ (m - 2) + 1 = m - 1 /\ ~(m <= m - 1)
        BY <1>1, <2>2, <2>4
      <3>2. m - 1 \notin P
        <4> HIDE DEF P
        <4> QED BY <2>1, <3>1
      <3>3. SumsUpTo(F, base, S, m - 2) BY <3>1, <3>2
      <3> HIDE DEF P
      <3>4. SumsUpTo(F, base, S, (m - 2) + 1) BY <3>1, <3>3, MoreSums
      <3> QED BY <2>2, <3>1, <3>4
    <2> QED BY <2>3, <2>4
  <1>3. SumsUpTo(F, base, S, n)
    <2> HIDE DEF n
    <2>1. n + 1 \in 1..(n + 1) /\ (n + 1) - 1 = n BY <1>1
    <2> QED BY <1>2, <2>1
  <1>4. {s \in SUBSET S : Cardinality(s) <= n} = SUBSET S BY FS_Subset
  <1> QED BY <1>3, <1>4 DEF SumsUpTo

\* However the sums are come by, they are natural.
LEMMA SumsAreNatural ==
    ASSUME NEW S, IsFiniteSet(S), NEW F \in [S -> Nat], NEW base \in Nat \ {0},
           NEW g, \A s \in SUBSET S : SumEquation(g, F, base, S, s)
    PROVE  g[S] \in Nat \ {0}
  <1>1. PICK h \in [SUBSET S -> Nat \ {0}] :
           \A s \in SUBSET S : SumEquation(h, F, base, S, s)
    BY SumsExist
  <1> DEFINE n == Cardinality(S)
             P == {m \in 1..(n + 1) : \E s \in SUBSET S : Cardinality(s) = m - 1 /\ g[s] # h[s]}
  <1>2. n \in Nat BY FS_CardinalityType
  <1>3. P = {}
    <2> SUFFICES ASSUME P # {} PROVE FALSE OBVIOUS
    <2>1. PICK m \in P : \A j \in P : m <= j
      <3> HIDE DEF n
      <3>1. P \in SUBSET (1..(n + 1)) /\ n + 1 \in Nat BY <1>2
      <3> HIDE DEF P
      <3> QED BY <3>1, FirstPosition
    <2>2. m \in 1..(n + 1) OBVIOUS
    <2>3. PICK s \in SUBSET S : Cardinality(s) = m - 1 /\ g[s] # h[s] OBVIOUS
    <2> DEFINE x == CHOOSE x \in s : TRUE
    <2>4. s # {} /\ g[s] = F[x] + g[s \ {x}] /\ h[s] = F[x] + h[s \ {x}]
      BY <1>1, <2>3 DEF SumEquation
    <2>5. /\ s \ {x} \in SUBSET S
          /\ Cardinality(s) \in Nat /\ Cardinality(s \ {x}) = Cardinality(s) - 1
      BY <2>4, OneLess
    <2> HIDE DEF x, n
    <2>6. g[s \ {x}] # h[s \ {x}] BY <2>3, <2>4
    <2>7. /\ Cardinality(s \ {x}) \in Nat /\ Cardinality(s \ {x}) = (m - 1) - 1
          /\ m - 1 \in 1..(n + 1) /\ ~(m <= m - 1)
      <3>1. IsFiniteSet(s \ {x}) BY <2>5, FS_Subset
      <3>2. Cardinality(s \ {x}) \in Nat BY <3>1, FS_CardinalityType
      <3> QED BY <1>2, <2>2, <2>3, <2>5, <3>2
    <2>8. m - 1 \in P BY <2>5, <2>6, <2>7
    <2> HIDE DEF P
    <2> QED BY <2>1, <2>7, <2>8
  <1>4. g[S] = h[S]
    <2> HIDE DEF n
    <2>1. n + 1 \in 1..(n + 1) /\ (n + 1) - 1 = n BY <1>2
    <2>2. n + 1 \notin P BY <1>3
    <2>3. S \in SUBSET S OBVIOUS
    <2> QED BY <2>1, <2>2, <2>3 DEF n
  <1> QED BY <1>1, <1>4

\* The fold of + over a function, and over what the elements of a sequence count.
LEMMA SumIsNatural ==
    ASSUME NEW S, IsFiniteSet(S), NEW F \in [S -> Nat], NEW base \in Nat \ {0}
    PROVE  FoldFunction(+, base, F) \in Nat \ {0}
  <1> DEFINE body(g) == [s \in SUBSET S |->
                           IF s = {} THEN base
                           ELSE F[CHOOSE x \in s : TRUE] + g[s \ {CHOOSE x \in s : TRUE}]]
             sums == CHOOSE g : g = body(g)
  <1>1. PICK g \in [SUBSET S -> Nat \ {0}] :
           \A s \in SUBSET S : SumEquation(g, F, base, S, s)
    BY SumsExist
  <1>2. g = body(g) BY <1>1 DEF SumEquation
  <1>3. sums = body(sums)
    <2> HIDE DEF body
    <2> QED BY <1>2, Zenon
  <1>4. FoldFunction(+, base, F) = sums[S]
    <2>1. DOMAIN F = S OBVIOUS
    <2> QED BY <2>1 DEF FoldFunction, FoldFunctionOnSet, MapThenFoldSet
  <1> HIDE DEF sums
  <1>5. \A s \in SUBSET S : SumEquation(sums, F, base, S, s) BY <1>3 DEF SumEquation
  <1> QED BY <1>4, <1>5, SumsAreNatural

LEMMA CountIsNatural ==
    ASSUME NEW args, IsSequence(args), \A i \in DOMAIN args : NodesOf(args[i]) \in Nat
    PROVE  ListNodes(args) \in Nat \ {0}
  <1> DEFINE S == DOMAIN args
             F == [i \in S |-> NodesOf(args[i])]
             body(g) == [s \in SUBSET S |->
                           IF s = {} THEN 1
                           ELSE NodesOf(args[CHOOSE x \in s : TRUE])
                                + g[s \ {CHOOSE x \in s : TRUE}]]
             sums == CHOOSE g : g = body(g)
  <1>1. IsFiniteSet(S)
    <2>1. S = 1..Len(args) /\ Len(args) \in Nat BY SequenceFacts
    <2> QED BY <2>1, FS_Interval
  <1>2. F \in [S -> Nat] /\ 1 \in Nat \ {0} OBVIOUS
  <1>3. PICK g \in [SUBSET S -> Nat \ {0}] :
           \A s \in SUBSET S : SumEquation(g, F, 1, S, s)
    <2> HIDE DEF F, S
    <2> QED BY <1>1, <1>2, SumsExist
  <1>4. ASSUME NEW h, NEW s \in SUBSET S
        PROVE  SumEquation(h, F, 1, S, s) <=> h[s] = body(h)[s]
    <2>1. s # {} => F[CHOOSE x \in s : TRUE] = NodesOf(args[CHOOSE x \in s : TRUE])
      OBVIOUS
    <2> HIDE DEF F
    <2> QED BY <2>1 DEF SumEquation
  <1>5. g = body(g)
    <2>1. \A s \in SUBSET S : g[s] = body(g)[s] BY <1>3, <1>4
    <2>2. DOMAIN body(g) = SUBSET S /\ body(g) = [s \in SUBSET S |-> body(g)[s]] OBVIOUS
    <2> HIDE DEF body
    <2> QED BY <1>3, <2>1, <2>2
  <1>6. sums = body(sums)
    <2> HIDE DEF body
    <2> QED BY <1>5, Zenon
  <1>7. ListNodes(args) = sums[S]
    BY DEF ListNodes, FoldSeq, FoldFunction, FoldFunctionOnSet, MapThenFoldSet
  <1> HIDE DEF sums, body, F, S
  <1>8. \A s \in SUBSET S : SumEquation(sums, F, 1, S, s) BY <1>4, <1>6
  <1> QED BY <1>1, <1>2, <1>7, <1>8, SumsAreNatural

-----------------------------------------------------------------------------
(* Frames *)

\* g is f with these slots and functions.
Becomes(f, g, locals, konts) ==
    /\ IsFrame(g) /\ g.captures = f.captures
    /\ g.locals = locals /\ g.konts = konts

LEMMA FrameUpdates ==
    ASSUME NEW f, IsFrame(f), NEW locals, NEW konts
    PROVE  /\ Becomes(f, [f EXCEPT !.locals = locals, !.konts = konts], locals, konts)
           /\ Becomes(f, [f EXCEPT !.konts = konts], f.locals, konts)
  BY DEF IsFrame, Becomes

\* The same functions in a frame with more slots written.
LEMMA FitsMore ==
    ASSUME NEW f, NEW g, NEW n \in Nat,
           DOMAIN f.locals \subseteq DOMAIN g.locals, f.captures = g.captures,
           \A i \in 1..n : g.konts[i] = f.konts[i]
    PROVE  /\ \A m \in 0..n : Around(g, m) = Around(f, m)
           /\ \A m \in 0..n, c \in Code : FitsBy(c, f, m) => FitsBy(c, g, m)
           /\ \A j \in 1..n : KontOK(f, j) => KontOK(g, j)
  <1>1. ASSUME NEW m \in 0..n PROVE Around(g, m) = Around(f, m)
    <2>1. \A i \in 1..m : g.konts[i] = f.konts[i] OBVIOUS
    <2> QED BY <2>1 DEF Around
  <1>2. ASSUME NEW m \in 0..n, NEW c \in Code, FitsBy(c, f, m) PROVE FitsBy(c, g, m)
    BY <1>1, <1>2 DEF FitsBy
  <1>3. ASSUME NEW j \in 1..n, KontOK(f, j) PROVE KontOK(g, j)
    <2>1. Fits(g.konts[j].expr, g, j - 1)
      <3>1. j - 1 \in 0..n OBVIOUS
      <3> QED BY <1>2, <1>3, <3>1 DEF KontOK, Fits
    <2>2. Sane(g.konts[j], DOMAIN g.locals)
      BY <1>3 DEF KontOK, Sane, AtOperands, InState
    <2> QED BY <2>1, <2>2 DEF KontOK
  <1> QED BY <1>1, <1>2, <1>3

\* In the functions called by these, too.
LEMMA FitsInside ==
    ASSUME NEW f, NEW m \in Nat, NEW n \in Nat, m <= n
    PROVE  /\ Around(f, m) \subseteq Around(f, n)
           /\ \A c \in Code : FitsBy(c, f, m) => FitsBy(c, f, n)
  <1>1. Around(f, m) \subseteq Around(f, n) BY DEF Around
  <1> QED BY <1>1 DEF FitsBy

LEMMA Popping ==
    ASSUME NEW f, FrameOK(f), f.konts # <<>>,
           NEW locals, ValuesOK(locals), DOMAIN f.locals \subseteq DOMAIN locals,
           NEW g, Becomes(f, g, locals, Front(f.konts))
    PROVE  LET n == Len(f.konts)
           IN  /\ FrameOK(g) /\ Settled(g)
               /\ n \in Nat /\ n > 0 /\ Len(g.konts) = n - 1
               /\ Around(g, n - 1) = Around(f, n - 1)
               /\ \A c \in Code : FitsBy(c, f, n - 1) => FitsBy(c, g, n - 1)
  <1> DEFINE n == Len(f.konts)
  <1>1. IsSequence(f.konts) BY DEF FrameOK
  <1>2. n \in Nat /\ n > 0 BY <1>1, SequenceFacts
  <1>3. /\ IsSequence(g.konts) /\ Len(g.konts) = n - 1
        /\ \A i \in 1..(n - 1) : g.konts[i] = f.konts[i]
    BY <1>1, Popped DEF Becomes
  <1>4. g.locals = locals /\ g.captures = f.captures /\ IsFrame(g)
    BY DEF Becomes
  <1>5. n - 1 \in Nat BY <1>2
  <1>6. /\ \A m \in 0..(n - 1) : Around(g, m) = Around(f, m)
        /\ \A m \in 0..(n - 1), c \in Code : FitsBy(c, f, m) => FitsBy(c, g, m)
        /\ \A j \in 1..(n - 1) : KontOK(f, j) => KontOK(g, j)
    <2> HIDE DEF n
    <2> QED BY <1>3, <1>4, <1>5, FitsMore
  <1>7. \A j \in 1..(n - 1) : KontOK(g, j) /\ Waiting(g.konts[j])
    BY <1>2, <1>3, <1>6 DEF FrameOK
  <1>8. Settled(g) BY <1>3, <1>7 DEF Settled
  <1>9. FrameOK(g) BY <1>2, <1>3, <1>4, <1>7 DEF FrameOK
  <1> QED BY <1>2, <1>3, <1>4, <1>5, <1>6, <1>8, <1>9

\* The innermost function goes on to k.
LEMMA Replacing ==
    ASSUME NEW f, FrameOK(f), f.konts # <<>>,
           NEW locals, ValuesOK(locals), DOMAIN f.locals \subseteq DOMAIN locals,
           NEW k, k.expr = f.konts[Len(f.konts)].expr, Sane(k, DOMAIN locals),
           NEW g, Becomes(f, g, locals, Append(Front(f.konts), k))
    PROVE  LET n == Len(f.konts)
           IN  /\ FrameOK(g) /\ (Waiting(k) => Settled(g))
               /\ n \in Nat /\ n > 0 /\ Len(g.konts) = n /\ g.konts[n] = k
               /\ Around(f, n - 1) \subseteq Around(g, n)
               /\ k.stage = "body" => k.expr.id \in Around(g, n)
               /\ \A c \in Code : FitsBy(c, f, n - 1) => FitsBy(c, g, n)
  <1> DEFINE n == Len(f.konts)
  <1>1. IsSequence(f.konts) BY DEF FrameOK
  <1>2. n \in Nat /\ n > 0 BY <1>1, SequenceFacts
  <1>3. /\ IsSequence(g.konts) /\ Len(g.konts) = n /\ g.konts[n] = k
        /\ \A i \in 1..(n - 1) : g.konts[i] = f.konts[i]
    BY <1>1, Replaced DEF Becomes
  <1>4. g.locals = locals /\ g.captures = f.captures /\ IsFrame(g)
    BY DEF Becomes
  <1>5. n - 1 \in Nat BY <1>2
  <1>6. /\ \A m \in 0..(n - 1) : Around(g, m) = Around(f, m)
        /\ \A m \in 0..(n - 1), c \in Code : FitsBy(c, f, m) => FitsBy(c, g, m)
        /\ \A j \in 1..(n - 1) : KontOK(f, j) => KontOK(g, j)
    <2> HIDE DEF n
    <2> QED BY <1>3, <1>4, <1>5, FitsMore
  <1>7. \A j \in 1..(n - 1) : KontOK(g, j) /\ Waiting(g.konts[j])
    BY <1>2, <1>3, <1>6 DEF FrameOK
  <1>8. KontOK(g, n)
    <2>1. Fits(k.expr, f, n - 1) BY <1>2 DEF FrameOK, KontOK
    <2>2. n - 1 \in 0..(n - 1) BY <1>5
    <2>3. Fits(k.expr, g, n - 1) BY <1>6, <2>1, <2>2 DEF Fits
    <2> QED BY <1>3, <1>4, <2>3 DEF KontOK
  <1>9. \A j \in 1..n : j \in 1..(n - 1) \/ j = n BY <1>2
  <1>10. Waiting(k) => Settled(g) BY <1>3, <1>7, <1>9 DEF Settled
  <1>11. FrameOK(g) BY <1>3, <1>4, <1>7, <1>8, <1>9 DEF FrameOK
  <1>12. Around(g, n - 1) = Around(f, n - 1)
    <2>1. n - 1 \in 0..(n - 1) BY <1>5
    <2> QED BY <1>6, <2>1
  <1>13. /\ Around(g, n - 1) \subseteq Around(g, n)
         /\ \A c \in Code : FitsBy(c, g, n - 1) => FitsBy(c, g, n)
    <2> HIDE DEF n
    <2>1. n - 1 <= n BY <1>2
    <2> QED BY <1>2, <1>5, <2>1, FitsInside
  <1>14. k.stage = "body" => k.expr.id \in Around(g, n)
    BY <1>2, <1>3 DEF Around
  <1>15. \A c \in Code : FitsBy(c, f, n - 1) => FitsBy(c, g, n)
    <2>1. n - 1 \in 0..(n - 1) BY <1>5
    <2> QED BY <1>6, <1>13, <2>1
  <1> QED BY <1>2, <1>3, <1>10, <1>11, <1>12, <1>13, <1>14, <1>15

\* A function is called for an expression of the innermost one.
LEMMA Pushing ==
    ASSUME NEW f, FrameOK(f), Settled(f),
           NEW k, Fits(k.expr, f, Len(f.konts)), Sane(k, DOMAIN f.locals),
           NEW g, Becomes(f, g, f.locals, Append(f.konts, k))
    PROVE  LET n == Len(f.konts)
           IN  /\ FrameOK(g) /\ (Waiting(k) => Settled(g))
               /\ n \in Nat /\ Len(g.konts) = n + 1 /\ g.konts[n + 1] = k
               /\ \A c \in Code : FitsBy(c, f, n) => FitsBy(c, g, n + 1)
  <1> DEFINE n == Len(f.konts)
  <1>1. IsSequence(f.konts) BY DEF FrameOK
  <1>2. n \in Nat BY <1>1, SequenceFacts
  <1>3. /\ IsSequence(g.konts) /\ Len(g.konts) = n + 1 /\ g.konts[n + 1] = k
        /\ \A i \in 1..n : g.konts[i] = f.konts[i]
    BY <1>1, <1>2, Pushed DEF Becomes
  <1>4. g.locals = f.locals /\ g.captures = f.captures /\ IsFrame(g)
    BY DEF Becomes
  <1>5. /\ \A m \in 0..n, c \in Code : FitsBy(c, f, m) => FitsBy(c, g, m)
        /\ \A j \in 1..n : KontOK(f, j) => KontOK(g, j)
    <2> HIDE DEF n
    <2> QED BY <1>2, <1>3, <1>4, FitsMore
  <1>6. \A j \in 1..n : KontOK(g, j) /\ Waiting(g.konts[j])
    BY <1>3, <1>5 DEF FrameOK, Settled
  <1>7. KontOK(g, n + 1)
    <2>1. n \in 0..n BY <1>2
    <2>2. Fits(k.expr, g, n) BY <1>5, <2>1 DEF Fits
    <2>3. (n + 1) - 1 = n BY <1>2
    <2> QED BY <1>3, <1>4, <2>2, <2>3 DEF KontOK
  <1>8. \A j \in 1..(n + 1) : j \in 1..n \/ j = n + 1 BY <1>2
  <1>9. Waiting(k) => Settled(g) BY <1>3, <1>6, <1>8 DEF Settled
  <1>10. FrameOK(g)
    <2>1. \A j \in 1..(Len(g.konts) - 1) : Waiting(g.konts[j]) BY <1>2, <1>3, <1>6
    <2>2. \A j \in 1..Len(g.konts) : KontOK(g, j) BY <1>3, <1>6, <1>7, <1>8
    <2> QED BY <1>3, <1>4, <2>1, <2>2 DEF FrameOK
  <1>11. \A c \in Code : FitsBy(c, f, n) => FitsBy(c, g, n + 1)
    <2>1. \A c \in Code : FitsBy(c, g, n) => FitsBy(c, g, n + 1)
      <3> HIDE DEF n
      <3>1. n + 1 \in Nat /\ n <= n + 1 BY <1>2
      <3> QED BY <1>2, <3>1, FitsInside
    <2>2. n \in 0..n BY <1>2
    <2> QED BY <1>5, <2>1, <2>2
  <1> QED BY <1>2, <1>3, <1>9, <1>10, <1>11

-----------------------------------------------------------------------------
(* The machine *)

\* g takes the place of the innermost frame.
LEMMA InnermostReplaced ==
    ASSUME NEW cs, cs # <<>>, CallsOK(cs), NEW g, FrameOK(g)
    PROVE  LET t == Append(Front(cs), g)
           IN  /\ CallsOK(t) /\ t # <<>> /\ t[Len(t)] = g
               /\ Settled(g) => \A i \in 1..Len(t) : Settled(t[i])
  <1> DEFINE t == Append(Front(cs), g)
             n == Len(cs)
  <1>1. IsSequence(cs) BY DEF CallsOK
  <1>2. n \in Nat /\ n > 0 BY <1>1, SequenceFacts
  <1>3. /\ IsSequence(t) /\ Len(t) = n /\ t # <<>> /\ t[n] = g
        /\ \A i \in 1..(n - 1) : t[i] = cs[i]
    BY <1>1, Replaced
  <1> HIDE DEF t
  <1>4. \A i \in 1..n : i \in 1..(n - 1) \/ i = n BY <1>2
  <1>5. CallsOK(t) BY <1>2, <1>3, <1>4 DEF CallsOK
  <1>6. ASSUME Settled(g) PROVE \A i \in 1..Len(t) : Settled(t[i])
    BY <1>3, <1>4, <1>6 DEF CallsOK
  <1> QED BY <1>3, <1>5, <1>6 DEF t

LEMMA GoesOn ==
    ASSUME NEW cs, cs # <<>>, CallsOK(cs), NEW g, FrameOK(g),
           NEW c, c.at \in {"eval", "ready", "test", "value", "break"}, ControlOK(c, g)
    PROVE  Machine(Append(Front(cs), g), c)
  BY InnermostReplaced DEF Machine

\* A function is called, or a form is begun.
LEMMA Calls ==
    ASSUME NEW cs, CallsOK(cs), \A i \in 1..Len(cs) : Settled(cs[i]), NEW g, FrameOK(g),
           NEW c, c.at \in {"eval", "ready", "test", "value", "break"}, ControlOK(c, g)
    PROVE  Machine(Append(cs, g), c)
  <1> DEFINE t == Append(cs, g)
             n == Len(cs)
  <1>1. IsSequence(cs) /\ n \in Nat BY SequenceFacts DEF CallsOK
  <1>2. /\ IsSequence(t) /\ Len(t) = n + 1 /\ t # <<>> /\ t[n + 1] = g
        /\ \A i \in 1..n : t[i] = cs[i]
    BY <1>1, Pushed
  <1> HIDE DEF t
  <1>3. \A i \in 1..(n + 1) : i \in 1..n \/ i = n + 1 BY <1>1
  <1>4. CallsOK(t) BY <1>1, <1>2, <1>3 DEF CallsOK
  <1> QED BY <1>2, <1>4 DEF Machine, t

LEMMA InnermostFrame ==
    ASSUME Inv, control # Idle
    PROVE  /\ calls # <<>> /\ CallsOK(calls) /\ IsSequence(calls) /\ Len(calls) \in Nat
           /\ Len(calls) > 0 /\ Top = calls[Len(calls)] /\ FrameOK(Top)
           /\ ControlOK(control, Top)
           /\ control.at \in {"eval", "ready", "test", "value", "break"}
  <1>1. /\ calls # <<>> /\ CallsOK(calls) /\ ControlOK(control, calls[Len(calls)])
        /\ control.at \in {"eval", "ready", "test", "value", "break"}
    BY DEF Inv, Machine
  <1>2. IsSequence(calls) BY <1>1 DEF CallsOK
  <1>3. Len(calls) \in Nat /\ Len(calls) > 0 BY <1>1, <1>2, SequenceFacts
  <1>4. Top = calls[Len(calls)] BY <1>1, <1>2, Popped DEF Top
  <1>5. FrameOK(Top) BY <1>1, <1>3, <1>4 DEF CallsOK
  <1> QED BY <1>1, <1>2, <1>3, <1>4, <1>5

LEMMA InnermostFunction ==
    ASSUME Inv, control # Idle, Top.konts # <<>>
    PROVE  LET n == Len(Top.konts)
               k == TopKont
           IN  /\ n \in Nat /\ n > 0 /\ k = Top.konts[n]
               /\ Sane(k, DOMAIN Top.locals)
               /\ \E c \in Code : /\ c.expr = k.expr /\ FitsBy(c, Top, n - 1)
                                  /\ Verified(c, Code)
  <1> DEFINE n == Len(Top.konts)
  <1>1. FrameOK(Top) BY InnermostFrame
  <1>2. IsSequence(Top.konts) BY <1>1 DEF FrameOK
  <1>3. n \in Nat /\ n > 0 BY <1>2, SequenceFacts
  <1>4. TopKont = Top.konts[n] BY <1>2, Popped DEF TopKont
  <1>5. KontOK(Top, n) BY <1>1, <1>3 DEF FrameOK
  <1>6. PICK c \in Code : c.expr = Top.konts[n].expr /\ FitsBy(c, Top, n - 1)
    BY <1>5 DEF KontOK, Fits
  <1>7. Verified(c, Code) BY CodeAssumption DEF AllVerified
  <1> QED BY <1>3, <1>4, <1>5, <1>6, <1>7 DEF KontOK

LEMMA Completed ==
    ASSUME Inv, control = Ready
    PROVE  /\ control # Idle /\ Top.konts # <<>>
           /\ TopKont.stage = "operands"
           /\ Len(TopKont.values) = Len(TopKont.expr.operands)
           /\ AtOperands(TopKont, DOMAIN Top.locals)
  <1>1. control # Idle /\ control.at = "ready" BY DEF Ready, Idle
  <1>2. FrameOK(Top) /\ ControlOK(control, Top) BY <1>1, InnermostFrame
  <1>3. Top.konts # <<>>
    <2>1. IsSequence(Top.konts) /\ Len(Top.konts) > 0
      BY <1>1, <1>2 DEF FrameOK, ControlOK
    <2> QED BY <2>1, SequenceFacts
  <1>4. /\ TopKont = Top.konts[Len(Top.konts)]
        /\ Sane(TopKont, DOMAIN Top.locals)
    BY <1>1, <1>3, InnermostFunction
  <1>5. /\ TopKont.stage = "operands"
        /\ Len(TopKont.values) = Len(TopKont.expr.operands)
    BY <1>1, <1>2, <1>4 DEF ControlOK
  <1>6. AtOperands(TopKont, DOMAIN Top.locals)
    BY <1>4, <1>5 DEF Sane, InRange, InState
  <1> QED BY <1>1, <1>3, <1>5, <1>6

-----------------------------------------------------------------------------
(* What the judgments of the code give *)

LEMMA FitsHere ==
    ASSUME NEW c \in Code, NEW d, Judgment(d, c.locals, c.captures, c.loops) \in Code,
           NEW f, NEW n, FitsBy(c, f, n)
    PROVE  Fits(d, f, n)
  <1> DEFINE j == Judgment(d, c.locals, c.captures, c.loops)
  <1>1. /\ j.expr = d /\ j.locals = c.locals /\ j.captures = c.captures
        /\ j.loops = c.loops
    BY DEF Judgment
  <1> HIDE DEF j
  <1>2. FitsBy(j, f, n) BY <1>1 DEF FitsBy
  <1> QED BY <1>1, <1>2 DEF Fits, j

LEMMA FitsBound ==
    ASSUME NEW c \in Code, NEW d, NEW slots, NEW loops,
           Judgment(d, c.locals \cup slots, c.captures, c.loops \cup loops) \in Code,
           NEW f, NEW n, FitsBy(c, f, n),
           slots \subseteq DOMAIN f.locals, loops \subseteq Around(f, n)
    PROVE  Fits(d, f, n)
  <1> DEFINE j == Judgment(d, c.locals \cup slots, c.captures, c.loops \cup loops)
  <1>1. /\ j.expr = d /\ j.locals = c.locals \cup slots /\ j.captures = c.captures
        /\ j.loops = c.loops \cup loops
    BY DEF Judgment
  <1> HIDE DEF j
  <1>2. FitsBy(j, f, n) BY <1>1 DEF FitsBy
  <1> QED BY <1>1, <1>2 DEF Fits, j

\* The next operand can be evaluated, or the expression has them all.
LEMMA Demands ==
    ASSUME NEW g, FrameOK(g), NEW n, n = Len(g.konts), n > 0,
           NEW k, k = g.konts[n], k.stage = "operands", Waiting(k) => Settled(g),
           IsSequence(k.values), Len(k.values) <= Len(k.expr.operands),
           NEW c \in Code, c.expr = k.expr, FitsBy(c, g, n), Verified(c, Code)
    PROVE  /\ ControlOK(Demand(k.expr, k.values), g)
           /\ Demand(k.expr, k.values).at \in {"eval", "ready"}
  <1> DEFINE m == Len(k.values)
             operands == k.expr.operands
  <1>1. m \in Nat BY SequenceFacts
  <1>2. /\ IsSequence(operands)
        /\ \A i \in DOMAIN operands :
              Judgment(operands[i], c.locals, c.captures, c.loops) \in Code
    BY DEF Verified
  <1>3. Len(operands) \in Nat /\ DOMAIN operands = 1..Len(operands)
    BY <1>2, SequenceFacts
  <1>4. CASE m < Len(operands)
    <2>1. m + 1 \in DOMAIN operands BY <1>1, <1>3, <1>4
    <2>2. Fits(operands[m + 1], g, n) BY <1>2, <2>1, FitsHere
    <2>3. Demand(k.expr, k.values) = Eval(operands[m + 1]) BY <1>4 DEF Demand
    <2>4. Settled(g) BY <1>4 DEF Waiting
    <2> HIDE DEF m, operands
    <2> QED BY <2>2, <2>3, <2>4 DEF ControlOK, Eval
  <1>5. CASE ~(m < Len(operands))
    <2>1. m = Len(operands) BY <1>1, <1>3, <1>5
    <2>2. Demand(k.expr, k.values) = Ready BY <1>5 DEF Demand
    <2>3. Ready.at = "ready" BY DEF Ready
    <2> QED BY <2>1, <2>2, <2>3 DEF ControlOK
  <1> QED BY <1>4, <1>5

-----------------------------------------------------------------------------
(* Forms *)

LEMMA Continues ==
    ASSUME Inv, control # Idle, Continue PROVE Forms'
  BY DEF Inv, Forms, Continue, NoInternalError

LEMMA Raises ==
    ASSUME Inv, control # Idle, NEW kind, kind # "internal", Raise(kind)
    PROVE  Forms' /\ Machine(calls, control)'
  <1>1. /\ session \in Sessions /\ next \in 1..(Len(session) + 1)
        /\ next <= Len(session)
    BY DEF Inv, Forms
  <1>2. IsSequence(session) BY <1>1, CodeAssumption DEF AllVerified
  <1>3. Len(session) \in Nat BY <1>2, SequenceFacts
  <1>4. Machine(calls, control)' BY DEF Raise, Machine
  <1>5. outcome'.kind # "internal" /\ NoInternalError' BY DEF Raise, NoInternalError
  <1>6. next' \in 1..(Len(session') + 1) BY <1>1, <1>3 DEF Raise
  <1> QED BY <1>1, <1>4, <1>5, <1>6 DEF Raise, Forms

LEMMA Unstored == ASSUME Inv, UnchangedStore PROVE Store'
  BY DEF Inv, Store, UnchangedStore, ValuesOK

\* The innermost function returns a value.
LEMMA Returns ==
    ASSUME Inv, control # Idle, Top.konts # <<>>,
           NEW v, ValueOK(v), Return(v)
    PROVE  Forms' /\ Machine(calls, control)'
  <1> DEFINE f == Top
             g == [f EXCEPT !.konts = Front(f.konts)]
  <1>1. calls' = Append(Front(calls), g) /\ control' = Give(v) /\ Continue
    BY DEF Return, PopKont, SetTop
  <1>2. calls # <<>> /\ CallsOK(calls) /\ FrameOK(f) BY InnermostFrame
  <1>3. Becomes(f, g, f.locals, Front(f.konts)) /\ ValuesOK(f.locals)
    BY <1>2, FrameUpdates DEF FrameOK
  <1> HIDE DEF f, g
  <1>4. FrameOK(g) /\ Settled(g)
    BY <1>2, <1>3, Popping DEF f
  <1>5. ControlOK(Give(v), g) /\ Give(v).at = "value"
    BY <1>4 DEF ControlOK, Give
  <1>6. Machine(calls', control') BY <1>1, <1>2, <1>4, <1>5, GoesOn
  <1> QED BY <1>1, <1>6, Continues

-----------------------------------------------------------------------------
(* Every step preserves the invariant: operands *)

LEMMA BeginFormStep == ASSUME Inv, BeginForm PROVE Inv'
  <1> DEFINE F == Frame(<<>>, <<>>)
             body == session[next].body
  <1>1. /\ control = Idle /\ next <= Len(session) /\ calls' = <<F>>
        /\ control' = Eval(body) /\ Continue /\ UnchangedStore
    BY DEF BeginForm
  <1>2. calls = <<>> BY <1>1 DEF Inv, Machine, Idle
  <1>3. session \in Sessions /\ next \in 1..(Len(session) + 1) BY DEF Inv, Forms
  <1>4. Judgment(body, {}, {}, {}) \in Code
    <2>1. IsSequence(session) BY <1>3, CodeAssumption DEF AllVerified
    <2>2. next \in DOMAIN session BY <1>1, <1>3, <2>1, SequenceFacts
    <2> QED BY <1>3, <2>2, CodeAssumption DEF AllVerified
  <1>5. /\ DOMAIN F = {"locals", "captures", "konts"}
        /\ F.locals = <<>> /\ F.captures = <<>> /\ F.konts = <<>>
    BY DEF Frame
  <1> HIDE DEF F, body
  <1>6. FrameOK(F) /\ Settled(F)
    BY <1>5, NoSequence DEF FrameOK, Settled, IsFrame, ValuesOK
  <1>7. Fits(body, F, 0)
    BY <1>4 DEF Fits, FitsBy, Judgment
  <1>8. ControlOK(Eval(body), F) /\ Eval(body).at = "eval"
    BY <1>5, <1>6, <1>7, NoSequence DEF ControlOK, Eval
  <1>9. calls' = Append(calls, F) BY <1>1, <1>2
  <1>10. CallsOK(calls) /\ \A i \in 1..Len(calls) : Settled(calls[i])
    BY <1>2, NoSequence DEF CallsOK
  <1>11. Machine(Append(calls, F), Eval(body))
    BY <1>6, <1>8, <1>10, Calls
  <1>12. Forms' BY <1>1 DEF Inv, Forms, Continue, NoInternalError
  <1> QED BY <1>1, <1>9, <1>11, <1>12, Unstored DEF Inv

LEMMA EnterStep == ASSUME Inv, Enter PROVE Inv'
  <1> DEFINE f == Top
             e == control.expr
             k == Kont(e)
             g == [f EXCEPT !.konts = Append(f.konts, k)]
             n == Len(f.konts)
  <1>1. /\ control.at = "eval" /\ calls' = Append(Front(calls), g)
        /\ control' = Demand(e, <<>>) /\ Continue /\ UnchangedStore
    BY DEF Enter, SetTop
  <1>2. control # Idle BY <1>1 DEF Idle
  <1>3. /\ calls # <<>> /\ CallsOK(calls) /\ FrameOK(f) /\ ControlOK(control, f)
    BY <1>2, InnermostFrame
  <1>4. Settled(f) /\ Fits(e, f, n) BY <1>1, <1>3 DEF ControlOK
  <1>5. PICK c \in Code : c.expr = e /\ FitsBy(c, f, n) BY <1>4 DEF Fits
  <1>6. Verified(c, Code) BY CodeAssumption DEF AllVerified
  <1>7. IsSequence(e.operands) /\ Len(e.operands) \in Nat
    <2>1. IsSequence(e.operands) BY <1>5, <1>6 DEF Verified
    <2> QED BY <2>1, SequenceFacts
  <1>8. /\ k.expr = e /\ k.stage = "operands" /\ k.values = <<>> /\ k.iterations = 0
        /\ k.current = 0 /\ IsKont(k)
    BY DEF Kont, IsKont
  <1>9. Becomes(f, g, f.locals, Append(f.konts, k))
    BY <1>3, FrameUpdates DEF FrameOK
  <1> HIDE DEF f, e, k, g
  <1>10. Sane(k, DOMAIN f.locals)
    <2>1. 0 \in Word /\ 0 \in 0..MaxIterations BY LimitsAssumption
    <2>2. ValuesOK(k.values) /\ IsSequence(k.values) /\ Len(k.values) = 0
      BY <1>8, NoSequence DEF ValuesOK
    <2>3. AtOperands(k, DOMAIN f.locals) BY <1>7, <1>8, <2>2 DEF AtOperands
    <2> QED BY <1>8, <2>1, <2>2, <2>3 DEF Sane
  <1>11. /\ FrameOK(g) /\ (Waiting(k) => Settled(g)) /\ n \in Nat
         /\ Len(g.konts) = n + 1 /\ g.konts[n + 1] = k /\ FitsBy(c, g, n + 1)
    BY <1>3, <1>4, <1>5, <1>8, <1>9, <1>10, Pushing
  <1>12. /\ ControlOK(Demand(e, <<>>), g)
         /\ Demand(e, <<>>).at \in {"eval", "ready"}
    <2>1. n + 1 > 0 BY <1>11
    <2>2. IsSequence(k.values) /\ Len(k.values) <= Len(k.expr.operands)
      BY <1>7, <1>8, NoSequence
    <2> HIDE DEF n
    <2>3. /\ ControlOK(Demand(k.expr, k.values), g)
          /\ Demand(k.expr, k.values).at \in {"eval", "ready"}
      BY <1>5, <1>6, <1>8, <1>11, <2>1, <2>2, Demands
    <2> QED BY <1>8, <2>3
  <1>13. Machine(calls', control') BY <1>1, <1>3, <1>11, <1>12, GoesOn
  <1>14. Forms' /\ Store' BY <1>1, <1>2, Continues, Unstored
  <1> QED BY <1>13, <1>14 DEF Inv

LEMMA SupplyStep == ASSUME Inv, Supply PROVE Inv'
  <1> DEFINE f == Top
             old == TopKont
             e == old.expr
             v == control.value
             values == Append(old.values, v)
             m == Len(values)
             locals == IF StoredEarly(e) THEN Stored(f.locals, <<e.targets[m]>>, <<v>>)
                       ELSE f.locals
             k == [old EXCEPT !.values = values]
             g == [f EXCEPT !.locals = locals, !.konts = Append(Front(f.konts), k)]
             n == Len(f.konts)
  <1>1. /\ control.at = "value" /\ f.konts # <<>> /\ old.stage = "operands"
        /\ UnchangedStore
    BY DEF Supply
  <1>2. control # Idle BY <1>1 DEF Idle
  <1>3. calls # <<>> /\ CallsOK(calls) /\ FrameOK(f) /\ ControlOK(control, f)
    BY <1>2, InnermostFrame
  <1>4. Settled(f) /\ ValueOK(v) BY <1>1, <1>3 DEF ControlOK
  <1>5. /\ n \in Nat /\ n > 0 /\ old = f.konts[n] /\ Sane(old, DOMAIN f.locals)
        /\ \E c \in Code : c.expr = e /\ FitsBy(c, f, n - 1) /\ Verified(c, Code)
    BY <1>1, <1>2, InnermostFunction
  <1>6. PICK c \in Code : c.expr = e /\ FitsBy(c, f, n - 1) /\ Verified(c, Code)
    BY <1>5
  <1>7. CASE Refused(e, m, v)
    <2>1. Raise("operand") BY <1>7 DEF Supply
    <2> QED BY <1>1, <1>2, <2>1, Raises, Unstored DEF Inv
  <1>8. CASE ~Refused(e, m, v)
    <2>1. /\ calls' = Append(Front(calls), g) /\ control' = Demand(e, values)
          /\ Continue
      BY <1>8 DEF Supply, SetTop
    <2>2. Waiting(old) BY <1>4, <1>5 DEF Settled
    <2>3. /\ IsSequence(old.values) /\ ValuesOK(old.values) /\ IsKont(old)
          /\ AtOperands(old, DOMAIN f.locals) /\ old.current \in Word
          /\ old.iterations \in 0..MaxIterations
      BY <1>1, <1>5 DEF Sane, InRange, InState
    <2>4. /\ IsSequence(values) /\ m = Len(old.values) + 1 /\ values[m] = v
          /\ \A i \in 1..Len(old.values) : values[i] = old.values[i]
          /\ Len(old.values) \in Nat
      BY <2>3, Pushed, SequenceFacts
    <2>5. \A i \in 1..m : i \in 1..Len(old.values) \/ i = m BY <2>4
    <2>6. ValuesOK(values)
      BY <1>4, <2>3, <2>4, <2>5, SequenceFacts DEF ValuesOK
    <2>7. /\ k.expr = e /\ k.stage = "operands" /\ k.values = values
          /\ k.iterations = old.iterations /\ k.current = old.current /\ IsKont(k)
      BY <1>1, <2>3 DEF IsKont
    <2>8. /\ ValuesOK(locals) /\ DOMAIN f.locals \subseteq DOMAIN locals
          /\ e.op = "state" => e.targets[m] \in DOMAIN locals
      <3>1. ValuesOK(f.locals) BY <1>3 DEF FrameOK
      <3>2. CASE e.op = "state"
        <4>1. locals = Stored(f.locals, <<e.targets[m]>>, <<v>>)
          BY <3>2 DEF StoredEarly
        <4> HIDE DEF locals, f, e, v, m
        <4>2. DOMAIN locals = DOMAIN f.locals \cup {e.targets[m]} /\ ValuesOK(locals)
          BY <1>4, <3>1, <4>1, OneStored
        <4> QED BY <4>2
      <3>3. CASE e.op # "state" BY <3>1, <3>3 DEF StoredEarly
      <3> QED BY <3>2, <3>3
    <2>9. Becomes(f, g, locals, Append(Front(f.konts), k))
      BY <1>3, FrameUpdates DEF FrameOK
    <2>10. v.type = "int" \/ e.op # "range" BY <1>8 DEF Refused
    <2>11. IsSequence(e.operands) /\ Len(e.operands) \in Nat
      <3>1. IsSequence(e.operands) BY <1>6 DEF Verified
      <3> QED BY <3>1, SequenceFacts
    <2> HIDE DEF f, old, e, v, values, m, locals, k, g
    <2>12. m <= Len(e.operands)
      BY <1>1, <2>2, <2>4, <2>11 DEF Waiting, e
    <2>13. AtOperands(k, DOMAIN locals)
      <3>1. \A i \in 1..Len(old.values) :
              /\ e.op = "range" => old.values[i].type = "int"
              /\ e.op = "state" => e.targets[i] \in DOMAIN f.locals
        BY <2>3 DEF AtOperands, e
      <3>2. DOMAIN f.locals \subseteq DOMAIN locals BY <2>8
      <3>3. ASSUME e.op = "range", NEW i \in 1..m PROVE values[i].type = "int"
        <4>1. CASE i \in 1..Len(old.values) BY <2>4, <3>1, <3>3, <4>1
        <4>2. CASE i = m BY <2>4, <2>10, <3>3, <4>2
        <4> QED BY <2>5, <4>1, <4>2
      <3>4. ASSUME e.op = "state", NEW i \in 1..m PROVE e.targets[i] \in DOMAIN locals
        <4>1. CASE i \in 1..Len(old.values) BY <3>1, <3>2, <3>4, <4>1
        <4>2. CASE i = m BY <2>8, <3>4, <4>2
        <4> QED BY <2>5, <4>1, <4>2
      <3>5. m = Len(values) BY DEF m
      <3> QED BY <2>7, <2>12, <3>3, <3>4, <3>5 DEF AtOperands
    <2>14. Sane(k, DOMAIN locals) BY <2>3, <2>4, <2>6, <2>7, <2>13 DEF Sane
    <2>15. /\ FrameOK(g) /\ (Waiting(k) => Settled(g))
           /\ Len(g.konts) = n /\ g.konts[n] = k /\ FitsBy(c, g, n)
      <3>1. k.expr = f.konts[Len(f.konts)].expr BY <1>5, <2>7 DEF e, n
      <3> QED BY <1>1, <1>3, <1>6, <2>8, <2>9, <2>14, <3>1, Replacing
    <2>16. /\ ControlOK(Demand(k.expr, k.values), g)
           /\ Demand(k.expr, k.values).at \in {"eval", "ready"}
      <3>1. IsSequence(k.values) /\ Len(k.values) <= Len(k.expr.operands)
        BY <2>4, <2>7, <2>12 DEF m
      <3> HIDE DEF n
      <3> QED BY <1>5, <1>6, <2>7, <2>15, <3>1, Demands
    <2>17. Machine(calls', control') BY <1>3, <2>1, <2>7, <2>15, <2>16, GoesOn
    <2> QED BY <1>1, <1>2, <2>1, <2>17, Continues, Unstored DEF Inv
  <1> QED BY <1>7, <1>8

-----------------------------------------------------------------------------
(* Every step preserves the invariant: what is done with the operands *)

LEMMA EvalConstStep == ASSUME Inv, EvalConst PROVE Inv'
  <1> DEFINE v == TopKont.expr.value
  <1>1. /\ control = Ready /\ TopKont.expr.op = "const" /\ Return(v) /\ UnchangedStore
    BY DEF EvalConst, Complete
  <1>2. control # Idle /\ Top.konts # <<>> BY <1>1, Completed
  <1>3. PICK c \in Code : c.expr = TopKont.expr /\ Verified(c, Code)
    BY <1>2, InnermostFunction
  <1>4. Literal(v) BY <1>1, <1>3 DEF Verified
  <1>5. ValueOK(v) BY <1>4, PlainIsOK DEF Literal, Plain
  <1> HIDE DEF v
  <1>6. Forms' /\ Machine(calls, control)' BY <1>1, <1>2, <1>5, Returns
  <1> QED BY <1>1, <1>6, Unstored DEF Inv

LEMMA LoadStep == ASSUME Inv, Load PROVE Inv'
  <1> DEFINE e == TopKont.expr
             f == Top
             n == Len(f.konts)
  <1>1. control = Ready /\ UnchangedStore BY DEF Load, Complete
  <1>2. control # Idle /\ f.konts # <<>> BY <1>1, Completed
  <1>3. FrameOK(f) BY <1>2, InnermostFrame
  <1>4. PICK c \in Code : c.expr = e /\ FitsBy(c, f, n - 1) /\ Verified(c, Code)
    BY <1>2, InnermostFunction
  <1>5. PICK op \in {"local", "capture"} :
           /\ Complete(op)
           /\ IF e.slot \in DOMAIN LoadFrom(op) THEN Return(LoadFrom(op)[e.slot])
              ELSE Raise("internal")
    BY DEF Load
  <1>6. e.op = op BY <1>5 DEF Complete
  <1>7. e.slot \in DOMAIN LoadFrom(op) /\ ValuesOK(LoadFrom(op))
    <2>1. CASE op = "local"
      BY <1>3, <1>4, <1>6, <2>1 DEF Verified, FitsBy, LoadFrom, FrameOK
    <2>2. CASE op = "capture"
      BY <1>3, <1>4, <1>6, <2>2 DEF Verified, FitsBy, LoadFrom, FrameOK
    <2> QED BY <2>1, <2>2
  <1>8. ValueOK(LoadFrom(op)[e.slot]) BY <1>7 DEF ValuesOK
  <1> HIDE DEF e
  <1>9. Forms' /\ Machine(calls, control)' BY <1>2, <1>5, <1>7, <1>8, Returns
  <1> QED BY <1>1, <1>9, Unstored DEF Inv

LEMMA LoadGlobalStep == ASSUME Inv, LoadGlobal PROVE Inv'
  <1> DEFINE name == TopKont.expr.name
  <1>1. /\ control = Ready /\ UnchangedStore
        /\ IF name \in DOMAIN globals THEN Return(globals[name]) ELSE Raise("undefined")
    BY DEF LoadGlobal, Complete
  <1>2. control # Idle /\ Top.konts # <<>> BY <1>1, Completed
  <1> HIDE DEF name
  <1>3. CASE name \in DOMAIN globals
    <2>1. ValueOK(globals[name]) BY <1>3 DEF Inv, Store, ValuesOK
    <2>2. Forms' /\ Machine(calls, control)' BY <1>1, <1>2, <1>3, <2>1, Returns
    <2> QED BY <1>1, <2>2, Unstored DEF Inv
  <1>4. CASE name \notin DOMAIN globals
    <2>1. Forms' /\ Machine(calls, control)' BY <1>1, <1>2, <1>4, Raises
    <2> QED BY <1>1, <2>1, Unstored DEF Inv
  <1> QED BY <1>3, <1>4

\* The innermost function is left for the last expression it has evaluated.
LEMMA Leaves ==
    ASSUME Inv, control # Idle, Top.konts # <<>>,
           NEW locals, ValuesOK(locals), DOMAIN Top.locals \subseteq DOMAIN locals,
           NEW g, Becomes(Top, g, locals, Front(Top.konts)),
           NEW d, Fits(d, g, Len(Top.konts) - 1),
           calls' = SetTop(g), control' = Eval(d), Continue
    PROVE  Forms' /\ Machine(calls, control)'
  <1>1. calls # <<>> /\ CallsOK(calls) /\ FrameOK(Top) BY InnermostFrame
  <1>2. FrameOK(g) /\ Settled(g) /\ Len(g.konts) = Len(Top.konts) - 1
    BY <1>1, Popping
  <1>3. ControlOK(Eval(d), g) /\ Eval(d).at = "eval"
    BY <1>2 DEF ControlOK, Eval
  <1>4. Machine(Append(Front(calls), g), Eval(d)) BY <1>1, <1>2, <1>3, GoesOn
  <1>5. Machine(calls', control') BY <1>4 DEF SetTop
  <1> QED BY <1>5, Continues

LEMMA LetBodyStep == ASSUME Inv, LetBody PROVE Inv'
  <1> DEFINE f == Top
             k == TopKont
             e == k.expr
             n == Len(f.konts)
             locals == Stored(f.locals, e.targets, k.values)
             g == [f EXCEPT !.locals = locals, !.konts = Front(f.konts)]
  <1>1. /\ control = Ready /\ e.op = "let" /\ calls' = SetTop(g)
        /\ control' = Eval(e.body) /\ Continue /\ UnchangedStore
    BY DEF LetBody, Complete
  <1>2. /\ control # Idle /\ f.konts # <<>> /\ Len(k.values) = Len(e.operands)
    BY <1>1, Completed
  <1>3. PICK c \in Code : c.expr = e /\ FitsBy(c, f, n - 1) /\ Verified(c, Code)
    BY <1>2, InnermostFunction
  <1>4. /\ IsSequence(e.targets) /\ Len(e.targets) = Len(e.operands)
        /\ Judgment(e.body, c.locals \cup Range(e.targets), c.captures,
                    c.loops \cup {}) \in Code
    BY <1>1, <1>3 DEF Verified
  <1>5. IsSequence(k.values) /\ ValuesOK(k.values) BY <1>2, InnermostFunction DEF Sane
  <1>6. FrameOK(f) BY <1>2, InnermostFrame
  <1>7. ValuesOK(f.locals) /\ IsFrame(f) BY <1>6 DEF FrameOK
  <1>8. Becomes(f, g, locals, Front(f.konts)) BY <1>7, FrameUpdates
  <1> HIDE DEF f, k, e, locals, g
  <1>9. DOMAIN locals = DOMAIN f.locals \cup Range(e.targets) /\ ValuesOK(locals)
    <2>1. Len(e.targets) \in Nat /\ Len(e.targets) <= Len(k.values)
      BY <1>2, <1>4, SequenceFacts
    <2> QED BY <1>4, <1>5, <1>7, <2>1, StoredFacts DEF locals
  <1>10. Fits(e.body, g, n - 1)
    <2>1. FitsBy(c, g, n - 1)
      <3>1. DOMAIN f.locals \subseteq DOMAIN locals BY <1>9
      <3> QED BY <1>2, <1>3, <1>6, <1>8, <1>9, <3>1, Popping
    <2>2. Range(e.targets) \subseteq DOMAIN g.locals BY <1>8, <1>9 DEF Becomes
    <2> DEFINE none == {}
    <2>3. none \subseteq Around(g, n - 1) OBVIOUS
    <2>4. Judgment(e.body, c.locals \cup Range(e.targets), c.captures,
                   c.loops \cup none) \in Code
      BY <1>4
    <2> HIDE DEF none, n
    <2> QED BY <2>1, <2>2, <2>3, <2>4, FitsBound
  <1>11. Forms' /\ Machine(calls, control)'
    <2>1. DOMAIN f.locals \subseteq DOMAIN locals BY <1>9
    <2> QED BY <1>1, <1>2, <1>8, <1>9, <1>10, <2>1, Leaves DEF f
  <1> QED BY <1>1, <1>11, Unstored DEF Inv

LEMMA MakeClosureStep == ASSUME Inv, MakeClosure PROVE Inv'
  <1> DEFINE f == Top
             e == TopKont.expr
             n == Len(f.konts)
             from(slot) == IF slot \in e.own THEN f.locals ELSE f.captures
             v == [type |-> "closure", function |-> e.function,
                   captures |-> [s \in e.captures |-> from(s)[s]]]
  <1>1. /\ control = Ready /\ e.op = "closure" /\ UnchangedStore
        /\ IF \E s \in e.captures : s \notin DOMAIN from(s)
           THEN Raise("internal") ELSE Return(v)
    BY DEF MakeClosure, Complete
  <1>2. control # Idle /\ f.konts # <<>> BY <1>1, Completed
  <1>3. PICK c \in Code : c.expr = e /\ FitsBy(c, f, n - 1) /\ Verified(c, Code)
    BY <1>2, InnermostFunction
  <1>4. /\ \A s \in e.captures : s \in (IF s \in e.own THEN c.locals ELSE c.captures)
        /\ IsSequence(e.function.params)
        /\ Judgment(e.function.body, Range(e.function.params), e.captures, {}) \in Code
    BY <1>1, <1>3 DEF Verified
  <1>5. ValuesOK(f.locals) /\ ValuesOK(f.captures)
    BY <1>2, InnermostFrame DEF FrameOK
  <1>6. \A s \in e.captures : s \in DOMAIN from(s) /\ ValueOK(from(s)[s])
    BY <1>3, <1>4, <1>5 DEF FitsBy, ValuesOK
  <1>7. Return(v) BY <1>1, <1>6
  <1>8. ValueOK(v)
    <2>1. /\ v.type = "closure" /\ v.function = e.function
          /\ DOMAIN v.captures = e.captures
          /\ \A s \in e.captures : v.captures[s] = from(s)[s]
      OBVIOUS
    <2> HIDE DEF v, from
    <2>2. Plain(v) BY <2>1 DEF Plain
    <2>3. FunctionOK(v) BY <1>4, <2>1 DEF FunctionOK
    <2>4. ValuesOK(v.captures) BY <1>6, <2>1 DEF ValuesOK
    <2> QED BY <2>1, <2>2, <2>3, <2>4, ClosureIsOK
  <1> HIDE DEF v
  <1>9. Forms' /\ Machine(calls, control)' BY <1>2, <1>7, <1>8, Returns
  <1> QED BY <1>1, <1>9, Unstored DEF Inv

LEMMA IfStep == ASSUME Inv, If PROVE Inv'
  <1> DEFINE f == Top
             e == TopKont.expr
             n == Len(f.konts)
             condition == TopKont.values[1]
             g == [f EXCEPT !.konts = Front(f.konts)]
             d == IF condition.bool THEN e.yes ELSE e.no
  <1>1. /\ control = Ready /\ e.op = "if" /\ UnchangedStore
        /\ IF condition.type # "bool" THEN Raise("condition")
           ELSE calls' = SetTop(g) /\ control' = Eval(d) /\ Continue
    BY DEF If, Complete, PopKont
  <1>2. control # Idle /\ f.konts # <<>> BY <1>1, Completed
  <1>3. CASE condition.type # "bool"
    <2>1. Forms' /\ Machine(calls, control)' BY <1>1, <1>2, <1>3, Raises
    <2> QED BY <1>1, <2>1, Unstored DEF Inv
  <1>4. CASE condition.type = "bool"
    <2>1. calls' = SetTop(g) /\ control' = Eval(d) /\ Continue BY <1>1, <1>4
    <2>2. PICK c \in Code : c.expr = e /\ FitsBy(c, f, n - 1) /\ Verified(c, Code)
      BY <1>2, InnermostFunction
    <2>3. Judgment(d, c.locals, c.captures, c.loops) \in Code
      BY <1>1, <2>2 DEF Verified
    <2>4. FrameOK(f) BY <1>2, InnermostFrame
    <2>5. Becomes(f, g, f.locals, Front(f.konts)) /\ ValuesOK(f.locals)
      BY <2>4, FrameUpdates DEF FrameOK
    <2> HIDE DEF f, e, g, d
    <2>6. FitsBy(c, g, n - 1) BY <1>2, <2>2, <2>4, <2>5, Popping
    <2>7. Fits(d, g, n - 1) BY <2>3, <2>6, FitsHere
    <2>8. Forms' /\ Machine(calls, control)'
      BY <1>2, <2>1, <2>5, <2>7, Leaves DEF f
    <2> QED BY <1>1, <2>8, Unstored DEF Inv
  <1> QED BY <1>3, <1>4

LEMMA DoStep == ASSUME Inv, Do PROVE Inv'
  <1> DEFINE values == TopKont.values
  <1>1. control = Ready /\ UnchangedStore BY DEF Do, Complete
  <1>2. control # Idle /\ Top.konts # <<>> BY <1>1, Completed
  <1>3. IsSequence(values) /\ ValuesOK(values) BY <1>2, InnermostFunction DEF Sane
  <1>4. ValueOK(Unit) BY PlainIsOK DEF Unit, Plain
  <1>5. values # <<>> => ValueOK(Last(values))
    <2> SUFFICES ASSUME values # <<>> PROVE ValueOK(Last(values)) OBVIOUS
    <2>1. Len(values) \in DOMAIN values /\ Last(values) = values[Len(values)]
      BY <1>3, Popped, SequenceFacts
    <2> QED BY <1>3, <2>1 DEF ValuesOK
  <1>6. PICK v : ValueOK(v) /\ Return(v)
    BY <1>4, <1>5 DEF Do
  <1>7. Forms' /\ Machine(calls, control)' BY <1>2, <1>6, Returns
  <1> QED BY <1>1, <1>7, Unstored DEF Inv

\* A new datum is charged.
LEMMA DatumReturns ==
    ASSUME Inv, control # Idle, Top.konts # <<>>,
           NEW v, ValueOK(v), v.type = "datum", ReturnDatum(v)
    PROVE  Forms' /\ Machine(calls, control)' /\ charged' \in Nat
  <1>1. v.nodes \in Nat BY ValueIsPlain DEF Plain
  <1>2. charged' \in Nat BY <1>1 DEF Inv, Store, ReturnDatum, Charge
  <1>3. CASE Raise("nodes") BY <1>3, <1>2, Raises
  <1>4. CASE Return(v) BY <1>4, <1>2, Returns
  <1> QED BY <1>3, <1>4 DEF ReturnDatum

LEMMA QuasiQuoteStep == ASSUME Inv, QuasiQuote PROVE Inv'
  <1> DEFINE e == TopKont.expr
             values == TopKont.values
             spliced(i) == IF i \in e.splices THEN 1 ELSE 0
             F == [i \in DOMAIN values |-> NodesOf(values[i]) - spliced(i)]
             nodes == FoldFunction(+, e.nodes, F)
             v == IF e.nodes = 0 THEN AsDatum(values[1]) ELSE Datum(e.list, nodes)
  <1>1. /\ control = Ready /\ e.op = "quasi" /\ ReturnDatum(v)
        /\ UNCHANGED <<globals, printed, gensyms>>
    BY DEF QuasiQuote, Complete
  <1>2. control # Idle /\ Top.konts # <<>> /\ Len(values) = Len(e.operands)
    BY <1>1, Completed
  <1>3. IsSequence(values) /\ ValuesOK(values) BY <1>2, InnermostFunction DEF Sane
  <1>4. e.nodes \in Nat /\ (e.nodes = 0 => Len(values) = 1)
    <2>1. PICK c \in Code : c.expr = e /\ Verified(c, Code)
      BY <1>2, InnermostFunction
    <2> QED BY <1>1, <1>2, <2>1 DEF Verified
  <1>5. ValueOK(v) /\ v.type = "datum"
    <2>1. CASE e.nodes = 0
      <3>1. 1 \in DOMAIN values BY <1>3, <1>4, <2>1, SequenceFacts
      <3>2. ValueOK(values[1]) BY <1>3, <3>1 DEF ValuesOK
      <3>3. v = AsDatum(values[1]) BY <2>1
      <3> HIDE DEF v, values
      <3> QED BY <3>2, <3>3, PlainIsOK DEF AsDatum, Datum, Plain
    <2>2. CASE e.nodes # 0
      <3>1. ASSUME NEW i \in DOMAIN values PROVE NodesOf(values[i]) - spliced(i) \in Nat
        <4>1. NodesOf(values[i]) \in Nat \ {0}
          BY <1>3, ValueIsPlain DEF ValuesOK, Plain, NodesOf
        <4> QED BY <4>1
      <3>2. F \in [DOMAIN values -> Nat]
        <4> HIDE DEF spliced, values
        <4> QED BY <3>1
      <3>3. IsFiniteSet(DOMAIN values)
        <4>1. DOMAIN values = 1..Len(values) /\ Len(values) \in Nat
          BY <1>3, SequenceFacts
        <4> QED BY <4>1, FS_Interval
      <3>4. e.nodes \in Nat \ {0} BY <1>4, <2>2
      <3> HIDE DEF F
      <3>5. nodes \in Nat \ {0} BY <3>2, <3>3, <3>4, SumIsNatural
      <3>6. v = Datum(e.list, nodes) BY <2>2
      <3> HIDE DEF v, nodes
      <3> QED BY <3>5, <3>6, PlainIsOK DEF Datum, Plain
    <2> QED BY <2>1, <2>2
  <1> HIDE DEF v
  <1>6. Forms' /\ Machine(calls, control)' /\ charged' \in Nat
    BY <1>1, <1>2, <1>5, DatumReturns
  <1>7. Store' BY <1>1, <1>6 DEF Inv, Store, ValuesOK
  <1> QED BY <1>6, <1>7 DEF Inv

LEMMA GensymStep == ASSUME Inv, Gensym PROVE Inv'
  <1> DEFINE v == Symbol(gensyms)
  <1>1. /\ control = Ready /\ gensyms' = gensyms + 1 /\ Return(v)
        /\ UNCHANGED <<globals, printed, charged>>
    BY DEF Gensym, Complete
  <1>2. control # Idle /\ Top.konts # <<>> BY <1>1, Completed
  <1>3. ValueOK(v) BY PlainIsOK DEF Symbol, Plain
  <1> HIDE DEF v
  <1>4. Forms' /\ Machine(calls, control)' BY <1>1, <1>2, <1>3, Returns
  <1>5. Store' BY <1>1 DEF Inv, Store, ValuesOK
  <1> QED BY <1>4, <1>5 DEF Inv

-----------------------------------------------------------------------------
(* Every step preserves the invariant: calls *)

\* What a primitive makes of values is a value.
LEMMA PrimitiveOK ==
    ASSUME NEW op, NEW args, IsSequence(args), ValuesOK(args)
    PROVE  LET v == Primitive(op, args) IN v.type = "error" \/ ValueOK(v)
  <1> DEFINE v == Primitive(op, args)
             numbers == Len(args) = 2 /\ \A i \in 1..2 : args[i].type = "int"
             sum == args[1].int + args[2].int
             data == \A i \in DOMAIN args : IsDatum(args[i])
             nodes == ListNodes(args)
  <1> SUFFICES v.type = "error" \/ ValueOK(v) OBVIOUS
  <1>1. v = CASE op = "+" /\ numbers /\ sum \in Word -> Num(sum)
              [] op = "<" /\ numbers -> Bool(args[1].int < args[2].int)
              [] op = "list" /\ data -> Datum(TRUE, nodes)
              [] op = "print" -> Unit
              [] OTHER -> [type |-> "error"]
    BY DEF Primitive
  <1> HIDE DEF v, numbers, sum, data, nodes
  <1>2. \/ sum \in Word /\ v = Num(sum)
        \/ v = Bool(args[1].int < args[2].int)
        \/ v = Datum(TRUE, nodes)
        \/ v = Unit
        \/ v = [type |-> "error"]
    BY <1>1
  <1>3. nodes \in Nat \ {0}
    <2>1. ASSUME NEW i \in DOMAIN args PROVE NodesOf(args[i]) \in Nat
      <3>1. Plain(args[i]) BY ValueIsPlain DEF ValuesOK
      <3> QED BY <3>1 DEF Plain, NodesOf
    <2> QED BY <2>1, CountIsNatural DEF nodes
  <1>4. CASE sum \in Word /\ v = Num(sum) BY <1>4, PlainIsOK DEF Num, Plain
  <1>5. CASE v = Bool(args[1].int < args[2].int) BY <1>5, PlainIsOK DEF Bool, Plain
  <1>6. CASE v = Datum(TRUE, nodes) BY <1>3, <1>6, PlainIsOK DEF Datum, Plain
  <1>7. CASE v = Unit BY <1>7, PlainIsOK DEF Unit, Plain
  <1>8. CASE v = [type |-> "error"] BY <1>8
  <1> QED BY <1>2, <1>4, <1>5, <1>6, <1>7, <1>8

\* The callee and the arguments of a call.
LEMMA Arguments ==
    ASSUME Inv, control = Ready, TopKont.expr.op = "call"
    PROVE  LET values == TopKont.values
           IN  ValueOK(values[1]) /\ IsSequence(Tail(values)) /\ ValuesOK(Tail(values))
  <1> DEFINE values == TopKont.values
             args == Tail(values)
  <1>1. /\ control # Idle /\ Top.konts # <<>>
        /\ Len(values) = Len(TopKont.expr.operands)
    BY Completed
  <1>2. IsSequence(values) /\ ValuesOK(values) BY <1>1, InnermostFunction DEF Sane
  <1>3. /\ values # <<>> /\ 1 \in DOMAIN values /\ Len(values) \in Nat
        /\ DOMAIN values = 1..Len(values)
    <2>1. PICK c \in Code : c.expr = TopKont.expr /\ Verified(c, Code)
      BY <1>1, InnermostFunction
    <2>2. Len(values) > 0 BY <1>1, <2>1 DEF Verified
    <2> QED BY <1>2, <2>2, SequenceFacts
  <1>4. /\ IsSequence(args) /\ Len(args) = Len(values) - 1
        /\ \A i \in 1..Len(args) : args[i] = values[i + 1]
    BY <1>2, <1>3, WithoutFirst
  <1>5. ValuesOK(args)
    <2>1. DOMAIN args = 1..Len(args) BY <1>4, SequenceFacts
    <2>2. \A i \in 1..Len(args) : i + 1 \in DOMAIN values BY <1>3, <1>4
    <2> HIDE DEF args, values
    <2> QED BY <1>2, <1>4, <2>1, <2>2 DEF ValuesOK
  <1> QED BY <1>2, <1>3, <1>4, <1>5 DEF ValuesOK

LEMMA ApplyBuiltinStep == ASSUME Inv, ApplyBuiltin PROVE Inv'
  <1> DEFINE op == TopKont.values[1].op
             args == Tail(TopKont.values)
             v == Primitive(op, args)
  <1>1. /\ control = Ready /\ TopKont.expr.op = "call"
        /\ UNCHANGED <<globals, gensyms>>
        /\ IF v.type = "error" THEN Raise("argument") /\ UNCHANGED charged
           ELSE IF v.type = "datum" THEN ReturnDatum(v)
           ELSE Return(v) /\ UNCHANGED charged
    BY DEF ApplyBuiltin, Complete
  <1>2. control # Idle /\ Top.konts # <<>> BY <1>1, Completed
  <1>3. v.type = "error" \/ ValueOK(v) BY <1>1, Arguments, PrimitiveOK
  <1>4. charged \in Nat BY DEF Inv, Store
  <1> HIDE DEF v
  <1>5. Forms' /\ Machine(calls, control)' /\ charged' \in Nat
    <2>1. CASE v.type = "error" BY <1>1, <1>2, <1>4, <2>1, Raises
    <2>2. CASE v.type # "error" /\ v.type = "datum"
      BY <1>1, <1>2, <1>3, <2>2, DatumReturns
    <2>3. CASE v.type # "error" /\ v.type # "datum"
      BY <1>1, <1>2, <1>3, <1>4, <2>3, Returns
    <2> QED BY <2>1, <2>2, <2>3
  <1>6. Store' BY <1>1, <1>5 DEF Inv, Store, ValuesOK
  <1> QED BY <1>5, <1>6 DEF Inv

LEMMA ApplyClosureStep == ASSUME Inv, ApplyClosure PROVE Inv'
  <1> DEFINE f == Top
             values == TopKont.values
             closure == values[1]
             args == Tail(values)
             params == closure.function.params
             g == [f EXCEPT !.konts = Front(f.konts)]
             locals == Stored(<<>>, params, args)
             F == Frame(locals, closure.captures)
             body == closure.function.body
  <1>1. /\ control = Ready /\ TopKont.expr.op = "call" /\ closure.type = "closure"
        /\ UnchangedStore
        /\ IF Len(args) # Len(params) THEN Raise("arity")
           ELSE /\ calls' = Append(Append(Front(calls), g), F)
                /\ control' = Eval(body) /\ Continue
    BY DEF ApplyClosure, Complete, PopKont, SetTop
  <1>2. /\ control # Idle /\ f.konts # <<>>
        /\ Len(values) = Len(TopKont.expr.operands)
    BY <1>1, Completed
  <1>3. CASE Len(args) # Len(params)
    <2>1. Forms' /\ Machine(calls, control)' BY <1>1, <1>2, <1>3, Raises
    <2> QED BY <1>1, <2>1, Unstored DEF Inv
  <1>4. CASE Len(args) = Len(params)
    <2>1. /\ calls' = Append(Append(Front(calls), g), F) /\ control' = Eval(body)
          /\ Continue
      BY <1>1, <1>4
    <2>4. ValueOK(closure) /\ IsSequence(args) /\ ValuesOK(args)
      BY <1>1, Arguments
    <2>5. FunctionOK(closure) /\ ValuesOK(closure.captures) BY <1>1, <2>4, ClosureParts
    <2>8. calls # <<>> /\ CallsOK(calls) /\ FrameOK(f) BY <1>2, InnermostFrame
    <2>9. Becomes(f, g, f.locals, Front(f.konts)) /\ ValuesOK(f.locals)
      BY <2>8, FrameUpdates DEF FrameOK
    <2>10. /\ IsFrame(F) /\ F.locals = locals /\ F.captures = closure.captures
           /\ F.konts = <<>>
      BY DEF Frame, IsFrame
    <2>11. IsSequence(params)
           /\ Judgment(body, Range(params), DOMAIN closure.captures, {}) \in Code
      BY <2>5 DEF FunctionOK
    <2> HIDE DEF f, values, closure, args, params, g, locals, F, body
    <2>12. DOMAIN locals = Range(params) /\ ValuesOK(locals)
      <3>1. ValuesOK(<<>>) /\ DOMAIN <<>> = {} BY NoSequence DEF ValuesOK
      <3>2. Len(params) <= Len(args) BY <1>4, <2>4, SequenceFacts
      <3>3. DOMAIN locals = DOMAIN <<>> \cup Range(params) /\ ValuesOK(locals)
        BY <2>4, <2>11, <3>1, <3>2, StoredFacts DEF locals
      <3> QED BY <3>1, <3>3
    <2>13. FrameOK(F) /\ Settled(F) /\ Len(F.konts) = 0
      BY <2>5, <2>10, <2>12, NoSequence DEF FrameOK, Settled
    <2>14. Fits(body, F, 0)
      <3> DEFINE c == Judgment(body, Range(params), DOMAIN closure.captures, {})
      <3>1. /\ c.expr = body /\ c.locals = Range(params) /\ c.loops = {}
            /\ c.captures = DOMAIN closure.captures
        BY DEF Judgment
      <3> HIDE DEF c
      <3>2. FitsBy(c, F, 0) BY <2>10, <2>12, <3>1 DEF FitsBy
      <3>3. c \in Code BY <2>11 DEF c
      <3> QED BY <3>1, <3>2, <3>3 DEF Fits
    <2>15. ControlOK(Eval(body), F) /\ Eval(body).at = "eval"
      BY <2>13, <2>14 DEF ControlOK, Eval
    <2>16. FrameOK(g) /\ Settled(g) BY <1>2, <2>8, <2>9, Popping
    <2> DEFINE cs == Append(Front(calls), g)
    <2>17. CallsOK(cs) /\ \A i \in 1..Len(cs) : Settled(cs[i])
      BY <2>8, <2>16, InnermostReplaced
    <2> HIDE DEF cs
    <2>18. Machine(Append(cs, F), Eval(body)) BY <2>13, <2>15, <2>17, Calls
    <2>19. Machine(calls', control') BY <2>1, <2>18 DEF cs
    <2> QED BY <1>1, <1>2, <2>1, <2>19, Continues, Unstored DEF Inv
  <1> QED BY <1>3, <1>4

LEMMA NotCallableStep == ASSUME Inv, NotCallable PROVE Inv'
  <1>1. control = Ready /\ UnchangedStore /\ Raise("callee")
    BY DEF NotCallable, Complete
  <1>2. control # Idle BY <1>1, Completed
  <1>3. Forms' /\ Machine(calls, control)' BY <1>1, <1>2, Raises
  <1> QED BY <1>1, <1>3, Unstored DEF Inv

LEMMA ReturnFromCallStep == ASSUME Inv, ReturnFromCall PROVE Inv'
  <1> DEFINE n == Len(calls)
             cs == Front(calls)
  <1>1. /\ control.at = "value" /\ n > 1 /\ calls' = cs /\ control' = control
        /\ Continue /\ UnchangedStore
    BY DEF ReturnFromCall
  <1>2. control # Idle BY <1>1 DEF Idle
  <1>3. /\ calls # <<>> /\ CallsOK(calls) /\ IsSequence(calls) /\ n \in Nat
        /\ ControlOK(control, Top)
    BY <1>2, InnermostFrame
  <1>4. /\ IsSequence(cs) /\ Len(cs) = n - 1
        /\ \A i \in 1..(n - 1) : cs[i] = calls[i]
    BY <1>3, Popped
  <1> HIDE DEF n, cs
  <1>5. /\ \A i \in 1..(n - 1) : FrameOK(calls[i]) /\ Settled(calls[i])
        /\ n - 1 \in 1..(n - 1)
    BY <1>1, <1>3 DEF CallsOK, n
  <1>6. CallsOK(cs)
    <2>1. \A i \in 1..(Len(cs) - 1) : i \in 1..(n - 1) BY <1>3, <1>4
    <2> QED BY <1>4, <1>5, <2>1 DEF CallsOK
  <1>7. cs # <<>> BY <1>1, <1>3, <1>4, NoSequence DEF n
  <1>8. ControlOK(control, cs[Len(cs)])
    BY <1>1, <1>3, <1>4, <1>5 DEF ControlOK
  <1>9. Machine(calls', control') BY <1>1, <1>6, <1>7, <1>8 DEF Machine
  <1> QED BY <1>1, <1>2, <1>9, Continues, Unstored DEF Inv

LEMMA FinishFormStep == ASSUME Inv, FinishForm PROVE Inv'
  <1> DEFINE form == session[next]
             v == control.value
  <1>1. /\ control.at = "value" /\ calls' = <<>> /\ control' = Idle /\ next' = next + 1
        /\ UNCHANGED <<session, printed, charged, gensyms>>
        /\ outcome'.is = "value"
        /\ IF form.target = NoTarget THEN UNCHANGED globals
           ELSE globals' = Stored(globals, <<form.target>>, <<v>>)
    BY DEF FinishForm
  <1>2. control # Idle BY <1>1 DEF Idle
  <1>3. ValueOK(v) BY <1>1, <1>2, InnermostFrame DEF ControlOK
  <1>4. /\ session \in Sessions /\ next \in 1..(Len(session) + 1)
        /\ next <= Len(session)
    BY <1>2 DEF Inv, Forms
  <1>5. IsSequence(session) BY <1>4, CodeAssumption DEF AllVerified
  <1>6. Len(session) \in Nat /\ next \in DOMAIN session
    BY <1>4, <1>5, SequenceFacts
  <1>7. form.target \in GlobalName \cup {NoTarget}
    BY <1>4, <1>6, CodeAssumption DEF AllVerified
  <1>8. Forms'
    <2>1. next' \in 1..(Len(session') + 1) BY <1>1, <1>4, <1>6
    <2> QED BY <1>1, <1>4, <2>1 DEF Forms, NoInternalError
  <1>9. Machine(calls', control') BY <1>1 DEF Machine
  <1>10. DOMAIN globals \subseteq GlobalName /\ ValuesOK(globals)
    BY DEF Inv, Store
  <1> HIDE DEF form, v
  <1>11. DOMAIN globals' \subseteq GlobalName /\ ValuesOK(globals')
    <2>1. CASE form.target = NoTarget BY <1>1, <1>10, <2>1
    <2>2. CASE form.target # NoTarget
      <3> DEFINE stored == Stored(globals, <<form.target>>, <<v>>)
      <3>1. DOMAIN stored = DOMAIN globals \cup {form.target} /\ ValuesOK(stored)
        BY <1>3, <1>10, OneStored
      <3>2. globals' = stored BY <1>1, <2>2
      <3> HIDE DEF stored
      <3> QED BY <1>7, <1>10, <2>2, <3>1, <3>2
    <2> QED BY <2>1, <2>2
  <1>12. Store'
    <2>1. ValuesOK(globals)' BY <1>11 DEF ValuesOK
    <2> QED BY <1>1, <1>11, <2>1 DEF Inv, Store
  <1> QED BY <1>8, <1>9, <1>12 DEF Inv

-----------------------------------------------------------------------------
(* Every step preserves the invariant: breaks *)

LEMMA BreakStep == ASSUME Inv, Break PROVE Inv'
  <1> DEFINE f == Top
             e == TopKont.expr
             values == TopKont.values
             n == Len(f.konts)
             v == IF values = <<>> THEN Unit ELSE values[1]
             g == [f EXCEPT !.konts = Front(f.konts)]
             flow == [at |-> "break", target |-> e.target, value |-> v]
  <1>1. /\ control = Ready /\ e.op = "break" /\ calls' = Append(Front(calls), g)
        /\ control' = flow /\ Continue /\ UnchangedStore
    BY DEF Break, Complete, PopKont, SetTop
  <1>2. control # Idle /\ f.konts # <<>> BY <1>1, Completed
  <1>3. PICK c \in Code : c.expr = e /\ FitsBy(c, f, n - 1) /\ Verified(c, Code)
    BY <1>2, InnermostFunction
  <1>4. e.target \in Around(f, n - 1) BY <1>1, <1>3 DEF Verified, FitsBy
  <1>5. IsSequence(values) /\ ValuesOK(values) BY <1>2, InnermostFunction DEF Sane
  <1>6. ValueOK(v)
    <2>1. ValueOK(Unit) BY PlainIsOK DEF Unit, Plain
    <2>2. values # <<>> => 1 \in DOMAIN values BY <1>5, SequenceFacts
    <2> QED BY <1>5, <2>1, <2>2 DEF ValuesOK
  <1>7. calls # <<>> /\ CallsOK(calls) /\ FrameOK(f) BY <1>2, InnermostFrame
  <1>8. Becomes(f, g, f.locals, Front(f.konts)) /\ ValuesOK(f.locals)
    BY <1>7, FrameUpdates DEF FrameOK
  <1>9. flow.at = "break" /\ flow.target = e.target /\ flow.value = v OBVIOUS
  <1> HIDE DEF f, e, values, v, g, flow
  <1>10. /\ FrameOK(g) /\ Settled(g) /\ Len(g.konts) = n - 1
         /\ Around(g, n - 1) = Around(f, n - 1)
    BY <1>2, <1>7, <1>8, Popping
  <1>11. ControlOK(flow, g) BY <1>4, <1>6, <1>9, <1>10 DEF ControlOK
  <1>12. Machine(Append(Front(calls), g), flow) BY <1>7, <1>9, <1>10, <1>11, GoesOn
  <1> QED BY <1>1, <1>2, <1>12, Continues, Unstored DEF Inv

\* A break is inside the body of its loop until it gets there.
LEMMA PassBreakStep == ASSUME Inv, PassBreak PROVE Inv'
  <1> DEFINE f == Top
             n == Len(f.konts)
             g == [f EXCEPT !.konts = Front(f.konts)]
  <1>1. /\ control.at = "break" /\ UnchangedStore
        /\ IF f.konts = <<>> THEN Raise("internal")
           ELSE IF Takes(TopKont, control.target) THEN Return(control.value)
           ELSE calls' = Append(Front(calls), g) /\ control' = control /\ Continue
    BY DEF PassBreak, PopKont, SetTop
  <1>2. control # Idle BY <1>1 DEF Idle
  <1>3. /\ calls # <<>> /\ CallsOK(calls) /\ FrameOK(f) /\ ControlOK(control, f)
    BY <1>2, InnermostFrame
  <1>4. ValueOK(control.value) /\ control.target \in Around(f, n) /\ Settled(f)
    BY <1>1, <1>3 DEF ControlOK
  <1>5. f.konts # <<>> BY <1>4, NoSequence DEF Around
  <1>6. n \in Nat /\ n > 0 /\ TopKont = f.konts[n] BY <1>2, <1>5, InnermostFunction
  <1>7. CASE Takes(TopKont, control.target)
    <2>1. Forms' /\ Machine(calls, control)' BY <1>1, <1>2, <1>4, <1>5, <1>7, Returns
    <2> QED BY <1>1, <2>1, Unstored DEF Inv
  <1>8. CASE ~Takes(TopKont, control.target)
    <2>1. calls' = Append(Front(calls), g) /\ control' = control /\ Continue
      BY <1>1, <1>5, <1>8
    <2>2. control.target \in Around(f, n - 1)
      <3>1. PICK j \in 1..n : f.konts[j].stage = "body"
                              /\ f.konts[j].expr.id = control.target
        BY <1>4 DEF Around
      <3>2. j # n BY <1>6, <1>8, <3>1 DEF Takes
      <3>3. j \in 1..(n - 1) BY <1>6, <3>2
      <3> QED BY <3>1, <3>3 DEF Around
    <2>3. Becomes(f, g, f.locals, Front(f.konts)) /\ ValuesOK(f.locals)
      BY <1>3, FrameUpdates DEF FrameOK
    <2> HIDE DEF f, g
    <2>4. /\ FrameOK(g) /\ Settled(g) /\ Len(g.konts) = n - 1
          /\ Around(g, n - 1) = Around(f, n - 1)
      BY <1>3, <1>5, <2>3, Popping
    <2>5. ControlOK(control, g) BY <1>1, <1>4, <2>2, <2>4 DEF ControlOK
    <2>6. Machine(Append(Front(calls), g), control)
      BY <1>1, <1>3, <2>4, <2>5, GoesOn
    <2> QED BY <1>1, <1>2, <2>1, <2>6, Continues, Unstored DEF Inv
  <1> QED BY <1>7, <1>8

-----------------------------------------------------------------------------
(* Every step preserves the invariant: loops *)

\* A loop that goes on, in a part of it.
LEMMA LoopGoesOn ==
    ASSUME Inv, control # Idle, Top.konts # <<>>,
           NEW locals, ValuesOK(locals), DOMAIN Top.locals \subseteq DOMAIN locals,
           NEW k, k.expr = TopKont.expr, Sane(k, DOMAIN locals), k.stage # "operands",
           NEW g, Becomes(Top, g, locals, Append(Front(Top.konts), k)),
           NEW part, NEW loops,
           \A c \in Code : c.expr = k.expr /\ Verified(c, Code) =>
              Judgment(part, c.locals \cup Range(k.expr.targets), c.captures,
                       c.loops \cup loops) \in Code,
           Range(k.expr.targets) \subseteq DOMAIN locals,
           loops \subseteq (IF k.stage = "body" THEN {k.expr.id} ELSE {}),
           calls' = SetTop(g), control' = Eval(part)
    PROVE  Machine(calls, control)'
  <1> DEFINE f == Top
             n == Len(f.konts)
  <1>1. calls # <<>> /\ CallsOK(calls) /\ FrameOK(f) BY InnermostFrame
  <1>2. PICK c \in Code : /\ c.expr = k.expr /\ FitsBy(c, f, n - 1)
                         /\ Verified(c, Code)
    BY InnermostFunction
  <1>3. k.expr = f.konts[n].expr BY InnermostFunction
  <1>4. calls' = Append(Front(calls), g) BY DEF SetTop
  <1> HIDE DEF f
  <1>5. Becomes(f, g, locals, Append(Front(f.konts), k)) BY DEF f
  <1>6. DOMAIN f.locals \subseteq DOMAIN locals /\ f.konts # <<>> BY DEF f
  <1>7. /\ FrameOK(g) /\ (Waiting(k) => Settled(g)) /\ Len(g.konts) = n
        /\ (k.stage = "body" => k.expr.id \in Around(g, n)) /\ FitsBy(c, g, n)
    <2>1. k.expr = f.konts[Len(f.konts)].expr BY <1>3
    <2>2. FrameOK(f) BY <1>1
    <2>3. FrameOK(g) /\ (Waiting(k) => Settled(g)) /\ Len(g.konts) = n
      BY ONLY <1>5, <1>6, <2>1, <2>2, ValuesOK(locals), Sane(k, DOMAIN locals), Replacing
    <2>4. k.stage = "body" => k.expr.id \in Around(g, n)
      BY ONLY <1>5, <1>6, <2>1, <2>2, ValuesOK(locals), Sane(k, DOMAIN locals), Replacing
    <2>5. FitsBy(c, f, n - 1) => FitsBy(c, g, n)
      BY ONLY <1>5, <1>6, <2>1, <2>2, ValuesOK(locals), Sane(k, DOMAIN locals), Replacing
    <2> QED BY <1>2, <2>3, <2>4, <2>5
  <1>8. Settled(g) BY <1>7 DEF Waiting
  <1>9. loops \subseteq Around(g, n) BY <1>7
  <1>10. Range(k.expr.targets) \subseteq DOMAIN g.locals BY <1>5 DEF Becomes
  <1>11. Fits(part, g, n)
    <2>1. Judgment(part, c.locals \cup Range(k.expr.targets), c.captures,
                   c.loops \cup loops) \in Code
      BY <1>2
    <2> HIDE DEF n
    <2> QED BY <1>7, <1>9, <1>10, <2>1, FitsBound
  <1>12. ControlOK(Eval(part), g) /\ Eval(part).at = "eval"
    BY <1>7, <1>8, <1>11 DEF ControlOK, Eval
  <1>13. Machine(Append(Front(calls), g), Eval(part)) BY <1>1, <1>7, <1>12, GoesOn
  <1> QED BY <1>4, <1>13

\* A range loop about to test its counter.
LEMMA TestsNext ==
    ASSUME Inv, control # Idle, Top.konts # <<>>,
           NEW k, k.expr = TopKont.expr, Sane(k, DOMAIN Top.locals), InRange(k),
           calls' = SetKont(k), control' = Test
    PROVE  Machine(calls, control)'
  <1> DEFINE f == Top
             n == Len(f.konts)
             g == [f EXCEPT !.konts = Append(Front(f.konts), k)]
  <1>1. calls # <<>> /\ CallsOK(calls) /\ FrameOK(f) BY InnermostFrame
  <1>2. k.expr = f.konts[n].expr BY InnermostFunction
  <1>3. calls' = Append(Front(calls), g) BY DEF SetKont, SetTop
  <1>4. Becomes(f, g, f.locals, Append(Front(f.konts), k)) /\ ValuesOK(f.locals)
    BY <1>1, FrameUpdates DEF FrameOK
  <1>5. f.konts # <<>> OBVIOUS
  <1> HIDE DEF f, g
  <1>6. FrameOK(g) /\ n > 0 /\ Len(g.konts) = n /\ g.konts[n] = k
    BY <1>1, <1>2, <1>4, <1>5, Replacing DEF f
  <1>7. ControlOK(Test, g) /\ Test.at = "test" BY <1>6 DEF ControlOK, Test
  <1>8. Machine(Append(Front(calls), g), Test) BY <1>1, <1>6, <1>7, GoesOn
  <1> QED BY <1>3, <1>8

LEMMA IterateStep ==
    ASSUME Inv, control # Idle, Top.konts # <<>>,
           NEW k, k = TopKont, Sane(k, DOMAIN Top.locals),
           InRange(k) \/ InState(k, DOMAIN Top.locals),
           NEW locals, ValuesOK(locals), DOMAIN Top.locals \subseteq DOMAIN locals,
           Range(k.expr.targets) \subseteq DOMAIN locals,
           Iterate(k, "body", locals, k.expr.body)
    PROVE  Forms' /\ Machine(calls, control)'
  <1> DEFINE f == Top
             new == [k EXCEPT !.stage = "body", !.iterations = Counted(k)]
             g == [f EXCEPT !.locals = locals, !.konts = Append(Front(f.konts), new)]
  <1>1. CASE k.iterations + 1 > MaxIterations
    <2>1. Raise("iterations") BY <1>1 DEF Iterate
    <2> QED BY <2>1, Raises
  <1>2. CASE ~(k.iterations + 1 > MaxIterations)
    <2>1. calls' = SetTop(g) /\ control' = Eval(k.expr.body) /\ Continue
      BY <1>2 DEF Iterate
    <2>2. FrameOK(f) BY InnermostFrame
    <2>3. Becomes(f, g, locals, Append(Front(f.konts), new))
      BY <2>2, FrameUpdates DEF FrameOK
    <2>4. /\ new.expr = k.expr /\ new.stage = "body" /\ new.values = k.values
          /\ new.iterations = k.iterations + 1 /\ new.current = k.current /\ IsKont(new)
      BY DEF Sane, IsKont, Counted
    <2>5. k.expr.op \in {"range", "state"} BY DEF InRange, InState
    <2> HIDE DEF f, new, g
    <2>6. new.iterations \in 0..MaxIterations
      BY <1>2, <2>4, LimitsAssumption DEF Sane
    <2>7. InRange(new) \/ InState(new, DOMAIN locals)
      BY <2>4 DEF InRange, InState
    <2>8. Sane(new, DOMAIN locals) BY <2>4, <2>6, <2>7 DEF Sane
    <2>9. \A c \in Code : c.expr = new.expr /\ Verified(c, Code) =>
            Judgment(new.expr.body, c.locals \cup Range(new.expr.targets), c.captures,
                     c.loops \cup {new.expr.id}) \in Code
      <3> SUFFICES ASSUME NEW c \in Code, c.expr = k.expr, Verified(c, Code)
                   PROVE  Judgment(k.expr.body, c.locals \cup Range(k.expr.targets),
                                   c.captures, c.loops \cup {k.expr.id}) \in Code
        BY <2>4
      <3> DEFINE e == k.expr
      <3>1. e.op \in {"range", "state"} /\ c.expr = e BY <2>5
      <3> HIDE DEF e
      <3>2. Judgment(e.body, c.locals \cup Range(e.targets), c.captures,
                     c.loops \cup {e.id}) \in Code
        BY <3>1 DEF Verified
      <3> QED BY <3>2 DEF e
    <2>10. {new.expr.id} \subseteq (IF new.stage = "body" THEN {new.expr.id} ELSE {})
      BY <2>4
    <2>11. Machine(calls, control)'
      <3> DEFINE loops == {new.expr.id}
      <3>1. /\ new.expr = TopKont.expr /\ new.stage # "operands"
            /\ Range(new.expr.targets) \subseteq DOMAIN locals
            /\ control' = Eval(new.expr.body)
            /\ Becomes(Top, g, locals, Append(Front(Top.konts), new))
        BY <2>1, <2>3, <2>4 DEF f
      <3> HIDE DEF loops
      <3> QED BY <2>1, <2>8, <2>9, <2>10, <3>1, LoopGoesOn DEF loops
    <2> QED BY <2>1, <2>11, Continues
  <1> QED BY <1>1, <1>2

LEMMA BeginRangeStep == ASSUME Inv, BeginRange PROVE Inv'
  <1> DEFINE k == TopKont
             new == [k EXCEPT !.stage = "body", !.current = k.values[1].int]
  <1>1. /\ control = Ready /\ k.expr.op = "range" /\ UnchangedStore
        /\ IF k.values[3].int = 0 THEN Raise("step")
           ELSE calls' = SetKont(new) /\ control' = Test /\ Continue
    BY DEF BeginRange, Complete
  <1>2. /\ control # Idle /\ Top.konts # <<>> /\ AtOperands(k, DOMAIN Top.locals)
        /\ Len(k.values) = Len(k.expr.operands)
    BY <1>1, Completed
  <1>3. CASE k.values[3].int = 0
    <2>1. Forms' /\ Machine(calls, control)' BY <1>1, <1>2, <1>3, Raises
    <2> QED BY <1>1, <2>1, Unstored DEF Inv
  <1>4. CASE k.values[3].int # 0
    <2>1. calls' = SetKont(new) /\ control' = Test /\ Continue BY <1>1, <1>4
    <2>2. /\ Sane(k, DOMAIN Top.locals)
          /\ \E c \in Code : c.expr = k.expr /\ Verified(c, Code)
      BY <1>2, InnermostFunction
    <2>3. Len(k.values) = 3
      <3>1. PICK c \in Code : c.expr = k.expr /\ Verified(c, Code) BY <2>2
      <3> QED BY <1>1, <1>2, <3>1 DEF Verified
    <2>4. /\ \A i \in 1..3 : k.values[i].type = "int"
          /\ DOMAIN k.values = 1..3
      BY <1>1, <1>2, <2>2, <2>3, SequenceFacts DEF AtOperands, Sane
    <2>5. k.values[1].int \in Word
      <3>1. ValueOK(k.values[1]) /\ k.values[1].type = "int"
        BY <2>2, <2>4 DEF Sane, ValuesOK
      <3> QED BY <3>1, ValueIsPlain DEF Plain
    <2>6. /\ new.expr = k.expr /\ new.stage = "body" /\ new.values = k.values
          /\ new.iterations = k.iterations /\ new.current = k.values[1].int
          /\ IsKont(new)
      BY <2>2 DEF Sane, IsKont
    <2> HIDE DEF k, new
    <2>7. InRange(new) BY <1>1, <2>3, <2>4, <2>6 DEF InRange
    <2>8. Sane(new, DOMAIN Top.locals) BY <2>2, <2>5, <2>6, <2>7 DEF Sane
    <2>9. new.expr = TopKont.expr BY <2>6 DEF k
    <2>10. Machine(calls, control)' BY <1>2, <2>1, <2>7, <2>8, <2>9, TestsNext
    <2> QED BY <1>1, <1>2, <2>1, <2>10, Continues, Unstored DEF Inv
  <1> QED BY <1>3, <1>4

LEMMA TestRangeStep == ASSUME Inv, TestRange PROVE Inv'
  <1> DEFINE k == TopKont
             locals == Stored(Top.locals, k.expr.targets, <<Num(k.current)>>)
  <1>1. /\ control = Test /\ UnchangedStore
        /\ Iterate(k, "body", locals, k.expr.body) \/ Return(Unit)
    BY DEF TestRange
  <1>2. control # Idle /\ control.at = "test" BY <1>1 DEF Test, Idle
  <1>3. FrameOK(Top) /\ ControlOK(control, Top) BY <1>2, InnermostFrame
  <1>4. IsSequence(Top.konts) /\ Len(Top.konts) > 0 /\ ValuesOK(Top.locals)
    BY <1>2, <1>3 DEF FrameOK, ControlOK
  <1>5. Top.konts # <<>> BY <1>4, SequenceFacts
  <1>6. /\ k = Top.konts[Len(Top.konts)] /\ Sane(k, DOMAIN Top.locals)
        /\ \E c \in Code : c.expr = k.expr /\ Verified(c, Code)
    BY <1>2, <1>5, InnermostFunction
  <1>7. InRange(k) BY <1>2, <1>3, <1>6 DEF ControlOK
  <1>8. IsSequence(k.expr.targets) /\ Len(k.expr.targets) = 1
    <2>1. PICK c \in Code : c.expr = k.expr /\ Verified(c, Code) BY <1>6
    <2> QED BY <1>7, <2>1 DEF InRange, Verified
  <1>9. DOMAIN locals = DOMAIN Top.locals \cup Range(k.expr.targets) /\ ValuesOK(locals)
    <2> DEFINE v == Num(k.current)
    <2>1. ValueOK(v) BY <1>6, PlainIsOK DEF Num, Plain, Sane
    <2> HIDE DEF v
    <2>2. <<v>> \in Seq({v}) /\ Len(<<v>>) = 1 /\ ValuesOK(<<v>>)
      BY <2>1 DEF ValuesOK
    <2>3. IsSequence(<<v>>)
      <3> DEFINE S == {v}
      <3>1. <<v>> \in Seq(S) BY <2>2
      <3> HIDE DEF S
      <3> QED BY <3>1, IsSequenceOf
    <2>4. Len(k.expr.targets) <= Len(<<v>>) BY <1>8, <2>2
    <2> QED BY <1>4, <1>8, <2>2, <2>3, <2>4, StoredFacts DEF v
  <1> HIDE DEF k, locals
  <1>10. Forms' /\ Machine(calls, control)'
    <2>1. CASE Return(Unit)
      <3>1. ValueOK(Unit) BY PlainIsOK DEF Unit, Plain
      <3> QED BY <1>2, <1>5, <2>1, <3>1, Returns
    <2>2. CASE Iterate(k, "body", locals, k.expr.body)
      <3>1. /\ DOMAIN Top.locals \subseteq DOMAIN locals
            /\ Range(k.expr.targets) \subseteq DOMAIN locals
        BY <1>9
      <3> QED BY <1>2, <1>5, <1>6, <1>7, <1>9, <2>2, <3>1, IterateStep DEF k
    <2> QED BY <1>1, <2>1, <2>2
  <1> QED BY <1>1, <1>10, Unstored DEF Inv

LEMMA StepRangeStep == ASSUME Inv, StepRange PROVE Inv'
  <1> DEFINE k == TopKont
             current == k.current + k.values[3].int
             new == [k EXCEPT !.current = current]
  <1>1. /\ control.at = "value" /\ Top.konts # <<>> /\ k.stage = "body"
        /\ k.expr.op = "range" /\ UnchangedStore
        /\ IF Overflows(current) THEN Raise("counter")
           ELSE calls' = SetKont(new) /\ control' = Test /\ Continue
    BY DEF StepRange
  <1>2. control # Idle BY <1>1 DEF Idle
  <1>3. CASE Overflows(current)
    <2>1. Raise("counter") BY <1>1, <1>3
    <2>2. Forms' /\ Machine(calls, control)' BY <1>2, <2>1, Raises
    <2> QED BY <1>1, <2>2, Unstored DEF Inv
  <1>4. CASE ~Overflows(current)
    <2>1. calls' = SetKont(new) /\ control' = Test /\ Continue /\ current \in Word
      BY <1>1, <1>4 DEF Overflows
    <2>2. Sane(k, DOMAIN Top.locals) BY <1>1, <1>2, InnermostFunction
    <2>3. InRange(k) BY <1>1, <2>2 DEF Sane, AtOperands, InState
    <2> HIDE DEF current
    <2>4. /\ new.expr = k.expr /\ new.stage = k.stage /\ new.values = k.values
          /\ new.iterations = k.iterations /\ new.current = current /\ IsKont(new)
      BY <2>2 DEF Sane, IsKont
    <2> HIDE DEF k, new
    <2>5. InRange(new) BY <2>3, <2>4 DEF InRange
    <2>6. Sane(new, DOMAIN Top.locals) BY <2>1, <2>2, <2>4, <2>5 DEF Sane
    <2>7. new.expr = TopKont.expr BY <2>4 DEF k
    <2>8. Machine(calls, control)' BY <1>1, <1>2, <2>1, <2>5, <2>6, <2>7, TestsNext
    <2> QED BY <1>1, <1>2, <2>1, <2>8, Continues, Unstored DEF Inv
  <1> QED BY <1>3, <1>4

LEMMA BeginStateStep == ASSUME Inv, BeginState PROVE Inv'
  <1> DEFINE f == Top
             k == TopKont
             e == k.expr
             new == [k EXCEPT !.stage = "cond"]
             g == [f EXCEPT !.konts = Append(Front(f.konts), new)]
  <1>1. /\ control = Ready /\ e.op = "state" /\ UnchangedStore
        /\ calls' = SetTop(g) /\ control' = Eval(e.cond) /\ Continue
    BY DEF BeginState, Complete, SetKont
  <1>2. /\ control # Idle /\ f.konts # <<>> /\ AtOperands(k, DOMAIN f.locals)
        /\ Len(k.values) = Len(e.operands)
    BY <1>1, Completed
  <1>3. /\ Sane(k, DOMAIN f.locals)
        /\ \E c \in Code : c.expr = e /\ Verified(c, Code)
    BY <1>2, InnermostFunction
  <1>4. IsSequence(e.targets) /\ Len(e.targets) = Len(k.values)
    <2>1. PICK c \in Code : c.expr = e /\ Verified(c, Code) BY <1>3
    <2> QED BY <1>1, <1>2, <2>1 DEF Verified
  <1>5. Range(e.targets) \subseteq DOMAIN f.locals
    <2>1. \A i \in 1..Len(e.targets) : e.targets[i] \in DOMAIN f.locals
      BY <1>1, <1>2, <1>4 DEF AtOperands
    <2>2. DOMAIN e.targets = 1..Len(e.targets) BY <1>4, SequenceFacts
    <2> QED BY <2>1, <2>2 DEF Range
  <1>6. FrameOK(f) BY <1>2, InnermostFrame
  <1>7. Becomes(f, g, f.locals, Append(Front(f.konts), new)) /\ ValuesOK(f.locals)
    BY <1>6, FrameUpdates DEF FrameOK
  <1>8. /\ new.expr = e /\ new.stage = "cond" /\ new.values = k.values
        /\ new.iterations = k.iterations /\ new.current = k.current /\ IsKont(new)
    BY <1>3 DEF Sane, IsKont
  <1> HIDE DEF e, new, g
  <1>9. InState(new, DOMAIN f.locals) BY <1>1, <1>5, <1>8 DEF InState
  <1>10. Sane(new, DOMAIN f.locals) BY <1>3, <1>8, <1>9 DEF Sane
  <1>11. \A c \in Code : c.expr = e /\ Verified(c, Code) =>
            Judgment(e.cond, c.locals \cup Range(e.targets), c.captures,
                     c.loops \cup {}) \in Code
    BY <1>1 DEF Verified
  <1>12. Machine(calls, control)'
    <2> DEFINE none == {}
    <2>1. \A c \in Code : c.expr = new.expr /\ Verified(c, Code) =>
            Judgment(e.cond, c.locals \cup Range(new.expr.targets), c.captures,
                     c.loops \cup none) \in Code
      BY <1>8, <1>11
    <2>2. none \subseteq (IF new.stage = "body" THEN {new.expr.id} ELSE {}) OBVIOUS
    <2>3. /\ new.expr = TopKont.expr /\ new.stage # "operands"
          /\ Range(new.expr.targets) \subseteq DOMAIN f.locals
      BY <1>5, <1>8 DEF e
    <2> HIDE DEF none
    <2> QED BY <1>1, <1>2, <1>7, <1>10, <2>1, <2>2, <2>3, LoopGoesOn
  <1> QED BY <1>1, <1>2, <1>12, Continues, Unstored DEF Inv

LEMMA TestStateStep == ASSUME Inv, TestState PROVE Inv'
  <1> DEFINE k == TopKont
  <1>1. /\ control.at = "value" /\ Top.konts # <<>> /\ k.stage = "cond"
        /\ UnchangedStore
        /\ \/ Raise("condition") \/ Return(Unit)
           \/ Iterate(k, "body", Top.locals, k.expr.body)
    BY DEF TestState
  <1>2. control # Idle BY <1>1 DEF Idle
  <1>3. Sane(k, DOMAIN Top.locals) BY <1>1, <1>2, InnermostFunction
  <1>4. InState(k, DOMAIN Top.locals) BY <1>1, <1>3 DEF Sane, AtOperands, InRange
  <1>5. ValuesOK(Top.locals) BY <1>2, InnermostFrame DEF FrameOK
  <1> HIDE DEF k
  <1>6. Forms' /\ Machine(calls, control)'
    <2>1. CASE Raise("condition") BY <1>2, <2>1, Raises
    <2>2. CASE Return(Unit)
      <3>1. ValueOK(Unit) BY PlainIsOK DEF Unit, Plain
      <3> QED BY <1>1, <1>2, <2>2, <3>1, Returns
    <2>3. CASE Iterate(k, "body", Top.locals, k.expr.body)
      <3>1. Range(k.expr.targets) \subseteq DOMAIN Top.locals BY <1>4 DEF InState
      <3> QED BY <1>1, <1>2, <1>3, <1>4, <1>5, <2>3, <3>1, IterateStep DEF k
    <2> QED BY <1>1, <2>1, <2>2, <2>3
  <1> QED BY <1>1, <1>6, Unstored DEF Inv

LEMMA StepStateStep == ASSUME Inv, StepState PROVE Inv'
  <1> DEFINE f == Top
             k == TopKont
             e == k.expr
             v == control.value
             values == IF k.stage = "body" THEN <<>> ELSE Append(k.values, v)
             locals == IF k.stage = "body" THEN f.locals ELSE Updated(k, v)
             goesOn == Len(values) < Len(e.nexts)
             part == IF goesOn THEN e.nexts[Len(values) + 1] ELSE e.cond
             new == [k EXCEPT !.values = values, !.stage = IF goesOn THEN "next" ELSE "cond"]
             g == [f EXCEPT !.locals = locals, !.konts = Append(Front(f.konts), new)]
  <1>1. /\ control.at = "value" /\ f.konts # <<>> /\ e.op = "state"
        /\ k.stage \in {"body", "next"} /\ UnchangedStore
        /\ calls' = SetTop(g) /\ control' = Eval(part) /\ Continue
    BY DEF StepState
  <1>2. control # Idle BY <1>1 DEF Idle
  <1>3. FrameOK(f) /\ ControlOK(control, f) BY <1>2, InnermostFrame
  <1>4. ValueOK(v) /\ ValuesOK(f.locals) BY <1>1, <1>3 DEF ControlOK, FrameOK
  <1>5. /\ Sane(k, DOMAIN f.locals)
        /\ \E c \in Code : c.expr = e /\ Verified(c, Code)
    BY <1>1, <1>2, InnermostFunction
  <1>6. InState(k, DOMAIN f.locals) BY <1>1, <1>5 DEF Sane, AtOperands, InRange
  <1>7. /\ IsSequence(e.targets) /\ IsSequence(e.nexts) /\ Len(e.nexts) \in Nat
        /\ Len(e.targets) = Len(e.nexts)
    <2>1. PICK c \in Code : c.expr = e /\ Verified(c, Code) BY <1>5
    <2>2. /\ IsSequence(e.targets) /\ IsSequence(e.nexts)
          /\ Len(e.targets) = Len(e.nexts)
      BY <1>1, <2>1 DEF Verified
    <2> QED BY <2>2, SequenceFacts
  <1>8. IsSequence(k.values) /\ ValuesOK(k.values) /\ Len(k.values) \in Nat
        /\ DOMAIN k.values = 1..Len(k.values)
    BY <1>5, SequenceFacts DEF Sane
  <1>9. /\ IsSequence(values) /\ ValuesOK(values) /\ Len(values) \in Nat
        /\ k.stage = "next" => values = Append(k.values, v)
                              /\ Len(values) = Len(k.values) + 1
    <2>1. CASE k.stage = "body" BY <2>1, NoSequence DEF ValuesOK
    <2>2. CASE k.stage = "next"
      <3> DEFINE more == Append(k.values, v)
      <3>1. values = more BY <2>2
      <3>2. /\ IsSequence(more) /\ Len(more) = Len(k.values) + 1
            /\ \A i \in 1..Len(k.values) : more[i] = k.values[i]
            /\ more[Len(k.values) + 1] = v
        BY <1>8, Pushed
      <3> HIDE DEF more, values
      <3>3. DOMAIN more = 1..(Len(k.values) + 1) BY <3>2, SequenceFacts
      <3>4. ASSUME NEW i \in DOMAIN more PROVE ValueOK(more[i])
        <4>1. CASE i = Len(k.values) + 1 BY <1>4, <3>2, <4>1
        <4>2. CASE i \in 1..Len(k.values) BY <1>8, <3>2, <4>2 DEF ValuesOK
        <4> QED BY <1>8, <3>3, <4>1, <4>2
      <3> QED BY <1>8, <2>2, <3>1, <3>2, <3>4 DEF ValuesOK, more
    <2> QED BY <1>1, <2>1, <2>2
  <1>10. ValuesOK(locals) /\ DOMAIN f.locals \subseteq DOMAIN locals
    <2>1. \/ locals = f.locals
          \/ /\ k.stage = "next" /\ Len(k.values) + 1 = Len(e.nexts)
             /\ locals = Stored(f.locals, e.targets, values)
      <3>1. CASE k.stage = "body" BY <3>1
      <3>2. CASE k.stage = "next"
        <4> DEFINE more == Append(k.values, v)
                   stored == Stored(f.locals, e.targets, more)
        <4>1. locals = IF Len(k.values) + 1 = Len(e.nexts) THEN stored ELSE f.locals
          BY <3>2, Zenon DEF Updated
        <4>2. values = more BY <1>9, <3>2
        <4> HIDE DEF locals, values, k, e, f, more
        <4> QED BY <3>2, <4>1, <4>2
      <3> QED BY <1>1, <3>1, <3>2
    <2> HIDE DEF locals, values
    <2>2. CASE locals = f.locals BY <1>4, <2>2
    <2>3. CASE locals # f.locals
      <3>1. /\ Len(e.targets) <= Len(values)
            /\ locals = Stored(f.locals, e.targets, values)
        BY <1>7, <1>9, <2>1, <2>3
      <3>2. DOMAIN locals = DOMAIN f.locals \cup Range(e.targets) /\ ValuesOK(locals)
        BY <1>4, <1>7, <1>9, <3>1, StoredFacts
      <3> QED BY <3>2
    <2> QED BY <2>2, <2>3
  <1>11. Becomes(f, g, locals, Append(Front(f.konts), new))
    BY <1>3, FrameUpdates DEF FrameOK
  <1>12. /\ new.expr = e /\ new.stage \in {"next", "cond"} /\ new.values = values
         /\ new.stage = "next" => Len(values) < Len(e.nexts)
         /\ new.iterations = k.iterations /\ new.current = k.current /\ IsKont(new)
    BY <1>5 DEF Sane, IsKont
  <1>13. \A c \in Code : c.expr = e /\ Verified(c, Code) =>
            Judgment(part, c.locals \cup Range(e.targets), c.captures,
                     c.loops \cup {}) \in Code
    <2>1. goesOn => Len(values) + 1 \in DOMAIN e.nexts
      BY <1>7, <1>9, SequenceFacts
    <2> HIDE DEF goesOn, values
    <2>2. ASSUME NEW c \in Code, c.expr = e, Verified(c, Code)
          PROVE  /\ Judgment(e.cond, c.locals \cup Range(e.targets), c.captures,
                             c.loops \cup {}) \in Code
                 /\ \A i \in DOMAIN e.nexts :
                       Judgment(e.nexts[i], c.locals \cup Range(e.targets), c.captures,
                                c.loops \cup {}) \in Code
      BY <1>1, <2>2 DEF Verified
    <2> HIDE DEF e
    <2> QED BY <2>1, <2>2
  <1> HIDE DEF e, values, locals, part, new, g
  <1>14. InState(new, DOMAIN locals)
    BY <1>1, <1>6, <1>10, <1>12 DEF InState, e
  <1>15. Sane(new, DOMAIN locals) BY <1>5, <1>9, <1>12, <1>14 DEF Sane
  <1>16. Machine(calls, control)'
    <2> DEFINE none == {}
    <2>1. \A c \in Code : c.expr = new.expr /\ Verified(c, Code) =>
            Judgment(part, c.locals \cup Range(new.expr.targets), c.captures,
                     c.loops \cup none) \in Code
      BY <1>12, <1>13
    <2>2. none \subseteq (IF new.stage = "body" THEN {new.expr.id} ELSE {}) OBVIOUS
    <2>3. /\ new.expr = TopKont.expr /\ new.stage # "operands"
          /\ Range(new.expr.targets) \subseteq DOMAIN locals
      BY <1>6, <1>10, <1>12 DEF e, InState
    <2> HIDE DEF none
    <2> QED BY <1>1, <1>2, <1>10, <1>11, <1>15, <2>1, <2>2, <2>3, LoopGoesOn
  <1> QED BY <1>1, <1>2, <1>16, Continues, Unstored DEF Inv

-----------------------------------------------------------------------------
(* The theorems *)

LEMMA InitInv == ASSUME Init PROVE Inv
  <1>1. Forms
    <2>1. IsSequence(session) BY CodeAssumption DEF Init, AllVerified
    <2>2. 1 \in 1..(Len(session) + 1) BY <2>1, SequenceFacts
    <2> QED BY <2>2 DEF Init, Forms, NoInternalError
  <1>2. Machine(calls, control) BY DEF Init, Machine
  <1>3. Store
    <2>1. ASSUME NEW op PROVE ValueOK(Builtin(op)) BY PlainIsOK DEF Builtin, Plain
    <2>2. ValuesOK(globals) BY <2>1 DEF Init, ValuesOK
    <2>3. DOMAIN globals \subseteq GlobalName BY LimitsAssumption DEF Init
    <2> QED BY <2>2, <2>3 DEF Init, Store
  <1> QED BY <1>1, <1>2, <1>3 DEF Inv

LEMMA NextInv == ASSUME Inv, [Next]_vars PROVE Inv'
  <1>1. CASE UNCHANGED vars
    BY <1>1 DEF vars, Inv, Forms, Machine, Store, NoInternalError, ValuesOK
  <1>2. CASE Next
    BY <1>2, BeginFormStep, EnterStep, SupplyStep, FinishFormStep, EvalConstStep,
       LoadStep, LoadGlobalStep, LetBodyStep, MakeClosureStep, IfStep, DoStep,
       QuasiQuoteStep, GensymStep, ApplyBuiltinStep, ApplyClosureStep,
       NotCallableStep, ReturnFromCallStep, BeginRangeStep, TestRangeStep,
       StepRangeStep, BeginStateStep, TestStateStep, StepStateStep, BreakStep,
       PassBreakStep
    DEF Next
  <1> QED BY <1>1, <1>2

LEMMA InvTypeOK == ASSUME Inv PROVE TypeOK
  <1>1. /\ next \in 1..(Len(session) + 1)
        /\ DOMAIN globals \subseteq GlobalName /\ charged \in Nat /\ gensyms \in Nat
    BY DEF Inv, Forms, Store
  <1>2. CASE control = Idle
    <2>1. calls = <<>> BY <1>2 DEF Inv, Machine, Idle
    <2>2. Idle.at = "idle" /\ control # Ready /\ control # Test
      BY <1>2 DEF Idle, Ready, Test
    <2> QED BY <1>1, <1>2, <2>1, <2>2, NoSequence DEF TypeOK
  <1>3. CASE control # Idle
    <2>1. /\ calls # <<>> /\ CallsOK(calls) /\ FrameOK(Top) /\ ControlOK(control, Top)
          /\ control.at \in {"eval", "ready", "test", "value", "break"}
      BY <1>3, InnermostFrame
    <2>2. ASSUME control = Ready
          PROVE  Top.konts # <<>> /\ TopKont.stage = "operands"
      BY <2>2, Completed
    <2>3. ASSUME control = Test
          PROVE  Top.konts # <<>> /\ TopKont.expr.op = "range"
      <3>1. /\ Len(Top.konts) > 0 /\ InRange(Top.konts[Len(Top.konts)])
            /\ IsSequence(Top.konts)
        BY <2>1, <2>3 DEF ControlOK, Test, FrameOK
      <3>2. Top.konts # <<>> BY <3>1, SequenceFacts
      <3>3. TopKont = Top.konts[Len(Top.konts)] BY <3>1, <3>2, Popped DEF TopKont
      <3> QED BY <3>1, <3>2, <3>3 DEF InRange
    <2>4. ASSUME NEW i \in DOMAIN calls, NEW j \in DOMAIN calls[i].konts
          PROVE  /\ calls[i].konts[j].stage \in {"operands", "body", "cond", "next"}
                 /\ calls[i].konts[j].current \in Word
                 /\ calls[i].konts[j].iterations \in 0..MaxIterations
      <3>1. FrameOK(calls[i])
        <4>1. IsSequence(calls) BY <2>1 DEF CallsOK
        <4>2. i \in 1..Len(calls) BY <4>1, SequenceFacts
        <4> QED BY <2>1, <4>2 DEF CallsOK
      <3>2. KontOK(calls[i], j)
        <4>1. IsSequence(calls[i].konts) BY <3>1 DEF FrameOK
        <4>2. j \in 1..Len(calls[i].konts) BY <4>1, SequenceFacts
        <4> QED BY <3>1, <4>2 DEF FrameOK
      <3> QED BY <3>2 DEF KontOK, Sane, AtOperands, InRange, InState
    <2> QED BY <1>1, <1>3, <2>1, <2>2, <2>3, <2>4 DEF TypeOK
  <1> QED BY <1>2, <1>3

\* The interpreter always has what it needs to go on: a frame and a function in
\* progress for every value that comes back, a range loop for every test; and
\* no loop counts beyond its limit or beyond an integer, whatever the limits
\* and the integers are.
THEOREM EvaluatorTypes == Spec => []TypeOK
  <1>1. Init => Inv BY InitInv
  <1>2. Inv /\ [Next]_vars => Inv' BY NextInv
  <1>3. Inv => TypeOK BY InvTypeOK
  <1> QED BY <1>1, <1>2, <1>3, PTL DEF Spec

\* Code that lower_expr makes and verify_module lets through never meets the
\* internal errors of eval_expr and apply: LoadLocal, LoadCapture and MakeClosure
\* find every slot written, and no break leaves its function or the form.
THEOREM EvaluatorIsSound == Spec => []NoInternalError
  <1>1. Init => Inv BY InitInv
  <1>2. Inv /\ [Next]_vars => Inv' BY NextInv
  <1>3. Inv => NoInternalError BY DEF Inv, Forms
  <1> QED BY <1>1, <1>2, <1>3, PTL DEF Spec
=============================================================================
