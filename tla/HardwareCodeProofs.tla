------------------------- MODULE HardwareCodeProofs -------------------------
(***************************************************************************)
(* Proofs about what recurses in the SystemVerilog backend: the trees of   *)
(* expressions and statements, and the functions over them.  Each is shown *)
(* to be defined, because its step looks at the parts of a tree only, and  *)
(* then related to the others by the rank of the tree.                     *)
(***************************************************************************)
EXTENDS HardwareProperties, SequenceLemmas

-----------------------------------------------------------------------------
(* Trees: what larger parts make, levels, and ranks *)

LEMMA CoreNodeGrows ==
    ASSUME NEW S, NEW T, S \subseteq T
    PROVE  CoreNode(S) \subseteq CoreNode(T)
  <1>1. Seq(S) \subseteq Seq(T) OBVIOUS
  <1>2. [1..1 -> S] \subseteq [1..1 -> T] OBVIOUS
  <1>3. Seq([key : S, value : S]) \subseteq Seq([key : T, value : T])
    <2>1. [key : S, value : S] \subseteq [key : T, value : T] OBVIOUS
    <2> DEFINE A == [key : S, value : S]
               B == [key : T, value : T]
    <2> HIDE DEF A, B
    <2>2. A \subseteq B => Seq(A) \subseteq Seq(B) OBVIOUS
    <2> QED BY <2>1, <2>2 DEF A, B
  <1> DEFINE SS == Seq(S)
             TT == Seq(T)
             SA == Seq([key : S, value : S])
             TA == Seq([key : T, value : T])
             SO == [1..1 -> S]
             TO == [1..1 -> T]
  <1>4. [form : {"list"}, head : STRING, args : SS] \subseteq [form : {"list"}, head : STRING, args : TT]
    <2> HIDE DEF SS, TT
    <2>1. SS \subseteq TT => [form : {"list"}, head : STRING, args : SS]
                               \subseteq [form : {"list"}, head : STRING, args : TT]
      OBVIOUS
    <2> QED BY <1>1, <2>1 DEF SS, TT
  <1>5. [form : {"case"}, args : SO, arms : SA] \subseteq [form : {"case"}, args : TO, arms : TA]
    <2> HIDE DEF SO, TO, SA, TA
    <2>1. SO \subseteq TO /\ SA \subseteq TA => [form : {"case"}, args : SO, arms : SA]
                                                  \subseteq [form : {"case"}, args : TO, arms : TA]
      OBVIOUS
    <2> QED BY <1>2, <1>3, <2>1 DEF SO, TO, SA, TA
  <1> QED BY <1>4, <1>5, Zenon DEF CoreNode

LEMMA HwNodeGrows ==
    ASSUME NEW S, NEW T, S \subseteq T
    PROVE  HwNode(S) \subseteq HwNode(T)
  <1> DEFINE A == Seq(S)
             B == Seq(T)
  <1>1. A \subseteq B OBVIOUS
  <1> HIDE DEF A, B
  <1>2. [kind : {"unary", "binary", "compare", "mux", "concat"}, ty : HwTypes, args : A]
          \subseteq
        [kind : {"unary", "binary", "compare", "mux", "concat"}, ty : HwTypes, args : B]
    BY <1>1
  <1>6. [kind : {"resize"}, ty : HwTypes, args : A, width : Nat]
          \subseteq [kind : {"resize"}, ty : HwTypes, args : B, width : Nat]
    BY <1>1
  <1>3. [kind : {"bit"}, ty : HwTypes, args : A, index : Nat]
          \subseteq [kind : {"bit"}, ty : HwTypes, args : B, index : Nat]
    BY <1>1
  <1>4. [kind : {"slice"}, ty : HwTypes, args : A, high : Nat, low : Nat]
          \subseteq [kind : {"slice"}, ty : HwTypes, args : B, high : Nat, low : Nat]
    BY <1>1
  <1>5. [kind : {"case"}, ty : HwTypes, args : A, keys : Seq(Key)]
          \subseteq [kind : {"case"}, ty : HwTypes, args : B, keys : Seq(Key)]
    BY <1>1
  <1> QED BY <1>2, <1>3, <1>4, <1>5, <1>6, Zenon DEF HwNode, A, B

LEMMA StmtNodeGrows ==
    ASSUME NEW S, NEW T, S \subseteq T
    PROVE  StmtNode(S) \subseteq StmtNode(T)
  <1> DEFINE A == Seq(S)
             B == Seq(T)
             AB == [1..1 -> S] \cup [1..2 -> S]
             BB == [1..1 -> T] \cup [1..2 -> T]
             AA == Seq([key : CoreExpr, value : S])
             BA == Seq([key : CoreExpr, value : T])
             C == CoreExpr
  <1>1. A \subseteq B OBVIOUS
  <1>2. AB \subseteq BB OBVIOUS
  <1>3. AA \subseteq BA
    <2>1. [key : C, value : S] \subseteq [key : C, value : T] OBVIOUS
    <2> DEFINE U == [key : C, value : S]
               V == [key : C, value : T]
    <2> HIDE DEF U, V
    <2>2. U \subseteq V => Seq(U) \subseteq Seq(V) OBVIOUS
    <2> QED BY <2>1, <2>2 DEF U, V
  <1> HIDE DEF A, B, AB, BB, AA, BA, C
  <1>4. [stmt : {"do"}, body : A] \subseteq [stmt : {"do"}, body : B] BY <1>1
  <1>5. [stmt : {"if"}, cond : C, branches : AB] \subseteq [stmt : {"if"}, cond : C, branches : BB]
    BY <1>2
  <1>6. [stmt : {"case"}, cond : C, arms : AA] \subseteq [stmt : {"case"}, cond : C, arms : BA]
    BY <1>3
  <1> QED BY <1>4, <1>5, <1>6, Zenon DEF StmtNode, A, B, AB, BB, AA, BA, C

LEMMA HwStmtNodeGrows ==
    ASSUME NEW S, NEW T, S \subseteq T
    PROVE  HwStmtNode(S) \subseteq HwStmtNode(T)
  <1> DEFINE A == Seq(S)
             B == Seq(T)
             C == HwExpr
             K == Seq(Key)
  <1>1. A \subseteq B OBVIOUS
  <1> HIDE DEF A, B, C, K
  <1>4. [stmt : {"block"}, body : A] \subseteq [stmt : {"block"}, body : B] BY <1>1
  <1>5. [stmt : {"if"}, cond : C, branches : A] \subseteq [stmt : {"if"}, cond : C, branches : B]
    BY <1>1
  <1>6. [stmt : {"case"}, cond : C, keys : K, branches : A]
          \subseteq [stmt : {"case"}, cond : C, keys : K, branches : B]
    BY <1>1
  <1> QED BY <1>4, <1>5, <1>6, Zenon DEF HwStmtNode, A, B, C, K

\* The four kinds of trees.
Kinds == {"core", "expr", "source", "stmt"}
Node(kind, parts) ==
    CASE kind = "core" -> CoreNode(parts)
      [] kind = "expr" -> HwNode(parts)
      [] kind = "source" -> StmtNode(parts)
      [] kind = "stmt" -> HwStmtNode(parts)

LEMMA NodeGrows ==
    ASSUME NEW kind \in Kinds, NEW S, NEW T, S \subseteq T
    PROVE  Node(kind, S) \subseteq Node(kind, T)
  <1>1. CASE kind = "core" BY <1>1, CoreNodeGrows DEF Node
  <1>2. CASE kind = "expr" BY <1>2, HwNodeGrows DEF Node
  <1>3. CASE kind = "source" BY <1>3, StmtNodeGrows DEF Node
  <1>4. CASE kind = "stmt" BY <1>4, HwStmtNodeGrows DEF Node
  <1> QED BY <1>1, <1>2, <1>3, <1>4 DEF Kinds

LevelsTo(k, kind, t) == t = [n \in 0..k |-> IF n = 0 THEN {} ELSE Node(kind, t[n - 1])]

LEMMA LevelsExist ==
    ASSUME NEW kind \in Kinds
    PROVE  \E t : LevelsTo(Depth, kind, t)
  <1> DEFINE P == {k \in Nat : \E t : LevelsTo(k, kind, t)}
  <1>1. 0 \in P
    <2> DEFINE t == [n \in 0..0 |-> {}]
    <2>1. LevelsTo(0, kind, t) BY DEF LevelsTo
    <2> HIDE DEF t
    <2> QED BY <2>1
  <1>2. ASSUME NEW k \in P PROVE k + 1 \in P
    <2>1. PICK t : LevelsTo(k, kind, t) OBVIOUS
    <2> DEFINE u == [n \in 0..(k + 1) |-> IF n = k + 1 THEN Node(kind, t[k]) ELSE t[n]]
    <2>2. k \in Nat /\ t = [n \in 0..k |-> t[n]] BY <2>1 DEF LevelsTo
    <2>3. ASSUME NEW n \in 0..(k + 1)
          PROVE  u[n] = IF n = 0 THEN {} ELSE Node(kind, u[n - 1])
      <3>1. CASE n = 0
        <4>1. t[0] = {} BY <2>1, <2>2 DEF LevelsTo
        <4> QED BY <2>2, <3>1, <4>1
      <3>2. CASE n = k + 1
        <4>1. u[n] = Node(kind, t[k]) /\ u[n - 1] = t[k] /\ n # 0 BY <2>2, <3>2
        <4> QED BY <4>1
      <3>3. CASE n # 0 /\ n # k + 1
        <4>1. n \in 0..k /\ n - 1 \in 0..k BY <2>2, <3>3
        <4>2. u[n] = t[n] /\ u[n - 1] = t[n - 1] BY <2>2, <3>3, <4>1
        <4>3. t[n] = Node(kind, t[n - 1]) BY <2>1, <3>3, <4>1 DEF LevelsTo
        <4> HIDE DEF u
        <4> QED BY <3>3, <4>2, <4>3
      <3> QED BY <3>1, <3>2, <3>3
    <2>4. u = [n \in 0..(k + 1) |-> u[n]] OBVIOUS
    <2> HIDE DEF u
    <2>5. LevelsTo(k + 1, kind, u) BY <2>3, <2>4 DEF LevelsTo
    <2> QED BY <2>2, <2>5
  <1>3. Depth \in P
    <2>1. P \subseteq Nat /\ Depth \in Nat BY WidthsAssumption
    <2> HIDE DEF P
    <2> QED BY <1>1, <1>2, <2>1, NaturalInduction
  <1> QED BY <1>3

LEMMA LevelsGrow ==
    ASSUME NEW kind \in Kinds, NEW t, LevelsTo(Depth, kind, t)
    PROVE  /\ t[0] = {}
           /\ \A n \in 0..(Depth - 1) : /\ t[n + 1] = Node(kind, t[n])
                                        /\ t[n] \subseteq t[n + 1]
  <1>1. Depth \in Nat BY WidthsAssumption
  <1>2. t[0] = {} BY <1>1 DEF LevelsTo
  <1>3. ASSUME NEW n \in 0..(Depth - 1) PROVE t[n + 1] = Node(kind, t[n])
    <2>1. n + 1 \in 0..Depth /\ n + 1 # 0 /\ (n + 1) - 1 = n BY <1>1
    <2>2. t[n + 1] = Node(kind, t[(n + 1) - 1]) BY <2>1 DEF LevelsTo
    <2> QED BY <2>1, <2>2
  <1> DEFINE Q == {n \in Nat : n < Depth => t[n] \subseteq t[n + 1]}
  <1>4. 0 \in Q BY <1>2
  <1>5. ASSUME NEW n \in Q PROVE n + 1 \in Q
    <2>1. ASSUME n + 1 < Depth PROVE t[n + 1] \subseteq t[(n + 1) + 1]
      <3>1. n \in 0..(Depth - 1) /\ n + 1 \in 0..(Depth - 1) BY <1>1, <2>1
      <3>2. t[n] \subseteq t[n + 1] BY <1>1, <3>1
      <3>3. t[n + 1] = Node(kind, t[n]) /\ t[(n + 1) + 1] = Node(kind, t[n + 1]) BY <1>3, <3>1
      <3>4. Node(kind, t[n]) \subseteq Node(kind, t[n + 1]) BY <3>2, NodeGrows
      <3> QED BY <3>3, <3>4
    <2>2. n \in Nat OBVIOUS
    <2> QED BY <2>1, <2>2
  <1>6. \A n \in 0..(Depth - 1) : t[n] \subseteq t[n + 1]
    <2>1. Q \subseteq Nat OBVIOUS
    <2>2. \A n \in Nat : n \in Q
      <3> HIDE DEF Q
      <3> QED BY <1>4, <1>5, <2>1, NaturalInduction
    <2> QED BY <1>1, <2>2
  <1> QED BY <1>2, <1>3, <1>6

\* The trees of S that rank below n, and what is made of them.
Lower(S, rank, n) == {p \in S : rank[p] < n}
IsTree(kind, S, rank) ==
    /\ rank \in [S -> 1..Depth]
    /\ \A x \in S : x \in Node(kind, Lower(S, rank, rank[x]))
    /\ \A n \in 1..Depth : \A x \in Node(kind, Lower(S, rank, n)) : x \in S /\ rank[x] <= n

LEMMA TreeExists ==
    ASSUME NEW kind \in Kinds, NEW t, LevelsTo(Depth, kind, t)
    PROVE  \E rank : IsTree(kind, t[Depth], rank)
  <1> DEFINE S == t[Depth]
  <1>1. Depth \in Nat BY WidthsAssumption
  <1>2. PICK rank : IsRank(rank, t, Depth) BY <1>1, LevelsGrow, LevelRank
  <1>3. /\ rank \in [S -> 1..Depth]
        /\ \A x \in S : \A n \in 0..Depth : x \in t[n] <=> rank[x] <= n
    BY <1>2 DEF IsRank
  <1>4. \A n \in 0..Depth : \A x \in t[n] : x \in S
    <2> DEFINE Q == {k \in Nat : k <= Depth => t[Depth - k] \subseteq S}
    <2>1. 0 \in Q
      <3>1. Depth - 0 = Depth BY <1>1
      <3> QED BY <3>1
    <2>2. ASSUME NEW k \in Q PROVE k + 1 \in Q
      <3>1. ASSUME k + 1 <= Depth PROVE t[Depth - (k + 1)] \subseteq S
        <4>1. Depth - (k + 1) \in 0..(Depth - 1) /\ (Depth - (k + 1)) + 1 = Depth - k /\ k <= Depth
          BY <1>1, <3>1
        <4>2. t[Depth - (k + 1)] \subseteq t[Depth - k] BY <4>1, LevelsGrow
        <4> QED BY <4>1, <4>2
      <3>2. k \in Nat OBVIOUS
      <3> QED BY <3>1, <3>2
    <2>3. \A k \in Nat : k \in Q
      <3>1. Q \in SUBSET Nat OBVIOUS
      <3> HIDE DEF Q
      <3> QED BY <2>1, <2>2, <3>1, NaturalInduction
    <2>4. ASSUME NEW n \in 0..Depth PROVE t[n] \subseteq S
      <3>1. Depth - n \in Nat /\ Depth - n <= Depth /\ Depth - (Depth - n) = n BY <1>1
      <3>2. Depth - n \in Q BY <2>3, <3>1
      <3> QED BY <3>1, <3>2
    <2> QED BY <2>4
  <1>5. ASSUME NEW n \in 1..Depth PROVE t[n - 1] = Lower(S, rank, n) /\ t[n] = Node(kind, t[n - 1])
    <2>1. n - 1 \in 0..(Depth - 1) /\ n - 1 \in 0..Depth /\ (n - 1) + 1 = n BY <1>1
    <2>2. t[n] = Node(kind, t[n - 1]) BY <2>1, LevelsGrow
    <2>3. \A x \in S : rank[x] <= n - 1 <=> rank[x] < n BY <1>1, <1>3
    <2>4. \A x : x \in t[n - 1] <=> x \in S /\ rank[x] < n BY <1>3, <1>4, <2>1, <2>3
    <2> QED BY <2>2, <2>4 DEF Lower
  <1>6. ASSUME NEW x \in S PROVE x \in Node(kind, Lower(S, rank, rank[x]))
    <2>1. rank[x] \in 1..Depth /\ rank[x] \in 0..Depth BY <1>1, <1>3
    <2>2. x \in t[rank[x]] BY <1>3, <2>1
    <2> QED BY <1>5, <2>1, <2>2
  <1>7. ASSUME NEW n \in 1..Depth, NEW x \in Node(kind, Lower(S, rank, n))
        PROVE  x \in S /\ rank[x] <= n
    <2>1. n \in 0..Depth /\ x \in t[n] BY <1>1, <1>5
    <2> QED BY <1>3, <1>4, <2>1
  <1>8. IsTree(kind, S, rank) BY <1>3, <1>6, <1>7 DEF IsTree
  <1> QED BY <1>8, Zenon

CoreLevel == CHOOSE t : t = [n \in 0..Depth |-> IF n = 0 THEN {} ELSE CoreNode(t[n - 1])]
CoreRank == CHOOSE rank : IsTree("core", CoreExpr, rank)

LEMMA CoreTree == IsTree("core", CoreExpr, CoreRank)
  <1>1. \A P : Node("core", P) = CoreNode(P) BY DEF Node
  <1>2. \A t : LevelsTo(Depth, "core", t)
                 <=> t = [n \in 0..Depth |-> IF n = 0 THEN {} ELSE CoreNode(t[n - 1])]
    BY <1>1 DEF LevelsTo
  <1>3. LevelsTo(Depth, "core", CoreLevel)
    <2>1. \E t : t = [n \in 0..Depth |-> IF n = 0 THEN {} ELSE CoreNode(t[n - 1])]
      <3>1. "core" \in Kinds BY DEF Kinds
      <3> QED BY <1>2, <3>1, LevelsExist
    <2>2. CoreLevel = [n \in 0..Depth |-> IF n = 0 THEN {} ELSE CoreNode(CoreLevel[n - 1])]
      BY <2>1, Zenon DEF CoreLevel
    <2> QED BY <1>2, <2>2
  <1>4. CoreExpr = CoreLevel[Depth] BY DEF CoreExpr, CoreLevel
  <1>5. \E rank : IsTree("core", CoreExpr, rank)
    <2>1. "core" \in Kinds BY DEF Kinds
    <2> QED BY <1>3, <1>4, <2>1, TreeExists
  <1> QED BY <1>5, Zenon DEF CoreRank

HwLevel == CHOOSE t : t = [n \in 0..Depth |-> IF n = 0 THEN {} ELSE HwNode(t[n - 1])]
HwRank == CHOOSE rank : IsTree("expr", HwExpr, rank)

LEMMA HwTree == IsTree("expr", HwExpr, HwRank)
  <1>1. \A P : Node("expr", P) = HwNode(P) BY DEF Node
  <1>2. \A t : LevelsTo(Depth, "expr", t)
                 <=> t = [n \in 0..Depth |-> IF n = 0 THEN {} ELSE HwNode(t[n - 1])]
    BY <1>1 DEF LevelsTo
  <1>3. LevelsTo(Depth, "expr", HwLevel)
    <2>1. \E t : t = [n \in 0..Depth |-> IF n = 0 THEN {} ELSE HwNode(t[n - 1])]
      <3>1. "expr" \in Kinds BY DEF Kinds
      <3> QED BY <1>2, <3>1, LevelsExist
    <2>2. HwLevel = [n \in 0..Depth |-> IF n = 0 THEN {} ELSE HwNode(HwLevel[n - 1])]
      BY <2>1, Zenon DEF HwLevel
    <2> QED BY <1>2, <2>2
  <1>4. HwExpr = HwLevel[Depth] BY DEF HwExpr, HwLevel
  <1>5. \E rank : IsTree("expr", HwExpr, rank)
    <2>1. "expr" \in Kinds BY DEF Kinds
    <2> QED BY <1>3, <1>4, <2>1, TreeExists
  <1> QED BY <1>5, Zenon DEF HwRank

StmtLevel == CHOOSE t : t = [n \in 0..Depth |-> IF n = 0 THEN {} ELSE StmtNode(t[n - 1])]
StmtRank == CHOOSE rank : IsTree("source", Stmt, rank)

LEMMA StmtTree == IsTree("source", Stmt, StmtRank)
  <1>1. \A P : Node("source", P) = StmtNode(P) BY DEF Node
  <1>2. \A t : LevelsTo(Depth, "source", t)
                 <=> t = [n \in 0..Depth |-> IF n = 0 THEN {} ELSE StmtNode(t[n - 1])]
    BY <1>1 DEF LevelsTo
  <1>3. LevelsTo(Depth, "source", StmtLevel)
    <2>1. \E t : t = [n \in 0..Depth |-> IF n = 0 THEN {} ELSE StmtNode(t[n - 1])]
      <3>1. "source" \in Kinds BY DEF Kinds
      <3> QED BY <1>2, <3>1, LevelsExist
    <2>2. StmtLevel = [n \in 0..Depth |-> IF n = 0 THEN {} ELSE StmtNode(StmtLevel[n - 1])]
      BY <2>1, Zenon DEF StmtLevel
    <2> QED BY <1>2, <2>2
  <1>4. Stmt = StmtLevel[Depth] BY DEF Stmt, StmtLevel
  <1>5. \E rank : IsTree("source", Stmt, rank)
    <2>1. "source" \in Kinds BY DEF Kinds
    <2> QED BY <1>3, <1>4, <2>1, TreeExists
  <1> QED BY <1>5, Zenon DEF StmtRank

HwStmtLevel == CHOOSE t : t = [n \in 0..Depth |-> IF n = 0 THEN {} ELSE HwStmtNode(t[n - 1])]
HwStmtRank == CHOOSE rank : IsTree("stmt", HwStmt, rank)

LEMMA HwStmtTree == IsTree("stmt", HwStmt, HwStmtRank)
  <1>1. \A P : Node("stmt", P) = HwStmtNode(P) BY DEF Node
  <1>2. \A t : LevelsTo(Depth, "stmt", t)
                 <=> t = [n \in 0..Depth |-> IF n = 0 THEN {} ELSE HwStmtNode(t[n - 1])]
    BY <1>1 DEF LevelsTo
  <1>3. LevelsTo(Depth, "stmt", HwStmtLevel)
    <2>1. \E t : t = [n \in 0..Depth |-> IF n = 0 THEN {} ELSE HwStmtNode(t[n - 1])]
      <3>1. "stmt" \in Kinds BY DEF Kinds
      <3> QED BY <1>2, <3>1, LevelsExist
    <2>2. HwStmtLevel = [n \in 0..Depth |-> IF n = 0 THEN {} ELSE HwStmtNode(HwStmtLevel[n - 1])]
      BY <2>1, Zenon DEF HwStmtLevel
    <2> QED BY <1>2, <2>2
  <1>4. HwStmt = HwStmtLevel[Depth] BY DEF HwStmt, HwStmtLevel
  <1>5. \E rank : IsTree("stmt", HwStmt, rank)
    <2>1. "stmt" \in Kinds BY DEF Kinds
    <2> QED BY <1>3, <1>4, <2>1, TreeExists
  <1> QED BY <1>5, Zenon DEF HwStmtRank

-----------------------------------------------------------------------------
(* Lowered expressions and everything in them *)

LEMMA HwNodeFacts ==
    ASSUME NEW P, NEW h \in HwNode(P)
    PROVE  /\ h.ty \in HwTypes /\ h.args \in Seq(P) /\ ~IsError(h)
           /\ h.kind \in {"reference", "member", "constant", "unary", "binary", "compare", "mux",
                          "concat", "resize", "bit", "slice", "case"}
           /\ h.kind = "reference" => h.id \in Nat
           /\ h.kind = "member" => h.member \in Nat \X Nat
           /\ h.kind = "constant" => h.value \in Words
           /\ h.kind = "case" => h.keys \in Seq(Key)
  <1> DEFINE A == Seq(P)
             K == Seq(Key)
             N == Nat \X Nat
  <1>1. {<<>>} \subseteq A OBVIOUS
  <1>2. h \in HwNode(P) OBVIOUS
  <1> HIDE DEF A, K, N
  <1>3. /\ h.ty \in HwTypes /\ h.args \in A /\ ~IsError(h)
        /\ h.kind \in {"reference", "member", "constant", "unary", "binary", "compare", "mux",
                       "concat", "resize", "bit", "slice", "case"}
        /\ h.kind = "reference" => h.id \in Nat
        /\ h.kind = "member" => h.member \in N
        /\ h.kind = "constant" => h.value \in Words
        /\ h.kind = "case" => h.keys \in K
    <2>1. CASE h \in [kind : {"reference"}, id : Nat, ty : HwTypes, args : {<<>>}]
      BY <1>1, <2>1 DEF IsError
    <2>2. CASE h \in [kind : {"member"}, member : N, ty : HwTypes, args : {<<>>}]
      BY <1>1, <2>2 DEF IsError
    <2>3. CASE h \in [kind : {"constant"}, value : Words, ty : HwTypes, args : {<<>>}]
      BY <1>1, <2>3 DEF IsError
    <2>4. CASE h \in [kind : {"unary", "binary", "compare", "mux", "concat"}, ty : HwTypes, args : A]
      BY <2>4 DEF IsError
    <2>8. CASE h \in [kind : {"resize"}, ty : HwTypes, args : A, width : Nat]
      BY <2>8 DEF IsError
    <2>5. CASE h \in [kind : {"bit"}, ty : HwTypes, args : A, index : Nat]
      BY <2>5 DEF IsError
    <2>6. CASE h \in [kind : {"slice"}, ty : HwTypes, args : A, high : Nat, low : Nat]
      BY <2>6 DEF IsError
    <2>7. CASE h \in [kind : {"case"}, ty : HwTypes, args : A, keys : K]
      BY <2>7 DEF IsError
    <2> QED BY <1>2, <2>1, <2>2, <2>3, <2>4, <2>5, <2>6, <2>7, <2>8, Zenon
        DEF HwNode, A, K, N
  <1> QED BY <1>3 DEF A, K, N

Deeper(h) == Lower(HwExpr, HwRank, HwRank[h])

LEMMA HwFacts ==
    ASSUME NEW h \in HwExpr
    PROVE  /\ HwRank[h] \in 1..Depth /\ h \in HwNode(Deeper(h))
           /\ h.ty \in HwTypes /\ ~IsError(h) /\ h.args \in Seq(Deeper(h)) /\ h.args \in Seq(HwExpr)
           /\ \A i \in DOMAIN h.args : h.args[i] \in HwExpr /\ HwRank[h.args[i]] < HwRank[h]
           /\ h.kind \in {"reference", "member", "constant", "unary", "binary", "compare", "mux",
                          "concat", "resize", "bit", "slice", "case"}
           /\ h.kind = "reference" => h.id \in Nat
           /\ h.kind = "member" => h.member \in Nat \X Nat
           /\ h.kind = "constant" => h.value \in Words
           /\ h.kind = "case" => h.keys \in Seq(Key)
  <1>1. HwRank[h] \in 1..Depth /\ h \in HwNode(Deeper(h))
    BY HwTree DEF IsTree, Node, Deeper
  <1>2. h.args \in Seq(Deeper(h)) BY <1>1, HwNodeFacts
  <1>3. \A x \in Deeper(h) : x \in HwExpr /\ HwRank[x] < HwRank[h] BY DEF Deeper, Lower
  <1>4. h.args \in Seq(HwExpr) /\ \A i \in DOMAIN h.args : h.args[i] \in Deeper(h)
    <2> HIDE DEF Deeper
    <2>1. Deeper(h) \subseteq HwExpr BY <1>3
    <2> QED BY <1>2, <2>1
  <1> QED BY <1>1, <1>2, <1>3, <1>4, HwNodeFacts

LEMMA SubexpressionsUnfold ==
    \A h \in HwExpr :
       /\ Subexpressions(h) = {h} \cup UNION {Subexpressions(h.args[i]) : i \in DOMAIN h.args}
       /\ Subexpressions(h) \subseteq HwExpr
  <1> DEFINE step(x, f) == {x} \cup UNION {f[x.args[i]] : i \in DOMAIN x.args}
             body(f) == [x \in HwExpr |-> step(x, f)]
             all == CHOOSE f : f = body(f)
             V == SUBSET HwExpr
             F == [HwExpr -> V] \cup {all}
             H == [x \in HwExpr |-> [f \in F |-> step(x, f)]]
             W == [x \in HwExpr |-> V]
  <1>1. \A x \in HwExpr : \A f, g : (\A y \in HwExpr : HwRank[y] < HwRank[x] => f[y] = g[y])
                                    => step(x, f) = step(x, g)
    <2> TAKE x \in HwExpr
    <2> TAKE f, g
    <2> HAVE \A y \in HwExpr : HwRank[y] < HwRank[x] => f[y] = g[y]
    <2>1. \A i \in DOMAIN x.args : f[x.args[i]] = g[x.args[i]] BY HwFacts
    <2> QED BY <2>1
  <1>2. \A x \in HwExpr : \A f \in [HwExpr -> V] : step(x, f) \in V
    <2> TAKE x \in HwExpr
    <2> TAKE f \in [HwExpr -> V]
    <2>1. \A i \in DOMAIN x.args : f[x.args[i]] \subseteq HwExpr BY HwFacts
    <2> QED BY <2>1
  <1>3. \A h : Subexpressions(h) = all[h] BY DEF Subexpressions
  <1> HIDE DEF step, V
  <1>4. \A x \in HwExpr : \A f \in F : H[x][f] = step(x, f) OBVIOUS
  <1>5. \A f \in [HwExpr -> V] : (\A x \in HwExpr : f[x] = step(x, f))
                                 => \A x \in HwExpr : all[x] = step(x, all)
    <2> TAKE f \in [HwExpr -> V]
    <2> HAVE \A x \in HwExpr : f[x] = step(x, f)
    <2>1. f = body(f) OBVIOUS
    <2>2. all = body(all)
      <3> HIDE DEF body
      <3> QED BY <2>1
    <2> HIDE DEF all
    <2> QED BY <2>2
  <1>6. [HwExpr -> V] \subseteq F /\ all \in F OBVIOUS
  <1>7. \A x \in HwExpr : HwRank[x] \in Nat BY HwFacts
  <1>8. HwRank \in [HwExpr -> Nat] BY <1>7, HwTree DEF IsTree
  <1>9. W \in [HwExpr -> SUBSET V] /\ \A x \in HwExpr : W[x] = V OBVIOUS
  <1> HIDE DEF H, W, all
  <1>10. LooksAtParts(H, HwExpr, F, HwRank) BY <1>1, <1>4 DEF LooksAtParts
  <1> HIDE DEF F
  <1>11. KeepsTypes(H, HwExpr, V, W, HwRank) BY <1>2, <1>4, <1>6, <1>9 DEF KeepsTypes
  <1>12. Recursion(all, H, HwExpr, V, W, HwRank)
    <2>1. V # {} BY DEF V
    <2>2. \A f \in [HwExpr -> V] : (\A x \in HwExpr : f[x] = H[x][f])
                                   => \A x \in HwExpr : all[x] = H[x][all]
      BY <1>4, <1>5, <1>6
    <2>3. LooksAtParts(H, HwExpr, [HwExpr -> V] \cup {all}, HwRank) BY <1>10 DEF F
    <2> QED BY <1>8, <1>9, <1>11, <2>1, <2>2, <2>3 DEF Recursion
  <1>13. \A x \in HwExpr : all[x] = H[x][all] /\ all[x] \in W[x]
    BY <1>12, SolutionIsTyped DEF Solved
  <1> QED BY <1>3, <1>4, <1>6, <1>9, <1>13 DEF step, V

-----------------------------------------------------------------------------
(* What is right about a lowered expression in the tables of its module *)

\* No earlier signal has the name of this one: an output port that is a register
\* is known by the id of the port.
OwnId(id, m) == \A j \in 0..(id - 1) : NameOf(j, m) # NameOf(id, m)

NodeOK(x, m) ==
    /\ x.kind = "reference" => OwnId(x.id, m)
    /\ x.kind = "constant" => Fits(x.value, x.ty)
    /\ WellTyped(x, Typed(m))
    /\ x.kind = "case" => /\ VerifyKeys(x.keys, x.args[1].ty, Typed(m)) = "ok"
                          /\ \A key \in Range(x.keys) : Fits(key.value, key.ty)
Good(m) == {h \in HwExpr : \A x \in Subexpressions(h) : NodeOK(x, m)}

LEMMA GoodNode ==
    ASSUME NEW m, NEW h \in HwExpr
    PROVE  h \in Good(m) <=> NodeOK(h, m) /\ \A i \in DOMAIN h.args : h.args[i] \in Good(m)
  <1>1. Subexpressions(h) = {h} \cup UNION {Subexpressions(h.args[i]) : i \in DOMAIN h.args}
    BY SubexpressionsUnfold
  <1>2. \A i \in DOMAIN h.args : h.args[i] \in HwExpr BY HwFacts
  <1> QED BY <1>1, <1>2 DEF Good

\* The names of a node and not of its parts.
ReferencesOf(x) == IF x.kind = "reference" THEN {x.id} ELSE {}
MembersOf(x) ==
    (IF x.kind = "member" THEN {x.member} ELSE {})
      \cup (IF x.kind = "case" THEN {key.member : key \in Range(x.keys)} \ {<<>>} ELSE {})
MemberNames(ids, m) == {m.enums[id[1]].names[id[2]] : id \in ids}
ReadOf(x, m) == {NameOf(id, m) : id \in ReferencesOf(x)} \cup MemberNames(MembersOf(x), m)

LEMMA ReadUnfold ==
    ASSUME NEW m, NEW h \in HwExpr
    PROVE  /\ Read(h, m) = ReadOf(h, m) \cup UNION {Read(h.args[i], m) : i \in DOMAIN h.args}
           /\ References(h) = ReferencesOf(h) \cup UNION {References(h.args[i]) : i \in DOMAIN h.args}
           /\ MembersIn(h) = MembersOf(h) \cup UNION {MembersIn(h.args[i]) : i \in DOMAIN h.args}
  <1> DEFINE Sub(i) == Subexpressions(h.args[i])
  <1>1. Subexpressions(h) = {h} \cup UNION {Sub(i) : i \in DOMAIN h.args}
    BY SubexpressionsUnfold
  <1>2. \A x : References(x) = UNION {ReferencesOf(y) : y \in Subexpressions(x)}
    BY DEF References, ReferencesOf, OfKind
  <1>3. \A x : MembersIn(x) = UNION {MembersOf(y) : y \in Subexpressions(x)}
    <2> TAKE x
    <2>1. ASSUME NEW id \in MembersIn(x) PROVE \E y \in Subexpressions(x) : id \in MembersOf(y)
      BY DEF MembersIn, MembersOf, OfKind, KeysIn
    <2>2. ASSUME NEW y \in Subexpressions(x), NEW id \in MembersOf(y) PROVE id \in MembersIn(x)
      BY DEF MembersIn, MembersOf, OfKind, KeysIn
    <2> QED BY <2>1, <2>2
  <1>4. References(h) = ReferencesOf(h) \cup UNION {References(h.args[i]) : i \in DOMAIN h.args}
    BY <1>1, <1>2
  <1>5. MembersIn(h) = MembersOf(h) \cup UNION {MembersIn(h.args[i]) : i \in DOMAIN h.args}
    BY <1>1, <1>3
  <1>6. \A x : Read(x, m) = {NameOf(id, m) : id \in References(x)} \cup MemberNames(MembersIn(x), m)
    BY DEF Read, MemberNames
  <1>7. Read(h, m) = ReadOf(h, m) \cup UNION {Read(h.args[i], m) : i \in DOMAIN h.args}
    BY <1>4, <1>5, <1>6 DEF ReadOf, MemberNames
  <1> QED BY <1>4, <1>5, <1>7

-----------------------------------------------------------------------------
(* Checks *)

LEMMA FirstFailureFacts ==
    ASSUME NEW S, NEW checks \in Seq(S), "ok" \in S
    PROVE  /\ FirstFailure(checks) \in S
           /\ (\A i \in DOMAIN checks : checks[i] = "ok") => FirstFailure(checks) = "ok"
           /\ FirstFailure(checks) # "ok"
                => \E i \in DOMAIN checks : FirstFailure(checks) = checks[i]
           /\ FirstFailure(checks) = "ok" => \A i \in DOMAIN checks : checks[i] = "ok"
  <1> DEFINE P == {i \in DOMAIN checks : checks[i] # "ok"}
             least(i) == checks[i] # "ok" /\ \A j \in 1..(i - 1) : ~(checks[j] # "ok")
  <1>1. Len(checks) \in Nat /\ DOMAIN checks = 1..Len(checks)
        /\ \A i \in DOMAIN checks : checks[i] \in S
    OBVIOUS
  <1>2. CASE P = {}
    <2>1. FirstFailure(checks) = "ok" BY <1>2 DEF FirstFailure
    <2> QED BY <1>2, <2>1
  <1>3. CASE P # {}
    <2>1. PICK i \in P : \A j \in P : i <= j
      <3>1. P \in SUBSET (1..Len(checks)) BY <1>1
      <3> HIDE DEF P
      <3> QED BY <1>1, <1>3, <3>1, FirstPosition
    <2>2. i \in DOMAIN checks /\ least(i)
      <3>1. ASSUME NEW j \in 1..(i - 1) PROVE ~(checks[j] # "ok")
        <4>1. j \in DOMAIN checks /\ ~(i <= j) BY <1>1
        <4> QED BY <2>1, <4>1
      <3> QED BY <3>1
    <2>3. FirstFailure(checks) = checks[CHOOSE k \in DOMAIN checks : least(k)]
      <3>1. \E k \in DOMAIN checks : checks[k] # "ok" BY <2>2
      <3> QED BY <3>1 DEF FirstFailure, FirstIndex
    <2>4. PICK k \in DOMAIN checks : FirstFailure(checks) = checks[k] /\ least(k)
      <3> HIDE DEF least
      <3> QED BY <2>2, <2>3
    <2> QED BY <1>1, <1>3, <2>4
  <1> QED BY <1>2, <1>3

\* What verify_hardware_expr may say.
Verdict == {"ok", "InvalidWidth", "ConstantOutOfRange", "TypeMismatch", "InvalidModule"}

LEMMA ConcatOk ==
    ASSUME NEW S, NEW a \in Seq(S), NEW b \in Seq(S),
           \A i \in DOMAIN a : a[i] = "ok", \A i \in DOMAIN b : b[i] = "ok"
    PROVE  \A i \in DOMAIN (a \o b) : (a \o b)[i] = "ok"
  <1> TAKE i \in DOMAIN (a \o b)
  <1>1. /\ Len(a) \in Nat /\ Len(b) \in Nat /\ DOMAIN a = 1..Len(a) /\ DOMAIN b = 1..Len(b)
        /\ i \in 1..(Len(a) + Len(b))
    OBVIOUS
  <1>2. CASE i \in 1..Len(a) BY <1>1, <1>2
  <1>3. CASE i \notin 1..Len(a)
    <2>1. i - Len(a) \in 1..Len(b) /\ (a \o b)[i] = b[i - Len(a)] BY <1>1, <1>3
    <2> QED BY <1>1, <2>1
  <1> QED BY <1>2, <1>3

LEMMA VerifyKeysType ==
    ASSUME NEW keys \in Seq(Key), NEW ty, NEW t
    PROVE  VerifyKeys(keys, ty, t) \in Verdict
  <1> DEFINE e == [i \in DOMAIN keys |-> KeyError(keys[i], t)]
             last == Check(/\ \A i \in DOMAIN keys : KeyType(keys[i], t) = ty
                           /\ \A i, j \in DOMAIN keys :
                                  KeyValue(keys[i], t) = KeyValue(keys[j], t) => i = j,
                           "TypeMismatch")
  <1>1. \A i \in DOMAIN keys : KeyError(keys[i], t) \in Verdict BY DEF Check, KeyError, Verdict
  <1>2. Len(keys) \in Nat /\ DOMAIN keys = 1..Len(keys) OBVIOUS
  <1>3. e \in Seq(Verdict) BY <1>1, <1>2
  <1>4. last \in Verdict BY DEF Check, Verdict
  <1>5. VerifyKeys(keys, ty, t) = FirstFailure(e \o <<last>>) BY DEF VerifyKeys
  <1> HIDE DEF e, last
  <1>6. e \o <<last>> \in Seq(Verdict) BY <1>3, <1>4
  <1> QED BY <1>5, <1>6, FirstFailureFacts DEF Verdict

LEMMA VerifyStepResult ==
    ASSUME NEW x \in HwExpr, NEW t, NEW f,
           \A i \in DOMAIN x.args : f[x.args[i]] \in Verdict
    PROVE  /\ VerifyStep(x, t, f) \in Verdict
           /\ (/\ \A i \in DOMAIN x.args : f[x.args[i]] = "ok"
               /\ x.kind = "constant" => Fits(x.value, x.ty)
               /\ WellTyped(x, t)
               /\ x.kind = "case" => VerifyKeys(x.keys, x.args[1].ty, t) = "ok")
              => VerifyStep(x, t, f) = "ok"
  <1> DEFINE a == <<Check(x.ty.width > 0, "InvalidWidth")>>
             b == [i \in DOMAIN x.args |-> f[x.args[i]]]
             keys == IF x.kind = "case" THEN VerifyKeys(x.keys, x.args[1].ty, t) ELSE "ok"
             fits == x.kind = "constant" => Fits(x.value, x.ty)
             c == <<Check(fits, "ConstantOutOfRange"), Check(WellTyped(x, t), "TypeMismatch"), keys>>
  <1>1. VerifyStep(x, t, f) = FirstFailure(a \o b \o c) BY DEF VerifyStep
  <1>2. a \in Seq(Verdict) /\ \A i \in DOMAIN a : a[i] = "ok"
    <2>1. x.ty.width > 0 BY HwFacts, WidthsAssumption DEF HwTypes
    <2>2. Check(x.ty.width > 0, "InvalidWidth") \in Verdict /\ Check(x.ty.width > 0, "InvalidWidth") = "ok"
      BY <2>1 DEF Check, Verdict
    <2> QED BY <2>2
  <1>3. b \in Seq(Verdict) /\ ((\A i \in DOMAIN x.args : f[x.args[i]] = "ok") => \A i \in DOMAIN b : b[i] = "ok")
    <2>1. x.args \in Seq(HwExpr) BY HwFacts
    <2>2. Len(x.args) \in Nat /\ DOMAIN x.args = 1..Len(x.args) BY <2>1
    <2>3. b \in [1..Len(x.args) -> Verdict] BY <2>2
    <2>4. b \in Seq(Verdict) BY <2>2, <2>3
    <2> QED BY <2>4
  <1>4. keys \in Verdict BY HwFacts, VerifyKeysType DEF Verdict
  <1>5. c \in Seq(Verdict) /\ (fits /\ WellTyped(x, t) /\ keys = "ok" => \A i \in DOMAIN c : c[i] = "ok")
    <2> DEFINE p == Check(fits, "ConstantOutOfRange")
               q == Check(WellTyped(x, t), "TypeMismatch")
    <2>1. p \in Verdict /\ (fits => p = "ok") BY DEF Check, Verdict
    <2>2. q \in Verdict /\ (WellTyped(x, t) => q = "ok") BY DEF Check, Verdict
    <2>3. c = <<p, q, keys>> OBVIOUS
    <2> HIDE DEF c, p, q, fits, keys
    <2> QED BY <1>4, <2>1, <2>2, <2>3
  <1>6. (x.kind = "case" => VerifyKeys(x.keys, x.args[1].ty, t) = "ok") => keys = "ok" OBVIOUS
  <1> HIDE DEF a, b, c, keys
  <1>7. a \o b \in Seq(Verdict) /\ a \o b \o c \in Seq(Verdict) BY <1>2, <1>3, <1>5
  <1>8. VerifyStep(x, t, f) \in Verdict BY <1>1, <1>7, FirstFailureFacts DEF Verdict
  <1>9. ASSUME \A i \in DOMAIN x.args : f[x.args[i]] = "ok", fits, WellTyped(x, t),
               x.kind = "case" => VerifyKeys(x.keys, x.args[1].ty, t) = "ok"
        PROVE  VerifyStep(x, t, f) = "ok"
    <2>1. \A i \in DOMAIN (a \o b \o c) : (a \o b \o c)[i] = "ok"
      <3>1. \A i \in DOMAIN (a \o b) : (a \o b)[i] = "ok" BY <1>2, <1>3, <1>9, ConcatOk
      <3>2. \A i \in DOMAIN c : c[i] = "ok" BY <1>5, <1>6, <1>9
      <3> QED BY <1>5, <1>7, <3>1, <3>2, ConcatOk
    <2> QED BY <1>1, <1>7, <2>1, FirstFailureFacts DEF Verdict
  <1> QED BY <1>8, <1>9

LEMMA VerifyStepLooksAtParts ==
    ASSUME NEW x \in HwExpr, NEW t, NEW f, NEW g,
           \A y \in HwExpr : HwRank[y] < HwRank[x] => f[y] = g[y]
    PROVE  VerifyStep(x, t, f) = VerifyStep(x, t, g)
  <1>1. \A i \in DOMAIN x.args : f[x.args[i]] = g[x.args[i]] BY HwFacts
  <1>2. [i \in DOMAIN x.args |-> f[x.args[i]]] = [i \in DOMAIN x.args |-> g[x.args[i]]] BY <1>1
  <1> QED BY <1>2, Zenon DEF VerifyStep

LEMMA GoodIsVerified ==
    ASSUME NEW m
    PROVE  \A h \in HwExpr : /\ VerifyExpr(h, Typed(m)) \in Verdict
                             /\ h \in Good(m) => VerifyExpr(h, Typed(m)) = "ok"
  <1> DEFINE step(x, f) == VerifyStep(x, Typed(m), f)
             body(f) == [x \in HwExpr |-> step(x, f)]
             verify == CHOOSE f : f = body(f)
             V == Verdict
             F == [HwExpr -> V] \cup {verify}
             H == [x \in HwExpr |-> [f \in F |-> step(x, f)]]
             W == [x \in HwExpr |-> IF x \in Good(m) THEN {"ok"} ELSE Verdict]
  <1>1. \A x \in HwExpr : \A f, g : (\A y \in HwExpr : HwRank[y] < HwRank[x] => f[y] = g[y])
                                    => step(x, f) = step(x, g)
    BY VerifyStepLooksAtParts
  <1>2. \A x \in HwExpr : \A f \in [HwExpr -> V] :
           (\A y \in HwExpr : HwRank[y] < HwRank[x] => f[y] \in W[y]) => step(x, f) \in W[x]
    <2> TAKE x \in HwExpr
    <2> TAKE f \in [HwExpr -> V]
    <2> HAVE \A y \in HwExpr : HwRank[y] < HwRank[x] => f[y] \in W[y]
    <2>1. \A i \in DOMAIN x.args : /\ x.args[i] \in HwExpr /\ f[x.args[i]] \in Verdict
                                   /\ x.args[i] \in Good(m) => f[x.args[i]] = "ok"
      BY HwFacts
    <2>2. VerifyStep(x, Typed(m), f) \in Verdict BY <2>1, VerifyStepResult
    <2>3. x \in Good(m) => VerifyStep(x, Typed(m), f) = "ok"
      BY <2>1, GoodNode, VerifyStepResult DEF NodeOK
    <2> QED BY <2>2, <2>3
  <1>3. \A h : VerifyExpr(h, Typed(m)) = verify[h]
    BY DEF VerifyExpr
  <1>w. W \in [HwExpr -> SUBSET V]
    BY DEF Verdict
  <1>x. \A x \in HwExpr : W[x] = IF x \in Good(m) THEN {"ok"} ELSE Verdict OBVIOUS
  <1> HIDE DEF step, V, W
  <1>4. \A x \in HwExpr : \A f \in F : H[x][f] = step(x, f) OBVIOUS
  <1>5. \A f \in [HwExpr -> V] : (\A x \in HwExpr : f[x] = step(x, f))
                                 => \A x \in HwExpr : verify[x] = step(x, verify)
    <2> TAKE f \in [HwExpr -> V]
    <2> HAVE \A x \in HwExpr : f[x] = step(x, f)
    <2>1. f = body(f) OBVIOUS
    <2>2. verify = body(verify)
      <3> HIDE DEF body
      <3> QED BY <2>1
    <2> HIDE DEF verify
    <2> QED BY <2>2
  <1>6. [HwExpr -> V] \subseteq F /\ verify \in F OBVIOUS
  <1>7. \A x \in HwExpr : HwRank[x] \in Nat BY HwFacts
  <1>8. HwRank \in [HwExpr -> Nat] BY <1>7, HwTree DEF IsTree
  <1> HIDE DEF H, verify
  <1>10. LooksAtParts(H, HwExpr, F, HwRank) BY <1>1, <1>4 DEF LooksAtParts
  <1> HIDE DEF F
  <1>11. KeepsTypes(H, HwExpr, V, W, HwRank)
    <2>1. \A x \in HwExpr : \A f \in [HwExpr -> V] : H[x][f] = step(x, f) BY <1>4, <1>6
    <2> QED BY <1>2, <2>1 DEF KeepsTypes
  <1>12. Recursion(verify, H, HwExpr, V, W, HwRank)
    <2>1. V # {} BY DEF V, Verdict
    <2>2. \A f \in [HwExpr -> V] : (\A x \in HwExpr : f[x] = H[x][f])
                                   => \A x \in HwExpr : verify[x] = H[x][verify]
      BY <1>4, <1>5, <1>6
    <2>3. LooksAtParts(H, HwExpr, [HwExpr -> V] \cup {verify}, HwRank) BY <1>10 DEF F
    <2> QED BY <1>8, <1>w, <1>11, <2>1, <2>2, <2>3 DEF Recursion
  <1>13. \A x \in HwExpr : verify[x] = step(x, verify) /\ verify[x] \in W[x]
    BY <1>4, <1>6, <1>12, SolutionIsTyped DEF Solved
  <1> QED BY <1>3, <1>13, <1>x DEF Verdict

-----------------------------------------------------------------------------
(* Core expressions and the names they are written with *)

LEMMA CoreNodeFacts ==
    ASSUME NEW P, NEW e \in CoreNode(P)
    PROVE  /\ e.form \in {"symbol", "int", "datum", "list", "case"}
           /\ e.form = "symbol" => e.name \in STRING
           /\ e.form = "int" => e.value \in Words /\ e.props \in Properties
           /\ e.form = "list" => e.head \in STRING /\ e.args \in Seq(P)
           /\ e.form = "case" => /\ e.args \in [1..1 -> P]
                                /\ e.arms \in Seq([key : P, value : P])
  <1> DEFINE A == Seq(P)
             B == [1..1 -> P]
             C == Seq([key : P, value : P])
             Q == Properties
             N == STRING
             Goal == /\ e.form \in {"symbol", "int", "datum", "list", "case"}
                     /\ e.form = "symbol" => e.name \in N
                     /\ e.form = "int" => e.value \in Words /\ e.props \in Q
                     /\ e.form = "list" => e.head \in N /\ e.args \in A
                     /\ e.form = "case" => e.args \in B /\ e.arms \in C
  <1>1. e \in CoreNode(P) OBVIOUS
  <1> HIDE DEF A, B, C, Q, N
  <1>2. ASSUME e \in [form : {"symbol"}, name : N] PROVE Goal BY <1>2
  <1>3. ASSUME e \in [form : {"int"}, value : Words, props : Q] PROVE Goal BY <1>3
  <1>4. ASSUME e \in [form : {"datum"}] PROVE Goal BY <1>4
  <1>5. ASSUME e \in [form : {"list"}, head : N, args : A] PROVE Goal BY <1>5
  <1>6. ASSUME e \in [form : {"case"}, args : B, arms : C] PROVE Goal BY <1>6
  <1> HIDE DEF Goal
  <1>7. Goal BY <1>1, <1>2, <1>3, <1>4, <1>5, <1>6, Zenon DEF CoreNode, A, B, C, Q, N
  <1> QED BY <1>7 DEF Goal, A, B, C, Q, N

\* A part of an expression.
Part(p, e) == p \in CoreExpr /\ CoreRank[p] < CoreRank[e]

LEMMA CoreFacts ==
    ASSUME NEW e \in CoreExpr
    PROVE  /\ CoreRank[e] \in 1..Depth
           /\ e.form \in {"symbol", "int", "datum", "list", "case"}
           /\ e.form = "symbol" => e.name \in STRING
           /\ e.form = "int" => e.value \in Words /\ e.props \in Properties
           /\ e.form = "list" => /\ e.head \in STRING /\ e.args \in Seq(CoreExpr)
                                /\ \A i \in DOMAIN e.args : Part(e.args[i], e)
           /\ e.form = "case" => /\ Part(e.args[1], e) /\ Len(e.arms) \in Nat
                                /\ DOMAIN e.arms = 1..Len(e.arms)
                                /\ \A i \in DOMAIN e.arms : Part(e.arms[i].key, e) /\ Part(e.arms[i].value, e)
  <1> DEFINE P == Lower(CoreExpr, CoreRank, CoreRank[e])
  <1>1. CoreRank[e] \in 1..Depth /\ e \in CoreNode(P) BY CoreTree DEF IsTree, Node
  <1>2. \A p \in P : Part(p, e) BY DEF Part, Lower
  <1>3. P \subseteq CoreExpr BY DEF Lower
  <1> HIDE DEF P
  <1>4. /\ e.form \in {"symbol", "int", "datum", "list", "case"}
        /\ e.form = "symbol" => e.name \in STRING
        /\ e.form = "int" => e.value \in Words /\ e.props \in Properties
        /\ e.form = "list" => e.head \in STRING /\ e.args \in Seq(P)
        /\ e.form = "case" => e.args \in [1..1 -> P] /\ e.arms \in Seq([key : P, value : P])
    BY <1>1, CoreNodeFacts
  <1>5. ASSUME e.form = "list"
        PROVE  e.args \in Seq(CoreExpr) /\ \A i \in DOMAIN e.args : Part(e.args[i], e)
    BY <1>2, <1>3, <1>4, <1>5
  <1>6. ASSUME e.form = "case"
        PROVE  /\ Part(e.args[1], e) /\ Len(e.arms) \in Nat /\ DOMAIN e.arms = 1..Len(e.arms)
               /\ \A i \in DOMAIN e.arms : Part(e.arms[i].key, e) /\ Part(e.arms[i].value, e)
    <2>1. e.args \in [1..1 -> P] /\ e.arms \in Seq([key : P, value : P]) BY <1>4, <1>6
    <2>2. e.args[1] \in P BY <2>1
    <2>3. \A i \in DOMAIN e.arms : e.arms[i].key \in P /\ e.arms[i].value \in P
      <3> DEFINE R == [key : P, value : P]
      <3>1. \A r \in R : r.key \in P /\ r.value \in P OBVIOUS
      <3>2. e.arms \in Seq(R) BY <2>1
      <3> HIDE DEF R
      <3>3. \A i \in DOMAIN e.arms : e.arms[i] \in R BY <3>2
      <3> QED BY <3>1, <3>3
    <2>4. Len(e.arms) \in Nat /\ DOMAIN e.arms = 1..Len(e.arms) BY <2>1
    <2> QED BY <1>2, <2>2, <2>3, <2>4
  <1> QED BY <1>1, <1>4, <1>5, <1>6

LEMMA NamesUnfold ==
    \E f : \A e \in CoreExpr : NamesIn(e) = f[e] /\ f[e] = NamesStep(e, f)
  <1> DEFINE step(x, f) == NamesStep(x, f)
             body(f) == [x \in CoreExpr |-> step(x, f)]
             names == CHOOSE f : f = body(f)
             V == SUBSET STRING
             F == [CoreExpr -> V] \cup {names}
             H == [x \in CoreExpr |-> [f \in F |-> step(x, f)]]
             W == [x \in CoreExpr |-> SUBSET STRING]
  <1>1. \A x \in CoreExpr : \A f, g : (\A y \in CoreExpr : CoreRank[y] < CoreRank[x] => f[y] = g[y])
                                    => step(x, f) = step(x, g)
    <2> TAKE x \in CoreExpr
    <2> TAKE f, g
    <2> HAVE \A y \in CoreExpr : CoreRank[y] < CoreRank[x] => f[y] = g[y]
    <2>1. CASE x.form = "list"
      <3>1. \A i \in DOMAIN x.args : f[x.args[i]] = g[x.args[i]] BY <2>1, CoreFacts DEF Part
      <3>2. {f[x.args[i]] : i \in DOMAIN x.args} = {g[x.args[i]] : i \in DOMAIN x.args} BY <3>1
      <3> QED BY <2>1, <3>2 DEF NamesStep
    <2>2. CASE x.form = "case"
      <3>1. f[x.args[1]] = g[x.args[1]] BY <2>2, CoreFacts DEF Part
      <3>2. \A i \in DOMAIN x.arms : /\ f[x.arms[i].key] = g[x.arms[i].key]
                                     /\ f[x.arms[i].value] = g[x.arms[i].value]
        BY <2>2, CoreFacts DEF Part
      <3>3. {(f[x.arms[i].key] \ {"else"}) \cup f[x.arms[i].value] : i \in DOMAIN x.arms}
              = {(g[x.arms[i].key] \ {"else"}) \cup g[x.arms[i].value] : i \in DOMAIN x.arms}
        BY <3>2
      <3> QED BY <2>2, <3>1, <3>3 DEF NamesStep
    <2>3. CASE x.form \in {"symbol", "int", "datum"} BY <2>3 DEF NamesStep
    <2> QED BY <2>1, <2>2, <2>3, CoreFacts
  <1>2. \A x \in CoreExpr : \A f \in [CoreExpr -> V] :
           (\A y \in CoreExpr : CoreRank[y] < CoreRank[x] => f[y] \in W[y]) => step(x, f) \in W[x]
    <2> TAKE x \in CoreExpr
    <2> TAKE f \in [CoreExpr -> V]
    <2> HAVE \A y \in CoreExpr : CoreRank[y] < CoreRank[x] => f[y] \in W[y]
    <2> DEFINE N == STRING
    <2>0. \A y \in CoreExpr : CoreRank[y] < CoreRank[x] => f[y] \subseteq N OBVIOUS
    <2> SUFFICES step(x, f) \subseteq N OBVIOUS
    <2> HIDE DEF N
    <2>1. CASE x.form = "list"
      <3>1. \A i \in DOMAIN x.args : f[x.args[i]] \subseteq N BY <2>0, <2>1, CoreFacts DEF Part
      <3> QED BY <2>1, <3>1 DEF NamesStep
    <2>2. CASE x.form = "case"
      <3>1. f[x.args[1]] \subseteq N BY <2>0, <2>2, CoreFacts DEF Part
      <3>2. \A i \in DOMAIN x.arms : f[x.arms[i].key] \subseteq N /\ f[x.arms[i].value] \subseteq N
        BY <2>0, <2>2, CoreFacts DEF Part
      <3> QED BY <2>2, <3>1, <3>2 DEF NamesStep
    <2>3. CASE x.form \in {"int", "datum"} BY <2>3 DEF NamesStep
    <2>4. CASE x.form = "symbol" BY <2>4, CoreFacts DEF NamesStep, N
    <2> QED BY <2>1, <2>2, <2>3, <2>4, CoreFacts
  <1>3. \A e : NamesIn(e) = names[e]
    BY DEF NamesIn
  <1>w. W \in [CoreExpr -> SUBSET V]
    OBVIOUS
  <1>x. \A x \in CoreExpr : W[x] = SUBSET STRING OBVIOUS
  <1> HIDE DEF step, V, W
  <1>4. \A x \in CoreExpr : \A f \in F : H[x][f] = step(x, f) OBVIOUS
  <1>5. \A f \in [CoreExpr -> V] : (\A x \in CoreExpr : f[x] = step(x, f))
                                 => \A x \in CoreExpr : names[x] = step(x, names)
    <2> TAKE f \in [CoreExpr -> V]
    <2> HAVE \A x \in CoreExpr : f[x] = step(x, f)
    <2>1. f = body(f) OBVIOUS
    <2>2. names = body(names)
      <3> HIDE DEF body
      <3> QED BY <2>1
    <2> HIDE DEF names
    <2> QED BY <2>2
  <1>6. [CoreExpr -> V] \subseteq F /\ names \in F OBVIOUS
  <1>7. \A x \in CoreExpr : CoreRank[x] \in Nat BY CoreFacts
  <1>8. CoreRank \in [CoreExpr -> Nat] BY <1>7, CoreTree DEF IsTree
  <1> HIDE DEF H, names
  <1>10. LooksAtParts(H, CoreExpr, F, CoreRank) BY <1>1, <1>4 DEF LooksAtParts
  <1> HIDE DEF F
  <1>11. KeepsTypes(H, CoreExpr, V, W, CoreRank)
    <2>1. \A x \in CoreExpr : \A f \in [CoreExpr -> V] : H[x][f] = step(x, f) BY <1>4, <1>6
    <2> QED BY <1>2, <2>1 DEF KeepsTypes
  <1>12. Recursion(names, H, CoreExpr, V, W, CoreRank)
    <2>1. V # {} BY DEF V
    <2>2. \A f \in [CoreExpr -> V] : (\A x \in CoreExpr : f[x] = H[x][f])
                                   => \A x \in CoreExpr : names[x] = H[x][names]
      BY <1>4, <1>5, <1>6
    <2>3. LooksAtParts(H, CoreExpr, [CoreExpr -> V] \cup {names}, CoreRank) BY <1>10 DEF F
    <2> QED BY <1>8, <1>w, <1>11, <2>1, <2>2, <2>3 DEF Recursion
  <1>13. \A x \in CoreExpr : names[x] = step(x, names) /\ names[x] \in W[x]
    BY <1>4, <1>6, <1>12, SolutionIsTyped DEF Solved
  <1> QED BY <1>3, <1>13 DEF step

LEMMA NamesOfList ==
    ASSUME NEW e \in CoreExpr, e.form = "list"
    PROVE  NamesIn(e) = UNION {NamesIn(e.args[i]) : i \in DOMAIN e.args}
  <1>1. PICK f : \A x \in CoreExpr : NamesIn(x) = f[x] /\ f[x] = NamesStep(x, f) BY NamesUnfold
  <1>2. \A i \in DOMAIN e.args : e.args[i] \in CoreExpr BY CoreFacts DEF Part
  <1>3. NamesIn(e) = UNION {f[e.args[i]] : i \in DOMAIN e.args} BY <1>1 DEF NamesStep
  <1>4. {f[e.args[i]] : i \in DOMAIN e.args} = {NamesIn(e.args[i]) : i \in DOMAIN e.args}
    BY <1>1, <1>2
  <1> QED BY <1>3, <1>4

LEMMA NamesOfCase ==
    ASSUME NEW e \in CoreExpr, e.form = "case"
    PROVE  NamesIn(e) = NamesIn(e.args[1])
              \cup UNION {(NamesIn(e.arms[i].key) \ {"else"}) \cup NamesIn(e.arms[i].value) :
                             i \in DOMAIN e.arms}
  <1>1. PICK f : \A x \in CoreExpr : NamesIn(x) = f[x] /\ f[x] = NamesStep(x, f) BY NamesUnfold
  <1>2. /\ e.args[1] \in CoreExpr
        /\ \A i \in DOMAIN e.arms : e.arms[i].key \in CoreExpr /\ e.arms[i].value \in CoreExpr
    BY CoreFacts DEF Part
  <1>3. NamesIn(e) = f[e.args[1]]
              \cup UNION {(f[e.arms[i].key] \ {"else"}) \cup f[e.arms[i].value] : i \in DOMAIN e.arms}
    BY <1>1 DEF NamesStep
  <1>4. {(f[e.arms[i].key] \ {"else"}) \cup f[e.arms[i].value] : i \in DOMAIN e.arms}
          = {(NamesIn(e.arms[i].key) \ {"else"}) \cup NamesIn(e.arms[i].value) : i \in DOMAIN e.arms}
    BY <1>1, <1>2
  <1> QED BY <1>1, <1>2, <1>3, <1>4

LEMMA NamesOfLeaf ==
    ASSUME NEW e \in CoreExpr
    PROVE  /\ e.form = "symbol" => NamesIn(e) = {e.name}
           /\ e.form \in {"int", "datum"} => NamesIn(e) = {}
  <1>1. PICK f : \A x \in CoreExpr : NamesIn(x) = f[x] /\ f[x] = NamesStep(x, f) BY NamesUnfold
  <1> QED BY <1>1 DEF NamesStep

-----------------------------------------------------------------------------
(* What an expression is lowered to *)

LEMMA SumUnfold ==
    ASSUME NEW args, Len(args) \in Nat, \A i \in 1..Len(args) : args[i].ty.width \in Nat
    PROVE  \E sum \in [0..Len(args) -> Nat] :
              /\ SumOfWidths(args) = sum[Len(args)] /\ sum[0] = 0
              /\ \A n \in 1..Len(args) : sum[n] = sum[n - 1] + args[n].ty.width
  <1> DEFINE n == Len(args)
             body(f) == [k \in 0..n |-> IF k = 0 THEN 0 ELSE f[k - 1] + args[k].ty.width]
             sum == CHOOSE f : f = body(f)
             H == [i \in 1..n |-> [s \in Nat |-> s + args[i].ty.width]]
  <1>1. SumOfWidths(args) = sum[n] BY DEF SumOfWidths
  <1>2. PICK f \in [0..n -> Nat] : StepsFrom(f, 0, H, n)
    <2>1. H \in [1..n -> [Nat -> Nat]] OBVIOUS
    <2> HIDE DEF H
    <2> QED BY <2>1, StepsExist
  <1>3. f[0] = 0 /\ \A i \in 1..n : f[i] = f[i - 1] + args[i].ty.width
    <2>1. \A i \in 1..n : f[i] = H[i][f[i - 1]] BY <1>2 DEF StepsFrom
    <2>2. ASSUME NEW i \in 1..n PROVE f[i] = f[i - 1] + args[i].ty.width
      <3>1. i - 1 \in 0..n /\ f[i - 1] \in Nat OBVIOUS
      <3> QED BY <2>1, <3>1
    <2> QED BY <1>2, <2>2 DEF StepsFrom
  <1>4. f = body(f)
    <2>1. \A k \in 0..n : f[k] = IF k = 0 THEN 0 ELSE f[k - 1] + args[k].ty.width BY <1>3
    <2> QED BY <2>1
  <1>5. sum = body(sum)
    <2> HIDE DEF body
    <2> QED BY <1>4
  <1> HIDE DEF sum
  <1>6. sum[0] = 0 /\ \A i \in 1..n : sum[i] = sum[i - 1] + args[i].ty.width
    <2>1. sum[0] = 0 BY <1>5
    <2>2. ASSUME NEW i \in 1..n PROVE sum[i] = sum[i - 1] + args[i].ty.width
      <3>1. i \in 0..n /\ i # 0 OBVIOUS
      <3> QED BY <1>5, <3>1
    <2> QED BY <2>1, <2>2
  <1>7. \A i \in 0..n : sum[i] = f[i]
    <2> DEFINE P == {k \in Nat : k <= n => sum[k] = f[k]}
    <2>1. 0 \in P BY <1>3, <1>6
    <2>2. ASSUME NEW k \in P PROVE k + 1 \in P
      <3>1. ASSUME k + 1 <= n PROVE sum[k + 1] = f[k + 1]
        <4>1. k + 1 \in 1..n /\ (k + 1) - 1 = k /\ k <= n BY <3>1
        <4>2. sum[k + 1] = sum[k] + args[k + 1].ty.width BY <1>6, <4>1
        <4>3. f[k + 1] = f[k] + args[k + 1].ty.width BY <1>3, <4>1
        <4>4. sum[k] = f[k] BY <4>1
        <4> QED BY <4>2, <4>3, <4>4
      <3> QED BY <3>1
    <2>3. P \in SUBSET Nat OBVIOUS
    <2> HIDE DEF P
    <2>4. \A k \in Nat : k \in P BY <2>1, <2>2, <2>3, NaturalInduction
    <2> QED BY <2>4 DEF P
  <1>8. sum = [k \in 0..n |-> sum[k]] BY <1>5
  <1>9. sum \in [0..n -> Nat]
    <2>1. \A k \in 0..n : sum[k] \in Nat BY <1>7
    <2> QED BY <1>8, <2>1
  <1> QED BY <1>1, <1>6, <1>9

LEMMA SumIsPositive ==
    ASSUME NEW args, Len(args) \in Nat, Len(args) > 0,
           \A i \in 1..Len(args) : args[i].ty.width \in Nat /\ args[i].ty.width > 0
    PROVE  SumOfWidths(args) \in Nat /\ SumOfWidths(args) > 0
  <1>1. PICK sum \in [0..Len(args) -> Nat] :
              /\ SumOfWidths(args) = sum[Len(args)]
              /\ \A n \in 1..Len(args) : sum[n] = sum[n - 1] + args[n].ty.width
    BY SumUnfold
  <1>2. Len(args) \in 1..Len(args) /\ Len(args) - 1 \in 0..Len(args) /\ Len(args) \in 0..Len(args)
    OBVIOUS
  <1>3. sum[Len(args)] \in Nat /\ sum[Len(args) - 1] \in Nat BY <1>2
  <1> QED BY <1>1, <1>2, <1>3

SignalsOK(signals, m) ==
    \A n \in DOMAIN signals :
        /\ signals[n].ty \in HwTypes /\ signals[n].id \in Nat
        /\ signals[n].id \in DOMAIN Typed(m).type
        /\ Typed(m).type[signals[n].id] = signals[n].ty
        /\ NameOf(signals[n].id, m) = n /\ OwnId(signals[n].id, m)
MembersOK(names, m) ==
    \A n \in DOMAIN names :
        LET id == names[n].id IN
        /\ id \in Nat \X Nat
        /\ id[1] \in DOMAIN m.enums /\ id[2] \in DOMAIN m.enums[id[1]].values
        /\ m.enums[id[1]].values[id[2]] = names[n].value /\ m.enums[id[1]].names[id[2]] = n
        /\ m.enums[id[1]].ty = names[n].ty
        /\ names[n].ty \in HwTypes /\ names[n].value \in Words /\ Fits(names[n].value, names[n].ty)
EnvOK(env, m) == SignalsOK(env.signals, m) /\ MembersOK(env.members, m)

ErrorKinds ==
    {"TypeMismatch", "UnknownSignal", "UntypedConstant", "ConstantOutOfRange",
     "UnsupportedExpression", "InvalidBitSelect", "InvalidSlice", "InvalidConcat",
     "InvalidResize", "DuplicateAssignment", "IndexOutOfRange", "InvalidWidth",
     "DatumNotHardwareValue", "InvalidCondition", "InvalidModule", "InputAssignment"}
Errors == {Error(kind) : kind \in ErrorKinds}

\* The right results for e where a type is expected of it.
Lowered(e, ty, m) ==
    {h \in Good(m) : /\ HwRank[h] <= CoreRank[e]
                     /\ ty # Untyped => h.ty = ty
                     /\ Read(h, m) = NamesIn(e)}
Results(e, ty, m) == Errors \cup Lowered(e, ty, m)

LEMMA ErrorFacts == \A r \in Errors : IsError(r)
  BY DEF Errors, Error, IsError

LEMMA LoweredFacts ==
    ASSUME NEW m, NEW e, NEW ty, NEW h \in Lowered(e, ty, m)
    PROVE  /\ h \in Good(m) /\ h \in HwExpr /\ HwRank[h] <= CoreRank[e] /\ HwRank[h] \in 1..Depth
           /\ ~IsError(h) /\ h.ty \in HwTypes /\ h.ty \in Expected
           /\ ty # Untyped => h.ty = ty
           /\ Read(h, m) = NamesIn(e)
  <1>1. h \in Good(m) /\ h \in HwExpr BY DEF Lowered, Good
  <1> QED BY <1>1, HwFacts DEF Lowered, Expected

LEMMA ResultFacts ==
    ASSUME NEW m, NEW e, NEW ty, NEW r \in Results(e, ty, m)
    PROVE  /\ IsError(r) => r \in Errors
           /\ ~IsError(r) => r \in Lowered(e, ty, m)
  BY ErrorFacts, LoweredFacts DEF Results

\* What may be the operands of what e is lowered to.
Operands(e) == Lower(HwExpr, HwRank, CoreRank[e])

LEMMA PartIsOperand ==
    ASSUME NEW m, NEW e \in CoreExpr, NEW p, Part(p, e), NEW ty, NEW h \in Lowered(p, ty, m)
    PROVE  h \in Operands(e)
  <1>1. h \in HwExpr /\ HwRank[h] <= CoreRank[p] /\ HwRank[h] \in 1..Depth BY LoweredFacts
  <1>2. CoreRank[p] < CoreRank[e] /\ CoreRank[p] \in 1..Depth /\ CoreRank[e] \in 1..Depth
    BY CoreFacts DEF Part
  <1>3. Depth \in Nat BY WidthsAssumption
  <1> QED BY <1>1, <1>2, <1>3 DEF Operands, Lower

LEMMA NodeLowered ==
    ASSUME NEW m, NEW e \in CoreExpr, NEW ty, NEW r \in HwNode(Operands(e)), NodeOK(r, m),
           \A i \in DOMAIN r.args : r.args[i] \in Good(m),
           ty # Untyped => r.ty = ty,
           ReadOf(r, m) \cup UNION {Read(r.args[i], m) : i \in DOMAIN r.args} = NamesIn(e)
    PROVE  r \in Lowered(e, ty, m)
  <1>1. CoreRank[e] \in 1..Depth BY CoreFacts
  <1>2. r \in HwExpr /\ HwRank[r] <= CoreRank[e]
    BY <1>1, HwTree DEF IsTree, Node, Operands
  <1>3. r \in Good(m) BY <1>2, GoodNode
  <1>4. Read(r, m) = NamesIn(e) BY <1>2, ReadUnfold
  <1> QED BY <1>2, <1>3, <1>4 DEF Lowered

LEMMA RequiredType ==
    ASSUME NEW m, NEW e, NEW r \in Results(e, Untyped, m), NEW ty
    PROVE  RequireType(r, ty) \in Results(e, ty, m)
  <1>1. CASE IsError(r) BY <1>1, ResultFacts DEF RequireType, Results
  <1>2. CASE ~IsError(r) /\ ty # Untyped /\ r.ty # ty
    BY <1>2 DEF RequireType, Results, Errors, ErrorKinds
  <1>3. CASE ~IsError(r) /\ ~(ty # Untyped /\ r.ty # ty)
    <2>1. r \in Lowered(e, Untyped, m) BY <1>3, ResultFacts
    <2>2. r \in Lowered(e, ty, m) BY <1>3, <2>1 DEF Lowered
    <2> QED BY <1>3, <2>2 DEF RequireType, Results
  <1> QED BY <1>1, <1>2, <1>3

\* A node without operands.
LEMMA LeafLowered ==
    ASSUME NEW m, NEW e \in CoreExpr, NEW ty, NEW r \in HwNode(Operands(e)), NodeOK(r, m),
           r.args = <<>>, ty # Untyped => r.ty = ty, ReadOf(r, m) = NamesIn(e)
    PROVE  r \in Lowered(e, ty, m)
  <1>1. DOMAIN r.args = {} OBVIOUS
  <1>2. \A i \in DOMAIN r.args : r.args[i] \in Good(m) BY <1>1
  <1>3. UNION {Read(r.args[i], m) : i \in DOMAIN r.args} = {} BY <1>1
  <1>4. ReadOf(r, m) \cup UNION {Read(r.args[i], m) : i \in DOMAIN r.args} = NamesIn(e) BY <1>3
  <1> QED BY <1>2, <1>4, NodeLowered

LEMMA SymbolLowered ==
    ASSUME NEW m, NEW env, EnvOK(env, m), NEW e \in CoreExpr, e.form = "symbol"
    PROVE  LowerSymbol(e, env) \in Results(e, Untyped, m)
  <1>1. NamesIn(e) = {e.name} BY NamesOfLeaf
  <1>2. CASE e.name \in DOMAIN env.signals
    <2> DEFINE s == env.signals[e.name]
               r == [kind |-> "reference", id |-> s.id, ty |-> s.ty, args |-> <<>>]
    <2>1. /\ s.ty \in HwTypes /\ s.id \in Nat /\ s.id \in DOMAIN Typed(m).type
          /\ Typed(m).type[s.id] = s.ty /\ NameOf(s.id, m) = e.name /\ OwnId(s.id, m)
      BY <1>2 DEF EnvOK, SignalsOK
    <2>2. LowerSymbol(e, env) = r BY <1>2 DEF LowerSymbol
    <2> HIDE DEF s
    <2>3. r \in HwNode(Operands(e)) BY <2>1 DEF HwNode
    <2>4. NodeOK(r, m) BY <2>1 DEF NodeOK, WellTyped
    <2>5. ReadOf(r, m) = {e.name} BY <2>1 DEF ReadOf, ReferencesOf, MembersOf, MemberNames
    <2>6. r.args = <<>> OBVIOUS
    <2> HIDE DEF r
    <2>7. r \in Lowered(e, Untyped, m) BY <1>1, <2>3, <2>4, <2>5, <2>6, LeafLowered
    <2> QED BY <2>2, <2>7 DEF Results
  <1>3. CASE e.name \notin DOMAIN env.signals /\ e.name \in DOMAIN env.members
    <2> DEFINE s == env.members[e.name]
               r == [kind |-> "member", member |-> s.id, ty |-> s.ty, args |-> <<>>]
    <2>1. /\ s.ty \in HwTypes /\ s.id \in Nat \X Nat
          /\ s.id[1] \in DOMAIN m.enums /\ s.id[2] \in DOMAIN m.enums[s.id[1]].values
          /\ m.enums[s.id[1]].names[s.id[2]] = e.name /\ m.enums[s.id[1]].ty = s.ty
      BY <1>3 DEF EnvOK, MembersOK
    <2>2. LowerSymbol(e, env) = r BY <1>3 DEF LowerSymbol
    <2> HIDE DEF s
    <2>3. r \in HwNode(Operands(e)) BY <2>1 DEF HwNode
    <2>4. NodeOK(r, m)
      <3>1. Typed(m).enums = m.enums BY DEF Typed
      <3> QED BY <2>1, <3>1 DEF NodeOK, WellTyped
    <2>5. ReadOf(r, m) = {e.name} BY <2>1 DEF ReadOf, ReferencesOf, MembersOf, MemberNames
    <2>6. r.args = <<>> OBVIOUS
    <2> HIDE DEF r
    <2>7. r \in Lowered(e, Untyped, m) BY <1>1, <2>3, <2>4, <2>5, <2>6, LeafLowered
    <2> QED BY <2>2, <2>7 DEF Results
  <1>4. CASE e.name \notin DOMAIN env.signals /\ e.name \notin DOMAIN env.members
    BY <1>4 DEF LowerSymbol, Results, Errors, ErrorKinds
  <1> QED BY <1>2, <1>3, <1>4

LEMMA WrittenType ==
    ASSUME NEW props \in Properties
    PROVE  IsError(TypeFrom(props)) \/ TypeFrom(props) \in HwTypes
  <1>1. CASE "width" \notin DOMAIN props \/ props.width \notin 1..MaxWidth
    BY <1>1 DEF TypeFrom, IsError, Error
  <1>2. CASE "width" \in DOMAIN props /\ props.width \in 1..MaxWidth
    BY <1>2 DEF TypeFrom, IsError, Error, HwTypes, Unsigned
  <1> QED BY <1>1, <1>2

LEMMA IntLowered ==
    ASSUME NEW m, NEW e \in CoreExpr, e.form = "int", NEW ty \in Expected
    PROVE  LowerInt(e, ty) \in Results(e, Untyped, m)
  <1> DEFINE written == TypeFrom(e.props)
             own == IF IsError(written) THEN ty ELSE written
             r == [kind |-> "constant", value |-> e.value, ty |-> own, args |-> <<>>]
  <1>1. NamesIn(e) = {} /\ e.value \in Words /\ e.props \in Properties BY NamesOfLeaf, CoreFacts
  <1>2. own \in Expected BY <1>1, WrittenType DEF Expected
  <1>3. LowerInt(e, ty) = IF own = Untyped THEN Error("UntypedConstant")
                          ELSE IF ~Fits(e.value, own) THEN Error("ConstantOutOfRange") ELSE r
    BY DEF LowerInt
  <1> HIDE DEF own
  <1>4. CASE own = Untyped \/ ~Fits(e.value, own)
    BY <1>3, <1>4 DEF Results, Errors, ErrorKinds
  <1>5. CASE own # Untyped /\ Fits(e.value, own)
    <2>1. own \in HwTypes BY <1>2, <1>5 DEF Expected
    <2>2. r \in HwNode(Operands(e)) BY <1>1, <2>1 DEF HwNode
    <2>3. NodeOK(r, m) BY <1>5 DEF NodeOK, WellTyped
    <2>4. ReadOf(r, m) = {} BY DEF ReadOf, ReferencesOf, MembersOf, MemberNames
    <2>5. r.args = <<>> OBVIOUS
    <2> HIDE DEF r
    <2>6. r \in Lowered(e, Untyped, m) BY <1>1, <2>2, <2>3, <2>4, <2>5, LeafLowered
    <2> QED BY <1>3, <1>5, <2>6 DEF Results
  <1> QED BY <1>4, <1>5

\* How many of the operands of e are lowered, and the operators whose two are of one type.
Arity(e) ==
    CASE e.head = "if" -> 3
      [] e.head \in {"bit", "slice", "resize", "bit-not"} -> 1
      [] e.head = "concat" -> Len(e.args)
      [] OTHER -> 2
IsPair(e) == e.head \notin {"if", "bit", "slice", "resize", "bit-not", "concat"}

\* Operands of e, lowered, of types that are right together.
OperandsOf(args, e, m) ==
    /\ args \in Seq(Operands(e)) /\ Len(args) = Arity(e)
    /\ \A j \in 1..Arity(e) : args[j] \in Lowered(e.args[j], Untyped, m)
    /\ e.head = "if" => args[1].ty.width = 1 /\ args[2].ty = args[3].ty
    /\ IsPair(e) => args[1].ty = args[2].ty

LEMMA ShapeFacts ==
    ASSUME NEW e \in CoreExpr, e.form = "list", ShapeError(e) = "ok"
    PROVE  /\ Len(e.args) \in Nat /\ DOMAIN e.args = 1..Len(e.args)
           /\ Arity(e) \in 1..Len(e.args)
           /\ e.head \in {"if", "slice"} => Len(e.args) = 3
           /\ e.head \in {"bit", "resize"} \/ IsPair(e) => Len(e.args) = 2
           /\ e.head = "bit-not" => Len(e.args) = 1
           /\ e.head = "concat" => Len(e.args) >= 2
  <1> DEFINE n == Len(e.args)
  <1>1. n \in Nat /\ DOMAIN e.args = 1..n BY CoreFacts
  <1> HIDE DEF n
  <1>2. ShapeError(e) =
          CASE e.head = "if" -> Check(n = 3, "UnsupportedExpression")
            [] e.head = "bit" -> Check(n = 2, "InvalidBitSelect")
            [] e.head = "slice" -> Check(n = 3, "InvalidSlice")
            [] e.head = "concat" -> Check(n >= 2, "InvalidConcat")
            [] e.head = "resize" -> Check(n = 2, "InvalidResize")
            [] e.head = "bit-not" -> Check(n = 1, "UnsupportedExpression")
            [] OTHER -> Check(n = 2, "UnsupportedExpression")
    BY DEF ShapeError, n
  <1>3. /\ e.head \in {"if", "slice"} => n = 3
        /\ e.head \in {"bit", "resize"} \/ IsPair(e) => n = 2
        /\ e.head = "bit-not" => n = 1
        /\ e.head = "concat" => n >= 2
    BY <1>2 DEF Check, IsPair
  <1>4. Arity(e) \in 1..n
    <2>1. CASE IsPair(e)
      <3>1. Arity(e) = 2 BY <2>1 DEF Arity, IsPair
      <3> QED BY <1>1, <1>3, <2>1, <3>1
    <2>2. CASE e.head = "concat"
      <3>1. Arity(e) = n BY <2>2 DEF Arity, n
      <3> QED BY <1>1, <1>3, <2>2, <3>1
    <2>3. CASE e.head \in {"if", "bit", "slice", "resize", "bit-not"}
      <3>1. Arity(e) = IF e.head = "if" THEN 3 ELSE 1 BY <2>3 DEF Arity
      <3> QED BY <1>1, <1>3, <2>3, <3>1
    <2> QED BY <2>1, <2>2, <2>3 DEF IsPair
  <1> QED BY <1>1, <1>3, <1>4 DEF n

LEMMA NodeOfOperands ==
    ASSUME NEW m, NEW e \in CoreExpr, e.form = "list", ShapeError(e) = "ok",
           NEW args, OperandsOf(args, e, m),
           \A j \in (Arity(e) + 1)..Len(e.args) : NamesIn(e.args[j]) = {},
           NEW r \in HwNode(Operands(e)), r.args = args, WellTyped(r, Typed(m)),
           r.kind \in {"mux", "bit", "slice", "concat", "resize", "unary", "compare", "binary"}
    PROVE  r \in Results(e, Untyped, m)
  <1>1. /\ Len(e.args) \in Nat /\ DOMAIN e.args = 1..Len(e.args) /\ Arity(e) \in 1..Len(e.args)
    BY ShapeFacts
  <1>2. DOMAIN args = 1..Arity(e)
    <2>1. args \in Seq(Operands(e)) /\ Len(args) = Arity(e) BY DEF OperandsOf
    <2> QED BY <2>1
  <1>3. \A j \in 1..Arity(e) : args[j] \in Good(m) /\ Read(args[j], m) = NamesIn(e.args[j])
    BY LoweredFacts DEF OperandsOf
  <1>4. NodeOK(r, m) BY DEF NodeOK
  <1>5. ReadOf(r, m) = {} BY DEF ReadOf, ReferencesOf, MembersOf, MemberNames
  <1>6. UNION {Read(args[i], m) : i \in DOMAIN args} = NamesIn(e)
    <2>1. NamesIn(e) = UNION {NamesIn(e.args[i]) : i \in DOMAIN e.args} BY NamesOfList
    <2>2. ASSUME NEW x \in NamesIn(e) PROVE \E i \in DOMAIN args : x \in Read(args[i], m)
      <3>1. PICK i \in DOMAIN e.args : x \in NamesIn(e.args[i]) BY <2>1
      <3>2. i \notin (Arity(e) + 1)..Len(e.args) BY <3>1
      <3>3. i \in 1..Arity(e) BY <1>1, <3>2
      <3> QED BY <1>2, <1>3, <3>1, <3>3
    <2>3. ASSUME NEW i \in DOMAIN args, NEW x \in Read(args[i], m) PROVE x \in NamesIn(e)
      <3>1. i \in DOMAIN e.args /\ x \in NamesIn(e.args[i]) BY <1>1, <1>2, <1>3
      <3> QED BY <2>1, <3>1
    <2> QED BY <2>2, <2>3
  <1>7. r \in Lowered(e, Untyped, m)
    <2>1. \A i \in DOMAIN r.args : r.args[i] \in Good(m) BY <1>2, <1>3
    <2>2. ReadOf(r, m) \cup UNION {Read(r.args[i], m) : i \in DOMAIN r.args} = NamesIn(e)
      BY <1>5, <1>6
    <2> QED BY <1>4, <2>1, <2>2, NodeLowered
  <1> QED BY <1>7 DEF Results

LEMMA IndexFacts ==
    ASSUME NEW x \in CoreExpr, IsIndex(x)
    PROVE  x.value \in 0..MaxWidth /\ NamesIn(x) = {}
  BY NamesOfLeaf DEF IsIndex

LEMMA TypeFacts ==
    /\ \A ty \in HwTypes : ty.width \in 1..MaxWidth /\ ty.signed \in BOOLEAN
    /\ \A w \in 1..MaxWidth : Unsigned(w) \in HwTypes
    /\ \A w \in 1..MaxWidth, s \in BOOLEAN : [width |-> w, signed |-> s] \in HwTypes
    /\ Bit \in HwTypes /\ MaxWidth \in Nat
  BY WidthsAssumption DEF HwTypes, Unsigned, Bit

LEMMA Operations ==
    ASSUME NEW e, NEW args
    PROVE  /\ e.head = "bit" => Operation(e, args) =
                IF ~IsIndex(e.args[2]) THEN Error("InvalidBitSelect")
                ELSE IF e.args[2].value >= args[1].ty.width THEN Error("IndexOutOfRange")
                ELSE [kind |-> "bit", ty |-> Bit, args |-> args, index |-> e.args[2].value]
           /\ e.head = "slice" => Operation(e, args) =
                IF ~IsIndex(e.args[2]) \/ ~IsIndex(e.args[3]) \/ e.args[2].value < e.args[3].value
                THEN Error("InvalidSlice")
                ELSE IF e.args[2].value >= args[1].ty.width THEN Error("IndexOutOfRange")
                ELSE [kind |-> "slice", ty |-> Unsigned(e.args[2].value - e.args[3].value + 1),
                      args |-> args, high |-> e.args[2].value, low |-> e.args[3].value]
           /\ e.head = "resize" => Operation(e, args) =
                IF ~IsIndex(e.args[2]) THEN Error("InvalidResize")
                ELSE IF e.args[2].value = 0 THEN Error("InvalidWidth")
                ELSE [kind |-> "resize", args |-> args, width |-> e.args[2].value,
                      ty |-> [width |-> e.args[2].value, signed |-> args[1].ty.signed]]
  <1>1. ASSUME e.head = "bit"
        PROVE  Operation(e, args) =
                IF ~IsIndex(e.args[2]) THEN Error("InvalidBitSelect")
                ELSE IF e.args[2].value >= args[1].ty.width THEN Error("IndexOutOfRange")
                ELSE [kind |-> "bit", ty |-> Bit, args |-> args, index |-> e.args[2].value]
    BY <1>1 DEF Operation, Comparisons, Operators
  <1>2. ASSUME e.head = "slice"
        PROVE  Operation(e, args) =
                IF ~IsIndex(e.args[2]) \/ ~IsIndex(e.args[3]) \/ e.args[2].value < e.args[3].value
                THEN Error("InvalidSlice")
                ELSE IF e.args[2].value >= args[1].ty.width THEN Error("IndexOutOfRange")
                ELSE [kind |-> "slice", ty |-> Unsigned(e.args[2].value - e.args[3].value + 1),
                      args |-> args, high |-> e.args[2].value, low |-> e.args[3].value]
    BY <1>2 DEF Operation, Comparisons, Operators
  <1>3. ASSUME e.head = "resize"
        PROVE  Operation(e, args) =
                IF ~IsIndex(e.args[2]) THEN Error("InvalidResize")
                ELSE IF e.args[2].value = 0 THEN Error("InvalidWidth")
                ELSE [kind |-> "resize", args |-> args, width |-> e.args[2].value,
                      ty |-> [width |-> e.args[2].value, signed |-> args[1].ty.signed]]
    BY <1>3 DEF Operation, Comparisons, Operators
  <1> QED BY <1>1, <1>2, <1>3

LEMMA SelectLowered ==
    ASSUME NEW m, NEW e \in CoreExpr, e.form = "list", ShapeError(e) = "ok",
           NEW args, OperandsOf(args, e, m), e.head \in {"bit", "slice", "resize"}
    PROVE  Operation(e, args) \in Results(e, Untyped, m)
  <1> DEFINE v == args[1]
             A == Seq(Operands(e))
             k(i) == e.args[i].value
  <1>1. v \in Lowered(e.args[1], Untyped, m) /\ args \in A /\ Arity(e) = 1 BY DEF OperandsOf, Arity
  <1>2. v.ty \in HwTypes BY <1>1, LoweredFacts
  <1>3. v.ty.width \in 1..MaxWidth /\ v.ty.signed \in BOOLEAN /\ MaxWidth \in Nat BY <1>2, TypeFacts
  <1>4. \A i \in DOMAIN e.args : e.args[i] \in CoreExpr BY CoreFacts DEF Part
  <1>5. DOMAIN e.args = 1..Len(e.args) /\ Len(e.args) \in {2, 3}
        /\ (e.head = "slice" => Len(e.args) = 3) /\ (e.head # "slice" => Len(e.args) = 2)
    BY ShapeFacts
  <1>6. CASE e.head = "bit"
    <2> DEFINE r == [kind |-> "bit", ty |-> Bit, args |-> args, index |-> k(2)]
    <2>1. CASE ~IsIndex(e.args[2]) \/ k(2) >= v.ty.width
      BY <1>6, <2>1, Operations DEF Results, Errors, ErrorKinds
    <2>2. CASE IsIndex(e.args[2]) /\ ~(k(2) >= v.ty.width)
      <3>1. k(2) \in 0..MaxWidth /\ NamesIn(e.args[2]) = {} BY <1>4, <1>5, <1>6, <2>2, IndexFacts
      <3>2. Operation(e, args) = r BY <1>6, <2>2, Operations
      <3>3. r \in HwNode(Operands(e)) BY <1>1, <3>1, TypeFacts DEF HwNode
      <3>4. WellTyped(r, Typed(m)) BY <1>3, <2>2, <3>1 DEF WellTyped
      <3>5. \A j \in (Arity(e) + 1)..Len(e.args) : NamesIn(e.args[j]) = {} BY <1>1, <1>5, <1>6, <3>1
      <3>6. r.args = args /\ r.kind = "bit" OBVIOUS
      <3> HIDE DEF r
      <3> QED BY <3>2, <3>3, <3>4, <3>5, <3>6, NodeOfOperands
    <2> QED BY <2>1, <2>2
  <1>7. CASE e.head = "slice"
    <2> DEFINE r == [kind |-> "slice", ty |-> Unsigned(k(2) - k(3) + 1), args |-> args,
                     high |-> k(2), low |-> k(3)]
    <2>1. CASE ~IsIndex(e.args[2]) \/ ~IsIndex(e.args[3]) \/ k(2) < k(3) \/ k(2) >= v.ty.width
      BY <1>7, <2>1, Operations DEF Results, Errors, ErrorKinds
    <2>2. CASE IsIndex(e.args[2]) /\ IsIndex(e.args[3]) /\ ~(k(2) < k(3)) /\ ~(k(2) >= v.ty.width)
      <3>1. /\ k(2) \in 0..MaxWidth /\ NamesIn(e.args[2]) = {}
            /\ k(3) \in 0..MaxWidth /\ NamesIn(e.args[3]) = {}
        BY <1>4, <1>5, <1>7, <2>2, IndexFacts
      <3>2. Operation(e, args) = r BY <1>7, <2>2, Operations
      <3>3. k(2) - k(3) + 1 \in 1..MaxWidth /\ k(2) >= k(3) /\ k(2) < v.ty.width BY <1>3, <2>2, <3>1
      <3>4. r \in HwNode(Operands(e))
        <4>1. Unsigned(k(2) - k(3) + 1) \in HwTypes /\ k(2) \in Nat /\ k(3) \in Nat
          BY <3>1, <3>3, TypeFacts
        <4> DEFINE node(ty, i, j) == [kind |-> "slice", ty |-> ty, args |-> args, high |-> i, low |-> j]
        <4>2. \A ty \in HwTypes : \A i, j \in Nat : node(ty, i, j) \in HwNode(Operands(e))
          BY <1>1 DEF HwNode
        <4>3. r = node(Unsigned(k(2) - k(3) + 1), k(2), k(3)) OBVIOUS
        <4> HIDE DEF node, r, k
        <4> QED BY <4>1, <4>2, <4>3
      <3>5. WellTyped(r, Typed(m)) BY <3>3 DEF WellTyped
      <3>6. \A j \in (Arity(e) + 1)..Len(e.args) : NamesIn(e.args[j]) = {}
        <4>1. \A j \in (Arity(e) + 1)..Len(e.args) : j = 2 \/ j = 3
          <5>1. Arity(e) = 1 /\ Len(e.args) = 3 BY <1>1, <1>5, <1>7
          <5> QED BY <5>1
        <4> QED BY <3>1, <4>1
      <3>7. r.args = args /\ r.kind = "slice" OBVIOUS
      <3> HIDE DEF r
      <3> QED BY <3>2, <3>4, <3>5, <3>6, <3>7, NodeOfOperands
    <2> QED BY <2>1, <2>2
  <1>8. CASE e.head = "resize"
    <2> DEFINE r == [kind |-> "resize", ty |-> [width |-> k(2), signed |-> v.ty.signed], args |-> args,
                     width |-> k(2)]
    <2>1. CASE ~IsIndex(e.args[2]) \/ k(2) = 0
      BY <1>8, <2>1, Operations DEF Results, Errors, ErrorKinds
    <2>2. CASE IsIndex(e.args[2]) /\ k(2) # 0
      <3>1. k(2) \in 0..MaxWidth /\ NamesIn(e.args[2]) = {} BY <1>4, <1>5, <1>8, <2>2, IndexFacts
      <3>2. Operation(e, args) = r BY <1>8, <2>2, Operations
      <3>3. k(2) \in 1..MaxWidth BY <1>3, <2>2, <3>1
      <3>4. r \in HwNode(Operands(e)) BY <1>1, <1>3, <3>3, TypeFacts DEF HwNode
      <3>5. WellTyped(r, Typed(m)) BY <3>3 DEF WellTyped
      <3>6. \A j \in (Arity(e) + 1)..Len(e.args) : NamesIn(e.args[j]) = {} BY <1>1, <1>5, <1>8, <3>1
      <3>7. r.args = args /\ r.kind = "resize" OBVIOUS
      <3> HIDE DEF r
      <3> QED BY <3>2, <3>4, <3>5, <3>6, <3>7, NodeOfOperands
    <2> QED BY <2>1, <2>2
  <1> QED BY <1>6, <1>7, <1>8

LEMMA OtherOperations ==
    ASSUME NEW e, NEW args
    PROVE  /\ e.head = "if" => Operation(e, args) = [kind |-> "mux", ty |-> args[2].ty, args |-> args]
           /\ e.head = "concat" => Operation(e, args) =
                IF SumOfWidths(args) > MaxWidth THEN Error("InvalidWidth")
                ELSE [kind |-> "concat", ty |-> Unsigned(SumOfWidths(args)), args |-> args]
           /\ e.head = "bit-not" => Operation(e, args) =
                [kind |-> "unary", ty |-> args[1].ty, args |-> args]
           /\ IsPair(e) => Operation(e, args) =
                IF e.head \in Comparisons
                THEN IF args[1].ty.signed THEN Error("UnsupportedExpression")
                     ELSE [kind |-> "compare", ty |-> Bit, args |-> args]
                ELSE IF e.head \in Operators THEN [kind |-> "binary", ty |-> args[1].ty, args |-> args]
                ELSE Error("UnsupportedExpression")
  <1>1. ASSUME e.head = "if"
        PROVE  Operation(e, args) = [kind |-> "mux", ty |-> args[2].ty, args |-> args]
    BY <1>1 DEF Operation, Comparisons, Operators
  <1>2. ASSUME e.head = "concat"
        PROVE  Operation(e, args) =
                IF SumOfWidths(args) > MaxWidth THEN Error("InvalidWidth")
                ELSE [kind |-> "concat", ty |-> Unsigned(SumOfWidths(args)), args |-> args]
    BY <1>2 DEF Operation, Comparisons, Operators
  <1>3. ASSUME e.head = "bit-not"
        PROVE  Operation(e, args) = [kind |-> "unary", ty |-> args[1].ty, args |-> args]
    BY <1>3 DEF Operation, Comparisons, Operators
  <1>4. ASSUME IsPair(e), e.head \in Comparisons
        PROVE  Operation(e, args) = IF args[1].ty.signed THEN Error("UnsupportedExpression")
                                    ELSE [kind |-> "compare", ty |-> Bit, args |-> args]
    BY <1>4 DEF Operation, Comparisons, Operators, IsPair
  <1>5. ASSUME IsPair(e), e.head \notin Comparisons, e.head \in Operators
        PROVE  Operation(e, args) = [kind |-> "binary", ty |-> args[1].ty, args |-> args]
    BY <1>5 DEF Operation, Comparisons, Operators, IsPair
  <1>6. ASSUME IsPair(e), e.head \notin Comparisons, e.head \notin Operators
        PROVE  Operation(e, args) = Error("UnsupportedExpression")
    BY <1>6 DEF Operation, Comparisons, Operators, IsPair
  <1> QED BY <1>1, <1>2, <1>3, <1>4, <1>5, <1>6

\* A node of one of the kinds that have operands and a type only.
LEMMA PlainNode ==
    ASSUME NEW e, NEW args \in Seq(Operands(e)), NEW ty \in HwTypes,
           NEW kind \in {"unary", "binary", "compare", "mux", "concat"}
    PROVE  [kind |-> kind, ty |-> ty, args |-> args] \in HwNode(Operands(e))
  BY DEF HwNode

LEMMA ConcatLowered ==
    ASSUME NEW m, NEW e \in CoreExpr, e.form = "list", ShapeError(e) = "ok",
           NEW args, OperandsOf(args, e, m), e.head = "concat"
    PROVE  Operation(e, args) \in Results(e, Untyped, m)
  <1> DEFINE sum == SumOfWidths(args)
             r == [kind |-> "concat", ty |-> Unsigned(sum), args |-> args]
  <1>1. Arity(e) = Len(e.args) /\ Len(e.args) \in Nat /\ Len(e.args) >= 2
    BY ShapeFacts DEF Arity
  <1>2. Len(args) = Len(e.args) /\ args \in Seq(Operands(e)) BY <1>1 DEF OperandsOf
  <1>3. \A j \in 1..Len(args) : args[j].ty \in HwTypes BY <1>1, <1>2, LoweredFacts DEF OperandsOf
  <1>4. \A j \in 1..Len(args) : args[j].ty.width \in Nat /\ args[j].ty.width > 0
    BY <1>3, TypeFacts
  <1>5. sum \in Nat /\ sum > 0 BY <1>1, <1>2, <1>4, SumIsPositive
  <1> HIDE DEF sum
  <1>6. Operation(e, args) = IF sum > MaxWidth THEN Error("InvalidWidth") ELSE r
    BY OtherOperations DEF sum
  <1>7. CASE sum > MaxWidth BY <1>6, <1>7 DEF Results, Errors, ErrorKinds
  <1>8. CASE ~(sum > MaxWidth)
    <2>1. sum \in 1..MaxWidth BY <1>5, <1>8, TypeFacts
    <2>2. Unsigned(sum) \in HwTypes BY <2>1, TypeFacts
    <2>3. r \in HwNode(Operands(e)) BY <1>2, <2>2, PlainNode
    <2>4. WellTyped(r, Typed(m)) BY <1>1, <1>2 DEF WellTyped, sum
    <2>5. \A j \in (Arity(e) + 1)..Len(e.args) : NamesIn(e.args[j]) = {} BY <1>1
    <2>6. r.args = args /\ r.kind = "concat" OBVIOUS
    <2> HIDE DEF r
    <2>7. r \in Results(e, Untyped, m) BY <2>3, <2>4, <2>5, <2>6, NodeOfOperands
    <2> QED BY <1>6, <1>8, <2>7
  <1> QED BY <1>7, <1>8

LEMMA OtherLowered ==
    ASSUME NEW m, NEW e \in CoreExpr, e.form = "list", ShapeError(e) = "ok",
           NEW args, OperandsOf(args, e, m), e.head \in {"if", "bit-not"} \/ IsPair(e)
    PROVE  Operation(e, args) \in Results(e, Untyped, m)
  <1>1. Arity(e) = Len(e.args) /\ Len(e.args) \in Nat
    <2>1. CASE e.head = "if" BY <2>1, ShapeFacts DEF Arity
    <2>2. CASE e.head = "bit-not" BY <2>2, ShapeFacts DEF Arity
    <2>3. CASE IsPair(e)
      <3>1. Arity(e) = 2 BY <2>3 DEF Arity, IsPair
      <3> QED BY <2>3, <3>1, ShapeFacts
    <2> QED BY <2>1, <2>2, <2>3
  <1>2. \A j \in (Arity(e) + 1)..Len(e.args) : NamesIn(e.args[j]) = {} BY <1>1
  <1>3. args \in Seq(Operands(e)) /\ \A j \in 1..Arity(e) : args[j].ty \in HwTypes
    BY LoweredFacts DEF OperandsOf
  <1>4. ASSUME NEW kind \in {"mux", "unary", "compare", "binary"}, NEW ty \in HwTypes,
               WellTyped([kind |-> kind, ty |-> ty, args |-> args], Typed(m)),
               Operation(e, args) = [kind |-> kind, ty |-> ty, args |-> args]
        PROVE  Operation(e, args) \in Results(e, Untyped, m)
    <2> DEFINE r == [kind |-> kind, ty |-> ty, args |-> args]
    <2>1. r \in HwNode(Operands(e)) BY <1>3, PlainNode
    <2>2. r.args = args /\ r.kind = kind OBVIOUS
    <2>3. WellTyped(r, Typed(m)) /\ Operation(e, args) = r BY <1>4
    <2> HIDE DEF r
    <2> QED BY <1>2, <2>1, <2>2, <2>3, NodeOfOperands
  <1>5. CASE e.head = "if"
    <2>1. Arity(e) = 3 BY <1>5 DEF Arity
    <2>2. args[2].ty \in HwTypes /\ args[1].ty.width = 1 /\ args[2].ty = args[3].ty
      BY <1>3, <1>5, <2>1 DEF OperandsOf
    <2>3. WellTyped([kind |-> "mux", ty |-> args[2].ty, args |-> args], Typed(m))
      BY <2>2 DEF WellTyped
    <2>4. Operation(e, args) = [kind |-> "mux", ty |-> args[2].ty, args |-> args]
      BY <1>5, OtherOperations
    <2> QED BY <1>4, <2>2, <2>3, <2>4
  <1>6. CASE e.head = "bit-not"
    <2>1. Arity(e) = 1 BY <1>6 DEF Arity
    <2>2. args[1].ty \in HwTypes BY <1>3, <2>1
    <2>3. WellTyped([kind |-> "unary", ty |-> args[1].ty, args |-> args], Typed(m))
      BY DEF WellTyped
    <2>4. Operation(e, args) = [kind |-> "unary", ty |-> args[1].ty, args |-> args]
      BY <1>6, OtherOperations
    <2> QED BY <1>4, <2>2, <2>3, <2>4
  <1>7. CASE IsPair(e)
    <2>1. Arity(e) = 2 BY <1>7 DEF Arity, IsPair
    <2>2. args[1].ty \in HwTypes /\ args[1].ty = args[2].ty BY <1>3, <1>7, <2>1 DEF OperandsOf
    <2>3. CASE e.head \in Comparisons /\ ~args[1].ty.signed
      <3>1. WellTyped([kind |-> "compare", ty |-> Bit, args |-> args], Typed(m))
        BY <2>2, <2>3 DEF WellTyped
      <3>2. Operation(e, args) = [kind |-> "compare", ty |-> Bit, args |-> args]
        BY <1>7, <2>3, OtherOperations
      <3> QED BY <1>4, <3>1, <3>2, TypeFacts
    <2>4. CASE e.head \notin Comparisons /\ e.head \in Operators
      <3>1. WellTyped([kind |-> "binary", ty |-> args[1].ty, args |-> args], Typed(m))
        BY <2>2, <2>4 DEF WellTyped
      <3>2. Operation(e, args) = [kind |-> "binary", ty |-> args[1].ty, args |-> args]
        BY <1>7, <2>4, OtherOperations
      <3> QED BY <1>4, <2>2, <3>1, <3>2
    <2>5. CASE \/ e.head \in Comparisons /\ args[1].ty.signed
               \/ e.head \notin Comparisons /\ e.head \notin Operators
      <3>1. Operation(e, args) = Error("UnsupportedExpression") BY <1>7, <2>5, OtherOperations
      <3> QED BY <3>1 DEF Results, Errors, ErrorKinds
    <2> QED BY <2>3, <2>4, <2>5
  <1> QED BY <1>5, <1>6, <1>7

LEMMA OperationLowered ==
    ASSUME NEW m, NEW e \in CoreExpr, e.form = "list", ShapeError(e) = "ok",
           NEW args, OperandsOf(args, e, m)
    PROVE  Operation(e, args) \in Results(e, Untyped, m)
  BY SelectLowered, ConcatLowered, OtherLowered DEF IsPair

-----------------------------------------------------------------------------
(* Operands *)

LEMMA FirstErrorFacts ==
    ASSUME NEW rs, Len(rs) \in Nat, DOMAIN rs = 1..Len(rs), AnyError(rs)
    PROVE  \E i \in DOMAIN rs : FirstError(rs) = rs[i] /\ IsError(rs[i])
  <1> DEFINE P == {i \in DOMAIN rs : IsError(rs[i])}
             least(i) == IsError(rs[i]) /\ \A j \in 1..(i - 1) : ~IsError(rs[j])
  <1>1. PICK i \in P : \A j \in P : i <= j
    <2>1. P \in SUBSET (1..Len(rs)) /\ P # {} BY DEF AnyError
    <2> HIDE DEF P
    <2> QED BY <2>1, FirstPosition
  <1>2. i \in DOMAIN rs /\ least(i)
    <2>1. ASSUME NEW j \in 1..(i - 1) PROVE ~IsError(rs[j])
      <3>1. j \in DOMAIN rs /\ ~(i <= j) OBVIOUS
      <3> QED BY <1>1, <3>1
    <2> QED BY <2>1
  <1>3. FirstError(rs) = rs[CHOOSE k \in DOMAIN rs : least(k)] BY DEF FirstError, FirstIndex
  <1>4. PICK k \in DOMAIN rs : FirstError(rs) = rs[k] /\ least(k)
    <2> HIDE DEF least
    <2> QED BY <1>2, <1>3
  <1> QED BY <1>4

\* What the parts of e are lowered to.
LowersParts(lower, e, m) ==
    \A p : Part(p, e) => \A ty \in Expected : lower[p][ty] \in Results(p, ty, m)

\* Errors, or operands of e.
ArgsOK(args, e, m) ==
    /\ Len(args) \in Nat /\ DOMAIN args = 1..Len(args)
    /\ \A i \in DOMAIN args : IsError(args[i]) => args[i] \in Errors
    /\ ~AnyError(args) => OperandsOf(args, e, m)

LEMMA LoweredAnyway ==
    ASSUME NEW m, NEW e, NEW ty, NEW h
    PROVE  /\ h \in Lowered(e, ty, m) => h \in Lowered(e, Untyped, m)
           /\ h \in Results(e, ty, m) => h \in Results(e, Untyped, m)
  BY DEF Lowered, Results

LEMMA OneError ==
    ASSUME NEW m, NEW e, NEW r \in Errors
    PROVE  ArgsOK(<<r>>, e, m)
  <1>1. IsError(r) BY ErrorFacts
  <1> HIDE DEF IsError
  <1>2. Len(<<r>>) = 1 /\ DOMAIN <<r>> = 1..1 /\ <<r>>[1] = r OBVIOUS
  <1>3. AnyError(<<r>>) BY <1>1, <1>2 DEF AnyError
  <1> QED BY <1>2, <1>3 DEF ArgsOK

LEMMA ArgsTogether ==
    ASSUME NEW m, NEW e \in CoreExpr, e.form = "list", ShapeError(e) = "ok",
           NEW args, Len(args) = Arity(e), DOMAIN args = 1..Len(args),
           args = [i \in 1..Arity(e) |-> args[i]],
           \A j \in 1..Arity(e) : args[j] \in Results(e.args[j], Untyped, m),
           (\A j \in 1..Arity(e) : ~IsError(args[j])) =>
              /\ e.head = "if" => args[1].ty.width = 1 /\ args[2].ty = args[3].ty
              /\ IsPair(e) => args[1].ty = args[2].ty
    PROVE  ArgsOK(args, e, m)
  <1>1. Arity(e) \in 1..Len(e.args) /\ Len(e.args) \in Nat /\ DOMAIN e.args = 1..Len(e.args)
    BY ShapeFacts
  <1>2. \A i \in DOMAIN args : IsError(args[i]) => args[i] \in Errors BY ResultFacts
  <1>3. ASSUME ~AnyError(args) PROVE OperandsOf(args, e, m)
    <2>1. \A j \in 1..Arity(e) : ~IsError(args[j]) BY <1>3 DEF AnyError
    <2>2. \A j \in 1..Arity(e) : args[j] \in Lowered(e.args[j], Untyped, m) BY <2>1, ResultFacts
    <2>3. \A j \in 1..Arity(e) : args[j] \in Operands(e)
      <3> TAKE j \in 1..Arity(e)
      <3>1. j \in DOMAIN e.args BY <1>1
      <3>2. Part(e.args[j], e) BY <3>1, CoreFacts
      <3> QED BY <2>2, <3>2, PartIsOperand
    <2>4. args \in Seq(Operands(e))
      <3>1. args \in [1..Arity(e) -> Operands(e)] BY <2>3
      <3>2. Arity(e) \in Nat BY <1>1
      <3> QED BY <3>1, <3>2
    <2> QED BY <2>1, <2>2, <2>4 DEF OperandsOf
  <1>4. Len(args) \in Nat BY <1>1
  <1> QED BY <1>2, <1>3, <1>4 DEF ArgsOK

\* What LowerPair makes: one error, or two results of one type.
PairOK(r, a, b, m) ==
    \/ \E x \in Errors : r = <<x>>
    \/ \E x \in Results(a, Untyped, m), y \in Results(b, Untyped, m) :
          r = <<x, y>> /\ (~IsError(x) /\ ~IsError(y) => x.ty = y.ty)

LEMMA PairLowered ==
    ASSUME NEW m, NEW e \in CoreExpr, NEW lower, LowersParts(lower, e, m),
           NEW a, Part(a, e), NEW b, Part(b, e), NEW eitherWay
    PROVE  PairOK(LowerPair(a, b, eitherWay, lower), a, b, m)
  <1> DEFINE first == lower[a][Untyped]
             second == lower[b][Untyped]
             pair == LowerPair(a, b, eitherWay, lower)
  <1>1. Untyped \in Expected BY DEF Expected
  <1>2. first \in Results(a, Untyped, m) /\ second \in Results(b, Untyped, m)
    BY <1>1 DEF LowersParts
  <1>3. \A ty \in HwTypes : ty # Untyped BY TypeFacts DEF Untyped, Unsigned
  <1>4. pair = IF ~IsError(first) THEN <<first, lower[b][first.ty]>>
               ELSE IF ~eitherWay \/ first # Error("UntypedConstant") THEN <<first>>
               ELSE IF IsError(second) THEN <<second>>
               ELSE <<lower[a][second.ty], second>>
    BY DEF LowerPair
  <1>5. CASE ~IsError(first)
    <2>1. first \in Lowered(a, Untyped, m) BY <1>2, <1>5, ResultFacts
    <2>2. first.ty \in Expected /\ first.ty # Untyped BY <1>3, <2>1, LoweredFacts
    <2> DEFINE y == lower[b][first.ty]
    <2>3. y \in Results(b, first.ty, m) BY <2>2 DEF LowersParts
    <2>4. ~IsError(y) => first.ty = y.ty BY <2>2, <2>3, ResultFacts, LoweredFacts
    <2>5. y \in Results(b, Untyped, m) BY <2>3, LoweredAnyway
    <2>6. pair = <<first, y>> BY <1>4, <1>5
    <2> HIDE DEF first, y, pair
    <2>7. PairOK(pair, a, b, m) BY <1>2, <2>4, <2>5, <2>6 DEF PairOK
    <2> QED BY <2>7 DEF pair
  <1>6. CASE IsError(first) /\ (~eitherWay \/ first # Error("UntypedConstant"))
    <2>1. first \in Errors BY <1>2, <1>6, ResultFacts
    <2> QED BY <1>4, <1>6, <2>1 DEF PairOK
  <1>7. CASE IsError(first) /\ ~(~eitherWay \/ first # Error("UntypedConstant")) /\ IsError(second)
    <2>1. second \in Errors BY <1>2, <1>7, ResultFacts
    <2> QED BY <1>4, <1>7, <2>1 DEF PairOK
  <1>8. CASE IsError(first) /\ ~(~eitherWay \/ first # Error("UntypedConstant")) /\ ~IsError(second)
    <2>1. second \in Lowered(b, Untyped, m) BY <1>2, <1>8, ResultFacts
    <2>2. second.ty \in Expected /\ second.ty # Untyped BY <1>3, <2>1, LoweredFacts
    <2> DEFINE x == lower[a][second.ty]
    <2>3. x \in Results(a, second.ty, m) BY <2>2 DEF LowersParts
    <2>4. ~IsError(x) => x.ty = second.ty BY <2>2, <2>3, ResultFacts, LoweredFacts
    <2>5. x \in Results(a, Untyped, m) BY <2>3, LoweredAnyway
    <2>6. pair = <<x, second>> BY <1>4, <1>8
    <2> HIDE DEF second, x, pair
    <2>7. PairOK(pair, a, b, m) BY <1>2, <2>4, <2>5, <2>6 DEF PairOK
    <2> QED BY <2>7 DEF pair
  <1> QED BY <1>5, <1>6, <1>7, <1>8

LEMMA ConditionLowered ==
    ASSUME NEW m, NEW e \in CoreExpr, NEW lower, LowersParts(lower, e, m), NEW a, Part(a, e)
    PROVE  /\ LowerCondition(a, lower) \in Results(a, Untyped, m)
           /\ ~IsError(LowerCondition(a, lower)) => LowerCondition(a, lower).ty.width = 1
  <1> DEFINE c == lower[a][Untyped]
  <1>1. c \in Results(a, Untyped, m) BY DEF LowersParts, Expected
  <1>2. LowerCondition(a, lower) =
          IF ~IsError(c) /\ c.ty.width # 1 THEN Error("InvalidCondition") ELSE c
    BY DEF LowerCondition
  <1>3. Error("InvalidCondition") \in Errors BY DEF Errors, ErrorKinds
  <1>4. IsError(Error("InvalidCondition")) BY <1>3, ErrorFacts
  <1> HIDE DEF c
  <1> QED BY <1>1, <1>2, <1>3, <1>4 DEF Results

LEMMA ThenOne ==
    ASSUME NEW c, NEW x, NEW s, s = <<c>> \o <<x>>
    PROVE  Len(s) = 2 /\ DOMAIN s = 1..2 /\ s[1] = c /\ s[2] = x
  OBVIOUS

LEMMA ThenTwo ==
    ASSUME NEW c, NEW x, NEW y, NEW s, s = <<c>> \o <<x, y>>
    PROVE  /\ Len(s) = 3 /\ DOMAIN s = 1..3 /\ s[1] = c /\ s[2] = x /\ s[3] = y
           /\ s = [i \in 1..3 |-> s[i]]
  OBVIOUS

LEMMA ArgsOfIf ==
    ASSUME NEW m, NEW e \in CoreExpr, e.form = "list", ShapeError(e) = "ok", e.head = "if",
           NEW lower, LowersParts(lower, e, m), NEW expected \in Expected
    PROVE  ArgsOK(LowerArgs(e, expected, lower), e, m)
  <1> DEFINE c == LowerCondition(e.args[1], lower)
             pair == IF expected = Untyped THEN LowerPair(e.args[2], e.args[3], TRUE, lower)
                     ELSE [i \in 1..2 |-> lower[e.args[i + 1]][expected]]
             args == <<c>> \o pair
  <1>1. LowerArgs(e, expected, lower) = args BY DEF LowerArgs
  <1>2. Part(e.args[1], e) /\ Part(e.args[2], e) /\ Part(e.args[3], e)
    <2>1. DOMAIN e.args = 1..3 BY ShapeFacts
    <2> QED BY <2>1, CoreFacts
  <1>3. c \in Results(e.args[1], Untyped, m) /\ (~IsError(c) => c.ty.width = 1)
    BY <1>2, ConditionLowered
  <1>4. PairOK(pair, e.args[2], e.args[3], m)
    <2>1. CASE expected = Untyped BY <1>2, <2>1, PairLowered
    <2>2. CASE expected # Untyped
      <3> DEFINE x == lower[e.args[2]][expected]
                 y == lower[e.args[3]][expected]
      <3>1. x \in Results(e.args[2], expected, m) /\ y \in Results(e.args[3], expected, m)
        BY <1>2 DEF LowersParts
      <3>2. ~IsError(x) /\ ~IsError(y) => x.ty = y.ty
        BY <2>2, <3>1, ResultFacts, LoweredFacts
      <3>3. x \in Results(e.args[2], Untyped, m) /\ y \in Results(e.args[3], Untyped, m)
        BY <3>1, LoweredAnyway
      <3> DEFINE both == [i \in 1..2 |-> lower[e.args[i + 1]][expected]]
      <3>4. pair = both BY <2>2
      <3>5. both = <<x, y>>
        <4>1. 1 + 1 = 2 /\ 2 + 1 = 3 OBVIOUS
        <4>2. both[1] = x /\ both[2] = y BY <4>1
        <4> QED BY <4>2
      <3>6. pair = <<x, y>> BY <3>4, <3>5
      <3> HIDE DEF x, y, pair
      <3>7. PairOK(pair, e.args[2], e.args[3], m) BY <3>2, <3>3, <3>6 DEF PairOK
      <3> QED BY <3>7 DEF pair
    <2> QED BY <2>1, <2>2
  <1> HIDE DEF c, pair
  <1>5. ASSUME NEW x \in Errors, pair = <<x>> PROVE ArgsOK(args, e, m)
    <2>1. args = <<c>> \o <<x>> BY <1>5, Zenon
    <2> HIDE DEF args
    <2>2. Len(args) = 2 /\ DOMAIN args = 1..2 /\ args[1] = c /\ args[2] = x BY <2>1, ThenOne
    <2> HIDE DEF args
    <2>3. IsError(c) => c \in Errors BY <1>3, ResultFacts
    <2>4. AnyError(args) BY <2>2, ErrorFacts DEF AnyError
    <2>5. \A i \in 1..2 : i = 1 \/ i = 2 OBVIOUS
    <2> QED BY <2>2, <2>3, <2>4, <2>5 DEF ArgsOK
  <1>6. ASSUME NEW x \in Results(e.args[2], Untyped, m), NEW y \in Results(e.args[3], Untyped, m),
               pair = <<x, y>>, ~IsError(x) /\ ~IsError(y) => x.ty = y.ty
        PROVE  ArgsOK(args, e, m)
    <2>1. args = <<c>> \o <<x, y>> BY <1>6, Zenon
    <2> HIDE DEF args
    <2>2. Len(args) = 3 /\ DOMAIN args = 1..3 /\ args[1] = c /\ args[2] = x /\ args[3] = y
          /\ args = [i \in 1..3 |-> args[i]]
      BY <2>1, ThenTwo
    <2> HIDE DEF args
    <2>3. Arity(e) = 3 /\ ~IsPair(e) BY DEF Arity, IsPair
    <2>4. \A j \in 1..3 : args[j] \in Results(e.args[j], Untyped, m)
      <3>1. \A j \in 1..3 : j = 1 \/ j = 2 \/ j = 3 OBVIOUS
      <3> QED BY <1>3, <2>2, <3>1
    <2>5. (\A j \in 1..3 : ~IsError(args[j])) => args[1].ty.width = 1 /\ args[2].ty = args[3].ty
      BY <1>3, <1>6, <2>2
    <2> QED BY <2>2, <2>3, <2>4, <2>5, ArgsTogether
  <1>7. ArgsOK(args, e, m)
    <2> HIDE DEF args
    <2> QED BY <1>4, <1>5, <1>6 DEF PairOK
  <1> QED BY <1>1, <1>7

LEMMA ArgsOfPair ==
    ASSUME NEW m, NEW e \in CoreExpr, e.form = "list", ShapeError(e) = "ok", IsPair(e),
           NEW lower, LowersParts(lower, e, m), NEW expected \in Expected
    PROVE  ArgsOK(LowerArgs(e, expected, lower), e, m)
  <1> DEFINE args == LowerPair(e.args[1], e.args[2], e.head \in Comparisons, lower)
  <1>1. LowerArgs(e, expected, lower) = args BY DEF LowerArgs, IsPair
  <1>2. Part(e.args[1], e) /\ Part(e.args[2], e)
    <2>1. DOMAIN e.args = 1..2 BY ShapeFacts
    <2> QED BY <2>1, CoreFacts
  <1>3. PairOK(args, e.args[1], e.args[2], m) BY <1>2, PairLowered
  <1> HIDE DEF args
  <1>4. ASSUME NEW x \in Errors, args = <<x>> PROVE ArgsOK(args, e, m) BY <1>4, OneError
  <1>5. ASSUME NEW x \in Results(e.args[1], Untyped, m), NEW y \in Results(e.args[2], Untyped, m),
               args = <<x, y>>, ~IsError(x) /\ ~IsError(y) => x.ty = y.ty
        PROVE  ArgsOK(args, e, m)
    <2>2. Len(args) = 2 /\ DOMAIN args = 1..2 /\ args[1] = x /\ args[2] = y
          /\ args = [i \in 1..2 |-> args[i]]
      BY <1>5
    <2>3. Arity(e) = 2 /\ e.head # "if" BY DEF Arity, IsPair
    <2>4. \A j \in 1..2 : args[j] \in Results(e.args[j], Untyped, m)
      <3>1. \A j \in 1..2 : j = 1 \/ j = 2 OBVIOUS
      <3> QED BY <2>2, <3>1
    <2>5. (\A j \in 1..2 : ~IsError(args[j])) => args[1].ty = args[2].ty
      BY <1>5, <2>2
    <2> QED BY <2>2, <2>3, <2>4, <2>5, ArgsTogether
  <1>6. ArgsOK(args, e, m) BY <1>3, <1>4, <1>5 DEF PairOK
  <1> QED BY <1>1, <1>6

LEMMA ArgsOfOthers ==
    ASSUME NEW m, NEW e \in CoreExpr, e.form = "list", ShapeError(e) = "ok",
           e.head \in {"bit", "slice", "resize", "bit-not", "concat"},
           NEW lower, LowersParts(lower, e, m), NEW expected \in Expected
    PROVE  ArgsOK(LowerArgs(e, expected, lower), e, m)
  <1> DEFINE args == LowerArgs(e, expected, lower)
             ty == IF e.head = "bit-not" THEN expected ELSE Untyped
  <1>1. ty \in Expected BY DEF Expected
  <1>2. Arity(e) \in 1..Len(e.args) /\ Len(e.args) \in Nat /\ DOMAIN e.args = 1..Len(e.args)
        /\ (e.head # "concat" => Arity(e) = 1)
    BY ShapeFacts DEF Arity
  <1>3. args = [i \in 1..Arity(e) |-> lower[e.args[i]][ty]]
    <2>1. CASE e.head \in {"bit", "slice", "resize"}
      <3>1. args = <<lower[e.args[1]][Untyped]>> BY <2>1 DEF LowerArgs
      <3> QED BY <1>2, <2>1, <3>1
    <2>2. CASE e.head = "bit-not"
      <3>1. args = <<lower[e.args[1]][expected]>> BY <2>2 DEF LowerArgs
      <3> QED BY <1>2, <2>2, <3>1
    <2>3. CASE e.head = "concat"
      <3>1. args = [i \in DOMAIN e.args |-> lower[e.args[i]][Untyped]] BY <2>3 DEF LowerArgs
      <3>2. Arity(e) = Len(e.args) BY <2>3 DEF Arity
      <3> QED BY <1>2, <2>3, <3>1, <3>2
    <2> QED BY <2>1, <2>2, <2>3
  <1> HIDE DEF args, ty
  <1>4. Len(args) = Arity(e) /\ DOMAIN args = 1..Arity(e) /\ args = [i \in 1..Arity(e) |-> args[i]]
    BY <1>2, <1>3
  <1>5. \A j \in 1..Arity(e) : args[j] \in Results(e.args[j], Untyped, m)
    <2> TAKE j \in 1..Arity(e)
    <2>1. j \in DOMAIN e.args BY <1>2
    <2>2. Part(e.args[j], e) BY <2>1, CoreFacts
    <2>3. args[j] \in Results(e.args[j], ty, m) BY <1>1, <1>3, <2>2 DEF LowersParts
    <2> QED BY <2>3, LoweredAnyway
  <1>6. e.head # "if" /\ ~IsPair(e) BY DEF IsPair
  <1>7. ArgsOK(args, e, m) BY <1>4, <1>5, <1>6, ArgsTogether
  <1> QED BY <1>7 DEF args

LEMMA ListLowered ==
    ASSUME NEW m, NEW e \in CoreExpr, e.form = "list",
           NEW lower, LowersParts(lower, e, m), NEW expected \in Expected
    PROVE  LowerList(e, expected, lower) \in Results(e, Untyped, m)
  <1> DEFINE args == LowerArgs(e, expected, lower)
  <1>1. LowerList(e, expected, lower) =
           IF ShapeError(e) # "ok" THEN Error(ShapeError(e))
           ELSE IF AnyError(args) THEN FirstError(args) ELSE Operation(e, args)
    BY DEF LowerList
  <1>2. CASE ShapeError(e) # "ok"
    <2>1. ShapeError(e) \in {"ok", "UnsupportedExpression", "InvalidBitSelect", "InvalidSlice",
                             "InvalidConcat", "InvalidResize"}
      BY DEF ShapeError, Check
    <2>2. ShapeError(e) \in ErrorKinds BY <1>2, <2>1 DEF ErrorKinds
    <2> QED BY <1>1, <1>2, <2>2 DEF Results, Errors
  <1>3. CASE ShapeError(e) = "ok"
    <2>1. ArgsOK(args, e, m)
      BY <1>3, ArgsOfIf, ArgsOfPair, ArgsOfOthers DEF IsPair
    <2> HIDE DEF args
    <2>2. CASE AnyError(args)
      <3>1. FirstError(args) \in Errors BY <2>1, <2>2, FirstErrorFacts DEF ArgsOK
      <3> QED BY <1>1, <1>3, <2>2, <3>1 DEF Results
    <2>3. CASE ~AnyError(args)
      <3>1. OperandsOf(args, e, m) BY <2>1, <2>3 DEF ArgsOK
      <3> QED BY <1>1, <1>3, <2>3, <3>1, OperationLowered
    <2> QED BY <2>2, <2>3
  <1> QED BY <1>2, <1>3

-----------------------------------------------------------------------------
(* Keys and arms *)

LEMMA ElseFacts ==
    ASSUME NEW key \in CoreExpr
    PROVE  /\ IsElse(key) => NamesIn(key) \ {"else"} = {} /\ NamesIn(key) \subseteq {"else"}
           /\ ~IsElse(key) /\ key.form = "symbol" => key.name # "else"
  <1>1. IsElse(key) => key.form = "symbol" /\ key.name = "else" BY DEF IsElse, Else, Sym
  <1>2. IsElse(key) => NamesIn(key) = {"else"} BY <1>1, NamesOfLeaf
  <1>3. ASSUME key.form = "symbol", key.name = "else" PROVE IsElse(key)
    <2> DEFINE P == Lower(CoreExpr, CoreRank, CoreRank[key])
               N == STRING
               Q == Properties
               A == Seq(P)
               B == [1..1 -> P]
               C == Seq([key : P, value : P])
    <2>1. key \in CoreNode(P) BY CoreTree DEF IsTree, Node
    <2> HIDE DEF P, N, Q, A, B, C
    <2>2. \/ key \in [form : {"symbol"}, name : N]
          \/ key \in [form : {"int"}, value : Words, props : Q]
          \/ key \in [form : {"datum"}]
          \/ key \in [form : {"list"}, head : N, args : A]
          \/ key \in [form : {"case"}, args : B, arms : C]
      BY <2>1, Zenon DEF CoreNode, N, Q, A, B, C
    <2>3. key \in [form : {"symbol"}, name : N] BY <1>3, <2>2
    <2>4. key = [form |-> "symbol", name |-> "else"] BY <1>3, <2>3
    <2> QED BY <2>4 DEF IsElse, Else, Sym
  <1> QED BY <1>2, <1>3

\* A key that the verifier accepts for a selector of type ty, written as `key`.
KeyOK(k, key, ty, m) ==
    /\ key.form \in {"int", "symbol"}
    /\ k \in Key /\ k.ty = ty /\ ~IsError(k) /\ Fits(k.value, ty)
    /\ KeyError(k, Typed(m)) = "ok" /\ KeyType(k, Typed(m)) = ty /\ KeyValue(k, Typed(m)) = k.value
    /\ NamesIn(key) = IF k.member = <<>> THEN {} ELSE {m.enums[k.member[1]].names[k.member[2]]}

LEMMA KeyLowered ==
    ASSUME NEW m, NEW env, EnvOK(env, m), NEW key \in CoreExpr, NEW ty \in HwTypes,
           NEW construct
    PROVE  /\ IsError(LowerKey(key, ty, env, construct)) => LowerKey(key, ty, env, construct) \in Errors
           /\ ~IsError(LowerKey(key, ty, env, construct)) =>
                 KeyOK(LowerKey(key, ty, env, construct), key, ty, m)
  <1> DEFINE r == LowerKey(key, ty, env, construct)
             Goal(x) == (IsError(x) => x \in Errors) /\ (~IsError(x) => KeyOK(x, key, ty, m))
  <1>0. Typed(m).enums = m.enums BY DEF Typed
  <1>1. \A kind \in ErrorKinds : Goal(Error(kind))
    BY DEF Errors, Error, IsError
  <1>2. CASE IsLiteralKey(key, construct) /\ Fits(key.value, ty)
    <2> DEFINE k == [member |-> <<>>, value |-> key.value, ty |-> ty]
    <2>1. r = k BY <1>2 DEF LowerKey, IsLiteralKey
    <2>2. key.value \in Words /\ NamesIn(key) = {} BY <1>2, CoreFacts, NamesOfLeaf DEF IsLiteralKey
    <2>3. k \in Key BY <2>2 DEF Key
    <2>4. k.ty = ty /\ k.value = key.value /\ k.member = <<>> /\ ~IsError(k) BY DEF IsError
    <2> HIDE DEF k
    <2>5. KeyOK(k, key, ty, m)
      BY <1>2, <2>2, <2>3, <2>4
      DEF KeyOK, KeyError, KeyType, KeyValue, Check, IsLiteralKey
    <2> HIDE DEF r
    <2> QED BY <2>1, <2>5, <2>4 DEF r
  <1>3. CASE key.form = "symbol" /\ key.name \in DOMAIN env.members /\ env.members[key.name].ty = ty
    <2> DEFINE s == env.members[key.name]
               k == [member |-> s.id, value |-> s.value, ty |-> ty]
    <2>1. r = k BY <1>3 DEF LowerKey, IsLiteralKey
    <2>2. NamesIn(key) = {key.name} BY <1>3, NamesOfLeaf
    <2>3. /\ s.id \in Nat \X Nat /\ s.id[1] \in DOMAIN m.enums
          /\ s.id[2] \in DOMAIN m.enums[s.id[1]].values
          /\ m.enums[s.id[1]].values[s.id[2]] = s.value
          /\ m.enums[s.id[1]].names[s.id[2]] = key.name
          /\ m.enums[s.id[1]].ty = ty /\ s.value \in Words /\ Fits(s.value, ty)
      BY <1>3 DEF EnvOK, MembersOK
    <2> HIDE DEF s
    <2>4. k \in Key BY <2>3 DEF Key
    <2>5. k.ty = ty /\ k.value = s.value /\ k.member = s.id /\ ~IsError(k) BY DEF IsError
    <2>6. s.id # <<>> BY <2>3
    <2> HIDE DEF k
    <2>7. KeyOK(k, key, ty, m)
      BY <1>0, <1>3, <2>2, <2>3, <2>4, <2>5, <2>6 DEF KeyOK, KeyError, KeyType, KeyValue, Check
    <2> HIDE DEF r
    <2> QED BY <2>1, <2>5, <2>7 DEF r
  <1>4. CASE key.form = "symbol" /\ key.name \notin DOMAIN env.members
    <2>1. r = Error("UnknownSignal") BY <1>4 DEF LowerKey, IsLiteralKey
    <2>2. "UnknownSignal" \in ErrorKinds BY DEF ErrorKinds
    <2> HIDE DEF r, Goal
    <2>3. Goal(r) BY <1>1, <2>1, <2>2
    <2> QED BY <2>3 DEF r, Goal
  <1>5. CASE key.form = "symbol" /\ key.name \in DOMAIN env.members /\ env.members[key.name].ty # ty
    <2>1. r = Error("TypeMismatch") BY <1>5 DEF LowerKey, IsLiteralKey
    <2>2. "TypeMismatch" \in ErrorKinds BY DEF ErrorKinds
    <2> HIDE DEF r, Goal
    <2>3. Goal(r) BY <1>1, <2>1, <2>2
    <2> QED BY <2>3 DEF r, Goal
  <1>6. CASE key.form # "symbol" /\ ~(IsLiteralKey(key, construct) /\ Fits(key.value, ty))
    <2>1. r = Error(MalformedKey(construct)) BY <1>6 DEF LowerKey, IsLiteralKey
    <2>2. MalformedKey(construct) \in ErrorKinds BY DEF MalformedKey, ErrorKinds
    <2> HIDE DEF r, Goal
    <2>3. Goal(r) BY <1>1, <2>1, <2>2
    <2> QED BY <2>3 DEF r, Goal
  <1> QED BY <1>2, <1>3, <1>4, <1>5, <1>6

\* What LowerKeys makes of the keys of these arms.
KeysOK(keys, arms, ty, m) ==
    /\ Len(keys) = Len(arms) /\ DOMAIN keys = 1..Len(arms)
    /\ keys = [i \in DOMAIN keys |-> keys[i]]
    /\ \A i \in DOMAIN keys :
          /\ IsError(keys[i]) => keys[i] \in Errors
          /\ ~IsError(keys[i]) /\ IsElse(arms[i].key) => i = Len(arms)
          /\ ~IsError(keys[i]) /\ ~IsElse(arms[i].key) => KeyOK(keys[i], arms[i].key, ty, m)
    /\ \A j \in DOMAIN keys : \A i \in 1..(j - 1) :
          /\ ~IsError(keys[i]) /\ ~IsElse(arms[i].key)
          /\ ~IsError(keys[j]) /\ ~IsElse(arms[j].key)
          => keys[i].value # keys[j].value

LEMMA KeysLowered ==
    ASSUME NEW m, NEW env, EnvOK(env, m), NEW arms, Len(arms) \in Nat,
           DOMAIN arms = 1..Len(arms), \A i \in DOMAIN arms : arms[i].key \in CoreExpr,
           NEW ty \in HwTypes, NEW construct
    PROVE  KeysOK(LowerKeys(arms, ty, env, construct), arms, ty, m)
  <1> DEFINE keyOf(i) == LowerKey(arms[i].key, ty, env, construct)
             used(i) == \E j \in 1..(i - 1) :
                ~IsElse(arms[j].key) /\ ~IsError(keyOf(j)) /\ keyOf(j).value = keyOf(i).value
             keys == LowerKeys(arms, ty, env, construct)
  <1>1. keys = [i \in DOMAIN arms |->
           IF IsElse(arms[i].key)
           THEN IF i = Len(arms) THEN [default |-> TRUE] ELSE Error(MalformedKey(construct))
           ELSE IF ~IsError(keyOf(i)) /\ used(i) THEN Error("DuplicateAssignment")
           ELSE keyOf(i)]
    BY DEF LowerKeys
  <1>2. \A kind \in ErrorKinds : Error(kind) \in Errors /\ IsError(Error(kind))
    BY DEF Errors, Error, IsError
  <1>m. MalformedKey(construct) \in ErrorKinds BY DEF MalformedKey, ErrorKinds
  <1>3. Error("DuplicateAssignment") \in Errors /\ IsError(Error("DuplicateAssignment"))
    BY <1>2 DEF ErrorKinds
  <1>4. ~IsError([default |-> TRUE]) BY DEF IsError
  <1>5. \A i \in DOMAIN arms : /\ IsError(keyOf(i)) => keyOf(i) \in Errors
                               /\ ~IsError(keyOf(i)) => KeyOK(keyOf(i), arms[i].key, ty, m)
    BY KeyLowered
  <1>6. DOMAIN keys = 1..Len(arms) /\ Len(keys) = Len(arms) /\ keys = [i \in DOMAIN keys |-> keys[i]]
    BY <1>1
  <1>7. \A i \in DOMAIN arms : keys[i] =
           IF IsElse(arms[i].key)
           THEN IF i = Len(arms) THEN [default |-> TRUE] ELSE Error(MalformedKey(construct))
           ELSE IF ~IsError(keyOf(i)) /\ used(i) THEN Error("DuplicateAssignment")
           ELSE keyOf(i)
    BY <1>1
  <1> DEFINE last == [default |-> TRUE]
             bad == Error(MalformedKey(construct))
             twice == Error("DuplicateAssignment")
  <1>8. \A i \in DOMAIN arms :
           /\ IsElse(arms[i].key) => keys[i] = IF i = Len(arms) THEN last ELSE bad
           /\ ~IsElse(arms[i].key) /\ ~IsError(keyOf(i)) /\ used(i) => keys[i] = twice
           /\ ~IsElse(arms[i].key) /\ ~(~IsError(keyOf(i)) /\ used(i)) => keys[i] = keyOf(i)
    BY <1>7
  <1>9. ~IsError(last) /\ bad \in Errors /\ IsError(bad) /\ twice \in Errors /\ IsError(twice)
    BY <1>2, <1>3, <1>4, <1>m
  <1> HIDE DEF keys, keyOf, last, bad, twice
  <1>10. \A i \in DOMAIN arms :
          /\ IsError(keys[i]) => keys[i] \in Errors
          /\ ~IsError(keys[i]) /\ IsElse(arms[i].key) => i = Len(arms)
          /\ ~IsError(keys[i]) /\ ~IsElse(arms[i].key) => KeyOK(keys[i], arms[i].key, ty, m)
    <2> HIDE DEF used
    <2> QED BY <1>5, <1>8, <1>9
  <1>11. ASSUME NEW j \in DOMAIN keys, NEW i \in 1..(j - 1),
                ~IsError(keys[i]) /\ ~IsElse(arms[i].key),
                ~IsError(keys[j]) /\ ~IsElse(arms[j].key)
         PROVE  keys[i].value # keys[j].value
    <2>1. i \in DOMAIN arms /\ j \in DOMAIN arms BY <1>6
    <2>2. keys[i] = keyOf(i) /\ keys[j] = keyOf(j) /\ ~used(j)
      <3> HIDE DEF used
      <3> QED BY <1>8, <1>9, <1>11, <2>1
    <2> QED BY <1>11, <2>2
  <1>12. KeysOK(keys, arms, ty, m) BY <1>6, <1>10, <1>11 DEF KeysOK
  <1> QED BY <1>12 DEF keys

LEMMA KeysVerified ==
    ASSUME NEW m, NEW ty, NEW keys \in Seq(Key),
           \A i \in DOMAIN keys : /\ KeyError(keys[i], Typed(m)) = "ok"
                                  /\ KeyType(keys[i], Typed(m)) = ty
                                  /\ KeyValue(keys[i], Typed(m)) = keys[i].value,
           \A i, j \in DOMAIN keys : keys[i].value = keys[j].value => i = j
    PROVE  VerifyKeys(keys, ty, Typed(m)) = "ok"
  <1> DEFINE t == Typed(m)
             e == [i \in DOMAIN keys |-> KeyError(keys[i], t)]
             last == Check(/\ \A i \in DOMAIN keys : KeyType(keys[i], t) = ty
                           /\ \A i, j \in DOMAIN keys :
                                  KeyValue(keys[i], t) = KeyValue(keys[j], t) => i = j,
                           "TypeMismatch")
  <1>1. last = "ok" BY DEF Check
  <1>2. Len(keys) \in Nat /\ DOMAIN keys = 1..Len(keys) OBVIOUS
  <1>3. e \in Seq({"ok"}) BY <1>2
  <1>4. \A i \in DOMAIN e : e[i] = "ok" OBVIOUS
  <1>5. VerifyKeys(keys, ty, t) = FirstFailure(e \o <<last>>) BY DEF VerifyKeys
  <1> HIDE DEF e, last
  <1>6. <<last>> \in Seq({"ok"}) /\ \A i \in DOMAIN <<last>> : <<last>>[i] = "ok" BY <1>1
  <1>7. e \o <<last>> \in Seq({"ok"}) BY <1>3, <1>6
  <1>8. \A i \in DOMAIN (e \o <<last>>) : (e \o <<last>>)[i] = "ok" BY <1>3, <1>4, <1>6, ConcatOk
  <1> QED BY <1>5, <1>7, <1>8, FirstFailureFacts

\* The first n arms, and none of the others, have a key.
KeyedArms(arms, keys, n) ==
    /\ n \in 0..Len(arms)
    /\ \A i \in 1..n : ~IsError(keys[i]) /\ ~IsElse(arms[i].key)
    /\ \A i \in (n + 1)..Len(arms) : IsElse(arms[i].key)

\* Keys that the verifier accepts, written as those of the arms.
KeysTogether(ks, arms, ty, m) ==
    /\ ks \in Seq(Key) /\ VerifyKeys(ks, ty, Typed(m)) = "ok"
    /\ \A key \in Range(ks) : Fits(key.value, key.ty)
    /\ MemberNames({key.member : key \in Range(ks)} \ {<<>>}, m)
         = UNION {NamesIn(arms[i].key) \ {"else"} : i \in DOMAIN arms}

LEMMA KeysOfArms ==
    ASSUME NEW m, NEW arms, Len(arms) \in Nat,
           DOMAIN arms = 1..Len(arms), \A i \in DOMAIN arms : arms[i].key \in CoreExpr,
           NEW ty, NEW keys, KeysOK(keys, arms, ty, m), NEW n, KeyedArms(arms, keys, n),
           NEW ks, ks = SubSeq(keys, 1, n)
    PROVE  KeysTogether(ks, arms, ty, m) /\ Len(ks) = n
  <1>1. n \in Nat /\ n <= Len(arms) BY DEF KeyedArms
  <1>2. \A i \in 1..n : i \in DOMAIN arms /\ i \in DOMAIN keys /\ KeyOK(keys[i], arms[i].key, ty, m)
    BY <1>1 DEF KeyedArms, KeysOK
  <1>3. ks = [i \in 1..n |-> keys[i]] /\ Len(ks) = n
    <2> DEFINE S == {keys[i] : i \in DOMAIN keys}
    <2>1. DOMAIN keys = 1..Len(arms) /\ keys = [i \in DOMAIN keys |-> keys[i]] BY DEF KeysOK
    <2>2. \A i \in DOMAIN keys : keys[i] \in S OBVIOUS
    <2>3. keys \in [1..Len(arms) -> S] BY <2>1, <2>2, Zenon
    <2> HIDE DEF S
    <2>4. keys \in Seq(S) /\ Len(keys) = Len(arms) BY <2>3
    <2> QED BY <1>1, <2>4
  <1>4. DOMAIN ks = 1..n /\ \A i \in 1..n : ks[i] = keys[i] BY <1>3
  <1>5. ks \in Seq(Key)
    <2>1. \A i \in 1..n : keys[i] \in Key BY <1>2 DEF KeyOK
    <2>2. ks \in [1..n -> Key] BY <1>3, <2>1
    <2>3. \A f \in [1..n -> Key] : f \in Seq(Key) BY <1>1
    <2> QED BY <2>2, <2>3, Zenon
  <1>6. ASSUME NEW i \in DOMAIN ks, NEW j \in DOMAIN ks, ks[i].value = ks[j].value
        PROVE  i = j
    <2>1. ASSUME NEW a \in 1..n, NEW b \in 1..n, a < b PROVE ks[a].value # ks[b].value
      <3>1. a \in 1..(b - 1) BY <2>1
      <3> QED BY <1>2, <1>4, <3>1 DEF KeysOK, KeyedArms
    <2>2. i \in 1..n /\ j \in 1..n BY <1>4
    <2>3. ~(i < j) /\ ~(j < i) BY <1>6, <2>1, <2>2
    <2> QED BY <2>2, <2>3
  <1>7. VerifyKeys(ks, ty, Typed(m)) = "ok"
    <2>1. \A i \in DOMAIN ks : /\ KeyError(ks[i], Typed(m)) = "ok"
                               /\ KeyType(ks[i], Typed(m)) = ty
                               /\ KeyValue(ks[i], Typed(m)) = ks[i].value
      BY <1>2, <1>4 DEF KeyOK
    <2> QED BY <1>5, <1>6, <2>1, KeysVerified
  <1>8. Range(ks) = {keys[i] : i \in 1..n}
    BY <1>4 DEF Range
  <1>9. \A key \in Range(ks) : Fits(key.value, key.ty) BY <1>2, <1>8 DEF KeyOK
  <1>10. \A i \in 1..n : NamesIn(arms[i].key) \ {"else"} = NamesIn(arms[i].key)
    <2> TAKE i \in 1..n
    <2> DEFINE key == arms[i].key
    <2>1. key \in CoreExpr /\ key.form \in {"int", "symbol"} /\ ~IsElse(key)
      BY <1>2 DEF KeyOK, KeyedArms
    <2>2. CASE key.form = "int" BY <2>1, <2>2, NamesOfLeaf
    <2>3. CASE key.form = "symbol"
      <3>1. key.name # "else" /\ NamesIn(key) = {key.name} BY <2>1, <2>3, ElseFacts, NamesOfLeaf
      <3> HIDE DEF key
      <3>2. NamesIn(key) \ {"else"} = NamesIn(key) BY <3>1
      <3> QED BY <3>2 DEF key
    <2> QED BY <2>1, <2>2, <2>3
  <1> DEFINE name(k) == m.enums[k.member[1]].names[k.member[2]]
  <1>11. \A i \in 1..n : NamesIn(arms[i].key) = IF keys[i].member = <<>> THEN {} ELSE {name(keys[i])}
    BY <1>2 DEF KeyOK
  <1>12. MemberNames({key.member : key \in Range(ks)} \ {<<>>}, m)
          = {name(keys[i]) : i \in {j \in 1..n : keys[j].member # <<>>}}
    BY <1>8 DEF MemberNames
  <1> HIDE DEF name
  <1>13. {name(keys[i]) : i \in {j \in 1..n : keys[j].member # <<>>}}
           = UNION {NamesIn(arms[i].key) : i \in 1..n}
    BY <1>11
  <1>14. UNION {NamesIn(arms[i].key) : i \in 1..n}
           = UNION {NamesIn(arms[i].key) \ {"else"} : i \in DOMAIN arms}
    <2>1. \A i \in DOMAIN arms : i \notin 1..n => NamesIn(arms[i].key) \ {"else"} = {}
      <3> TAKE i \in DOMAIN arms
      <3> HAVE i \notin 1..n
      <3>1. i \in (n + 1)..Len(arms) BY <1>1
      <3> QED BY <3>1, ElseFacts DEF KeyedArms
    <2> QED BY <1>2, <1>10, <2>1
  <1> QED BY <1>3, <1>5, <1>7, <1>9, <1>12, <1>13, <1>14 DEF KeysTogether

LEMMA CaseNode ==
    ASSUME NEW m, NEW e \in CoreExpr, e.form = "case", Len(e.arms) >= 2,
           NEW selector \in Lowered(e.args[1], Untyped, m),
           NEW keys, KeysOK(keys, e.arms, selector.ty, m), ~AnyError(keys),
           IsElse(e.arms[Len(e.arms)].key),
           NEW ty \in HwTypes, NEW values \in [DOMAIN e.arms -> Good(m)],
           \A i \in DOMAIN e.arms : values[i] \in Lowered(e.arms[i].value, ty, m)
    PROVE  [kind |-> "case", ty |-> ty, args |-> <<selector>> \o values, keys |-> Front(keys)]
             \in Lowered(e, ty, m)
  <1> DEFINE n == Len(e.arms)
             O == Operands(e)
             args == <<selector>> \o values
             ks == SubSeq(keys, 1, n - 1)
             r == [kind |-> "case", ty |-> ty, args |-> args, keys |-> ks]
  <1>1. /\ Part(e.args[1], e) /\ n \in Nat /\ DOMAIN e.arms = 1..n
        /\ \A i \in DOMAIN e.arms : Part(e.arms[i].key, e) /\ Part(e.arms[i].value, e)
    BY CoreFacts
  <1>2. \A i \in DOMAIN e.arms : e.arms[i].key \in CoreExpr BY <1>1 DEF Part
  <1>3. Len(keys) = n /\ DOMAIN keys = 1..n BY DEF KeysOK
  <1>4. Front(keys) = ks BY <1>3 DEF Front
  <1>5. KeyedArms(e.arms, keys, n - 1)
    <2>1. \A i \in 1..n : ~IsError(keys[i]) BY <1>3 DEF AnyError
    <2>2. \A i \in 1..(n - 1) : ~IsElse(e.arms[i].key)
      <3> TAKE i \in 1..(n - 1)
      <3>1. i \in DOMAIN keys /\ i # n BY <1>1, <1>3
      <3> QED BY <1>3, <2>1, <3>1 DEF KeysOK
    <2>3. \A i \in ((n - 1) + 1)..n : i = n BY <1>1
    <2> HIDE DEF n
    <2>4. n - 1 \in 0..n /\ \A i \in 1..(n - 1) : i \in 1..n BY <1>1 DEF n
    <2> QED BY <2>1, <2>2, <2>3, <2>4 DEF KeyedArms, n
  <1>6. /\ ks \in Seq(Key) /\ VerifyKeys(ks, selector.ty, Typed(m)) = "ok"
        /\ \A key \in Range(ks) : Fits(key.value, key.ty)
        /\ MemberNames({key.member : key \in Range(ks)} \ {<<>>}, m)
             = UNION {NamesIn(e.arms[i].key) \ {"else"} : i \in DOMAIN e.arms}
    <2> DEFINE arms == e.arms
               sty == selector.ty
               k == n - 1
    <2>1. Len(arms) \in Nat /\ DOMAIN arms = 1..Len(arms) BY <1>1
    <2>2. \A i \in DOMAIN arms : arms[i].key \in CoreExpr BY <1>2
    <2>3. KeysOK(keys, arms, sty, m) OBVIOUS
    <2>4. KeyedArms(arms, keys, k) BY <1>5
    <2>5. ks = SubSeq(keys, 1, k) OBVIOUS
    <2> HIDE DEF arms, sty, k, ks, n
    <2>6. KeysTogether(ks, arms, sty, m) BY <2>1, <2>2, <2>3, <2>4, <2>5, KeysOfArms
    <2> QED BY <2>6 DEF arms, sty, KeysTogether
  <1>7. selector \in O /\ \A i \in 1..n : values[i] \in O BY <1>1, PartIsOperand
  <1> HIDE DEF ks, O
  <1>8. <<selector>> \in Seq(O) /\ values \in Seq(O) /\ Len(values) = n
    <2>1. values = [i \in 1..n |-> values[i]] BY <1>1
    <2>2. values \in [1..n -> O] BY <1>7, <2>1
    <2>3. n \in Nat BY <1>1
    <2> HIDE DEF n
    <2> QED BY <1>7, <2>2, <2>3
  <1>9. /\ args \in Seq(O) /\ Len(args) = n + 1 /\ DOMAIN args = 1..(n + 1)
        /\ args[1] = selector /\ \A i \in 2..(n + 1) : args[i] = values[i - 1]
    <2>1. n \in Nat BY <1>1
    <2> HIDE DEF n
    <2> QED BY <1>8, <2>1
  <1> HIDE DEF args
  <1>10. \A i \in 2..(n + 1) : i - 1 \in DOMAIN e.arms BY <1>1
  <1>11. r \in HwNode(O)
    <2> DEFINE A == Seq(O)
               K == Seq(Key)
    <2>1. args \in A /\ ks \in K BY <1>6, <1>9
    <2> HIDE DEF A, K
    <2>2. r \in [kind : {"case"}, ty : HwTypes, args : A, keys : K] BY <2>1
    <2> HIDE DEF r
    <2> QED BY <2>2, Zenon DEF HwNode, A, K
  <1>12. NodeOK(r, m)
    <2>1. \A i \in 2..(n + 1) : args[i].ty = ty
      <3> TAKE i \in 2..(n + 1)
      <3>1. values[i - 1] \in Lowered(e.arms[i - 1].value, ty, m) BY <1>10
      <3>2. ty # Untyped BY TypeFacts DEF Untyped, Unsigned
      <3> QED BY <1>9, <3>1, <3>2, LoweredFacts
    <2>2. r.kind = "case" /\ r.args = args /\ r.ty = ty /\ r.keys = ks OBVIOUS
    <2>3. Len(args) > 2 BY <1>1, <1>9
    <2> HIDE DEF r
    <2>4. WellTyped(r, Typed(m)) BY <1>9, <2>1, <2>2, <2>3 DEF WellTyped
    <2> QED BY <1>6, <1>9, <2>2, <2>4 DEF NodeOK
  <1>13. \A i \in DOMAIN r.args : r.args[i] \in Good(m)
    <2>1. \A i \in DOMAIN args : args[i] \in Good(m)
      <3> TAKE i \in DOMAIN args
      <3>1. CASE i = 1 BY <1>9, <3>1, LoweredFacts
      <3>2. CASE i # 1
        <4>1. i \in 2..(n + 1) BY <1>1, <1>9, <3>2
        <4> QED BY <1>9, <1>10, <4>1
      <3> QED BY <3>1, <3>2
    <2> QED BY <2>1
  <1>14. ReadOf(r, m) = UNION {NamesIn(e.arms[i].key) \ {"else"} : i \in DOMAIN e.arms}
    <2>1. r.kind = "case" /\ r.keys = ks OBVIOUS
    <2> HIDE DEF r
    <2>2. ReferencesOf(r) = {} /\ MembersOf(r) = {key.member : key \in Range(ks)} \ {<<>>}
      BY <2>1 DEF ReferencesOf, MembersOf
    <2>3. ReadOf(r, m) = MemberNames(MembersOf(r), m) BY <2>2 DEF ReadOf
    <2> QED BY <1>6, <2>2, <2>3
  <1>15. UNION {Read(r.args[i], m) : i \in DOMAIN r.args}
           = NamesIn(e.args[1]) \cup UNION {NamesIn(e.arms[i].value) : i \in DOMAIN e.arms}
    <2>0. r.args = args OBVIOUS
    <2> HIDE DEF r
    <2>1. Read(args[1], m) = NamesIn(e.args[1]) BY <1>9, LoweredFacts
    <2>2. \A i \in 2..(n + 1) : Read(args[i], m) = NamesIn(e.arms[i - 1].value)
      BY <1>9, <1>10, LoweredFacts
    <2>3. ASSUME NEW x, NEW i \in DOMAIN args, x \in Read(args[i], m)
          PROVE  x \in NamesIn(e.args[1]) \/ \E j \in DOMAIN e.arms : x \in NamesIn(e.arms[j].value)
      <3>1. CASE i = 1 BY <2>1, <2>3, <3>1
      <3>2. CASE i # 1
        <4>1. i \in 2..(n + 1) BY <1>1, <1>9, <3>2
        <4> QED BY <1>10, <2>2, <2>3, <4>1
      <3> QED BY <3>1, <3>2
    <2>4. ASSUME NEW x, NEW j \in DOMAIN e.arms, x \in NamesIn(e.arms[j].value)
          PROVE  \E i \in DOMAIN args : x \in Read(args[i], m)
      <3>1. j + 1 \in 2..(n + 1) /\ (j + 1) - 1 = j BY <1>1
      <3>2. j + 1 \in DOMAIN args BY <1>9, <1>1, <3>1
      <3>3. Read(args[j + 1], m) = NamesIn(e.arms[(j + 1) - 1].value) BY <2>2, <3>1
      <3> QED BY <2>4, <3>1, <3>2, <3>3
    <2>5. 1 \in DOMAIN args BY <1>1, <1>9
    <2> QED BY <2>0, <2>1, <2>3, <2>4, <2>5
  <1>16. ReadOf(r, m) \cup UNION {Read(r.args[i], m) : i \in DOMAIN r.args} = NamesIn(e)
    <2>1. NamesIn(e) = NamesIn(e.args[1])
              \cup UNION {(NamesIn(e.arms[i].key) \ {"else"}) \cup NamesIn(e.arms[i].value) :
                             i \in DOMAIN e.arms}
      BY NamesOfCase
    <2> HIDE DEF r
    <2> QED BY <1>14, <1>15, <2>1
  <1>17. r.ty = ty OBVIOUS
  <1> HIDE DEF r
  <1>18. r \in Lowered(e, ty, m) BY <1>11, <1>12, <1>13, <1>16, <1>17, NodeLowered DEF O
  <1> QED BY <1>4, <1>18 DEF r, args

LEMMA CaseLowered ==
    ASSUME NEW m, NEW env, EnvOK(env, m), NEW e \in CoreExpr, e.form = "case",
           NEW lower, LowersParts(lower, e, m), NEW expected \in Expected
    PROVE  LowerCase(e, env, expected, lower) \in Results(e, expected, m)
  <1> DEFINE n == Len(e.arms)
             selector == lower[e.args[1]][Untyped]
             keys == LowerKeys(e.arms, selector.ty, env, "case")
             first == lower[e.arms[1].value][Untyped]
             ty == IF expected # Untyped THEN expected ELSE first.ty
             values == [i \in DOMAIN e.arms |-> lower[e.arms[i].value][ty]]
             node == [kind |-> "case", ty |-> ty, args |-> <<selector>> \o values,
                      keys |-> Front(keys)]
  <1>1. LowerCase(e, env, expected, lower) =
          IF n < 2 THEN Error("UnsupportedExpression")
          ELSE IF IsError(selector) THEN selector
          ELSE IF AnyError(keys) THEN FirstError(keys)
          ELSE IF ~IsElse(e.arms[n].key) THEN Error("UnsupportedExpression")
          ELSE IF expected = Untyped /\ IsError(first) THEN first
          ELSE IF AnyError(values) THEN FirstError(values)
          ELSE node
    BY DEF LowerCase
  <1>2. /\ Part(e.args[1], e) /\ n \in Nat /\ DOMAIN e.arms = 1..n
        /\ \A i \in DOMAIN e.arms : Part(e.arms[i].key, e) /\ Part(e.arms[i].value, e)
    BY CoreFacts
  <1>3. Untyped \in Expected /\ Error("UnsupportedExpression") \in Errors
    BY DEF Expected, Errors, ErrorKinds
  <1>4. selector \in Results(e.args[1], Untyped, m) BY <1>2, <1>3 DEF LowersParts
  <1>5. Errors \subseteq Results(e, expected, m) BY DEF Results
  <1> HIDE DEF selector
  <1>6. CASE n < 2 \/ IsError(selector)
    <2>1. IsError(selector) => selector \in Errors BY <1>4, ResultFacts
    <2> HIDE DEF keys, node
    <2> QED BY <1>1, <1>3, <1>5, <1>6, <2>1
  <1>7. CASE ~(n < 2) /\ ~IsError(selector)
    <2>1. selector \in Lowered(e.args[1], Untyped, m) BY <1>4, <1>7, ResultFacts
    <2>2. selector.ty \in HwTypes BY <2>1, LoweredFacts
    <2>3. KeysOK(keys, e.arms, selector.ty, m)
      <3>1. \A i \in DOMAIN e.arms : e.arms[i].key \in CoreExpr BY <1>2 DEF Part
      <3>2. "UnsupportedExpression" \in ErrorKinds BY DEF ErrorKinds
      <3> QED BY <1>2, <2>2, <3>1, <3>2, KeysLowered
    <2> HIDE DEF keys
    <2>4. AnyError(keys) => FirstError(keys) \in Errors
      BY <1>2, <2>3, FirstErrorFacts DEF KeysOK
    <2>5. first \in Results(e.arms[1].value, Untyped, m)
      <3>1. 1 \in DOMAIN e.arms BY <1>2, <1>7
      <3> QED BY <1>2, <1>3, <3>1 DEF LowersParts
    <2> HIDE DEF first
    <2>6. IsError(first) => first \in Errors BY <2>5, ResultFacts
    <2>7. CASE ~(expected = Untyped /\ IsError(first))
      <3>1. ty \in HwTypes
        <4>1. expected # Untyped => expected \in HwTypes BY DEF Expected
        <4>2. expected = Untyped => first.ty \in HwTypes BY <2>5, <2>7, ResultFacts, LoweredFacts
        <4> QED BY <4>1, <4>2
      <3>2. expected # Untyped => ty = expected OBVIOUS
      <3> HIDE DEF ty
      <3>3. \A i \in DOMAIN e.arms : values[i] \in Results(e.arms[i].value, ty, m)
        BY <1>2, <3>1 DEF LowersParts, Expected
      <3>4. Len(values) = n /\ DOMAIN values = 1..n BY <1>2
      <3>5. values = [i \in DOMAIN e.arms |-> values[i]] OBVIOUS
      <3> HIDE DEF values
      <3>6. AnyError(values) => FirstError(values) \in Errors
        <4>1. \A i \in DOMAIN values : IsError(values[i]) => values[i] \in Errors
          BY <1>2, <3>3, <3>4, ResultFacts
        <4> QED BY <1>2, <3>4, <4>1, FirstErrorFacts
      <3>7. ASSUME ~AnyError(values), ~AnyError(keys), IsElse(e.arms[n].key)
            PROVE  node \in Results(e, expected, m)
        <4>1. \A i \in DOMAIN e.arms : values[i] \in Lowered(e.arms[i].value, ty, m)
          BY <1>2, <3>3, <3>4, <3>7, ResultFacts DEF AnyError
        <4>2. \A i \in DOMAIN e.arms : values[i] \in Good(m) BY <4>1, LoweredFacts
        <4>3. values \in [DOMAIN e.arms -> Good(m)] BY <3>5, <4>2
        <4>4. Len(e.arms) >= 2 BY <1>2, <1>7
        <4>5. node \in Lowered(e, ty, m)
          <5> HIDE DEF n
          <5> QED BY <2>1, <2>3, <3>1, <3>7, <4>1, <4>3, <4>4, CaseNode DEF n
        <4> HIDE DEF node
        <4>6. node \in Lowered(e, expected, m)
          <5>1. CASE expected # Untyped BY <3>2, <4>5, <5>1
          <5>2. CASE expected = Untyped BY <4>5, <5>2, LoweredAnyway
          <5> QED BY <5>1, <5>2
        <4> QED BY <4>6 DEF Results
      <3> HIDE DEF node
      <3> QED BY <1>1, <1>3, <1>5, <1>7, <2>4, <2>7, <3>6, <3>7
    <2>8. CASE expected = Untyped /\ IsError(first)
      <3> HIDE DEF node, values
      <3> QED BY <1>1, <1>3, <1>5, <1>7, <2>4, <2>6, <2>8
    <2> QED BY <2>7, <2>8
  <1> QED BY <1>6, <1>7

LEMMA StepLowered ==
    ASSUME NEW m, NEW env, EnvOK(env, m), NEW e \in CoreExpr,
           NEW lower, LowersParts(lower, e, m), NEW expected \in Expected
    PROVE  LowerStep(e, env, expected, lower) \in Results(e, expected, m)
  <1>1. CASE e.form = "symbol"
    BY <1>1, SymbolLowered, RequiredType DEF LowerStep
  <1>2. CASE e.form = "int"
    BY <1>2, IntLowered, RequiredType DEF LowerStep
  <1>3. CASE e.form = "datum"
    BY <1>3 DEF LowerStep, Results, Errors, ErrorKinds
  <1>4. CASE e.form = "list"
    BY <1>4, ListLowered, RequiredType DEF LowerStep
  <1>5. CASE e.form = "case"
    BY <1>5, CaseLowered DEF LowerStep
  <1> QED BY <1>1, <1>2, <1>3, <1>4, <1>5, CoreFacts

-----------------------------------------------------------------------------
(* lower_core_with_expected *)

LEMMA PairLooksAtParts ==
    ASSUME NEW a, NEW b, NEW eitherWay, NEW f, NEW g, f[a] = g[a], f[b] = g[b]
    PROVE  LowerPair(a, b, eitherWay, f) = LowerPair(a, b, eitherWay, g)
  BY DEF LowerPair

LEMMA ConditionLooksAtParts ==
    ASSUME NEW a, NEW f, NEW g, f[a] = g[a]
    PROVE  LowerCondition(a, f) = LowerCondition(a, g)
  BY DEF LowerCondition

LEMMA ArgsLookAtParts ==
    ASSUME NEW x \in CoreExpr, x.form = "list", ShapeError(x) = "ok", NEW f, NEW g,
           \A i \in DOMAIN x.args : f[x.args[i]] = g[x.args[i]], NEW ty
    PROVE  LowerArgs(x, ty, f) = LowerArgs(x, ty, g)
  <1>1. /\ Len(x.args) \in Nat /\ DOMAIN x.args = 1..Len(x.args)
        /\ x.head = "if" => Len(x.args) = 3
        /\ x.head \in {"bit", "slice", "resize", "bit-not"} => Len(x.args) >= 1
        /\ IsPair(x) => Len(x.args) = 2
    BY ShapeFacts
  <1>2. CASE x.head = "if"
    <2>1. f[x.args[1]] = g[x.args[1]] /\ f[x.args[2]] = g[x.args[2]] /\ f[x.args[3]] = g[x.args[3]]
      BY <1>1, <1>2
    <2>2. \A c : LowerPair(x.args[2], x.args[3], c, f) = LowerPair(x.args[2], x.args[3], c, g)
      BY <2>1, PairLooksAtParts
    <2>3. LowerCondition(x.args[1], f) = LowerCondition(x.args[1], g)
      BY <2>1, ConditionLooksAtParts
    <2>4. [i \in 1..2 |-> f[x.args[i + 1]][ty]] = [i \in 1..2 |-> g[x.args[i + 1]][ty]]
      <3>1. DOMAIN x.args = 1..3 BY <1>1, <1>2
      <3>2. \A i \in 1..2 : i + 1 \in DOMAIN x.args BY <3>1
      <3> QED BY <3>2
    <2> DEFINE Of(h) == <<LowerCondition(x.args[1], h)>> \o
                  (IF ty = Untyped THEN LowerPair(x.args[2], x.args[3], TRUE, h)
                   ELSE [i \in 1..2 |-> h[x.args[i + 1]][ty]])
    <2>5. Of(f) = Of(g) BY <2>2, <2>3, <2>4, Zenon
    <2>6. \A h : LowerArgs(x, ty, h) = Of(h) BY <1>2 DEF LowerArgs
    <2> HIDE DEF Of
    <2> QED BY <2>5, <2>6
  <1>3. CASE x.head \in {"bit", "slice", "resize", "bit-not"}
    <2>1. f[x.args[1]] = g[x.args[1]] BY <1>1, <1>3
    <2> QED BY <1>3, <2>1 DEF LowerArgs
  <1>4. CASE x.head = "concat"
    <2>1. [i \in DOMAIN x.args |-> f[x.args[i]][Untyped]] = [i \in DOMAIN x.args |-> g[x.args[i]][Untyped]]
      OBVIOUS
    <2> QED BY <1>4, <2>1 DEF LowerArgs
  <1>5. CASE IsPair(x)
    <2>1. f[x.args[1]] = g[x.args[1]] /\ f[x.args[2]] = g[x.args[2]] BY <1>1, <1>5
    <2>2. \A c : LowerPair(x.args[1], x.args[2], c, f) = LowerPair(x.args[1], x.args[2], c, g)
      BY <2>1, PairLooksAtParts
    <2>3. \A h : LowerArgs(x, ty, h) = LowerPair(x.args[1], x.args[2], x.head \in Comparisons, h)
      BY <1>5 DEF LowerArgs, IsPair
    <2> QED BY <2>2, <2>3, Zenon
  <1> QED BY <1>2, <1>3, <1>4, <1>5 DEF IsPair

LEMMA CaseLooksAtParts ==
    ASSUME NEW x \in CoreExpr, x.form = "case", NEW f, NEW g, NEW env, NEW ty,
           f[x.args[1]] = g[x.args[1]],
           \A i \in DOMAIN x.arms : f[x.arms[i].value] = g[x.arms[i].value]
    PROVE  LowerCase(x, env, ty, f) = LowerCase(x, env, ty, g)
  <1>1. Len(x.arms) \in Nat /\ DOMAIN x.arms = 1..Len(x.arms) BY CoreFacts
  <1>2. CASE Len(x.arms) < 2
    <2>1. \A h : LowerCase(x, env, ty, h) = Error("UnsupportedExpression") BY <1>2 DEF LowerCase
    <2> QED BY <2>1
  <1>3. CASE ~(Len(x.arms) < 2)
    <2>1. 1 \in DOMAIN x.arms BY <1>1, <1>3
    <2>2. f[x.arms[1].value] = g[x.arms[1].value] BY <2>1
    <2>3. \A u : [i \in DOMAIN x.arms |-> f[x.arms[i].value][u]] = [i \in DOMAIN x.arms |-> g[x.arms[i].value][u]]
      OBVIOUS
    <2> QED BY <2>2, <2>3, Zenon DEF LowerCase
  <1> QED BY <1>2, <1>3

LEMMA LowerStepLooksAtParts ==
    ASSUME NEW x \in CoreExpr, NEW f, NEW g, NEW env, NEW ty,
           \A y \in CoreExpr : CoreRank[y] < CoreRank[x] => f[y] = g[y]
    PROVE  LowerStep(x, env, ty, f) = LowerStep(x, env, ty, g)
  <1>1. CASE x.form = "list"
    <2>1. \A i \in DOMAIN x.args : f[x.args[i]] = g[x.args[i]] BY <1>1, CoreFacts DEF Part
    <2>2. CASE ShapeError(x) = "ok"
      <3>1. LowerArgs(x, ty, f) = LowerArgs(x, ty, g) BY <1>1, <2>1, <2>2, ArgsLookAtParts
      <3>2. LowerList(x, ty, f) = LowerList(x, ty, g) BY <3>1, Zenon DEF LowerList
      <3>3. \A h : LowerStep(x, env, ty, h) = RequireType(LowerList(x, ty, h), ty)
        BY <1>1 DEF LowerStep
      <3> QED BY <3>2, <3>3
    <2>3. CASE ShapeError(x) # "ok"
      <3>1. \A h : LowerList(x, ty, h) = Error(ShapeError(x)) BY <2>3 DEF LowerList
      <3>2. \A h : LowerStep(x, env, ty, h) = RequireType(LowerList(x, ty, h), ty)
        BY <1>1 DEF LowerStep
      <3> QED BY <3>1, <3>2
    <2> QED BY <2>2, <2>3
  <1>2. CASE x.form = "case"
    <2>1. f[x.args[1]] = g[x.args[1]] BY <1>2, CoreFacts DEF Part
    <2>2. \A i \in DOMAIN x.arms : f[x.arms[i].value] = g[x.arms[i].value]
      BY <1>2, CoreFacts DEF Part
    <2>3. LowerCase(x, env, ty, f) = LowerCase(x, env, ty, g) BY <1>2, <2>1, <2>2, CaseLooksAtParts
    <2>4. \A h : LowerStep(x, env, ty, h) = LowerCase(x, env, ty, h) BY <1>2 DEF LowerStep
    <2> QED BY <2>3, <2>4
  <1>3. CASE x.form \in {"symbol", "int", "datum"} BY <1>3 DEF LowerStep
  <1> QED BY <1>1, <1>2, <1>3, CoreFacts

\* Every expression is lowered to a well-typed one of the type that is expected,
\* with the names it is written with, or not at all.
LEMMA CoreLowered ==
    ASSUME NEW m, NEW env, EnvOK(env, m)
    PROVE  \A e \in CoreExpr : \A ty \in Expected : LowerCore(e, env, ty) \in Results(e, ty, m)
  <1> DEFINE step(x, f) == [ty \in Expected |-> LowerStep(x, env, ty, f)]
             body(f) == [x \in CoreExpr |-> step(x, f)]
             lower == CHOOSE f : f = body(f)
             V == [Expected -> HwExpr \cup Errors]
             F == [CoreExpr -> V] \cup {lower}
             H == [x \in CoreExpr |-> [f \in F |-> step(x, f)]]
             W == [x \in CoreExpr |-> {h \in [Expected -> HwExpr \cup Errors] : \A ty \in Expected : h[ty] \in Results(x, ty, m)}]
  <1>1. \A x \in CoreExpr : \A f, g : (\A y \in CoreExpr : CoreRank[y] < CoreRank[x] => f[y] = g[y])
                                    => step(x, f) = step(x, g)
    <2> TAKE x \in CoreExpr
    <2> TAKE f, g
    <2> HAVE \A y \in CoreExpr : CoreRank[y] < CoreRank[x] => f[y] = g[y]
    <2>1. \A ty \in Expected : LowerStep(x, env, ty, f) = LowerStep(x, env, ty, g)
      BY LowerStepLooksAtParts
    <2> QED BY <2>1
  <1>2. \A x \in CoreExpr : \A f \in [CoreExpr -> V] :
           (\A y \in CoreExpr : CoreRank[y] < CoreRank[x] => f[y] \in W[y]) => step(x, f) \in W[x]
    <2> TAKE x \in CoreExpr
    <2> TAKE f \in [CoreExpr -> V]
    <2> HAVE \A y \in CoreExpr : CoreRank[y] < CoreRank[x] => f[y] \in W[y]
    <2>1. \A y \in CoreExpr : W[y] = {h \in V : \A ty \in Expected : h[ty] \in Results(y, ty, m)}
      OBVIOUS
    <2> DEFINE s == step(x, f)
    <2>2. s = [ty \in Expected |-> LowerStep(x, env, ty, f)] OBVIOUS
    <2> HIDE DEF W, V, step, s
    <2>3. LowersParts(f, x, m) BY <2>1 DEF LowersParts, Part
    <2>4. \A ty \in Expected : LowerStep(x, env, ty, f) \in Results(x, ty, m)
      BY <2>3, StepLowered
    <2>5. \A ty \in Expected : Results(x, ty, m) \subseteq HwExpr \cup Errors
      BY LoweredFacts DEF Results
    <2>6. s \in V /\ \A ty \in Expected : s[ty] \in Results(x, ty, m)
      <3>1. \A ty \in Expected : s[ty] = LowerStep(x, env, ty, f) BY <2>2
      <3>2. \A ty \in Expected : s[ty] \in HwExpr \cup Errors BY <2>4, <2>5, <3>1
      <3>3. s \in [Expected -> HwExpr \cup Errors] BY <2>2, <2>4, <2>5
      <3> QED BY <2>4, <3>1, <3>3 DEF V
    <2> QED BY <2>1, <2>6 DEF s
  <1>3. \A e, ty : LowerCore(e, env, ty) = lower[e][ty]
    BY DEF LowerCore
  <1>w. W \in [CoreExpr -> SUBSET V]
    OBVIOUS
  <1>x. \A x \in CoreExpr : W[x] = {h \in [Expected -> HwExpr \cup Errors] : \A ty \in Expected : h[ty] \in Results(x, ty, m)} OBVIOUS
  <1> HIDE DEF step, V, W
  <1>4. \A x \in CoreExpr : \A f \in F : H[x][f] = step(x, f) OBVIOUS
  <1>5. \A f \in [CoreExpr -> V] : (\A x \in CoreExpr : f[x] = step(x, f))
                                 => \A x \in CoreExpr : lower[x] = step(x, lower)
    <2> TAKE f \in [CoreExpr -> V]
    <2> HAVE \A x \in CoreExpr : f[x] = step(x, f)
    <2>1. f = body(f) OBVIOUS
    <2>2. lower = body(lower)
      <3> HIDE DEF body
      <3> QED BY <2>1
    <2> HIDE DEF lower
    <2> QED BY <2>2
  <1>6. [CoreExpr -> V] \subseteq F /\ lower \in F OBVIOUS
  <1>7. \A x \in CoreExpr : CoreRank[x] \in Nat BY CoreFacts
  <1>8. CoreRank \in [CoreExpr -> Nat] BY <1>7, CoreTree DEF IsTree
  <1> HIDE DEF H, lower
  <1> HIDE DEF F
  <1>10. LooksAtParts(H, CoreExpr, F, CoreRank)
    <2> SUFFICES ASSUME NEW x \in CoreExpr, NEW f \in F, NEW g \in F,
                        \A y \in CoreExpr : CoreRank[y] < CoreRank[x] => f[y] = g[y]
                 PROVE  H[x][f] = H[x][g]
      BY DEF LooksAtParts
    <2>1. step(x, f) = step(x, g) BY <1>1
    <2> QED BY <1>4, <2>1
  <1>11. KeepsTypes(H, CoreExpr, V, W, CoreRank)
    <2>1. \A x \in CoreExpr : \A f \in [CoreExpr -> V] : H[x][f] = step(x, f) BY <1>4, <1>6
    <2> QED BY <1>2, <2>1 DEF KeepsTypes
  <1>12. Recursion(lower, H, CoreExpr, V, W, CoreRank)
    <2>1. V # {}
      <3>1. Error("TypeMismatch") \in HwExpr \cup Errors BY DEF Errors, ErrorKinds
      <3>2. [ty \in Expected |-> Error("TypeMismatch")] \in [Expected -> HwExpr \cup Errors] BY <3>1
      <3> QED BY <3>2 DEF V
    <2>2. \A f \in [CoreExpr -> V] : (\A x \in CoreExpr : f[x] = H[x][f])
                                   => \A x \in CoreExpr : lower[x] = H[x][lower]
      BY <1>4, <1>5, <1>6
    <2>3. LooksAtParts(H, CoreExpr, [CoreExpr -> V] \cup {lower}, CoreRank) BY <1>10 DEF F
    <2> QED BY <1>8, <1>w, <1>11, <2>1, <2>2, <2>3 DEF Recursion
  <1>13. \A x \in CoreExpr : lower[x] = step(x, lower) /\ lower[x] \in W[x]
    BY <1>4, <1>6, <1>12, SolutionIsTyped DEF Solved
  <1> QED BY <1>3, <1>13, <1>x

-----------------------------------------------------------------------------
(* Statements *)

\* A statement inside another one.
StmtPart(p, s) == p \in Stmt /\ StmtRank[p] < StmtRank[s]
HwStmtPart(p, x) == p \in HwStmt /\ HwStmtRank[p] < HwStmtRank[x]

LEMMA StmtNodeFacts ==
    ASSUME NEW P, NEW s \in StmtNode(P)
    PROVE  /\ s.stmt \in {"set", "do", "if", "case"}
           /\ s.stmt = "set" => s.target \in Names /\ s.value \in CoreExpr
           /\ s.stmt = "do" => s.body \in Seq(P)
           /\ s.stmt = "if" => s.cond \in CoreExpr /\ s.branches \in [1..1 -> P] \cup [1..2 -> P]
           /\ s.stmt = "case" => s.cond \in CoreExpr /\ s.arms \in Seq([key : CoreExpr, value : P])
  <1> DEFINE A == Seq(P)
             B == [1..1 -> P] \cup [1..2 -> P]
             C == Seq([key : CoreExpr, value : P])
             E == CoreExpr
             Goal == /\ s.stmt \in {"set", "do", "if", "case"}
                     /\ s.stmt = "set" => s.target \in Names /\ s.value \in E
                     /\ s.stmt = "do" => s.body \in A
                     /\ s.stmt = "if" => s.cond \in E /\ s.branches \in B
                     /\ s.stmt = "case" => s.cond \in E /\ s.arms \in C
  <1>1. s \in StmtNode(P) OBVIOUS
  <1> HIDE DEF A, B, C, E
  <1>2. ASSUME s \in [stmt : {"set"}, target : Names, value : E] PROVE Goal BY <1>2
  <1>3. ASSUME s \in [stmt : {"do"}, body : A] PROVE Goal BY <1>3
  <1>4. ASSUME s \in [stmt : {"if"}, cond : E, branches : B] PROVE Goal BY <1>4
  <1>5. ASSUME s \in [stmt : {"case"}, cond : E, arms : C] PROVE Goal BY <1>5
  <1> HIDE DEF Goal
  <1>6. Goal BY <1>1, <1>2, <1>3, <1>4, <1>5, Zenon DEF StmtNode, A, B, C, E
  <1> QED BY <1>6 DEF Goal, A, B, C, E

LEMMA StmtFacts ==
    ASSUME NEW s \in Stmt
    PROVE  /\ StmtRank[s] \in 1..Depth
           /\ s.stmt \in {"set", "do", "if", "case"}
           /\ s.stmt = "set" => s.target \in Names /\ s.value \in CoreExpr
           /\ s.stmt = "do" => /\ Len(s.body) \in Nat /\ DOMAIN s.body = 1..Len(s.body)
                               /\ \A i \in DOMAIN s.body : StmtPart(s.body[i], s)
           /\ s.stmt = "if" => /\ s.cond \in CoreExpr
                               /\ Len(s.branches) \in {1, 2}
                               /\ DOMAIN s.branches = 1..Len(s.branches)
                               /\ \A i \in DOMAIN s.branches : StmtPart(s.branches[i], s)
           /\ s.stmt = "case" => /\ s.cond \in CoreExpr
                                 /\ Len(s.arms) \in Nat /\ DOMAIN s.arms = 1..Len(s.arms)
                                 /\ \A i \in DOMAIN s.arms : /\ s.arms[i].key \in CoreExpr
                                                             /\ StmtPart(s.arms[i].value, s)
  <1> DEFINE P == Lower(Stmt, StmtRank, StmtRank[s])
  <1>1. StmtRank[s] \in 1..Depth /\ s \in StmtNode(P) BY StmtTree DEF IsTree, Node
  <1>2. \A p \in P : StmtPart(p, s) BY DEF StmtPart, Lower
  <1> HIDE DEF P
  <1>3. ASSUME s.stmt = "do"
        PROVE  /\ Len(s.body) \in Nat /\ DOMAIN s.body = 1..Len(s.body)
               /\ \A i \in DOMAIN s.body : StmtPart(s.body[i], s)
    <2>1. s.body \in Seq(P) BY <1>1, <1>3, StmtNodeFacts
    <2> QED BY <1>2, <2>1
  <1>4. ASSUME s.stmt = "if"
        PROVE  /\ Len(s.branches) \in {1, 2} /\ DOMAIN s.branches = 1..Len(s.branches)
               /\ \A i \in DOMAIN s.branches : StmtPart(s.branches[i], s)
    <2>1. s.branches \in [1..1 -> P] \cup [1..2 -> P] BY <1>1, <1>4, StmtNodeFacts
    <2>2. CASE s.branches \in [1..1 -> P] BY <1>2, <2>2
    <2>3. CASE s.branches \in [1..2 -> P] BY <1>2, <2>3
    <2> QED BY <2>1, <2>2, <2>3
  <1>5. ASSUME s.stmt = "case"
        PROVE  /\ Len(s.arms) \in Nat /\ DOMAIN s.arms = 1..Len(s.arms)
               /\ \A i \in DOMAIN s.arms : s.arms[i].key \in CoreExpr /\ StmtPart(s.arms[i].value, s)
    <2> DEFINE R == [key : CoreExpr, value : P]
    <2>1. \A r \in R : r.key \in CoreExpr /\ r.value \in P OBVIOUS
    <2>2. s.arms \in Seq(R) BY <1>1, <1>5, StmtNodeFacts
    <2> HIDE DEF R
    <2>3. \A i \in DOMAIN s.arms : s.arms[i] \in R BY <2>2
    <2>4. Len(s.arms) \in Nat /\ DOMAIN s.arms = 1..Len(s.arms) BY <2>2
    <2> QED BY <1>2, <2>1, <2>3, <2>4
  <1> QED BY <1>1, <1>3, <1>4, <1>5, StmtNodeFacts

LEMMA HwStmtNodeFacts ==
    ASSUME NEW P, NEW x \in HwStmtNode(P)
    PROVE  /\ x.stmt \in {"set", "block", "if", "case"} /\ ~IsError(x)
           /\ x.stmt = "set" => x.target \in Nat /\ x.value \in HwExpr
           /\ x.stmt = "block" => x.body \in Seq(P)
           /\ x.stmt = "if" => x.cond \in HwExpr /\ x.branches \in Seq(P)
           /\ x.stmt = "case" => x.cond \in HwExpr /\ x.keys \in Seq(Key) /\ x.branches \in Seq(P)
  <1> DEFINE A == Seq(P)
             K == Seq(Key)
             E == HwExpr
             Goal == /\ x.stmt \in {"set", "block", "if", "case"} /\ ~IsError(x)
                     /\ x.stmt = "set" => x.target \in Nat /\ x.value \in E
                     /\ x.stmt = "block" => x.body \in A
                     /\ x.stmt = "if" => x.cond \in E /\ x.branches \in A
                     /\ x.stmt = "case" => x.cond \in E /\ x.keys \in K /\ x.branches \in A
  <1>1. x \in HwStmtNode(P) OBVIOUS
  <1> HIDE DEF A, K, E
  <1>2. ASSUME x \in [stmt : {"set"}, target : Nat, value : E] PROVE Goal BY <1>2 DEF IsError
  <1>3. ASSUME x \in [stmt : {"block"}, body : A] PROVE Goal BY <1>3 DEF IsError
  <1>4. ASSUME x \in [stmt : {"if"}, cond : E, branches : A] PROVE Goal BY <1>4 DEF IsError
  <1>5. ASSUME x \in [stmt : {"case"}, cond : E, keys : K, branches : A] PROVE Goal
    BY <1>5 DEF IsError
  <1> HIDE DEF Goal
  <1>6. Goal BY <1>1, <1>2, <1>3, <1>4, <1>5, Zenon DEF HwStmtNode, A, K, E
  <1> QED BY <1>6 DEF Goal, A, K, E

LEMMA HwStmtFacts ==
    ASSUME NEW x \in HwStmt
    PROVE  /\ HwStmtRank[x] \in 1..Depth
           /\ x.stmt \in {"set", "block", "if", "case"} /\ ~IsError(x)
           /\ x.stmt = "set" => x.target \in Nat /\ x.value \in HwExpr
           /\ x.stmt = "block" => /\ Len(x.body) \in Nat /\ DOMAIN x.body = 1..Len(x.body)
                                  /\ \A i \in DOMAIN x.body : HwStmtPart(x.body[i], x)
           /\ x.stmt \in {"if", "case"} =>
                 /\ x.cond \in HwExpr
                 /\ Len(x.branches) \in Nat /\ DOMAIN x.branches = 1..Len(x.branches)
                 /\ \A i \in DOMAIN x.branches : HwStmtPart(x.branches[i], x)
           /\ x.stmt = "case" => x.keys \in Seq(Key)
  <1> DEFINE P == Lower(HwStmt, HwStmtRank, HwStmtRank[x])
  <1>1. HwStmtRank[x] \in 1..Depth /\ x \in HwStmtNode(P) BY HwStmtTree DEF IsTree, Node
  <1>2. \A p \in P : HwStmtPart(p, x) BY DEF HwStmtPart, Lower
  <1> HIDE DEF P
  <1>3. \A q \in Seq(P) : /\ Len(q) \in Nat /\ DOMAIN q = 1..Len(q)
                          /\ \A i \in DOMAIN q : HwStmtPart(q[i], x)
    BY <1>2
  <1> QED BY <1>1, <1>3, HwStmtNodeFacts

\* The statements inside a statement.
Inside(s) == CASE s.stmt = "set" -> <<>>
               [] s.stmt = "do" -> s.body
               [] s.stmt = "if" -> s.branches
               [] s.stmt = "case" -> [i \in DOMAIN s.arms |-> s.arms[i].value]
HwInside(x) == CASE x.stmt = "set" -> <<>>
                 [] x.stmt = "block" -> x.body
                 [] x.stmt \in {"if", "case"} -> x.branches

LEMMA InsideFacts ==
    ASSUME NEW s \in Stmt
    PROVE  /\ Len(Inside(s)) \in Nat /\ DOMAIN Inside(s) = 1..Len(Inside(s))
           /\ \A i \in DOMAIN Inside(s) : StmtPart(Inside(s)[i], s)
           /\ s.stmt = "do" => Inside(s) = s.body
           /\ s.stmt = "if" => Inside(s) = s.branches
           /\ s.stmt = "case" => /\ Inside(s) = [i \in DOMAIN s.arms |-> s.arms[i].value]
                                 /\ Len(Inside(s)) = Len(s.arms)
                                 /\ DOMAIN Inside(s) = DOMAIN s.arms
                                 /\ \A i \in DOMAIN s.arms : Inside(s)[i] = s.arms[i].value
           /\ s.stmt = "set" => Inside(s) = <<>>
  <1>1. CASE s.stmt = "set"
    <2>1. Inside(s) = <<>> BY <1>1 DEF Inside
    <2> QED BY <1>1, <2>1
  <1>2. CASE s.stmt = "do" BY <1>2, StmtFacts DEF Inside
  <1>3. CASE s.stmt = "if"
    <2>1. Inside(s) = s.branches BY <1>3 DEF Inside
    <2>2. Len(s.branches) \in Nat BY <1>3, StmtFacts
    <2> QED BY <1>3, <2>1, <2>2, StmtFacts
  <1>4. CASE s.stmt = "case"
    <2>1. Inside(s) = [i \in DOMAIN s.arms |-> s.arms[i].value] BY <1>4 DEF Inside
    <2>2. /\ Len(s.arms) \in Nat /\ DOMAIN s.arms = 1..Len(s.arms)
          /\ \A i \in DOMAIN s.arms : StmtPart(s.arms[i].value, s)
      BY <1>4, StmtFacts
    <2>3. Len(Inside(s)) = Len(s.arms) /\ DOMAIN Inside(s) = DOMAIN s.arms BY <2>1, <2>2
    <2> QED BY <1>4, <2>1, <2>2, <2>3
  <1> QED BY <1>1, <1>2, <1>3, <1>4, StmtFacts

LEMMA HwInsideFacts ==
    ASSUME NEW x \in HwStmt
    PROVE  /\ Len(HwInside(x)) \in Nat /\ DOMAIN HwInside(x) = 1..Len(HwInside(x))
           /\ \A i \in DOMAIN HwInside(x) : HwStmtPart(HwInside(x)[i], x)
           /\ x.stmt = "block" => HwInside(x) = x.body
           /\ x.stmt \in {"if", "case"} => HwInside(x) = x.branches
           /\ x.stmt = "set" => HwInside(x) = <<>>
  <1>1. CASE x.stmt = "set"
    <2>1. HwInside(x) = <<>> BY <1>1 DEF HwInside
    <2> QED BY <1>1, <2>1
  <1>2. CASE x.stmt = "block" BY <1>2, HwStmtFacts DEF HwInside
  <1>3. CASE x.stmt \in {"if", "case"} BY <1>3, HwStmtFacts DEF HwInside
  <1> QED BY <1>1, <1>2, <1>3, HwStmtFacts

\* What a statement sets and reads itself.
OwnWrites(s) == IF s.stmt = "set" THEN {s.target} ELSE {}
OwnReads(s) ==
    CASE s.stmt = "set" -> NamesIn(s.value)
      [] s.stmt = "do" -> {}
      [] s.stmt = "if" -> NamesIn(s.cond)
      [] s.stmt = "case" -> NamesIn(s.cond)
                              \cup UNION {NamesIn(s.arms[i].key) \ {"else"} : i \in DOMAIN s.arms}
HwOwnWrites(x, m) == IF x.stmt = "set" THEN {NameOf(x.target, m)} ELSE {}
HwOwnReads(x, m) ==
    CASE x.stmt = "set" -> Read(x.value, m)
      [] x.stmt = "block" -> {}
      [] x.stmt = "if" -> Read(x.cond, m)
      [] x.stmt = "case" -> Read(x.cond, m)
                              \cup MemberNames({key.member : key \in Range(x.keys)} \ {<<>>}, m)
\* With what those inside, by f, set and read.
AllOf(f, inside, writes, reads) ==
    [writes |-> writes \cup UNION {f[inside[i]].writes : i \in DOMAIN inside},
     reads |-> reads \cup UNION {f[inside[i]].reads : i \in DOMAIN inside}]

LEMMA WantedSteps ==
    ASSUME NEW s \in Stmt, NEW f
    PROVE  WantedStep(s, f) = AllOf(f, Inside(s), OwnWrites(s), OwnReads(s))
  <1>1. CASE s.stmt = "set"
    <2>1. DOMAIN Inside(s) = {} BY <1>1, InsideFacts
    <2>2. AllOf(f, Inside(s), OwnWrites(s), OwnReads(s)) = [writes |-> {s.target}, reads |-> NamesIn(s.value)]
      BY <1>1, <2>1 DEF AllOf, OwnWrites, OwnReads
    <2> QED BY <1>1, <2>2 DEF WantedStep
  <1>2. CASE s.stmt = "do"
    <2>1. OwnWrites(s) = {} /\ OwnReads(s) = {} /\ Inside(s) = s.body
      BY <1>2, InsideFacts DEF OwnWrites, OwnReads
    <2> QED BY <1>2, <2>1 DEF WantedStep, AllOf
  <1>3. CASE s.stmt = "if"
    <2>1. OwnWrites(s) = {} /\ OwnReads(s) = NamesIn(s.cond) /\ Inside(s) = s.branches
      BY <1>3, InsideFacts DEF OwnWrites, OwnReads
    <2> QED BY <1>3, <2>1 DEF WantedStep, AllOf
  <1>4. CASE s.stmt = "case"
    <2> DEFINE keys == UNION {NamesIn(s.arms[i].key) \ {"else"} : i \in DOMAIN s.arms}
               N == NamesIn(s.cond)
               I == [i \in DOMAIN s.arms |-> s.arms[i].value]
               U == UNION {f[I[i]].writes : i \in DOMAIN I}
               R == UNION {f[I[i]].reads : i \in DOMAIN I}
    <2>1. OwnWrites(s) = {} /\ OwnReads(s) = N \cup keys /\ Inside(s) = I
      BY <1>4, InsideFacts DEF OwnWrites, OwnReads
    <2>2. WantedStep(s, f) = [[writes |-> U, reads |-> R] EXCEPT !.reads = @ \cup (N \cup keys)]
      BY <1>4 DEF WantedStep
    <2> HIDE DEF keys, I, N
    <2>3. AllOf(f, Inside(s), OwnWrites(s), OwnReads(s)) = [writes |-> {} \cup U, reads |-> (N \cup keys) \cup R]
      BY <2>1 DEF AllOf
    <2> HIDE DEF U, R
    <2>4. {} \cup U = U /\ (N \cup keys) \cup R = R \cup (N \cup keys) OBVIOUS
    <2> QED BY <2>2, <2>3, <2>4
  <1> QED BY <1>1, <1>2, <1>3, <1>4, StmtFacts

LEMMA TextSteps ==
    ASSUME NEW x \in HwStmt, NEW m, NEW f
    PROVE  StmtTextStep(x, m, f) = AllOf(f, HwInside(x), HwOwnWrites(x, m), HwOwnReads(x, m))
  <1>1. CASE x.stmt = "set"
    <2>1. DOMAIN HwInside(x) = {} BY <1>1, HwInsideFacts
    <2>2. AllOf(f, HwInside(x), HwOwnWrites(x, m), HwOwnReads(x, m))
            = [writes |-> {NameOf(x.target, m)}, reads |-> Read(x.value, m)]
      BY <1>1, <2>1 DEF AllOf, HwOwnWrites, HwOwnReads
    <2> QED BY <1>1, <2>2 DEF StmtTextStep
  <1>2. CASE x.stmt = "block"
    <2>1. HwOwnWrites(x, m) = {} /\ HwOwnReads(x, m) = {} /\ HwInside(x) = x.body
      BY <1>2, HwInsideFacts DEF HwOwnWrites, HwOwnReads
    <2> QED BY <1>2, <2>1 DEF StmtTextStep, AllOf
  <1>3. CASE x.stmt = "if"
    <2>1. HwOwnWrites(x, m) = {} /\ HwOwnReads(x, m) = Read(x.cond, m) /\ HwInside(x) = x.branches
      BY <1>3, HwInsideFacts DEF HwOwnWrites, HwOwnReads
    <2> QED BY <1>3, <2>1 DEF StmtTextStep, AllOf
  <1>4. CASE x.stmt = "case"
    <2> DEFINE keys == MemberNames({key.member : key \in Range(x.keys)} \ {<<>>}, m)
               old == {m.enums[id[1]].names[id[2]] :
                              id \in {x.keys[i].member : i \in DOMAIN x.keys} \ {<<>>}}
               N == Read(x.cond, m)
    <2>1. /\ HwOwnWrites(x, m) = {} /\ HwOwnReads(x, m) = N \cup keys /\ HwInside(x) = x.branches
      BY <1>4, HwInsideFacts DEF HwOwnWrites, HwOwnReads
    <2>2. keys = old
      <3>1. {key.member : key \in Range(x.keys)} = {x.keys[i].member : i \in DOMAIN x.keys}
        BY DEF Range
      <3> QED BY <3>1 DEF MemberNames
    <2>3. StmtTextStep(x, m, f) = [[writes |-> UNION {f[x.branches[i]].writes : i \in DOMAIN x.branches},
                                    reads |-> UNION {f[x.branches[i]].reads : i \in DOMAIN x.branches}]
                                    EXCEPT !.reads = @ \cup (N \cup old)]
      BY <1>4 DEF StmtTextStep
    <2> DEFINE U == UNION {f[x.branches[i]].writes : i \in DOMAIN x.branches}
               R == UNION {f[x.branches[i]].reads : i \in DOMAIN x.branches}
    <2> HIDE DEF keys, old, N
    <2>4. AllOf(f, HwInside(x), HwOwnWrites(x, m), HwOwnReads(x, m))
            = [writes |-> {} \cup U, reads |-> (N \cup keys) \cup R]
      BY <2>1 DEF AllOf
    <2>5. StmtTextStep(x, m, f) = [[writes |-> U, reads |-> R] EXCEPT !.reads = @ \cup (N \cup old)]
      BY <2>3
    <2> HIDE DEF U, R
    <2>6. {} \cup U = U /\ (N \cup keys) \cup R = R \cup (N \cup old) BY <2>2
    <2> QED BY <2>4, <2>5, <2>6
  <1> QED BY <1>1, <1>2, <1>3, <1>4, HwStmtFacts

-----------------------------------------------------------------------------
(* The ways through a sequence of statements *)

Joined(ps, qs) == {p \o q : p \in ps, q \in qs}

LEMMA JoinedFacts ==
    ASSUME NEW ps, NEW qs, NEW x
    PROVE  x \in Joined(ps, qs) <=> \E p \in ps, q \in qs : x = p \o q
  BY DEF Joined

LEMMA JoinedPaths ==
    ASSUME NEW A, NEW ps \in SUBSET Seq(A), NEW qs \in SUBSET Seq(A)
    PROVE  Joined(ps, qs) \in SUBSET Seq(A)
  <1>1. \A p, q \in Seq(A) : p \o q \in Seq(A) OBVIOUS
  <1>2. ASSUME NEW x \in Joined(ps, qs) PROVE x \in Seq(A)
    <2> PICK p \in ps, q \in qs : x = p \o q BY <1>2, JoinedFacts
    <2>1. p \in Seq(A) /\ q \in Seq(A) OBVIOUS
    <2> QED BY <1>1, <2>1
  <1> QED BY <1>2

\* The ways through the first n statements of a sequence, for every n.
WaysTo(t, body, paths, A) ==
    /\ t \in [0..Len(body) -> SUBSET Seq(A)]
    /\ t[0] = {<<>>}
    /\ \A n \in 1..Len(body) : t[n] = Joined(t[n - 1], paths[body[n]])
HasPaths(body, paths, A) ==
    Len(body) \in Nat /\ \A i \in 1..Len(body) : paths[body[i]] \in SUBSET Seq(A)

LEMMA ThroughUnfold ==
    ASSUME NEW A, NEW body, NEW paths, HasPaths(body, paths, A)
    PROVE  \E t : WaysTo(t, body, paths, A) /\ PathsThrough(body, paths) = t[Len(body)]
  <1>0. Len(body) \in Nat /\ \A i \in 1..Len(body) : paths[body[i]] \in SUBSET Seq(A) BY DEF HasPaths
  <1> DEFINE n == Len(body)
             V == SUBSET Seq(A)
             more(i, ps) == Joined(ps, paths[body[i]])
             step(f) == [k \in 0..n |-> IF k = 0 THEN {<<>>} ELSE more(k, f[k - 1])]
             t == CHOOSE f : f = step(f)
             H == [i \in 1..n |-> [ps \in V |-> more(i, ps)]]
  <1>1. PathsThrough(body, paths) = t[n] BY DEF PathsThrough, Joined
  <1>2. {<<>>} \in V OBVIOUS
  <1>3. \A i \in 1..n : \A ps \in V : more(i, ps) \in V /\ H[i][ps] = more(i, ps)
    <2> SUFFICES ASSUME NEW i \in 1..n, NEW ps \in V PROVE more(i, ps) \in V
      OBVIOUS
    <2>1. ps \in SUBSET Seq(A) /\ paths[body[i]] \in SUBSET Seq(A) BY <1>0
    <2> HIDE DEF V
    <2>2. more(i, ps) \in SUBSET Seq(A) BY <2>1, JoinedPaths
    <2> QED BY <2>2 DEF V
  <1> HIDE DEF more, V
  <1>4. H \in [1..n -> [V -> V]] BY <1>3
  <1> HIDE DEF H
  <1>5. \A f \in [0..n -> V] : StepsFrom(f, {<<>>}, H, n) => Unfolds(t, {<<>>}, H, n, V)
    <2> SUFFICES ASSUME NEW f \in [0..n -> V], StepsFrom(f, {<<>>}, H, n)
                 PROVE  Unfolds(t, {<<>>}, H, n, V)
      OBVIOUS
    <2>1. \A k \in 1..n : k - 1 \in 0..n /\ f[k - 1] \in V BY <1>0
    <2>2. \A k \in 1..n : f[k] = more(k, f[k - 1])
      <3> SUFFICES ASSUME NEW k \in 1..n PROVE f[k] = more(k, f[k - 1])
        OBVIOUS
      <3>1. f[k - 1] \in V BY <2>1
      <3>2. f[k] = H[k][f[k - 1]] BY DEF StepsFrom
      <3> QED BY <1>3, <3>1, <3>2
    <2>3. \A k \in 0..n : f[k] = IF k = 0 THEN {<<>>} ELSE more(k, f[k - 1])
      BY <2>2 DEF StepsFrom
    <2>4. f = step(f) BY <2>3
    <2>5. t = step(t)
      <3> HIDE DEF step
      <3> QED BY <2>4
    <2> HIDE DEF t
    <2>6. t[0] = {<<>>} BY <2>5
    <2>7. \A k \in 1..n : t[k] = more(k, t[k - 1])
      <3>1. \A k \in 1..n : k \in 0..n /\ k # 0 BY <1>0
      <3> QED BY <2>5, <3>1
    <2> QED BY <1>3, <2>6, <2>7 DEF Unfolds
  <1>6. /\ t[0] = {<<>>} /\ \A k \in 0..n : t[k] \in V
        /\ \A i \in 1..n : t[i] = H[i][t[i - 1]]
    <2> HIDE DEF t
    <2> QED BY <1>0, <1>2, <1>4, <1>5, StepsSolved
  <1> DEFINE u == [k \in 0..n |-> t[k]]
  <1> HIDE DEF t
  <1>7. u \in [0..n -> V] /\ u[0] = {<<>>} /\ PathsThrough(body, paths) = u[n] BY <1>0, <1>1, <1>6
  <1>8. \A k \in 0..n : u[k] = t[k] OBVIOUS
  <1> HIDE DEF u
  <1>9. \A i \in 1..n : u[i] = more(i, u[i - 1])
    <2> SUFFICES ASSUME NEW i \in 1..n PROVE u[i] = more(i, u[i - 1])
      OBVIOUS
    <2>1. i \in 0..n /\ i - 1 \in 0..n BY <1>0
    <2>2. u[i] = H[i][u[i - 1]] BY <1>6, <1>8, <2>1
    <2>3. u[i - 1] \in V BY <1>7, <2>1
    <2> QED BY <1>3, <2>2, <2>3
  <1>10. u \in [0..n -> V] /\ u[0] = {<<>>} /\ PathsThrough(body, paths) = u[n]
         /\ \A i \in 1..n : u[i] = more(i, u[i - 1])
    BY <1>7, <1>9
  <1>11. WaysTo(u, body, paths, A) BY <1>10 DEF V, more, WaysTo
  <1> QED BY <1>10, <1>11

LEMMA ThroughLooksAtBody ==
    ASSUME NEW body, Len(body) \in Nat, NEW f, NEW g,
           \A i \in 1..Len(body) : f[body[i]] = g[body[i]]
    PROVE  PathsThrough(body, f) = PathsThrough(body, g)
  <1> DEFINE step(h, t) == [n \in 0..Len(body) |->
                              IF n = 0 THEN {<<>>} ELSE Joined(t[n - 1], h[body[n]])]
  <1>1. \A t : step(f, t) = step(g, t)
    <2> TAKE t
    <2>1. \A n \in 0..Len(body) : n # 0 => f[body[n]] = g[body[n]] OBVIOUS
    <2>2. \A n \in 0..Len(body) : n # 0 => Joined(t[n - 1], f[body[n]]) = Joined(t[n - 1], g[body[n]])
      BY <2>1
    <2> QED BY <2>2
  <1>2. \A h : PathsThrough(body, h) = (CHOOSE t : t = step(h, t))[Len(body)]
    BY DEF PathsThrough, Joined
  <1> HIDE DEF step
  <1>3. (CHOOSE t : t = step(f, t)) = (CHOOSE t : t = step(g, t)) BY <1>1
  <1> QED BY <1>2, <1>3

-----------------------------------------------------------------------------
(* What statements set and read, and their ways through *)

\* The parts of everything are below it.
InsideBelow(S, rank, inside) ==
    /\ rank \in [S -> Nat]
    /\ \A x \in S : \A i \in DOMAIN inside[x] : inside[x][i] \in S /\ rank[inside[x][i]] < rank[x]
\* g solves the equations of AllOf if something does.
SolvesAll(g, S, inside, writes, reads) ==
    \A V : \A f \in [S -> V] :
       (\A x \in S : f[x] = AllOf(f, inside[x], writes[x], reads[x]))
          => \A x \in S : g[x] = AllOf(g, inside[x], writes[x], reads[x])

LEMMA AllOfSolved ==
    ASSUME NEW S, NEW rank, NEW inside, NEW writes, NEW reads, NEW g,
           InsideBelow(S, rank, inside), SolvesAll(g, S, inside, writes, reads)
    PROVE  \A x \in S : g[x] = AllOf(g, inside[x], writes[x], reads[x])
  <1>0. /\ rank \in [S -> Nat]
        /\ \A x \in S : \A i \in DOMAIN inside[x] : inside[x][i] \in S /\ rank[inside[x][i]] < rank[x]
    BY DEF InsideBelow
  <1> DEFINE A == UNION {writes[x] \cup reads[x] : x \in S}
             step(x, f) == AllOf(f, inside[x], writes[x], reads[x])
             V == [writes : SUBSET A, reads : SUBSET A]
             F == [S -> V] \cup {g}
             H == [x \in S |-> [f \in F |-> step(x, f)]]
             W == [x \in S |-> V]
  <1>1. \A x \in S : \A f, h : (\A y \in S : rank[y] < rank[x] => f[y] = h[y])
                                    => step(x, f) = step(x, h)
    <2> TAKE x \in S
    <2> TAKE f, h
    <2> HAVE \A y \in S : rank[y] < rank[x] => f[y] = h[y]
    <2>1. \A i \in DOMAIN inside[x] : f[inside[x][i]] = h[inside[x][i]] BY <1>0
    <2>2. UNION {f[inside[x][i]].writes : i \in DOMAIN inside[x]}
            = UNION {h[inside[x][i]].writes : i \in DOMAIN inside[x]}
      BY <2>1
    <2>3. UNION {f[inside[x][i]].reads : i \in DOMAIN inside[x]}
            = UNION {h[inside[x][i]].reads : i \in DOMAIN inside[x]}
      BY <2>1
    <2> QED BY <2>2, <2>3, Zenon DEF AllOf
  <1>2. \A x \in S : \A f \in [S -> V] :
           (\A y \in S : rank[y] < rank[x] => f[y] \in W[y]) => step(x, f) \in W[x]
    <2> TAKE x \in S
    <2> TAKE f \in [S -> V]
    <2> HAVE \A y \in S : rank[y] < rank[x] => f[y] \in W[y]
    <2>1. \A i \in DOMAIN inside[x] : f[inside[x][i]] \in [writes : SUBSET A, reads : SUBSET A]
      BY <1>0
    <2>2. writes[x] \in SUBSET A /\ reads[x] \in SUBSET A OBVIOUS
    <2> HIDE DEF A
    <2>3. writes[x] \cup UNION {f[inside[x][i]].writes : i \in DOMAIN inside[x]} \in SUBSET A
      BY <2>1, <2>2
    <2>4. reads[x] \cup UNION {f[inside[x][i]].reads : i \in DOMAIN inside[x]} \in SUBSET A
      BY <2>1, <2>2
    <2> QED BY <2>3, <2>4 DEF AllOf
  <1>w. W \in [S -> SUBSET V]
    OBVIOUS
  <1> HIDE DEF step, V, W
  <1>4. \A x \in S : \A f \in F : H[x][f] = step(x, f) OBVIOUS
  <1>5. \A f \in [S -> V] : (\A x \in S : f[x] = step(x, f))
                                 => \A x \in S : g[x] = step(x, g)
    BY DEF step, SolvesAll
  <1>6. [S -> V] \subseteq F /\ g \in F OBVIOUS
  <1>8. rank \in [S -> Nat] BY <1>0
  <1> HIDE DEF H
  <1>10. LooksAtParts(H, S, F, rank)
    <2> SUFFICES ASSUME NEW x \in S, NEW f \in F, NEW h \in F,
                        \A y \in S : rank[y] < rank[x] => f[y] = h[y]
                 PROVE  H[x][f] = H[x][h]
      BY DEF LooksAtParts
    <2>1. step(x, f) = step(x, h) BY <1>1
    <2>2. H[x][f] = step(x, f) /\ H[x][h] = step(x, h) BY <1>4
    <2> QED BY <2>1, <2>2
  <1> HIDE DEF F
  <1>11. KeepsTypes(H, S, V, W, rank)
    <2>1. \A x \in S : \A f \in [S -> V] : H[x][f] = step(x, f) BY <1>4, <1>6
    <2> QED BY <1>2, <2>1 DEF KeepsTypes
  <1>12. Recursion(g, H, S, V, W, rank)
    <2>1. V # {}
      <3>1. [writes |-> {}, reads |-> {}] \in V BY DEF V
      <3> QED BY <3>1
    <2>2. \A f \in [S -> V] : (\A x \in S : f[x] = H[x][f])
                                   => \A x \in S : g[x] = H[x][g]
      BY <1>4, <1>5, <1>6
    <2>3. LooksAtParts(H, S, [S -> V] \cup {g}, rank) BY <1>10 DEF F
    <2> QED BY <1>8, <1>w, <1>11, <2>1, <2>2, <2>3 DEF Recursion
  <1>13. \A x \in S : g[x] = step(x, g) /\ g[x] \in W[x]
    BY <1>4, <1>6, <1>12, SolutionIsTyped DEF Solved
  <1> QED BY <1>13 DEF step

LEMMA WantedUnfold ==
    \A s \in Stmt : Wanted(s) = [writes |-> OwnWrites(s) \cup UNION {Wanted(Inside(s)[i]).writes : i \in DOMAIN Inside(s)},
                                 reads |-> OwnReads(s) \cup UNION {Wanted(Inside(s)[i]).reads : i \in DOMAIN Inside(s)}]
  <1> DEFINE g == CHOOSE f : f = [x \in Stmt |-> WantedStep(x, f)]
             inside == [x \in Stmt |-> Inside(x)]
             writes == [x \in Stmt |-> OwnWrites(x)]
             reads == [x \in Stmt |-> OwnReads(x)]
             body(f) == [x \in Stmt |-> AllOf(f, inside[x], writes[x], reads[x])]
  <1>1. \A s : Wanted(s) = g[s] BY DEF Wanted
  <1>2. \A f : [x \in Stmt |-> WantedStep(x, f)] = body(f)
    <2>1. \A f : \A x \in Stmt : WantedStep(x, f) = AllOf(f, inside[x], writes[x], reads[x])
      BY WantedSteps
    <2> QED BY <2>1
  <1>3. SolvesAll(g, Stmt, inside, writes, reads)
    <2> USE DEF SolvesAll
    <2> TAKE V
    <2> TAKE f \in [Stmt -> V]
    <2> HAVE \A x \in Stmt : f[x] = AllOf(f, inside[x], writes[x], reads[x])
    <2> HIDE DEF inside, writes, reads
    <2>1. f = body(f) OBVIOUS
    <2>2. g = CHOOSE h : h = body(h) BY <1>2
    <2>3. g = body(g)
      <3> HIDE DEF g, body
      <3> QED BY <2>1, <2>2
    <2> HIDE DEF g
    <2> QED BY <2>3
  <1> HIDE DEF g
  <1>5. StmtRank \in [Stmt -> Nat]
    <2>1. \A x \in Stmt : StmtRank[x] \in Nat BY StmtFacts
    <2> QED BY <2>1, StmtTree DEF IsTree
  <1>4. InsideBelow(Stmt, StmtRank, inside)
    <2>1. \A x \in Stmt : \A i \in DOMAIN inside[x] :
             inside[x][i] \in Stmt /\ StmtRank[inside[x][i]] < StmtRank[x]
      BY InsideFacts DEF StmtPart
    <2> QED BY <1>5, <2>1 DEF InsideBelow
  <1>6. \A x \in Stmt : inside[x] = Inside(x) /\ writes[x] = OwnWrites(x) /\ reads[x] = OwnReads(x)
    OBVIOUS
  <1> HIDE DEF inside, writes, reads
  <1>7. \A x \in Stmt : g[x] = AllOf(g, inside[x], writes[x], reads[x])
    BY <1>3, <1>4, AllOfSolved
  <1>8. \A x \in Stmt : g[x] = AllOf(g, Inside(x), OwnWrites(x), OwnReads(x)) BY <1>6, <1>7
  <1>9. \A s \in Stmt :
           /\ {Wanted(Inside(s)[i]).writes : i \in DOMAIN Inside(s)} = {g[Inside(s)[i]].writes : i \in DOMAIN Inside(s)}
           /\ {Wanted(Inside(s)[i]).reads : i \in DOMAIN Inside(s)} = {g[Inside(s)[i]].reads : i \in DOMAIN Inside(s)}
    BY <1>1
  <1> QED BY <1>1, <1>8, <1>9, Zenon DEF AllOf

LEMMA TextUnfold ==
    ASSUME NEW m
    PROVE  \A s \in HwStmt :
      StmtText(s, m) =
        [writes |-> HwOwnWrites(s, m) \cup UNION {StmtText(HwInside(s)[i], m).writes : i \in DOMAIN HwInside(s)},
         reads |-> HwOwnReads(s, m) \cup UNION {StmtText(HwInside(s)[i], m).reads : i \in DOMAIN HwInside(s)}]
  <1> DEFINE g == CHOOSE f : f = [x \in HwStmt |-> StmtTextStep(x, m, f)]
             inside == [x \in HwStmt |-> HwInside(x)]
             writes == [x \in HwStmt |-> HwOwnWrites(x, m)]
             reads == [x \in HwStmt |-> HwOwnReads(x, m)]
             body(f) == [x \in HwStmt |-> AllOf(f, inside[x], writes[x], reads[x])]
  <1>1. \A s : StmtText(s, m) = g[s] BY DEF StmtText
  <1>2. \A f : [x \in HwStmt |-> StmtTextStep(x, m, f)] = body(f)
    <2>1. \A f : \A x \in HwStmt : StmtTextStep(x, m, f) = AllOf(f, inside[x], writes[x], reads[x])
      BY TextSteps
    <2> QED BY <2>1
  <1>3. SolvesAll(g, HwStmt, inside, writes, reads)
    <2> USE DEF SolvesAll
    <2> TAKE V
    <2> TAKE f \in [HwStmt -> V]
    <2> HAVE \A x \in HwStmt : f[x] = AllOf(f, inside[x], writes[x], reads[x])
    <2> HIDE DEF inside, writes, reads
    <2>1. f = body(f) OBVIOUS
    <2>2. g = CHOOSE h : h = body(h) BY <1>2
    <2>3. g = body(g)
      <3> HIDE DEF g, body
      <3> QED BY <2>1, <2>2
    <2> HIDE DEF g
    <2> QED BY <2>3
  <1> HIDE DEF g
  <1>5. HwStmtRank \in [HwStmt -> Nat]
    <2>1. \A x \in HwStmt : HwStmtRank[x] \in Nat BY HwStmtFacts
    <2> QED BY <2>1, HwStmtTree DEF IsTree
  <1>4. InsideBelow(HwStmt, HwStmtRank, inside)
    <2>1. \A x \in HwStmt : \A i \in DOMAIN inside[x] :
             inside[x][i] \in HwStmt /\ HwStmtRank[inside[x][i]] < HwStmtRank[x]
      BY HwInsideFacts DEF HwStmtPart
    <2> QED BY <1>5, <2>1 DEF InsideBelow
  <1>6. \A x \in HwStmt : inside[x] = HwInside(x) /\ writes[x] = HwOwnWrites(x, m)
                          /\ reads[x] = HwOwnReads(x, m)
    OBVIOUS
  <1> HIDE DEF inside, writes, reads
  <1>7. \A x \in HwStmt : g[x] = AllOf(g, inside[x], writes[x], reads[x])
    BY <1>3, <1>4, AllOfSolved
  <1>8. \A x \in HwStmt : g[x] = AllOf(g, HwInside(x), HwOwnWrites(x, m), HwOwnReads(x, m)) BY <1>6, <1>7
  <1>9. \A s \in HwStmt :
           /\ {StmtText(HwInside(s)[i], m).writes : i \in DOMAIN HwInside(s)} = {g[HwInside(s)[i]].writes : i \in DOMAIN HwInside(s)}
           /\ {StmtText(HwInside(s)[i], m).reads : i \in DOMAIN HwInside(s)} = {g[HwInside(s)[i]].reads : i \in DOMAIN HwInside(s)}
    BY <1>1
  <1> QED BY <1>1, <1>8, <1>9, Zenon DEF AllOf


\* Whether an `if` or `case-do` may do nothing.
Skips(s) == IF s.stmt = "if" THEN Len(s.branches) = 1 ELSE ~IsElse(Last(s.arms).key)
Nothing(s) == IF Skips(s) THEN {<<>>} ELSE {}

LEMMA PathsSteps ==
    ASSUME NEW s \in Stmt, NEW f
    PROVE  /\ s.stmt = "set" => PathsStep(s, f) = {<<s.target>>}
           /\ s.stmt = "do" => PathsStep(s, f) = PathsThrough(Inside(s), f)
           /\ s.stmt \in {"if", "case"} =>
                 PathsStep(s, f) = (UNION {f[Inside(s)[i]] : i \in DOMAIN Inside(s)}) \cup Nothing(s)
  <1>1. s.stmt = "set" => PathsStep(s, f) = {<<s.target>>} BY DEF PathsStep
  <1>2. s.stmt = "do" => PathsStep(s, f) = PathsThrough(Inside(s), f) BY DEF PathsStep, Inside
  <1>3. ASSUME s.stmt = "if"
        PROVE PathsStep(s, f) = (UNION {f[Inside(s)[i]] : i \in DOMAIN Inside(s)}) \cup Nothing(s)
    <2>1. Inside(s) = s.branches BY <1>3 DEF Inside
    <2> QED BY <1>3, <2>1, Zenon DEF PathsStep, Nothing, Skips
  <1>4. ASSUME s.stmt = "case"
        PROVE PathsStep(s, f) = (UNION {f[Inside(s)[i]] : i \in DOMAIN Inside(s)}) \cup Nothing(s)
    <2>1. DOMAIN Inside(s) = DOMAIN s.arms /\ \A i \in DOMAIN s.arms : Inside(s)[i] = s.arms[i].value
      BY <1>4, InsideFacts
    <2>2. {f[Inside(s)[i]] : i \in DOMAIN Inside(s)} = {f[s.arms[i].value] : i \in DOMAIN s.arms}
      BY <2>1
    <2>3. PathsStep(s, f) = (UNION {f[s.arms[i].value] : i \in DOMAIN s.arms})
                              \cup (IF IsElse(Last(s.arms).key) THEN {} ELSE {<<>>})
      BY <1>4 DEF PathsStep
    <2>4. Nothing(s) = IF IsElse(Last(s.arms).key) THEN {} ELSE {<<>>}
      BY <1>4 DEF Nothing, Skips
    <2> QED BY <2>2, <2>3, <2>4
  <1> QED BY <1>1, <1>2, <1>3, <1>4

WaysThrough(t, body) ==
    /\ t \in [0..Len(body) -> SUBSET Seq(Names)]
    /\ t[0] = {<<>>}
    /\ \A n \in 1..Len(body) : t[n] = Joined(t[n - 1], Paths(body[n]))

LEMMA PathsUnfold ==
    \A s \in Stmt :
       /\ Paths(s) \in SUBSET Seq(Names)
       /\ s.stmt = "set" => Paths(s) = {<<s.target>>}
       /\ s.stmt = "do" => \E t : WaysThrough(t, Inside(s)) /\ Paths(s) = t[Len(Inside(s))]
       /\ s.stmt \in {"if", "case"} =>
             Paths(s) = (UNION {Paths(Inside(s)[i]) : i \in DOMAIN Inside(s)}) \cup Nothing(s)
  <1> DEFINE step(x, f) == PathsStep(x, f)
             body(f) == [x \in Stmt |-> step(x, f)]
             paths == CHOOSE f : f = body(f)
             V == SUBSET Seq(Names)
             F == [Stmt -> V] \cup {paths}
             H == [x \in Stmt |-> [f \in F |-> step(x, f)]]
             W == [x \in Stmt |-> SUBSET Seq(Names)]
  <1>1. \A x \in Stmt : \A f, g : (\A y \in Stmt : StmtRank[y] < StmtRank[x] => f[y] = g[y])
                                    => step(x, f) = step(x, g)
    <2> TAKE x \in Stmt
    <2> TAKE f, g
    <2> HAVE \A y \in Stmt : StmtRank[y] < StmtRank[x] => f[y] = g[y]
    <2>1. \A i \in DOMAIN Inside(x) : f[Inside(x)[i]] = g[Inside(x)[i]] BY InsideFacts DEF StmtPart
    <2>2. Len(Inside(x)) \in Nat /\ DOMAIN Inside(x) = 1..Len(Inside(x)) BY InsideFacts
    <2>3. PathsThrough(Inside(x), f) = PathsThrough(Inside(x), g) BY <2>1, <2>2, ThroughLooksAtBody
    <2>4. {f[Inside(x)[i]] : i \in DOMAIN Inside(x)} = {g[Inside(x)[i]] : i \in DOMAIN Inside(x)}
      BY <2>1
    <2> QED BY <2>3, <2>4, PathsSteps, StmtFacts
  <1>2. \A x \in Stmt : \A f \in [Stmt -> V] :
           (\A y \in Stmt : StmtRank[y] < StmtRank[x] => f[y] \in W[y]) => step(x, f) \in W[x]
    <2> TAKE x \in Stmt
    <2> TAKE f \in [Stmt -> V]
    <2> HAVE \A y \in Stmt : StmtRank[y] < StmtRank[x] => f[y] \in W[y]
    <2>1. \A i \in DOMAIN Inside(x) : f[Inside(x)[i]] \in SUBSET Seq(Names)
      BY InsideFacts DEF StmtPart
    <2>2. Len(Inside(x)) \in Nat /\ DOMAIN Inside(x) = 1..Len(Inside(x)) BY InsideFacts
    <2>3. CASE x.stmt = "set"
      <3>1. <<x.target>> \in Seq(Names) BY <2>3, StmtFacts
      <3> QED BY <2>3, <3>1, PathsSteps
    <2>4. CASE x.stmt = "do"
      <3> DEFINE b == Inside(x)
      <3>0. HasPaths(b, f, Names) BY <2>1, <2>2 DEF HasPaths
      <3> HIDE DEF b, V, W
      <3>1. PICK t : WaysTo(t, b, f, Names) /\ PathsThrough(b, f) = t[Len(b)] BY <3>0, ThroughUnfold
      <3>2. PathsThrough(b, f) \in SUBSET Seq(Names)
        <4>1. Len(b) \in 0..Len(b) BY <2>2 DEF b
        <4> QED BY <3>1, <4>1 DEF WaysTo
      <3> QED BY <2>4, <3>2, PathsSteps DEF b, V, W
    <2>5. CASE x.stmt \in {"if", "case"}
      <3>1. UNION {f[Inside(x)[i]] : i \in DOMAIN Inside(x)} \in SUBSET Seq(Names) BY <2>1
      <3>2. Nothing(x) \in SUBSET Seq(Names) BY DEF Nothing
      <3> QED BY <2>5, <3>1, <3>2, PathsSteps
    <2> QED BY <2>3, <2>4, <2>5, StmtFacts
  <1>3. \A s : Paths(s) = paths[s]
    BY DEF Paths
  <1>w. W \in [Stmt -> SUBSET V]
    OBVIOUS
  <1>x. \A x \in Stmt : W[x] = SUBSET Seq(Names) OBVIOUS
  <1> HIDE DEF step, V, W
  <1>4. \A x \in Stmt : \A f \in F : H[x][f] = step(x, f) OBVIOUS
  <1>5. \A f \in [Stmt -> V] : (\A x \in Stmt : f[x] = step(x, f))
                                 => \A x \in Stmt : paths[x] = step(x, paths)
    <2> TAKE f \in [Stmt -> V]
    <2> HAVE \A x \in Stmt : f[x] = step(x, f)
    <2>1. f = body(f) OBVIOUS
    <2>2. paths = body(paths)
      <3> HIDE DEF body
      <3> QED BY <2>1
    <2> HIDE DEF paths
    <2> QED BY <2>2
  <1>6. [Stmt -> V] \subseteq F /\ paths \in F OBVIOUS
  <1>7. \A x \in Stmt : StmtRank[x] \in Nat BY StmtFacts
  <1>8. StmtRank \in [Stmt -> Nat]
    <2>1. StmtRank \in [Stmt -> 1..Depth] BY StmtTree DEF IsTree
    <2> QED BY <2>1
  <1> HIDE DEF H, paths
  <1>10. LooksAtParts(H, Stmt, F, StmtRank)
    <2> SUFFICES ASSUME NEW x \in Stmt, NEW f \in F, NEW g \in F,
                        \A y \in Stmt : StmtRank[y] < StmtRank[x] => f[y] = g[y]
                 PROVE  H[x][f] = H[x][g]
      BY DEF LooksAtParts
    <2>1. step(x, f) = step(x, g) BY <1>1
    <2> QED BY <1>4, <2>1
  <1> HIDE DEF F
  <1>11. KeepsTypes(H, Stmt, V, W, StmtRank)
    <2>1. \A x \in Stmt : \A f \in [Stmt -> V] : H[x][f] = step(x, f) BY <1>4, <1>6
    <2> QED BY <1>2, <2>1 DEF KeepsTypes
  <1>12. Recursion(paths, H, Stmt, V, W, StmtRank)
    <2>1. V # {} BY DEF V
    <2>2. \A f \in [Stmt -> V] : (\A x \in Stmt : f[x] = H[x][f])
                                   => \A x \in Stmt : paths[x] = H[x][paths]
      BY <1>4, <1>5, <1>6
    <2>3. LooksAtParts(H, Stmt, [Stmt -> V] \cup {paths}, StmtRank) BY <1>10 DEF F
    <2> QED BY <1>8, <1>w, <1>11, <2>1, <2>2, <2>3 DEF Recursion
  <1>13. \A x \in Stmt : paths[x] = step(x, paths) /\ paths[x] \in W[x]
    BY <1>4, <1>6, <1>12, SolutionIsTyped DEF Solved
  <1>14. \A x \in Stmt : paths[x] = PathsStep(x, paths) /\ paths[x] \in SUBSET Seq(Names)
    BY <1>13, <1>x DEF step
  <1> SUFFICES ASSUME NEW s \in Stmt
               PROVE  /\ Paths(s) \in SUBSET Seq(Names)
                      /\ s.stmt = "set" => Paths(s) = {<<s.target>>}
                      /\ s.stmt = "do" => \E t : WaysThrough(t, Inside(s)) /\ Paths(s) = t[Len(Inside(s))]
                      /\ s.stmt \in {"if", "case"} =>
                            Paths(s) = (UNION {Paths(Inside(s)[i]) : i \in DOMAIN Inside(s)}) \cup Nothing(s)
    OBVIOUS
  <1>15. Paths(s) = PathsStep(s, paths) /\ Paths(s) \in SUBSET Seq(Names) BY <1>3, <1>14
  <1>16. s.stmt = "set" => Paths(s) = {<<s.target>>} BY <1>15, PathsSteps
  <1>17. ASSUME s.stmt = "do"
         PROVE  \E t : WaysThrough(t, Inside(s)) /\ Paths(s) = t[Len(Inside(s))]
    <2>1. HasPaths(Inside(s), paths, Names)
      BY <1>14, InsideFacts DEF StmtPart, HasPaths
    <2>2. Paths(s) = PathsThrough(Inside(s), paths) BY <1>15, <1>17, PathsSteps
    <2>3. \A n : paths[Inside(s)[n]] = Paths(Inside(s)[n]) BY <1>3
    <2>4. PICK t : WaysTo(t, Inside(s), paths, Names) /\ PathsThrough(Inside(s), paths) = t[Len(Inside(s))]
      BY <2>1, ThroughUnfold
    <2>5. WaysThrough(t, Inside(s)) BY <2>3, <2>4 DEF WaysTo, WaysThrough
    <2> QED BY <2>2, <2>4, <2>5
  <1>18. ASSUME s.stmt \in {"if", "case"}
         PROVE  Paths(s) = (UNION {Paths(Inside(s)[i]) : i \in DOMAIN Inside(s)}) \cup Nothing(s)
    <2>1. {Paths(Inside(s)[i]) : i \in DOMAIN Inside(s)} = {paths[Inside(s)[i]] : i \in DOMAIN Inside(s)}
      BY <1>3
    <2> QED BY <1>15, <1>18, <2>1, PathsSteps
  <1> QED BY <1>15, <1>16, <1>17, <1>18

-----------------------------------------------------------------------------
(* verify_stmt *)

\* What verify_stmt may say: the registers updated, or an error.
Updates == [updates : SUBSET Nat]
Outcomes == Updates \cup Errors

LEMMA OutcomeFacts ==
    \A r \in Outcomes : /\ ~IsError(r) => r.updates \in SUBSET Nat /\ r = [updates |-> r.updates]
                        /\ IsError(r) => r \in Errors
  <1>1. \A r \in Updates : ~IsError(r) /\ r.updates \in SUBSET Nat /\ r = [updates |-> r.updates]
    BY DEF Updates, IsError
  <1> QED BY <1>1, ErrorFacts DEF Outcomes

\* The outcomes of the first n statements of a sequence, for every n.
OutcomesTo(a, body, before, verify) ==
    /\ a \in [0..Len(body) -> Outcomes]
    /\ a[0] = [updates |-> before]
    /\ \A n \in 1..Len(body) :
          a[n] = IF IsError(a[n - 1]) THEN a[n - 1] ELSE verify[body[n]][a[n - 1].updates]
Verifies(verify, body) ==
    Len(body) \in Nat /\ \A i \in 1..Len(body) : verify[body[i]] \in [SUBSET Nat -> Outcomes]

LEMMA SequenceUnfold ==
    ASSUME NEW body, NEW before \in SUBSET Nat, NEW verify, Verifies(verify, body)
    PROVE  \E a : OutcomesTo(a, body, before, verify) /\ VerifySequence(body, before, verify) = a[Len(body)]
  <1> DEFINE n == Len(body)
             first == [updates |-> before]
             more(i, r) == IF IsError(r) THEN r ELSE verify[body[i]][r.updates]
             step(f) == [k \in 0..n |-> IF k = 0 THEN first ELSE more(k, f[k - 1])]
             t == CHOOSE f : f = step(f)
             H == [i \in 1..n |-> [r \in Outcomes |-> more(i, r)]]
  <1>0. n \in Nat /\ \A i \in 1..n : verify[body[i]] \in [SUBSET Nat -> Outcomes] BY DEF Verifies
  <1>1. VerifySequence(body, before, verify) = t[n] BY DEF VerifySequence
  <1>2. first \in Outcomes BY DEF Outcomes, Updates
  <1>3. \A i \in 1..n : \A r \in Outcomes : more(i, r) \in Outcomes /\ H[i][r] = more(i, r)
    <2> SUFFICES ASSUME NEW i \in 1..n, NEW r \in Outcomes PROVE more(i, r) \in Outcomes
      OBVIOUS
    <2>1. ~IsError(r) => r.updates \in SUBSET Nat BY OutcomeFacts
    <2> QED BY <1>0, <2>1
  <1> HIDE DEF more, first
  <1>4. H \in [1..n -> [Outcomes -> Outcomes]] BY <1>3
  <1> HIDE DEF H
  <1>5. \A f \in [0..n -> Outcomes] : StepsFrom(f, first, H, n) => Unfolds(t, first, H, n, Outcomes)
    <2> SUFFICES ASSUME NEW f \in [0..n -> Outcomes], StepsFrom(f, first, H, n)
                 PROVE  Unfolds(t, first, H, n, Outcomes)
      OBVIOUS
    <2>1. \A k \in 1..n : k - 1 \in 0..n /\ f[k - 1] \in Outcomes BY <1>0
    <2>2. \A k \in 1..n : f[k] = more(k, f[k - 1])
      <3> SUFFICES ASSUME NEW k \in 1..n PROVE f[k] = more(k, f[k - 1])
        OBVIOUS
      <3>1. f[k - 1] \in Outcomes BY <2>1
      <3>2. f[k] = H[k][f[k - 1]] BY DEF StepsFrom
      <3> QED BY <1>3, <3>1, <3>2
    <2>3. \A k \in 0..n : f[k] = IF k = 0 THEN first ELSE more(k, f[k - 1])
      BY <2>2 DEF StepsFrom
    <2>4. f = step(f) BY <2>3
    <2>5. t = step(t)
      <3> HIDE DEF step
      <3> QED BY <2>4
    <2> HIDE DEF t
    <2>6. t[0] = first BY <1>0, <2>5
    <2>7. \A k \in 1..n : t[k] = more(k, t[k - 1])
      <3>1. \A k \in 1..n : k \in 0..n /\ k # 0 BY <1>0
      <3> QED BY <2>5, <3>1
    <2> QED BY <1>3, <2>6, <2>7 DEF Unfolds
  <1>6. /\ t[0] = first /\ \A k \in 0..n : t[k] \in Outcomes
        /\ \A i \in 1..n : t[i] = H[i][t[i - 1]]
    <2> HIDE DEF t
    <2> QED BY <1>0, <1>2, <1>4, <1>5, StepsSolved
  <1> DEFINE u == [k \in 0..n |-> t[k]]
  <1> HIDE DEF t
  <1>7. u \in [0..n -> Outcomes] /\ u[0] = first /\ VerifySequence(body, before, verify) = u[n]
    BY <1>0, <1>1, <1>6
  <1>8. \A k \in 0..n : u[k] = t[k] OBVIOUS
  <1> HIDE DEF u
  <1>9. \A i \in 1..n : u[i] = more(i, u[i - 1])
    <2> SUFFICES ASSUME NEW i \in 1..n PROVE u[i] = more(i, u[i - 1])
      OBVIOUS
    <2>1. i \in 0..n /\ i - 1 \in 0..n BY <1>0
    <2>2. u[i] = H[i][u[i - 1]] BY <1>6, <1>8, <2>1
    <2>3. u[i - 1] \in Outcomes BY <1>7, <2>1
    <2> QED BY <1>3, <2>2, <2>3
  <1>10. OutcomesTo(u, body, before, verify) BY <1>7, <1>9 DEF more, first, OutcomesTo
  <1> QED BY <1>7, <1>10

LEMMA SequenceLooksAtBody ==
    ASSUME NEW body, Len(body) \in Nat, NEW f, NEW g, NEW before,
           \A i \in 1..Len(body) : f[body[i]] = g[body[i]]
    PROVE  VerifySequence(body, before, f) = VerifySequence(body, before, g)
  <1> DEFINE more(h, i, r) == IF IsError(r) THEN r ELSE h[body[i]][r.updates]
             step(h, t) == [n \in 0..Len(body) |->
                              IF n = 0 THEN [updates |-> before] ELSE more(h, n, t[n - 1])]
  <1>1. \A t : step(f, t) = step(g, t)
    <2> TAKE t
    <2>1. \A n \in 0..Len(body) : n # 0 => f[body[n]] = g[body[n]] OBVIOUS
    <2>2. \A n \in 0..Len(body) : n # 0 => more(f, n, t[n - 1]) = more(g, n, t[n - 1])
      BY <2>1
    <2> HIDE DEF more
    <2> QED BY <2>2
  <1>2. \A h : VerifySequence(body, before, h) = (CHOOSE t : t = step(h, t))[Len(body)]
    BY DEF VerifySequence
  <1> HIDE DEF step
  <1>3. (CHOOSE t : t = step(f, t)) = (CHOOSE t : t = step(g, t)) BY <1>1
  <1> QED BY <1>2, <1>3

\* An expression, and then the rest.
After(e, t, r) == IF VerifyExpr(e, t) # "ok" THEN Error(VerifyExpr(e, t)) ELSE r

LEMMA SetVerified ==
    ASSUME NEW x \in HwStmt, x.stmt = "set", NEW m, NEW before, NEW f
    PROVE  VerifyStmtStep(x, m, before, f) =
                 IF ~(/\ x.target \in DOMAIN Typed(m).type /\ IsRegisterName(NameOf(x.target, m), m)
                      /\ x.value.ty = Typed(m).type[x.target])
                 THEN Error("TypeMismatch")
                 ELSE After(x.value, Typed(m), IF x.target \in before THEN Error("DuplicateAssignment")
                                               ELSE [updates |-> before \cup {x.target}])
  BY DEF VerifyStmtStep, After

LEMMA BlockVerified ==
    ASSUME NEW x \in HwStmt, x.stmt = "block", NEW m, NEW before, NEW f
    PROVE  VerifyStmtStep(x, m, before, f) =
                 IF x.body = <<>> THEN Error("InvalidModule") ELSE VerifySequence(x.body, before, f)
  BY DEF VerifyStmtStep

LEMMA IfVerified ==
    ASSUME NEW x \in HwStmt, x.stmt = "if", NEW m, NEW before, NEW f
    PROVE  VerifyStmtStep(x, m, before, f) =
                 IF x.cond.ty # Bit THEN Error("InvalidCondition")
                 ELSE After(x.cond, Typed(m), VerifyBranches(x, before, f))
  BY DEF VerifyStmtStep, After

\* The keys, and then the branches.
KeysThen(x, m, r) ==
    IF x.keys = <<>> THEN Error("InvalidModule")
    ELSE IF VerifyKeys(x.keys, x.cond.ty, Typed(m)) # "ok"
    THEN Error(VerifyKeys(x.keys, x.cond.ty, Typed(m)))
    ELSE r

LEMMA CaseVerified ==
    ASSUME NEW x \in HwStmt, x.stmt = "case", NEW m, NEW before, NEW f
    PROVE  VerifyStmtStep(x, m, before, f) =
              After(x.cond, Typed(m), KeysThen(x, m, VerifyBranches(x, before, f)))
  BY DEF VerifyStmtStep, After, KeysThen

\* What verify_stmt makes of each branch, from the same updates.
InBranches(x, before, f) == [i \in DOMAIN x.branches |-> f[x.branches[i]][before]]

\* What verify_stmt finds in the branches, f, and what it makes of that.
BranchesKnown(x, before, f) ==
    /\ Len(x.branches) \in Nat /\ DOMAIN x.branches = 1..Len(x.branches)
    /\ \A i \in DOMAIN x.branches : f[x.branches[i]][before] \in Outcomes
BranchesGive(r, x, before, f) ==
    /\ r \in Outcomes
    /\ IsError(r) => \E i \in DOMAIN x.branches : r = f[x.branches[i]][before]
    /\ ~IsError(r) =>
          /\ \A i \in DOMAIN x.branches : ~IsError(f[x.branches[i]][before])
          /\ r.updates = before \cup UNION {f[x.branches[i]][before].updates : i \in DOMAIN x.branches}

LEMMA BranchesVerified ==
    ASSUME NEW x, NEW before \in SUBSET Nat, NEW f, BranchesKnown(x, before, f)
    PROVE  BranchesGive(VerifyBranches(x, before, f), x, before, f)
  <1> DEFINE b == InBranches(x, before, f)
             v == VerifyBranches(x, before, f)
  <1>0. /\ Len(x.branches) \in Nat /\ DOMAIN x.branches = 1..Len(x.branches)
        /\ \A i \in DOMAIN x.branches : f[x.branches[i]][before] \in Outcomes
    BY DEF BranchesKnown
  <1>1. v = IF AnyError(b) THEN FirstError(b) ELSE [updates |-> AfterBranches(before, b)]
    BY DEF VerifyBranches, InBranches
  <1>2. b \in Seq(Outcomes) /\ DOMAIN b = DOMAIN x.branches
        /\ \A i \in DOMAIN x.branches : b[i] = f[x.branches[i]][before]
    <2>1. b \in [1..Len(x.branches) -> Outcomes] BY <1>0 DEF InBranches
    <2> QED BY <1>0, <2>1 DEF InBranches
  <1> HIDE DEF b, v
  <1>3. CASE AnyError(b)
    <2>1. PICK i \in DOMAIN b : FirstError(b) = b[i] /\ IsError(b[i]) BY <1>2, <1>3, FirstErrorFacts
    <2>2. v = b[i] /\ IsError(v) /\ v \in Outcomes BY <1>1, <1>2, <1>3, <2>1
    <2> QED BY <1>2, <2>1, <2>2 DEF v, BranchesGive
  <1>4. CASE ~AnyError(b)
    <2>1. \A i \in DOMAIN b : ~IsError(b[i]) BY <1>4 DEF AnyError
    <2>2. v = [updates |-> AfterBranches(before, b)] BY <1>1, <1>4
    <2>3. AfterBranches(before, b) = before \cup UNION {b[i].updates : i \in DOMAIN b}
      BY DEF AfterBranches
    <2>4. {b[i].updates : i \in DOMAIN b} = {f[x.branches[i]][before].updates : i \in DOMAIN x.branches}
      BY <1>2
    <2>5. \A i \in DOMAIN b : b[i].updates \in SUBSET Nat BY <1>2, <2>1, OutcomeFacts
    <2>6. AfterBranches(before, b) \in SUBSET Nat BY <2>3, <2>5
    <2>7. v \in Outcomes /\ ~IsError(v) /\ v.updates = AfterBranches(before, b)
      BY <2>2, <2>6 DEF Outcomes, Updates, IsError
    <2> QED BY <1>2, <2>1, <2>3, <2>4, <2>7 DEF v, BranchesGive
  <1> QED BY <1>3, <1>4

\* v has what verify_stmt makes of every statement, whatever was updated before.
StmtsVerified(v, m) ==
    \A x \in HwStmt : /\ v[x] \in [SUBSET Nat -> Outcomes]
                      /\ \A before \in SUBSET Nat :
                            /\ v[x][before] = VerifyStmtStep(x, m, before, v)
                            /\ VerifyStmt(x, m, before) = v[x][before]

LEMMA AfterType ==
    ASSUME NEW m, NEW e \in HwExpr, NEW r \in Outcomes
    PROVE  After(e, Typed(m), r) \in Outcomes
  <1>1. VerifyExpr(e, Typed(m)) \in Verdict BY GoodIsVerified
  <1>2. \A k \in Verdict : k # "ok" => Error(k) \in Outcomes
    BY DEF Verdict, Outcomes, Errors, ErrorKinds
  <1> QED BY <1>1, <1>2 DEF After

LEMMA VerifyStmtType ==
    ASSUME NEW m, NEW x \in HwStmt, NEW before \in SUBSET Nat, NEW f,
           \A i \in DOMAIN HwInside(x) : f[HwInside(x)[i]] \in [SUBSET Nat -> Outcomes]
    PROVE  VerifyStmtStep(x, m, before, f) \in Outcomes
  <1>1. \A k \in ErrorKinds : Error(k) \in Outcomes BY DEF Outcomes, Errors
  <1>2. /\ Error("TypeMismatch") \in Outcomes /\ Error("DuplicateAssignment") \in Outcomes
        /\ Error("InvalidModule") \in Outcomes /\ Error("InvalidCondition") \in Outcomes
    BY <1>1 DEF ErrorKinds
  <1>3. CASE x.stmt = "set"
    <2>1. x.target \in Nat /\ x.value \in HwExpr BY <1>3, HwStmtFacts
    <2> DEFINE r == IF x.target \in before THEN Error("DuplicateAssignment")
                    ELSE [updates |-> before \cup {x.target}]
    <2>0. VerifyStmtStep(x, m, before, f) =
             IF ~(/\ x.target \in DOMAIN Typed(m).type /\ IsRegisterName(NameOf(x.target, m), m)
                  /\ x.value.ty = Typed(m).type[x.target])
             THEN Error("TypeMismatch") ELSE After(x.value, Typed(m), r)
      BY <1>3, SetVerified
    <2>2. r \in Outcomes
      <3>1. [updates |-> before \cup {x.target}] \in Outcomes BY <2>1 DEF Outcomes, Updates
      <3> QED BY <1>2, <3>1
    <2> HIDE DEF r
    <2>3. After(x.value, Typed(m), r) \in Outcomes BY <2>1, <2>2, AfterType
    <2>4. VerifyStmtStep(x, m, before, f) \in {Error("TypeMismatch"), After(x.value, Typed(m), r)}
      BY <2>0
    <2> QED BY <1>2, <2>3, <2>4
  <1>4. CASE x.stmt = "block"
    <2>1. VerifyStmtStep(x, m, before, f) \in {Error("InvalidModule"), VerifySequence(x.body, before, f)}
      BY <1>4, BlockVerified
    <2>2. Verifies(f, x.body) BY <1>4, HwInsideFacts DEF Verifies
    <2>3. PICK a : OutcomesTo(a, x.body, before, f) /\ VerifySequence(x.body, before, f) = a[Len(x.body)]
      BY <2>2, SequenceUnfold
    <2>4. Len(x.body) \in 0..Len(x.body) BY <2>2 DEF Verifies
    <2>5. a[Len(x.body)] \in Outcomes BY <2>3, <2>4 DEF OutcomesTo
    <2> QED BY <1>2, <2>1, <2>3, <2>5
  <1>5. CASE x.stmt \in {"if", "case"}
    <2>1. /\ x.cond \in HwExpr /\ Len(x.branches) \in Nat
          /\ DOMAIN x.branches = 1..Len(x.branches) /\ HwInside(x) = x.branches
      BY <1>5, HwStmtFacts, HwInsideFacts
    <2>2. VerifyBranches(x, before, f) \in Outcomes
      <3>1. \A i \in DOMAIN x.branches : f[x.branches[i]] \in [SUBSET Nat -> Outcomes] BY <2>1
      <3>2. \A i \in DOMAIN x.branches : f[x.branches[i]][before] \in Outcomes BY <3>1
      <3>3. BranchesKnown(x, before, f) BY <2>1, <3>2 DEF BranchesKnown
      <3> QED BY <3>3, BranchesVerified DEF BranchesGive
    <2>3. x.stmt = "case" => KeysThen(x, m, VerifyBranches(x, before, f)) \in Outcomes
      <3>1. x.stmt = "case" => VerifyKeys(x.keys, x.cond.ty, Typed(m)) \in Verdict
        BY HwStmtFacts, VerifyKeysType
      <3>2. \A k \in Verdict : k # "ok" => Error(k) \in Outcomes
        BY DEF Verdict, Outcomes, Errors, ErrorKinds
      <3> QED BY <1>2, <2>2, <3>1, <3>2 DEF KeysThen
    <2>4. \A r \in Outcomes : After(x.cond, Typed(m), r) \in Outcomes BY <2>1, AfterType
    <2>5. CASE x.stmt = "case"
      <3>1. VerifyStmtStep(x, m, before, f)
              = After(x.cond, Typed(m), KeysThen(x, m, VerifyBranches(x, before, f)))
        BY <2>5, CaseVerified
      <3> QED BY <2>3, <2>4, <2>5, <3>1
    <2>6. CASE x.stmt = "if"
      <3>1. VerifyStmtStep(x, m, before, f) \in
               {Error("InvalidCondition"), After(x.cond, Typed(m), VerifyBranches(x, before, f))}
        BY <2>6, IfVerified
      <3> QED BY <1>2, <2>2, <2>4, <3>1
    <2> QED BY <1>5, <2>5, <2>6
  <1> QED BY <1>3, <1>4, <1>5, HwStmtFacts

LEMMA VerifyLooksInside ==
    ASSUME NEW m, NEW x \in HwStmt, NEW before, NEW f, NEW g,
           \A i \in DOMAIN HwInside(x) : f[HwInside(x)[i]] = g[HwInside(x)[i]]
    PROVE  VerifyStmtStep(x, m, before, f) = VerifyStmtStep(x, m, before, g)
  <1>1. CASE x.stmt = "set"
    <2>1. \A h : VerifyStmtStep(x, m, before, h) =
             IF ~(/\ x.target \in DOMAIN Typed(m).type /\ IsRegisterName(NameOf(x.target, m), m)
                  /\ x.value.ty = Typed(m).type[x.target])
             THEN Error("TypeMismatch")
             ELSE After(x.value, Typed(m), IF x.target \in before THEN Error("DuplicateAssignment")
                                           ELSE [updates |-> before \cup {x.target}])
      BY <1>1, SetVerified
    <2> QED BY <2>1, Zenon
  <1>2. CASE x.stmt = "block"
    <2>1. HwInside(x) = x.body /\ Len(x.body) \in Nat /\ DOMAIN x.body = 1..Len(x.body)
      BY <1>2, HwStmtFacts, HwInsideFacts
    <2>2. VerifySequence(x.body, before, f) = VerifySequence(x.body, before, g)
      BY <2>1, SequenceLooksAtBody
    <2>3. \A h : VerifyStmtStep(x, m, before, h) =
             IF x.body = <<>> THEN Error("InvalidModule") ELSE VerifySequence(x.body, before, h)
      BY <1>2, BlockVerified
    <2> QED BY <2>2, <2>3
  <1>3. CASE x.stmt \in {"if", "case"}
    <2>1. HwInside(x) = x.branches BY <1>3, HwInsideFacts
    <2>2. InBranches(x, before, f) = InBranches(x, before, g) BY <2>1 DEF InBranches
    <2>3. VerifyBranches(x, before, f) = VerifyBranches(x, before, g)
      BY <2>2, Zenon DEF VerifyBranches, InBranches
    <2>4. CASE x.stmt = "if"
      <3>1. \A h : VerifyStmtStep(x, m, before, h) =
               IF x.cond.ty # Bit THEN Error("InvalidCondition")
               ELSE After(x.cond, Typed(m), VerifyBranches(x, before, h))
        BY <2>4, IfVerified
      <3> QED BY <2>3, <3>1
    <2>5. CASE x.stmt = "case"
      <3>1. \A h : VerifyStmtStep(x, m, before, h)
                     = After(x.cond, Typed(m), KeysThen(x, m, VerifyBranches(x, before, h)))
        BY <2>5, CaseVerified
      <3> QED BY <2>3, <3>1
    <2> QED BY <1>3, <2>4, <2>5
  <1> QED BY <1>1, <1>2, <1>3, HwStmtFacts

LEMMA VerifyUnfold ==
    ASSUME NEW m
    PROVE  \E v : StmtsVerified(v, m)
  <1> DEFINE step(x, f) == [before \in SUBSET Nat |-> VerifyStmtStep(x, m, before, f)]
             body(f) == [x \in HwStmt |-> step(x, f)]
             verify == CHOOSE f : f = body(f)
             V == [SUBSET Nat -> Outcomes]
             F == [HwStmt -> V] \cup {verify}
             H == [x \in HwStmt |-> [f \in F |-> step(x, f)]]
             W == [x \in HwStmt |-> [SUBSET Nat -> Outcomes]]
  <1>1. \A x \in HwStmt : \A f, g : (\A y \in HwStmt : HwStmtRank[y] < HwStmtRank[x] => f[y] = g[y])
                                    => step(x, f) = step(x, g)
    <2> TAKE x \in HwStmt
    <2> TAKE f, g
    <2> HAVE \A y \in HwStmt : HwStmtRank[y] < HwStmtRank[x] => f[y] = g[y]
    <2>1. \A i \in DOMAIN HwInside(x) : f[HwInside(x)[i]] = g[HwInside(x)[i]]
      BY HwInsideFacts DEF HwStmtPart
    <2>2. \A before : VerifyStmtStep(x, m, before, f) = VerifyStmtStep(x, m, before, g)
      BY <2>1, VerifyLooksInside
    <2> QED BY <2>2
  <1>2. \A x \in HwStmt : \A f \in [HwStmt -> V] :
           (\A y \in HwStmt : HwStmtRank[y] < HwStmtRank[x] => f[y] \in W[y]) => step(x, f) \in W[x]
    <2> TAKE x \in HwStmt
    <2> TAKE f \in [HwStmt -> V]
    <2> HAVE \A y \in HwStmt : HwStmtRank[y] < HwStmtRank[x] => f[y] \in W[y]
    <2>1. \A i \in DOMAIN HwInside(x) : f[HwInside(x)[i]] \in [SUBSET Nat -> Outcomes]
      BY HwInsideFacts DEF HwStmtPart
    <2>2. \A before \in SUBSET Nat : VerifyStmtStep(x, m, before, f) \in Outcomes
      BY <2>1, VerifyStmtType
    <2> QED BY <2>2
  <1>3. \A s : \A before : VerifyStmt(s, m, before) = verify[s][before]
    BY DEF VerifyStmt
  <1>w. W \in [HwStmt -> SUBSET V]
    OBVIOUS
  <1>x. \A x \in HwStmt : W[x] = [SUBSET Nat -> Outcomes] OBVIOUS
  <1> HIDE DEF step, V, W
  <1>4. \A x \in HwStmt : \A f \in F : H[x][f] = step(x, f) OBVIOUS
  <1>5. \A f \in [HwStmt -> V] : (\A x \in HwStmt : f[x] = step(x, f))
                                 => \A x \in HwStmt : verify[x] = step(x, verify)
    <2> TAKE f \in [HwStmt -> V]
    <2> HAVE \A x \in HwStmt : f[x] = step(x, f)
    <2>1. f = body(f) OBVIOUS
    <2>2. verify = body(verify)
      <3> HIDE DEF body
      <3> QED BY <2>1
    <2> HIDE DEF verify
    <2> QED BY <2>2
  <1>6. [HwStmt -> V] \subseteq F /\ verify \in F OBVIOUS
  <1>7. \A x \in HwStmt : HwStmtRank[x] \in Nat BY HwStmtFacts
  <1>8. HwStmtRank \in [HwStmt -> Nat]
    <2>1. HwStmtRank \in [HwStmt -> 1..Depth] BY HwStmtTree DEF IsTree
    <2> QED BY <2>1
  <1> HIDE DEF H, verify
  <1>10. LooksAtParts(H, HwStmt, F, HwStmtRank) BY <1>1, <1>4 DEF LooksAtParts
  <1> HIDE DEF F
  <1>11. KeepsTypes(H, HwStmt, V, W, HwStmtRank)
    <2>1. \A x \in HwStmt : \A f \in [HwStmt -> V] : H[x][f] = step(x, f) BY <1>4, <1>6
    <2> QED BY <1>2, <2>1 DEF KeepsTypes
  <1>12. Recursion(verify, H, HwStmt, V, W, HwStmtRank)
    <2>1. V # {}
      <3>1. [before \in SUBSET Nat |-> Error("TypeMismatch")] \in V
        BY DEF V, Outcomes, Errors, ErrorKinds
      <3> QED BY <3>1
    <2>2. \A f \in [HwStmt -> V] : (\A x \in HwStmt : f[x] = H[x][f])
                                   => \A x \in HwStmt : verify[x] = H[x][verify]
      BY <1>4, <1>5, <1>6
    <2>3. LooksAtParts(H, HwStmt, [HwStmt -> V] \cup {verify}, HwStmtRank) BY <1>10 DEF F
    <2> QED BY <1>8, <1>w, <1>11, <2>1, <2>2, <2>3 DEF Recursion
  <1>13. \A x \in HwStmt : verify[x] = step(x, verify) /\ verify[x] \in W[x]
    BY <1>4, <1>6, <1>12, SolutionIsTyped DEF Solved
  <1>14. \A x \in HwStmt : verify[x] = [before \in SUBSET Nat |-> VerifyStmtStep(x, m, before, verify)]
                            /\ verify[x] \in [SUBSET Nat -> Outcomes]
    BY <1>13, <1>x DEF step
  <1>15. StmtsVerified(verify, m) BY <1>3, <1>14 DEF StmtsVerified
  <1> QED BY <1>15

-----------------------------------------------------------------------------
(* Paths that set a register twice *)

LEMMA ConcatFacts ==
    ASSUME NEW A, NEW p \in Seq(A), NEW q \in Seq(A)
    PROVE  /\ Range(p \o q) = Range(p) \cup Range(q)
           /\ IsInjective(p \o q) <=> /\ IsInjective(p) /\ IsInjective(q)
                                      /\ Range(p) \cap Range(q) = {}
  <1> DEFINE r == p \o q
             n == Len(p)
  <1>1. /\ n \in Nat /\ Len(q) \in Nat /\ Len(r) = n + Len(q)
        /\ DOMAIN p = 1..n /\ DOMAIN q = 1..Len(q) /\ DOMAIN r = 1..(n + Len(q))
        /\ \A i \in 1..n : r[i] = p[i]
        /\ \A i \in 1..Len(q) : r[n + i] = q[i]
    OBVIOUS
  <1> HIDE DEF r, n
  <1>2. \A i \in DOMAIN r : \/ i \in DOMAIN p /\ r[i] = p[i]
                            \/ i - n \in DOMAIN q /\ r[i] = q[i - n]
    <2> TAKE i \in DOMAIN r
    <2>1. CASE i <= n BY <1>1, <2>1
    <2>2. CASE ~(i <= n)
      <3>1. i - n \in 1..Len(q) /\ n + (i - n) = i BY <1>1, <2>2
      <3>2. r[n + (i - n)] = q[i - n] BY <1>1, <3>1
      <3> QED BY <1>1, <3>1, <3>2
    <2> QED BY <2>1, <2>2
  <1>3. /\ \A i \in DOMAIN p : i \in DOMAIN r /\ r[i] = p[i]
        /\ \A i \in DOMAIN q : n + i \in DOMAIN r /\ r[n + i] = q[i]
    BY <1>1
  <1>4. Range(r) = Range(p) \cup Range(q) BY <1>2, <1>3 DEF Range
  <1>5. ASSUME IsInjective(r)
        PROVE  IsInjective(p) /\ IsInjective(q) /\ Range(p) \cap Range(q) = {}
    <2>1. \A i, j \in DOMAIN r : r[i] = r[j] => i = j BY <1>5 DEF IsInjective
    <2>2. IsInjective(p) BY <1>3, <2>1 DEF IsInjective
    <2>3. \A i, j \in DOMAIN q : q[i] = q[j] => i = j
      <3> TAKE i, j \in DOMAIN q
      <3> HAVE q[i] = q[j]
      <3>1. n + i = n + j BY <1>3, <2>1
      <3> QED BY <1>1, <3>1
    <2>4. \A i \in DOMAIN p, j \in DOMAIN q : p[i] # q[j]
      <3> TAKE i \in DOMAIN p, j \in DOMAIN q
      <3>1. p[i] = q[j] => i = n + j BY <1>3, <2>1
      <3> QED BY <1>1, <3>1
    <2>5. IsInjective(q) BY <2>3 DEF IsInjective
    <2>6. Range(p) \cap Range(q) = {} BY <2>4 DEF Range
    <2> QED BY <2>2, <2>5, <2>6
  <1>6. ASSUME IsInjective(p), IsInjective(q), Range(p) \cap Range(q) = {}
        PROVE  IsInjective(r)
    <2>1. \A i \in DOMAIN p, j \in DOMAIN q : p[i] # q[j] BY <1>6 DEF Range
    <2>2. ASSUME NEW i \in DOMAIN r, NEW j \in DOMAIN r, r[i] = r[j] PROVE i = j
      <3>1. CASE i \in DOMAIN p /\ r[i] = p[i] /\ j \in DOMAIN p /\ r[j] = p[j]
        BY <1>6, <2>2, <3>1 DEF IsInjective
      <3>2. CASE i - n \in DOMAIN q /\ r[i] = q[i - n] /\ j - n \in DOMAIN q /\ r[j] = q[j - n]
        <4>1. i - n = j - n BY <1>6, <2>2, <3>2 DEF IsInjective
        <4>2. i \in Int /\ j \in Int BY <1>1
        <4> QED BY <1>1, <4>1, <4>2
      <3> QED BY <1>2, <2>1, <2>2, <3>1, <3>2
    <2> QED BY <2>2 DEF IsInjective
  <1> QED BY <1>4, <1>5, <1>6 DEF r

\* What is set on some of these ways.
SetBy(ps) == UNION {Range(p) : p \in ps}
\* On one of them a register is set twice, or one of N again.
Clashes(ps, N) == \E p \in ps : ~IsInjective(p) \/ Range(p) \cap N # {}

LEMMA JoinedClashes ==
    ASSUME NEW ps \in SUBSET Seq(Names), NEW qs \in SUBSET Seq(Names), ps # {}, qs # {}, NEW N
    PROVE  /\ Joined(ps, qs) # {}
           /\ SetBy(Joined(ps, qs)) = SetBy(ps) \cup SetBy(qs)
           /\ Clashes(Joined(ps, qs), N) <=> Clashes(ps, N) \/ Clashes(qs, N \cup SetBy(ps))
  <1>1. \A p \in ps, q \in qs : p \o q \in Joined(ps, qs)
    <2> TAKE p \in ps, q \in qs
    <2> DEFINE x == p \o q
    <2>1. \E c \in ps, d \in qs : x = c \o d OBVIOUS
    <2> HIDE DEF x
    <2>2. x \in Joined(ps, qs) BY <2>1, JoinedFacts
    <2> QED BY <2>2, Zenon DEF x
  <1>2. \A x \in Joined(ps, qs) : \E p \in ps, q \in qs : x = p \o q
    <2> SUFFICES ASSUME NEW x \in Joined(ps, qs) PROVE \E p \in ps : \E q \in qs : x = p \o q
      OBVIOUS
    <2> QED BY DEF Joined
  <1>3. \A p \in ps, q \in qs : Range(p \o q) = Range(p) \cup Range(q)
    <2> TAKE p \in ps, q \in qs
    <2>1. p \in Seq(Names) /\ q \in Seq(Names) OBVIOUS
    <2> QED BY <2>1, ConcatFacts
  <1>4. \A p \in ps, q \in qs :
           IsInjective(p \o q) <=> IsInjective(p) /\ IsInjective(q) /\ Range(p) \cap Range(q) = {}
    <2> TAKE p \in ps, q \in qs
    <2>1. p \in Seq(Names) /\ q \in Seq(Names) OBVIOUS
    <2> QED BY <2>1, ConcatFacts
  <1> PICK a \in ps : TRUE OBVIOUS
  <1> PICK b \in qs : TRUE OBVIOUS
  <1>5. Joined(ps, qs) # {} BY <1>1
  <1>6. SetBy(Joined(ps, qs)) = SetBy(ps) \cup SetBy(qs)
    <2>1. ASSUME NEW n \in SetBy(Joined(ps, qs)) PROVE n \in SetBy(ps) \cup SetBy(qs)
      <3> PICK x \in Joined(ps, qs) : n \in Range(x) BY <2>1 DEF SetBy
      <3> PICK p \in ps, q \in qs : x = p \o q BY <1>2
      <3>1. n \in Range(p) \cup Range(q) BY <1>3
      <3> QED BY <3>1 DEF SetBy
    <2>2. ASSUME NEW n \in SetBy(ps) PROVE n \in SetBy(Joined(ps, qs))
      <3> PICK p \in ps : n \in Range(p) BY <2>2 DEF SetBy
      <3>1. n \in Range(p \o b) /\ p \o b \in Joined(ps, qs) BY <1>1, <1>3
      <3> QED BY <3>1 DEF SetBy
    <2>3. ASSUME NEW n \in SetBy(qs) PROVE n \in SetBy(Joined(ps, qs))
      <3> PICK q \in qs : n \in Range(q) BY <2>3 DEF SetBy
      <3>1. n \in Range(a \o q) /\ a \o q \in Joined(ps, qs) BY <1>1, <1>3
      <3> QED BY <3>1 DEF SetBy
    <2> QED BY <2>1, <2>2, <2>3
  <1>7. ASSUME Clashes(Joined(ps, qs), N) PROVE Clashes(ps, N) \/ Clashes(qs, N \cup SetBy(ps))
    <2> PICK x \in Joined(ps, qs) : ~IsInjective(x) \/ Range(x) \cap N # {} BY <1>7 DEF Clashes
    <2> PICK p \in ps, q \in qs : x = p \o q BY <1>2
    <2>1. \/ ~IsInjective(p) \/ ~IsInjective(q) \/ Range(p) \cap Range(q) # {}
          \/ (Range(p) \cup Range(q)) \cap N # {}
      BY <1>3, <1>4
    <2>2. Range(p) \subseteq SetBy(ps) BY DEF SetBy
    <2>3. CASE ~IsInjective(p) \/ Range(p) \cap N # {} BY <2>3 DEF Clashes
    <2>4. CASE ~IsInjective(q) \/ Range(q) \cap (N \cup SetBy(ps)) # {} BY <2>4 DEF Clashes
    <2> QED BY <2>1, <2>2, <2>3, <2>4
  <1>8. ASSUME Clashes(ps, N) PROVE Clashes(Joined(ps, qs), N)
    <2> PICK p \in ps : ~IsInjective(p) \/ Range(p) \cap N # {} BY <1>8 DEF Clashes
    <2>1. p \o b \in Joined(ps, qs) /\ (~IsInjective(p \o b) \/ Range(p \o b) \cap N # {})
      BY <1>1, <1>3, <1>4
    <2> QED BY <2>1 DEF Clashes
  <1>9. ASSUME Clashes(qs, N \cup SetBy(ps)) PROVE Clashes(Joined(ps, qs), N)
    <2> PICK q \in qs : ~IsInjective(q) \/ Range(q) \cap (N \cup SetBy(ps)) # {} BY <1>9 DEF Clashes
    <2>1. CASE ~IsInjective(q) \/ Range(q) \cap N # {}
      <3>1. a \o q \in Joined(ps, qs) /\ (~IsInjective(a \o q) \/ Range(a \o q) \cap N # {})
        BY <1>1, <1>3, <1>4, <2>1
      <3> QED BY <3>1 DEF Clashes
    <2>2. CASE Range(q) \cap SetBy(ps) # {}
      <3> PICK p \in ps : Range(q) \cap Range(p) # {} BY <2>2 DEF SetBy
      <3>1. p \o q \in Joined(ps, qs) /\ ~IsInjective(p \o q) BY <1>1, <1>4
      <3> QED BY <3>1 DEF Clashes
    <2> QED BY <2>1, <2>2
  <1> QED BY <1>5, <1>6, <1>7, <1>8, <1>9

-----------------------------------------------------------------------------
(* What verify_stmt finds, in terms of these ways *)

\* The ids that are their own, and the names of some.
SetIds(t) == {id \in Nat : id \in DOMAIN Typed(t).type /\ OwnId(id, t)}
NamesOf(ids, t) == {NameOf(id, t) : id \in ids}

\* r is right for a statement with these ways, after these updates.
Judged(r, ps, before, t) ==
    \/ r = Error("InvalidModule")
    \/ r = Error("DuplicateAssignment") /\ Clashes(ps, NamesOf(before, t))
    \/ /\ r \in Updates /\ before \subseteq r.updates /\ r.updates \subseteq SetIds(t)
       /\ NamesOf(r.updates, t) = NamesOf(before, t) \cup SetBy(ps)
       /\ ~Clashes(ps, NamesOf(before, t))

LEMMA UpdatesNoError == \A r \in Updates : ~IsError(r)
  BY DEF Updates, IsError

LEMMA JudgedError ==
    ASSUME NEW r, NEW ps, NEW before, NEW t, Judged(r, ps, before, t), IsError(r)
    PROVE  \/ r = Error("InvalidModule")
           \/ r = Error("DuplicateAssignment") /\ Clashes(ps, NamesOf(before, t))
  BY UpdatesNoError DEF Judged

LEMMA JudgedUpdates ==
    ASSUME NEW r, NEW ps, NEW before, NEW t, Judged(r, ps, before, t), ~IsError(r)
    PROVE  /\ r \in Updates /\ before \subseteq r.updates /\ r.updates \subseteq SetIds(t)
           /\ r.updates \in SUBSET Nat
           /\ NamesOf(r.updates, t) = NamesOf(before, t) \cup SetBy(ps)
           /\ ~Clashes(ps, NamesOf(before, t))
  <1>1. \A kind : IsError(Error(kind)) BY DEF Error, IsError
  <1> QED BY <1>1 DEF Judged, SetIds

LEMMA JudgedThen ==
    ASSUME NEW ps \in SUBSET Seq(Names), NEW qs \in SUBSET Seq(Names), ps # {}, qs # {},
           NEW t, NEW before, NEW r, Judged(r, ps, before, t)
    PROVE  /\ IsError(r) => Judged(r, Joined(ps, qs), before, t)
           /\ ~IsError(r) => \A s : Judged(s, qs, r.updates, t) => Judged(s, Joined(ps, qs), before, t)
  <1>1. /\ SetBy(Joined(ps, qs)) = SetBy(ps) \cup SetBy(qs)
        /\ Clashes(Joined(ps, qs), NamesOf(before, t))
             <=> Clashes(ps, NamesOf(before, t)) \/ Clashes(qs, NamesOf(before, t) \cup SetBy(ps))
    BY JoinedClashes
  <1>2. IsError(r) => Judged(r, Joined(ps, qs), before, t) BY <1>1, JudgedError DEF Judged
  <1>3. ASSUME ~IsError(r), NEW s, Judged(s, qs, r.updates, t)
        PROVE  Judged(s, Joined(ps, qs), before, t)
    <2>1. /\ before \subseteq r.updates /\ NamesOf(r.updates, t) = NamesOf(before, t) \cup SetBy(ps)
          /\ ~Clashes(ps, NamesOf(before, t))
      BY <1>3, JudgedUpdates
    <2>2. CASE IsError(s) BY <1>1, <1>3, <2>1, <2>2, JudgedError DEF Judged
    <2>3. CASE ~IsError(s)
      <3>1. /\ s \in Updates /\ r.updates \subseteq s.updates /\ s.updates \subseteq SetIds(t)
            /\ NamesOf(s.updates, t) = NamesOf(r.updates, t) \cup SetBy(qs)
            /\ ~Clashes(qs, NamesOf(r.updates, t))
        BY <1>3, <2>3, JudgedUpdates
      <3>2. NamesOf(s.updates, t) = NamesOf(before, t) \cup SetBy(Joined(ps, qs))
        BY <1>1, <2>1, <3>1
      <3> QED BY <1>1, <2>1, <3>1, <3>2 DEF Judged
    <2> QED BY <2>2, <2>3
  <1> QED BY <1>2, <1>3

-----------------------------------------------------------------------------
(* The names that a module declares *)

IsMember(id, t) == id[1] \in DOMAIN t.enums /\ id[2] \in DOMAIN t.enums[id[1]].values
SignalNames(t) == {NameOf(id, t) : id \in DOMAIN Typed(t).type}
RegisterNames(t) == {n \in SignalNames(t) : IsRegisterName(n, t)}
Declared(t) ==
    SignalNames(t)
      \cup UNION {{t.enums[i].names[j] : j \in DOMAIN t.enums[i].values} : i \in DOMAIN t.enums}

LEMMA MemberIsDeclared ==
    ASSUME NEW t, NEW id, IsMember(id, t)
    PROVE  t.enums[id[1]].names[id[2]] \in Declared(t)
  BY DEF IsMember, Declared

LEMMA KeysAreMembers ==
    ASSUME NEW t, NEW ty, NEW keys \in Seq(Key), VerifyKeys(keys, ty, Typed(t)) = "ok"
    PROVE  \A key \in Range(keys) : key.member # <<>> => IsMember(key.member, t)
  <1> DEFINE m == Typed(t)
             e == [i \in DOMAIN keys |-> KeyError(keys[i], m)]
             last == Check(/\ \A i \in DOMAIN keys : KeyType(keys[i], m) = ty
                           /\ \A i, j \in DOMAIN keys :
                                  KeyValue(keys[i], m) = KeyValue(keys[j], m) => i = j,
                           "TypeMismatch")
  <1>1. \A i \in DOMAIN keys : KeyError(keys[i], m) \in Verdict BY DEF Check, KeyError, Verdict
  <1>2. Len(keys) \in Nat /\ DOMAIN keys = 1..Len(keys) OBVIOUS
  <1>3. e \in Seq(Verdict) /\ Len(e) = Len(keys) BY <1>1, <1>2
  <1>4. last \in Verdict BY DEF Check, Verdict
  <1>5. FirstFailure(e \o <<last>>) = "ok" BY DEF VerifyKeys
  <1>6. m.enums = t.enums BY DEF Typed
  <1>7. \A i \in DOMAIN keys : e[i] = KeyError(keys[i], m) OBVIOUS
  <1> HIDE DEF e, last, m
  <1>8. e \o <<last>> \in Seq(Verdict) BY <1>3, <1>4
  <1>9. \A i \in DOMAIN (e \o <<last>>) : (e \o <<last>>)[i] = "ok"
    BY <1>5, <1>8, FirstFailureFacts DEF Verdict
  <1>10. ASSUME NEW i \in DOMAIN keys, keys[i].member # <<>> PROVE IsMember(keys[i].member, t)
    <2>1. (e \o <<last>>)[i] = e[i] /\ i \in DOMAIN (e \o <<last>>) BY <1>2, <1>3, <1>4
    <2>2. KeyError(keys[i], m) = "ok" BY <1>7, <1>9, <2>1
    <2> QED BY <1>6, <1>10, <2>2 DEF KeyError, Check, IsMember
  <1> QED BY <1>10 DEF Range

LEMMA MembersAreDeclared ==
    ASSUME NEW t, NEW h \in Good(t), NEW id \in MembersIn(h)
    PROVE  IsMember(id, t)
  <1>1. \A x \in Subexpressions(h) : NodeOK(x, t) /\ x \in HwExpr
    <2>1. \A x \in Subexpressions(h) : x \in HwExpr BY SubexpressionsUnfold DEF Good
    <2> QED BY <2>1 DEF Good
  <1>2. CASE id \in {x.member : x \in OfKind(h, "member")}
    <2> PICK x \in Subexpressions(h) : x.kind = "member" /\ x.member = id
      BY <1>2 DEF OfKind
    <2>1. WellTyped(x, Typed(t)) BY <1>1 DEF NodeOK
    <2> QED BY <2>1 DEF WellTyped, IsMember, Typed
  <1>3. CASE id \in {key.member : key \in KeysIn(h)} \ {<<>>}
    <2> PICK x \in Subexpressions(h) :
           x.kind = "case" /\ \E key \in Range(x.keys) : key.member = id /\ id # <<>>
      BY <1>3 DEF KeysIn, OfKind
    <2>1. VerifyKeys(x.keys, x.args[1].ty, Typed(t)) = "ok" /\ x.keys \in Seq(Key)
      BY <1>1, HwFacts DEF NodeOK
    <2> QED BY <2>1, KeysAreMembers
  <1> QED BY <1>2, <1>3 DEF MembersIn

LEMMA ReadIsDeclared ==
    ASSUME NEW t, NEW h \in Good(t)
    PROVE  Read(h, t) \subseteq Declared(t)
  <1>1. ASSUME NEW id \in References(h) PROVE NameOf(id, t) \in Declared(t)
    <2> PICK x \in Subexpressions(h) : x.kind = "reference" /\ x.id = id
      BY <1>1 DEF References, OfKind
    <2>1. WellTyped(x, Typed(t)) BY DEF Good, NodeOK
    <2>2. id \in DOMAIN Typed(t).type BY <2>1 DEF WellTyped
    <2> QED BY <2>2 DEF Declared, SignalNames
  <1>2. \A id \in MembersIn(h) : t.enums[id[1]].names[id[2]] \in Declared(t)
    BY MembersAreDeclared, MemberIsDeclared
  <1> QED BY <1>1, <1>2 DEF Read

\* What is set on some way is among what the statement sets.
LEMMA SetByIsWritten == \A s \in Stmt : SetBy(Paths(s)) \subseteq Wanted(s).writes
  <1> DEFINE P == {s \in Stmt : SetBy(Paths(s)) \subseteq Wanted(s).writes}
  <1>1. ASSUME NEW s \in Stmt, \A p \in Stmt : StmtRank[p] < StmtRank[s] => p \in P
        PROVE  s \in P
    <2> DEFINE b == Inside(s)
               all == UNION {Wanted(b[i]).writes : i \in DOMAIN b}
    <2>1. Wanted(s).writes = OwnWrites(s) \cup all BY WantedUnfold
    <2>2. \A i \in DOMAIN b : b[i] \in Stmt /\ SetBy(Paths(b[i])) \subseteq Wanted(b[i]).writes
      BY <1>1, InsideFacts DEF StmtPart
    <2>3. \A i \in DOMAIN b : SetBy(Paths(b[i])) \subseteq all BY <2>2
    <2>4. CASE s.stmt = "set"
      <3>1. Paths(s) = {<<s.target>>} BY <2>4, PathsUnfold
      <3>2. Range(<<s.target>>) = {s.target} BY DEF Range
      <3> QED BY <2>1, <2>4, <3>1, <3>2 DEF SetBy, OwnWrites
    <2>5. CASE s.stmt = "do"
      <3>1. PICK t : WaysThrough(t, b) /\ Paths(s) = t[Len(b)]
        <4>1. \E t : WaysThrough(t, Inside(s)) /\ Paths(s) = t[Len(Inside(s))]
          BY <2>5, PathsUnfold
        <4> QED BY <4>1
      <3>2. Len(b) \in Nat /\ DOMAIN b = 1..Len(b) BY InsideFacts
      <3> HIDE DEF b, all
      <3> DEFINE Q == {n \in Nat : n <= Len(b) => SetBy(t[n]) \subseteq all}
      <3>3. 0 \in Q
        <4>1. t[0] = {<<>>} /\ Range(<<>>) = {} BY <3>1 DEF WaysThrough, Range
        <4> QED BY <4>1 DEF SetBy
      <3>4. ASSUME NEW n \in Q PROVE n + 1 \in Q
        <4> SUFFICES ASSUME n + 1 <= Len(b) PROVE SetBy(t[n + 1]) \subseteq all OBVIOUS
        <4>1. n + 1 \in 1..Len(b) /\ (n + 1) - 1 = n /\ n \in 0..Len(b) /\ SetBy(t[n]) \subseteq all
          BY <3>2
        <4>2. t[n + 1] = Joined(t[n], Paths(b[n + 1])) /\ t[n] \in SUBSET Seq(Names)
          BY <3>1, <4>1 DEF WaysThrough
        <4>3. Paths(b[n + 1]) \in SUBSET Seq(Names) /\ SetBy(Paths(b[n + 1])) \subseteq all
          BY <2>2, <2>3, <3>2, <4>1, PathsUnfold
        <4> HIDE DEF Q
        <4>4. ASSUME NEW x \in t[n + 1] PROVE Range(x) \subseteq all
          <5> PICK p \in t[n], q \in Paths(b[n + 1]) : x = p \o q BY <4>2 DEF Joined
          <5>1. Range(x) = Range(p) \cup Range(q)
            <6>1. p \in Seq(Names) /\ q \in Seq(Names) BY <4>2, <4>3
            <6> QED BY <6>1, ConcatFacts
          <5>2. Range(p) \subseteq all /\ Range(q) \subseteq all BY <4>1, <4>3 DEF SetBy
          <5> QED BY <5>1, <5>2
        <4> QED BY <4>4 DEF SetBy
      <3>5. \A n \in Nat : n \in Q
        <4>1. Q \in SUBSET Nat OBVIOUS
        <4> HIDE DEF Q
        <4> QED BY <3>3, <3>4, <4>1, NaturalInduction
      <3>6. SetBy(Paths(s)) \subseteq all BY <3>1, <3>2, <3>5
      <3> QED BY <2>1, <3>6 DEF b
    <2>6. CASE s.stmt \in {"if", "case"}
      <3>1. Paths(s) = (UNION {Paths(b[i]) : i \in DOMAIN b}) \cup Nothing(s)
        BY <2>6, PathsUnfold
      <3> HIDE DEF b, all
      <3>2. \A p \in Nothing(s) : Range(p) = {} BY DEF Nothing, Range
      <3>3. ASSUME NEW p \in Paths(s) PROVE Range(p) \subseteq all
        <4>1. CASE p \in Nothing(s) BY <3>2, <4>1
        <4>2. CASE p \notin Nothing(s)
          <5> PICK i \in DOMAIN b : p \in Paths(b[i]) BY <3>1, <4>2
          <5> QED BY <2>3 DEF SetBy
        <4> QED BY <4>1, <4>2
      <3>4. SetBy(Paths(s)) \subseteq all BY <3>3 DEF SetBy
      <3> QED BY <2>1, <3>4 DEF b
    <2> QED BY <2>4, <2>5, <2>6, StmtFacts
  <1>2. StmtRank \in [Stmt -> Nat]
    <2>1. \A x \in Stmt : StmtRank[x] \in Nat BY StmtFacts
    <2> QED BY <2>1, StmtTree DEF IsTree
  <1>3. P = Stmt
    <2>1. P \in SUBSET Stmt OBVIOUS
    <2> HIDE DEF P
    <2> QED BY <1>1, <1>2, <2>1, RankInduction
  <1> QED BY <1>3

-----------------------------------------------------------------------------
(* Lowered statements *)

\* A right result for the statement s.
StmtOK(s, x, t) ==
    /\ x \in HwStmt /\ HwStmtRank[x] <= StmtRank[s]
    /\ StmtText(x, t) = Wanted(s)
    /\ Wanted(s).writes \subseteq RegisterNames(t) /\ Wanted(s).reads \subseteq Declared(t)
    /\ Paths(s) # {}
    /\ \A before \in SUBSET SetIds(t) : Judged(VerifyStmt(x, t, before), Paths(s), before, t)
StmtResults(s, t) == Errors \cup {x \in HwStmt : StmtOK(s, x, t)}
\* Right results for the statements inside s.
InsideOK(b, s, t) ==
    /\ Len(b) = Len(Inside(s)) /\ DOMAIN b = DOMAIN Inside(s)
    /\ \A i \in DOMAIN Inside(s) : StmtOK(Inside(s)[i], b[i], t)

StmtOperands(s) == Lower(HwStmt, HwStmtRank, StmtRank[s])

LEMMA StmtNodeLowered ==
    ASSUME NEW s \in Stmt, NEW x \in HwStmtNode(StmtOperands(s))
    PROVE  x \in HwStmt /\ HwStmtRank[x] <= StmtRank[s]
  <1>1. StmtRank[s] \in 1..Depth BY StmtFacts
  <1> QED BY <1>1, HwStmtTree DEF IsTree, Node, StmtOperands

LEMMA InsideIsOperand ==
    ASSUME NEW s \in Stmt, NEW t, NEW b, InsideOK(b, s, t)
    PROVE  \A i \in DOMAIN b : b[i] \in StmtOperands(s)
  <1> SUFFICES ASSUME NEW i \in DOMAIN b PROVE b[i] \in StmtOperands(s)
    OBVIOUS
  <1>1. /\ b[i] \in HwStmt /\ HwStmtRank[b[i]] <= StmtRank[Inside(s)[i]]
        /\ i \in DOMAIN Inside(s)
    BY DEF InsideOK, StmtOK
  <1>2. Inside(s)[i] \in Stmt /\ StmtRank[Inside(s)[i]] < StmtRank[s]
    BY <1>1, InsideFacts DEF StmtPart
  <1>3. /\ StmtRank[s] \in 1..Depth /\ StmtRank[Inside(s)[i]] \in 1..Depth
        /\ HwStmtRank[b[i]] \in 1..Depth
    BY <1>1, <1>2, StmtFacts, HwStmtFacts
  <1>4. Depth \in Nat BY WidthsAssumption
  <1> QED BY <1>1, <1>2, <1>3, <1>4 DEF StmtOperands, Lower

LEMMA TextOfNode ==
    ASSUME NEW s \in Stmt, NEW t, NEW x \in HwStmt, InsideOK(HwInside(x), s, t),
           HwOwnWrites(x, t) = OwnWrites(s), HwOwnReads(x, t) = OwnReads(s)
    PROVE  StmtText(x, t) = Wanted(s)
  <1> DEFINE b == HwInside(x)
             c == Inside(s)
  <1>1. DOMAIN b = DOMAIN c /\ \A i \in DOMAIN b : StmtText(b[i], t) = Wanted(c[i])
    BY DEF InsideOK, StmtOK
  <1>2. {StmtText(b[i], t).writes : i \in DOMAIN b} = {Wanted(c[i]).writes : i \in DOMAIN c}
    BY <1>1
  <1>3. {StmtText(b[i], t).reads : i \in DOMAIN b} = {Wanted(c[i]).reads : i \in DOMAIN c}
    BY <1>1
  <1>4. StmtText(x, t) = [writes |-> HwOwnWrites(x, t) \cup UNION {StmtText(b[i], t).writes : i \in DOMAIN b},
                          reads |-> HwOwnReads(x, t) \cup UNION {StmtText(b[i], t).reads : i \in DOMAIN b}]
    BY TextUnfold
  <1>5. Wanted(s) = [writes |-> OwnWrites(s) \cup UNION {Wanted(c[i]).writes : i \in DOMAIN c},
                     reads |-> OwnReads(s) \cup UNION {Wanted(c[i]).reads : i \in DOMAIN c}]
    BY WantedUnfold
  <1> HIDE DEF b, c
  <1> QED BY <1>2, <1>3, <1>4, <1>5

LEMMA KnownNode ==
    ASSUME NEW s \in Stmt, NEW t, NEW b, InsideOK(b, s, t),
           OwnWrites(s) \subseteq RegisterNames(t), OwnReads(s) \subseteq Declared(t)
    PROVE  Wanted(s).writes \subseteq RegisterNames(t) /\ Wanted(s).reads \subseteq Declared(t)
  <1> DEFINE c == Inside(s)
  <1>1. \A i \in DOMAIN c : /\ Wanted(c[i]).writes \subseteq RegisterNames(t)
                            /\ Wanted(c[i]).reads \subseteq Declared(t)
    BY DEF InsideOK, StmtOK
  <1>2. Wanted(s) = [writes |-> OwnWrites(s) \cup UNION {Wanted(c[i]).writes : i \in DOMAIN c},
                     reads |-> OwnReads(s) \cup UNION {Wanted(c[i]).reads : i \in DOMAIN c}]
    BY WantedUnfold
  <1> HIDE DEF c
  <1> QED BY <1>1, <1>2

\* A sequence: the ways to each statement, and what verify_stmt says of them.
LEMMA SequenceJudged ==
    ASSUME NEW s \in Stmt, s.stmt = "do", NEW t, NEW v, StmtsVerified(v, t),
           NEW b, InsideOK(b, s, t), NEW before \in SUBSET SetIds(t)
    PROVE  Paths(s) # {} /\ Judged(VerifySequence(b, before, v), Paths(s), before, t)
  <1> DEFINE n == Len(b)
             c == Inside(s)
  <1>1. n \in Nat /\ n = Len(c) /\ DOMAIN b = 1..n /\ DOMAIN c = 1..n
    BY InsideFacts DEF InsideOK
  <1>2. \A i \in 1..n : StmtOK(c[i], b[i], t) /\ b[i] \in HwStmt
    BY <1>1 DEF InsideOK, StmtOK
  <1>3. before \in SUBSET Nat BY DEF SetIds
  <1>4. PICK a : OutcomesTo(a, b, before, v) /\ VerifySequence(b, before, v) = a[n]
    <2>1. Verifies(v, b) BY <1>1, <1>2 DEF Verifies, StmtsVerified
    <2> QED BY <1>3, <2>1, SequenceUnfold
  <1>5. PICK w : WaysThrough(w, c) /\ Paths(s) = w[n] BY <1>1, PathsUnfold
  <1>6. \A i \in 1..n : /\ Paths(c[i]) \in SUBSET Seq(Names) /\ Paths(c[i]) # {}
                        /\ \A U \in SUBSET SetIds(t) : Judged(v[b[i]][U], Paths(c[i]), U, t)
    <2> TAKE i \in 1..n
    <2>1. c[i] \in Stmt BY <1>1, InsideFacts DEF StmtPart
    <2>2. \A U \in SUBSET SetIds(t) : U \in SUBSET Nat BY DEF SetIds
    <2> QED BY <1>2, <2>1, <2>2, PathsUnfold DEF StmtOK, StmtsVerified
  <1> HIDE DEF c, n
  <1>7. /\ w \in [0..n -> SUBSET Seq(Names)] /\ w[0] = {<<>>}
        /\ \A i \in 1..n : w[i] = Joined(w[i - 1], Paths(c[i]))
    BY <1>1, <1>5 DEF WaysThrough
  <1>8. /\ a[0] = [updates |-> before]
        /\ \A i \in 1..n : a[i] = IF IsError(a[i - 1]) THEN a[i - 1] ELSE v[b[i]][a[i - 1].updates]
    BY <1>4 DEF OutcomesTo, n
  <1> DEFINE P == {i \in Nat : i <= n => w[i] # {} /\ Judged(a[i], w[i], before, t)}
  <1>9. 0 \in P
    <2>1. a[0] \in Updates /\ a[0].updates = before BY <1>3, <1>8 DEF Updates
    <2>2. SetBy(w[0]) = {} BY <1>7 DEF SetBy, Range
    <2>3. ~Clashes(w[0], NamesOf(before, t)) BY <1>7 DEF Clashes, IsInjective, Range
    <2>4. Judged(a[0], w[0], before, t) BY <2>1, <2>2, <2>3 DEF Judged
    <2> QED BY <1>7, <2>4
  <1>10. ASSUME NEW i \in P PROVE i + 1 \in P
    <2> SUFFICES ASSUME i + 1 <= n
                 PROVE  w[i + 1] # {} /\ Judged(a[i + 1], w[i + 1], before, t)
      OBVIOUS
    <2>1. /\ i \in 0..n /\ i + 1 \in 1..n /\ (i + 1) - 1 = i
          /\ w[i] # {} /\ Judged(a[i], w[i], before, t) /\ w[i] \in SUBSET Seq(Names)
      BY <1>1, <1>7
    <2> DEFINE qs == Paths(c[i + 1])
               r == a[i]
               ps == w[i]
    <2>2. w[i + 1] = Joined(w[i], qs) BY <1>7, <2>1
    <2>3. a[i + 1] = IF IsError(r) THEN r ELSE v[b[i + 1]][r.updates] BY <1>8, <2>1
    <2>4. /\ qs \in SUBSET Seq(Names) /\ qs # {}
          /\ \A U \in SUBSET SetIds(t) : Judged(v[b[i + 1]][U], qs, U, t)
      BY <1>6, <2>1
    <2>5. Judged(r, ps, before, t) /\ ps \in SUBSET Seq(Names) /\ ps # {} BY <2>1
    <2>6. w[i + 1] # {} BY <2>1, <2>2, <2>4, JoinedClashes
    <2>7. CASE IsError(r)
      <3>1. Judged(r, Joined(ps, qs), before, t)
        <4> HIDE DEF P, qs, r, ps
        <4> QED BY <2>4, <2>5, <2>7, JudgedThen
      <3>2. a[i + 1] = r BY <2>3, <2>7
      <3> HIDE DEF P, qs, r, ps
      <3> QED BY <2>2, <2>6, <3>1, <3>2 DEF ps
    <2>8. CASE ~IsError(r)
      <3>1. r.updates \in SUBSET SetIds(t) BY <2>5, <2>8, JudgedUpdates
      <3> DEFINE next == v[b[i + 1]][r.updates]
      <3>2. Judged(next, qs, r.updates, t) BY <2>4, <3>1
      <3>3. Judged(next, Joined(ps, qs), before, t)
        <4> HIDE DEF P, qs, r, ps, next
        <4> QED BY <2>4, <2>5, <2>8, <3>2, JudgedThen
      <3>4. a[i + 1] = next BY <2>3, <2>8
      <3> HIDE DEF P, qs, r, ps, next
      <3> QED BY <2>2, <2>6, <3>3, <3>4 DEF ps
    <2> QED BY <2>7, <2>8
  <1>11. n \in P
    <2>1. P \in SUBSET Nat OBVIOUS
    <2> HIDE DEF P
    <2> QED BY <1>1, <1>9, <1>10, <2>1, NaturalInduction
  <1> QED BY <1>1, <1>4, <1>5, <1>11 DEF n

LEMMA InsideEmpty ==
    ASSUME NEW s \in Stmt, Len(Inside(s)) = 0
    PROVE  Inside(s) = <<>>
  <1> DEFINE c == Inside(s)
  <1>1. c = [i \in DOMAIN c |-> c[i]]
    <2>1. CASE s.stmt = "set" BY <2>1, InsideFacts
    <2>2. CASE s.stmt \in {"do", "if"}
      <3>1. s \in StmtNode(Lower(Stmt, StmtRank, StmtRank[s])) BY StmtTree DEF IsTree, Node
      <3>2. \E S : c \in Seq(S) \cup [1..1 -> S] \cup [1..2 -> S]
        BY <2>2, <3>1, StmtNodeFacts, InsideFacts
      <3> HIDE DEF c
      <3> QED BY <3>2
    <2>3. CASE s.stmt = "case"
      <3>1. c = [i \in DOMAIN s.arms |-> s.arms[i].value] BY <2>3, InsideFacts
      <3> HIDE DEF c
      <3> QED BY <3>1
    <2> QED BY <2>1, <2>2, <2>3, StmtFacts
  <1>2. DOMAIN c = 1..0 BY InsideFacts
  <1> HIDE DEF c
  <1>3. c \in [1..0 -> {}] BY <1>1, <1>2
  <1> QED BY <1>3 DEF c

LEMMA BranchesJudged ==
    ASSUME NEW s \in Stmt, s.stmt \in {"if", "case"}, Inside(s) # <<>>, NEW t, NEW v, StmtsVerified(v, t),
           NEW x \in HwStmt, x.stmt \in {"if", "case"}, InsideOK(x.branches, s, t),
           NEW before \in SUBSET SetIds(t)
    PROVE  Paths(s) # {} /\ Judged(VerifyBranches(x, before, v), Paths(s), before, t)
  <1> DEFINE n == Len(x.branches)
             b == x.branches
             c == Inside(s)
             r == VerifyBranches(x, before, v)
             N == NamesOf(before, t)
  <1>1. n \in Nat /\ n = Len(c) /\ DOMAIN b = 1..n /\ DOMAIN c = 1..n
    BY InsideFacts DEF InsideOK
  <1>2. \A i \in 1..n : StmtOK(c[i], b[i], t) /\ b[i] \in HwStmt
    BY <1>1 DEF InsideOK, StmtOK
  <1>3. before \in SUBSET Nat BY DEF SetIds
  <1>4. \A i \in 1..n : /\ Paths(c[i]) # {} /\ v[b[i]][before] \in Outcomes
                        /\ Judged(v[b[i]][before], Paths(c[i]), before, t)
    <2> TAKE i \in 1..n
    <2>1. v[b[i]] \in [SUBSET Nat -> Outcomes] /\ VerifyStmt(b[i], t, before) = v[b[i]][before]
      BY <1>2, <1>3 DEF StmtsVerified
    <2> QED BY <1>2, <1>3, <2>1 DEF StmtOK
  <1>5. Paths(s) = (UNION {Paths(c[i]) : i \in 1..n}) \cup Nothing(s)
    BY <1>1, PathsUnfold
  <1>6. n >= 1
    <2>1. c # <<>> OBVIOUS
    <2>2. Len(c) \in Nat /\ DOMAIN c = 1..Len(c) BY <1>1
    <2>3. n = 0 => c = <<>> BY <1>1, InsideEmpty
    <2> HIDE DEF c
    <2> QED BY <1>1, <2>1, <2>3
  <1>7. Paths(s) # {}
    <2>1. 1 \in 1..n BY <1>1, <1>6
    <2> QED BY <1>4, <1>5, <2>1
  <1>8. /\ r \in Outcomes
        /\ IsError(r) => \E i \in DOMAIN b : r = v[b[i]][before]
        /\ ~IsError(r) => /\ \A i \in DOMAIN b : ~IsError(v[b[i]][before])
                          /\ r.updates = before \cup UNION {v[b[i]][before].updates : i \in DOMAIN b}
    <2>1. \A i \in DOMAIN x.branches : v[x.branches[i]][before] \in Outcomes BY <1>1, <1>4
    <2>2. Len(x.branches) \in Nat /\ DOMAIN x.branches = 1..Len(x.branches) BY <1>1
    <2>3. BranchesKnown(x, before, v) BY <2>1, <2>2 DEF BranchesKnown
    <2>4. BranchesGive(r, x, before, v) BY <1>3, <2>3, BranchesVerified
    <2> HIDE DEF r
    <2> QED BY <2>4 DEF BranchesGive
  <1> HIDE DEF n, b, c, r
  <1>9. CASE IsError(r)
    <2> PICK i \in 1..n : r = v[b[i]][before] BY <1>1, <1>8, <1>9
    <2>1. Judged(r, Paths(c[i]), before, t) BY <1>4
    <2>2. Clashes(Paths(c[i]), N) => Clashes(Paths(s), N) BY <1>5 DEF Clashes
    <2> QED BY <1>7, <1>9, <2>1, <2>2, JudgedError DEF Judged, r
  <1>10. CASE ~IsError(r)
    <2> DEFINE u(i) == v[b[i]][before].updates
    <2>1. r \in Updates BY <1>8, <1>10, OutcomeFacts, ErrorFacts DEF Outcomes
    <2>2. r.updates = before \cup UNION {u(i) : i \in 1..n} BY <1>1, <1>8, <1>10
    <2>3. \A i \in 1..n : /\ u(i) \subseteq SetIds(t) /\ before \subseteq u(i)
                          /\ NamesOf(u(i), t) = N \cup SetBy(Paths(c[i]))
                          /\ ~Clashes(Paths(c[i]), N)
      BY <1>1, <1>4, <1>8, <1>10, JudgedUpdates
    <2> HIDE DEF u
    <2>4. before \subseteq r.updates /\ r.updates \subseteq SetIds(t) BY <2>2, <2>3
    <2>5. NamesOf(r.updates, t) = N \cup UNION {NamesOf(u(i), t) : i \in 1..n}
      BY <2>2 DEF NamesOf
    <2>6. SetBy(Paths(s)) = UNION {SetBy(Paths(c[i])) : i \in 1..n}
      <3>1. \A p \in Nothing(s) : Range(p) = {} BY DEF Nothing, Range
      <3>2. ASSUME NEW x1 \in SetBy(Paths(s)) PROVE \E i \in 1..n : x1 \in SetBy(Paths(c[i]))
        BY <1>5, <3>1 DEF SetBy
      <3>3. ASSUME NEW i \in 1..n, NEW x1 \in SetBy(Paths(c[i])) PROVE x1 \in SetBy(Paths(s))
        BY <1>5 DEF SetBy
      <3> QED BY <3>2, <3>3
    <2>7. NamesOf(r.updates, t) = N \cup SetBy(Paths(s)) BY <2>3, <2>5, <2>6
    <2>8. ~Clashes(Paths(s), N)
      <3>1. \A p \in Nothing(s) : IsInjective(p) /\ Range(p) = {} BY DEF Nothing, Range, IsInjective
      <3> QED BY <1>5, <2>3, <3>1 DEF Clashes
    <2>9. Judged(r, Paths(s), before, t) BY <2>1, <2>4, <2>7, <2>8 DEF Judged
    <2> QED BY <1>7, <2>9 DEF r
  <1> QED BY <1>9, <1>10


\* t has the signals and members that a statement is lowered with.
SignalsHere(t) ==
    /\ EnvOK(Env, t)
    /\ \A n \in DOMAIN lookup : IsRegister(n) <=> IsRegisterName(n, t)

LEMMA GoodThen ==
    ASSUME NEW t, NEW e \in Good(t), NEW r
    PROVE  After(e, Typed(t), r) = r
  <1>1. VerifyExpr(e, Typed(t)) = "ok" BY GoodIsVerified DEF Good
  <1> QED BY <1>1 DEF After

\* Setting one register, that has a name of its own.
LEMMA SetJudged ==
    ASSUME NEW t, NEW id, id \in SetIds(t), NEW n \in Names, NameOf(id, t) = n,
           NEW before \in SUBSET SetIds(t), NEW ps, ps = {<<n>>},
           NEW r, r = IF id \in before THEN Error("DuplicateAssignment")
                      ELSE [updates |-> before \cup {id}]
    PROVE  Judged(r, ps, before, t)
  <1>1. IsInjective(<<n>>) /\ Range(<<n>>) = {n} BY DEF IsInjective, Range
  <1>2. SetBy(ps) = {n} BY <1>1 DEF SetBy
  <1>3. Clashes(ps, NamesOf(before, t)) <=> n \in NamesOf(before, t) BY <1>1 DEF Clashes
  <1>4. CASE id \in before
    <2>1. n \in NamesOf(before, t) BY <1>4 DEF NamesOf
    <2> QED BY <1>3, <1>4, <2>1 DEF Judged
  <1>5. CASE id \notin before
    <2>1. r = [updates |-> before \cup {id}] BY <1>5
    <2>2. before \cup {id} \subseteq SetIds(t) /\ before \cup {id} \in SUBSET Nat BY DEF SetIds
    <2>3. r \in Updates /\ r.updates = before \cup {id} BY <2>1, <2>2 DEF Updates
    <2>4. NamesOf(r.updates, t) = NamesOf(before, t) \cup {n} BY <2>3 DEF NamesOf
    <2>5. n \notin NamesOf(before, t)
      <3> SUFFICES ASSUME NEW j \in before, NameOf(j, t) = n PROVE FALSE BY DEF NamesOf
      <3>1. j \in Nat /\ id \in Nat /\ j # id /\ OwnId(j, t) /\ OwnId(id, t) BY <1>5 DEF SetIds
      <3>2. j \in 0..(id - 1) \/ id \in 0..(j - 1) BY <3>1
      <3> QED BY <3>1, <3>2 DEF OwnId
    <2> QED BY <1>2, <1>3, <2>2, <2>3, <2>4, <2>5 DEF Judged
  <1> QED BY <1>4, <1>5

LEMMA SetLowered ==
    ASSUME NEW s \in Stmt, s.stmt = "set", NEW t, SignalsHere(t), NEW f
    PROVE  LowerStmtStep(s, f) \in StmtResults(s, t)
  <1> DEFINE n == s.target
             value == LowerCore(s.value, Env, lookup[n].ty)
             x == [stmt |-> "set", target |-> lookup[n].id, value |-> value]
             r == LowerStmtStep(s, f)
  <1>0. /\ r = IF n \notin DOMAIN lookup THEN Error("UnknownSignal")
               ELSE IF ~IsRegister(n) THEN Error("InputAssignment")
               ELSE IF IsError(value) THEN value ELSE x
    BY DEF LowerStmtStep
  <1>1. Error("UnknownSignal") \in Errors /\ Error("InputAssignment") \in Errors
    BY DEF Errors, ErrorKinds
  <1>2. n \in Names /\ s.value \in CoreExpr BY StmtFacts
  <1>3. SUFFICES ASSUME n \in DOMAIN lookup, IsRegister(n) PROVE r \in StmtResults(s, t)
    BY <1>0, <1>1 DEF StmtResults
  <1>4. /\ lookup[n].ty \in HwTypes /\ lookup[n].id \in Nat /\ lookup[n].id \in DOMAIN Typed(t).type
        /\ Typed(t).type[lookup[n].id] = lookup[n].ty
        /\ NameOf(lookup[n].id, t) = n /\ OwnId(lookup[n].id, t)
        /\ IsRegisterName(n, t) /\ EnvOK(Env, t)
    BY <1>3 DEF SignalsHere, EnvOK, SignalsOK, Env
  <1>5. value \in Results(s.value, lookup[n].ty, t)
    BY <1>2, <1>4, CoreLowered DEF Expected
  <1>6. CASE IsError(value) BY <1>0, <1>3, <1>5, <1>6, ResultFacts DEF StmtResults
  <1>7. CASE ~IsError(value)
    <2>1. value \in Lowered(s.value, lookup[n].ty, t) BY <1>5, <1>7, ResultFacts
    <2>2. /\ value \in Good(t) /\ value \in HwExpr /\ value.ty = lookup[n].ty
          /\ Read(value, t) = NamesIn(s.value)
      <3>1. lookup[n].ty # Untyped BY <1>4, TypeFacts DEF Untyped, Unsigned
      <3> QED BY <2>1, <3>1, LoweredFacts
    <2> HIDE DEF value
    <2>3. x \in HwStmtNode(StmtOperands(s)) BY <1>4, <2>2 DEF HwStmtNode
    <2>4. x \in HwStmt /\ HwStmtRank[x] <= StmtRank[s] BY <2>3, StmtNodeLowered
    <2>5. x.stmt = "set" /\ x.target = lookup[n].id /\ x.value = value OBVIOUS
    <2> HIDE DEF x
    <2>6. /\ StmtText(x, t) = Wanted(s)
          /\ Wanted(s).writes \subseteq RegisterNames(t) /\ Wanted(s).reads \subseteq Declared(t)
      <3>1. Inside(s) = <<>> /\ HwInside(x) = <<>> BY <2>4, <2>5, InsideFacts, HwInsideFacts
      <3>2. InsideOK(HwInside(x), s, t) BY <3>1 DEF InsideOK
      <3>3. HwOwnWrites(x, t) = OwnWrites(s) BY <1>4, <2>5 DEF HwOwnWrites, OwnWrites
      <3>4. HwOwnReads(x, t) = OwnReads(s) BY <2>2, <2>5 DEF HwOwnReads, OwnReads
      <3>5. OwnWrites(s) \subseteq RegisterNames(t)
        <4>1. OwnWrites(s) = {n} /\ n \in SignalNames(t) BY <1>4 DEF OwnWrites, SignalNames
        <4> QED BY <1>4, <4>1 DEF RegisterNames
      <3>6. OwnReads(s) \subseteq Declared(t)
        <4>1. OwnReads(s) = Read(value, t) BY <2>2 DEF OwnReads
        <4> QED BY <2>2, <4>1, ReadIsDeclared
      <3> QED BY <2>4, <3>2, <3>3, <3>4, <3>5, <3>6, TextOfNode, KnownNode
    <2>7. Paths(s) = {<<n>>} BY PathsUnfold
    <2>8. ASSUME NEW before \in SUBSET SetIds(t) PROVE Judged(VerifyStmt(x, t, before), Paths(s), before, t)
      <3> DEFINE then == IF lookup[n].id \in before THEN Error("DuplicateAssignment")
                         ELSE [updates |-> before \cup {lookup[n].id}]
      <3>1. PICK v : StmtsVerified(v, t) BY VerifyUnfold
      <3>2. before \in SUBSET Nat BY DEF SetIds
      <3>3. VerifyStmt(x, t, before) = VerifyStmtStep(x, t, before, v)
        BY <2>4, <3>1, <3>2 DEF StmtsVerified
      <3>4. VerifyStmtStep(x, t, before, v) = After(value, Typed(t), then)
        BY <1>4, <2>2, <2>4, <2>5, SetVerified
      <3> HIDE DEF then
      <3>5. VerifyStmt(x, t, before) = then BY <2>2, <3>3, <3>4, GoodThen
      <3>6. lookup[n].id \in SetIds(t) BY <1>4 DEF SetIds
      <3> QED BY <1>2, <1>4, <2>7, <3>5, <3>6, SetJudged DEF then
    <2>9. StmtOK(s, x, t) BY <2>4, <2>6, <2>7, <2>8 DEF StmtOK
    <2> QED BY <1>0, <1>3, <1>7, <2>4, <2>9 DEF StmtResults
  <1> QED BY <1>6, <1>7


\* A lowered statement, of what is lowered inside.
LEMMA NodeIsOK ==
    ASSUME NEW s \in Stmt, NEW t, NEW x \in HwStmtNode(StmtOperands(s)), InsideOK(HwInside(x), s, t),
           HwOwnWrites(x, t) = OwnWrites(s), HwOwnReads(x, t) = OwnReads(s),
           OwnWrites(s) \subseteq RegisterNames(t), OwnReads(s) \subseteq Declared(t),
           Paths(s) # {},
           \A before \in SUBSET SetIds(t) : Judged(VerifyStmt(x, t, before), Paths(s), before, t)
    PROVE  x \in StmtResults(s, t)
  <1>1. x \in HwStmt /\ HwStmtRank[x] <= StmtRank[s] BY StmtNodeLowered
  <1>2. StmtText(x, t) = Wanted(s) BY <1>1, TextOfNode
  <1>3. Wanted(s).writes \subseteq RegisterNames(t) /\ Wanted(s).reads \subseteq Declared(t)
    BY KnownNode
  <1> QED BY <1>1, <1>2, <1>3 DEF StmtOK, StmtResults

\* The statements inside are lowered to right ones, or there is an error.
LoweredInside(b, s, t) ==
    /\ Len(b) = Len(Inside(s)) /\ DOMAIN b = DOMAIN Inside(s)
    /\ b = [i \in DOMAIN b |-> b[i]]
    /\ \A i \in DOMAIN b : b[i] \in StmtResults(Inside(s)[i], t)

LEMMA StmtResultFacts ==
    ASSUME NEW s \in Stmt, NEW t, NEW r \in StmtResults(s, t)
    PROVE  /\ IsError(r) => r \in Errors
           /\ ~IsError(r) => StmtOK(s, r, t)
  BY HwStmtFacts, ErrorFacts DEF StmtResults

LEMMA InsideTogether ==
    ASSUME NEW s \in Stmt, NEW t, NEW b, LoweredInside(b, s, t), NEW x
    PROVE  /\ AnyError(b) => Together(b, x) \in Errors
           /\ ~AnyError(b) => /\ Together(b, x) = x
                              /\ InsideOK(b, s, t) /\ b \in Seq(StmtOperands(s))
  <1>1. Len(b) \in Nat /\ DOMAIN b = 1..Len(b) BY InsideFacts DEF LoweredInside
  <1>2. \A i \in DOMAIN b : /\ IsError(b[i]) => b[i] \in Errors
                            /\ ~IsError(b[i]) => StmtOK(Inside(s)[i], b[i], t)
    <2> TAKE i \in DOMAIN b
    <2>1. Inside(s)[i] \in Stmt /\ b[i] \in StmtResults(Inside(s)[i], t)
      BY InsideFacts DEF LoweredInside, StmtPart
    <2> QED BY <2>1, StmtResultFacts
  <1>3. CASE AnyError(b)
    <2> PICK i \in DOMAIN b : FirstError(b) = b[i] /\ IsError(b[i]) BY <1>1, <1>3, FirstErrorFacts
    <2> QED BY <1>2, <1>3 DEF Together
  <1>4. CASE ~AnyError(b)
    <2>1. InsideOK(b, s, t) BY <1>2, <1>4 DEF InsideOK, LoweredInside, AnyError
    <2>2. \A i \in DOMAIN b : b[i] \in StmtOperands(s) BY <2>1, InsideIsOperand
    <2>3. b \in [1..Len(b) -> StmtOperands(s)] BY <1>1, <2>2 DEF LoweredInside
    <2>4. b \in Seq(StmtOperands(s)) BY <1>1, <2>3
    <2> QED BY <1>4, <2>1, <2>4 DEF Together
  <1> QED BY <1>3, <1>4

\* The same, from the last to the first.
LEMMA ReverseTogether ==
    ASSUME NEW s \in Stmt, NEW t, NEW b, LoweredInside(b, s, t), NEW x
    PROVE  /\ AnyError(b) => Together(Reverse(b), x) \in Errors
           /\ ~AnyError(b) => Together(Reverse(b), x) = x
  <1> DEFINE r == Reverse(b)
             n == Len(b)
  <1>1. n \in Nat /\ DOMAIN b = 1..n BY InsideFacts DEF LoweredInside
  <1>2. r = [i \in 1..n |-> b[(n - i) + 1]] BY DEF Reverse
  <1>3. DOMAIN r = 1..n /\ Len(r) = n /\ \A i \in 1..n : (n - i) + 1 \in 1..n /\ r[i] = b[(n - i) + 1]
    BY <1>1, <1>2
  <1>4. \A i \in 1..n : b[i] = r[(n - i) + 1] /\ (n - i) + 1 \in 1..n
    <2> TAKE i \in 1..n
    <2>1. (n - i) + 1 \in 1..n /\ (n - ((n - i) + 1)) + 1 = i BY <1>1
    <2> QED BY <1>3, <2>1
  <1> HIDE DEF r, n
  <1>5. AnyError(r) <=> AnyError(b) BY <1>1, <1>3, <1>4 DEF AnyError
  <1>6. CASE AnyError(b)
    <2>1. Len(r) \in Nat /\ DOMAIN r = 1..Len(r) /\ AnyError(r) BY <1>1, <1>3, <1>5, <1>6
    <2> PICK i \in DOMAIN r : FirstError(r) = r[i] /\ IsError(r[i]) BY <2>1, FirstErrorFacts
    <2>2. i \in 1..n BY <1>3
    <2> DEFINE j == (n - i) + 1
    <2>3. r[i] = b[j] /\ j \in DOMAIN b BY <1>1, <1>3, <2>2
    <2>4. j \in DOMAIN Inside(s) /\ Inside(s)[j] \in Stmt /\ b[j] \in StmtResults(Inside(s)[j], t)
      BY <2>3, InsideFacts DEF LoweredInside, StmtPart
    <2> HIDE DEF j
    <2>5. r[i] \in Errors BY <2>3, <2>4, StmtResultFacts
    <2> QED BY <1>6, <2>1, <2>5 DEF Together, r
  <1>7. CASE ~AnyError(b) BY <1>5, <1>7 DEF Together, r
  <1> QED BY <1>6, <1>7

LEMMA DoLowered ==
    ASSUME NEW s \in Stmt, s.stmt = "do", NEW t, NEW f,
           \A i \in DOMAIN Inside(s) : f[Inside(s)[i]] \in StmtResults(Inside(s)[i], t)
    PROVE  LowerStmtStep(s, f) \in StmtResults(s, t)
  <1> DEFINE b == [i \in DOMAIN s.body |-> f[s.body[i]]]
             x == [stmt |-> "block", body |-> b]
             r == LowerStmtStep(s, f)
  <1>1. r = IF s.body = <<>> THEN Error("InvalidModule") ELSE Together(b, x)
    BY DEF LowerStmtStep, Block
  <1>2. Error("InvalidModule") \in Errors BY DEF Errors, ErrorKinds
  <1>3. SUFFICES ASSUME s.body # <<>> PROVE r \in StmtResults(s, t)
    BY <1>1, <1>2 DEF StmtResults
  <1>4. Inside(s) = s.body /\ Len(s.body) \in Nat /\ DOMAIN s.body = 1..Len(s.body)
    BY InsideFacts
  <1>5. LoweredInside(b, s, t)
    <2>1. DOMAIN b = 1..Len(s.body) /\ Len(b) = Len(s.body) BY <1>4
    <2>2. b = [i \in DOMAIN b |-> b[i]] OBVIOUS
    <2> QED BY <1>4, <2>1, <2>2 DEF LoweredInside
  <1> HIDE DEF b
  <1>6. CASE AnyError(b) BY <1>1, <1>3, <1>5, <1>6, InsideTogether DEF StmtResults
  <1>7. CASE ~AnyError(b)
    <2>1. r = x /\ InsideOK(b, s, t) /\ b \in Seq(StmtOperands(s))
      BY <1>1, <1>3, <1>5, <1>7, InsideTogether
    <2>2. x \in HwStmtNode(StmtOperands(s)) BY <2>1 DEF HwStmtNode
    <2>3. x \in HwStmt BY <2>2, StmtNodeLowered
    <2>4. x.stmt = "block" /\ x.body = b OBVIOUS
    <2> HIDE DEF x
    <2>5. HwInside(x) = b BY <2>3, <2>4, HwInsideFacts
    <2>6. HwOwnWrites(x, t) = OwnWrites(s) /\ HwOwnReads(x, t) = OwnReads(s)
          /\ OwnWrites(s) = {} /\ OwnReads(s) = {}
      BY <2>4 DEF HwOwnWrites, HwOwnReads, OwnWrites, OwnReads
    <2>7. b # <<>>
      <3>1. Len(s.body) # 0 BY <1>3, <1>4, InsideEmpty
      <3> QED BY <1>4, <2>1, <3>1 DEF InsideOK
    <2>8. ASSUME NEW before \in SUBSET SetIds(t)
          PROVE  Paths(s) # {} /\ Judged(VerifyStmt(x, t, before), Paths(s), before, t)
      <3>1. PICK v : StmtsVerified(v, t) BY VerifyUnfold
      <3>2. before \in SUBSET Nat BY DEF SetIds
      <3>3. VerifyStmt(x, t, before) = VerifyStmtStep(x, t, before, v)
        BY <2>3, <3>1, <3>2 DEF StmtsVerified
      <3>4. VerifyStmtStep(x, t, before, v) = VerifySequence(b, before, v)
        BY <2>3, <2>4, <2>7, BlockVerified
      <3> QED BY <2>1, <3>1, <3>3, <3>4, SequenceJudged
    <2>9. Paths(s) # {} BY <2>8
    <2> QED BY <2>1, <2>2, <2>5, <2>6, <2>8, <2>9, NodeIsOK
  <1> QED BY <1>6, <1>7


LEMMA IfLowered ==
    ASSUME NEW s \in Stmt, s.stmt = "if", NEW t, SignalsHere(t), NEW f,
           \A i \in DOMAIN Inside(s) : f[Inside(s)[i]] \in StmtResults(Inside(s)[i], t)
    PROVE  LowerStmtStep(s, f) \in StmtResults(s, t)
  <1> DEFINE b == [i \in DOMAIN s.branches |-> f[s.branches[i]]]
             c == LowerCore(s.cond, Env, Untyped)
             x == [stmt |-> "if", cond |-> c, branches |-> b]
             r == LowerStmtStep(s, f)
  <1>1. r = IF IsError(c) THEN c
            ELSE IF c.ty # Bit THEN Error("InvalidCondition") ELSE Together(Reverse(b), x)
    BY DEF LowerStmtStep, If
  <1>2. Error("InvalidCondition") \in Errors BY DEF Errors, ErrorKinds
  <1>3. s.cond \in CoreExpr /\ Len(s.branches) \in {1, 2} /\ Len(s.branches) \in Nat
        /\ Inside(s) = s.branches /\ DOMAIN s.branches = 1..Len(s.branches)
    BY StmtFacts, InsideFacts
  <1>4. c \in Results(s.cond, Untyped, t)
    <2>1. EnvOK(Env, t) BY DEF SignalsHere
    <2> QED BY <1>3, <2>1, CoreLowered DEF Expected
  <1>5. LoweredInside(b, s, t)
    <2>1. DOMAIN b = 1..Len(s.branches) /\ Len(b) = Len(s.branches) BY <1>3
    <2>2. b = [i \in DOMAIN b |-> b[i]] OBVIOUS
    <2> QED BY <1>3, <2>1, <2>2 DEF LoweredInside
  <1> HIDE DEF b, c
  <1>6. CASE IsError(c) BY <1>1, <1>4, <1>6, ResultFacts DEF StmtResults
  <1>7. CASE ~IsError(c) /\ c.ty # Bit BY <1>1, <1>2, <1>7 DEF StmtResults
  <1>8. CASE ~IsError(c) /\ c.ty = Bit /\ AnyError(b)
    BY <1>1, <1>5, <1>8, ReverseTogether DEF StmtResults
  <1>9. CASE ~IsError(c) /\ c.ty = Bit /\ ~AnyError(b)
    <2>1. r = x /\ InsideOK(b, s, t) /\ b \in Seq(StmtOperands(s))
      BY <1>1, <1>5, <1>9, InsideTogether, ReverseTogether
    <2>2. c \in Lowered(s.cond, Untyped, t) BY <1>4, <1>9, ResultFacts
    <2>3. c \in Good(t) /\ c \in HwExpr /\ Read(c, t) = NamesIn(s.cond) BY <2>2, LoweredFacts
    <2>4. x \in HwStmtNode(StmtOperands(s)) BY <2>1, <2>3 DEF HwStmtNode
    <2>5. x \in HwStmt BY <2>4, StmtNodeLowered
    <2>6. x.stmt = "if" /\ x.cond = c /\ x.branches = b OBVIOUS
    <2> HIDE DEF x
    <2>7. HwInside(x) = b BY <2>5, <2>6, HwInsideFacts
    <2>8. HwOwnWrites(x, t) = OwnWrites(s) /\ HwOwnReads(x, t) = OwnReads(s)
          /\ OwnWrites(s) = {} /\ OwnReads(s) \subseteq Declared(t)
      <3>1. HwOwnWrites(x, t) = OwnWrites(s) /\ HwOwnReads(x, t) = OwnReads(s)
            /\ OwnWrites(s) = {} /\ OwnReads(s) = Read(c, t)
        BY <2>3, <2>6 DEF HwOwnWrites, HwOwnReads, OwnWrites, OwnReads
      <3> QED BY <2>3, <3>1, ReadIsDeclared
    <2>9. ASSUME NEW before \in SUBSET SetIds(t)
          PROVE  Paths(s) # {} /\ Judged(VerifyStmt(x, t, before), Paths(s), before, t)
      <3>1. PICK v : StmtsVerified(v, t) BY VerifyUnfold
      <3>2. before \in SUBSET Nat BY DEF SetIds
      <3>3. VerifyStmt(x, t, before) = VerifyStmtStep(x, t, before, v)
        BY <2>5, <3>1, <3>2 DEF StmtsVerified
      <3>4. VerifyStmtStep(x, t, before, v) = After(c, Typed(t), VerifyBranches(x, before, v))
        BY <1>9, <2>5, <2>6, IfVerified
      <3>5. VerifyStmt(x, t, before) = VerifyBranches(x, before, v) BY <2>3, <3>3, <3>4, GoodThen
      <3>6. Inside(s) # <<>>
        <4>1. Len(Inside(s)) \in {1, 2} BY <1>3, Zenon
        <4>2. Len(Inside(s)) # 0 BY <4>1
        <4>3. Len(<<>>) = 0 OBVIOUS
        <4> QED BY <4>2, <4>3, Zenon
      <3> QED BY <2>1, <2>5, <2>6, <3>1, <3>5, <3>6, BranchesJudged
    <2>10. Paths(s) # {} BY <2>9
    <2> QED BY <2>1, <2>4, <2>7, <2>8, <2>9, <2>10, NodeIsOK
  <1> QED BY <1>6, <1>7, <1>8, <1>9

\* The arms with a key come first; if each key and statement is right, so are all.
LEMMA CaseDoNode ==
    ASSUME NEW s \in Stmt, s.stmt = "case", Inside(s) # <<>>, NEW t,
           NEW c \in Good(t), Read(c, t) = NamesIn(s.cond),
           NEW ks, KeysTogether(ks, s.arms, c.ty, t),
           NEW b \in Seq(StmtOperands(s)), InsideOK(b, s, t),
           NEW x, x = [stmt |-> "case", cond |-> c, branches |-> b, keys |-> ks]
    PROVE  x \in StmtResults(s, t)
  <1>1. c \in HwExpr BY DEF Good
  <1>2. ks \in Seq(Key) /\ VerifyKeys(ks, c.ty, Typed(t)) = "ok"
        /\ MemberNames({key.member : key \in Range(ks)} \ {<<>>}, t)
              = UNION {NamesIn(s.arms[i].key) \ {"else"} : i \in DOMAIN s.arms}
    BY DEF KeysTogether
  <1>3. x \in HwStmtNode(StmtOperands(s)) BY <1>1, <1>2 DEF HwStmtNode
  <1>4. x \in HwStmt BY <1>3, StmtNodeLowered
  <1>5. x.stmt = "case" /\ x.cond = c /\ x.branches = b /\ x.keys = ks OBVIOUS
  <1>6. HwInside(x) = b BY <1>4, <1>5, HwInsideFacts
  <1>7. HwOwnWrites(x, t) = OwnWrites(s) /\ OwnWrites(s) = {}
    BY <1>5 DEF HwOwnWrites, OwnWrites
  <1>8. HwOwnReads(x, t) = OwnReads(s) /\ OwnReads(s) \subseteq Declared(t)
    <2>1. HwOwnReads(x, t) = Read(c, t) \cup MemberNames({key.member : key \in Range(ks)} \ {<<>>}, t)
      BY <1>5 DEF HwOwnReads
    <2>2. OwnReads(s) = NamesIn(s.cond)
                          \cup UNION {NamesIn(s.arms[i].key) \ {"else"} : i \in DOMAIN s.arms}
      BY DEF OwnReads
    <2>3. MemberNames({key.member : key \in Range(ks)} \ {<<>>}, t) \subseteq Declared(t)
      <3>1. \A key \in Range(ks) : key.member # <<>> => IsMember(key.member, t)
        BY <1>2, KeysAreMembers
      <3> QED BY <3>1, MemberIsDeclared DEF MemberNames
    <2>4. Read(c, t) \subseteq Declared(t) BY ReadIsDeclared
    <2> QED BY <1>2, <2>1, <2>2, <2>3, <2>4
  <1>9. ASSUME NEW before \in SUBSET SetIds(t)
        PROVE  Paths(s) # {} /\ Judged(VerifyStmt(x, t, before), Paths(s), before, t)
    <2>1. PICK v : StmtsVerified(v, t) BY VerifyUnfold
    <2>2. before \in SUBSET Nat BY DEF SetIds
    <2> DEFINE r == VerifyBranches(x, before, v)
    <2>3. VerifyStmt(x, t, before) = VerifyStmtStep(x, t, before, v)
      BY <1>4, <2>1, <2>2 DEF StmtsVerified
    <2>4. VerifyStmtStep(x, t, before, v) = After(c, Typed(t), KeysThen(x, t, r))
      BY <1>4, <1>5, CaseVerified
    <2>5. VerifyStmt(x, t, before) = KeysThen(x, t, r) BY <2>3, <2>4, GoodThen
    <2>6. Paths(s) # {} /\ Judged(r, Paths(s), before, t)
      BY <1>4, <1>5, <2>1, BranchesJudged
    <2> HIDE DEF r
    <2>7. KeysThen(x, t, r) \in {Error("InvalidModule"), r} BY <1>2, <1>5 DEF KeysThen
    <2> QED BY <2>5, <2>6, <2>7 DEF Judged
  <1>10. Paths(s) # {} BY <1>9
  <1> QED BY <1>3, <1>6, <1>7, <1>8, <1>9, <1>10, NodeIsOK

LEMMA ArmsAreKeyed ==
    ASSUME NEW arms, Len(arms) \in Nat, DOMAIN arms = 1..Len(arms), NEW ty, NEW t,
           NEW keys, KeysOK(keys, arms, ty, t), \A i \in DOMAIN keys : ~IsError(keys[i])
    PROVE  KeyedArms(arms, keys, Cardinality({i \in DOMAIN arms : ~IsElse(arms[i].key)}))
  <1> DEFINE n == Len(arms)
             last(i) == IsElse(arms[i].key)
             ok(i) == ~IsError(keys[i])
             keyed == {i \in 1..n : ~last(i)}
  <1>0. n \in Nat /\ {i \in DOMAIN arms : ~IsElse(arms[i].key)} = keyed OBVIOUS
  <1>1. \A i \in 1..n : ok(i) /\ (last(i) => i = n) BY DEF KeysOK
  <1>2. \A k \in 0..n : (\A i \in 1..k : ok(i) /\ ~last(i)) /\ (\A i \in (k + 1)..n : last(i))
                       => KeyedArms(arms, keys, k)
    BY DEF KeyedArms
  <1> HIDE DEF n, last, ok
  <1>3. CASE keyed = 1..n
    <2>1. Cardinality(1..n) = n BY <1>0, FS_Interval
    <2>2. \A i \in 1..n : ~last(i) BY <1>3
    <2>3. n \in 0..n /\ (n + 1)..n = {} BY <1>0
    <2>4. KeyedArms(arms, keys, n) BY <1>1, <1>2, <2>2, <2>3
    <2> QED BY <1>0, <1>3, <2>1, <2>4
  <1>4. CASE keyed # 1..n
    <2>1. n >= 1 /\ last(n) BY <1>0, <1>1, <1>4
    <2>2. keyed = 1..(n - 1) BY <1>0, <1>1, <2>1
    <2>3. n - 1 \in 0..n /\ ((n - 1) + 1)..n = {n} BY <1>0, <2>1
    <2>4. Cardinality(1..(n - 1)) = n - 1 BY <2>3, FS_Interval
    <2>5. \A i \in 1..(n - 1) : i \in 1..n /\ i # n BY <1>0, <2>1
    <2>6. KeyedArms(arms, keys, n - 1) BY <1>1, <1>2, <2>1, <2>3, <2>5
    <2> QED BY <1>0, <2>2, <2>4, <2>6
  <1> QED BY <1>3, <1>4

LEMMA CaseDoLowered ==
    ASSUME NEW s \in Stmt, s.stmt = "case", NEW t, SignalsHere(t), NEW f,
           \A i \in DOMAIN Inside(s) : f[Inside(s)[i]] \in StmtResults(Inside(s)[i], t)
    PROVE  LowerStmtStep(s, f) \in StmtResults(s, t)
  <1> DEFINE c == LowerCore(s.cond, Env, Untyped)
             keys == LowerKeys(s.arms, c.ty, Env, "case-do")
             keyed == {i \in DOMAIN s.arms : ~IsElse(s.arms[i].key)}
             arm(i) == IF IsError(keys[i]) THEN keys[i] ELSE f[s.arms[i].value]
             b == [i \in DOMAIN s.arms |-> arm(i)]
             ks == SubSeq(keys, 1, Cardinality(keyed))
             x == [stmt |-> "case", cond |-> c, branches |-> b, keys |-> ks]
             r == LowerStmtStep(s, f)
  <1>1. r = IF s.arms = <<>> THEN Error("InvalidModule") ELSE LowerArms(s, c, f)
    BY DEF LowerStmtStep
  <1>2. LowerArms(s, c, f) = IF IsError(c) THEN c ELSE CaseOf(ArmsOf(s, c, keys, f))
    BY DEF LowerArms
  <1>3. CaseOf(ArmsOf(s, c, keys, f)) = Together(b, x)
    <2>1. ArmsOf(s, c, keys, f) = x BY DEF ArmsOf
    <2>2. ArmsOf(s, c, keys, f).branches = b BY DEF ArmsOf
    <2> QED BY <2>1, <2>2, Zenon DEF CaseOf
  <1>4. Error("InvalidModule") \in Errors /\ "InvalidModule" \in ErrorKinds BY DEF Errors, ErrorKinds
  <1>5. /\ s.cond \in CoreExpr /\ Len(s.arms) \in Nat /\ DOMAIN s.arms = 1..Len(s.arms)
        /\ \A i \in DOMAIN s.arms : s.arms[i].key \in CoreExpr
        /\ DOMAIN Inside(s) = DOMAIN s.arms /\ Len(Inside(s)) = Len(s.arms)
        /\ \A i \in DOMAIN s.arms : Inside(s)[i] = s.arms[i].value
    BY StmtFacts, InsideFacts
  <1>6. EnvOK(Env, t) /\ c \in Results(s.cond, Untyped, t)
    <2>1. EnvOK(Env, t) BY DEF SignalsHere
    <2> QED BY <1>5, <2>1, CoreLowered DEF Expected
  <1>7. CASE s.arms = <<>> BY <1>1, <1>4, <1>7 DEF StmtResults
  <1>8. CASE s.arms # <<>> /\ IsError(c) BY <1>1, <1>2, <1>6, <1>8, ResultFacts DEF StmtResults
  <1>9. CASE s.arms # <<>> /\ ~IsError(c)
    <2>1. r = Together(b, x) BY <1>1, <1>2, <1>3, <1>9
    <2>2. c \in Lowered(s.cond, Untyped, t) BY <1>6, <1>9, ResultFacts
    <2>3. c \in Good(t) /\ c.ty \in HwTypes /\ Read(c, t) = NamesIn(s.cond) BY <2>2, LoweredFacts
    <2> HIDE DEF c
    <2>4. KeysOK(keys, s.arms, c.ty, t) BY <1>4, <1>5, <1>6, <2>3, KeysLowered
    <2> HIDE DEF keys
    <2>5. LoweredInside(b, s, t)
      <3>1. DOMAIN b = 1..Len(s.arms) /\ Len(b) = Len(s.arms) BY <1>5
      <3>2. b = [i \in DOMAIN b |-> b[i]] OBVIOUS
      <3>3. \A i \in DOMAIN b : b[i] \in StmtResults(Inside(s)[i], t)
        <4> TAKE i \in DOMAIN b
        <4>1. IsError(keys[i]) => keys[i] \in Errors BY <1>5, <2>4, <3>1 DEF KeysOK
        <4>2. f[s.arms[i].value] \in StmtResults(Inside(s)[i], t) BY <1>5
        <4> QED BY <4>1, <4>2 DEF StmtResults
      <3> HIDE DEF b
      <3> QED BY <1>5, <3>1, <3>2, <3>3 DEF LoweredInside
    <2>6. CASE AnyError(b)
      <3> HIDE DEF b, x, r
      <3>1. r \in Errors BY <2>1, <2>5, <2>6, InsideTogether
      <3> QED BY <3>1 DEF StmtResults, r
    <2>7. CASE ~AnyError(b)
      <3>1. \A i \in DOMAIN keys : ~IsError(keys[i])
        <4>1. DOMAIN keys = DOMAIN s.arms BY <1>5, <2>4 DEF KeysOK
        <4> QED BY <2>7, <4>1 DEF AnyError
      <3>2. KeyedArms(s.arms, keys, Cardinality(keyed)) BY <1>5, <2>4, <3>1, ArmsAreKeyed
      <3> HIDE DEF b, keyed, r
      <3>3. KeysTogether(ks, s.arms, c.ty, t) BY <1>5, <2>4, <3>2, KeysOfArms
      <3> HIDE DEF ks
      <3>4. r = x /\ InsideOK(b, s, t) /\ b \in Seq(StmtOperands(s))
        <4> HIDE DEF x
        <4> QED BY <2>1, <2>5, <2>7, InsideTogether
      <3>5. Inside(s) # <<>>
        <4>1. Len(s.arms) = 0 => s.arms = <<>>
          <5>1. s \in StmtNode(Lower(Stmt, StmtRank, StmtRank[s])) BY StmtTree DEF IsTree, Node
          <5>2. \E S : s.arms \in Seq(S) BY <5>1, StmtNodeFacts
          <5> QED BY <5>2
        <4>2. Len(Inside(s)) # 0 BY <1>5, <1>9, <4>1
        <4> QED BY <4>2
      <3>6. x \in StmtResults(s, t) BY <2>3, <3>3, <3>4, <3>5, CaseDoNode
      <3> QED BY <3>4, <3>6 DEF r
    <2> QED BY <2>6, <2>7
  <1> QED BY <1>7, <1>8, <1>9


LEMMA LowerLooksInside ==
    ASSUME NEW s \in Stmt, NEW f, NEW g, \A i \in DOMAIN Inside(s) : f[Inside(s)[i]] = g[Inside(s)[i]]
    PROVE  LowerStmtStep(s, f) = LowerStmtStep(s, g)
  <1>1. CASE s.stmt = "set" BY <1>1, Zenon DEF LowerStmtStep
  <1>2. CASE s.stmt = "do"
    <2>1. \A i \in DOMAIN s.body : f[s.body[i]] = g[s.body[i]] BY <1>2, InsideFacts
    <2>2. [i \in DOMAIN s.body |-> f[s.body[i]]] = [i \in DOMAIN s.body |-> g[s.body[i]]] BY <2>1
    <2>3. \A h : LowerStmtStep(s, h) = IF s.body = <<>> THEN Error("InvalidModule")
                                       ELSE Block([i \in DOMAIN s.body |-> h[s.body[i]]])
      BY <1>2 DEF LowerStmtStep
    <2> QED BY <2>2, <2>3, Zenon
  <1>3. CASE s.stmt = "if"
    <2>1. \A i \in DOMAIN s.branches : f[s.branches[i]] = g[s.branches[i]] BY <1>3, InsideFacts
    <2>2. [i \in DOMAIN s.branches |-> f[s.branches[i]]] = [i \in DOMAIN s.branches |-> g[s.branches[i]]]
      BY <2>1
    <2>3. \A h : LowerStmtStep(s, h) = If(LowerCore(s.cond, Env, Untyped),
                                          [i \in DOMAIN s.branches |-> h[s.branches[i]]])
      BY <1>3 DEF LowerStmtStep
    <2> QED BY <2>2, <2>3, Zenon
  <1>4. CASE s.stmt = "case"
    <2> DEFINE c == LowerCore(s.cond, Env, Untyped)
               keys == LowerKeys(s.arms, c.ty, Env, "case-do")
               arms(h) == [i \in DOMAIN s.arms |-> IF IsError(keys[i]) THEN keys[i] ELSE h[s.arms[i].value]]
    <2>1. \A i \in DOMAIN s.arms : f[s.arms[i].value] = g[s.arms[i].value] BY <1>4, InsideFacts
    <2>2. arms(f) = arms(g)
      <3> HIDE DEF keys, c
      <3> QED BY <2>1
    <2>3. \A h : ArmsOf(s, c, keys, h) =
              [stmt |-> "case", cond |-> c, branches |-> arms(h),
               keys |-> SubSeq(keys, 1, Cardinality({i \in DOMAIN s.arms : ~IsElse(s.arms[i].key)}))]
      BY DEF ArmsOf
    <2>4. \A h : LowerArms(s, c, h) = IF IsError(c) THEN c ELSE CaseOf(ArmsOf(s, c, keys, h))
      BY DEF LowerArms
    <2>5. \A h : LowerStmtStep(s, h) = IF s.arms = <<>> THEN Error("InvalidModule") ELSE LowerArms(s, c, h)
      BY <1>4 DEF LowerStmtStep
    <2> HIDE DEF arms, keys, c
    <2>6. ArmsOf(s, c, keys, f) = ArmsOf(s, c, keys, g) BY <2>2, <2>3, Zenon
    <2>7. LowerArms(s, c, f) = LowerArms(s, c, g) BY <2>4, <2>6, Zenon
    <2> QED BY <2>5, <2>7, Zenon
  <1> QED BY <1>1, <1>2, <1>3, <1>4, StmtFacts

LEMMA StmtStepLowered ==
    ASSUME NEW s \in Stmt, NEW t, SignalsHere(t), NEW f,
           \A i \in DOMAIN Inside(s) : f[Inside(s)[i]] \in StmtResults(Inside(s)[i], t)
    PROVE  LowerStmtStep(s, f) \in StmtResults(s, t)
  <1>1. CASE s.stmt = "set" BY <1>1, SetLowered
  <1>2. CASE s.stmt = "do" BY <1>2, DoLowered
  <1>3. CASE s.stmt = "if" BY <1>3, IfLowered
  <1>4. CASE s.stmt = "case" BY <1>4, CaseDoLowered
  <1> QED BY <1>1, <1>2, <1>3, <1>4, StmtFacts

\* Every statement is lowered to one that sets and reads the same signals, in which
\* verify_stmt finds a register set twice exactly if some way through it does so.
LEMMA StmtLowered ==
    ASSUME NEW t, SignalsHere(t)
    PROVE  \A s \in Stmt : LowerStmt(s) \in StmtResults(s, t)
  <1> DEFINE step(x, f) == LowerStmtStep(x, f)
             body(f) == [x \in Stmt |-> step(x, f)]
             lower == CHOOSE f : f = body(f)
             V == HwStmt \cup Errors
             F == [Stmt -> V] \cup {lower}
             H == [x \in Stmt |-> [f \in F |-> step(x, f)]]
             W == [x \in Stmt |-> StmtResults(x, t)]
  <1>1. \A x \in Stmt : \A f, g : (\A y \in Stmt : StmtRank[y] < StmtRank[x] => f[y] = g[y])
                                    => step(x, f) = step(x, g)
    <2> TAKE x \in Stmt
    <2> TAKE f, g
    <2> HAVE \A y \in Stmt : StmtRank[y] < StmtRank[x] => f[y] = g[y]
    <2>1. \A i \in DOMAIN Inside(x) : f[Inside(x)[i]] = g[Inside(x)[i]]
      BY InsideFacts DEF StmtPart
    <2> QED BY <2>1, LowerLooksInside
  <1>2. \A x \in Stmt : \A f \in [Stmt -> V] :
           (\A y \in Stmt : StmtRank[y] < StmtRank[x] => f[y] \in W[y]) => step(x, f) \in W[x]
    <2> TAKE x \in Stmt
    <2> TAKE f \in [Stmt -> V]
    <2> HAVE \A y \in Stmt : StmtRank[y] < StmtRank[x] => f[y] \in W[y]
    <2>1. \A i \in DOMAIN Inside(x) : f[Inside(x)[i]] \in StmtResults(Inside(x)[i], t)
      BY InsideFacts DEF StmtPart
    <2>2. LowerStmtStep(x, f) \in StmtResults(x, t) BY <2>1, StmtStepLowered
    <2> QED BY <2>2
  <1>3. \A s : LowerStmt(s) = lower[s]
    BY DEF LowerStmt
  <1>w. W \in [Stmt -> SUBSET V]
    BY DEF StmtResults
  <1>x. \A x \in Stmt : W[x] = StmtResults(x, t) OBVIOUS
  <1> HIDE DEF step, V, W
  <1>4. \A x \in Stmt : \A f \in F : H[x][f] = step(x, f) OBVIOUS
  <1>5. \A f \in [Stmt -> V] : (\A x \in Stmt : f[x] = step(x, f))
                                 => \A x \in Stmt : lower[x] = step(x, lower)
    <2> TAKE f \in [Stmt -> V]
    <2> HAVE \A x \in Stmt : f[x] = step(x, f)
    <2>1. f = body(f) OBVIOUS
    <2>2. lower = body(lower)
      <3> HIDE DEF body
      <3> QED BY <2>1
    <2> HIDE DEF lower
    <2> QED BY <2>2
  <1>6. [Stmt -> V] \subseteq F /\ lower \in F OBVIOUS
  <1>7. \A x \in Stmt : StmtRank[x] \in Nat BY StmtFacts
  <1>8. StmtRank \in [Stmt -> Nat]
    <2>1. StmtRank \in [Stmt -> 1..Depth] BY StmtTree DEF IsTree
    <2> QED BY <2>1
  <1> HIDE DEF H, lower
  <1>10. LooksAtParts(H, Stmt, F, StmtRank)
    <2> SUFFICES ASSUME NEW x \in Stmt, NEW f \in F, NEW g \in F,
                        \A y \in Stmt : StmtRank[y] < StmtRank[x] => f[y] = g[y]
                 PROVE  H[x][f] = H[x][g]
      BY DEF LooksAtParts
    <2>1. step(x, f) = step(x, g) BY <1>1
    <2> QED BY <1>4, <2>1
  <1> HIDE DEF F
  <1>11. KeepsTypes(H, Stmt, V, W, StmtRank)
    <2>1. \A x \in Stmt : \A f \in [Stmt -> V] : H[x][f] = step(x, f) BY <1>4, <1>6
    <2> QED BY <1>2, <2>1 DEF KeepsTypes
  <1>12. Recursion(lower, H, Stmt, V, W, StmtRank)
    <2>1. V # {}
      <3>1. Error("TypeMismatch") \in V BY DEF V, Errors, ErrorKinds
      <3> QED BY <3>1
    <2>2. \A f \in [Stmt -> V] : (\A x \in Stmt : f[x] = H[x][f])
                                   => \A x \in Stmt : lower[x] = H[x][lower]
      BY <1>4, <1>5, <1>6
    <2>3. LooksAtParts(H, Stmt, [Stmt -> V] \cup {lower}, StmtRank) BY <1>10 DEF F
    <2> QED BY <1>8, <1>w, <1>11, <2>1, <2>2, <2>3 DEF Recursion
  <1>13. \A x \in Stmt : lower[x] = step(x, lower) /\ lower[x] \in W[x]
    BY <1>4, <1>6, <1>12, SolutionIsTyped DEF Solved
  <1> QED BY <1>3, <1>13, <1>x
=============================================================================
