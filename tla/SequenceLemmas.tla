--------------------------- MODULE SequenceLemmas ---------------------------
(***************************************************************************)
(* Facts that the proofs of several components need: about sequences used  *)
(* as stacks, as tables that grow at the end, and as lists without         *)
(* repetition, and about functions defined by recursion.                   *)
(***************************************************************************)
EXTENDS Integers, SequencesExt, FiniteSetTheorems, WellFoundedInduction, TLAPS

-----------------------------------------------------------------------------
(* Stacks: pushed with Append, popped with Front, looked at with Last *)

LEMMA LastOfAppend ==
    ASSUME NEW S, NEW s \in Seq(S), NEW e \in S
    PROVE  /\ Append(s, e) \in Seq(S)
           /\ Last(Append(s, e)) = e
           /\ Front(Append(s, e)) = s
  <1>1. Last(Append(s, e)) = e BY DEF Last
  <1>2. Front(Append(s, e)) = s BY DEF Front
  <1> QED BY <1>1, <1>2

LEMMA FrontLast ==
    ASSUME NEW S, NEW s \in Seq(S), s # <<>>
    PROVE  /\ Front(s) \in Seq(S)
           /\ Len(Front(s)) = Len(s) - 1
           /\ \A i \in 1..(Len(s) - 1) : Front(s)[i] = s[i]
           /\ Last(s) \in S
           /\ Last(s) = s[Len(s)]
           /\ Len(s) \in DOMAIN s
  <1>1. Len(s) \in Nat /\ Len(s) > 0 /\ DOMAIN s = 1..Len(s)
    OBVIOUS
  <1>2. Front(s) \in Seq(S) BY <1>1 DEF Front
  <1>3. Len(Front(s)) = Len(s) - 1 BY <1>1 DEF Front
  <1>4. \A i \in 1..(Len(s) - 1) : Front(s)[i] = s[i] BY <1>1 DEF Front
  <1>5. Last(s) \in S /\ Last(s) = s[Len(s)] BY <1>1 DEF Last
  <1> QED BY <1>1, <1>2, <1>3, <1>4, <1>5

\* A stack is what is below its top, and its top.
LEMMA FrontThenLast ==
    ASSUME NEW S, NEW s \in Seq(S), s # <<>>
    PROVE  s = Append(Front(s), Last(s))
  BY DEF Front, Last

LEMMA RangeType ==
    ASSUME NEW S, NEW s \in Seq(S)
    PROVE  \A e \in Range(s) : e \in S
  <1>1. \A i \in DOMAIN s : s[i] \in S OBVIOUS
  <1> QED BY <1>1, Zenon DEF Range

-----------------------------------------------------------------------------
(* Tables *)

LEMMA PrefixOfSelf == ASSUME NEW S, NEW s \in Seq(S) PROVE IsPrefix(s, s)
  BY DEF IsPrefix

LEMMA PrefixOfConcat ==
    ASSUME NEW S, NEW s \in Seq(S), NEW t \in Seq(S)
    PROVE  IsPrefix(s, s \o t)
  BY DEF IsPrefix

-----------------------------------------------------------------------------
(* Lists without repetition *)

LEMMA DistinctAppend ==
    ASSUME NEW S, NEW names \in Seq(S), NEW n \in S,
           IsInjective(names), n \notin Range(names)
    PROVE  IsInjective(Append(names, n))
  <1>1. \A i \in DOMAIN names : names[i] # n BY DEF Range
  <1> QED BY <1>1 DEF IsInjective

-----------------------------------------------------------------------------
(* Some positions of a sequence, counted from the first one on *)

LEMMA RankFacts ==
    ASSUME NEW n \in Nat, NEW P \in SUBSET (1..n)
    PROVE  /\ IsFiniteSet(P) /\ Cardinality(P) \in Nat
           /\ \A i \in P : Cardinality({j \in P : j <= i}) \in 1..Cardinality(P)
           /\ Cardinality(P \cup {n + 1}) = Cardinality(P) + 1
           /\ \A i \in P : {j \in P \cup {n + 1} : j <= i} = {j \in P : j <= i}
           /\ {j \in P \cup {n + 1} : j <= n + 1} = P \cup {n + 1}
  <1>1. IsFiniteSet(P)
    <2>1. IsFiniteSet(1..n) BY FS_Interval
    <2> QED BY <2>1, FS_Subset
  <1>2. Cardinality(P) \in Nat BY <1>1, FS_CardinalityType
  <1>3. ASSUME NEW i \in P
        PROVE  Cardinality({j \in P : j <= i}) \in 1..Cardinality(P)
    <2> DEFINE Q == {j \in P : j <= i}
    <2>1. IsFiniteSet(Q) /\ Cardinality(Q) <= Cardinality(P)
      <3>1. Q \subseteq P OBVIOUS
      <3> QED BY <1>1, <3>1, FS_Subset
    <2>2. Cardinality(Q) \in Nat /\ Cardinality(Q) # 0
      <3>1. i \in Q OBVIOUS
      <3>2. Q # {} BY <3>1
      <3> HIDE DEF Q
      <3> QED BY <2>1, <3>2, FS_CardinalityType, FS_EmptySet
    <2> QED BY <1>2, <2>1, <2>2
  <1>4. \A j \in P : j \in Nat /\ j <= n OBVIOUS
  <1>5. n + 1 \notin P BY <1>4
  <1>6. Cardinality(P \cup {n + 1}) = Cardinality(P) + 1
    BY <1>1, <1>5, FS_AddElement
  <1>7. ASSUME NEW i \in P
        PROVE  {j \in P \cup {n + 1} : j <= i} = {j \in P : j <= i}
    <2>1. ~(n + 1 <= i) BY <1>4
    <2> QED BY <2>1
  <1>8. {j \in P \cup {n + 1} : j <= n + 1} = P \cup {n + 1}
    <2>1. \A j \in P \cup {n + 1} : j <= n + 1 BY <1>4
    <2> QED BY <2>1
  <1> QED BY <1>1, <1>2, <1>3, <1>6, <1>7, <1>8

LEMMA FirstPosition ==
    ASSUME NEW n \in Nat, NEW P \in SUBSET (1..n), P # {}
    PROVE  \E m \in P : \A j \in P : m <= j
  <1> DEFINE R == OpToRel(<, Nat)
  <1>1. P \subseteq Nat OBVIOUS
  <1>2. \A x, y \in Nat : x < y => <<x, y>> \in R
    BY DEF OpToRel
  <1>3. IsWellFoundedOn(R, Nat) BY NatLessThanWellFounded
  <1> HIDE DEF R
  <1>4. PICK m \in P : \A j \in P : <<j, m>> \notin R
    BY <1>1, <1>3, WFMin
  <1>5. ASSUME NEW j \in P PROVE m <= j
    <2>1. j \in Nat /\ m \in Nat BY <1>1
    <2>2. ~(j < m) BY <1>2, <1>4, <2>1
    <2> QED BY <2>1, <2>2
  <1> QED BY <1>5

LEMMA LastPosition ==
    ASSUME NEW n \in Nat, NEW P \in SUBSET (1..n), P # {}
    PROVE  \E m \in P : \A j \in P : j <= m
  <1> DEFINE T == {n - j : j \in P}
             R == OpToRel(<, Nat)
  <1>1. T \subseteq Nat /\ T # {}
    <2>1. \A j \in P : n - j \in Nat OBVIOUS
    <2>2. PICK j \in P : TRUE OBVIOUS
    <2>3. n - j \in T BY <2>2
    <2> QED BY <2>1, <2>3
  <1>2. \A x, y \in Nat : x < y => <<x, y>> \in R
    BY DEF OpToRel
  <1>3. IsWellFoundedOn(R, Nat) BY NatLessThanWellFounded
  <1> HIDE DEF R, T
  <1>4. PICK x \in T : \A y \in T : <<y, x>> \notin R
    BY <1>1, <1>3, WFMin
  <1>5. ASSUME NEW y \in T PROVE x <= y
    <2>1. x \in Nat /\ y \in Nat BY <1>1
    <2>2. ~(y < x) BY <1>2, <1>4, <2>1
    <2> QED BY <2>1, <2>2
  <1>6. PICK m \in P : x = n - m BY DEF T
  <1>7. \A j \in P : n - m <= n - j BY <1>5, <1>6 DEF T
  <1> QED BY <1>7
-----------------------------------------------------------------------------
(* Recursion over a set whose elements are ranked *)

\* There is an element of the least rank.
LEMMA LeastRank ==
    ASSUME NEW S, NEW rank \in [S -> Nat], NEW P \in SUBSET S, P # {}
    PROVE  \E x \in P : \A y \in P : rank[x] <= rank[y]
  <1>1. PICK z \in P : TRUE OBVIOUS
  <1> DEFINE n == rank[z]
             R == {m \in 1..(n + 1) : \E x \in P : rank[x] = m - 1}
  <1>2. n \in Nat /\ n + 1 \in R OBVIOUS
  <1>3. PICK m \in R : \A j \in R : m <= j
    <2>1. R \in SUBSET (1..(n + 1)) /\ R # {} /\ n + 1 \in Nat BY <1>2
    <2> HIDE DEF R
    <2> QED BY <2>1, FirstPosition
  <1>4. PICK x \in P : rank[x] = m - 1 OBVIOUS
  <1>5. ASSUME NEW y \in P PROVE rank[x] <= rank[y]
    <2>1. rank[y] \in Nat /\ rank[x] \in Nat /\ m \in 1..(n + 1) OBVIOUS
    <2>2. CASE rank[y] <= n
      <3>1. rank[y] + 1 \in R BY <1>2, <2>1, <2>2
      <3>2. m <= rank[y] + 1 BY <1>3, <3>1
      <3> QED BY <1>4, <2>1, <3>2
    <2>3. CASE rank[y] > n
      <3> HIDE DEF n
      <3> QED BY <1>2, <1>4, <2>1, <2>3
    <2> QED BY <1>2, <2>1, <2>2, <2>3
  <1> QED BY <1>5

\* What holds of an element if it holds of those below holds of every one.
LEMMA RankInduction ==
    ASSUME NEW S, NEW rank \in [S -> Nat], NEW P \in SUBSET S,
           \A x \in S : (\A y \in S : rank[y] < rank[x] => y \in P) => x \in P
    PROVE  P = S
  <1> SUFFICES ASSUME S \ P # {} PROVE FALSE OBVIOUS
  <1>1. PICK x \in S \ P : \A y \in S \ P : rank[x] <= rank[y]
    <2>1. S \ P \in SUBSET S OBVIOUS
    <2> QED BY <2>1, LeastRank
  <1>2. ASSUME NEW y \in S, rank[y] < rank[x] PROVE y \in P
    <2>1. rank[x] \in Nat /\ rank[y] \in Nat OBVIOUS
    <2>2. ~(rank[x] <= rank[y]) BY <1>2, <2>1
    <2> QED BY <1>1, <2>2
  <1> QED BY <1>1, <1>2

\* Functions that agree where they agree below agree.
LEMMA AgreeByRank ==
    ASSUME NEW S, NEW rank \in [S -> Nat], NEW f, NEW g,
           \A x \in S : (\A y \in S : rank[y] < rank[x] => f[y] = g[y]) => f[x] = g[x]
    PROVE  \A x \in S : f[x] = g[x]
  <1> DEFINE P == {x \in S : f[x] = g[x]}
  <1>1. P \in SUBSET S OBVIOUS
  <1>2. \A x \in S : (\A y \in S : rank[y] < rank[x] => y \in P) => x \in P OBVIOUS
  <1>3. P = S
    <2> HIDE DEF P
    <2> QED BY <1>1, <1>2, RankInduction
  <1> QED BY <1>3

\* H[x][f] looks at f below x only.
LooksBelow(H, S, V, rank) ==
    /\ H \in [S -> [[S -> V] -> V]]
    /\ \A x \in S, f, g \in [S -> V] :
          (\A y \in S : rank[y] < rank[x] => f[y] = g[y]) => H[x][f] = H[x][g]

\* f is what H defines,
Solves(f, H, S, V) == f \in [S -> V] /\ \A x \in S : f[x] = H[x][f]

\*   below the rank n.
DefinedBelow(f, H, S, V, rank, n) ==
    f \in [S -> V] /\ \A x \in S : rank[x] < n => f[x] = H[x][f]

LEMMA BelowExists ==
    ASSUME NEW S, NEW V, NEW rank \in [S -> Nat], NEW H,
           LooksBelow(H, S, V, rank), V # {}
    PROVE  \A n \in Nat : \E f : DefinedBelow(f, H, S, V, rank, n)
  <1> DEFINE P == {n \in Nat : \E f : DefinedBelow(f, H, S, V, rank, n)}
             id == [n \in Nat |-> n]
  <1>1. ASSUME NEW n \in Nat, \A m \in Nat : id[m] < id[n] => m \in P
        PROVE  n \in P
    <2>1. CASE n = 0
      <3>1. PICK v \in V : TRUE OBVIOUS
      <3> DEFINE f == [x \in S |-> v]
      <3>2. f \in [S -> V] /\ \A x \in S : ~(rank[x] < 0) OBVIOUS
      <3> HIDE DEF f
      <3>3. DefinedBelow(f, H, S, V, rank, n) BY <2>1, <3>2 DEF DefinedBelow
      <3> QED BY <3>3, Zenon
    <2>2. CASE n # 0
      <3> HIDE DEF P
      <3>1. n - 1 \in Nat /\ n - 1 \in P
        <4>1. n - 1 \in Nat /\ n - 1 < n BY <2>2
        <4>2. id[n - 1] = n - 1 /\ id[n] = n BY <4>1
        <4> HIDE DEF id
        <4> QED BY <1>1, <4>1, <4>2
      <3>2. PICK f : DefinedBelow(f, H, S, V, rank, n - 1) BY <3>1 DEF P
      <3>3. f \in [S -> V] /\ \A x \in S : rank[x] < n - 1 => f[x] = H[x][f]
        BY <3>2 DEF DefinedBelow
      <3> DEFINE g == [x \in S |-> IF rank[x] < n - 1 THEN f[x] ELSE H[x][f]]
      <3>4. g \in [S -> V]
        <4>1. \A x \in S : H[x][f] \in V BY <3>3 DEF LooksBelow
        <4> QED BY <3>3, <4>1
      <3>5. \A x \in S : g[x] = H[x][f] BY <3>3
      <3>6. \A x \in S : rank[x] < n - 1 => g[x] = f[x] BY <3>3
      <3> HIDE DEF g
      <3>7. ASSUME NEW x \in S, rank[x] < n PROVE g[x] = H[x][g]
        <4>1. \A y \in S : rank[y] < rank[x] => g[y] = f[y]
          <5>1. \A y \in S : rank[y] \in Nat OBVIOUS
          <5> QED BY <3>1, <3>6, <3>7, <5>1
        <4>2. H[x][g] = H[x][f] BY <3>3, <3>4, <4>1 DEF LooksBelow
        <4> QED BY <3>5, <4>2
      <3>8. DefinedBelow(g, H, S, V, rank, n) BY <3>4, <3>7 DEF DefinedBelow
      <3> QED BY <3>8 DEF P
    <2> QED BY <2>1, <2>2
  <1>2. id \in [Nat -> Nat] /\ P \in SUBSET Nat OBVIOUS
  <1>3. P = Nat
    <2> DEFINE N == Nat
    <2>1. /\ id \in [N -> Nat] /\ P \in SUBSET N
          /\ \A n \in N : (\A m \in N : id[m] < id[n] => m \in P) => n \in P
      BY <1>1, <1>2
    <2> HIDE DEF N, P, id
    <2>2. P = N BY <2>1, RankInduction
    <2> QED BY <2>2 DEF N
  <1> QED BY <1>3

LEMMA BelowAgree ==
    ASSUME NEW S, NEW V, NEW rank \in [S -> Nat], NEW H,
           LooksBelow(H, S, V, rank), NEW n \in Nat, NEW m \in Nat, n <= m,
           NEW f, DefinedBelow(f, H, S, V, rank, n),
           NEW g, DefinedBelow(g, H, S, V, rank, m)
    PROVE  \A x \in S : rank[x] < n => f[x] = g[x]
  <1> DEFINE P == {x \in S : rank[x] < n => f[x] = g[x]}
  <1>1. ASSUME NEW x \in S, \A y \in S : rank[y] < rank[x] => y \in P
        PROVE  x \in P
    <2> SUFFICES ASSUME rank[x] < n PROVE f[x] = g[x] OBVIOUS
    <2>1. \A y \in S : rank[y] < rank[x] => f[y] = g[y]
      <3>1. \A y \in S : rank[y] \in Nat OBVIOUS
      <3> QED BY <1>1, <3>1
    <2>2. f \in [S -> V] /\ g \in [S -> V] BY DEF DefinedBelow
    <2>3. H[x][f] = H[x][g] BY <2>1, <2>2 DEF LooksBelow
    <2>4. rank[x] < m
      <3>1. rank[x] \in Nat OBVIOUS
      <3> QED BY <3>1
    <2> QED BY <2>3, <2>4 DEF DefinedBelow
  <1>2. P \in SUBSET S OBVIOUS
  <1>3. P = S
    <2> HIDE DEF P
    <2> QED BY <1>1, <1>2, RankInduction
  <1> QED BY <1>3

\* A step that looks below only defines a function.
LEMMA RecursionExists ==
    ASSUME NEW S, NEW V, NEW rank \in [S -> Nat], NEW H,
           LooksBelow(H, S, V, rank), V # {}
    PROVE  \E f : Solves(f, H, S, V)
  <1> DEFINE fs == [n \in Nat |-> CHOOSE f : DefinedBelow(f, H, S, V, rank, n)]
             F == [x \in S |-> fs[rank[x] + 1][x]]
  <1>1. \A n \in Nat : DefinedBelow(fs[n], H, S, V, rank, n) BY BelowExists
  <1>2. \A n \in Nat : fs[n] \in [S -> V] BY <1>1 DEF DefinedBelow
  <1>3. \A x \in S : F[x] = fs[rank[x] + 1][x] OBVIOUS
  <1> HIDE DEF fs
  <1>4. F \in [S -> V]
    <2>1. \A x \in S : rank[x] + 1 \in Nat OBVIOUS
    <2>2. \A x \in S : fs[rank[x] + 1][x] \in V BY <1>2, <2>1
    <2> QED BY <2>2
  <1> HIDE DEF F
  <1>5. ASSUME NEW x \in S PROVE F[x] = H[x][F]
    <2> DEFINE n == rank[x] + 1
    <2>1. n \in Nat /\ rank[x] \in Nat /\ rank[x] < n OBVIOUS
    <2>2. F[x] = fs[n][x] BY <1>3
    <2> HIDE DEF n
    <2>3. fs[n][x] = H[x][fs[n]] BY <1>1, <2>1 DEF DefinedBelow
    <2>4. ASSUME NEW y \in S, rank[y] < rank[x] PROVE F[y] = fs[n][y]
      <3> DEFINE m == rank[y] + 1
      <3>1. m \in Nat /\ rank[y] < m /\ m <= n /\ rank[y] \in Nat
        <4>1. rank[y] \in Nat OBVIOUS
        <4> QED BY <2>1, <2>4, <4>1
      <3>2. F[y] = fs[m][y] BY <1>3
      <3> HIDE DEF m
      <3>3. DefinedBelow(fs[m], H, S, V, rank, m) /\ DefinedBelow(fs[n], H, S, V, rank, n)
        BY <1>1, <2>1, <3>1
      <3>4. \A z \in S : rank[z] < m => fs[m][z] = fs[n][z]
        BY <2>1, <3>1, <3>3, BelowAgree
      <3> QED BY <3>1, <3>2, <3>4
    <2>5. fs[n] \in [S -> V] BY <1>2, <2>1
    <2>6. H[x][F] = H[x][fs[n]] BY <1>4, <2>4, <2>5 DEF LooksBelow
    <2> QED BY <2>2, <2>3, <2>6
  <1>6. Solves(F, H, S, V) BY <1>4, <1>5 DEF Solves
  <1> QED BY <1>6

-----------------------------------------------------------------------------
(* Recursion with results of their own type, over numbers and over levels *)

Inductive(P) == P \subseteq Nat /\ 0 \in P /\ \A n \in P : n + 1 \in P

LEMMA InductiveSet ==
    ASSUME NEW P, Inductive(P)
    PROVE  P = Nat
  <1> DEFINE N == Nat
             id == [n \in N |-> n]
  <1>1. ASSUME NEW n \in Nat, \A m \in Nat : m < n => m \in P
        PROVE  n \in P
    <2>1. CASE n = 0 BY <2>1 DEF Inductive
    <2>2. CASE n # 0
      <3>1. n - 1 \in Nat /\ n - 1 < n BY <2>2
      <3>2. n - 1 \in P BY <1>1, <3>1
      <3>3. (n - 1) + 1 = n OBVIOUS
      <3> QED BY <3>2, <3>3 DEF Inductive
    <2> QED BY <2>1, <2>2
  <1>2. /\ id \in [N -> Nat] /\ P \in SUBSET N
        /\ \A n \in N : (\A m \in N : id[m] < id[n] => m \in P) => n \in P
    BY <1>1 DEF Inductive
  <1> HIDE DEF N, id
  <1>3. P = N BY <1>2, RankInduction
  <1> QED BY <1>3 DEF N

LEMMA NaturalInduction ==
    ASSUME NEW P \in SUBSET Nat, 0 \in P, \A n \in P : n + 1 \in P
    PROVE  \A n \in Nat : n \in P
  <1>1. Inductive(P) BY DEF Inductive
  <1> QED BY <1>1, InductiveSet

\* f is what H defines, with a result from W[x] for each x.
SolvesIn(f, H, S, V, W) ==
    f \in [S -> V] /\ \A x \in S : f[x] = H[x][f] /\ f[x] \in W[x]

\* A step may need results of their types from below to have one of its type.
LEMMA TypedRecursion ==
    ASSUME NEW S, NEW V, NEW v \in V, NEW rank \in [S -> Nat], NEW W \in [S -> SUBSET V], NEW H,
           \A x \in S, f, g \in [S -> V] :
              (\A y \in S : rank[y] < rank[x] => f[y] = g[y]) => H[x][f] = H[x][g],
           \A x \in S, f \in [S -> V] :
              (\A y \in S : rank[y] < rank[x] => f[y] \in W[y]) => H[x][f] \in W[x]
    PROVE  \E f : SolvesIn(f, H, S, V, W)
  <1> DEFINE G == [x \in S |-> [f \in [S -> V] |-> IF H[x][f] \in V THEN H[x][f] ELSE v]]
  <1>1. \A x \in S, f \in [S -> V] : G[x][f] = IF H[x][f] \in V THEN H[x][f] ELSE v
    OBVIOUS
  <1>2. LooksBelow(G, S, V, rank)
    <2>1. G \in [S -> [[S -> V] -> V]] OBVIOUS
    <2>2. ASSUME NEW x \in S, NEW f \in [S -> V], NEW g \in [S -> V],
                 \A y \in S : rank[y] < rank[x] => f[y] = g[y]
          PROVE  G[x][f] = G[x][g]
      <3> HIDE DEF G
      <3>1. H[x][f] = H[x][g] BY <2>2
      <3> QED BY <1>1, <3>1
    <2> HIDE DEF G
    <2> QED BY <2>1, <2>2 DEF LooksBelow
  <1> HIDE DEF G
  <1>3. PICK f : Solves(f, G, S, V) BY <1>2, RecursionExists
  <1>4. f \in [S -> V] /\ \A x \in S : f[x] = G[x][f] BY <1>3 DEF Solves
  <1> DEFINE P == {x \in S : f[x] = H[x][f] /\ f[x] \in W[x]}
  <1>5. ASSUME NEW x \in S, \A y \in S : rank[y] < rank[x] => y \in P
        PROVE  x \in P
    <2>1. \A y \in S : rank[y] < rank[x] => f[y] \in W[y] BY <1>5
    <2>2. H[x][f] \in W[x] BY <1>4, <2>1
    <2>3. H[x][f] \in V BY <2>2
    <2> QED BY <1>1, <1>4, <2>2, <2>3
  <1>6. P = S
    <2>1. P \in SUBSET S OBVIOUS
    <2> HIDE DEF P
    <2> QED BY <1>5, <2>1, RankInduction
  <1> QED BY <1>4, <1>6 DEF SolvesIn

\* Of any two functions of F that agree below x, H makes the same of x.
LooksAtParts(H, S, F, rank) ==
    \A x \in S, f, g \in F : (\A y \in S : rank[y] < rank[x] => f[y] = g[y]) => H[x][f] = H[x][g]
\* Of results of their types H makes a result of its type.
KeepsTypes(H, S, V, W, rank) ==
    \A x \in S, f \in [S -> V] :
       (\A y \in S : rank[y] < rank[x] => f[y] \in W[y]) => H[x][f] \in W[x]

\* g solves H whenever something does, and what solves it has results of these types.
Recursion(g, H, S, V, W, rank) ==
    /\ V # {} /\ rank \in [S -> Nat] /\ W \in [S -> SUBSET V]
    /\ LooksAtParts(H, S, [S -> V] \cup {g}, rank)
    /\ KeepsTypes(H, S, V, W, rank)
    /\ \A f \in [S -> V] : (\A x \in S : f[x] = H[x][f]) => \A x \in S : g[x] = H[x][g]
Solved(g, H, S, W) == \A x \in S : g[x] = H[x][g] /\ g[x] \in W[x]

LEMMA SolutionIsTyped ==
    ASSUME NEW g, NEW H, NEW S, NEW V, NEW W, NEW rank, Recursion(g, H, S, V, W, rank)
    PROVE  Solved(g, H, S, W)
  <1>0. /\ V # {} /\ rank \in [S -> Nat] /\ W \in [S -> SUBSET V]
        /\ LooksAtParts(H, S, [S -> V] \cup {g}, rank) /\ KeepsTypes(H, S, V, W, rank)
        /\ \A f \in [S -> V] : (\A x \in S : f[x] = H[x][f]) => \A x \in S : g[x] = H[x][g]
    BY DEF Recursion
  <1> PICK v \in V : TRUE BY <1>0
  <1>1. \A x \in S, f, h \in [S -> V] :
           (\A y \in S : rank[y] < rank[x] => f[y] = h[y]) => H[x][f] = H[x][h]
    BY <1>0 DEF LooksAtParts
  <1>2. \A x \in S, f \in [S -> V] :
           (\A y \in S : rank[y] < rank[x] => f[y] \in W[y]) => H[x][f] \in W[x]
    BY <1>0 DEF KeepsTypes
  <1>3. PICK f : SolvesIn(f, H, S, V, W)
    <2>1. \E f : SolvesIn(f, H, S, V, W) BY <1>0, <1>1, <1>2, TypedRecursion
    <2> QED BY <2>1
  <1>4. f \in [S -> V] /\ \A x \in S : f[x] = H[x][f] /\ f[x] \in W[x] BY <1>3 DEF SolvesIn
  <1>5. \A x \in S : g[x] = H[x][g] BY <1>0, <1>4
  <1>6. ASSUME NEW x \in S, \A y \in S : rank[y] < rank[x] => f[y] = g[y]
        PROVE  f[x] = g[x]
    <2>1. H[x][f] = H[x][g]
      <3>1. f \in [S -> V] \cup {g} /\ g \in [S -> V] \cup {g} BY <1>4
      <3> QED BY <1>0, <1>6, <3>1 DEF LooksAtParts
    <2> QED BY <1>4, <1>5, <2>1
  <1>7. \A x \in S : f[x] = g[x] BY <1>0, <1>6, AgreeByRank
  <1> QED BY <1>4, <1>5, <1>7 DEF Solved

\* Sets that grow with their level, up to the level d: the first that has x.
IsRank(rank, level, d) ==
    /\ rank \in [level[d] -> 1..d]
    /\ \A x \in level[d] : \A n \in 0..d : x \in level[n] <=> rank[x] <= n

LEMMA LevelRank ==
    ASSUME NEW d \in Nat, NEW level, level[0] = {},
           \A n \in 0..(d - 1) : level[n] \subseteq level[n + 1]
    PROVE  \E rank : IsRank(rank, level, d)
  <1> DEFINE above(m) == \A n \in m..d : level[m] \subseteq level[n]
             first(x) == CHOOSE m \in 1..d : x \in level[m] /\ \A n \in 0..(m - 1) : x \notin level[n]
             rank == [x \in level[d] |-> first(x)]
  <1>1. ASSUME NEW m \in 0..d, NEW n \in m..d PROVE level[m] \subseteq level[n]
    <2> DEFINE P == {k \in Nat : m + k <= d => level[m] \subseteq level[m + k]}
    <2>1. 0 \in P OBVIOUS
    <2>2. ASSUME NEW k \in P PROVE k + 1 \in P
      <3>1. SUFFICES ASSUME m + (k + 1) <= d PROVE level[m] \subseteq level[m + (k + 1)]
        OBVIOUS
      <3>2. m + k \in 0..(d - 1) /\ (m + k) + 1 = m + (k + 1) BY <3>1
      <3>3. level[m] \subseteq level[m + k] BY <3>1, <3>2
      <3>4. level[m + k] \subseteq level[(m + k) + 1] BY <3>2
      <3> QED BY <3>2, <3>3, <3>4
    <2>3. P \in SUBSET Nat OBVIOUS
    <2> HIDE DEF P
    <2>4. \A k \in Nat : k \in P BY <2>1, <2>2, <2>3, NaturalInduction
    <2>5. n - m \in Nat /\ m + (n - m) = n OBVIOUS
    <2> QED BY <2>4, <2>5 DEF P
  <1>2. ASSUME NEW x \in level[d]
        PROVE  \E m \in 1..d : x \in level[m] /\ \A n \in 0..(m - 1) : x \notin level[n]
    <2> DEFINE Q == {n \in 1..d : x \in level[n]}
    <2>1. d \in Q
      <3>1. d # 0 OBVIOUS
      <3> QED BY <3>1
    <2>2. PICK m \in Q : \A j \in Q : m <= j
      <3>1. Q \in SUBSET (1..d) /\ Q # {} BY <2>1
      <3> HIDE DEF Q
      <3> QED BY <3>1, FirstPosition
    <2>3. ASSUME NEW n \in 0..(m - 1) PROVE x \notin level[n]
      <3>1. CASE n = 0 BY <3>1
      <3>2. CASE n # 0
        <4>1. n \in 1..d /\ ~(m <= n) BY <3>2
        <4> QED BY <2>2, <4>1
      <3> QED BY <3>1, <3>2
    <2> QED BY <2>3
  <1>3. ASSUME NEW x \in level[d]
        PROVE  /\ rank[x] \in 1..d /\ x \in level[rank[x]]
               /\ \A n \in 0..(rank[x] - 1) : x \notin level[n]
    <2>1. rank[x] = first(x) OBVIOUS
    <2> HIDE DEF rank
    <2> QED BY <1>2, <2>1
  <1>4. DOMAIN rank = level[d] /\ rank = [x \in level[d] |-> rank[x]] OBVIOUS
  <1> HIDE DEF rank, first
  <1>5. ASSUME NEW x \in level[d], NEW n \in 0..d
        PROVE  x \in level[n] <=> rank[x] <= n
    <2>1. CASE rank[x] <= n
      <3>1. rank[x] \in 0..d /\ n \in rank[x]..d BY <1>3, <2>1
      <3> QED BY <1>1, <1>3, <2>1, <3>1
    <2>2. CASE ~(rank[x] <= n)
      <3>1. n \in 0..(rank[x] - 1) BY <1>3, <2>2
      <3> QED BY <1>3, <2>2, <3>1
    <2> QED BY <2>1, <2>2
  <1>6. rank \in [level[d] -> 1..d] BY <1>3, <1>4
  <1>7. IsRank(rank, level, d) BY <1>5, <1>6 DEF IsRank
  <1> QED BY <1>7

\* Step by step from a first value.
StepsFrom(f, first, H, n) == f[0] = first /\ \A i \in 1..n : f[i] = H[i][f[i - 1]]

LEMMA StepsExist ==
    ASSUME NEW n \in Nat, NEW V, NEW first \in V, NEW H \in [1..n -> [V -> V]]
    PROVE  \E f \in [0..n -> V] : StepsFrom(f, first, H, n)
  <1> DEFINE P == {k \in Nat : k <= n => \E f \in [0..k -> V] : StepsFrom(f, first, H, k)}
  <1>1. 0 \in P
    <2> DEFINE f == [i \in 0..0 |-> first]
    <2>1. f \in [0..0 -> V] /\ f[0] = first OBVIOUS
    <2> HIDE DEF f
    <2>2. StepsFrom(f, first, H, 0) BY <2>1 DEF StepsFrom
    <2> QED BY <2>1, <2>2
  <1>2. ASSUME NEW k \in P PROVE k + 1 \in P
    <2> SUFFICES ASSUME k + 1 <= n
                 PROVE  \E f \in [0..(k + 1) -> V] : StepsFrom(f, first, H, k + 1)
      OBVIOUS
    <2>1. PICK g \in [0..k -> V] : StepsFrom(g, first, H, k) OBVIOUS
    <2> DEFINE f == [i \in 0..(k + 1) |-> IF i = k + 1 THEN H[k + 1][g[k]] ELSE g[i]]
    <2>2. H[k + 1][g[k]] \in V
      <3>1. k + 1 \in 1..n /\ g[k] \in V OBVIOUS
      <3> QED BY <3>1
    <2>3. f \in [0..(k + 1) -> V] BY <2>2
    <2>4. f[k + 1] = H[k + 1][g[k]] /\ \A i \in 0..k : f[i] = g[i] OBVIOUS
    <2> HIDE DEF f
    <2>5. ASSUME NEW i \in 1..(k + 1) PROVE f[i] = H[i][f[i - 1]]
      <3>1. i - 1 \in 0..k /\ f[i - 1] = g[i - 1] BY <2>4
      <3>2. CASE i = k + 1 BY <2>4, <3>1, <3>2
      <3>3. CASE i # k + 1
        <4>1. i \in 1..k /\ i \in 0..k BY <3>3
        <4> QED BY <2>1, <2>4, <3>1, <4>1 DEF StepsFrom
      <3> QED BY <3>2, <3>3
    <2>6. f[0] = first
      <3>1. 0 \in 0..k OBVIOUS
      <3> QED BY <2>1, <2>4, <3>1 DEF StepsFrom
    <2>7. StepsFrom(f, first, H, k + 1) BY <2>5, <2>6 DEF StepsFrom
    <2> QED BY <2>3, <2>7
  <1>3. n \in P
    <2>1. P \in SUBSET Nat OBVIOUS
    <2> HIDE DEF P
    <2> QED BY <1>1, <1>2, <2>1, NaturalInduction
  <1> QED BY <1>3

\* g is what these steps define, where they are defined.
Unfolds(g, first, H, n, V) ==
    g[0] = first /\ \A i \in 1..n : g[i - 1] \in V => g[i] = H[i][g[i - 1]]

LEMMA StepsSolved ==
    ASSUME NEW n \in Nat, NEW V, NEW first \in V, NEW H \in [1..n -> [V -> V]], NEW g,
           \A f \in [0..n -> V] : StepsFrom(f, first, H, n) => Unfolds(g, first, H, n, V)
    PROVE  /\ g[0] = first /\ \A k \in 0..n : g[k] \in V
           /\ \A i \in 1..n : g[i] = H[i][g[i - 1]]
  <1>1. Unfolds(g, first, H, n, V) BY StepsExist
  <1> DEFINE P == {k \in Nat : k <= n => g[k] \in V}
  <1>2. 0 \in P BY <1>1 DEF Unfolds
  <1>3. ASSUME NEW k \in P PROVE k + 1 \in P
    <2>1. ASSUME k + 1 <= n PROVE g[k + 1] \in V
      <3>1. k + 1 \in 1..n /\ (k + 1) - 1 = k /\ g[k] \in V BY <2>1
      <3>2. g[k + 1] = H[k + 1][g[k]] BY <1>1, <3>1 DEF Unfolds
      <3> QED BY <3>1, <3>2
    <2> QED BY <2>1
  <1>4. \A k \in Nat : k \in P
    <2>1. P \in SUBSET Nat OBVIOUS
    <2> HIDE DEF P
    <2> QED BY <1>2, <1>3, <2>1, NaturalInduction
  <1>5. \A k \in 0..n : g[k] \in V BY <1>4
  <1>6. ASSUME NEW i \in 1..n PROVE g[i] = H[i][g[i - 1]]
    <2>1. i - 1 \in 0..n OBVIOUS
    <2> QED BY <1>1, <1>5, <2>1 DEF Unfolds
  <1> QED BY <1>1, <1>5, <1>6 DEF Unfolds
=============================================================================
