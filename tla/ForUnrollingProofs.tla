-------------------------- MODULE ForUnrollingProofs --------------------------
(***************************************************************************)
(* Theorems about ForUnrolling, for words of every width and any limit:    *)
(* the count of iterations, computed with wrapping subtraction and         *)
(* unsigned division, is that of the loop it stands for, and what nested   *)
(* forms unroll together stays within the one budget.                      *)
(***************************************************************************)
EXTENDS ForUnrolling, SequenceLemmas

-----------------------------------------------------------------------------
(* Division with rest *)

LEMMA DivisionFacts ==
    ASSUME NEW a \in Int, NEW b \in Nat \ {0}
    PROVE  /\ a \div b \in Int
           /\ a % b \in 0..(b - 1)
           /\ a = b * (a \div b) + (a % b)
  OBVIOUS

LEMMA ProductMonotone ==
    ASSUME NEW a \in Int, NEW b \in Int, NEW c \in Nat, a <= b
    PROVE  a * c <= b * c
  OBVIOUS

\* k whole parts of d are short of n just when k is short of the rounded-up
\* quotient.
LEMMA DivCeilFacts ==
    ASSUME NEW n \in Nat \ {0}, NEW d \in Nat \ {0}
    PROVE  /\ DivCeil(n, d) \in Nat
           /\ \A k \in Int : k < DivCeil(n, d) <=> k * d < n
  <1> DEFINE m == n + d - 1
             q == m \div d
             r == m % d
  <1>1. m \in Int OBVIOUS
  <1> HIDE DEF m
  <1>2. q \in Int /\ r \in 0..(d - 1) /\ m = d * q + r
    BY <1>1, DivisionFacts
  <1>3. DivCeil(n, d) = q BY DEF DivCeil, m
  <1>4. m = n + d - 1 BY DEF m
  <1> HIDE DEF q, r
  <1>5. q * d = d * q /\ (q - 1) * d = d * q - d /\ d * q \in Int BY <1>2
  <1>6. ASSUME NEW k \in Int, k <= q - 1 PROVE k * d < n
    <2>1. k * d <= (q - 1) * d BY <1>2, <1>6, ProductMonotone
    <2>2. k * d \in Int OBVIOUS
    <2> HIDE DEF m
    <2> QED BY <1>2, <1>4, <1>5, <2>1, <2>2
  <1>7. ASSUME NEW k \in Int, q <= k PROVE n <= k * d
    <2>1. q * d <= k * d BY <1>2, <1>7, ProductMonotone
    <2>2. k * d \in Int OBVIOUS
    <2> QED BY <1>2, <1>4, <1>5, <2>1, <2>2
  <1>8. \A k \in Int : k < q <=> k * d < n
    <2> SUFFICES ASSUME NEW k \in Int PROVE k < q <=> k * d < n
      OBVIOUS
    <2>1. k <= q - 1 \/ q <= k BY <1>2
    <2>2. k * d \in Int OBVIOUS
    <2>3. CASE k <= q - 1 BY <1>2, <1>6, <2>3
    <2>4. CASE q <= k BY <1>2, <1>7, <2>2, <2>4
    <2> QED BY <2>1, <2>3, <2>4
  <1>9. q >= 0
    <2>1. 0 * d < n OBVIOUS
    <2> QED BY <1>2, <1>8, <2>1
  <1> QED BY <1>2, <1>3, <1>8, <1>9

-----------------------------------------------------------------------------
(* Words *)

LEMMA SmallRest == ASSUME NEW m \in Nat \ {0}, NEW a \in 0..(m - 1) PROVE a % m = a
  OBVIOUS

LEMMA RestAbove ==
    ASSUME NEW m \in Nat \ {0}, NEW a \in Int, m <= a, a < 2 * m
    PROVE  a % m = a - m
  OBVIOUS

LEMMA RestBelow ==
    ASSUME NEW m \in Nat \ {0}, NEW a \in Int, -m <= a, a < 0
    PROVE  a % m = a + m
  OBVIOUS

LEMMA WrappedFacts ==
    ASSUME NEW n \in Int
    PROVE  /\ Wrapped(n) \in Word
           /\ n \in Word => Wrapped(n) = n
  <1>1. HalfRange \in Nat /\ HalfRange # 0 BY RangeAssumption
  <1>2. Words \in Nat \ {0} /\ n - MinWord \in Int BY <1>1 DEF Words, MinWord
  <1>3. (n - MinWord) % Words \in 0..(Words - 1) BY <1>2, DivisionFacts
  <1>4. Wrapped(n) \in Word
    BY <1>1, <1>3 DEF Wrapped, Word, Words, MinWord, MaxWord
  <1>5. ASSUME n \in Word PROVE Wrapped(n) = n
    <2>1. n - MinWord \in 0..(Words - 1)
      BY <1>1, <1>5 DEF Word, Words, MinWord, MaxWord
    <2>2. (n - MinWord) % Words = n - MinWord BY <1>2, <2>1, SmallRest
    <2> QED BY <1>1, <2>2 DEF Wrapped, MinWord
  <1> QED BY <1>4, <1>5

\* The difference of two words, wrapped to i64 and read as u64, is exact.
LEMMA SpanExact ==
    ASSUME NEW from \in Word, NEW to \in Word, from < to
    PROVE  Span(from, to) = to - from
  <1> DEFINE d == to - from
  <1>1. /\ HalfRange \in Nat /\ HalfRange # 0
        /\ Words = 2 * HalfRange /\ MinWord = -HalfRange
    BY RangeAssumption DEF Words, MinWord
  <1>2. d \in Int /\ 0 < d /\ d < Words
    BY <1>1 DEF Word, MinWord, MaxWord
  <1>3. Words \in Nat \ {0} BY <1>1
  <1> HIDE DEF d
  <1>4. CASE d < HalfRange
    <2>1. d \in Word BY <1>1, <1>2, <1>4 DEF Word, MaxWord
    <2>2. Wrapped(d) = d BY <1>2, <2>1, WrappedFacts
    <2>3. d % Words = d BY <1>2, <1>3, SmallRest
    <2> QED BY <2>2, <2>3 DEF Span, Unsigned, d
  <1>5. CASE HalfRange <= d
    <2>1. (d - MinWord) % Words = d - MinWord - Words
      <3>1. d - MinWord \in Int /\ Words <= d - MinWord /\ d - MinWord < 2 * Words
        BY <1>1, <1>2, <1>5
      <3> QED BY <1>3, <3>1, RestAbove
    <2>2. Wrapped(d) = d - Words BY <1>1, <1>2, <2>1 DEF Wrapped
    <2>3. (d - Words) % Words = d
      <3>1. d - Words \in Int /\ -Words <= d - Words /\ d - Words < 0
        BY <1>2, <1>3
      <3>2. (d - Words) % Words = (d - Words) + Words BY <1>3, <3>1, RestBelow
      <3> QED BY <1>2, <1>3, <3>2
    <2> QED BY <2>2, <2>3 DEF Span, Unsigned, d
  <1> QED BY <1>1, <1>2, <1>4, <1>5

-----------------------------------------------------------------------------
(* compute_iterations *)

\* Both directions at once: k is short of the count just when the loop goes on
\* after k steps, and then the value after k steps is a word.
LEMMA IterationsFacts ==
    ASSUME NEW start \in Word, NEW end \in Word, NEW step \in Word, step # 0
    PROVE  /\ ComputeIterations(start, end, step) \in Nat
           /\ \A k \in Nat :
                 /\ k < ComputeIterations(start, end, step)
                      <=> Continues(start + k * step, end, step)
                 /\ k < ComputeIterations(start, end, step)
                      => start + k * step \in Word
  <1> DEFINE count == ComputeIterations(start, end, step)
  <1>1. /\ HalfRange \in Nat /\ HalfRange # 0
        /\ start \in Int /\ end \in Int /\ step \in Int
        /\ Word = -HalfRange..(HalfRange - 1)
    BY RangeAssumption DEF Word, MinWord, MaxWord
  <1>2. CASE step > 0 /\ start >= end
    <2>1. count = 0 BY <1>2 DEF ComputeIterations
    <2>2. ASSUME NEW k \in Nat PROVE ~Continues(start + k * step, end, step)
      <3>1. 0 * step <= k * step BY <1>1, <1>2, ProductMonotone
      <3>2. k * step \in Int /\ 0 * step = 0 BY <1>1
      <3> QED BY <1>1, <1>2, <3>1, <3>2 DEF Continues
    <2> HIDE DEF count
    <2> QED BY <2>1, <2>2 DEF count
  <1>3. CASE step > 0 /\ start < end
    <2>1. end - start \in Nat \ {0} /\ step \in Nat \ {0} BY <1>1, <1>3
    <2>2. count = DivCeil(end - start, step)
      <3>1. Span(start, end) = end - start BY <1>3, SpanExact
      <3> QED BY <1>1, <1>3, <3>1 DEF ComputeIterations
    <2> HIDE DEF count
    <2>3. count \in Nat /\ \A k \in Int : k < count <=> k * step < end - start
      BY <2>1, <2>2, DivCeilFacts
    <2>4. ASSUME NEW k \in Nat
          PROVE  /\ k < count <=> Continues(start + k * step, end, step)
                 /\ k < count => start + k * step \in Word
      <3>1. k * step \in Int /\ 0 * step <= k * step /\ 0 * step = 0
        BY <1>1, <2>1, ProductMonotone
      <3>2. k < count <=> k * step < end - start BY <2>3
      <3> HIDE DEF Continues
      <3>3. Continues(start + k * step, end, step) <=> start + k * step < end
        BY <1>3 DEF Continues
      <3> QED BY <1>1, <3>1, <3>2, <3>3
    <2> QED BY <2>3, <2>4 DEF count
  <1>4. CASE step < 0 /\ start <= end
    <2>1. count = 0 BY <1>1, <1>4 DEF ComputeIterations
    <2>2. ASSUME NEW k \in Nat PROVE ~Continues(start + k * step, end, step)
      <3>1. 0 * (-step) <= k * (-step) BY <1>1, <1>4, ProductMonotone
      <3>2. /\ k * step \in Int /\ 0 * (-step) = 0 /\ k * (-step) = -(k * step)
        BY <1>1
      <3> QED BY <1>1, <1>4, <3>1, <3>2 DEF Continues
    <2> HIDE DEF count
    <2> QED BY <2>1, <2>2 DEF count
  <1>5. CASE step < 0 /\ end < start
    <2> DEFINE size == -step
    <2>1. start - end \in Nat \ {0} /\ size \in Nat \ {0} BY <1>1, <1>5
    <2>2. count = DivCeil(start - end, size)
      <3>1. Span(end, start) = start - end BY <1>5, SpanExact
      <3>2. Unsigned(size) = size
        <4>1. Words \in Nat \ {0} /\ size \in 0..(Words - 1) BY <1>1, <1>5 DEF Words
        <4> QED BY <4>1, SmallRest DEF Unsigned
      <3> QED BY <1>1, <1>5, <3>1, <3>2 DEF ComputeIterations
    <2>3. step = -size BY <1>1
    <2> HIDE DEF count, size
    <2>4. count \in Nat /\ \A k \in Int : k < count <=> k * size < start - end
      BY <2>1, <2>2, DivCeilFacts
    <2>5. ASSUME NEW k \in Nat
          PROVE  /\ k < count <=> Continues(start + k * step, end, step)
                 /\ k < count => start + k * step \in Word
      <3>1. /\ k * size \in Int /\ 0 * size <= k * size /\ 0 * size = 0
            /\ k * step = -(k * size)
        BY <2>1, <2>3, ProductMonotone
      <3>2. k < count <=> k * size < start - end BY <2>4
      <3>3. Continues(start + k * step, end, step) <=> start + k * step > end
        BY <1>1, <1>5 DEF Continues
      <3> QED BY <1>1, <3>1, <3>2, <3>3
    <2> QED BY <2>4, <2>5 DEF count
  <1> QED BY <1>1, <1>2, <1>3, <1>4, <1>5

-----------------------------------------------------------------------------
(* The inductive invariant *)

\* A call of expand_for is a whole number of steps into its range, and its
\* variable has the value of the next iteration, if there is one.
ForSound(f) ==
    /\ f.step # 0
    /\ f.left <= ComputeIterations(f.start, f.end, f.step)
    /\ f.left > 0 => f.current = f.start + Done(f) * f.step

ForInv ==
    /\ TypeOK
    /\ \A i \in DOMAIN fors : ForSound(fors[i])
    /\ BudgetIsSpent

\* The sum of what the calls in progress have left, written out.
Totals(total, calls, rest) ==
    /\ total \in [0..Len(calls) -> 0..MaxExpansions]
    /\ total[0] = 0
    /\ \A i \in DOMAIN calls : total[i] = total[i - 1] + calls[i].left
    /\ total[Len(calls)] = rest

LEMMA TotalsPush ==
    ASSUME NEW calls \in Seq(For), NEW f \in For, NEW rest \in Nat, NEW total,
           Totals(total, calls, rest), rest + f.left <= MaxExpansions
    PROVE  \E more : Totals(more, Append(calls, f), rest + f.left)
  <1> DEFINE n == Len(calls)
             longer == Append(calls, f)
             more == [i \in 0..(n + 1) |-> IF i = n + 1 THEN rest + f.left
                                                      ELSE total[i]]
  <1>1. /\ n \in Nat /\ DOMAIN calls = 1..n
        /\ longer \in Seq(For) /\ Len(longer) = n + 1 /\ DOMAIN longer = 1..(n + 1)
        /\ longer[n + 1] = f
        /\ \A i \in 1..n : longer[i] = calls[i]
    OBVIOUS
  <1>2. /\ f.left \in Nat /\ MaxExpansions \in Nat
        /\ \A i \in 0..n : total[i] \in 0..MaxExpansions
        /\ total[0] = 0 /\ total[n] = rest
        /\ \A i \in 1..n : total[i] = total[i - 1] + calls[i].left
    BY <1>1, LimitsAssumption DEF For, Totals
  <1> HIDE DEF n, longer
  <1>3. more \in [0..(n + 1) -> 0..MaxExpansions] BY <1>1, <1>2
  <1>4. more[0] = 0 /\ more[n + 1] = rest + f.left BY <1>1, <1>2
  <1>5. \A i \in 1..(n + 1) : more[i] = more[i - 1] + longer[i].left
    <2> SUFFICES ASSUME NEW i \in 1..(n + 1)
                 PROVE  more[i] = more[i - 1] + longer[i].left
      OBVIOUS
    <2>1. i \in Int /\ i - 1 \in 0..n /\ more[i - 1] = total[i - 1] BY <1>1
    <2>2. CASE i = n + 1 BY <1>1, <1>2, <2>1, <2>2
    <2>3. CASE i # n + 1
      <3>1. i \in 1..n /\ more[i] = total[i] BY <1>1, <2>1, <2>3
      <3> QED BY <1>1, <1>2, <2>1, <3>1
    <2> QED BY <2>2, <2>3
  <1> HIDE DEF more
  <1>6. Totals(more, longer, rest + f.left) BY <1>1, <1>3, <1>4, <1>5 DEF Totals
  <1> QED BY <1>6 DEF longer

LEMMA TotalsPop ==
    ASSUME NEW calls \in Seq(For), calls # <<>>, NEW rest \in Nat, NEW total,
           Totals(total, calls, rest)
    PROVE  /\ Last(calls).left <= rest
           /\ \E less : Totals(less, Front(calls), rest - Last(calls).left)
  <1> DEFINE n == Len(calls)
             shorter == Front(calls)
             f == Last(calls)
             less == [i \in 0..(n - 1) |-> total[i]]
  <1>1. /\ n \in Nat /\ n # 0 /\ DOMAIN calls = 1..n
        /\ shorter \in Seq(For) /\ Len(shorter) = n - 1
        /\ DOMAIN shorter = 1..(n - 1)
        /\ \A i \in 1..(n - 1) : shorter[i] = calls[i]
        /\ f = calls[n] /\ f \in For /\ f.left \in Nat
    <2>1. /\ shorter \in Seq(For) /\ Len(shorter) = n - 1
          /\ \A i \in 1..(n - 1) : shorter[i] = calls[i]
          /\ f = calls[n] /\ f \in For
      BY FrontLast
    <2>2. n \in Nat /\ n # 0 /\ DOMAIN calls = 1..n OBVIOUS
    <2>3. f.left \in Nat BY <2>1 DEF For
    <2>4. DOMAIN shorter = 1..(n - 1) BY <2>1
    <2> QED BY <2>1, <2>2, <2>3, <2>4
  <1>2. /\ total \in [0..n -> 0..MaxExpansions] /\ MaxExpansions \in Nat
        /\ total[0] = 0 /\ total[n] = rest
        /\ \A i \in 1..n : total[i] = total[i - 1] + calls[i].left
    BY <1>1, LimitsAssumption DEF Totals
  <1> HIDE DEF n, shorter, f
  <1>3. /\ n \in 1..n /\ n - 1 \in 0..n
        /\ total[n] = total[n - 1] + f.left /\ total[n - 1] \in Nat
    BY <1>1, <1>2
  <1>4. less \in [0..(n - 1) -> 0..MaxExpansions] /\ less[0] = 0
    BY <1>1, <1>2
  <1>5. \A i \in 1..(n - 1) : less[i] = less[i - 1] + shorter[i].left
    BY <1>1, <1>2
  <1>6. less[n - 1] = rest - f.left BY <1>1, <1>2, <1>3
  <1>7. f.left <= rest BY <1>1, <1>2, <1>3
  <1> HIDE DEF less
  <1>8. Totals(less, shorter, rest - f.left)
    BY <1>1, <1>4, <1>5, <1>6 DEF Totals
  <1> QED BY <1>7, <1>8 DEF shorter, f

\* BudgetIsSpent, with the sum named.
LEMMA BudgetFacts ==
    ASSUME TypeOK
    PROVE  BudgetIsSpent <=>
              \E total : Totals(total, fors, MaxExpansions - budget - expanded)
  <1>1. /\ MaxExpansions \in Int /\ budget \in Int /\ expanded \in Int
        /\ Len(fors) \in Nat
    BY LimitsAssumption DEF TypeOK
  <1>2. ASSUME NEW total \in [0..Len(fors) -> 0..MaxExpansions]
        PROVE  MaxExpansions - budget = expanded + total[Len(fors)]
                 <=> total[Len(fors)] = MaxExpansions - budget - expanded
    <2>1. total[Len(fors)] \in Int BY <1>1
    <2> QED BY <1>1, <2>1
  <1> QED BY <1>2 DEF BudgetIsSpent, Totals

LEMMA BudgetNext ==
    ASSUME TypeOK', NEW total,
           Totals(total, fors', MaxExpansions - budget' - expanded')
    PROVE  BudgetIsSpent'
  <1>1. /\ MaxExpansions \in Int /\ budget' \in Int /\ expanded' \in Int
    BY LimitsAssumption DEF TypeOK
  <1>2. total[Len(fors')] = MaxExpansions - budget' - expanded'
    BY DEF Totals
  <1>3. MaxExpansions - budget' = expanded' + total[Len(fors')]
    BY <1>1, <1>2
  <1> QED BY <1>3 DEF BudgetIsSpent, Totals

-----------------------------------------------------------------------------
(* The steps *)

LEMMA InitForInv == ASSUME Init PROVE ForInv
  <1>1. MaxExpansions \in Nat BY LimitsAssumption
  <1>2. TypeOK BY <1>1 DEF Init, TypeOK
  <1>3. BudgetIsSpent
    <2> DEFINE total == [i \in 0..0 |-> 0]
    <2>1. fors = <<>> /\ budget = MaxExpansions /\ expanded = 0 BY DEF Init
    <2>2. Totals(total, <<>>, 0) BY <1>1 DEF Totals
    <2>3. MaxExpansions - budget - expanded = 0 BY <1>1, <2>1
    <2> QED BY <1>2, <2>1, <2>2, <2>3, BudgetFacts
  <1> QED BY <1>2, <1>3 DEF ForInv, Init

LEMMA BeginForStep == ASSUME ForInv, BeginExpansion PROVE ForInv'
  <1>1. /\ phase' = "expanding" /\ fors' = <<>>
        /\ budget' = MaxExpansions /\ expanded' = 0
    BY DEF BeginExpansion
  <1>2. MaxExpansions \in Nat BY LimitsAssumption
  <1>3. TypeOK' BY <1>1, <1>2 DEF TypeOK
  <1>4. BudgetIsSpent'
    <2> DEFINE total == [i \in 0..0 |-> 0]
    <2>1. Totals(total, <<>>, 0) BY <1>2 DEF Totals
    <2>2. MaxExpansions - budget' - expanded' = 0 BY <1>1, <1>2
    <2> QED BY <1>1, <1>3, <2>1, <2>2, BudgetNext
  <1> QED BY <1>1, <1>3, <1>4 DEF ForInv

\* A step of phase alone.
LEMMA PhaseStep ==
    ASSUME ForInv, phase' \in {"expanding", "done", "failed"},
           UNCHANGED <<fors, budget, expanded>>
    PROVE  ForInv'
  BY DEF ForInv, TypeOK, BudgetIsSpent

LEMMA EnterForStep ==
    ASSUME ForInv, NEW b \in Bounds, EnterFor(b[1], b[2], b[3])
    PROVE  ForInv'
  <1> DEFINE start == b[1]
             end == b[2]
             step == b[3]
             count == ComputeIterations(start, end, step)
             f == [start |-> start, end |-> end, step |-> step,
                   current |-> start, left |-> count]
             rest == MaxExpansions - budget - expanded
  <1>1. start \in Word /\ end \in Word /\ step \in Word BY BoundsAssumption
  <1>2. /\ TypeOK /\ fors \in Seq(For) /\ budget \in 0..MaxExpansions
        /\ expanded \in Nat /\ MaxExpansions \in Nat
        /\ \A i \in DOMAIN fors : ForSound(fors[i])
    BY LimitsAssumption DEF ForInv, TypeOK
  <1>3. CASE step = 0 \/ TooMany(count)
    <2>1. Fail BY <1>3 DEF EnterFor
    <2> QED BY <2>1, PhaseStep DEF Fail
  <1>4. CASE ~(step = 0 \/ TooMany(count))
    <2>1. /\ budget' = budget - count /\ fors' = Append(fors, f)
          /\ phase' = phase /\ expanded' = expanded
          /\ step # 0 /\ ~(count > budget)
      BY <1>4 DEF EnterFor, Charged, TooMany
    <2>2. count \in Nat BY <1>1, <2>1, IterationsFacts
    <2>3. f \in For BY <1>1, <2>2 DEF For
    <2>4. start + 0 * step = start /\ count - count = 0
      BY <1>1, <2>2, RangeAssumption DEF Word, MinWord, MaxWord
    <2>5. ForSound(f)
      <3>1. /\ f.start = start /\ f.end = end /\ f.step = step
            /\ f.current = start /\ f.left = count
        OBVIOUS
      <3> HIDE DEF f
      <3>2. Done(f) = 0 BY <2>4, <3>1 DEF Done
      <3> QED BY <2>1, <2>2, <2>4, <3>1, <3>2 DEF ForSound
    <2>6. f.left = count OBVIOUS
    <2> HIDE DEF f, count, start, end, step
    <2>7. fors' \in Seq(For) /\ budget' \in 0..MaxExpansions
      BY <1>2, <2>1, <2>2, <2>3
    <2>8. TypeOK' BY <1>2, <2>1, <2>7 DEF TypeOK
    <2>9. \A i \in DOMAIN fors' : ForSound(fors'[i])
      <3>1. \A i \in DOMAIN Append(fors, f) :
               \/ Append(fors, f)[i] = f
               \/ i \in DOMAIN fors /\ Append(fors, f)[i] = fors[i]
        BY <1>2, <2>3
      <3>2. fors' = Append(fors, f) BY <2>1
      <3> QED BY <1>2, <2>5, <3>1, <3>2
    <2>10. BudgetIsSpent'
      <3>1. PICK total : Totals(total, fors, rest)
        BY <1>2, BudgetFacts DEF ForInv
      <3>2. rest \in Nat /\ rest + count <= MaxExpansions
        <4>1. rest \in 0..MaxExpansions
          BY <1>2, <3>1 DEF Totals
        <4> QED BY <1>2, <2>1, <2>2, <4>1
      <3>3. PICK more : Totals(more, Append(fors, f), rest + f.left)
        BY <1>2, <2>3, <2>6, <3>1, <3>2, TotalsPush
      <3>4. MaxExpansions - budget' - expanded' = rest + f.left
        BY <1>2, <2>1, <2>2, <2>6
      <3> QED BY <2>1, <2>8, <3>3, <3>4, BudgetNext
    <2> QED BY <2>8, <2>9, <2>10 DEF ForInv
  <1> QED BY <1>3, <1>4

LEMMA IterateStep == ASSUME ForInv, Iterate PROVE ForInv'
  <1> DEFINE below == Front(fors)
             f == Last(fors)
             next == f.current + f.step
             g == [f EXCEPT !.current = Wrapped(next), !.left = @ - 1]
             count == ComputeIterations(f.start, f.end, f.step)
             rest == MaxExpansions - budget - expanded
  <1>1. /\ fors # <<>> /\ f.left > 0
        /\ phase' \in {"expanding", "panicked"}
        /\ fors' = Append(below, g)
        /\ expanded' = expanded + 1 /\ budget' = budget
    BY DEF Iterate, Top
  <1>2. /\ TypeOK /\ fors \in Seq(For) /\ budget \in 0..MaxExpansions
        /\ expanded \in Nat /\ MaxExpansions \in Nat
        /\ \A i \in DOMAIN fors : ForSound(fors[i])
    BY LimitsAssumption DEF ForInv, TypeOK
  <1>3. /\ below \in Seq(For) /\ Len(below) = Len(fors) - 1
        /\ \A i \in 1..(Len(fors) - 1) : below[i] = fors[i]
        /\ f \in For /\ f = fors[Len(fors)] /\ Len(fors) \in DOMAIN fors
    BY <1>1, <1>2, FrontLast
  <1>4. ForSound(f) BY <1>2, <1>3
  <1> HIDE DEF f, below
  <1>5. /\ f.start \in Word /\ f.end \in Word /\ f.step \in Word
        /\ f.current \in Word /\ f.left \in Nat
    BY <1>3 DEF For
  <1>6. /\ f.step # 0 /\ f.left <= count
        /\ f.current = f.start + Done(f) * f.step /\ Done(f) = count - f.left
    BY <1>1, <1>4 DEF ForSound, Done
  <1>7. /\ f.start \in Int /\ f.step \in Int /\ f.current \in Int
        /\ f.left \in Int /\ f.left > 0
    BY <1>1, <1>5, RangeAssumption DEF Word, MinWord, MaxWord
  <1>8. /\ g.start = f.start /\ g.end = f.end /\ g.step = f.step
        /\ g.current = Wrapped(next) /\ g.left = f.left - 1
    BY <1>3 DEF For
  <1>9. next \in Int /\ Wrapped(next) \in Word
    <2>1. next \in Int BY <1>7
    <2> HIDE DEF next
    <2> QED BY <2>1, WrappedFacts
  <1>10. g \in For /\ g.left \in Nat
    <2>1. g.left \in Nat BY <1>1, <1>5, <1>6, <1>8
    <2> HIDE DEF next
    <2> QED BY <1>3, <1>9, <2>1, <1>5, <1>6, <1>8 DEF For
  <1>11. count \in Nat /\ \A k \in Nat : k < count => f.start + k * f.step \in Word
    BY <1>5, <1>6, IterationsFacts
  <1>12. ForSound(g)
    <2> DEFINE past == count - f.left
    <2>1. past \in Nat /\ Done(f) = past BY <1>5, <1>6, <1>11
    <2> HIDE DEF count, g
    <2>2. Done(g) = past + 1 BY <1>5, <1>6, <1>8, <1>11 DEF Done, count
    <2>3. g.left > 0 => past + 1 < count
      <3>1. g.left = f.left - 1 /\ past = count - f.left /\ count \in Nat
        BY <1>8, <1>11
      <3> HIDE DEF past
      <3> QED BY <1>7, <3>1
    <2> HIDE DEF past
    <2>4. next = f.start + (past + 1) * f.step
      <3> DEFINE gone == past * f.step
      <3>1. f.current = f.start + gone BY <1>5, <1>6, <2>1
      <3>2. (past + 1) * f.step = gone + f.step /\ gone \in Int
        BY <1>7, <2>1
      <3> HIDE DEF gone
      <3> QED BY <1>7, <3>1, <3>2
    <2> HIDE DEF next
    <2>5. g.left <= count
      <3>1. g.left = f.left - 1 /\ f.left <= count /\ count \in Nat
        BY <1>5, <1>6, <1>8, <1>11
      <3> QED BY <1>7, <3>1
    <2>6. ASSUME g.left > 0 PROVE g.current = f.start + (past + 1) * f.step
      <3>1. past + 1 < count BY <2>3, <2>6
      <3>2. next \in Word BY <1>11, <2>1, <2>4, <3>1
      <3> QED BY <1>8, <1>9, <2>4, <3>2, WrappedFacts
    <2> QED BY <1>5, <1>6, <1>8, <2>2, <2>5, <2>6 DEF ForSound, count
  <1> HIDE DEF g, f, below, next, count
  <1>13. TypeOK'
    BY <1>1, <1>2, <1>3, <1>10 DEF TypeOK
  <1>14. \A i \in DOMAIN fors' : ForSound(fors'[i])
    <2>1. \A i \in DOMAIN Append(below, g) :
             \/ Append(below, g)[i] = g
             \/ i \in DOMAIN fors /\ Append(below, g)[i] = fors[i]
      BY <1>2, <1>3, <1>10
    <2> QED BY <1>1, <1>2, <1>12, <2>1
  <1>15. BudgetIsSpent'
    <2>1. PICK total : Totals(total, fors, rest)
      BY <1>2, BudgetFacts DEF ForInv
    <2>2. rest \in 0..MaxExpansions BY <1>2, <2>1 DEF Totals
    <2>3. /\ f.left <= rest
          /\ \E less : Totals(less, below, rest - f.left)
      BY <1>1, <1>2, <2>1, <2>2, TotalsPop DEF f, below
    <2>4. PICK less : Totals(less, below, rest - f.left) BY <2>3
    <2>5. /\ rest - f.left \in Nat
          /\ (rest - f.left) + g.left <= MaxExpansions
          /\ (rest - f.left) + g.left = rest - 1
      <3>1. g.left = f.left - 1 /\ f.left <= rest BY <1>8, <2>3
      <3> HIDE DEF rest
      <3> QED BY <1>2, <1>7, <2>2, <3>1
    <2>6. PICK more : Totals(more, Append(below, g), rest - 1)
      <3> DEFINE under == rest - f.left
      <3>1. Totals(less, below, under) /\ under \in Nat /\ under + g.left <= MaxExpansions
        BY <2>4, <2>5
      <3>2. under + g.left = rest - 1 BY <2>5
      <3> HIDE DEF under
      <3>3. \E more : Totals(more, Append(below, g), under + g.left)
        BY <1>3, <1>10, <3>1, TotalsPush
      <3> QED BY <3>2, <3>3
    <2>7. MaxExpansions - budget' - expanded' = rest - 1
      BY <1>1, <1>2
    <2> QED BY <1>1, <1>13, <2>6, <2>7, BudgetNext
  <1> QED BY <1>13, <1>14, <1>15 DEF ForInv

LEMMA ExitForStep == ASSUME ForInv, ExitFor PROVE ForInv'
  <1> DEFINE rest == MaxExpansions - budget - expanded
  <1>1. /\ fors # <<>> /\ Last(fors).left = 0 /\ fors' = Front(fors)
        /\ UNCHANGED <<phase, budget, expanded>>
    BY DEF ExitFor, Top
  <1>2. /\ TypeOK /\ fors \in Seq(For) /\ budget \in 0..MaxExpansions
        /\ expanded \in Nat /\ MaxExpansions \in Nat
        /\ \A i \in DOMAIN fors : ForSound(fors[i])
    BY LimitsAssumption DEF ForInv, TypeOK
  <1>3. /\ fors' \in Seq(For) /\ Len(fors') = Len(fors) - 1
        /\ \A i \in 1..(Len(fors) - 1) : fors'[i] = fors[i]
    BY <1>1, <1>2, FrontLast
  <1>4. TypeOK' BY <1>1, <1>2, <1>3 DEF TypeOK
  <1>5. \A i \in DOMAIN fors' : i \in DOMAIN fors /\ fors'[i] = fors[i]
    BY <1>2, <1>3
  <1>6. BudgetIsSpent'
    <2>1. PICK total : Totals(total, fors, rest)
      BY <1>2, BudgetFacts DEF ForInv
    <2>2. rest \in 0..MaxExpansions BY <1>2, <2>1 DEF Totals
    <2>3. \E less : Totals(less, Front(fors), rest - Last(fors).left)
      BY <1>1, <1>2, <2>1, <2>2, TotalsPop
    <2>4. rest - Last(fors).left = MaxExpansions - budget' - expanded'
      BY <1>1, <1>2, <2>2
    <2> QED BY <1>1, <1>4, <2>3, <2>4, BudgetNext
  <1> QED BY <1>2, <1>4, <1>5, <1>6 DEF ForInv

LEMMA NextForInv == ASSUME ForInv, [Next]_vars PROVE ForInv'
  <1>1. CASE BeginExpansion BY <1>1, BeginForStep
  <1>2. CASE \E b \in Bounds : EnterFor(b[1], b[2], b[3]) BY <1>2, EnterForStep
  <1>3. CASE Iterate BY <1>3, IterateStep
  <1>4. CASE ExitFor BY <1>4, ExitForStep
  <1>5. CASE Malformed BY <1>5, PhaseStep DEF Malformed, Fail
  <1>6. CASE EndExpansion BY <1>6, PhaseStep DEF EndExpansion
  <1>7. CASE UNCHANGED vars
    BY <1>7 DEF vars, ForInv, TypeOK, BudgetIsSpent
  <1> QED BY <1>1, <1>2, <1>3, <1>4, <1>5, <1>6, <1>7 DEF Next

-----------------------------------------------------------------------------
(* The theorems *)

THEOREM UnrollingInvariance == Spec => []ForInv
  <1>1. Init => ForInv BY InitForInv
  <1>2. ForInv /\ [Next]_vars => ForInv' BY NextForInv
  <1> QED BY <1>1, <1>2, PTL DEF Spec

\* The budget and the counters of nested forms keep their ranges: no
\* subtraction from the budget is below zero.
THEOREM UnrollingTypes == Spec => []TypeOK
  <1>1. ForInv => TypeOK BY DEF ForInv
  <1> QED BY <1>1, UnrollingInvariance, PTL

\* A `for` is unrolled to exactly the iterations that the loop of its bounds
\* would do, for words of any width: the wrapping subtractions, the unsigned
\* division and the negated step lose nothing at the extremes.
THEOREM UnrollingMatchesLoop == Spec => []MatchesLoop
  <1>1. ASSUME ForInv PROVE MatchesLoop
    <2> SUFFICES ASSUME NEW i \in DOMAIN fors
                 PROVE  LET f == fors[i]
                            value == f.start + Done(f) * f.step
                        IN /\ f.left > 0 => f.current = value
                           /\ f.left > 0 <=> Continues(value, f.end, f.step)
      BY DEF MatchesLoop
    <2> DEFINE f == fors[i]
               count == ComputeIterations(f.start, f.end, f.step)
    <2>1. f \in For /\ ForSound(f) BY <1>1 DEF ForInv, TypeOK
    <2> HIDE DEF f
    <2>2. /\ f.start \in Word /\ f.end \in Word /\ f.step \in Word
          /\ f.left \in Nat /\ f.step # 0 /\ f.left <= count
          /\ f.left > 0 => f.current = f.start + Done(f) * f.step
      BY <2>1 DEF For, ForSound
    <2>3. /\ count \in Nat
          /\ \A k \in Nat :
                k < count <=> Continues(f.start + k * f.step, f.end, f.step)
      BY <2>2, IterationsFacts
    <2>4. Done(f) = count - f.left BY DEF Done
    <2> HIDE DEF count
    <2>5. Done(f) \in Nat /\ (f.left > 0 <=> Done(f) < count)
      BY <2>2, <2>3, <2>4
    <2> QED BY <2>2, <2>3, <2>5 DEF f
  <1> QED BY <1>1, UnrollingInvariance, PTL

\* Whatever nests in whatever, an expression unrolls no more iterations than
\* were taken from the one budget.
THEOREM BudgetSpentOnce == Spec => []BudgetIsSpent
  <1>1. ForInv => BudgetIsSpent BY DEF ForInv
  <1> QED BY <1>1, UnrollingInvariance, PTL
=============================================================================
