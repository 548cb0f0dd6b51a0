---------------------------- MODULE ForUnrolling ----------------------------
(***************************************************************************)
(* expand_for (expand.rs): the `for` forms of one top-level expression are *)
(* unrolled, nested ones once for each iteration of the outer one, within  *)
(* a budget of iterations they all share.  Numbers are words in two's      *)
(* complement, HalfRange of them negative: 2^63 of the code's i64.         *)
(*                                                                         *)
(* What a body holds is left open: any number of further `for` forms, of   *)
(* any bounds.  The bounds are constants here; ForConstants says where     *)
(* they come from.                                                         *)
(***************************************************************************)
EXTENDS Integers, SequencesExt

CONSTANTS
    HalfRange,      \* 2^(w - 1) for words of w bits
    MaxExpansions,  \* ExpansionLimits.max_for_expansions
    OverflowChecks, \* whether the build panics on overflow, as debug builds do
    MaxNesting,     \* bound: `for` forms nested in one another
    Bounds          \* the triples <<start, end, step>> tried

ASSUME RangeAssumption == HalfRange \in Nat \ {0}
ASSUME LimitsAssumption ==
    /\ MaxExpansions \in Nat
    /\ MaxNesting \in Nat
    /\ OverflowChecks \in BOOLEAN

MinWord == -HalfRange
MaxWord == HalfRange - 1
Word == MinWord..MaxWord

ASSUME BoundsAssumption == Bounds \subseteq Word \X Word \X Word

\* The conversions `as u64` and, after wrapping arithmetic, back to i64.
Words == 2 * HalfRange
Unsigned(n) == n % Words
Wrapped(n) == MinWord + ((n - MinWord) % Words)

VARIABLES
    phase,     \* of the expansion of one top-level expression
    fors,      \* the calls of expand_for in progress, with their locals
    budget,    \* ExpansionContext.budget, shared by all of them
    expanded   \* history: the iterations unrolled so far

vars == <<phase, fors, budget, expanded>>

\* A call of expand_for: its evaluated bounds, the next value of its variable
\* and the iterations it has left.
For == [start : Word, end : Word, step : Word, current : Word, left : Nat]

Top == Last(fors)

-----------------------------------------------------------------------------
(* compute_iterations *)

DivCeil(n, d) == (n + d - 1) \div d

\* end.wrapping_sub(start) as u64
Span(from, to) == Unsigned(Wrapped(to - from))

\* Mutant of ComputeIterations: the last step is not counted if it is short.
ComputeIterationsFloor(start, end, step) ==
    IF step > 0
    THEN IF start >= end THEN 0 ELSE Span(start, end) \div step
    ELSE IF start <= end THEN 0 ELSE Span(end, start) \div Unsigned(-step)

\* Iterations of the half-open range.  The magnitude of a negative step is
\* taken in i128, where the least word has one.
ComputeIterations(start, end, step) ==
    IF step > 0
    THEN IF start >= end THEN 0 ELSE DivCeil(Span(start, end), step)
    ELSE IF start <= end THEN 0 ELSE DivCeil(Span(end, start), Unsigned(-step))

\* eval_range_loop's rule for going on, which `for` is to match.
Continues(current, end, step) ==
    IF step > 0 THEN current < end ELSE current > end

-----------------------------------------------------------------------------
(* expand and expand_for *)

\* A new top-level expression has a new context with the whole budget.
BeginExpansion ==
    /\ phase # "expanding"
    /\ phase' = "expanding"
    /\ fors' = <<>>
    /\ budget' = MaxExpansions
    /\ expanded' = 0

\* A `for` may stand at the top or in the body of the current iteration.
AtExpr == phase = "expanding" /\ (fors # <<>> => Top.left > 0)

Fail ==
    /\ phase' = "failed"
    /\ UNCHANGED <<fors, budget, expanded>>

\* A bound that is not a constant, or a form of the wrong shape.
Malformed == AtExpr /\ Fail

\* Mutant of TooMany: each form is measured against the whole limit.
TooManyAlone(iterations) == iterations > MaxExpansions

TooMany(iterations) == iterations > budget

\* Mutant of Charged: a nested form draws on the same budget again.
ChargedOnce(iterations) == IF fors = <<>> THEN budget - iterations ELSE budget

\* The budget once the iterations of a form are taken from it.
Charged(iterations) == budget - iterations

\* The whole form is charged before any of it is unrolled.
EnterFor(start, end, step) ==
    /\ AtExpr
    /\ Len(fors) < MaxNesting
    /\ LET iterations == ComputeIterations(start, end, step) IN
       IF step = 0 \/ TooMany(iterations)
       THEN Fail
       ELSE /\ budget' = Charged(iterations)
            /\ fors' = Append(fors, [start |-> start, end |-> end, step |-> step,
                                     current |-> start, left |-> iterations])
            /\ UNCHANGED <<phase, expanded>>

\* The body of one iteration is expanded and the variable steps on, after the
\* last iteration too: without checks the sum wraps, with them it panics.
Iterate ==
    /\ phase = "expanding"
    /\ fors # <<>>
    /\ Top.left > 0
    /\ LET next == Top.current + Top.step IN
       /\ phase' = IF OverflowChecks /\ next \notin Word THEN "panicked" ELSE phase
       /\ fors' = Append(Front(fors), [Top EXCEPT !.current = Wrapped(next),
                                                  !.left = @ - 1])
    /\ expanded' = expanded + 1
    /\ UNCHANGED budget

\* The sequence of the unrolled bodies takes the form's place.
ExitFor ==
    /\ phase = "expanding"
    /\ fors # <<>>
    /\ Top.left = 0
    /\ fors' = Front(fors)
    /\ UNCHANGED <<phase, budget, expanded>>

EndExpansion ==
    /\ phase = "expanding"
    /\ fors = <<>>
    /\ phase' = "done"
    /\ UNCHANGED <<fors, budget, expanded>>

Init ==
    /\ phase = "idle"
    /\ fors = <<>>
    /\ budget = MaxExpansions
    /\ expanded = 0

Next ==
    \/ BeginExpansion
    \/ \E b \in Bounds : EnterFor(b[1], b[2], b[3])
    \/ Iterate
    \/ ExitFor
    \/ Malformed
    \/ EndExpansion

Spec == Init /\ [][Next]_vars

-----------------------------------------------------------------------------
(* Properties *)

\* The type invariant.
TypeOK ==
    /\ phase \in {"idle", "expanding", "done", "failed", "panicked"}
    /\ fors \in Seq(For)
    /\ budget \in 0..MaxExpansions
    /\ expanded \in Nat

\* The iterations of f that are behind it.
Done(f) == ComputeIterations(f.start, f.end, f.step) - f.left

\* "matching `loop`'s runtime continuation rule" (compute_iterations): the
\* values unrolled are those the loop of these bounds visits, no fewer and no
\* more, at the extremes of the words as well.  The value of an iteration is
\* start plus so many steps, over the integers.
MatchesLoop ==
    \A i \in DOMAIN fors :
        LET f == fors[i]
            value == f.start + Done(f) * f.step
        IN /\ f.left > 0 => f.current = value
           /\ f.left > 0 <=> Continues(value, f.end, f.step)

\* Nested forms multiply, and no order of nesting lets an expression unroll
\* more than the limit: what was taken from the budget is what was unrolled and
\* what the forms in progress still have to unroll, total[i] the outermost i.
BudgetIsSpent ==
    \E total \in [0..Len(fors) -> 0..MaxExpansions] :
        /\ total[0] = 0
        /\ \A i \in DOMAIN fors : total[i] = total[i - 1] + fors[i].left
        /\ MaxExpansions - budget = expanded + total[Len(fors)]

\* Unrolling never panics: "this add cannot overflow before the loop ends".
NoPanic == phase # "panicked"
=============================================================================
