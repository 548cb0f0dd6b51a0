--------------------------- MODULE MacroExpansion ---------------------------
(***************************************************************************)
(* One MacroExpansionSession (macro_expand.rs): it collects the macro      *)
(* definitions of a program, then expands the other forms.  Expanding an   *)
(* invocation pushes a frame, expands the macro's own body, evaluates the  *)
(* body in a fresh compile-time interpreter, and expands the result in     *)
(* its turn; three limits bound all of it and every error unwinds it.      *)
(*                                                                         *)
(* What is in the forms is left open: at any point of an expression there  *)
(* may be another invocation or none, an evaluation makes any number of    *)
(* generated symbols and yields a datum of any size.  So an expression has *)
(* no end of its own here, and what is shown about termination rests on    *)
(* the limits alone.  The session is used for several programs, as a host  *)
(* of the library may; interpreter.rs and compiler.rs use it for one.      *)
(***************************************************************************)
EXTENDS Integers, FiniteSets, SequencesExt

CONSTANTS
    Macro,          \* macro names
    MaxDepth,       \* MacroExpansionLimits.max_depth
    MaxInvocations, \*   .max_invocations
    MaxNodes,       \*   .max_generated_datum_nodes
    MaxTotal,       \* usize::MAX: the largest total of generated nodes
    MaxId,          \* u64::MAX of a GensymId: the counter stops there
    MaxResult,      \* bound: nodes of the datum one evaluation yields
    MaxMade         \* bound: symbols one evaluation makes

ASSUME ConstantsAssumption ==
    /\ MaxDepth \in Nat /\ MaxInvocations \in Nat
    /\ MaxNodes \in Nat /\ MaxTotal \in Nat /\ MaxNodes <= MaxTotal
    /\ MaxId \in Nat /\ MaxResult \in Nat \ {0} /\ MaxMade \in Nat

\* A call of `invoke` in progress: of which macro, at which depth, whether it
\* expands the macro's body or its result, and the counter of its evaluator.
Call == [name : Macro, depth : Nat, at : {"body", "result"},
         evaluator : 0..MaxId]

VARIABLES
    phase,       \* where expand_program is; "unwinding" returns an error
    definitions, \* MacroEnv.definitions
    calls,       \* the calls of `invoke` in progress, with their locals
    stack,       \* MacroExpansionSession.stack: the names an error reports
    invocations, \* .invocations
    nodes,       \* .generated_datum_nodes
    nextGensym,  \* .next_gensym_id
    stale,       \* history: the frames left on the stack for good
    issued,      \* history: the GensymIds the evaluations have given out
    repeated,    \* history: whether an id was given out twice
    nested       \* history: whether a macro was invoked in a macro's body

vars == <<phase, definitions, calls, stack, invocations, nodes, nextGensym,
          stale, issued, repeated, nested>>

Top == Last(calls)

-----------------------------------------------------------------------------
(* expand_program: first the definitions, then the ordinary forms *)

BeginProgram ==
    /\ phase \in {"idle", "done", "failed"}
    /\ phase' = "defining"
    /\ UNCHANGED <<definitions, calls, stack, invocations, nodes, nextGensym,
                   stale, issued, repeated, nested>>

\* The definition is inserted before the duplicate is noticed.
Define(m) ==
    /\ phase = "defining"
    /\ definitions' = definitions \cup {m}
    /\ phase' = IF m \in definitions THEN "failed" ELSE phase
    /\ UNCHANGED <<calls, stack, invocations, nodes, nextGensym, stale, issued,
                   repeated, nested>>

\* A malformed or reserved definition, a forbidden operation in its body, or a
\* defmacro below the top level.
BadDefinition ==
    /\ phase = "defining"
    /\ phase' = "failed"
    /\ UNCHANGED <<definitions, calls, stack, invocations, nodes, nextGensym,
                   stale, issued, repeated, nested>>

BeginExpansion ==
    /\ phase = "defining"
    /\ phase' = "expanding"
    /\ UNCHANGED <<definitions, calls, stack, invocations, nodes, nextGensym,
                   stale, issued, repeated, nested>>

EndExpansion ==
    /\ phase = "expanding"
    /\ calls = <<>>
    /\ phase' = "done"
    /\ UNCHANGED <<definitions, calls, stack, invocations, nodes, nextGensym,
                   stale, issued, repeated, nested>>

-----------------------------------------------------------------------------
(* expand_expr and invoke *)

\* Mutant of DepthHere: a result is expanded at the depth of its invocation.
DepthHereFlat ==
    IF calls = <<>> THEN 0
    ELSE IF Top.at = "result" THEN Top.depth ELSE Top.depth + 1

\* The depth expand_expr is at: bodies and results are one below their call.
DepthHere == IF calls = <<>> THEN 0 ELSE Top.depth + 1

\* An error leaves expand_expr, for the invocations in progress to pass on.
Raise(remaining) ==
    /\ phase' = "unwinding"
    /\ calls' = remaining

\* Arguments that do not fit the parameters, a generated defmacro.
Reject ==
    /\ phase = "expanding"
    /\ Raise(calls)
    /\ UNCHANGED <<definitions, stack, invocations, nodes, nextGensym, stale,
                   issued, repeated, nested>>

\* Mutant of OverBudget: one invocation too many.
OverBudgetLate == invocations > MaxInvocations

OverBudget == invocations >= MaxInvocations

\* Mutant of Seed: the evaluator numbers its symbols from the start.
SeedZero == 0

\* evaluator.set_next_gensym_id, before the body is expanded.
Seed == nextGensym

\* An invocation that fits its parameters.  The limits are tested before
\* anything is counted or pushed.
Invoke ==
    /\ phase = "expanding"
    /\ \E name \in definitions :
         IF DepthHere >= MaxDepth \/ OverBudget
         THEN Raise(calls) /\ UNCHANGED <<stack, invocations, nested>>
         ELSE /\ invocations' = invocations + 1
              /\ stack' = Append(stack, name)
              /\ calls' = Append(calls, [name |-> name, depth |-> DepthHere,
                                         at |-> "body", evaluator |-> Seed])
              /\ phase' = phase
              /\ nested' = (nested \/ (calls # <<>> /\ Top.at = "body"))
    /\ UNCHANGED <<definitions, nodes, nextGensym, stale, issued, repeated>>

\* The evaluator of the innermost invocation gives out `made` ids and its
\* counter goes back to the session.
Issue(made) ==
    LET first == Top.evaluator
        ids == first..(first + made - 1)
    IN /\ first + made <= MaxId
       /\ nextGensym' = first + made
       /\ issued' = issued \cup ids
       /\ repeated' = (repeated \/ ids \cap issued # {})

Evaluating == phase = "expanding" /\ calls # <<>> /\ Top.at = "body"

\* Mutant of Popped: the invocation that failed stays on the stack.
PoppedNot == stack

Popped == Front(stack)

\* An evaluation that ends in an error pops its own frame.
EvaluationError ==
    /\ Raise(Front(calls))
    /\ stack' = Popped

\* The body fails, runs out of ids, or yields something that is not a datum.
EvaluateFails ==
    /\ Evaluating
    /\ \E made \in 0..MaxMade : Issue(made)
    /\ EvaluationError
    /\ UNCHANGED <<definitions, invocations, nodes, stale, nested>>

\* Mutant of OverNodes: the result just charged is not looked at.
OverNodesBefore(charged) == nodes > MaxNodes

\* The session's total, the result just charged included, is above the limit.
OverNodes(charged) == charged > MaxNodes

\* The total would not fit: the one exit of an invocation in progress that
\* charges nothing and leaves its frame on the stack.
TotalOverflows ==
    /\ Raise(Front(calls))
    /\ stale' = stale + 1
    /\ UNCHANGED <<stack, nodes>>

\* The nodes of the result are charged even if they are too many.
Charge(generated) ==
    /\ nodes' = nodes + generated
    /\ IF OverNodes(nodes')
       THEN EvaluationError
       ELSE /\ calls' = Append(Front(calls), [Top EXCEPT !.at = "result"])
            /\ UNCHANGED <<phase, stack>>
    /\ UNCHANGED stale

\* The body yields a datum, whose nodes are added to the session's total.
Evaluate ==
    /\ Evaluating
    /\ \E made \in 0..MaxMade : Issue(made)
    /\ \E generated \in 1..MaxResult :
         IF nodes + generated > MaxTotal
         THEN TotalOverflows
         ELSE Charge(generated)
    /\ UNCHANGED <<definitions, invocations, nested>>

\* The result is expanded.
Return ==
    /\ phase = "expanding"
    /\ calls # <<>>
    /\ Top.at = "result"
    /\ calls' = Front(calls)
    /\ stack' = Front(stack)
    /\ UNCHANGED <<phase, definitions, invocations, nodes, nextGensym, stale,
                   issued, repeated, nested>>

\* Mutant of Unwind: an invocation goes on with the form it could not expand.
UnwindSwallowed ==
    /\ phase = "unwinding"
    /\ IF calls # <<>>
       THEN /\ calls' = Front(calls) /\ stack' = Front(stack)
            /\ phase' = "expanding"
       ELSE phase' = "failed" /\ UNCHANGED <<calls, stack>>
    /\ UNCHANGED <<definitions, invocations, nodes, nextGensym, stale, issued,
                   repeated, nested>>

\* The error passes one invocation, which pops its frame, or leaves.
Unwind ==
    /\ phase = "unwinding"
    /\ IF calls # <<>>
       THEN calls' = Front(calls) /\ stack' = Front(stack) /\ phase' = phase
       ELSE phase' = "failed" /\ UNCHANGED <<calls, stack>>
    /\ UNCHANGED <<definitions, invocations, nodes, nextGensym, stale, issued,
                   repeated, nested>>

-----------------------------------------------------------------------------

Init ==
    /\ phase = "idle"
    /\ definitions = {}
    /\ calls = <<>>
    /\ stack = <<>>
    /\ invocations = 0
    /\ nodes = 0
    /\ nextGensym = 0
    /\ stale = 0
    /\ issued = {}
    /\ repeated = FALSE
    /\ nested = FALSE

\* The steps of expand_program once it is called.
Step ==
    \/ \E m \in Macro : Define(m)
    \/ BadDefinition
    \/ BeginExpansion
    \/ Reject
    \/ Invoke
    \/ Evaluate
    \/ EvaluateFails
    \/ Return
    \/ Unwind
    \/ EndExpansion

Next == BeginProgram \/ Step

\* A call of expand_program runs on: it waits for nobody.
Spec == Init /\ [][Next]_vars /\ WF_vars(Step)

-----------------------------------------------------------------------------
(* Properties *)

\* The type invariant; the invocation budget is never exceeded.
TypeOK ==
    /\ phase \in {"idle", "defining", "expanding", "unwinding", "done", "failed"}
    /\ definitions \subseteq Macro
    /\ calls \in Seq(Call)
    /\ stack \in Seq(Macro)
    /\ invocations \in 0..MaxInvocations
    /\ nodes \in 0..MaxTotal
    /\ stale \in Nat
    /\ nextGensym \in 0..MaxId
    /\ issued \subseteq 0..(MaxId - 1)
    /\ repeated \in BOOLEAN
    /\ nested \in BOOLEAN

\* The depth passed down the recursion is the number of invocations that have
\* not returned, so the depth limit is a limit on the recursion.
DepthIsNesting ==
    /\ \A i \in DOMAIN calls : calls[i].depth = i - 1
    /\ Len(calls) <= MaxDepth

\* Every way out of an invocation takes its frame off the stack, whatever
\* failed and however deep, except the overflow of the total: that leaves
\* exactly one frame, for the rest of the session.  So the chain an error
\* reports ends in the names of the invocations in progress, below them are the
\* frames of the overflows so far and nothing else.  (While an error is passed
\* on nobody reads the names, and an overflow shifts them.)
StackIsCallChain ==
    /\ Len(stack) = stale + Len(calls)
    /\ phase # "unwinding" =>
          \A i \in DOMAIN calls : stack[stale + i] = calls[i].name

\* A result is only expanded while all results together keep within the limit,
\* and the count stays above it for good once it was passed.
ResultsWithinLimit ==
    phase = "expanding" /\ (\E i \in DOMAIN calls : calls[i].at = "result")
        => nodes <= MaxNodes

\* Every program comes to an end, even if each result invokes macros again, by
\* the limits alone; and an error, wherever it arises, fails the program: no
\* invocation on the way keeps it to itself.
ExpansionEnds ==
    /\ phase = "defining" ~> phase \in {"done", "failed"}
    /\ phase = "unwinding" ~> phase = "failed"

\* A generated symbol has an "identity distinct [...] from every other
\* generated symbol" (README.md): no id is given out twice in a session.
DistinctGensyms == ~repeated

\* It holds as long as no body invokes a macro: over results that are expanded
\* again, evaluations that fail half-way and one program after another.
FlatGensymsDistinct == ~nested => ~repeated
=============================================================================
