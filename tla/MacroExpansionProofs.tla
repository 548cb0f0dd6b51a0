------------------------ MODULE MacroExpansionProofs ------------------------
(***************************************************************************)
(* Safety of a macro expansion session, for every choice of the limits, of *)
(* the macros and of what their bodies make.  Whether every program comes  *)
(* to an end is left to TLC: it is a liveness property.                    *)
(***************************************************************************)
EXTENDS MacroExpansion, SequenceLemmas

-----------------------------------------------------------------------------
(* The inductive invariant *)

\* A program that has ended, either way, has left every call of `invoke`.
CallsInProgress == phase \notin {"expanding", "unwinding"} => calls = <<>>

\* As long as no body invokes a macro, the only evaluator waiting for its body
\* is the innermost one and its counter is still the session's.
FlatCalls ==
    ~nested =>
        \A i \in DOMAIN calls :
            calls[i].at = "body" => /\ i = Len(calls)
                                    /\ calls[i].evaluator = nextGensym

\* The ids given out are below the counter, unless evaluators share a start.
FlatIssued == ~nested => \A id \in issued : id < nextGensym

ExpansionInv ==
    /\ TypeOK
    /\ DepthIsNesting
    /\ StackIsCallChain
    /\ ResultsWithinLimit
    /\ FlatGensymsDistinct
    /\ CallsInProgress
    /\ FlatCalls
    /\ FlatIssued

\* All of the state but the phase and the definitions.
work == <<calls, stack, invocations, nodes, nextGensym, stale, issued, repeated,
          nested>>

-----------------------------------------------------------------------------
(* The calls of `invoke` as a stack *)

LEMMA TopCall ==
    ASSUME calls \in Seq(Call), calls # <<>>
    PROVE  /\ Len(calls) \in Nat \ {0}
           /\ DOMAIN calls = 1..Len(calls)
           /\ Top = calls[Len(calls)]
           /\ Top \in Call
  BY FrontLast DEF Top

\* Front and Append on the calls, position by position.
LEMMA PoppedCalls ==
    ASSUME calls \in Seq(Call), calls # <<>>
    PROVE  /\ Front(calls) \in Seq(Call)
           /\ DOMAIN Front(calls) = 1..(Len(calls) - 1)
           /\ Len(Front(calls)) = Len(calls) - 1
           /\ \A i \in 1..(Len(calls) - 1) : Front(calls)[i] = calls[i]
  BY FrontLast

LEMMA PushedCalls ==
    ASSUME NEW cs \in Seq(Call), NEW c \in Call
    PROVE  /\ Append(cs, c) \in Seq(Call)
           /\ DOMAIN Append(cs, c) = 1..(Len(cs) + 1)
           /\ Len(Append(cs, c)) = Len(cs) + 1
           /\ \A i \in 1..Len(cs) : Append(cs, c)[i] = cs[i]
           /\ Append(cs, c)[Len(cs) + 1] = c
  OBVIOUS

\* The error stack after a call and its frame are popped.
LEMMA PoppedStack ==
    ASSUME calls \in Seq(Call), calls # <<>>, stack \in Seq(Macro), stale \in Nat,
           Len(stack) = stale + Len(calls)
    PROVE  /\ Front(stack) \in Seq(Macro)
           /\ Len(Front(stack)) = stale + (Len(calls) - 1)
           /\ \A i \in 1..(Len(calls) - 1) : Front(stack)[stale + i] = stack[stale + i]
  <1>1. Len(calls) \in Nat \ {0} BY TopCall
  <1>2. Len(stack) # 0 BY <1>1
  <1>3. stack # <<>> BY <1>2
  <1>4. /\ Front(stack) \in Seq(Macro) /\ Len(Front(stack)) = Len(stack) - 1
        /\ \A i \in 1..(Len(stack) - 1) : Front(stack)[i] = stack[i]
    BY <1>3, FrontLast
  <1> QED BY <1>1, <1>4

-----------------------------------------------------------------------------
(* Steps that leave the calls alone *)

LEMMA QuietStep ==
    ASSUME ExpansionInv, UNCHANGED work, definitions' \subseteq Macro,
           phase' \in {"idle", "defining", "expanding", "unwinding", "done", "failed"},
           phase' \notin {"expanding", "unwinding"} => calls = <<>>,
           phase = "unwinding" => phase' = "unwinding" \/ calls = <<>>,
           phase' = "expanding" => phase = "expanding" \/ calls = <<>>
    PROVE  ExpansionInv'
  <1>1. TypeOK' BY DEF ExpansionInv, TypeOK, work
  <1>2. DepthIsNesting' BY DEF ExpansionInv, DepthIsNesting, work
  <1>6. StackIsCallChain'
    <2>1. CASE calls = <<>>
      BY <2>1 DEF ExpansionInv, StackIsCallChain, work
    <2>2. CASE phase' = "unwinding" \/ phase # "unwinding"
      BY <2>2 DEF ExpansionInv, StackIsCallChain, work
    <2> QED BY <2>1, <2>2
  <1>3. ResultsWithinLimit'
    <2>1. CASE phase = "expanding"
      BY <2>1 DEF ExpansionInv, ResultsWithinLimit, work
    <2>2. CASE calls = <<>>
      BY <2>2 DEF ResultsWithinLimit, work
    <2> QED BY <2>1, <2>2 DEF ResultsWithinLimit
  <1>4. FlatGensymsDistinct' /\ FlatCalls' /\ FlatIssued'
    BY DEF ExpansionInv, FlatGensymsDistinct, FlatCalls, FlatIssued, work
  <1>5. CallsInProgress' BY DEF CallsInProgress, work
  <1> QED BY <1>1, <1>2, <1>3, <1>4, <1>5, <1>6 DEF ExpansionInv

LEMMA ProgramSteps ==
    ASSUME ExpansionInv,
           \/ BeginProgram \/ BadDefinition \/ BeginExpansion \/ EndExpansion
           \/ Reject \/ \E m \in Macro : Define(m)
    PROVE  ExpansionInv'
  <1>1. CASE BeginProgram \/ BadDefinition \/ BeginExpansion \/ EndExpansion \/ Reject
    BY <1>1, QuietStep
    DEF ExpansionInv, TypeOK, CallsInProgress, BeginProgram, BadDefinition,
        BeginExpansion, EndExpansion, Reject, Raise, work
  <1>2. ASSUME NEW m \in Macro, Define(m) PROVE ExpansionInv'
    BY <1>2, QuietStep DEF ExpansionInv, TypeOK, CallsInProgress, Define, work
  <1> QED BY <1>1, <1>2

-----------------------------------------------------------------------------
(* Steps that pop the innermost call *)

\* One call returns, or is left by an error, with its frame popped or left as
\* stale, and the ids it has given out, if any, start where its evaluator
\* started.
LEMMA PopStep ==
    ASSUME ExpansionInv, calls # <<>>, calls' = Front(calls),
           \/ stack' = Front(stack) /\ UNCHANGED stale
           \/ phase' = "unwinding" /\ UNCHANGED stack /\ stale' = stale + 1,
           phase' = "unwinding" \/ (phase' = phase /\ phase = "expanding"),
           phase' = "expanding" => nodes' = nodes,
           UNCHANGED <<definitions, invocations, nested>>,
           nodes' \in 0..MaxTotal, nextGensym' \in 0..MaxId,
           issued' \subseteq 0..(MaxId - 1), repeated' \in BOOLEAN,
           FlatGensymsDistinct', FlatIssued',
           Top.at = "result" => nextGensym' = nextGensym
    PROVE  ExpansionInv'
  <1> DEFINE n == Len(calls)
  <1>1. /\ calls \in Seq(Call) /\ stack \in Seq(Macro) /\ stale \in Nat
        /\ StackIsCallChain /\ DepthIsNesting /\ FlatCalls /\ ResultsWithinLimit
    BY DEF ExpansionInv, TypeOK
  <1>2. /\ n \in Nat \ {0} /\ DOMAIN calls = 1..n
        /\ calls' \in Seq(Call) /\ DOMAIN calls' = 1..(n - 1) /\ Len(calls') = n - 1
        /\ \A i \in 1..(n - 1) : calls'[i] = calls[i]
    BY <1>1, PoppedCalls, TopCall
  <1> HIDE DEF n
  <1>3. stack' \in Seq(Macro) /\ stale' \in Nat /\ StackIsCallChain'
    <2>1. /\ Len(stack) = stale + n
          /\ phase # "unwinding" => \A i \in 1..n : stack[stale + i] = calls[i].name
      BY <1>1, <1>2 DEF StackIsCallChain, n
    <2>2. CASE stack' = Front(stack) /\ UNCHANGED stale
      <3>1. /\ stack' \in Seq(Macro) /\ Len(stack') = stale + (n - 1)
            /\ \A i \in 1..(n - 1) : stack'[stale + i] = stack[stale + i]
        BY <1>1, <2>1, <2>2, PoppedStack DEF n
      <3>2. phase' # "unwinding" =>
               \A i \in 1..(n - 1) : stack'[stale + i] = calls'[i].name
        BY <1>2, <2>1, <3>1
      <3> QED BY <1>1, <1>2, <2>2, <3>1, <3>2 DEF StackIsCallChain
    <2>3. CASE phase' = "unwinding" /\ UNCHANGED stack /\ stale' = stale + 1
      <3>1. Len(stack') = stale' + (n - 1) BY <1>1, <1>2, <2>1, <2>3
      <3> QED BY <1>1, <1>2, <2>3, <3>1 DEF StackIsCallChain
    <2> QED BY <2>2, <2>3
  <1>4. TypeOK' BY <1>2, <1>3 DEF ExpansionInv, TypeOK
  <1>5. DepthIsNesting'
    <2>1. MaxDepth \in Nat BY ConstantsAssumption
    <2> QED BY <1>1, <1>2, <2>1 DEF DepthIsNesting, n
  <1>6. ResultsWithinLimit'
    <2> SUFFICES ASSUME phase' = "expanding",
                        NEW i \in DOMAIN calls', calls'[i].at = "result"
                 PROVE  nodes' <= MaxNodes
      BY DEF ResultsWithinLimit
    <2>1. phase = "expanding" /\ nodes' = nodes OBVIOUS
    <2>2. i \in DOMAIN calls /\ calls[i].at = "result" BY <1>2
    <2> QED BY <1>1, <2>1, <2>2 DEF ResultsWithinLimit
  <1>7. FlatCalls'
    <2> SUFFICES ASSUME ~nested, NEW i \in DOMAIN calls', calls'[i].at = "body"
                 PROVE  FALSE
      BY DEF FlatCalls
    <2>1. i \in DOMAIN calls /\ i # n /\ calls[i].at = "body" BY <1>2
    <2> QED BY <1>1, <2>1 DEF FlatCalls, n
  <1>8. CallsInProgress' BY DEF CallsInProgress
  <1> QED BY <1>3, <1>4, <1>5, <1>6, <1>7, <1>8 DEF ExpansionInv

LEMMA ReturnStep == ASSUME ExpansionInv, Return PROVE ExpansionInv'
  <1>1. nodes \in 0..MaxTotal /\ nextGensym \in 0..MaxId /\ issued \subseteq 0..(MaxId - 1)
        /\ repeated \in BOOLEAN
    BY DEF ExpansionInv, TypeOK
  <1>2. FlatGensymsDistinct' /\ FlatIssued'
    BY DEF ExpansionInv, Return, FlatGensymsDistinct, FlatIssued
  <1> QED BY <1>1, <1>2, PopStep DEF Return

LEMMA UnwindStep == ASSUME ExpansionInv, Unwind PROVE ExpansionInv'
  <1>1. CASE calls = <<>>
    BY <1>1, QuietStep DEF ExpansionInv, TypeOK, Unwind, work
  <1>2. CASE calls # <<>>
    <2>1. nodes \in 0..MaxTotal /\ nextGensym \in 0..MaxId
          /\ issued \subseteq 0..(MaxId - 1) /\ repeated \in BOOLEAN
      BY DEF ExpansionInv, TypeOK
    <2>2. FlatGensymsDistinct' /\ FlatIssued'
      BY DEF ExpansionInv, Unwind, FlatGensymsDistinct, FlatIssued
    <2> QED BY <1>2, <2>1, <2>2, PopStep DEF Unwind
  <1> QED BY <1>1, <1>2

-----------------------------------------------------------------------------
(* The evaluation of a body *)

\* The ids an evaluation gives out.
LEMMA IssueFacts ==
    ASSUME ExpansionInv, Evaluating, UNCHANGED nested,
           NEW made \in 0..MaxMade, Issue(made)
    PROVE  /\ nextGensym' \in 0..MaxId
           /\ issued' \subseteq 0..(MaxId - 1)
           /\ repeated' \in BOOLEAN
           /\ FlatGensymsDistinct'
           /\ FlatIssued'
  <1> DEFINE first == Top.evaluator
             ids == first..(first + made - 1)
  <1>1. /\ calls \in Seq(Call) /\ calls # <<>> /\ Top.at = "body"
        /\ issued \subseteq 0..(MaxId - 1) /\ nextGensym \in 0..MaxId
        /\ repeated \in BOOLEAN
    BY DEF ExpansionInv, TypeOK, Evaluating
  <1>2. first \in 0..MaxId /\ made \in Nat /\ MaxId \in Nat
    BY <1>1, TopCall, ConstantsAssumption DEF Call
  <1>3. /\ first + made <= MaxId
        /\ nextGensym' = first + made
        /\ issued' = issued \cup ids
        /\ repeated' = (repeated \/ ids \cap issued # {})
    BY DEF Issue
  <1> HIDE DEF first
  <1>4. nextGensym' \in 0..MaxId /\ issued' \subseteq 0..(MaxId - 1)
    BY <1>1, <1>2, <1>3
  <1>5. repeated' \in BOOLEAN BY <1>3
  <1>6. ASSUME ~nested
        PROVE  /\ first = nextGensym
               /\ \A id \in issued : id < nextGensym
               /\ ~repeated
    <2>1. Len(calls) \in DOMAIN calls /\ Top = calls[Len(calls)] BY <1>1, TopCall
    <2>2. first = nextGensym
      BY <1>1, <1>6, <2>1 DEF ExpansionInv, FlatCalls, first
    <2> QED BY <1>6, <2>2 DEF ExpansionInv, FlatIssued, FlatGensymsDistinct
  <1>7. ASSUME ~nested PROVE ids \cap issued = {}
    <2>1. \A id \in issued : id \in Nat /\ id < first BY <1>1, <1>6, <1>7
    <2> QED BY <1>2, <2>1
  <1>8. FlatGensymsDistinct'
    BY <1>3, <1>6, <1>7 DEF FlatGensymsDistinct
  <1>9. FlatIssued'
    <2> SUFFICES ASSUME ~nested, NEW id \in issued' PROVE id < nextGensym'
      BY DEF FlatIssued
    <2>1. CASE id \in issued
      <3>1. id < first /\ id \in Int BY <1>1, <1>6, <2>1
      <3> QED BY <1>2, <1>3, <3>1
    <2>2. CASE id \in ids BY <1>2, <1>3, <2>2
    <2> QED BY <1>3, <2>1, <2>2
  <1> QED BY <1>4, <1>5, <1>8, <1>9

LEMMA EvaluateFailsStep == ASSUME ExpansionInv, EvaluateFails PROVE ExpansionInv'
  <1>1. PICK made \in 0..MaxMade : Issue(made) BY DEF EvaluateFails
  <1>2. /\ Evaluating /\ calls # <<>> /\ Top.at = "body"
        /\ calls' = Front(calls) /\ stack' = Front(stack) /\ phase' = "unwinding"
        /\ UNCHANGED <<definitions, invocations, nodes, stale, nested>>
    BY DEF EvaluateFails, EvaluationError, Raise, Popped, Evaluating
  <1>3. nodes' \in 0..MaxTotal BY <1>2 DEF ExpansionInv, TypeOK
  <1> QED BY <1>1, <1>2, <1>3, IssueFacts, PopStep

LEMMA EvaluateStep == ASSUME ExpansionInv, Evaluate PROVE ExpansionInv'
  <1>1. PICK made \in 0..MaxMade : Issue(made) BY DEF Evaluate
  <1>2. /\ Evaluating /\ phase = "expanding" /\ calls # <<>> /\ Top.at = "body"
        /\ UNCHANGED <<definitions, invocations, nested>>
    BY DEF Evaluate, Evaluating
  <1>3. PICK generated \in 1..MaxResult :
           IF nodes + generated > MaxTotal THEN TotalOverflows ELSE Charge(generated)
    BY DEF Evaluate
  <1>4. /\ nodes \in 0..MaxTotal /\ MaxTotal \in Nat /\ generated \in Nat
        /\ MaxNodes \in Nat
    BY ConstantsAssumption DEF ExpansionInv, TypeOK
  <1>5. /\ nextGensym' \in 0..MaxId /\ issued' \subseteq 0..(MaxId - 1)
        /\ repeated' \in BOOLEAN /\ FlatGensymsDistinct' /\ FlatIssued'
    BY <1>1, <1>2, IssueFacts
  <1>8. CASE nodes + generated > MaxTotal
    <2>1. /\ calls' = Front(calls) /\ phase' = "unwinding" /\ stale' = stale + 1
          /\ UNCHANGED <<stack, nodes>>
      BY <1>3, <1>8 DEF TotalOverflows, Raise
    <2> QED BY <1>2, <1>4, <1>5, <2>1, PopStep
  <1>9. ASSUME ~(nodes + generated > MaxTotal)
        PROVE  /\ Charge(generated) /\ nodes' \in 0..MaxTotal /\ UNCHANGED stale
    <2>1. Charge(generated) BY <1>3, <1>9
    <2>2. nodes' = nodes + generated /\ UNCHANGED stale BY <2>1 DEF Charge
    <2> QED BY <1>4, <1>9, <2>1, <2>2
  <1>6. CASE ~(nodes + generated > MaxTotal) /\ OverNodes(nodes')
    <2>1. calls' = Front(calls) /\ stack' = Front(stack) /\ phase' = "unwinding"
      BY <1>6, <1>9 DEF Charge, EvaluationError, Raise, Popped
    <2> QED BY <1>2, <1>5, <1>6, <1>9, <2>1, PopStep
  <1>7. CASE ~(nodes + generated > MaxTotal) /\ ~OverNodes(nodes')
    <2> DEFINE n == Len(calls)
               c == [Top EXCEPT !.at = "result"]
    <2>1. /\ calls' = Append(Front(calls), c)
          /\ UNCHANGED <<phase, stack, stale>>
          /\ nodes' <= MaxNodes /\ nodes' \in 0..MaxTotal
      BY <1>4, <1>7, <1>9 DEF Charge, OverNodes
    <2>2. /\ calls \in Seq(Call) /\ n \in Nat \ {0} /\ DOMAIN calls = 1..n
          /\ Top = calls[n] /\ Top \in Call
      BY <1>2, TopCall DEF ExpansionInv, TypeOK
    <2>3. /\ c \in Call /\ c.at = "result" /\ c.depth = calls[n].depth
          /\ c.name = calls[n].name
      BY <2>2 DEF Call
    <2> HIDE DEF c
    <2>4. /\ Front(calls) \in Seq(Call) /\ Len(Front(calls)) = n - 1
          /\ \A i \in 1..(n - 1) : Front(calls)[i] = calls[i]
      BY <1>2, <2>2, PoppedCalls
    <2>5. /\ calls' \in Seq(Call) /\ DOMAIN calls' = 1..n /\ Len(calls') = n
          /\ calls'[n] = c
          /\ \A i \in 1..(n - 1) : calls'[i] = calls[i]
      <3> DEFINE below == Front(calls)
      <3>1. /\ below \in Seq(Call) /\ Len(below) = n - 1
            /\ \A i \in 1..(n - 1) : below[i] = calls[i]
            /\ calls' = Append(below, c)
        BY <2>1, <2>4
      <3> HIDE DEF below, n
      <3> QED BY <2>2, <2>3, <3>1, PushedCalls
    <2> HIDE DEF n
    <2>6. \A i \in 1..n : /\ calls'[i].depth = calls[i].depth
                          /\ calls'[i].name = calls[i].name
                          /\ calls'[i].at = "body" => i # n /\ calls[i].at = "body"
      BY <2>2, <2>3, <2>5
    <2>7. TypeOK' BY <1>2, <1>5, <2>1, <2>5 DEF ExpansionInv, TypeOK
    <2>8. DepthIsNesting'
      BY <2>2, <2>5, <2>6 DEF ExpansionInv, DepthIsNesting, n
    <2>9. StackIsCallChain'
      BY <2>1, <2>2, <2>5, <2>6 DEF ExpansionInv, StackIsCallChain
    <2>10. ResultsWithinLimit' BY <2>1 DEF ResultsWithinLimit
    <2>11. FlatCalls'
      <3> SUFFICES ASSUME ~nested, NEW i \in 1..n, calls'[i].at = "body"
                   PROVE  FALSE
        BY <1>2, <2>5 DEF FlatCalls
      <3>1. i # n /\ calls[i].at = "body" /\ i \in DOMAIN calls BY <2>2, <2>6
      <3> QED BY <3>1 DEF ExpansionInv, FlatCalls, n
    <2>12. CallsInProgress' BY <1>2, <2>1 DEF CallsInProgress
    <2> QED BY <1>5, <2>7, <2>8, <2>9, <2>10, <2>11, <2>12 DEF ExpansionInv
  <1> QED BY <1>6, <1>7, <1>8

-----------------------------------------------------------------------------
(* An invocation *)

LEMMA InvokeStep == ASSUME ExpansionInv, Invoke PROVE ExpansionInv'
  <1>1. PICK name \in definitions :
           IF DepthHere >= MaxDepth \/ OverBudget
           THEN Raise(calls) /\ UNCHANGED <<stack, invocations, nested>>
           ELSE /\ invocations' = invocations + 1
                /\ stack' = Append(stack, name)
                /\ calls' = Append(calls, [name |-> name, depth |-> DepthHere,
                                           at |-> "body", evaluator |-> Seed])
                /\ phase' = phase
                /\ nested' = (nested \/ (calls # <<>> /\ Top.at = "body"))
    BY DEF Invoke
  <1>2. /\ phase = "expanding"
        /\ UNCHANGED <<definitions, nodes, nextGensym, stale, issued, repeated>>
    BY DEF Invoke
  <1>3. definitions \subseteq Macro BY DEF ExpansionInv, TypeOK
  <1>4. CASE DepthHere >= MaxDepth \/ OverBudget
    <2>1. UNCHANGED work /\ phase' = "unwinding" /\ definitions' = definitions
      BY <1>1, <1>2, <1>4 DEF Raise, work
    <2> QED BY <1>3, <2>1, QuietStep
  <1>5. CASE ~(DepthHere >= MaxDepth \/ OverBudget)
    <2> DEFINE n == Len(calls)
               c == [name |-> name, depth |-> DepthHere, at |-> "body",
                     evaluator |-> Seed]
    <2>1. /\ invocations' = invocations + 1
          /\ stack' = Append(stack, name)
          /\ calls' = Append(calls, c)
          /\ phase' = phase
          /\ nested' = (nested \/ (calls # <<>> /\ Top.at = "body"))
      BY <1>1, <1>5
    <2>2. /\ calls \in Seq(Call) /\ n \in Nat /\ DOMAIN calls = 1..n
          /\ stack \in Seq(Macro) /\ stale \in Nat /\ name \in Macro
          /\ invocations \in 0..MaxInvocations /\ nextGensym \in 0..MaxId
          /\ MaxDepth \in Nat /\ MaxInvocations \in Nat
      BY <1>3, ConstantsAssumption DEF ExpansionInv, TypeOK
    <2>3. DepthHere = n
      <3>1. CASE calls = <<>> BY <3>1 DEF DepthHere
      <3>2. CASE calls # <<>>
        <4>1. Top = calls[n] /\ n \in DOMAIN calls BY <2>2, <3>2, TopCall
        <4>2. Top.depth = n - 1 BY <4>1 DEF ExpansionInv, DepthIsNesting
        <4> QED BY <2>2, <3>2, <4>2 DEF DepthHere
      <3> QED BY <3>1, <3>2
    <2>4. c \in Call /\ c.at = "body" /\ c.depth = n /\ c.name = name
          /\ c.evaluator = nextGensym
      BY <2>2, <2>3 DEF Call, Seed
    <2> HIDE DEF c
    <2>5. /\ calls' \in Seq(Call) /\ DOMAIN calls' = 1..(n + 1)
          /\ Len(calls') = n + 1 /\ calls'[n + 1] = c
          /\ \A i \in 1..n : calls'[i] = calls[i]
      BY <2>1, <2>2, <2>4, PushedCalls
    <2>6. n < MaxDepth /\ invocations < MaxInvocations
      BY <1>5, <2>2, <2>3 DEF OverBudget
    <2> HIDE DEF n
    <2>7. TypeOK'
      <3>1. invocations' \in 0..MaxInvocations BY <2>1, <2>2, <2>6
      <3>2. stack' \in Seq(Macro) BY <2>1, <2>2
      <3>3. nested' \in BOOLEAN BY <2>1
      <3> QED BY <1>2, <2>1, <2>5, <3>1, <3>2, <3>3 DEF ExpansionInv, TypeOK
    <2>8. DepthIsNesting'
      <3>1. \A i \in DOMAIN calls : calls[i].depth = i - 1
        BY DEF ExpansionInv, DepthIsNesting
      <3>2. \A i \in 1..(n + 1) : calls'[i].depth = i - 1
        BY <2>2, <2>4, <2>5, <3>1
      <3> QED BY <2>2, <2>5, <2>6, <3>2 DEF DepthIsNesting
    <2>9. StackIsCallChain'
      <3>1. /\ Len(stack) = stale + n
            /\ \A i \in 1..n : stack[stale + i] = calls[i].name
        BY <1>2, <2>2 DEF ExpansionInv, StackIsCallChain, n
      <3>2. /\ Len(stack') = stale + (n + 1) /\ stack'[stale + (n + 1)] = name
            /\ \A i \in 1..n : stack'[stale + i] = stack[stale + i]
        BY <2>1, <2>2, <3>1
      <3>3. \A i \in 1..(n + 1) : stack'[stale + i] = calls'[i].name
        BY <2>2, <2>4, <2>5, <3>1, <3>2
      <3> QED BY <1>2, <2>5, <3>2, <3>3 DEF StackIsCallChain
    <2>10. ResultsWithinLimit'
      <3> SUFFICES ASSUME NEW i \in 1..(n + 1), calls'[i].at = "result"
                   PROVE  nodes <= MaxNodes
        BY <1>2, <2>5 DEF ResultsWithinLimit
      <3>1. i \in DOMAIN calls /\ calls[i].at = "result"
        BY <2>2, <2>4, <2>5
      <3> QED BY <1>2, <3>1 DEF ExpansionInv, ResultsWithinLimit
    <2>11. ~nested' => ~nested /\ (calls # <<>> => Top.at # "body")
      BY <2>1
    <2>12. FlatGensymsDistinct' /\ FlatIssued'
      BY <1>2, <2>11 DEF ExpansionInv, FlatGensymsDistinct, FlatIssued
    <2>13. FlatCalls'
      <3> SUFFICES ASSUME ~nested', NEW i \in 1..(n + 1), calls'[i].at = "body"
                   PROVE  i = n + 1 /\ calls'[i].evaluator = nextGensym
        BY <1>2, <2>5 DEF FlatCalls
      <3>1. CASE i \in 1..n
        <4>1. calls[i].at = "body" /\ i = n
          BY <2>2, <2>5, <2>11, <3>1 DEF ExpansionInv, FlatCalls, n
        <4>2. Top = calls[n] /\ calls # <<>>
          BY <2>2, <3>1, <4>1, TopCall DEF n
        <4> QED BY <2>11, <4>1, <4>2
      <3>2. CASE i = n + 1 BY <2>4, <2>5, <3>2
      <3> QED BY <2>2, <3>1, <3>2
    <2>14. CallsInProgress' BY <1>2, <2>1 DEF CallsInProgress
    <2> QED BY <2>7, <2>8, <2>9, <2>10, <2>12, <2>13, <2>14 DEF ExpansionInv
  <1> QED BY <1>4, <1>5

-----------------------------------------------------------------------------
(* The theorems *)

LEMMA ExpansionInit == ASSUME Init PROVE ExpansionInv
  <1>1. TypeOK
    <2>1. 0 \in 0..MaxInvocations /\ 0 \in 0..MaxId /\ 0 \in 0..MaxTotal
      BY ConstantsAssumption
    <2>2. calls \in Seq(Call) /\ stack \in Seq(Macro) BY DEF Init
    <2>3. repeated \in BOOLEAN /\ nested \in BOOLEAN BY DEF Init
    <2> QED BY <2>1, <2>2, <2>3 DEF Init, TypeOK
  <1>2. DepthIsNesting /\ StackIsCallChain /\ ResultsWithinLimit
    BY ConstantsAssumption
    DEF Init, DepthIsNesting, StackIsCallChain, ResultsWithinLimit
  <1>3. FlatGensymsDistinct /\ CallsInProgress /\ FlatCalls /\ FlatIssued
    BY DEF Init, FlatGensymsDistinct, CallsInProgress, FlatCalls, FlatIssued
  <1> QED BY <1>1, <1>2, <1>3 DEF ExpansionInv

LEMMA ExpansionNext == ASSUME ExpansionInv, [Next]_vars PROVE ExpansionInv'
  <1>1. CASE \/ BeginProgram \/ BadDefinition \/ BeginExpansion \/ EndExpansion
             \/ Reject \/ \E m \in Macro : Define(m)
    BY <1>1, ProgramSteps
  <1>2. CASE Invoke BY <1>2, InvokeStep
  <1>3. CASE Evaluate BY <1>3, EvaluateStep
  <1>4. CASE EvaluateFails BY <1>4, EvaluateFailsStep
  <1>5. CASE Return BY <1>5, ReturnStep
  <1>6. CASE Unwind BY <1>6, UnwindStep
  <1>7. CASE UNCHANGED vars
    BY <1>7, QuietStep DEF ExpansionInv, TypeOK, CallsInProgress, vars, work
  <1> QED BY <1>1, <1>2, <1>3, <1>4, <1>5, <1>6, <1>7 DEF Next, Step

\* The inductive invariant holds in every reachable state.
THEOREM ExpansionInvariance == Spec => []ExpansionInv
  <1>1. Init => ExpansionInv BY ExpansionInit
  <1>2. ExpansionInv /\ [Next]_vars => ExpansionInv' BY ExpansionNext
  <1> QED BY <1>1, <1>2, PTL DEF Spec

\* The session's state stays well formed and no more macros are invoked than
\* the invocation limit allows, over all programs of the session together.
THEOREM BudgetKept == Spec => []TypeOK
  <1>1. ExpansionInv => TypeOK BY DEF ExpansionInv
  <1> QED BY <1>1, ExpansionInvariance, PTL

\* The depth `invoke` compares with max_depth is the number of invocations in
\* progress, so the recursion of expand_expr is never deeper than the limit.
THEOREM RecursionBounded == Spec => []DepthIsNesting
  <1>1. ExpansionInv => DepthIsNesting BY DEF ExpansionInv
  <1> QED BY <1>1, ExpansionInvariance, PTL

\* The names an error reports end in those of the invocations in progress: a
\* return and every error take the frame off, wherever the error arose, but for
\* the overflow of the total of generated nodes, which leaves exactly one.
THEOREM ErrorChainCorrect == Spec => []StackIsCallChain
  <1>1. ExpansionInv => StackIsCallChain BY DEF ExpansionInv
  <1> QED BY <1>1, ExpansionInvariance, PTL

\* While a result is expanded, all that was generated so far is within
\* max_generated_datum_nodes.
THEOREM GeneratedWithinLimit == Spec => []ResultsWithinLimit
  <1>1. ExpansionInv => ResultsWithinLimit BY DEF ExpansionInv
  <1> QED BY <1>1, ExpansionInvariance, PTL

\* No GensymId is given out twice in a session whose macro bodies invoke no
\* macro: copying the counter back and forth is harmless then.
THEOREM FlatGensymsNeverRepeat == Spec => []FlatGensymsDistinct
  <1>1. ExpansionInv => FlatGensymsDistinct BY DEF ExpansionInv
  <1> QED BY <1>1, ExpansionInvariance, PTL
=============================================================================
