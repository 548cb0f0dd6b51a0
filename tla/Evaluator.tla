----------------------------- MODULE Evaluator -----------------------------
(***************************************************************************)
(* The IR interpreter (ir_eval.rs) on the forms of a session, one after    *)
(* another.  The recursion of eval_expr is a machine: `calls` are the      *)
(* frames of the functions being called, and in each `konts` are the       *)
(* eval_* functions that have not returned, with their locals.  A result   *)
(* is handed to the innermost of them, an in-flight break too, which is an *)
(* ordinary Flow in the code and not an unwinding of the stack.            *)
(*                                                                         *)
(* An expression is a record with the field `op`, its operands (the        *)
(* subexpressions that are evaluated first, once, from left to right) and  *)
(* what else the op needs.  A closure's code is part of the expression     *)
(* that makes it: Lowering shows that a function id finds its function.    *)
(* Slots and loops are named by where they are declared, for the same      *)
(* reason.  `for` and macros have been expanded.                           *)
(***************************************************************************)
EXTENDS Integers, SequencesExt, FiniteSetsExt

CONSTANTS
    Sessions,      \* sequences of lowered forms [target, body, source]
    GlobalName,    \* names of globals, the builtins included
    Word,          \* the integers, i64
    MaxIterations, \* RuntimeLimits.max_loop_iterations
    MaxNodes,      \*   .max_generated_datum_nodes
    Code           \* the judgments that hold of the forms and what is in them

NoTarget == "no target"

ASSUME LimitsAssumption ==
    /\ Word \subseteq Int /\ {0, 1} \subseteq Word
    /\ MaxIterations \in Nat /\ MaxNodes \in Nat
    /\ {"+", "<", "list", "print"} \subseteq GlobalName
    /\ NoTarget \notin GlobalName

-----------------------------------------------------------------------------
(* Values *)

Num(n) == [type |-> "int", int |-> n]
Bool(b) == [type |-> "bool", bool |-> b]
Unit == [type |-> "unit"]
Builtin(op) == [type |-> "builtin", op |-> op]

\* A datum is as large as it has nodes; only lists can be spliced.
Datum(list, nodes) == [type |-> "datum", list |-> list, nodes |-> nodes]

\* An interned symbol, whatever its name.
Interned == [type |-> "datum", list |-> FALSE, nodes |-> 1, interned |-> TRUE]
IsInterned(v) == v.type = "datum" /\ "interned" \in DOMAIN v

\* A generated symbol; the hint it is printed with is left out.
Symbol(id) == [type |-> "datum", list |-> FALSE, nodes |-> 1, id |-> id]

\* value_to_datum: what becomes a datum, and the nodes it then has.
IsDatum(v) == v.type \in {"int", "bool", "datum"}
NodesOf(v) == IF v.type = "datum" THEN v.nodes ELSE 1
AsDatum(v) == IF v.type = "datum" THEN v ELSE Datum(FALSE, 1)

\* What is seen of a value from outside: not the inside of a closure.
Shown(v) == IF v.type = "closure" THEN [type |-> "closure"] ELSE v

\* A new list has a node of its own.
ListNodes(args) == FoldSeq(LAMBDA v, n : NodesOf(v) + n, 1, args)

\* apply_builtin: the value, or "error".  A comparison and a sum stand for
\* the operators of their kind, `list` for the primitives that make a datum;
\* `print` has its effect in Apply.
Primitive(op, args) ==
    LET numbers == Len(args) = 2 /\ \A i \in 1..2 : args[i].type = "int" IN
    CASE op = "+" /\ numbers /\ args[1].int + args[2].int \in Word ->
            Num(args[1].int + args[2].int)
      [] op = "<" /\ numbers -> Bool(args[1].int < args[2].int)
      [] op = "list" /\ (\A i \in DOMAIN args : IsDatum(args[i])) ->
            Datum(TRUE, ListNodes(args))
      [] op = "print" -> Unit
      [] OTHER -> [type |-> "error"]

-----------------------------------------------------------------------------
(* What verify_module lets through, with what lower_expr sees to besides: a *)
(* judgment says that `expr` can be evaluated where the slots `locals` were *)
(* written, `captures` are captured and the bodies of `loops` are around.   *)

IsSequence(s) == s \in Seq(Range(s))

Judgment(e, locals, captures, loops) ==
    [expr |-> e, locals |-> locals, captures |-> captures, loops |-> loops]

\* Literals are in range, and are not closures.
Literal(v) ==
    /\ v.type \in {"int", "bool", "unit", "builtin", "datum"}
    /\ v.type = "int" => v.int \in Word
    /\ v.type = "datum" => v.nodes \in Nat \ {0}

\* verify_expr: the operands are evaluated where the expression is, and each of
\* its other parts where the expression has written its slots.
Verified(c, code) ==
    LET e == c.expr
        here(d) == Judgment(d, c.locals, c.captures, c.loops) \in code
        bound(d, inner) == Judgment(d, c.locals \cup Range(e.targets), c.captures,
                                    c.loops \cup inner) \in code
        binds(n) == IsSequence(e.targets) /\ Len(e.targets) = n
        arity == Len(e.operands)
    IN
    /\ IsSequence(e.operands)
    /\ \A i \in DOMAIN e.operands : here(e.operands[i])
    /\ e.op = "const" => Literal(e.value)
    /\ e.op = "local" => e.slot \in c.locals
    /\ e.op = "capture" => e.slot \in c.captures
    /\ e.op = "let" => binds(arity) /\ bound(e.body, {})
    /\ e.op = "closure" =>
          /\ \A s \in e.captures : s \in (IF s \in e.own THEN c.locals ELSE c.captures)
          /\ IsSequence(e.function.params)
          /\ Judgment(e.function.body, Range(e.function.params), e.captures, {}) \in code
    /\ e.op = "call" => arity > 0
    /\ e.op = "if" => arity = 1 /\ here(e.yes) /\ here(e.no)
    /\ e.op = "gensym" => arity <= 1
    /\ e.op = "quasi" => e.nodes \in Nat /\ (e.nodes = 0 => arity = 1 /\ e.splices = {})
    /\ e.op = "range" => arity = 3 /\ binds(1) /\ bound(e.body, {e.id})
    /\ e.op = "state" =>
          /\ binds(arity) /\ IsSequence(e.nexts) /\ Len(e.nexts) = arity
          /\ bound(e.cond, {}) /\ bound(e.body, {e.id})
          /\ \A i \in DOMAIN e.nexts : bound(e.nexts[i], {})
    /\ e.op \in {"range", "state"} => e.id \notin c.loops
    /\ e.op = "break" => e.target \in c.loops

\* A form is evaluated with no slot written and no loop around it.
AllVerified(sessions, code) ==
    /\ \A c \in code : Verified(c, code)
    /\ \A s \in sessions :
          /\ IsSequence(s)
          /\ \A i \in DOMAIN s : /\ s[i].target \in GlobalName \cup {NoTarget}
                                 /\ Judgment(s[i].body, {}, {}, {}) \in code

ASSUME CodeAssumption == AllVerified(Sessions, Code)

-----------------------------------------------------------------------------

VARIABLES
    session,  \* the forms the session is given
    next,     \* the index of the form being evaluated, or of the next one
    calls,    \* the frames of the calls in progress, with their konts
    control,  \* what is to be done: evaluate, test a loop, pass on a Flow
    globals,  \* Runtime.global_values
    printed,  \* Runtime.output
    charged,  \* Runtime.generated_datum_nodes
    gensyms,  \* Runtime.next_gensym_id
    outcome   \* what eval_ir_top_level returned for the last form

vars == <<session, next, calls, control, globals, printed, charged, gensyms, outcome>>

\* A frame: `locals` has the slots that are written.
Frame(locals, captures) == [locals |-> locals, captures |-> captures, konts |-> <<>>]

\* An eval_* function in progress: the values of its operands so far and, of a
\* loop, the part of it being evaluated, its iterations and its counter.
Kont(e) == [expr |-> e, stage |-> "operands", values |-> <<>>,
            iterations |-> 0, current |-> 0]

Top == Last(calls)
TopKont == Last(Top.konts)
SetTop(frame) == Append(Front(calls), frame)
SetKont(k) == SetTop([Top EXCEPT !.konts = Append(Front(@), k)])
PopKont == SetTop([Top EXCEPT !.konts = Front(@)])

\* store_local, for several slots at once.
Stored(locals, slots, values) ==
    [s \in DOMAIN locals \cup Range(slots) |->
        IF s \in Range(slots) THEN values[CHOOSE i \in DOMAIN slots : slots[i] = s]
        ELSE locals[s]]

Eval(e) == [at |-> "eval", expr |-> e]
Give(v) == [at |-> "value", value |-> v]
Idle == [at |-> "idle"]
Ready == [at |-> "ready"]
Test == [at |-> "test"]

\* The next operand of an expression, or what it does with all of them.
Demand(e, values) ==
    IF Len(values) < Len(e.operands) THEN Eval(e.operands[Len(values) + 1]) ELSE Ready

UnchangedStore == UNCHANGED <<globals, printed, charged, gensyms>>

\* An error leaves every eval_* function; what was done so far stays done.
Raise(kind) ==
    /\ calls' = <<>>
    /\ control' = Idle
    /\ outcome' = [is |-> "error", kind |-> kind]
    /\ next' = next + 1
    /\ UNCHANGED session

Continue == UNCHANGED <<session, next, outcome>>

-----------------------------------------------------------------------------
(* eval_expr: the operands *)

BeginForm ==
    /\ control = Idle
    /\ next <= Len(session)
    /\ calls' = <<Frame(<<>>, <<>>)>>
    /\ control' = Eval(session[next].body)
    /\ Continue
    /\ UnchangedStore

Enter ==
    /\ control.at = "eval"
    /\ calls' = SetTop([Top EXCEPT !.konts = Append(@, Kont(control.expr))])
    /\ control' = Demand(control.expr, <<>>)
    /\ Continue
    /\ UnchangedStore

\* Whether the value of an operand is refused as soon as it is there.
Refused(e, position, v) ==
    \/ e.op = "range" /\ v.type # "int"
    \/ e.op = "gensym" /\ ~IsInterned(v)
    \/ e.op = "quasi" /\ ~IsDatum(v)
    \/ e.op = "quasi" /\ position \in e.splices /\ (v.type = "datum" => ~v.list)

\* The initial states of a loop are stored one by one.
StoredEarly(e) == e.op = "state"

\* The value of an operand comes back to the expression.
Supply ==
    /\ control.at = "value"
    /\ Top.konts # <<>> /\ TopKont.stage = "operands"
    /\ LET k == TopKont
           values == Append(k.values, control.value)
           position == Len(values)
           locals == IF StoredEarly(k.expr)
                     THEN Stored(Top.locals, <<k.expr.targets[position]>>, <<control.value>>)
                     ELSE Top.locals
       IN IF Refused(k.expr, position, control.value)
          THEN Raise("operand")
          ELSE /\ calls' = SetTop([Top EXCEPT
                             !.locals = locals,
                             !.konts = Append(Front(@), [k EXCEPT !.values = values])])
               /\ control' = Demand(k.expr, values)
               /\ Continue
    /\ UnchangedStore

\* All operands of an expression of this op are there.
Complete(op) ==
    /\ control = Ready
    /\ TopKont.stage = "operands"
    /\ TopKont.expr.op = op

\* The expression's own eval_* returns a value.
Return(v) ==
    /\ calls' = PopKont
    /\ control' = Give(v)
    /\ Continue

-----------------------------------------------------------------------------
(* eval_expr: what is done with the operands *)

EvalConst ==
    /\ Complete("const")
    /\ Return(TopKont.expr.value)
    /\ UnchangedStore

\* Mutant of LoadFrom: a captured variable is read in the frame of the caller.
LoadFromCaller(op) ==
    IF op = "local" THEN Top.locals
    ELSE IF Len(calls) > 1 THEN calls[Len(calls) - 1].locals ELSE Top.captures

LoadFrom(op) == IF op = "local" THEN Top.locals ELSE Top.captures

\* LoadLocal, LoadCapture.
Load ==
    /\ \E op \in {"local", "capture"} :
         /\ Complete(op)
         /\ LET slot == TopKont.expr.slot IN
            IF slot \in DOMAIN LoadFrom(op) THEN Return(LoadFrom(op)[slot])
            ELSE Raise("internal")
    /\ UnchangedStore

LoadGlobal ==
    /\ Complete("global")
    /\ LET name == TopKont.expr.name IN
       IF name \in DOMAIN globals THEN Return(globals[name]) ELSE Raise("undefined")
    /\ UnchangedStore

\* All bindings are stored at once; the body's result is the let's.
LetBody ==
    /\ Complete("let")
    /\ calls' = SetTop([Top EXCEPT
                    !.locals = Stored(@, TopKont.expr.targets, TopKont.values),
                    !.konts = Front(@)])
    /\ control' = Eval(TopKont.expr.body)
    /\ Continue
    /\ UnchangedStore

\* The captured values are copied out of the frame.
MakeClosure ==
    /\ Complete("closure")
    /\ LET e == TopKont.expr
           from(slot) == IF slot \in e.own THEN Top.locals ELSE Top.captures
       IN IF \E s \in e.captures : s \notin DOMAIN from(s)
          THEN Raise("internal")
          ELSE Return([type |-> "closure", function |-> e.function,
                       captures |-> [s \in e.captures |-> from(s)[s]]])
    /\ UnchangedStore

If ==
    /\ Complete("if")
    /\ LET condition == TopKont.values[1] IN
       IF condition.type # "bool" THEN Raise("condition")
       ELSE /\ calls' = PopKont
            /\ control' = Eval(IF condition.bool THEN TopKont.expr.yes
                                                 ELSE TopKont.expr.no)
            /\ Continue
    /\ UnchangedStore

\* Do yields the value of its last item, Sequence, from a `for`, unit.
Do ==
    /\ \/ Complete("do") /\ Return(IF TopKont.values = <<>> THEN Unit
                                   ELSE Last(TopKont.values))
       \/ Complete("sequence") /\ Return(Unit)
    /\ UnchangedStore

\* charge_generated_datum counts before it refuses.
Charge(nodes) == charged' = charged + nodes

\* A new datum is charged to the runtime, for good.
ReturnDatum(v) ==
    /\ Charge(v.nodes)
    /\ IF charged + v.nodes > MaxNodes THEN Raise("nodes") ELSE Return(v)

QuasiQuote ==
    /\ Complete("quasi")
    /\ LET e == TopKont.expr
           values == TopKont.values
           spliced(i) == IF i \in e.splices THEN 1 ELSE 0
           nodes == FoldFunction(+, e.nodes, [i \in DOMAIN values |->
                        NodesOf(values[i]) - spliced(i)])
       IN ReturnDatum(IF e.nodes = 0 THEN AsDatum(values[1]) ELSE Datum(e.list, nodes))
    /\ UNCHANGED <<globals, printed, gensyms>>

\* allocate_gensym, after the prefix if there is one; the symbol is not charged.
Gensym ==
    /\ Complete("gensym")
    /\ gensyms' = gensyms + 1
    /\ Return(Symbol(gensyms))
    /\ UNCHANGED <<globals, printed, charged>>

-----------------------------------------------------------------------------
(* apply *)

ApplyBuiltin ==
    /\ Complete("call")
    /\ TopKont.values[1].type = "builtin"
    /\ LET op == TopKont.values[1].op
           args == Tail(TopKont.values)
           v == Primitive(op, args)
       IN /\ printed' = IF op = "print"
                        THEN printed \o [i \in DOMAIN args |-> Shown(args[i])]
                        ELSE printed
          /\ IF v.type = "error" THEN Raise("argument") /\ UNCHANGED charged
             ELSE IF v.type = "datum" THEN ReturnDatum(v)
             ELSE Return(v) /\ UNCHANGED charged
    /\ UNCHANGED <<globals, gensyms>>

\* The function has a frame of its own; its first slots are the parameters.
ApplyClosure ==
    /\ Complete("call")
    /\ TopKont.values[1].type = "closure"
    /\ LET closure == TopKont.values[1]
           args == Tail(TopKont.values)
           params == closure.function.params
       IN IF Len(args) # Len(params) THEN Raise("arity")
          ELSE /\ calls' = Append(PopKont, Frame(Stored(<<>>, params, args),
                                                 closure.captures))
               /\ control' = Eval(closure.function.body)
               /\ Continue
    /\ UnchangedStore

NotCallable ==
    /\ Complete("call")
    /\ TopKont.values[1].type \notin {"builtin", "closure"}
    /\ Raise("callee")
    /\ UnchangedStore

ReturnFromCall ==
    /\ control.at = "value"
    /\ Top.konts = <<>>
    /\ Len(calls) > 1
    /\ calls' = Front(calls)
    /\ UNCHANGED control
    /\ Continue
    /\ UnchangedStore

\* The form is evaluated; a def binds its global only now.
FinishForm ==
    /\ control.at = "value"
    /\ Top.konts = <<>>
    /\ Len(calls) = 1
    /\ LET form == session[next] IN
       IF form.target = NoTarget
       THEN /\ outcome' = [is |-> "value", value |-> Shown(control.value)]
            /\ UNCHANGED globals
       ELSE /\ outcome' = [is |-> "value", value |-> Unit]
            /\ globals' = Stored(globals, <<form.target>>, <<control.value>>)
    /\ calls' = <<>>
    /\ control' = Idle
    /\ next' = next + 1
    /\ UNCHANGED <<session, printed, charged, gensyms>>

-----------------------------------------------------------------------------
(* eval_range_loop and eval_state_loop *)

\* Mutant of Counted: iterations are not counted.
CountedNever(k) == k.iterations

Counted(k) == k.iterations + 1

\* A further iteration, from the stage of the loop it begins with.
Iterate(k, stage, locals, e) ==
    IF k.iterations + 1 > MaxIterations THEN Raise("iterations")
    ELSE /\ calls' = SetTop([Top EXCEPT
                        !.locals = locals,
                        !.konts = Append(Front(@),
                            [k EXCEPT !.stage = stage, !.iterations = Counted(k)])])
         /\ control' = Eval(e)
         /\ Continue

\* Mutant of Overflows: the counter is stepped without a check.
OverflowsNever(n) == FALSE

\* checked_add
Overflows(n) == n \notin Word

BeginRange ==
    /\ Complete("range")
    /\ LET k == TopKont IN
       IF k.values[3].int = 0 THEN Raise("step")
       ELSE /\ calls' = SetKont([k EXCEPT !.stage = "body", !.current = k.values[1].int])
            /\ control' = Test
            /\ Continue
    /\ UnchangedStore

TestRange ==
    /\ control = Test
    /\ LET k == TopKont
           end == k.values[2].int
       IN IF IF k.values[3].int > 0 THEN k.current < end ELSE k.current > end
          THEN Iterate(k, "body",
                       Stored(Top.locals, k.expr.targets, <<Num(k.current)>>), k.expr.body)
          ELSE Return(Unit)
    /\ UnchangedStore

\* The value of an iteration's body is dropped; the counter steps on, after the
\* last iteration too.
StepRange ==
    /\ control.at = "value"
    /\ Top.konts # <<>> /\ TopKont.stage = "body" /\ TopKont.expr.op = "range"
    /\ LET k == TopKont
           current == k.current + k.values[3].int
       IN IF Overflows(current) THEN Raise("counter")
          ELSE /\ calls' = SetKont([k EXCEPT !.current = current])
               /\ control' = Test
               /\ Continue
    /\ UnchangedStore

BeginState ==
    /\ Complete("state")
    /\ calls' = SetKont([TopKont EXCEPT !.stage = "cond"])
    /\ control' = Eval(TopKont.expr.cond)
    /\ Continue
    /\ UnchangedStore

TestState ==
    /\ control.at = "value"
    /\ Top.konts # <<>> /\ TopKont.stage = "cond"
    /\ LET k == TopKont IN
       IF control.value.type # "bool" THEN Raise("condition")
       ELSE IF control.value.bool THEN Iterate(k, "body", Top.locals, k.expr.body)
       ELSE Return(Unit)
    /\ UnchangedStore

\* Mutant of Updated: each state is updated before the next one is computed.
UpdatedEarly(k, v) ==
    Stored(Top.locals, <<k.expr.targets[Len(k.values) + 1]>>, <<v>>)

\* The locals once v, the next of the new states, was computed.
Updated(k, v) ==
    IF Len(k.values) + 1 = Len(k.expr.nexts)
    THEN Stored(Top.locals, k.expr.targets, Append(k.values, v))
    ELSE Top.locals

\* The value of the body is dropped, or that of a `next` kept, until all new
\* states are there and are written at once.
StepState ==
    /\ control.at = "value"
    /\ Top.konts # <<>> /\ TopKont.expr.op = "state"
    /\ TopKont.stage \in {"body", "next"}
    /\ LET k == TopKont
           values == IF k.stage = "body" THEN <<>> ELSE Append(k.values, control.value)
           locals == IF k.stage = "body" THEN Top.locals ELSE Updated(k, control.value)
           goesOn == Len(values) < Len(k.expr.nexts)
       IN /\ calls' = SetTop([Top EXCEPT
                          !.locals = locals,
                          !.konts = Append(Front(@), [k EXCEPT
                              !.values = values,
                              !.stage = IF goesOn THEN "next" ELSE "cond"])])
          /\ control' = Eval(IF goesOn THEN k.expr.nexts[Len(values) + 1]
                                       ELSE k.expr.cond)
    /\ Continue
    /\ UnchangedStore

-----------------------------------------------------------------------------
(* Flow::Break *)

Break ==
    /\ Complete("break")
    /\ calls' = PopKont
    /\ control' = [at |-> "break", target |-> TopKont.expr.target,
                   value |-> IF TopKont.values = <<>> THEN Unit ELSE TopKont.values[1]]
    /\ Continue
    /\ UnchangedStore

\* Only a break out of its body ends a loop, and only its own.
Takes(k, target) == k.stage = "body" /\ k.expr.id = target

\* An eval_* function gets a break for the value of a subexpression.  Out of a
\* function or the form it would be an "internal IR error".
PassBreak ==
    /\ control.at = "break"
    /\ IF Top.konts = <<>> THEN Raise("internal")
       ELSE IF Takes(TopKont, control.target) THEN Return(control.value)
       ELSE calls' = PopKont /\ UNCHANGED control /\ Continue
    /\ UnchangedStore

-----------------------------------------------------------------------------

Init ==
    /\ session \in Sessions
    /\ next = 1
    /\ calls = <<>>
    /\ control = Idle
    /\ globals = [op \in {"+", "<", "list", "print"} |-> Builtin(op)]
    /\ printed = <<>>
    /\ charged = 0
    /\ gensyms = 0
    /\ outcome = [is |-> "none"]

Next ==
    \/ BeginForm \/ Enter \/ Supply \/ FinishForm
    \/ EvalConst \/ Load \/ LoadGlobal \/ LetBody \/ MakeClosure \/ If \/ Do
    \/ QuasiQuote \/ Gensym
    \/ ApplyBuiltin \/ ApplyClosure \/ NotCallable \/ ReturnFromCall
    \/ BeginRange \/ TestRange \/ StepRange
    \/ BeginState \/ TestState \/ StepState
    \/ Break \/ PassBreak

\* eval_ir_top_level runs on until it returns, and so do the forms of a program.
Spec == Init /\ [][Next]_vars /\ WF_vars(Next)

-----------------------------------------------------------------------------
(* Properties *)

\* The type invariant: between forms no call is in progress, within one there is
\* always a frame to go on with; counters of loops are integers and never wrap.
TypeOK ==
    /\ next \in 1..(Len(session) + 1)
    /\ control.at \in {"idle", "eval", "ready", "test", "value", "break"}
    /\ (control = Idle) = (calls = <<>>)
    /\ control = Ready => Top.konts # <<>> /\ TopKont.stage = "operands"
    /\ control = Test => Top.konts # <<>> /\ TopKont.expr.op = "range"
    /\ \A i \in DOMAIN calls : \A j \in DOMAIN calls[i].konts :
          /\ calls[i].konts[j].stage \in {"operands", "body", "cond", "next"}
          /\ calls[i].konts[j].current \in Word
          /\ calls[i].konts[j].iterations \in 0..MaxIterations
    /\ DOMAIN globals \subseteq GlobalName
    /\ charged \in Nat
    /\ gensyms \in Nat

\* What the lowerer and the verifier let through is evaluated without an
\* "internal IR error": every slot read was written before, in this call or in
\* the one the closure was made in, and no break escapes.
NoInternalError == outcome.is = "error" => outcome.kind # "internal"

\* Every form comes to an end, for an endless loop meets the iteration limit,
\* nested in other loops as well (the sessions tried have no endless recursion).
EveryFormEnds == control.at # "idle" ~> control.at = "idle"
=============================================================================
