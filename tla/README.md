# ReGateLisp in TLA+

Specifications of ReGateLisp (`src/src`): how a top-level form becomes
slot-resolved, verified IR in a session that outlives it, how macros are expanded
under their limits, where the constants of `for` come from in the two front ends,
that running the IR does what its source means, and how hardware modules become
SystemVerilog. TLC checks every module on small instances; TLAPS proves every
safety property of the lowerer, of the macro expander and of `for` unrolling,
that the lowerer implements the store a session promises, and the backend's
signal table, for every value of their constants.

## 1. The system

ReGateLisp is a sequential program: a Lisp interpreter, a compile-only front end
(`--check`, `--dump-core`, `--dump-ir`) and a SystemVerilog backend. There are no
threads, no messages and nothing persistent. What is hard about it is of another
kind: long-lived sessions whose counters and tables must stay consistent over
forms that fail half-way; recursive passes that push and pop several stacks and
return early; names resolved through scopes, functions and globals; numbers
copied out of a session and written back later; and two implementations of the
same question (interpreter and compiler, `for` and `loop`, lowerer and verifier)
that must agree.

| component | source | state it keeps | operations |
|---|---|---|---|
| lexer, parser | `lexer.rs`, `parser.rs` | none | text to reader forms |
| macro expander | `macro_expand.rs` | `MacroExpansionSession`: definitions, frames, three counters, gensym counter | collect definitions, expand, invoke |
| `for` expander | `expand.rs` | `ExpansionContext`: `for` variables, shared budget | unroll, evaluate bounds, quote and quasiquote, `meta` |
| lowerer | `lower.rs`, `capture.rs`, `ir.rs`, `ids.rs` | `LowerContext`: function stack (scopes, captures, slots, loops), pending functions, id counters | one function for each form |
| verifier | `verify.rs` | none | checks every slot, id and nesting of the IR |
| session | `interpreter.rs`, `globals.rs` | registry, module, loop counter; runtime globals | expand, lower, commit, verify or truncate, evaluate |
| evaluator | `ir_eval.rs`, `builtin.rs`, `value.rs` | frames, gensym counter, generated nodes | evaluate, apply, loops, break |
| compile-only front end | `compiler.rs` | registry, module, `ConstantEnv` | expand, fold constants, lower, verify |
| SystemVerilog backend | `hardware.rs` | tables of a module's signals, drivers, registers | lower, verify, emit |
| printers | `format.rs`, `text_ir.rs`, `backend.rs` | none | text from finished trees |
| data types, errors, CLI | `ast.rs`, `core.rs`, `datum.rs`, `symbol.rs`, `property.rs`, `error.rs`, `lib.rs`, `main.rs` | none | - |

A program goes through the components in this order. All macros of a program are
expanded first (`MacroExpansionSession::expand_program`); each invocation runs a
fresh compile-time `Interpreter` of its own, to which the session lends its
gensym counter. Then one form after another is expanded (`for` reads the values
the *earlier* forms gave to globals), lowered (`LowerContext` borrows the
session's registry and continues its function and loop ids), committed to the
session's module, verified, and evaluated. `Compiler` does the same but runs
nothing and keeps `ConstantEnv` in place of the values of globals.

What makes each component correct, and the hazards in its code, are listed line
by line in `PROJECT.json` ("hazards"), each with the properties that would catch
it or the reason why none does yet.

## 2. The modules

### Lowering.tla: lowerer, verifier and session

The recursive descent of `lower_expr` is a pushdown machine. `stack` is
`LowerContext::function_stack`; a frame has the fields of `FunctionScope` and
`handlers`, the calls of `lower_let` and `lower_loop` of that function that have
not returned, each with its position (initializers, condition, body, updates).
One action is one stretch of code between two recursive calls: `EnterFn` and
`ExitFn` are the two halves of `lower_fn`; `NextBinding`, `LetBody`, `LetExit`
those of `lower_let`; `StateCond`, `StateBody`, `StateNext`, `StateUpdate`,
`StateExit` those of `lower_general_loop`, where the loop stack is pushed and
popped around the body only. `CaptureHop` is one turn of the loop in
`LowerContext::resolve` that threads a capture inwards. `Fail` is any
`LowerError`: the context is dropped and the session keeps its registry.
`Finish` is the rest of `eval_expr_unexpanded`: feed the loop counter back,
append the functions, verify, truncate if the verifier refuses.

The form being lowered is left open. At each position any expression may come
next, so the reachable states are those of all forms within the bounds; `if`,
`do`, calls and quasiquotes touch no state of their own and are sequences of the
modelled steps. The finished code of a function is the *set* of its
instructions, which is all the verifier's and the properties' questions need. An
instruction carries as history the loops it is nested in (`within`), a reference
also the variable lexical scoping says it denotes (`binder`, computed by `env`
alone, which the code does not have).

### FormStore.tla: what a session promises

The abstract specification that `Lowering` implements: a store of names, of
functions with the ids of their loops, and of the next loop id, to which one form
after another is added whole or not at all. It has no stack, no scopes and no
code; `Work` only lets names be registered while a form is open. `Lowering`
instantiates it with a refinement mapping (`Store`): its `registry`, `module` and
`nextLoopId` are the store, a form is open while the function stack is not empty,
and every action of the lowerer but the first and the last of a form is `Work`.
The property is `Stored == Store!Spec`. What it adds to the named invariants is
the step itself: functions get their place and their loops their ids in the one
step that ends a form, loop ids come from the interval the counter skips, and no
step in between changes anything a closure of an earlier form relies on.

### MacroExpansion.tla: one macro expansion session

`calls` are the calls of `invoke` in progress with their local variables (depth,
the counter of their evaluator, whether the body or the result is being
expanded); `stack` is the session's own list of names, kept apart because the
code pushes and pops it by hand. Each error exit of `invoke` is a step:
arguments that do not fit (`Reject`), depth or budget exceeded (`Invoke`), a
body that fails or yields no datum (`EvaluateFails`), a result with which the
total of generated nodes no longer fits its type (`TotalOverflows`) or is above
the limit (`Charge`), and an error from further in that passes through
(`Unwind`). All of them take the frame off but `TotalOverflows`, the `?` at
`macro_expand.rs:315-321`: the history variable `stale` counts the frames it has
left. What an expression holds is again left open, so that termination is shown
to rest on the limits alone.

### ForUnrolling.tla: expand_for

`fors` are the calls of `expand_for` in progress, `budget` the cell they share.
Numbers are words in two's complement with the wrapping, the conversions and the
widening of the code (`wrapping_sub ... as u64`, `-(step as i128)`), and
`OverflowChecks` says whether the build panics where the code adds unchecked.
The width is given by `HalfRange`, 2^63 in the code: every use of the width is as
that power, and theorems about words of any width need no facts about powers.
The cast of a count to `usize` keeps it, as on 64-bit targets.

### ForConstants.tla: interpreter and compiler side by side

Both front ends are given the same top-level forms. `store` holds the
interpreter's globals, `integers` and `redefined` the compiler's `ConstantEnv`.
`Def` evaluates the initializer for the one and folds it for the other
(`FoldInt` after `try_fold_int` and its relatives, `Eval` after
`eval_expr` and the builtins), `ForLoop` evaluates a bound in both by
`BoundOf` (`eval_constant_int`). Two arithmetic operators and a comparison stand
for all of them.

Each of these recursions over expressions is a *step* (`EvalStep`, `FoldIntStep`,
`FoldBoolStep`, `BoundStep`, `NamesStep`), which has one case for each form and
takes the results of the parts from a function, and the recursive function the
step defines. Expressions are a constant, `Texts`, any set that contains the parts
of its members, with a `Rank` that is less for parts: expressions are finite.

### Evaluator.tla and Semantics.tla: running the IR, and what it should mean

`Evaluator` is `ir_eval.rs` as a machine. `calls` are the frames of the function
calls in progress; `konts` in each of them the `eval_*` functions that have not
returned, with their local variables (the operands' values so far, a loop's
counter and iterations). `control` is what happens next: evaluate a
subexpression, act on the operands, test a range loop, or hand a `Flow` (a value
or a break) to the innermost of `konts`. An error drops all of it and leaves
output, globals and counters as they are; the next form of the session goes on
from there. Expressions are IR trees, with all subexpressions that are evaluated
once and first as `operands`.
`Verified` is `verify_expr` on such a tree, with the scoping `lower_expr` sees to;
the constant `Code` holds the judgments of all forms given (section 5).

`Semantics` has the other side: `Lower` builds that IR from source forms as
`lower_expr` does, with slots named by the place of their binding (that they are
fresh, and captures unique, is what `Lowering` is about), and `Denote` says what
the forms mean, recursively, by names and environments, without slots, captures
or loop ids. `MeansItsSource` compares the two after every form: result, output
in its order, globals, charged nodes and generated symbols. Data is reduced to
node counts and, for the prefix of a generated symbol, to whether it is a symbol of the
source; one builtin stands for each kind.

A quasiquote is a tree (`Template`). The one side expands it as
`expand_quasi_datum` does (`ExpandQuasi`), passing a depth down that quasiquotes
raise and unquotes lower, and stopping at `quote`. The other (`Reading`) looks at
the place of each unquote: it is evaluated if as many unquotes as quasiquotes are
around it, no quote is, and nothing around it is evaluated. What is inside an
unquote can be read as an expression or, deeper, as a template (`Written`).

### SignalTable.tla, HardwareExpr.tla, Hardware.tla: the SystemVerilog backend

`SignalTable` is the numbering of signals in `lower_module`: ids count ports and
registers through, an output port that is a register is in both, and everything
later finds names and types by position (`signal_name`, `signal_type`).

`HardwareExpr` is `lower_core_with_expected` and `lower_application`, with the types
that integers take from what is beside them, and the verifier's own derivation of
types (`WellTyped`). Words have `WordBits` bits, widths end at `MaxWidth`. The code
recurses over trees of expressions and statements; here the trees are the sets that
`Depth` rounds of `CoreNode`, `HwNode`, `StmtNode` and `HwStmtNode` build, and each
recursion is a function over them whose step (`LowerStep`, `VerifyStep`,
`LowerStmtStep`, `VerifyStmtStep`, ...) is an operator of its own that takes the
results of the parts. That is the form the proofs need, and nothing else depends on
`Depth`.

`Hardware` composes them. `lower_module` sorts the forms of a module by what they
are and lowers sort by sort; `source` is the module as it is written, its forms by
sort; `phase` is the sort the lowering has come to, and any form of
`Offers` of that or a later sort may come next, so one action is the lowering of
one form: `LowerPort`, `LowerEnum`, `DeclareRegister` and `LowerAttributes` (the
two passes over `registers`), `LowerOutputRegister`, `DeclareForClocked`,
`LowerClocked`, `LowerAssign`. `Fail` is any `HardwareError`. When the modules are
complete, `Verify` is `verify_hardware_design` (`HasLoop` is the depth-first
search with its visiting and visited sets, `VerifyStmt` the merge of updates over
branches) and `Emit` is `emit_systemverilog`: the emitted text is the names and
kinds of nets it declares, and the blocks and assignments with what each writes,
reads and is triggered by, all found through ids. `HardwareProperties` states the
properties against the source, without ids, tables or merged sets: paths through a
statement, rings of assignments, the driver each form asks for.

`MCLowering`, `MCMacroExpansion`, `MCForUnrolling`, `MCForConstants`,
`MCSemantics` and `MCHardware` give the constants their values. The theorems are
in `LoweringProofs`, `MacroExpansionProofs`, `ForUnrollingProofs`,
`ForConstantsProofs`, `EvaluatorProofs` and `HardwareProofs`, which rests on the
recursions of `HardwareCodeProofs` (section 5); `SequenceLemmas` has the facts about
sequences, numbers and recursive functions that several of them need. The operators called
"Mutant of ..." are not used by any specification: they are plausible bugs, one
for each property at least, with which the property has been seen to fail.

## 3. The runs

| run | what it asks | bounds |
|---|---|---|
| `lowering_captures` | function table, capture chains and their uniqueness, lexical scoping | a body and three nested functions, one interned and one generated name, 4 distinct instructions: enough for a variable captured through two functions, twice, along two paths |
| `lowering_loops` | scopes and loop stack balanced at every early return; the verifier accepts; shadowing between let, loop states and globals | two forms nested in one another with two names, one of them reserved |
| `lowering_session` | ids over several forms, kept, failed and rejected ones mixed; the registry and the module never change under a closure; the lowerer implements `FormStore` | two functions and two loops per session in any distribution over the forms |
| `macro_limits` | limits, error stack, termination; generated symbols distinct as long as no macro body invokes a macro | depth 3, 5 invocations, 6 nodes with results of up to 3, so that each limit is hit before and after each other one, and a largest total of 8, which overflows at each depth and up to three times in a session; two macros, to tell the frames apart; one and the same session over any number of programs |
| `macro_gensym_nested` | distinct generated symbols with invocations in bodies: **violated** | one macro, depth 2 |
| `for_unrolling` | unrolled iterations are those of the loop; the shared budget over nested and successive forms | ranges from, to or around the extremes and zero of 3-bit words with every kind of step (least, -1, 0, 1, longer, greatest), nested two deep, a budget of 8 |
| `for_overflow` | no panic while unrolling: **violated** | all ranges of 4-bit words, with overflow checks |
| `constants_agree` | what the compiler folds is what the interpreter has; `for` unrolls alike in both; a bound is the value of its expression | one global, `+` and `<` redefinable, up to two binders around a `for`, also one of the name of an operator, 2-bit words, so that folding overflows |
| `constants_locals` | no runtime local is accepted in a bound: **violated** | the same without redefined operators |
| `evaluator_meaning` | lowered code means what its source means; no "internal IR error"; every form ends | 939 forms, loops in loops around a body, with breaks, lets that shadow, closures, calls and symbols with a prefix at each place, and all 1331 sessions of three out of eleven forms with definitions, redefined operators, failures, recursion and data; 960 templates of up to two quasiquotes inside the outer one and three unquotes inside one another, quoted or not, unquoting values, lists, templates, breaks and what is no datum, in a loop and with a second form that uses the result; integers from -3 to 3, 3 iterations, 9 nodes, so that overflow and each limit occur |
| `hardware_design` | ids lead back to names; lowered expressions are well typed and literals keep their value; a register is updated at most once on a path, and what is refused for that is wrong; loops of assignments are found exactly; the emitted text is the drivers of the source, each name declared once and with the right kind of net | seven kinds of sources: one assignment of every operator, type, literal and key to depth two; up to four registers, declarations, blocks and assignments of the same two signals; registers and blocks wrong in each way; blocks that branch in branches; pairs of blocks; all graphs of assignments over three outputs; two modules with names that differ in case, are no identifiers or clash across sorts. 4-bit words and widths up to 5, with the least and greatest words as literals and keys of every width: below the word, at the bit below it where `fits` stops looking, at the word and beyond. Expressions and statements up to `Depth` 5, which no source exceeds |
| `hardware_drivers` | one driver per signal: **violated** | the second kind of source alone |

A bound on a counter (`MaxFunctions`, `MaxLoops`, `MaxCode`, ...) only keeps an
action from being taken; it never lets the code see a value it would not. The
counters are u32 and u64 in the code; that they run out is not modelled, except
for the gensym counter, whose overflow is an error the evaluator reports
(`MaxId`).

Deadlock is checked, except in the runs of `ForConstants`, where a program really
stops at the first form that is refused, of `Evaluator`, where a session ends
with its last form (`EveryFormEnds` shows that it does not stop before), and of
`Hardware`, which stops after an error or the emitted text.

**Fairness.** Only `MacroExpansion` and `Evaluator` state any: `WF_vars(Step)` and
`WF_vars(Next)`, because a call of `expand_program`, or of `eval_ir_top_level` for
the forms of a program, is sequential code that runs on until it returns and
waits for nobody. Whether another program is given to the session is up to its host
and not fair. All other properties are safety properties.

## 4. What the runs found

Four statements of the documentation, of comments or of tests do not hold of the
code; each has a run that shows the shortest case ("findings" in `PROJECT.json`).

1. *Generated symbols are not always distinct.* `invoke` lends the gensym
   counter to its evaluator before it expands the macro's body, and takes it back
   after the evaluation. A macro invoked in the body gives out the same ids.
2. *Unrolling can overflow.* `expand_for` steps its variable after the last
   iteration too, with an unchecked add.
3. *A runtime local in a bound is taken for a global* (or for an enclosing `for`
   variable) of the same name instead of being rejected.
4. *A register can have two drivers.* Blocks are compared with blocks and with
   assignments, but not with registers that have a clock and a next of their own:
   such a register may also be `set` in a clocked block.

One was seen in `MacroExpansion`. The `checked_add` of the total of generated
nodes returns its error with `?` and leaves the frame of the invocation on the
stack (`macro_expand.rs:315-321`), where every other exit pops it. The error
itself names the right chain, but every later error of the session has the stale
name below its own: a `MacroExpansionDepthExceeded` at depth four, whose chain the
test at `macro_expand.rs:653-672` expects to have four names, would have five.
`StackIsCallChain` says exactly that: the chain is as many frames longer as there
were overflows, whatever else has failed in between.

Three more were seen in `ForConstants` and shape what its properties ask, without
a run of their own:

* `eval_constant_application` computes a bound with the builtin operators even
  after the program has redefined them, or where a `let` or a `for` around the
  form binds their name. `BoundIsValue` is therefore asked only of programs that
  redefine none and scopes that bind none; `ForsAgree` shows that the two front
  ends still unroll alike.
* `try_fold_application` folds `+` inside a `let` that binds `+`. It does so only
  if the `let` binds a number, which cannot be called; the interpreter then
  refuses the form, and `ConstantsSound` holds of what comes before.
* `Compiler::compile_expr` keeps the constant of a `def` that fails to lower
  (`Def` records it first, as the code does). A program ends there, so
  `ConstantsSound` is asked while no form was refused.

Seen while modelling the backend, and modelled as it is: `fits` accepts any
integer for types of 63 bits and more. A negative one is so taken for unsigned, and
`(meta ((width 63) (signed true)) 4611686018427387904)` is emitted with bits that
read back as the negative of 2^62. `README.md:44` of the repository says that there
"are no implicit width or signedness conversions". `LiteralsKeepValue` is exact about
it, at every width: the value of an emitted literal is that of its source if and only
if it is none of `TakenUnseen`, which are the unsigned negative ones from 63 bits on and
the signed ones of exactly 63 bits that are out of range. From 64 bits on every signed
word keeps its value, and below 63 bits every literal does. It is asked of the literals
and case keys of assignments; those of clocked blocks and registers are lowered by the
same code, and members of enums, always unsigned, pass the same `fits`. Names of
internal registers are not tested by `valid_identifier`; registers of an output
port accept a signed one-bit clock or reset, those of `registers` an unsigned one
only; `(+ 1 x)` is refused where `(+ x 1)` is accepted, because the type is taken
from the first operand; a register declared with `(register q)` that no block sets
counts as driven. Outside the model: a negative case key is emitted as `8'd-1`.

## 5. The proofs

Every safety property that a run checks of `Lowering`, `MacroExpansion`,
`ForUnrolling`, `ForConstants`, `Evaluator` and the backend is also a theorem, for
every value of the constants, the bounds of the instances included. `SequenceLemmas`
holds what all of them need: sequences as stacks, as tables that grow at the end, as
lists without repetition, the first, last and n-th of some positions, and the
recursive functions.

**The lowerer** (`NamesAssumption`: interned and generated names are disjoint, the
builtins are distinct; `BoundsAssumption`: the bounds are numbers). Four
invariants, each proved on the ones before it:

| invariant | module | what it strengthens | why it is needed |
|---|---|---|---|
| `Inv` | `LoweringProofs` | `TypeOK`, `FunctionTable`, `CaptureChain`, `NoDuplicateCaptures` | `StackIds`: ids grow towards the top of the stack, so placing a finished function cannot hit another's slot. `HopLeads`: the capture being threaded, between two turns of the loop in `resolve`, has come from its variable. `OriginsOutside`, with `CaptureChain` itself: two entries for one variable would have the same source. `ScopesBalanced`: there is a scope to pop whenever a form ends. `DistinctNames`: a state's update finds its own slot |
| `LoopInv` | `LoweringProofs` | `BalancedControl`, `UniqueLoopIds` | the ids of the form's loops lie from `nextLoopId` to `nextLoop`, those of the module below: a new id is new against everything, and what a form keeps stays new for the next. A call of `lower_loop` has its id from the end of its initializers on. A break is inside its loop and no loop inside itself, also of functions already placed (`WellNested`) |
| `ScopeInv` | `LoweringProofs` | `LexicalScoping` | the property speaks of finished references, the invariant of the scopes they were resolved in: at every frame the scope maps, read from the innermost outwards, *show* the environment of the place the frame has come to; for every call in progress the scopes that were open when it began show the environment it will put back. So popping a scope and leaving a function restore exactly what was visible before |
| `VerifierInv` | `LoweringProofs` | `VerifierAccepts` | what is emitted is in range of its function's slots and captures, of the registry and of the form's functions (`Sound`), and all of these only grow; a call in progress has its slots in the scope it opened (`CallSound`), which makes a state loop's updates its targets, in order; a captured local exists where it is captured (`Reaches`) |

The theorems: `TypeCorrect`, `FunctionTableCorrect`, `CaptureChainCorrect`,
`CapturesDistinct`, and the action properties `RegistryNeverChanges` and
`ModuleNeverChanges` from `Inv`; `ControlBalanced` and `LoopIdsUnique` from
`LoopInv`; `ResolutionIsLexical` from `ScopeInv`; `VerifierAlwaysAccepts` from
`VerifierInv` and `LoopInv`. The last says that the branch of
`eval_expr_unexpanded` that truncates the module after a rejection is dead code.

`SessionStoresForms` is the refinement, `Spec => Stored`: `Init` maps to
`FormStore`'s, and each step to one of its steps. A form's first step is `Begin`,
a failure `Refuse`, every other step but the last is `Work` (it leaves module,
loop counter and outcome alone and registers at most one name). `Finish` is
`Commit`, and there all of the above comes together: it commits because the
verifier accepts (`VerifierInv`), the functions are complete and at their ids
(`FunctionTable` with one frame left), and their loops have ids from the interval
that the counter skips, no two functions sharing one (`LoopInv`).

The proof of each step starts from lemmas in `LoweringProofs` that say what the
step does to the frames field by field; one lemma for each action then shows
that each invariant is kept, and what ends a form (`DropContext`, shared by
`Fail` and `Finish`) and the scope operations have lemmas of their own.

**The macro expander** (its `ASSUME`s only say what the limits are). `ExpansionInv`
is the five checked invariants with `CallsInProgress` (a program that has ended
has left every call), `FlatCalls` and `FlatIssued`. `DepthIsNesting` and
`StackIsCallChain` are inductive only together with the first: a new program must
find no call in progress, and no frame but those that overflows have left.
`FlatGensymsDistinct` needs the other two: as long as no
body invokes a macro, only the innermost call has an evaluator at work, its
counter is still the session's, and every id given out is below it. Where a body
does invoke a macro, `FlatCalls` is exactly what breaks, which is finding 1.

**`for` unrolling** (`RangeAssumption`: there are words; bounds are words).
`IterationsFacts` is the arithmetic: for words of any width and any step but 0,
k is less than `ComputeIterations(start, end, step)` if and only if the loop goes
on at `start + k * step`, and then that value is a word. It rests on
`DivCeilFacts` (the rounded-up quotient), and on `SpanExact` (the difference of
two words, wrapped to i64 and read as u64, is exact, also where the subtraction
overflows). `UnrollingMatchesLoop` follows with the invariant `ForInv`: each call
is a whole number of steps into its range. `BudgetSpentOnce` accounts for the
shared budget over any nesting; the sum over the calls in progress is stated as a
function of partial sums, because a fold could not be reasoned about without
induction over data. `UnrollingTypes` has the subtraction from the budget, which
never goes below 0. `NoPanic` is false (finding 2); the step that breaks it is
the one after the last iteration, where `ForInv` asks nothing of the variable.

**The constants of `for`** (`NamesAssumption`: globals, operators and reserved
names differ, there is a word; `ExprAssumption`: parts of expressions are
expressions and rank lower). `ForConstantsTypes`, `FoldingIsSound`,
`FrontEndsAgree` and `BoundsAreValues` come from `Inv` of `ForConstantsProofs`: the
four checked invariants with `OperatorsKept`, which says that the compiler's mark on
an operator is not late: one it has no mark for still has its builtin in the
interpreter. The argument is about recursive functions that look only at the parts
of an expression:

* *They exist* (`RecursionExists`). A step that is typed and looks only at lower
  ranks (`LooksBelow`) has a solution up to any rank, the solutions agree where they
  overlap (`BelowAgree`), and their union solves it everywhere. Inductions over
  expressions are on `Rank`, by an expression of least rank (`LeastRank`,
  `RankInduction`), without the library's induction rule. Each of the four
  recursions then needs only that its step has these two properties
  (`BoundStepType`, `BoundStepLooksBelow`, ...).
* *Folding computes the value* (`FoldStepMatches`, `FoldIsValue`): of an expression
  the compiler folds, in constants that are the values of the names, the value is
  what it folds to. The case that matters is an application whose operator a `let`
  has bound: the `let` is folded only if it binds a number, and then the evaluation
  is an error, so nothing is claimed of a store that does not change.
* *Bounds* (`BoundIsMonotone`: more constants, same bound where there was one;
  `BoundIsItsValue`). `Innermost` relates what a scope gives a name among its `for`s
  with what it gives it among all its binders, which is the same unless a `let` is
  the innermost.

**The interpreter.** `EvaluatorIsSound` is a type soundness theorem: the
"internal IR error"s of `LoadLocal`, `LoadCapture` and `MakeClosure`, and that of
a break that leaves its function or its form, are never reached
(`NoInternalError`); `EvaluatorTypes` is `TypeOK`. Besides `LimitsAssumption`
both assume `CodeAssumption`, which says what the interpreter may rely on.
`Code` is a set of judgments: an expression, the slots that are written and those
that are captured where it stands, and the loops whose bodies are around it.
`Verified` is what such a judgment needs, and it asks it of the subexpressions
again, so `Code` is closed under them and no induction over expressions is
needed. Breaks, ids of nested loops, splices and the shape of loops are checked by
`verify_expr`. Of a slot it checks only that it is in range, and that is not enough
for the interpreter, where a slot in range may not be written yet; that a slot is
read in the scope that declares it comes from `lower_expr`
(`LexicalScoping`, `CaptureChain` and `VerifierAccepts`, theorems of `Lowering`).
`evaluator_meaning` takes for `Code` the judgments of all its lowered forms, so
there TLC shows the assumption of what the lowerer makes.

The invariant, `Inv` of `EvaluatorProofs`, says of each eval_* function in
progress that a judgment of its expression holds in its frame: its slots are
written, its captures there, and the loops around it are those whose bodies the
functions below it are in (`Fits`), and how far it is with its operands or its
loop (`Sane`). Only the innermost function may have all of its operands; the
others wait for one (`Waiting`). A closure can be called anywhere, since its
function needs nothing but its parameters and what it captured; captured values
may be closures themselves, so a value is good if it is one of a set of values
that contains what its members capture (`ValueOK`), which replaces a recursion
over values. A break in flight has its loop among those around it in each frame it
passes, so it meets it before the frame ends. Functions are kept across forms in
globals, so this holds for any number of forms, failed ones between them.
New data is charged by its nodes, which the model adds up with a fold:
`SumIsNatural` and `CountIsNatural` unfold it and argue by a subset of least size
(`SumsExist`), where the library would use an induction rule.

**The signal table.** For any names, any folding of case and any types,
`HardwareProofs` shows of `SignalTable` that types are right (`TableTypes`), that every
id leads back to its name (`IdsLeadBack`), that ids are distinct (`IdsAreDistinct`)
and that they survive later declarations (`IdsStay`). The inductive invariant is
`TableTypeOK` with `IdsNameSignals`, which needs no strengthening but types:
appending a register moves no position that an id in use can mean, because ports
are complete by then. `BackendKeepsTable` is the refinement `Spec => TableSpec` of
`Hardware`: every step of the backend, failures included, treats the table as
`SignalTable` says, so that all of this holds there (`BackendIdsLeadBack`, and
`HardwareTypes` for the rest of the state).

**The backend** (`WidthsAssumption`: there are words of two bits at least, and widths;
`NamesAssumption`: the table's types are the backend's; `OffersAssumption`: sources are
trees). The argument has three layers.

* *The recursions exist* (`HardwareCodeProofs`). A tree has a rank, the round in which
  it is built, and its parts a lower one (`IsTree`). Every step looks at the results of
  the parts only, and so has a solution (`RecursionExists`, as for `ForConstants`);
  each recursion is then used through one equation (`SubexpressionsUnfold`,
  `WantedUnfold`, ...). Recursions over sequences (`FlattenSeq`, blocks of statements,
  `VerifyBlocks`, `Power`) are solved step by step (`StepsExist`, `FlattenSteps`).
* *What is lowered is right* (`LowerStmt` and what it calls). An expression is lowered
  to an error or to a *good* one: each node is well typed for the verifier, refers to
  signals and members there are, its literals fit, and it reads the names of the
  source (`Lowered`). A statement's lowering (`StmtOK`) writes registers, reads
  declared names, emits what `Wanted` asks for, and for any updates before it is
  `Judged`: the verifier finds a second update exactly if a path of the source makes
  one, and otherwise knows what the paths set. This is the induction over statements in
  which merged sets and paths meet: a set is updated on *some* path before a statement,
  and paths are put together from those of the parts.
* *It stays right* (`WrittenInvariance`, the inductive invariant). A module in the
  making is, form by form, such a lowering of its source. Expressions are lowered
  before the registers, clocks and forms of later sorts are there, so each promise is
  made for every module that has the same signals first (`Extends`), or the same
  signals (`Same`), and survives whatever is added. `SignalsKnown` is what the table
  needs on top of its own invariant: inputs are ports, registers are apart, each name
  has the first id of that name.

The verdict and the text follow. `LoweredTypes`: each test of `verify_hardware_design`
for a type, a width or a literal repeats what the invariant says. `LiteralsKept`: a
literal in the range of its type is its own residue and any other is not
(`ReadBackInRange`), and of the words `fits` accepts at any width those out of range are
the ones it takes unseen (`UnseenOutOfRange`). `UpdatedOnce`: the blocks are judged
one after another, and what they update are registers, which are never assigned.
`WrittenIsEmitted`: the sequences of drivers are mapped form by form.
`DrivenAsDeclared`: the declarations have the names that the verifier has compared
or, for two ports, lowering has (`NamesApart`), so a name has one net; what is read and written is declared, and a
register that is a port is an output.

`LoopsAreFound` has an argument of its own. `visit` is a fold over a set, in an order
that is not known, with one set of finished signals (`FoldInvariant`: what one step
keeps, the whole fold keeps). Two facts are kept: each signal of the path is assigned
from the next one (`OnPath`), so a path that meets itself closes a ring; and what is
finished reads finished signals only and has no ring (`Settled`), so that it need not
be visited again. The induction is on how few signals are not on the path. When no
loop is reported every destination is finished, and the signals of a ring are
destinations. `Ring` speaks of ids and `Looping` of the names in the source: they
correspond because an assigned name has one net.

**Only model-checked.** Liveness (`ExpansionEnds`, `EveryFormEnds`): the prover has
no reasoning about `ENABLED`. `MeansItsSource`: `Semantics` is an interpreter by
names, in recursive operators, with which the prover cannot be used.

## 6. What is not modelled, and the plan

In this order; each module comes with its runs, and with proofs where the
argument does not need induction over data.

1. `Lowering` with `LoweringProofs`; `MacroExpansion`; `ForUnrolling`;
   `ForConstants` - done.
2. `Evaluator` and `Semantics` - done.
3. `FormStore`, the promise of a session, implemented by `Lowering` - done.
4. `SignalTable`, `HardwareExpr`, `Hardware` - done.
5. Quasiquote in `Semantics` - done.
6. Proofs of all safety properties of `Lowering`, `MacroExpansion` and
   `ForUnrolling`, and of the refinement of `FormStore` - done.
7. Proofs of `TypeOK` and `NoInternalError` of `Evaluator` - done.
8. Proofs of the backend, with `HardwareCodeProofs` and `HardwareProofs` - done.

Not covered: the library's own `lower_top_level` (`lib.rs`), which starts the ids
of each form at 0 and so keeps what `FormStore` promises only for the first form
given to it; `meta` properties outside the backend, which nothing but the backend
reads; quasiquote forms with a wrong number of operands, which are refused at any
depth; the native stack that recursion in the evaluator uses; the binding of macro parameters and the transfer of properties to results.

Left out for good: the lexer and parser (one pass over text without state that
outlives it), the printers and `format.rs` (layout), error messages, the command
line.
