------------------------------ MODULE Lowering ------------------------------
(***************************************************************************)
(* The lowerer of ReGateLisp: Core expressions to slot-resolved IR, one    *)
(* top-level form after another (lower.rs, capture.rs), checked by the     *)
(* independent verifier (verify.rs) and committed to the session's module  *)
(* (FrontendSession in interpreter.rs).                                    *)
(*                                                                         *)
(* The recursive descent over a form is a pushdown machine.  `stack` is    *)
(* LowerContext::function_stack; each frame also has `handlers`, the       *)
(* lower_let and lower_loop calls of that function which have not          *)
(* returned.  The Core form itself is left open: a step lowers any         *)
(* expression the current position admits, so the reachable states are     *)
(* those of every form within the bounds.  Calls, `if`, `do`, quasiquotes  *)
(* and constants lower their parts in order and touch no state of their    *)
(* own: they are the sequences of the steps below.                         *)
(***************************************************************************)
EXTENDS Integers, FiniteSets, SequencesExt

CONSTANTS
    Interned,     \* names read from the source text
    Generated,    \* symbols made by gensym: never equal to an interned one
    Reserved,     \* the interned names `def` may not bind
    Builtins,     \* the registry of a new session, in the order of builtin::all
    MaxFrames,    \* bounds of the instances: nested functions and the body,
    MaxHandlers,  \*   let and loop forms nested in one function,
    MaxLocals,    \*   local slots of one function,
    MaxCode,      \*   distinct instructions of the whole session,
    MaxParams,    \*   parameters of one function,
    MaxFunctions, \*   functions of the whole session,
    MaxLoops      \*   loops of the whole session

Name == Interned \cup Generated

ASSUME NamesAssumption ==
    /\ Interned \cap Generated = {}
    /\ Reserved \subseteq Interned
    /\ Builtins \in Seq(Interned)
    /\ \A i, j \in DOMAIN Builtins : Builtins[i] = Builtins[j] => i = j

ASSUME BoundsAssumption ==
    /\ MaxFrames \in Nat /\ MaxHandlers \in Nat
    /\ MaxLocals \in Nat /\ MaxCode \in Nat /\ MaxParams \in Nat
    /\ MaxFunctions \in Nat /\ MaxLoops \in Nat

NoSlot == -1
NoFunction == -1
NoLoop == -1
NoGlobal == -1

-----------------------------------------------------------------------------
(* The data *)

Scope == [Name -> Nat \cup {NoSlot}]
EmptyScope == [n \in Name |-> NoSlot]

\* What a name denotes where it is written: a slot of a frame, by lexical
\* scoping alone.  History, for LexicalScoping; the code has no such table.
Binder == [frame : Nat, slot : Nat \cup {NoSlot}]
NoBinder == [frame |-> 0, slot |-> NoSlot]
Env == [Name -> Binder]
EmptyEnv == [n \in Name |-> NoBinder]

\* Where a capture takes its value from, in the frame that makes the closure.
Source == [kind : {"local", "capture"}, slot : Nat]
\* `origin`, the captured slot of the function that owns it, is history.
Capture == [src : Source, origin : Binder]

Instr ==
         [op : {"local", "capture", "global"}, slot : Nat, name : Name,
          binder : Binder]
    \cup [op : {"closure"}, fn : Nat, sources : Seq(Source)]
    \cup [op : {"let"}, slots : Seq(Nat)]
    \cup [op : {"loop"}, kind : {"range", "state"}, loop : Nat,
          slots : Seq(Nat), updates : Seq(Nat \cup {NoSlot}),
          within : SUBSET Nat]
    \cup [op : {"break"}, loop : Nat, within : SUBSET Nat]

\* A lower_let or lower_loop call in progress and how far it has come.  A loop
\* takes its id when its initializers or bounds are lowered.
Handler ==
    {h \in [kind : {"let", "range", "state"},
            at : {"init", "cond", "body", "next"},
            names : Seq(Name), slots : Seq(Nat),
            updates : Seq(Nat \cup {NoSlot}),
            loop : Nat \cup {NoLoop}, outer : Env] :
        h.kind # "let" /\ h.at # "init" => h.loop \in Nat}

Frame == [id : Nat \cup {NoFunction}, params : Nat, scopes : Seq(Scope),
          captures : Seq(Capture), nextLocal : Nat, loops : Seq(Nat),
          code : SUBSET Instr, handlers : Seq(Handler), outer : Env]

Function == [id : Nat, params : Nat, captureCount : Nat, localCount : Nat,
             code : SUBSET Instr]
\* The slot alloc_function_id reserves for a function still being lowered.
Pending == [id |-> NoFunction]

\* A capture being threaded: the frame that takes it next, what it takes.
Hop == [at : Nat, src : Source, origin : Binder, name : Name, binder : Binder]
NoHop == [at |-> 0]

VARIABLES
    registry,    \* GlobalRegistry: names by GlobalId
    module,      \* IrModule.functions
    nextLoopId,  \* FrontendSession.next_loop_id
    functions,   \* LowerContext.functions of the form being lowered
    nextLoop,    \* LowerContext.next_loop_id
    stack,       \* LowerContext.function_stack; empty between forms
    hop,         \* the position of LowerContext::resolve in its second loop
    target,      \* the GlobalId a `def` form will bind
    env,         \* history: the lexical environment at this point
    outcome      \* what became of the last form

session == <<registry, module, nextLoopId>>
context == <<functions, nextLoop, stack, hop, target, env>>
vars == <<session, context, outcome>>
-----------------------------------------------------------------------------
(* FunctionScope: one function's scopes, slots and loops *)

Top == Last(stack)
SetTop(frame) == [stack EXCEPT ![Len(stack)] = frame]
Lowering == stack # <<>> /\ hop = NoHop

\* Mutant of NewFrame: the loops of the enclosing function stay in reach.
NewFrameInLoops(id) ==
    [id |-> id, params |-> 0, scopes |-> <<EmptyScope>>, captures |-> <<>>,
     nextLocal |-> 0, loops |-> IF stack = <<>> THEN <<>> ELSE Top.loops,
     code |-> {}, handlers |-> <<>>, outer |-> env]

\* FunctionScope::new.
NewFrame(id) ==
    [id |-> id, params |-> 0, scopes |-> <<EmptyScope>>, captures |-> <<>>,
     nextLocal |-> 0, loops |-> <<>>, code |-> {}, handlers |-> <<>>,
     outer |-> env]

\* The slots the next declarations of `names` take.
FreshSlots(frame, names) == [i \in DOMAIN names |-> frame.nextLocal + i - 1]

\* The entry of the last declaration of n: inserting in a map overwrites.
LastEntry(names, entries, n) ==
    entries[CHOOSE i \in DOMAIN names :
              names[i] = n /\ \A j \in DOMAIN names : names[j] = n => j <= i]

\* FunctionScope::declare of each name in turn, in the innermost scope.
Declare(frame, names) ==
    [frame EXCEPT
        !.nextLocal = @ + Len(names),
        !.scopes = Append(Front(@),
            [n \in Name |-> IF n \in Range(names)
                            THEN LastEntry(names, FreshSlots(frame, names), n)
                            ELSE Last(@)[n]])]

PushScope(frame) == [frame EXCEPT !.scopes = Append(@, EmptyScope)]
PopScope(frame) == [frame EXCEPT !.scopes = Front(@)]

\* Mutant of ResolvesTo: the outermost scope that has n.
ResolvesToOuter(frame, n, slot) ==
    \E i \in DOMAIN frame.scopes :
        /\ slot # NoSlot
        /\ frame.scopes[i][n] = slot
        /\ \A j \in DOMAIN frame.scopes : j < i => frame.scopes[j][n] = NoSlot

\* FunctionScope::resolve_own finds `slot`: the innermost scope that has n.
ResolvesTo(frame, n, slot) ==
    \E i \in DOMAIN frame.scopes :
        /\ slot # NoSlot
        /\ frame.scopes[i][n] = slot
        /\ \A j \in DOMAIN frame.scopes : j > i => frame.scopes[j][n] = NoSlot

\* FunctionScope::resolve_own finds nothing.
Unresolved(frame, n) ==
    \A i \in DOMAIN frame.scopes : frame.scopes[i][n] = NoSlot

\* The lexical environment inside a form that binds `names` to `slots`.
Bound(names, slots, depth) ==
    [n \in Name |->
        IF n \in Range(names)
        THEN [frame |-> depth, slot |-> LastEntry(names, slots, n)]
        ELSE env[n]]

Emit(frame, instr) == [frame EXCEPT !.code = @ \cup {instr}]

\* The instructions of the session so far, for the bound MaxCode.
AllCode == UNION {f.code : f \in Range(module) \cup (Range(functions) \ {Pending})
                                 \cup Range(stack)}
FitsCode(instr) == Cardinality(AllCode \cup {instr}) <= MaxCode

\* The calls in progress that are in the body of their loop.
LoopBodies(handlers) ==
    {i \in DOMAIN handlers : handlers[i].kind # "let" /\ handlers[i].at = "body"}

\* The loops whose body this position is in, as the finished IR will nest it.
Within(frame) == {frame.handlers[i].loop : i \in LoopBodies(frame.handlers)}

\* The position admits a sub-expression: of a body, of a bound name's
\* initializer, of a condition, or of the value of a state still to update.
AtExpr ==
    /\ Lowering
    /\ Top.handlers # <<>> =>
         LET h == Last(Top.handlers) IN
           /\ h.at = "init" => h.names # <<>>
           /\ h.at = "next" => Len(h.updates) < Len(h.names)

-----------------------------------------------------------------------------
(* One top-level form *)

\* Mutant of Interning: no look at by_name first.
InterningAgain(n) == Append(registry, n)

\* GlobalRegistry::intern, and the id it answers.
Interning(n) == IF n \in Range(registry) THEN registry ELSE Append(registry, n)
GlobalId(reg, n) == (CHOOSE i \in DOMAIN reg : reg[i] = n) - 1

\* lower_top_level's expression case: a body with a frame of its own.
BeginExpr ==
    /\ stack = <<>>
    /\ stack' = <<NewFrame(NoFunction)>>
    /\ target' = NoGlobal
    /\ outcome' = "lowering"
    /\ UNCHANGED <<session, functions, nextLoop, hop, env>>

\* lower_def interns the name before it lowers the initializer.
BeginDef(n) ==
    /\ stack = <<>>
    /\ IF n \in Reserved
       THEN /\ outcome' = "failed"
            /\ UNCHANGED <<session, context>>
       ELSE /\ registry' = Interning(n)
            /\ target' = GlobalId(registry', n)
            /\ stack' = <<NewFrame(NoFunction)>>
            /\ outcome' = "lowering"
            /\ UNCHANGED <<module, nextLoopId, functions, nextLoop, hop, env>>

\* Mutant of DropContext: LowerContext::new instead of with_next_ids.
DropContextAndIds ==
    /\ stack' = <<>> /\ functions' = <<>> /\ nextLoop' = 0
    /\ hop' = NoHop /\ target' = NoGlobal /\ env' = EmptyEnv

\* The form's context is gone; the next one starts from the session's counters.
DropContext ==
    /\ stack' = <<>>
    /\ functions' = <<>>
    /\ nextLoop' = nextLoopId'
    /\ hop' = NoHop
    /\ target' = NoGlobal
    /\ env' = EmptyEnv

\* Mutant of Fail: the functions already finished are kept.
FailKeepingFunctions ==
    /\ outcome' = "failed"
    /\ module' = module \o SelectSeq(functions, LAMBDA f : f # Pending)
    /\ UNCHANGED <<registry, nextLoopId>>
    /\ DropContext

\* Any LowerError: what the context built is dropped.  Names stay interned.
Fail ==
    /\ outcome' = "failed"
    /\ UNCHANGED session
    /\ DropContext

\* A form of the wrong shape, `break` with two operands, a nested `def`, an
\* update of another name than the state in its place.
Malformed == Lowering /\ Fail

-----------------------------------------------------------------------------
(* lower_symbol and LowerContext::resolve *)

LoadOf(op, slot, n, binder) ==
    [op |-> op, slot |-> slot, name |-> n, binder |-> binder]

\* Bound in the function itself.
ResolveLocal(n) ==
    /\ AtExpr
    /\ \E slot \in 0..(Top.nextLocal - 1) :
         LET load == LoadOf("local", slot, n, env[n]) IN
           /\ ResolvesTo(Top, n, slot)
           /\ FitsCode(load)
           /\ stack' = SetTop(Emit(Top, load))
    /\ UNCHANGED <<session, functions, nextLoop, hop, target, env, outcome>>

\* Mutant of ResolveGlobal: a generated symbol is interned by its spelling.
ResolveGlobalByName(n) ==
    /\ AtExpr
    /\ \A d \in DOMAIN stack : Unresolved(stack[d], n)
    /\ registry' = Interning(n)
    /\ UNCHANGED <<module, nextLoopId, functions, nextLoop, stack, hop, target,
                   env, outcome>>

\* Bound in no function: a global, defined or not.  A generated symbol has no
\* global to fall back on.
ResolveGlobal(n) ==
    /\ AtExpr
    /\ \A d \in DOMAIN stack : Unresolved(stack[d], n)
    /\ IF n \in Generated
       THEN Fail
       ELSE LET reg == Interning(n)
                load == LoadOf("global", GlobalId(reg, n), n, env[n])
            IN /\ FitsCode(load)
               /\ registry' = reg
               /\ stack' = SetTop(Emit(Top, load))
               /\ UNCHANGED <<module, nextLoopId, functions, nextLoop, hop,
                              target, env, outcome>>

\* No function between d and the current one binds n.
Nearest(n, d) == \A e \in (d + 1)..(Len(stack) - 1) : Unresolved(stack[e], n)

\* Bound in an enclosing function d: the capture goes through every function
\* from d + 1 to the current one.
BeginCapture(n) ==
    /\ AtExpr
    /\ Unresolved(Top, n)
    /\ Cardinality(AllCode) < MaxCode
    /\ \E d \in 1..(Len(stack) - 1) :
         /\ Nearest(n, d)
         /\ \E slot \in 0..(stack[d].nextLocal - 1) :
              /\ ResolvesTo(stack[d], n, slot)
              /\ hop' = [at |-> d + 1,
                         src |-> [kind |-> "local", slot |-> slot],
                         origin |-> [frame |-> d, slot |-> slot],
                         name |-> n, binder |-> env[n]]
    /\ UNCHANGED <<session, functions, nextLoop, stack, target, env, outcome>>

\* Mutant of IsFor: one map for both, keyed by the slot number.
IsForSlot(capture, src) == capture.src.slot = src.slot

\* CaptureList's from_local and from_capture: the entry made for a source.
IsFor(capture, src) == capture.src = src

\* Mutant of CaptureIn: every reference takes a new slot.
CaptureInAgain(frame, src, origin) ==
    [frame EXCEPT !.captures = Append(@, [src |-> src, origin |-> origin])]

\* capture_local and capture_capture: the slot the source already has in this
\* function, or the next one.
CaptureIn(frame, src, origin) ==
    IF \E i \in DOMAIN frame.captures : IsFor(frame.captures[i], src)
    THEN frame
    ELSE [frame EXCEPT !.captures = Append(@, [src |-> src, origin |-> origin])]

\* Mutant of CarriedFrom: the next function takes it for a local.
CarriedAsLocal(i) == [kind |-> "local", slot |-> i - 1]

\* What the next function inwards captures: capture i of this one.
CarriedFrom(i) == [kind |-> "capture", slot |-> i - 1]

\* One turn of resolve's second loop.  The last one yields the load.
CaptureHop ==
    /\ hop # NoHop
    /\ LET frame == CaptureIn(stack[hop.at], hop.src, hop.origin) IN
       \E i \in DOMAIN frame.captures :
         /\ IsFor(frame.captures[i], hop.src)
         /\ IF hop.at = Len(stack)
            THEN /\ hop' = NoHop
                 /\ stack' = SetTop(Emit(frame,
                      LoadOf("capture", i - 1, hop.name, hop.binder)))
            ELSE /\ hop' = [hop EXCEPT
                      !.at = @ + 1,
                      !.src = CarriedFrom(i)]
                 /\ stack' = [stack EXCEPT ![hop.at] = frame]
    /\ UNCHANGED <<session, functions, nextLoop, target, env, outcome>>

-----------------------------------------------------------------------------
(* lower_fn *)

\* alloc_function_id reserves the slot before the body is lowered.
EnterFn(params) ==
    /\ AtExpr
    /\ Len(stack) < MaxFrames
    /\ Len(module) + Len(functions) < MaxFunctions
    /\ IF ~IsInjective(params)
       THEN Fail
       ELSE LET id == Len(module) + Len(functions)
                fresh == NewFrame(id)
            IN /\ functions' = Append(functions, Pending)
               /\ stack' = Append(stack,
                    [Declare(fresh, params) EXCEPT !.params = Len(params)])
               /\ env' = Bound(params, FreshSlots(fresh, params), Len(stack) + 1)
               /\ UNCHANGED <<session, nextLoop, hop, target, outcome>>

\* Mutant of PlaceOf: a push, in order of completion.
PlaceOfPush(id) ==
    CHOOSE i \in DOMAIN functions :
        functions[i] = Pending /\ \A j \in 1..(i - 1) : functions[j] # Pending

\* The slot alloc_function_id reserved for the function.
PlaceOf(id) == id - Len(module) + 1

\* place_function puts the function where its id says, whichever functions
\* finished before it; the enclosing function makes the closure.
ExitFn ==
    /\ AtExpr
    /\ Len(stack) > 1
    /\ Top.handlers = <<>>
    /\ LET closure == [op |-> "closure", fn |-> Top.id,
                       sources |-> [i \in DOMAIN Top.captures |->
                                       Top.captures[i].src]]
           outerFrame == Last(Front(stack))
       IN /\ FitsCode(closure)
          /\ functions' = [functions EXCEPT ![PlaceOf(Top.id)] =
               [id |-> Top.id, params |-> Top.params,
                captureCount |-> Len(Top.captures),
                localCount |-> Top.nextLocal, code |-> Top.code]]
          /\ stack' = [Front(stack) EXCEPT ![Len(stack) - 1] =
                          Emit(outerFrame, closure)]
    /\ env' = Top.outer
    /\ UNCHANGED <<session, nextLoop, hop, target, outcome>>

-----------------------------------------------------------------------------
(* lower_let, lower_range_loop, lower_general_loop, lower_break *)

Handling(kind, at) ==
    /\ Lowering
    /\ Top.handlers # <<>>
    /\ Last(Top.handlers).kind = kind
    /\ Last(Top.handlers).at = at

PushHandler(frame, h) == [frame EXCEPT !.handlers = Append(@, h)]
PopHandler(frame) == [frame EXCEPT !.handlers = Front(@)]
SetHandler(frame, h) == [frame EXCEPT !.handlers = Append(Front(@), h)]
PushLoop(frame, loop) == [frame EXCEPT !.loops = Append(@, loop)]
PopLoop(frame) == [frame EXCEPT !.loops = Front(@)]

\* The form starts; its initializers, or its bounds, are lowered outside it.
EnterForm(kind, names) ==
    /\ AtExpr
    /\ Len(Top.handlers) < MaxHandlers
    /\ stack' = SetTop(PushHandler(Top,
         [kind |-> kind, at |-> "init", names |-> names, slots |-> <<>>,
          updates |-> <<>>, loop |-> NoLoop, outer |-> env]))
    /\ UNCHANGED <<session, functions, nextLoop, hop, target, env, outcome>>

EnterLet == EnterForm("let", <<>>)
EnterRange(n) == EnterForm("range", <<n>>)
EnterState == EnterForm("state", <<>>)

\* Mutant of NextBinding: no check for a name bound twice.
NextBindingAgain(n) ==
    /\ Handling("let", "init") \/ Handling("state", "init")
    /\ LET h == Last(Top.handlers) IN
         /\ Top.nextLocal + Len(h.names) < MaxLocals
         /\ stack' = SetTop(SetHandler(Top, [h EXCEPT !.names = Append(@, n)]))
    /\ UNCHANGED <<session, functions, nextLoop, hop, target, env, outcome>>

\* The next binding of a let, or state of a loop.  Its name is not in scope yet.
NextBinding(n) ==
    /\ Handling("let", "init") \/ Handling("state", "init")
    /\ LET h == Last(Top.handlers) IN
         /\ Top.nextLocal + Len(h.names) < MaxLocals
         /\ IF n \in Range(h.names)
            THEN Fail
            ELSE /\ stack' = SetTop(SetHandler(Top,
                                [h EXCEPT !.names = Append(@, n)]))
                 /\ UNCHANGED <<session, functions, nextLoop, hop, target,
                                env, outcome>>

\* The form's own scope opens, with every name it binds; step `at` comes next.
OpenForm(frame, at, loop) ==
    LET h == Last(frame.handlers)
        slots == FreshSlots(frame, h.names)
    IN /\ frame.nextLocal + Len(h.names) <= MaxLocals
       /\ stack' = SetTop(SetHandler(Declare(PushScope(frame), h.names),
                     [h EXCEPT !.at = at, !.loop = loop, !.slots = slots]))
       /\ env' = Bound(h.names, slots, Len(stack))

LetBody ==
    /\ Handling("let", "init")
    /\ OpenForm(Top, "body", NoLoop)
    /\ UNCHANGED <<session, functions, nextLoop, hop, target, outcome>>

RangeBody ==
    /\ Handling("range", "init")
    /\ nextLoop < MaxLoops
    /\ nextLoop' = nextLoop + 1
    /\ OpenForm(PushLoop(Top, nextLoop), "body", nextLoop)
    /\ UNCHANGED <<session, functions, hop, target, outcome>>

\* The states are in scope of the condition, the loop is not on loop_stack.
StateCond ==
    /\ Handling("state", "init")
    /\ nextLoop < MaxLoops
    /\ nextLoop' = nextLoop + 1
    /\ OpenForm(Top, "cond", nextLoop)
    /\ UNCHANGED <<session, functions, hop, target, outcome>>

StateBody ==
    /\ Handling("state", "cond")
    /\ LET h == Last(Top.handlers) IN
         stack' = SetTop(SetHandler(PushLoop(Top, h.loop),
                           [h EXCEPT !.at = "body"]))
    /\ UNCHANGED <<session, functions, nextLoop, hop, target, env, outcome>>

\* Mutant of StateNext: the updates are lowered with the loop still pushed.
StateNextInLoop ==
    /\ Handling("state", "body")
    /\ LET h == Last(Top.handlers) IN
         stack' = SetTop(SetHandler(Top, [h EXCEPT !.at = "next"]))
    /\ UNCHANGED <<session, functions, nextLoop, hop, target, env, outcome>>

StateNext ==
    /\ Handling("state", "body")
    /\ LET h == Last(Top.handlers) IN
         stack' = SetTop(SetHandler(PopLoop(Top), [h EXCEPT !.at = "next"]))
    /\ UNCHANGED <<session, functions, nextLoop, hop, target, env, outcome>>

\* The value of the next state is lowered; its target is found by its name.
StateUpdate ==
    /\ Handling("state", "next")
    /\ LET h == Last(Top.handlers)
           scope == Last(Top.scopes)
       IN /\ Len(h.updates) < Len(h.names)
          /\ stack' = SetTop(SetHandler(Top, [h EXCEPT
               !.updates = Append(@, scope[h.names[Len(h.updates) + 1]])]))
    /\ UNCHANGED <<session, functions, nextLoop, hop, target, env, outcome>>

\* The form returns: its scope closes and its instruction is complete.
CloseForm(frame, instr) ==
    /\ FitsCode(instr)
    /\ stack' = SetTop(Emit(PopHandler(PopScope(frame)), instr))
    /\ env' = Last(frame.handlers).outer
    /\ UNCHANGED <<session, functions, nextLoop, hop, target, outcome>>

LoopOf(frame) ==
    LET h == Last(frame.handlers) IN
    [op |-> "loop", kind |-> h.kind, loop |-> h.loop, slots |-> h.slots,
     updates |-> h.updates, within |-> Within(PopHandler(frame))]

LetExit ==
    /\ Handling("let", "body")
    /\ CloseForm(Top, [op |-> "let", slots |-> Last(Top.handlers).slots])

RangeExit ==
    /\ Handling("range", "body")
    /\ CloseForm(PopLoop(Top), LoopOf(Top))

StateExit ==
    /\ Handling("state", "next")
    /\ Len(Last(Top.handlers).updates) = Len(Last(Top.handlers).names)
    /\ CloseForm(Top, LoopOf(Top))

\* break takes the innermost loop of this function, before its operand.
Break ==
    /\ AtExpr
    /\ IF Top.loops = <<>>
       THEN Fail
       ELSE LET instr == [op |-> "break", loop |-> Last(Top.loops),
                          within |-> Within(Top)]
            IN /\ FitsCode(instr)
               /\ stack' = SetTop(Emit(Top, instr))
               /\ UNCHANGED <<session, functions, nextLoop, hop, target, env,
                              outcome>>

-----------------------------------------------------------------------------
(* The verifier *)

InModule(fn, mod) == fn \in 0..(Len(mod) - 1)

VerifiedInstr(i, locals, captures, mod, reg) ==
    CASE i.op = "local" -> i.slot < locals
      [] i.op = "capture" -> i.slot < captures
      [] i.op = "global" -> i.slot < Len(reg)
      [] i.op = "closure" ->
            /\ InModule(i.fn, mod)
            /\ mod[i.fn + 1].captureCount = Len(i.sources)
            /\ \A s \in Range(i.sources) :
                  s.slot < IF s.kind = "local" THEN locals ELSE captures
      [] i.op = "let" -> \A s \in Range(i.slots) : s < locals
      [] i.op = "loop" ->
            /\ i.loop \notin i.within
            /\ \A s \in Range(i.slots) : s < locals
            /\ i.kind = "state" => /\ Len(i.updates) = Len(i.slots)
                                   /\ Range(i.updates) = Range(i.slots)
      [] i.op = "break" -> i.loop \in i.within

VerifiedFunction(f, mod, reg) ==
    /\ f.params <= f.localCount
    /\ \A i \in f.code :
          VerifiedInstr(i, f.localCount, f.captureCount, mod, reg)

\* verify_top_level, then verify_function on each function just added.
Verified(body, added, mod, reg, glob) ==
    /\ glob < Len(reg)
    /\ \A i \in body.code : VerifiedInstr(i, body.nextLocal, 0, mod, reg)
    /\ \A f \in Range(added) : VerifiedFunction(f, mod, reg)

\* The form is lowered: the loop counter is fed back, the new functions are
\* appended, and they are truncated again if the verifier refuses the result.
Finish ==
    /\ Lowering
    /\ Len(stack) = 1
    /\ Top.handlers = <<>>
    /\ registry' = registry
    /\ nextLoopId' = nextLoop
    /\ IF Verified(Top, functions, module \o functions, registry, target)
       THEN module' = module \o functions /\ outcome' = "committed"
       ELSE module' = module /\ outcome' = "rejected"
    /\ DropContext

-----------------------------------------------------------------------------

Init ==
    /\ registry = Builtins
    /\ module = <<>>
    /\ nextLoopId = 0
    /\ functions = <<>>
    /\ nextLoop = 0
    /\ stack = <<>>
    /\ hop = NoHop
    /\ target = NoGlobal
    /\ env = EmptyEnv
    /\ outcome = "none"

Next ==
    \/ BeginExpr
    \/ \E n \in Interned : BeginDef(n)
    \/ \E n \in Name : \/ ResolveLocal(n)
                       \/ ResolveGlobal(n)
                       \/ BeginCapture(n)
                       \/ EnterRange(n)
                       \/ NextBinding(n)
    \/ CaptureHop
    \/ \E params \in BoundedSeq(Name, MaxParams) : EnterFn(params)
    \/ ExitFn
    \/ EnterLet \/ LetBody \/ LetExit
    \/ RangeBody \/ RangeExit
    \/ EnterState \/ StateCond \/ StateBody \/ StateNext
    \/ StateUpdate \/ StateExit
    \/ Break
    \/ Malformed
    \/ Finish

Spec == Init /\ [][Next]_vars

-----------------------------------------------------------------------------
(* Properties *)

\* The type invariant.
TypeOK ==
    /\ registry \in Seq(Interned)
    /\ module \in Seq(Function)
    /\ nextLoopId \in Nat
    /\ functions \in Seq(Function \cup {Pending})
    /\ nextLoop \in Nat
    /\ stack \in Seq(Frame)
    /\ hop \in Hop \cup {NoHop}
    /\ target \in Nat \cup {NoGlobal}
    /\ env \in Env
    /\ outcome \in {"none", "lowering", "committed", "failed", "rejected"}

\* The function table agrees with the ids given out: a committed function is at
\* the index of its id, the form's functions continue from there, and what is
\* still pending is exactly what is on the stack.  Functions finish innermost
\* first, so their order of completion is not the order of their ids.
FunctionTable ==
    /\ \A i \in DOMAIN module : module[i].id = i - 1
    /\ \A i \in DOMAIN functions :
          \/ functions[i] = Pending
          \/ functions[i].id = Len(module) + i - 1
    /\ {i \in DOMAIN functions : functions[i] = Pending}
         = {stack[d].id - Len(module) + 1 : d \in 2..Len(stack)}

\* In the function of frame d, `src` is a way to the variable `origin`.
Leads(d, src, origin) ==
    /\ d > 1
    /\ IF src.kind = "local"
       THEN origin = [frame |-> d - 1, slot |-> src.slot]
       ELSE /\ src.slot < Len(stack[d - 1].captures)
            /\ origin = stack[d - 1].captures[src.slot + 1].origin

\* A capture leads to the variable it was made for: its source, followed
\* through the functions in between, ends at that function's slot.  The slots
\* of locals and of captures are numbered apart and must not be confused.
CaptureChain ==
    \A d \in DOMAIN stack : \A i \in DOMAIN stack[d].captures :
        LET c == stack[d].captures[i] IN Leads(d, c.src, c.origin)

\* "referencing the same outer local twice reuses one capture slot instead of
\* allocating a duplicate" (capture.rs), also through functions in between.
NoDuplicateCaptures ==
    \A d \in DOMAIN stack : \A i, j \in DOMAIN stack[d].captures :
        stack[d].captures[i].origin = stack[d].captures[j].origin => i = j

\* Every reference denotes the variable that lexical scoping gives its name
\* where it is written: shadowing, parallel binding, closures and generated
\* symbols included.  It is a global, under its own name, only when nothing
\* binds it.
LexicalScoping ==
    \A d \in DOMAIN stack : \A i \in stack[d].code :
        CASE i.op = "local" -> i.binder = [frame |-> d, slot |-> i.slot]
          [] i.op = "capture" ->
                i.binder = stack[d].captures[i.slot + 1].origin
          [] i.op = "global" -> /\ i.binder = NoBinder
                                /\ registry[i.slot + 1] = i.name
          [] OTHER -> TRUE

\* "The lowerer should always produce IR that passes this check" (verify.rs):
\* no form is rejected after it was lowered.
VerifierAccepts == outcome # "rejected"

\* The forms whose scope is open: past their initializers.
OpenForms(handlers) == {i \in DOMAIN handlers : handlers[i].at # "init"}

ScopesBalanced(frame) ==
    Len(frame.scopes) = Cardinality(OpenForms(frame.handlers)) + 1

\* `loops` are the loops whose body this is, the outermost first.
LoopsFollow(loops, handlers) ==
    LET bodies == LoopBodies(handlers)
    IN /\ Len(loops) = Cardinality(bodies)
       /\ \A i \in bodies :
             loops[Cardinality({j \in bodies : j <= i})] = handlers[i].loop

\* A function's scopes and loops are those of the forms it is inside of, so an
\* early return of one form leaves no scope or break target behind.
BalancedControl ==
    \A d \in DOMAIN stack :
        /\ ScopesBalanced(stack[d])
        /\ LoopsFollow(stack[d].loops, stack[d].handlers)

\* The loops of one function: finished ones and those being lowered.
LoopsIn(code) == {i.loop : i \in {j \in code : j.op = "loop"}}
OpenLoops(frame) ==
    {h.loop : h \in {x \in Range(frame.handlers) : x.loop # NoLoop}}
KeptLoops(f) == IF f = Pending THEN {} ELSE LoopsIn(f.code)
FrameLoops(frame) == LoopsIn(frame.code) \cup OpenLoops(frame)

\* One id, one loop: among the finished loops, and among all of a frame.
FinishedApart(code) ==
    \A i, j \in code :
        i.op = "loop" /\ j.op = "loop" /\ i.loop = j.loop => i = j
LoopsApart(frame) ==
    /\ FinishedApart(frame.code)
    /\ LoopsIn(frame.code) \cap OpenLoops(frame) = {}
    /\ \A i, j \in DOMAIN frame.handlers :
          frame.handlers[i].loop = frame.handlers[j].loop
            => i = j \/ frame.handlers[i].loop = NoLoop

\* "loop IDs stay unique across the whole session" (lower.rs): no two loops of
\* the functions kept, or of the form being lowered, have the same id.
UniqueLoopIds ==
    LET done == module \o functions
        ids == [i \in 1..(Len(done) + Len(stack)) |->
                  IF i <= Len(done) THEN KeptLoops(done[i])
                  ELSE FrameLoops(stack[i - Len(done)])]
    IN /\ \A i, j \in DOMAIN ids : i # j => ids[i] \cap ids[j] = {}
       /\ \A i \in DOMAIN done : done[i] = Pending \/ FinishedApart(done[i].code)
       /\ \A d \in DOMAIN stack : LoopsApart(stack[d])

\* A GlobalId means the same name for ever: registered names are distinct and
\* a step only appends, whether or not the form it belongs to fails later.
RegistryStable == [][IsPrefix(registry, registry') /\ IsInjective(registry')]_vars

\* FunctionIds stay valid: a step never changes or drops a committed function,
\* and a form that fails or is rejected adds none ("leaves the module exactly
\* as it was", interpreter.rs).
ModuleStable ==
    [][/\ IsPrefix(module, module')
       /\ outcome' \in {"failed", "rejected"} => module' = module]_vars

\* The session implements FormStore: whatever happens while a form is lowered,
\* names, functions and loop ids are kept as the host may rely on, and a form
\* that was lowered is committed whole.
Store == INSTANCE FormStore WITH
    names <- registry,
    committed <- [i \in DOMAIN module |->
                     [id |-> module[i].id, loops |-> LoopsIn(module[i].code)]],
    counter <- nextLoopId,
    open <- stack # <<>>,
    result <- outcome

Stored == Store!Spec

-----------------------------------------------------------------------------
(* The inductive invariant behind FunctionTable and the capture properties *)

\* Function ids grow towards the top of the stack, and only the top-level body
\* has none.
StackIds ==
    /\ stack # <<>> => stack[1].id = NoFunction
    /\ \A d \in 2..Len(stack) : stack[d].id \in Nat
    /\ \A d, e \in 2..Len(stack) : d < e => stack[d].id < stack[e].id

\* A capture is of a variable of a function further out.
OriginsOutside ==
    \A d \in DOMAIN stack : \A i \in DOMAIN stack[d].captures :
        stack[d].captures[i].origin.frame < d

\* The capture being threaded has come from its variable.
HopLeads ==
    hop # NoHop => /\ hop.at \in 2..Len(stack)
                   /\ hop.origin.frame < hop.at
                   /\ Leads(hop.at, hop.src, hop.origin)

\* No form binds a name twice.
DistinctNames(frame) ==
    \A i \in DOMAIN frame.handlers : IsInjective(frame.handlers[i].names)

Inv ==
    /\ TypeOK
    /\ \A d \in DOMAIN stack : ScopesBalanced(stack[d]) /\ DistinctNames(stack[d])
    /\ stack = <<>> => functions = <<>>
    /\ IsInjective(registry)
    /\ FunctionTable
    /\ StackIds
    /\ CaptureChain
    /\ NoDuplicateCaptures
    /\ OriginsOutside
    /\ HopLeads
=============================================================================
