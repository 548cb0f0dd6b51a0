--------------------------- MODULE LoweringProofs ---------------------------
(***************************************************************************)
(* Theorems about Lowering, for every value of its constants: its types,   *)
(* the ids of functions, and the code it emits, in three parts.            *)
(*                                                                         *)
(* Loops: loop_stack follows the forms in progress, a loop id is never     *)
(* used for two loops of a session, a break is inside the loop it names    *)
(* and no loop is inside itself.                                           *)
(*                                                                         *)
(* Scopes: at every moment the scopes of the frames, looked through from   *)
(* the innermost one on, are the lexical environment, and so each local,   *)
(* capture and global the lowerer emits is the variable its name denotes   *)
(* where it is written.                                                    *)
(*                                                                         *)
(* Verification: "The lowerer should always produce IR that passes this    *)
(* check" (verify.rs).  What is emitted is in range of the function it is  *)
(* emitted into and stays so while that function and the session's tables  *)
(* grow, so the verifier never rejects a form that was lowered.            *)
(***************************************************************************)
EXTENDS Lowering, SequenceLemmas, FiniteSetTheorems

-----------------------------------------------------------------------------
(* Stacks of frames and handlers *)

\* Replacing the top of the stack leaves the frames below it alone.
LEMMA SetTopFacts ==
    ASSUME stack \in Seq(Frame), stack # <<>>, NEW F \in Frame
    PROVE  /\ SetTop(F) \in Seq(Frame)
           /\ Len(SetTop(F)) = Len(stack)
           /\ SetTop(F)[Len(stack)] = F
           /\ \A d \in 1..(Len(stack) - 1) : SetTop(F)[d] = stack[d]
  BY DEF SetTop

\* The number of open forms follows the handlers like a counter.
LEMMA OpenFormsAppend ==
    ASSUME NEW hs \in Seq(Handler), NEW h \in Handler
    PROVE  /\ IsFiniteSet(OpenForms(hs))
           /\ Cardinality(OpenForms(hs)) \in Nat
           /\ Cardinality(OpenForms(Append(hs, h))) =
                Cardinality(OpenForms(hs)) + (IF h.at = "init" THEN 0 ELSE 1)
  <1>1. IsFiniteSet(OpenForms(hs))
    <2>1. OpenForms(hs) \subseteq 1..Len(hs) BY DEF OpenForms
    <2>2. IsFiniteSet(1..Len(hs)) BY FS_Interval
    <2> QED BY <2>1, <2>2, FS_Subset
  <1>2. Cardinality(OpenForms(hs)) \in Nat BY <1>1, FS_CardinalityType
  <1>3. CASE h.at = "init"
    <2>1. OpenForms(Append(hs, h)) = OpenForms(hs) BY <1>3 DEF OpenForms
    <2> QED BY <1>1, <1>2, <1>3, <2>1
  <1>4. CASE h.at # "init"
    <2>1. OpenForms(Append(hs, h)) = OpenForms(hs) \cup {Len(hs) + 1}
      BY <1>4 DEF OpenForms
    <2>2. Len(hs) + 1 \notin OpenForms(hs) BY DEF OpenForms
    <2>3. Cardinality(OpenForms(hs) \cup {Len(hs) + 1})
            = Cardinality(OpenForms(hs)) + 1
      BY <1>1, <2>2, FS_AddElement
    <2> QED BY <1>1, <1>2, <1>4, <2>1, <2>3
  <1> QED BY <1>1, <1>2, <1>3, <1>4

LEMMA OpenFormsTop ==
    ASSUME NEW hs \in Seq(Handler), hs # <<>>
    PROVE  /\ Cardinality(OpenForms(Front(hs))) \in Nat
           /\ Cardinality(OpenForms(hs)) =
                Cardinality(OpenForms(Front(hs)))
                  + (IF Last(hs).at = "init" THEN 0 ELSE 1)
  <1>1. /\ Front(hs) \in Seq(Handler) /\ Last(hs) \in Handler
        /\ hs = Append(Front(hs), Last(hs))
    BY DEF Front, Last
  <1> QED BY <1>1, OpenFormsAppend

-----------------------------------------------------------------------------
(* The steps' building blocks keep the types *)

LEMMA LastEntryType ==
    ASSUME NEW names \in Seq(Name), IsInjective(names),
           NEW slots \in Seq(Nat), Len(slots) = Len(names),
           NEW n \in Range(names)
    PROVE  LastEntry(names, slots, n) \in Nat
  <1>1. PICK i \in DOMAIN names : names[i] = n BY DEF Range
  <1>2. \A j \in DOMAIN names : names[j] = n => j = i
    BY <1>1 DEF IsInjective
  <1>3. \A j \in DOMAIN names : names[j] = n => j <= i BY <1>1, <1>2
  <1>4. (CHOOSE k \in DOMAIN names :
           names[k] = n /\ \A j \in DOMAIN names : names[j] = n => j <= k)
         \in DOMAIN names
    BY <1>1, <1>3
  <1>5. DOMAIN names = DOMAIN slots OBVIOUS
  <1> QED BY <1>4, <1>5 DEF LastEntry

LEMMA FreshSlotsType ==
    ASSUME NEW f \in Frame, NEW names \in Seq(Name)
    PROVE  /\ FreshSlots(f, names) \in Seq(Nat)
           /\ Len(FreshSlots(f, names)) = Len(names)
  <1>1. f.nextLocal \in Nat BY DEF Frame
  <1> QED BY <1>1 DEF FreshSlots

LEMMA BoundType ==
    ASSUME NEW names \in Seq(Name), IsInjective(names),
           NEW slots \in Seq(Nat), Len(slots) = Len(names),
           NEW depth \in Nat, env \in Env
    PROVE  Bound(names, slots, depth) \in Env
  <1>1. ASSUME NEW n \in Range(names)
        PROVE  [frame |-> depth, slot |-> LastEntry(names, slots, n)] \in Binder
    BY LastEntryType DEF Binder
  <1> QED BY <1>1 DEF Bound, Env

LEMMA NewFrameType ==
    ASSUME NEW id \in Nat \cup {NoFunction}, env \in Env
    PROVE  /\ NewFrame(id) \in Frame
           /\ ScopesBalanced(NewFrame(id))
           /\ DistinctNames(NewFrame(id))
  <1>1. EmptyScope \in Scope BY DEF EmptyScope, Scope, NoSlot
  <1>2. OpenForms(<<>>) = {} BY DEF OpenForms
  <1>3. Cardinality({}) = 0 BY FS_EmptySet
  <1>4. NewFrame(id) \in Frame BY <1>1 DEF NewFrame, Frame
  <1>5. ScopesBalanced(NewFrame(id))
    <2>1. /\ NewFrame(id).scopes = <<EmptyScope>>
          /\ NewFrame(id).handlers = <<>>
      BY Zenon DEF NewFrame
    <2>2. Len(<<EmptyScope>>) = 1 OBVIOUS
    <2>3. Len(NewFrame(id).scopes) = 1 BY <2>1, <2>2, Zenon
    <2>4. Cardinality(OpenForms(NewFrame(id).handlers)) = 0
      BY <1>2, <1>3, <2>1, Zenon
    <2> QED BY <2>3, <2>4 DEF ScopesBalanced
  <1>6. DistinctNames(NewFrame(id)) BY DEF NewFrame, DistinctNames
  <1> QED BY <1>4, <1>5, <1>6

\* Declaring names in the innermost scope.
LEMMA DeclareType ==
    ASSUME NEW f \in Frame, f.scopes # <<>>,
           NEW names \in Seq(Name), IsInjective(names)
    PROVE  /\ Declare(f, names) \in Frame
           /\ Len(Declare(f, names).scopes) = Len(f.scopes)
           /\ Declare(f, names).handlers = f.handlers
           /\ Declare(f, names).captures = f.captures
           /\ Declare(f, names).id = f.id
  <1> DEFINE slots == FreshSlots(f, names)
             scope == [n \in Name |-> IF n \in Range(names)
                                      THEN LastEntry(names, slots, n)
                                      ELSE Last(f.scopes)[n]]
  <1>1. f.scopes \in Seq(Scope) /\ f.nextLocal \in Nat BY DEF Frame
  <1>2. /\ Front(f.scopes) \in Seq(Scope) /\ Last(f.scopes) \in Scope
        /\ Len(Front(f.scopes)) = Len(f.scopes) - 1
    BY <1>1, FrontLast
  <1>3. scope \in Scope
    <2>1. \A n \in Range(names) : LastEntry(names, slots, n) \in Nat
      BY FreshSlotsType, LastEntryType
    <2> QED BY <1>2, <2>1 DEF Scope
  <1>4. Append(Front(f.scopes), scope) \in Seq(Scope)
    BY <1>2, <1>3
  <1>5. Len(Append(Front(f.scopes), scope)) = Len(f.scopes)
    BY <1>1, <1>2
  <1>6. f.nextLocal + Len(names) \in Nat BY <1>1
  <1>7. Declare(f, names) = [f EXCEPT !.nextLocal = @ + Len(names),
                                      !.scopes = Append(Front(@), scope)]
    BY DEF Declare
  <1> HIDE DEF scope
  <1> QED BY <1>4, <1>5, <1>6, <1>7 DEF Frame

\* A frame as the invariant wants it.
FrameOK(f) == f \in Frame /\ ScopesBalanced(f) /\ DistinctNames(f)

LEMMA EmitOK ==
    ASSUME NEW f, FrameOK(f), NEW i \in Instr
    PROVE  /\ FrameOK(Emit(f, i))
           /\ Emit(f, i).id = f.id
           /\ Emit(f, i).captures = f.captures
           /\ Emit(f, i).handlers = f.handlers
           /\ Emit(f, i).scopes = f.scopes
  <1>1. f \in Frame BY DEF FrameOK
  <1>2. f.code \cup {i} \subseteq Instr BY <1>1 DEF Frame
  <1>3. Emit(f, i) \in Frame BY <1>1, <1>2 DEF Emit, Frame
  <1>4. /\ Emit(f, i).id = f.id
        /\ Emit(f, i).captures = f.captures
        /\ Emit(f, i).handlers = f.handlers
        /\ Emit(f, i).scopes = f.scopes
    BY <1>1 DEF Emit, Frame
  <1> QED BY <1>3, <1>4 DEF FrameOK, ScopesBalanced, DistinctNames

LEMMA PushLoopOK ==
    ASSUME NEW f, FrameOK(f), NEW loop \in Nat
    PROVE  /\ FrameOK(PushLoop(f, loop))
           /\ PushLoop(f, loop).id = f.id
           /\ PushLoop(f, loop).captures = f.captures
           /\ PushLoop(f, loop).handlers = f.handlers
           /\ PushLoop(f, loop).scopes = f.scopes
  <1>1. f \in Frame BY DEF FrameOK
  <1>2. Append(f.loops, loop) \in Seq(Nat) BY <1>1 DEF Frame
  <1>3. PushLoop(f, loop) \in Frame BY <1>1, <1>2 DEF PushLoop, Frame
  <1>4. /\ PushLoop(f, loop).id = f.id
        /\ PushLoop(f, loop).captures = f.captures
        /\ PushLoop(f, loop).handlers = f.handlers
        /\ PushLoop(f, loop).scopes = f.scopes
    BY <1>1 DEF PushLoop, Frame
  <1> QED BY <1>3, <1>4 DEF FrameOK, ScopesBalanced, DistinctNames

LEMMA PopLoopOK ==
    ASSUME NEW f, FrameOK(f)
    PROVE  /\ FrameOK(PopLoop(f))
           /\ PopLoop(f).id = f.id
           /\ PopLoop(f).captures = f.captures
           /\ PopLoop(f).handlers = f.handlers
           /\ PopLoop(f).scopes = f.scopes
  <1>1. f \in Frame BY DEF FrameOK
  <1>2. Front(f.loops) \in Seq(Nat) BY <1>1 DEF Frame, Front
  <1>3. PopLoop(f) \in Frame BY <1>1, <1>2 DEF PopLoop, Frame
  <1>4. /\ PopLoop(f).id = f.id
        /\ PopLoop(f).captures = f.captures
        /\ PopLoop(f).handlers = f.handlers
        /\ PopLoop(f).scopes = f.scopes
    BY <1>1 DEF PopLoop, Frame
  <1> QED BY <1>3, <1>4 DEF FrameOK, ScopesBalanced, DistinctNames

\* A form starts: its scope is not open yet.
LEMMA PushHandlerOK ==
    ASSUME NEW f, FrameOK(f), NEW h \in Handler, h.at = "init",
           IsInjective(h.names)
    PROVE  /\ FrameOK(PushHandler(f, h))
           /\ PushHandler(f, h).id = f.id
           /\ PushHandler(f, h).captures = f.captures
  <1> DEFINE g == PushHandler(f, h)
  <1>1. f \in Frame /\ f.handlers \in Seq(Handler) BY DEF FrameOK, Frame
  <1>2. g \in Frame
    <2>1. Append(f.handlers, h) \in Seq(Handler) BY <1>1
    <2> QED BY <1>1, <2>1 DEF PushHandler, Frame
  <1>3. /\ g.id = f.id /\ g.captures = f.captures /\ g.scopes = f.scopes
        /\ g.handlers = Append(f.handlers, h)
    BY <1>1 DEF PushHandler, Frame
  <1>4. ScopesBalanced(g)
    BY <1>1, <1>3, OpenFormsAppend DEF FrameOK, ScopesBalanced
  <1>5. DistinctNames(g)
    BY <1>1, <1>3 DEF FrameOK, DistinctNames
  <1> QED BY <1>2, <1>3, <1>4, <1>5 DEF FrameOK

\* The form in progress changes: its scope opens when a scope is pushed, and
\* is as open as before otherwise.
LEMMA SetHandlerOK ==
    ASSUME NEW f \in Frame, DistinctNames(f), f.handlers # <<>>,
           NEW h \in Handler, IsInjective(h.names),
           Len(f.scopes) = Cardinality(OpenForms(Front(f.handlers))) + 1
                             + (IF h.at = "init" THEN 0 ELSE 1)
    PROVE  /\ FrameOK(SetHandler(f, h))
           /\ SetHandler(f, h).id = f.id
           /\ SetHandler(f, h).captures = f.captures
  <1> DEFINE g == SetHandler(f, h)
  <1>1. f.handlers \in Seq(Handler) BY DEF Frame
  <1>2. /\ Front(f.handlers) \in Seq(Handler)
        /\ Len(Front(f.handlers)) = Len(f.handlers) - 1
        /\ \A i \in 1..(Len(f.handlers) - 1) :
              Front(f.handlers)[i] = f.handlers[i]
    BY <1>1, FrontLast
  <1>3. Append(Front(f.handlers), h) \in Seq(Handler) BY <1>2
  <1>4. g \in Frame BY <1>3 DEF SetHandler, Frame
  <1>5. /\ g.id = f.id /\ g.captures = f.captures /\ g.scopes = f.scopes
        /\ g.handlers = Append(Front(f.handlers), h)
    BY DEF SetHandler, Frame
  <1>6. ScopesBalanced(g)
    BY <1>2, <1>5, OpenFormsAppend DEF ScopesBalanced
  <1>7. DistinctNames(g)
    BY <1>1, <1>2, <1>5 DEF DistinctNames
  <1> QED BY <1>4, <1>5, <1>6, <1>7 DEF FrameOK

\* A form returns: its scope goes with it.
LEMMA CloseOK ==
    ASSUME NEW f, FrameOK(f), f.handlers # <<>>,
           Last(f.handlers).at # "init"
    PROVE  /\ FrameOK(PopHandler(PopScope(f)))
           /\ PopHandler(PopScope(f)).id = f.id
           /\ PopHandler(PopScope(f)).captures = f.captures
  <1> DEFINE g == PopHandler(PopScope(f))
  <1>1. f \in Frame /\ f.handlers \in Seq(Handler) /\ f.scopes \in Seq(Scope)
    BY DEF FrameOK, Frame
  <1>2. /\ Front(f.handlers) \in Seq(Handler)
        /\ Len(Front(f.handlers)) = Len(f.handlers) - 1
        /\ \A i \in 1..(Len(f.handlers) - 1) :
              Front(f.handlers)[i] = f.handlers[i]
    BY <1>1, FrontLast
  <1>3. /\ Cardinality(OpenForms(Front(f.handlers))) \in Nat
        /\ Len(f.scopes) = Cardinality(OpenForms(Front(f.handlers))) + 2
    BY <1>1, OpenFormsTop DEF FrameOK, ScopesBalanced
  <1>4. f.scopes # <<>> BY <1>1, <1>3
  <1>5. /\ Front(f.scopes) \in Seq(Scope)
        /\ Len(Front(f.scopes)) = Len(f.scopes) - 1
    BY <1>1, <1>4, FrontLast
  <1>6. g \in Frame BY <1>1, <1>2, <1>5 DEF PopHandler, PopScope, Frame
  <1>7. /\ g.id = f.id /\ g.captures = f.captures
        /\ g.scopes = Front(f.scopes) /\ g.handlers = Front(f.handlers)
    BY <1>1 DEF PopHandler, PopScope, Frame
  <1>8. ScopesBalanced(g) BY <1>3, <1>5, <1>7 DEF ScopesBalanced
  <1>9. DistinctNames(g)
    BY <1>1, <1>2, <1>7 DEF FrameOK, DistinctNames
  <1> QED BY <1>6, <1>7, <1>8, <1>9 DEF FrameOK

-----------------------------------------------------------------------------
(* Steps that change the current function only *)

\* What a step of the current function may change, the rest being as before.
LEMMA TopStep ==
    ASSUME Inv, stack # <<>>, hop' = hop,
           NEW F, FrameOK(F), F.id = Top.id, F.captures = Top.captures,
           stack' = SetTop(F),
           UNCHANGED <<module, functions, nextLoopId, target>>,
           registry' \in Seq(Interned), IsInjective(registry'),
           nextLoop' \in Nat, env' \in Env, outcome' = outcome
    PROVE  Inv'
  <1> DEFINE n == Len(stack)
  <1>1. /\ stack \in Seq(Frame) /\ n \in Nat /\ n > 0 /\ F \in Frame
        /\ DOMAIN stack = 1..n /\ Top = stack[n]
    BY DEF Inv, TypeOK, FrameOK, Top, Last
  <1>2. /\ stack' \in Seq(Frame) /\ Len(stack') = n /\ DOMAIN stack' = 1..n
        /\ stack'[n] = F
        /\ \A d \in 1..(n - 1) : stack'[d] = stack[d]
    BY <1>1, SetTopFacts
  <1>3. \A d \in 1..n : /\ stack'[d].id = stack[d].id
                        /\ stack'[d].captures = stack[d].captures
    BY <1>1, <1>2
  <1> HIDE DEF n
  <1>4. TypeOK' BY <1>2 DEF Inv, TypeOK
  <1>5. \A d \in DOMAIN stack' :
            ScopesBalanced(stack'[d]) /\ DistinctNames(stack'[d])
    BY <1>1, <1>2 DEF Inv, FrameOK
  <1>6. FunctionTable'
    BY <1>1, <1>2, <1>3 DEF Inv, FunctionTable, n
  <1>7. StackIds'
    BY <1>1, <1>2, <1>3 DEF Inv, StackIds, n
  <1>8. \A d \in 1..n, src \in Source, origin \in Binder :
            Leads(d, src, origin) => Leads(d, src, origin)'
    BY <1>1, <1>2, <1>3 DEF Leads
  <1>9. CaptureChain'
    <2> SUFFICES ASSUME NEW d \in DOMAIN stack',
                        NEW i \in DOMAIN stack'[d].captures
                 PROVE  Leads(d, stack[d].captures[i].src,
                                 stack[d].captures[i].origin)'
      BY DEF CaptureChain
    <2>1. d \in 1..n /\ i \in DOMAIN stack[d].captures
      BY <1>2, <1>3
    <2>2. stack[d].captures \in Seq(Capture)
      <3>1. stack[d] \in Frame BY <1>1, <2>1
      <3> QED BY <3>1 DEF Frame
    <2>3. stack[d].captures[i] \in Capture BY <2>1, <2>2
    <2>4. Leads(d, stack[d].captures[i].src, stack[d].captures[i].origin)
      BY <1>1, <2>1 DEF Inv, CaptureChain
    <2> DEFINE c == stack[d].captures[i]
    <2>5. c.src \in Source /\ c.origin \in Binder BY <2>3 DEF Capture
    <2>6. c.src' = c.src /\ c.origin' = c.origin BY <1>3, <2>1
    <2> HIDE DEF c
    <2>7. Leads(d, c.src, c.origin)' BY <1>8, <2>1, <2>4, <2>5, <2>6 DEF c
    <2> QED BY <2>7 DEF c
  <1>10. NoDuplicateCaptures'
    BY <1>1, <1>2, <1>3 DEF Inv, NoDuplicateCaptures
  <1>11. OriginsOutside'
    BY <1>1, <1>2, <1>3 DEF Inv, OriginsOutside
  <1>12. HopLeads'
    <2>1. CASE hop = NoHop BY <2>1 DEF HopLeads
    <2>2. CASE hop # NoHop
      <3>1. hop \in Hop BY <2>2 DEF Inv, TypeOK
      <3>2. /\ hop.at \in 1..n /\ Leads(hop.at, hop.src, hop.origin)
            /\ hop.at \in 2..n /\ hop.origin.frame < hop.at
        BY <1>1, <2>2 DEF Inv, HopLeads, n
      <3>3. Leads(hop.at, hop.src, hop.origin)' 
        BY <1>8, <3>1, <3>2 DEF Hop
      <3> QED BY <1>2, <3>2, <3>3 DEF HopLeads
    <2> QED BY <2>1, <2>2
  <1> QED
    BY <1>1, <1>2, <1>4, <1>5, <1>6, <1>7, <1>9, <1>10, <1>11, <1>12 DEF Inv

\* What Inv says of the top of the stack.
LEMMA TopFacts ==
    ASSUME Inv, stack # <<>>
    PROVE  /\ FrameOK(Top) /\ Top \in Frame
           /\ Len(stack) \in Nat \ {0}
           /\ Top = stack[Len(stack)]
           /\ env \in Env /\ nextLoop \in Nat
           /\ Top.handlers \in Seq(Handler)
           /\ Top.handlers # <<>> =>
                /\ Last(Top.handlers) \in Handler
                /\ IsInjective(Last(Top.handlers).names)
                /\ Cardinality(OpenForms(Front(Top.handlers))) \in Nat
                /\ Len(Top.scopes) =
                     Cardinality(OpenForms(Front(Top.handlers))) + 1
                       + (IF Last(Top.handlers).at = "init" THEN 0 ELSE 1)
  <1>1. /\ stack \in Seq(Frame) /\ Len(stack) \in Nat \ {0}
        /\ Len(stack) \in DOMAIN stack
    BY DEF Inv, TypeOK
  <1>2. Top = stack[Len(stack)] /\ Top \in Frame
    BY <1>1 DEF Top, Last
  <1>3. FrameOK(Top) BY <1>1, <1>2 DEF Inv, FrameOK
  <1>4. Top.handlers \in Seq(Handler) /\ Top.scopes \in Seq(Scope)
    BY <1>2 DEF Frame
  <1>5. env \in Env /\ nextLoop \in Nat BY DEF Inv, TypeOK
  <1>6. ASSUME Top.handlers # <<>>
        PROVE  /\ Last(Top.handlers) \in Handler
               /\ IsInjective(Last(Top.handlers).names)
               /\ Cardinality(OpenForms(Front(Top.handlers))) \in Nat
               /\ Len(Top.scopes) =
                     Cardinality(OpenForms(Front(Top.handlers))) + 1
                       + (IF Last(Top.handlers).at = "init" THEN 0 ELSE 1)
    <2>1. /\ Last(Top.handlers) \in Handler
          /\ Last(Top.handlers) = Top.handlers[Len(Top.handlers)]
          /\ Len(Top.handlers) \in DOMAIN Top.handlers
      BY <1>4, <1>6, FrontLast
    <2>2. IsInjective(Last(Top.handlers).names)
      BY <1>3, <2>1 DEF FrameOK, DistinctNames
    <2>3. /\ Cardinality(OpenForms(Front(Top.handlers))) \in Nat
          /\ Cardinality(OpenForms(Top.handlers)) =
               Cardinality(OpenForms(Front(Top.handlers)))
                 + (IF Last(Top.handlers).at = "init" THEN 0 ELSE 1)
      BY <1>4, <1>6, OpenFormsTop
    <2>4. Len(Top.scopes) = Cardinality(OpenForms(Top.handlers)) + 1
      BY <1>3 DEF FrameOK, ScopesBalanced
    <2> QED BY <2>1, <2>2, <2>3, <2>4
  <1> QED BY <1>1, <1>2, <1>3, <1>4, <1>5, <1>6

LEMMA HandlerFields ==
    ASSUME NEW h \in Handler
    PROVE  /\ h.kind \in {"let", "range", "state"}
           /\ h.at \in {"init", "cond", "body", "next"}
           /\ h.names \in Seq(Name) /\ h.slots \in Seq(Nat)
           /\ h.updates \in Seq(Nat \cup {NoSlot})
           /\ h.loop \in Nat \cup {NoLoop} /\ h.outer \in Env
           /\ h.kind # "let" /\ h.at # "init" => h.loop \in Nat
  BY DEF Handler

\* A step of a function that leaves the session as it was.
LEMMA LocalStep ==
    ASSUME Inv, stack # <<>>, NEW F, FrameOK(F), F.id = Top.id,
           F.captures = Top.captures, stack' = SetTop(F),
           UNCHANGED <<session, functions, hop, target, outcome>>,
           nextLoop' \in Nat, env' \in Env
    PROVE  Inv'
  <1>1. registry \in Seq(Interned) /\ IsInjective(registry)
    BY DEF Inv, TypeOK
  <1> QED BY <1>1, TopStep DEF session

LEMMA InterningOK ==
    ASSUME registry \in Seq(Interned), IsInjective(registry), NEW n \in Interned
    PROVE  /\ Interning(n) \in Seq(Interned)
           /\ IsInjective(Interning(n))
           /\ GlobalId(Interning(n), n) \in Nat
  <1>1. CASE n \in Range(registry)
    <2>1. Interning(n) = registry BY <1>1 DEF Interning
    <2>2. PICK i \in DOMAIN registry : registry[i] = n BY <1>1 DEF Range
    <2>3. (CHOOSE k \in DOMAIN registry : registry[k] = n) \in 1..Len(registry)
      BY <2>2
    <2> QED BY <2>1, <2>3 DEF GlobalId
  <1>2. CASE n \notin Range(registry)
    <2> DEFINE reg == Append(registry, n)
    <2>1. Interning(n) = reg BY <1>2 DEF Interning
    <2>2. \A i \in DOMAIN registry : registry[i] # n BY <1>2 DEF Range
    <2>3. reg \in Seq(Interned) /\ IsInjective(reg) BY <2>2 DEF IsInjective
    <2>4. (CHOOSE k \in DOMAIN reg : reg[k] = n) \in 1..Len(reg)
      <3>1. Len(reg) \in DOMAIN reg /\ reg[Len(reg)] = n OBVIOUS
      <3>2. DOMAIN reg = 1..Len(reg) OBVIOUS
      <3> QED BY <3>1, <3>2
    <2> QED BY <2>1, <2>3, <2>4 DEF GlobalId
  <1> QED BY <1>1, <1>2

LEMMA LoadType ==
    ASSUME NEW op \in {"local", "capture", "global"}, NEW slot \in Nat,
           NEW n \in Name, NEW binder \in Binder
    PROVE  LoadOf(op, slot, n, binder) \in Instr
  BY DEF LoadOf, Instr

\* The loops around a position have their ids.
LEMMA WithinType ==
    ASSUME NEW f \in Frame
    PROVE  Within(f) \subseteq Nat
  <1>1. f.handlers \in Seq(Handler) BY DEF Frame
  <1>2. ASSUME NEW j \in DOMAIN f.handlers, f.handlers[j].kind # "let",
               f.handlers[j].at = "body"
        PROVE  f.handlers[j].loop \in Nat
    BY <1>1, <1>2, HandlerFields
  <1> QED BY <1>2 DEF Within, LoopBodies

-----------------------------------------------------------------------------
(* The steps of lower_symbol, lower_let, lower_loop and lower_break *)

LEMMA ResolveLocalStep ==
    ASSUME Inv, NEW n \in Name, ResolveLocal(n)
    PROVE  Inv'
  <1>1. stack # <<>> BY DEF ResolveLocal, AtExpr, Lowering
  <1>2. PICK slot \in 0..(Top.nextLocal - 1) :
           stack' = SetTop(Emit(Top, LoadOf("local", slot, n, env[n])))
    BY DEF ResolveLocal
  <1>3. FrameOK(Top) /\ env[n] \in Binder /\ slot \in Nat
    <2>1. Top.nextLocal \in Nat BY <1>1, TopFacts DEF Frame
    <2> QED BY <1>1, <2>1, TopFacts DEF Env
  <1>4. LoadOf("local", slot, n, env[n]) \in Instr BY <1>3, LoadType
  <1> QED
    BY <1>1, <1>2, <1>3, <1>4, EmitOK, LocalStep, TopFacts
    DEF ResolveLocal, session

LEMMA ResolveGlobalStep ==
    ASSUME Inv, NEW n \in Interned, ~(n \in Generated), ResolveGlobal(n)
    PROVE  Inv'
  <1> DEFINE load == LoadOf("global", GlobalId(Interning(n), n), n, env[n])
  <1>1. stack # <<>> BY DEF ResolveGlobal, AtExpr, Lowering
  <1>2. /\ stack' = SetTop(Emit(Top, load))
        /\ registry' = Interning(n)
        /\ UNCHANGED <<module, nextLoopId, functions, nextLoop, hop, target,
                       env, outcome>>
    BY DEF ResolveGlobal
  <1>3. registry \in Seq(Interned) /\ IsInjective(registry)
    BY DEF Inv, TypeOK
  <1>4. /\ registry' \in Seq(Interned) /\ IsInjective(registry')
        /\ GlobalId(Interning(n), n) \in Nat
    BY <1>2, <1>3, InterningOK
  <1>5. FrameOK(Top) /\ env[n] \in Binder /\ n \in Name
    BY <1>1, TopFacts DEF Env, Name
  <1>6. load \in Instr BY <1>4, <1>5, LoadType
  <1> HIDE DEF load
  <1> QED BY <1>1, <1>2, <1>4, <1>5, <1>6, EmitOK, TopStep, TopFacts

LEMMA EnterFormStep ==
    ASSUME Inv, NEW kind \in {"let", "range", "state"}, NEW names \in Seq(Name),
           IsInjective(names), EnterForm(kind, names)
    PROVE  Inv'
  <1> DEFINE h == [kind |-> kind, at |-> "init", names |-> names,
                   slots |-> <<>>, updates |-> <<>>, loop |-> NoLoop,
                   outer |-> env]
  <1>1. stack # <<>> BY DEF EnterForm, AtExpr, Lowering
  <1>2. /\ stack' = SetTop(PushHandler(Top, h))
        /\ UNCHANGED <<session, functions, nextLoop, hop, target, env, outcome>>
    BY DEF EnterForm
  <1>3. h \in Handler BY <1>1, TopFacts DEF Handler
  <1>4. h.at = "init" /\ IsInjective(h.names) OBVIOUS
  <1> HIDE DEF h
  <1> QED BY <1>1, <1>2, <1>3, <1>4, PushHandlerOK, LocalStep, TopFacts

LEMMA NextBindingStep ==
    ASSUME Inv, NEW n \in Name, NextBinding(n),
           n \notin Range(Last(Top.handlers).names)
    PROVE  Inv'
  <1> DEFINE h == Last(Top.handlers)
             g == [h EXCEPT !.names = Append(@, n)]
  <1>1. stack # <<>> /\ Top.handlers # <<>> /\ h.at = "init"
    BY DEF NextBinding, Handling, Lowering
  <1>2. /\ stack' = SetTop(SetHandler(Top, g))
        /\ UNCHANGED <<session, functions, nextLoop, hop, target, env, outcome>>
    BY DEF NextBinding
  <1>3. h \in Handler /\ h.names \in Seq(Name) /\ IsInjective(h.names)
    BY <1>1, TopFacts, HandlerFields
  <1>4. IsInjective(Append(h.names, n)) /\ Append(h.names, n) \in Seq(Name)
    BY <1>3, DistinctAppend
  <1>5. g \in Handler /\ g.at = "init" /\ IsInjective(g.names)
    BY <1>1, <1>3, <1>4 DEF Handler
  <1>6. Len(Top.scopes) = Cardinality(OpenForms(Front(Top.handlers))) + 1
    BY <1>1, TopFacts
  <1>7. Top \in Frame /\ DistinctNames(Top) BY <1>1, TopFacts DEF FrameOK
  <1> HIDE DEF h, g
  <1>8. /\ FrameOK(SetHandler(Top, g)) /\ SetHandler(Top, g).id = Top.id
        /\ SetHandler(Top, g).captures = Top.captures
    <2>1. Cardinality(OpenForms(Front(Top.handlers))) \in Nat
      BY <1>1, TopFacts
    <2> QED BY <1>1, <1>5, <1>6, <1>7, <2>1, SetHandlerOK
  <1> QED BY <1>1, <1>2, <1>8, LocalStep, TopFacts

\* The scope of a form opens.
LEMMA OpenFormStep ==
    ASSUME Inv, stack # <<>>, NEW f, FrameOK(f), f.id = Top.id,
           f.captures = Top.captures, f.handlers = Top.handlers,
           f.handlers # <<>>, Last(f.handlers).at = "init",
           NEW at \in {"cond", "body"}, NEW loop \in Nat \cup {NoLoop},
           Last(f.handlers).kind # "let" => loop \in Nat,
           OpenForm(f, at, loop),
           UNCHANGED <<session, functions, hop, target, outcome>>,
           nextLoop' \in Nat
    PROVE  Inv'
  <1> DEFINE h == Last(f.handlers)
             slots == FreshSlots(f, h.names)
             g == [h EXCEPT !.at = at, !.loop = loop, !.slots = slots]
             pushed == PushScope(f)
             declared == Declare(pushed, h.names)
  <1>1. f \in Frame /\ f.handlers \in Seq(Handler) /\ f.scopes \in Seq(Scope)
    BY DEF FrameOK, Frame
  <1>2. h \in Handler /\ h.names \in Seq(Name) /\ IsInjective(h.names)
    BY TopFacts, HandlerFields
  <1>3. slots \in Seq(Nat) /\ Len(slots) = Len(h.names)
    BY <1>1, <1>2, FreshSlotsType
  <1>4. stack' = SetTop(SetHandler(declared, g))
        /\ env' = Bound(h.names, slots, Len(stack))
    BY DEF OpenForm
  <1>5. env' \in Env
    <2>1. Len(stack) \in Nat /\ env \in Env BY TopFacts
    <2> HIDE DEF slots, h
    <2> QED BY <1>2, <1>3, <1>4, <2>1, BoundType
  <1>6. /\ pushed \in Frame /\ pushed.scopes # <<>>
        /\ Len(pushed.scopes) = Len(f.scopes) + 1
        /\ pushed.handlers = f.handlers /\ pushed.id = f.id
        /\ pushed.captures = f.captures
    <2>1. EmptyScope \in Scope BY DEF EmptyScope, Scope, NoSlot
    <2> DEFINE more == Append(f.scopes, EmptyScope)
    <2>2. more \in Seq(Scope) /\ Len(more) = Len(f.scopes) + 1
      BY <1>1, <2>1
    <2>3. more # <<>>
      <3>1. Len(more) # 0 BY <1>1, <2>2
      <3> HIDE DEF more
      <3> QED BY <2>2, <3>1
    <2>4. pushed \in Frame BY <1>1, <2>2 DEF PushScope, Frame
    <2>5. /\ pushed.scopes = Append(f.scopes, EmptyScope)
          /\ pushed.handlers = f.handlers /\ pushed.id = f.id
          /\ pushed.captures = f.captures
      BY <1>1 DEF PushScope, Frame
    <2> QED BY <2>2, <2>3, <2>4, <2>5
  <1> HIDE DEF pushed
  <1>7. /\ declared \in Frame /\ declared.handlers = f.handlers
        /\ Len(declared.scopes) = Len(f.scopes) + 1
        /\ declared.id = f.id /\ declared.captures = f.captures
    BY <1>2, <1>6, DeclareType
  <1>8. g \in Handler /\ g.at # "init" /\ IsInjective(g.names)
    BY <1>2, <1>3 DEF Handler
  <1> HIDE DEF h, slots, g, declared
  <1>9. /\ FrameOK(SetHandler(declared, g))
        /\ SetHandler(declared, g).id = Top.id
        /\ SetHandler(declared, g).captures = Top.captures
    <2>1. DistinctNames(declared) BY <1>7 DEF FrameOK, DistinctNames
    <2>2. /\ Cardinality(OpenForms(Front(f.handlers))) \in Nat
          /\ Len(f.scopes) = Cardinality(OpenForms(Front(f.handlers))) + 1
      BY <1>1, OpenFormsTop DEF FrameOK, ScopesBalanced
    <2>3. Len(declared.scopes) =
            Cardinality(OpenForms(Front(declared.handlers))) + 1 + 1
      BY <1>7, <2>2
    <2> QED BY <1>7, <1>8, <2>1, <2>3, SetHandlerOK
  <1> QED BY <1>4, <1>5, <1>9, LocalStep

LEMMA LetBodyStep == ASSUME Inv, LetBody PROVE Inv'
  <1>1. /\ stack # <<>> /\ Top.handlers # <<>>
        /\ Last(Top.handlers).kind = "let" /\ Last(Top.handlers).at = "init"
        /\ OpenForm(Top, "body", NoLoop)
        /\ UNCHANGED <<session, functions, hop, target, outcome>>
        /\ nextLoop' = nextLoop
    BY DEF LetBody, Handling, Lowering
  <1> QED BY <1>1, TopFacts, OpenFormStep

LEMMA RangeBodyStep == ASSUME Inv, RangeBody PROVE Inv'
  <1> DEFINE f == PushLoop(Top, nextLoop)
  <1>1. /\ stack # <<>> /\ Top.handlers # <<>>
        /\ Last(Top.handlers).at = "init"
        /\ OpenForm(f, "body", nextLoop)
        /\ UNCHANGED <<session, functions, hop, target, outcome>>
        /\ nextLoop' = nextLoop + 1
    BY DEF RangeBody, Handling, Lowering
  <1>2. /\ FrameOK(f) /\ f.id = Top.id /\ f.captures = Top.captures
        /\ f.handlers = Top.handlers
    BY <1>1, TopFacts, PushLoopOK
  <1>3. nextLoop \in Nat /\ nextLoop' \in Nat BY <1>1, TopFacts
  <1> HIDE DEF f
  <1> QED BY <1>1, <1>2, <1>3, OpenFormStep

LEMMA StateCondStep == ASSUME Inv, StateCond PROVE Inv'
  <1>1. /\ stack # <<>> /\ Top.handlers # <<>>
        /\ Last(Top.handlers).at = "init"
        /\ OpenForm(Top, "cond", nextLoop)
        /\ UNCHANGED <<session, functions, hop, target, outcome>>
        /\ nextLoop' = nextLoop + 1
    BY DEF StateCond, Handling, Lowering
  <1>2. nextLoop \in Nat /\ nextLoop' \in Nat BY <1>1, TopFacts
  <1> QED BY <1>1, <1>2, TopFacts, OpenFormStep

\* The form in progress moves on with its scope open all along.
LEMMA AdvanceStep ==
    ASSUME Inv, stack # <<>>, NEW f, FrameOK(f), f.id = Top.id,
           f.captures = Top.captures, f.handlers = Top.handlers,
           f.scopes = Top.scopes,
           Top.handlers # <<>>, Last(Top.handlers).at # "init",
           NEW h \in Handler, h.at # "init",
           h.names = Last(Top.handlers).names,
           stack' = SetTop(SetHandler(f, h)),
           UNCHANGED <<session, functions, nextLoop, hop, target, env, outcome>>
    PROVE  Inv'
  <1>1. f \in Frame /\ DistinctNames(f) BY DEF FrameOK
  <1>2. /\ Cardinality(OpenForms(Front(f.handlers))) \in Nat
        /\ Len(f.scopes) = Cardinality(OpenForms(Front(f.handlers))) + 1 + 1
        /\ IsInjective(h.names)
    BY TopFacts
  <1>3. /\ FrameOK(SetHandler(f, h)) /\ SetHandler(f, h).id = Top.id
        /\ SetHandler(f, h).captures = Top.captures
    BY <1>1, <1>2, SetHandlerOK
  <1> QED BY <1>3, LocalStep, TopFacts

LEMMA StateBodyStep == ASSUME Inv, StateBody PROVE Inv'
  <1> DEFINE h == Last(Top.handlers)
             f == PushLoop(Top, h.loop)
             g == [h EXCEPT !.at = "body"]
  <1>1. /\ stack # <<>> /\ Top.handlers # <<>>
        /\ h.kind = "state" /\ h.at = "cond"
        /\ stack' = SetTop(SetHandler(f, g))
        /\ UNCHANGED <<session, functions, nextLoop, hop, target, env, outcome>>
    BY DEF StateBody, Handling, Lowering
  <1>2. h \in Handler /\ h.loop \in Nat BY <1>1, TopFacts, HandlerFields
  <1>3. g \in Handler /\ g.at # "init" /\ g.names = h.names
    BY <1>2 DEF Handler
  <1>4. /\ FrameOK(f) /\ f.id = Top.id /\ f.captures = Top.captures
        /\ f.handlers = Top.handlers /\ f.scopes = Top.scopes
    BY <1>1, <1>2, TopFacts, PushLoopOK
  <1>5. h.at # "init" BY <1>1
  <1> HIDE DEF f, g
  <1> QED BY <1>1, <1>3, <1>4, <1>5, AdvanceStep

LEMMA StateNextStep == ASSUME Inv, StateNext PROVE Inv'
  <1> DEFINE h == Last(Top.handlers)
             f == PopLoop(Top)
             g == [h EXCEPT !.at = "next"]
  <1>1. /\ stack # <<>> /\ Top.handlers # <<>>
        /\ h.kind = "state" /\ h.at = "body"
        /\ stack' = SetTop(SetHandler(f, g))
        /\ UNCHANGED <<session, functions, nextLoop, hop, target, env, outcome>>
    BY DEF StateNext, Handling, Lowering
  <1>2. h \in Handler /\ h.loop \in Nat BY <1>1, TopFacts, HandlerFields
  <1>3. g \in Handler /\ g.at # "init" /\ g.names = h.names
    BY <1>2 DEF Handler
  <1>4. /\ FrameOK(f) /\ f.id = Top.id /\ f.captures = Top.captures
        /\ f.handlers = Top.handlers /\ f.scopes = Top.scopes
    BY <1>1, TopFacts, PopLoopOK
  <1>5. h.at # "init" BY <1>1
  <1> HIDE DEF f, g
  <1> QED BY <1>1, <1>3, <1>4, <1>5, AdvanceStep

LEMMA StateUpdateStep == ASSUME Inv, StateUpdate PROVE Inv'
  <1> DEFINE h == Last(Top.handlers)
             slot == Last(Top.scopes)[h.names[Len(h.updates) + 1]]
             g == [h EXCEPT !.updates = Append(@, slot)]
  <1>1. /\ stack # <<>> /\ Top.handlers # <<>>
        /\ h.kind = "state" /\ h.at = "next"
        /\ Len(h.updates) < Len(h.names)
        /\ stack' = SetTop(SetHandler(Top, g))
        /\ UNCHANGED <<session, functions, nextLoop, hop, target, env, outcome>>
    BY DEF StateUpdate, Handling, Lowering
  <1>2. /\ h \in Handler /\ h.names \in Seq(Name)
        /\ h.updates \in Seq(Nat \cup {NoSlot})
    BY <1>1, TopFacts, HandlerFields
  <1>3. slot \in Nat \cup {NoSlot}
    <2>1. h.names[Len(h.updates) + 1] \in Name BY <1>1, <1>2
    <2>2. Top.scopes \in Seq(Scope) /\ Top.scopes # <<>>
      <3>1. Top.scopes \in Seq(Scope) BY <1>1, TopFacts DEF Frame
      <3>2. Len(Top.scopes) # 0 BY <1>1, TopFacts
      <3> QED BY <3>1, <3>2
    <2>3. Last(Top.scopes) \in Scope BY <2>2, FrontLast
    <2> QED BY <2>1, <2>3 DEF Scope
  <1>4. Append(h.updates, slot) \in Seq(Nat \cup {NoSlot}) BY <1>2, <1>3
  <1>5. g \in Handler /\ g.at # "init" /\ g.names = h.names
    BY <1>1, <1>2, <1>4 DEF Handler
  <1>6. h.at # "init" BY <1>1
  <1> HIDE DEF g
  <1> QED BY <1>1, <1>5, <1>6, TopFacts, AdvanceStep

\* A form returns to the function it is in.
LEMMA CloseFormStep ==
    ASSUME Inv, stack # <<>>, NEW f, FrameOK(f), f.id = Top.id,
           f.captures = Top.captures, f.handlers = Top.handlers,
           Top.handlers # <<>>, Last(Top.handlers).at # "init",
           NEW i \in Instr, CloseForm(f, i)
    PROVE  Inv'
  <1> DEFINE g == PopHandler(PopScope(f))
  <1>1. /\ stack' = SetTop(Emit(g, i))
        /\ env' = Last(Top.handlers).outer
        /\ UNCHANGED <<session, functions, nextLoop, hop, target, outcome>>
    BY DEF CloseForm
  <1>2. FrameOK(g) /\ g.id = Top.id /\ g.captures = Top.captures
    BY CloseOK
  <1>3. env' \in Env BY <1>1, TopFacts, HandlerFields
  <1> HIDE DEF g
  <1>4. /\ FrameOK(Emit(g, i)) /\ Emit(g, i).id = Top.id
        /\ Emit(g, i).captures = Top.captures
    BY <1>2, EmitOK
  <1> QED BY <1>1, <1>3, <1>4, LocalStep, TopFacts

LEMMA LoopOfType ==
    ASSUME NEW f \in Frame, f.handlers # <<>>,
           Last(f.handlers).kind \in {"range", "state"},
           Last(f.handlers).at # "init"
    PROVE  LoopOf(f) \in Instr
  <1> DEFINE h == Last(f.handlers)
  <1>1. f.handlers \in Seq(Handler) BY DEF Frame
  <1>2. h \in Handler /\ Front(f.handlers) \in Seq(Handler)
    BY <1>1, FrontLast
  <1>3. /\ h.loop \in Nat /\ h.slots \in Seq(Nat)
        /\ h.updates \in Seq(Nat \cup {NoSlot})
    BY <1>2, HandlerFields
  <1>4. PopHandler(f) \in Frame BY <1>2 DEF PopHandler, Frame
  <1>5. Within(PopHandler(f)) \subseteq Nat BY <1>4, WithinType
  <1> HIDE DEF h
  <1> QED BY <1>3, <1>5 DEF LoopOf, Instr, h

LEMMA LetExitStep == ASSUME Inv, LetExit PROVE Inv'
  <1> DEFINE i == [op |-> "let", slots |-> Last(Top.handlers).slots]
  <1>1. /\ stack # <<>> /\ Top.handlers # <<>>
        /\ Last(Top.handlers).at # "init"
        /\ CloseForm(Top, i)
    BY DEF LetExit, Handling, Lowering
  <1>2. Last(Top.handlers).slots \in Seq(Nat)
    BY <1>1, TopFacts, HandlerFields
  <1>3. i \in Instr BY <1>2 DEF Instr
  <1> HIDE DEF i
  <1> QED BY <1>1, <1>3, TopFacts, CloseFormStep

LEMMA RangeExitStep == ASSUME Inv, RangeExit PROVE Inv'
  <1> DEFINE f == PopLoop(Top)
  <1>1. /\ stack # <<>> /\ Top.handlers # <<>>
        /\ Last(Top.handlers).kind = "range"
        /\ Last(Top.handlers).at # "init"
        /\ CloseForm(f, LoopOf(Top))
    BY DEF RangeExit, Handling, Lowering
  <1>2. LoopOf(Top) \in Instr BY <1>1, TopFacts, LoopOfType
  <1>3. /\ FrameOK(f) /\ f.id = Top.id /\ f.captures = Top.captures
        /\ f.handlers = Top.handlers
    BY <1>1, TopFacts, PopLoopOK
  <1> HIDE DEF f
  <1> QED BY <1>1, <1>2, <1>3, CloseFormStep

LEMMA StateExitStep == ASSUME Inv, StateExit PROVE Inv'
  <1>1. /\ stack # <<>> /\ Top.handlers # <<>>
        /\ Last(Top.handlers).kind = "state"
        /\ Last(Top.handlers).at # "init"
        /\ CloseForm(Top, LoopOf(Top))
    BY DEF StateExit, Handling, Lowering
  <1>2. LoopOf(Top) \in Instr BY <1>1, TopFacts, LoopOfType
  <1> QED BY <1>1, <1>2, TopFacts, CloseFormStep

LEMMA BreakStep == ASSUME Inv, Break, Top.loops # <<>> PROVE Inv'
  <1> DEFINE i == [op |-> "break", loop |-> Last(Top.loops),
                   within |-> Within(Top)]
  <1>1. /\ stack # <<>>
        /\ stack' = SetTop(Emit(Top, i))
        /\ UNCHANGED <<session, functions, nextLoop, hop, target, env, outcome>>
    BY DEF Break, AtExpr, Lowering
  <1>2. Last(Top.loops) \in Nat
    <2>1. Top.loops \in Seq(Nat) BY <1>1, TopFacts DEF Frame
    <2> QED BY <2>1, FrontLast
  <1>3. Within(Top) \subseteq Nat BY <1>1, TopFacts, WithinType
  <1>4. i \in Instr BY <1>2, <1>3 DEF Instr
  <1> HIDE DEF i
  <1>5. /\ FrameOK(Emit(Top, i)) /\ Emit(Top, i).id = Top.id
        /\ Emit(Top, i).captures = Top.captures
    BY <1>1, <1>4, TopFacts, EmitOK
  <1> QED BY <1>1, <1>5, LocalStep, TopFacts

-----------------------------------------------------------------------------
(* The steps that begin and end a form *)

\* Whatever ends a form, the context is empty after it.
LEMMA DropStep ==
    ASSUME DropContext,
           registry' \in Seq(Interned), IsInjective(registry'),
           module' \in Seq(Function),
           \A i \in DOMAIN module' : module'[i].id = i - 1,
           nextLoopId' \in Nat,
           outcome' \in {"none", "lowering", "committed", "failed", "rejected"}
    PROVE  Inv'
  <1>1. /\ stack' = <<>> /\ functions' = <<>> /\ nextLoop' = nextLoopId'
        /\ hop' = NoHop /\ target' = NoGlobal /\ env' = EmptyEnv
    BY DEF DropContext
  <1>2. EmptyEnv \in Env BY DEF EmptyEnv, Env, NoBinder, Binder, NoSlot
  <1>3. TypeOK' BY <1>1, <1>2 DEF TypeOK
  <1>4. FunctionTable'
    <2>1. {i \in DOMAIN functions' : functions'[i] = Pending} = {}
      BY <1>1
    <2>2. {stack'[d].id - Len(module') + 1 : d \in 2..Len(stack')} = {}
      BY <1>1
    <2> QED BY <1>1, <2>1, <2>2 DEF FunctionTable
  <1>5. StackIds' BY <1>1 DEF StackIds
  <1>6. /\ CaptureChain' /\ NoDuplicateCaptures' /\ OriginsOutside' /\ HopLeads'
    BY <1>1 DEF CaptureChain, NoDuplicateCaptures, OriginsOutside, HopLeads
  <1> QED BY <1>1, <1>3, <1>4, <1>5, <1>6 DEF Inv

LEMMA FailStep == ASSUME Inv, Fail PROVE Inv'
  <1>1. /\ registry \in Seq(Interned) /\ IsInjective(registry)
        /\ module \in Seq(Function) /\ nextLoopId \in Nat
        /\ \A i \in DOMAIN module : module[i].id = i - 1
    BY DEF Inv, TypeOK, FunctionTable
  <1> QED BY <1>1, DropStep DEF Fail, session

\* A form begins with a body of its own.
LEMMA BeginStep ==
    ASSUME Inv, stack = <<>>, stack' = <<NewFrame(NoFunction)>>,
           registry' \in Seq(Interned), IsInjective(registry'),
           target' \in Nat \cup {NoGlobal}, outcome' = "lowering",
           UNCHANGED <<module, nextLoopId, functions, nextLoop, hop, env>>
    PROVE  Inv'
  <1> DEFINE f == NewFrame(NoFunction)
  <1>1. env \in Env /\ functions = <<>> BY DEF Inv, TypeOK
  <1>2. f \in Frame /\ ScopesBalanced(f) /\ DistinctNames(f)
    BY <1>1, NewFrameType
  <1>3. f.captures = <<>> /\ f.id = NoFunction BY DEF NewFrame
  <1> HIDE DEF f
  <1>4. /\ stack' \in Seq(Frame) /\ Len(stack') = 1 /\ DOMAIN stack' = {1}
        /\ stack'[1] = f /\ stack' # <<>>
    BY <1>2 DEF f
  <1>5. TypeOK' BY <1>4 DEF Inv, TypeOK
  <1>6. FunctionTable'
    <2>1. {i \in DOMAIN functions' : functions'[i] = Pending} = {}
      BY <1>1
    <2>2. 2..Len(stack') = {} BY <1>4
    <2>3. {stack'[d].id - Len(module') + 1 : d \in 2..Len(stack')} = {}
      BY <2>2
    <2> QED BY <1>1, <2>1, <2>3 DEF Inv, FunctionTable
  <1>7. StackIds' BY <1>3, <1>4 DEF StackIds
  <1>8. CaptureChain' /\ NoDuplicateCaptures' /\ OriginsOutside'
    BY <1>3, <1>4 DEF CaptureChain, NoDuplicateCaptures, OriginsOutside
  <1>9. HopLeads' BY DEF Inv, HopLeads
  <1>10. \A d \in DOMAIN stack' :
            ScopesBalanced(stack'[d]) /\ DistinctNames(stack'[d])
    BY <1>2, <1>4
  <1> QED BY <1>4, <1>5, <1>6, <1>7, <1>8, <1>9, <1>10 DEF Inv

LEMMA BeginExprStep == ASSUME Inv, BeginExpr PROVE Inv'
  <1>1. registry \in Seq(Interned) /\ IsInjective(registry)
    BY DEF Inv, TypeOK
  <1> QED BY <1>1, BeginStep DEF BeginExpr, session

LEMMA BeginDefStep == ASSUME Inv, NEW n \in Interned, BeginDef(n) PROVE Inv'
  <1>1. registry \in Seq(Interned) /\ IsInjective(registry)
    BY DEF Inv, TypeOK
  <1>2. CASE n \in Reserved
    <2>1. outcome' = "failed" /\ UNCHANGED <<session, context>>
      BY <1>2 DEF BeginDef
    <2>2. TypeOK' BY <2>1 DEF Inv, TypeOK, session, context
    <2>3. /\ FunctionTable' /\ StackIds' /\ CaptureChain'
          /\ NoDuplicateCaptures' /\ OriginsOutside' /\ HopLeads'
      BY <2>1 DEF Inv, session, context, FunctionTable, StackIds, CaptureChain,
                  Leads, NoDuplicateCaptures, OriginsOutside, HopLeads
    <2> QED BY <2>1, <2>2, <2>3 DEF Inv, session, context
  <1>3. CASE n \notin Reserved
    <2>1. /\ stack = <<>> /\ stack' = <<NewFrame(NoFunction)>>
          /\ registry' = Interning(n)
          /\ target' = GlobalId(Interning(n), n)
          /\ outcome' = "lowering"
          /\ UNCHANGED <<module, nextLoopId, functions, nextLoop, hop, env>>
      BY <1>3 DEF BeginDef
    <2> QED BY <1>1, <2>1, InterningOK, BeginStep
  <1> QED BY <1>2, <1>3

-----------------------------------------------------------------------------
(* The steps of LowerContext::resolve that thread a capture *)

LEMMA BeginCaptureStep == ASSUME Inv, NEW n \in Name, BeginCapture(n) PROVE Inv'
  <1>0. PICK d \in 1..(Len(stack) - 1) : \E slot \in 0..(stack[d].nextLocal - 1) :
           hop' = [at |-> d + 1, src |-> [kind |-> "local", slot |-> slot],
                   origin |-> [frame |-> d, slot |-> slot],
                   name |-> n, binder |-> env[n]]
    BY DEF BeginCapture
  <1>1. PICK slot \in 0..(stack[d].nextLocal - 1) :
           hop' = [at |-> d + 1, src |-> [kind |-> "local", slot |-> slot],
                   origin |-> [frame |-> d, slot |-> slot],
                   name |-> n, binder |-> env[n]]
    BY <1>0
  <1>2. stack # <<>> /\ UNCHANGED <<session, functions, nextLoop, stack,
                                    target, env, outcome>>
    BY DEF BeginCapture, AtExpr, Lowering
  <1>3. d \in DOMAIN stack /\ stack[d] \in Frame BY <1>2 DEF Inv, TypeOK
  <1>4. slot \in Nat
    <2>1. stack[d].nextLocal \in Nat BY <1>3 DEF Frame
    <2> QED BY <2>1
  <1>5. hop' \in Hop
    <2>1. env[n] \in Binder BY DEF Inv, TypeOK, Env
    <2> QED BY <1>1, <1>4, <2>1 DEF Hop, Source, Binder
  <1>6. TypeOK' BY <1>2, <1>5 DEF Inv, TypeOK, session
  <1>7. /\ FunctionTable' /\ StackIds' /\ CaptureChain'
        /\ NoDuplicateCaptures' /\ OriginsOutside'
    BY <1>2 DEF Inv, session, FunctionTable, StackIds, CaptureChain, Leads,
                NoDuplicateCaptures, OriginsOutside
  <1>8. HopLeads'
    <2>1. Len(stack) \in Nat BY DEF Inv, TypeOK
    <2>2. Leads(d + 1, [kind |-> "local", slot |-> slot],
                [frame |-> d, slot |-> slot])'
      BY <1>4 DEF Leads
    <2> QED BY <1>1, <1>2, <2>1, <2>2 DEF HopLeads
  <1> QED BY <1>2, <1>6, <1>7, <1>8 DEF Inv, session

\* A source in a function leads to one variable only.
LEMMA LeadsUnique ==
    ASSUME NEW d, NEW src, NEW o1, NEW o2, Leads(d, src, o1), Leads(d, src, o2)
    PROVE  o1 = o2
  BY DEF Leads

\* And to one variable leads one source only: an enclosing function's captures
\* are of variables further out than its locals, and without duplicates.
LEMMA LeadsInjective ==
    ASSUME Inv, NEW d \in 2..Len(stack), NEW s1 \in Source, NEW s2 \in Source,
           NEW o, Leads(d, s1, o), Leads(d, s2, o)
    PROVE  s1 = s2
  <1>1. d - 1 \in DOMAIN stack /\ stack[d - 1].captures \in Seq(Capture)
    <2>1. stack \in Seq(Frame) /\ d - 1 \in DOMAIN stack BY DEF Inv, TypeOK
    <2>2. stack[d - 1] \in Frame BY <2>1
    <2> QED BY <2>1, <2>2 DEF Frame
  <1> DEFINE caps == stack[d - 1].captures
  <1>2. \A i \in DOMAIN caps : caps[i].origin.frame < d - 1
    BY <1>1 DEF Inv, OriginsOutside
  <1>3. \A i, j \in DOMAIN caps : caps[i].origin = caps[j].origin => i = j
    BY <1>1 DEF Inv, NoDuplicateCaptures
  <1>4. /\ s1.kind \in {"local", "capture"} /\ s1.slot \in Nat
        /\ s2.kind \in {"local", "capture"} /\ s2.slot \in Nat
    BY DEF Source
  <1>5. \A s \in {s1, s2} :
           /\ s.kind = "local" => o = [frame |-> d - 1, slot |-> s.slot]
           /\ s.kind = "capture" => /\ s.slot + 1 \in DOMAIN caps
                                    /\ o = caps[s.slot + 1].origin
    BY <1>1, <1>4 DEF Leads
  <1> HIDE DEF caps
  <1>6. s1.kind = s2.kind /\ s1.slot = s2.slot
    <2>1. CASE s1.kind = "local" /\ s2.kind = "local" BY <1>4, <1>5, <2>1
    <2>2. CASE s1.kind = "local" /\ s2.kind = "capture"
      <3>1. o.frame = d - 1 BY <1>5, <2>2
      <3>2. o.frame < d - 1 BY <1>2, <1>5, <2>2
      <3> QED BY <3>1, <3>2
    <2>3. CASE s1.kind = "capture" /\ s2.kind = "local"
      <3>1. o.frame = d - 1 BY <1>5, <2>3
      <3>2. o.frame < d - 1 BY <1>2, <1>5, <2>3
      <3> QED BY <3>1, <3>2
    <2>4. CASE s1.kind = "capture" /\ s2.kind = "capture"
      <3>1. s1.slot + 1 = s2.slot + 1 BY <1>3, <1>5, <2>4
      <3> QED BY <1>4, <2>4, <3>1
    <2> QED BY <1>4, <2>1, <2>2, <2>3, <2>4
  <1> QED BY <1>4, <1>6 DEF Source

\* The captures of a function only grow at the end.
LEMMA CaptureInOK ==
    ASSUME NEW f, FrameOK(f), NEW src \in Source, NEW origin \in Binder
    PROVE  LET g == CaptureIn(f, src, origin)
               new == Len(f.captures) + 1
           IN  /\ FrameOK(g) /\ g.id = f.id
               /\ g.captures \in Seq(Capture)
               /\ f.captures \in Seq(Capture)
               /\ \A i \in DOMAIN f.captures :
                     i \in DOMAIN g.captures /\ g.captures[i] = f.captures[i]
               /\ \A i \in DOMAIN g.captures :
                     \/ i \in DOMAIN f.captures
                     \/ /\ i = new
                        /\ g.captures[i] = [src |-> src, origin |-> origin]
                        /\ \A j \in DOMAIN f.captures : f.captures[j].src # src
  <1> DEFINE g == CaptureIn(f, src, origin)
             c == [src |-> src, origin |-> origin]
  <1>1. f \in Frame /\ f.captures \in Seq(Capture) BY DEF FrameOK, Frame
  <1>2. CASE \E i \in DOMAIN f.captures : IsFor(f.captures[i], src)
    <2>1. g = f BY <1>2 DEF CaptureIn
    <2> QED BY <1>1, <2>1
  <1>3. CASE ~\E i \in DOMAIN f.captures : IsFor(f.captures[i], src)
    <2>1. g = [f EXCEPT !.captures = Append(@, c)] BY <1>3 DEF CaptureIn
    <2>2. c \in Capture BY DEF Capture
    <2>3. Append(f.captures, c) \in Seq(Capture) BY <1>1, <2>2
    <2>4. g \in Frame BY <1>1, <2>1, <2>3 DEF Frame
    <2>5. /\ g.captures = Append(f.captures, c) /\ g.id = f.id
          /\ g.scopes = f.scopes /\ g.handlers = f.handlers
      BY <1>1, <2>1 DEF Frame
    <2>6. FrameOK(g)
      BY <2>4, <2>5 DEF FrameOK, ScopesBalanced, DistinctNames
    <2>7. \A j \in DOMAIN f.captures : f.captures[j].src # src
      BY <1>3 DEF IsFor
    <2> HIDE DEF g
    <2>8. \A i \in DOMAIN f.captures :
            i \in DOMAIN g.captures /\ g.captures[i] = f.captures[i]
      BY <1>1, <2>2, <2>5
    <2>9. \A i \in DOMAIN g.captures :
            i \in DOMAIN f.captures \/ (i = Len(f.captures) + 1 /\ g.captures[i] = c)
      BY <1>1, <2>2, <2>5
    <2> QED BY <1>1, <2>3, <2>5, <2>6, <2>7, <2>8, <2>9 DEF g
  <1> QED BY <1>2, <1>3

\* The function at `at` takes the capture: what was captured before stays.
LEMMA CaptureFrameStep ==
    ASSUME Inv, NEW at \in 2..Len(stack), NEW src \in Source,
           NEW origin \in Binder, origin.frame < at, Leads(at, src, origin),
           NEW G, FrameOK(G), G.id = stack[at].id,
           G.captures = CaptureIn(stack[at], src, origin).captures,
           stack' = [stack EXCEPT ![at] = G],
           UNCHANGED <<session, functions, nextLoop, target, env, outcome>>,
           hop' \in Hop \cup {NoHop}, HopLeads'
    PROVE  Inv'
  <1> DEFINE f == stack[at]
             new == Len(f.captures) + 1
  <1>1. /\ stack \in Seq(Frame) /\ at \in DOMAIN stack /\ at \in Nat
        /\ Len(stack) \in Nat /\ DOMAIN stack = 1..Len(stack)
    BY DEF Inv, TypeOK
  <1>2. FrameOK(f) BY <1>1 DEF Inv, FrameOK
  <1>3. /\ f.captures \in Seq(Capture) /\ G.captures \in Seq(Capture)
        /\ \A i \in DOMAIN f.captures :
              i \in DOMAIN G.captures /\ G.captures[i] = f.captures[i]
        /\ \A i \in DOMAIN G.captures :
              \/ i \in DOMAIN f.captures
              \/ /\ i = new
                 /\ G.captures[i] = [src |-> src, origin |-> origin]
                 /\ \A j \in DOMAIN f.captures : f.captures[j].src # src
    BY <1>2, CaptureInOK
  <1>4. G \in Frame BY DEF FrameOK
  <1>5. /\ stack' \in Seq(Frame) /\ Len(stack') = Len(stack)
        /\ DOMAIN stack' = DOMAIN stack /\ stack'[at] = G
        /\ \A d \in DOMAIN stack : d # at => stack'[d] = stack[d]
    BY <1>1, <1>4
  <1> HIDE DEF f, new
  <1>6. \A d \in DOMAIN stack : stack'[d].id = stack[d].id
    BY <1>5 DEF f
  <1>7. TypeOK' BY <1>5 DEF Inv, TypeOK, session
  <1>8. \A d \in DOMAIN stack' :
            ScopesBalanced(stack'[d]) /\ DistinctNames(stack'[d])
    BY <1>5 DEF Inv, FrameOK
  <1>9. FunctionTable'
    BY <1>1, <1>5, <1>6 DEF Inv, FunctionTable, session
  <1>10. StackIds' BY <1>1, <1>5, <1>6 DEF Inv, StackIds
  <1>11. ASSUME NEW d \in DOMAIN stack, NEW s \in Source, NEW o \in Binder,
                Leads(d, s, o)
         PROVE  Leads(d, s, o)'
    <2>1. CASE s.kind = "local" BY <1>11, <2>1 DEF Leads
    <2>2. CASE s.kind # "local"
      <3>1. /\ d > 1 /\ s.slot < Len(stack[d - 1].captures)
            /\ o = stack[d - 1].captures[s.slot + 1].origin
        BY <1>11, <2>2 DEF Leads
      <3>2. CASE d - 1 = at
        <4>1. s.slot + 1 \in DOMAIN f.captures
          BY <1>3, <3>1, <3>2 DEF Source, f
        <4>2. /\ G.captures[s.slot + 1] = f.captures[s.slot + 1]
              /\ s.slot + 1 \in DOMAIN G.captures
          BY <1>3, <4>1
        <4>3. s.slot < Len(G.captures) BY <1>3, <4>2 DEF Source
        <4> QED BY <1>5, <2>2, <3>1, <3>2, <4>2, <4>3 DEF Leads, f
      <3>3. CASE d - 1 # at
        <4>1. d - 1 \in DOMAIN stack BY <1>1, <3>1
        <4>2. stack'[d - 1] = stack[d - 1] BY <1>5, <3>3, <4>1
        <4> QED BY <2>2, <3>1, <4>2 DEF Leads
      <3> QED BY <3>2, <3>3
    <2> QED BY <2>1, <2>2
  <1>12. ASSUME NEW d \in DOMAIN stack, NEW i \in DOMAIN stack'[d].captures
         PROVE  \/ /\ i \in DOMAIN stack[d].captures
                   /\ stack'[d].captures[i] = stack[d].captures[i]
                \/ /\ d = at /\ i = new
                   /\ stack'[d].captures[i] = [src |-> src, origin |-> origin]
                   /\ \A j \in DOMAIN f.captures : f.captures[j].src # src
    BY <1>3, <1>5 DEF f
  <1>13. ASSUME NEW d \in DOMAIN stack, NEW i \in DOMAIN stack[d].captures
         PROVE  /\ stack[d].captures[i] \in Capture
                /\ stack[d].captures[i].src \in Source
                /\ stack[d].captures[i].origin \in Binder
                /\ Leads(d, stack[d].captures[i].src,
                            stack[d].captures[i].origin)
    <2>1. stack[d] \in Frame BY <1>1
    <2>2. stack[d].captures \in Seq(Capture) BY <2>1 DEF Frame
    <2>3. stack[d].captures[i] \in Capture BY <2>2
    <2> QED BY <2>3 DEF Capture, Inv, CaptureChain
  <1>14. CaptureChain'
    <2> SUFFICES ASSUME NEW d \in DOMAIN stack', NEW i \in DOMAIN stack'[d].captures
                 PROVE  Leads(d, stack[d].captures[i].src,
                                 stack[d].captures[i].origin)'
      BY DEF CaptureChain
    <2> DEFINE c == stack[d].captures[i]
    <2>1. d \in DOMAIN stack BY <1>5
    <2>2. CASE i \in DOMAIN stack[d].captures /\ c' = c
      <3>1. c.src \in Source /\ c.origin \in Binder /\ Leads(d, c.src, c.origin)
        BY <1>13, <2>1, <2>2
      <3> HIDE DEF c
      <3>2. c.src' = c.src /\ c.origin' = c.origin BY <2>2
      <3>3. Leads(d, c.src, c.origin)' BY <1>11, <2>1, <3>1, <3>2
      <3> QED BY <3>3 DEF c
    <2>3. CASE d = at /\ c' = [src |-> src, origin |-> origin]
      <3>1. c.src' = src /\ c.origin' = origin BY <2>3
      <3>2. Leads(at, src, origin)' BY <1>1, <1>11
      <3> HIDE DEF c
      <3>3. Leads(d, c.src, c.origin)' BY <2>3, <3>1, <3>2
      <3> QED BY <3>3 DEF c
    <2> QED BY <1>12, <2>1, <2>2, <2>3
  <1>15. NoDuplicateCaptures'
    <2>1. ASSUME NEW j \in DOMAIN f.captures, f.captures[j].origin = origin
          PROVE  f.captures[j].src = src
      <3>1. f.captures[j].src \in Source /\ Leads(at, f.captures[j].src, origin)
        BY <1>1, <1>13, <2>1 DEF f
      <3> QED BY <3>1, LeadsInjective
    <2> SUFFICES ASSUME NEW d \in DOMAIN stack,
                        NEW i \in DOMAIN stack'[d].captures,
                        NEW j \in DOMAIN stack'[d].captures,
                        stack'[d].captures[i].origin = stack'[d].captures[j].origin
                 PROVE  i = j
      BY <1>5 DEF NoDuplicateCaptures
    <2>2. CASE d # at
      BY <1>5, <2>2 DEF Inv, NoDuplicateCaptures
    <2>3. CASE d = at
      <3>1. /\ i \in DOMAIN G.captures /\ j \in DOMAIN G.captures
            /\ G.captures[i].origin = G.captures[j].origin
        BY <1>5, <2>3
      <3>2. \A k, l \in DOMAIN f.captures :
               f.captures[k].origin = f.captures[l].origin => k = l
        BY <1>1 DEF Inv, NoDuplicateCaptures, f
      <3>3. \A k \in DOMAIN G.captures :
               \/ /\ k \in DOMAIN f.captures
                  /\ G.captures[k].origin = f.captures[k].origin
               \/ /\ k = new /\ G.captures[k].origin = origin
                  /\ \A l \in DOMAIN f.captures : f.captures[l].origin # origin
        BY <1>3, <2>1
      <3> QED BY <3>1, <3>2, <3>3
    <2> QED BY <2>2, <2>3
  <1>16. OriginsOutside'
    <2> SUFFICES ASSUME NEW d \in DOMAIN stack,
                        NEW i \in DOMAIN stack'[d].captures
                 PROVE  stack'[d].captures[i].origin.frame < d
      BY <1>5 DEF OriginsOutside
    <2>1. \A j \in DOMAIN stack[d].captures :
             stack[d].captures[j].origin.frame < d
      BY DEF Inv, OriginsOutside
    <2> QED BY <1>12, <2>1
  <1> QED
    BY <1>1, <1>5, <1>7, <1>8, <1>9, <1>10, <1>14, <1>15, <1>16 DEF Inv, session

LEMMA CaptureHopStep == ASSUME Inv, CaptureHop PROVE Inv'
  <1> DEFINE at == hop.at
             src == hop.src
             origin == hop.origin
             f == stack[at]
             g == CaptureIn(f, src, origin)
  <1>1. /\ hop # NoHop
        /\ UNCHANGED <<session, functions, nextLoop, target, env, outcome>>
    BY DEF CaptureHop
  <1>2. /\ at \in 2..Len(stack) /\ origin.frame < at /\ Leads(at, src, origin)
    BY <1>1 DEF Inv, HopLeads
  <1>3. /\ hop \in Hop /\ src \in Source /\ origin \in Binder /\ at \in Nat
        /\ hop.name \in Name /\ hop.binder \in Binder
    BY <1>1 DEF Inv, TypeOK, Hop
  <1>4. at \in DOMAIN stack /\ Len(stack) \in Nat /\ stack \in Seq(Frame)
    BY <1>2 DEF Inv, TypeOK
  <1>5. FrameOK(f) BY <1>4 DEF Inv, FrameOK
  <1> DEFINE load(i) == LoadOf("capture", i - 1, hop.name, hop.binder)
             onwards(i) == [hop EXCEPT !.at = @ + 1, !.src = CarriedFrom(i)]
  <1>6. PICK i \in DOMAIN g.captures :
           /\ IsFor(g.captures[i], src)
           /\ at = Len(stack) => hop' = NoHop /\ stack' = SetTop(Emit(g, load(i)))
           /\ at # Len(stack) => /\ hop' = onwards(i)
                                 /\ stack' = [stack EXCEPT ![at] = g]
    BY DEF CaptureHop
  <1>7. /\ FrameOK(g) /\ g.id = f.id /\ g.captures \in Seq(Capture)
        /\ f.captures \in Seq(Capture)
        /\ g.captures[i].src = src /\ i \in Nat /\ i > 0
        /\ \/ i \in DOMAIN f.captures /\ g.captures[i] = f.captures[i]
           \/ g.captures[i] = [src |-> src, origin |-> origin]
    BY <1>3, <1>5, <1>6, CaptureInOK DEF IsFor
  <1>8. g.captures[i].origin = origin
    <2>1. CASE i \in DOMAIN f.captures /\ g.captures[i] = f.captures[i]
      <3>1. Leads(at, src, f.captures[i].origin)
        BY <1>4, <1>7, <2>1 DEF Inv, CaptureChain
      <3> QED BY <1>2, <2>1, <3>1, LeadsUnique
    <2>2. CASE g.captures[i] = [src |-> src, origin |-> origin] BY <2>2
    <2> QED BY <1>7, <2>1, <2>2
  <1> HIDE DEF g, f, load
  <1>9. CASE at = Len(stack)
    <2> DEFINE G == Emit(g, load(i))
    <2>1. load(i) \in Instr BY <1>3, <1>7, LoadType DEF load
    <2>2. FrameOK(G) /\ G.id = f.id /\ G.captures = g.captures
      BY <1>7, <2>1, EmitOK
    <2> HIDE DEF G
    <2>3. stack' = [stack EXCEPT ![at] = G] /\ hop' = NoHop
      BY <1>6, <1>9 DEF SetTop, G
    <2>4. HopLeads' BY <2>3 DEF HopLeads
    <2> HIDE DEF at, src, origin
    <2> QED BY <1>1, <1>2, <1>3, <2>2, <2>3, <2>4, CaptureFrameStep DEF f, g
  <1>10. CASE at # Len(stack)
    <2>1. stack' = [stack EXCEPT ![at] = g] /\ hop' = onwards(i)
      BY <1>6, <1>10
    <2>2. /\ hop'.at = at + 1 /\ hop'.origin = origin
          /\ hop'.src = [kind |-> "capture", slot |-> i - 1]
          /\ hop' \in Hop
      <3>1. CarriedFrom(i) = [kind |-> "capture", slot |-> i - 1]
        BY DEF CarriedFrom
      <3>2. CarriedFrom(i) \in Source /\ at + 1 \in Nat
        BY <1>3, <1>7, <3>1 DEF Source
      <3>3. hop' = [hop EXCEPT !.at = at + 1, !.src = CarriedFrom(i)]
        BY <2>1
      <3>4. hop' \in Hop BY <1>3, <3>2, <3>3 DEF Hop
      <3>5. /\ hop'.at = at + 1 /\ hop'.src = CarriedFrom(i)
            /\ hop'.origin = origin
        BY <1>3, <3>3 DEF Hop
      <3> QED BY <3>1, <3>4, <3>5
    <2>3. g \in Frame BY <1>7 DEF FrameOK
    <2>4. stack'[at] = g /\ Len(stack') = Len(stack)
      BY <1>4, <2>1, <2>3
    <2>5. i - 1 < Len(g.captures) BY <1>6, <1>7
    <2>6. Leads(hop.at, hop.src, hop.origin)'
      <3>1. hop'.at > 1 /\ hop'.at - 1 = at /\ hop'.src.kind = "capture"
            /\ hop'.src.slot = i - 1 /\ i - 1 + 1 = i
        BY <1>2, <1>3, <1>7, <2>2
      <3>2. hop'.src.slot < Len(stack'[hop'.at - 1].captures)
        BY <2>4, <2>5, <3>1
      <3>3. hop'.origin = stack'[hop'.at - 1].captures[hop'.src.slot + 1].origin
        BY <1>8, <2>2, <2>4, <3>1
      <3> QED BY <3>1, <3>2, <3>3 DEF Leads
    <2>7. HopLeads'
      <3>1. hop'.at \in 2..Len(stack') /\ hop'.origin.frame < hop'.at
        <4>1. at < Len(stack) BY <1>2, <1>4, <1>10
        <4>2. origin.frame \in Nat BY <1>3 DEF Binder
        <4> QED BY <1>2, <1>3, <1>4, <2>2, <2>4, <4>1, <4>2
      <3> QED BY <2>6, <3>1 DEF HopLeads
    <2> HIDE DEF at, src, origin, onwards
    <2> QED BY <1>1, <1>2, <1>3, <1>7, <2>1, <2>2, <2>7, CaptureFrameStep
            DEF f, g
  <1> QED BY <1>9, <1>10

-----------------------------------------------------------------------------
(* The steps of lower_fn *)

\* Where the pending slots of the function table are.
LEMMA PendingFacts ==
    ASSUME Inv
    PROVE  /\ Len(module) \in Nat /\ Len(functions) \in Nat
           /\ Len(stack) \in Nat
           /\ \A d \in 2..Len(stack) :
                 /\ stack[d].id \in Nat
                 /\ stack[d].id - Len(module) + 1 \in DOMAIN functions
                 /\ functions[stack[d].id - Len(module) + 1] = Pending
                 /\ stack[d].id < Len(module) + Len(functions)
  <1>1. /\ Len(module) \in Nat /\ Len(functions) \in Nat /\ Len(stack) \in Nat
        /\ DOMAIN functions = 1..Len(functions)
    BY DEF Inv, TypeOK
  <1>2. ASSUME NEW d \in 2..Len(stack)
        PROVE  /\ stack[d].id \in Nat
               /\ stack[d].id - Len(module) + 1 \in DOMAIN functions
               /\ functions[stack[d].id - Len(module) + 1] = Pending
    <2>1. stack[d].id \in Nat BY DEF Inv, StackIds
    <2>2. stack[d].id - Len(module) + 1
            \in {i \in DOMAIN functions : functions[i] = Pending}
      BY DEF Inv, FunctionTable
    <2> QED BY <2>1, <2>2
  <1>3. \A d \in 2..Len(stack) : stack[d].id < Len(module) + Len(functions)
    BY <1>1, <1>2
  <1> QED BY <1>1, <1>2, <1>3

LEMMA EnterFnStep ==
    ASSUME Inv, NEW params \in Seq(Name), IsInjective(params), EnterFn(params)
    PROVE  Inv'
  <1> DEFINE n == Len(stack)
             id == Len(module) + Len(functions)
             fresh == NewFrame(id)
             F == [Declare(fresh, params) EXCEPT !.params = Len(params)]
  <1>1. /\ stack # <<>> /\ hop = NoHop
        /\ functions' = Append(functions, Pending)
        /\ stack' = Append(stack, F)
        /\ env' = Bound(params, FreshSlots(fresh, params), Len(stack) + 1)
        /\ UNCHANGED <<session, nextLoop, hop, target, outcome>>
    BY DEF EnterFn, AtExpr, Lowering
  <1>2. /\ stack \in Seq(Frame) /\ n \in Nat \ {0} /\ DOMAIN stack = 1..n
        /\ functions \in Seq(Function \cup {Pending}) /\ env \in Env
        /\ Len(functions) \in Nat /\ Len(module) \in Nat /\ id \in Nat
        /\ DOMAIN functions = 1..Len(functions)
    BY <1>1 DEF Inv, TypeOK
  <1>3. /\ fresh \in Frame /\ ScopesBalanced(fresh)
        /\ fresh.scopes = <<EmptyScope>> /\ fresh.handlers = <<>>
        /\ fresh.captures = <<>> /\ fresh.id = id
    <2>1. fresh \in Frame /\ ScopesBalanced(fresh) BY <1>2, NewFrameType
    <2> QED BY <2>1, Zenon DEF NewFrame
  <1> HIDE DEF fresh
  <1>4. env' \in Env
    <2>1. FreshSlots(fresh, params) \in Seq(Nat)
          /\ Len(FreshSlots(fresh, params)) = Len(params)
      BY <1>3, FreshSlotsType
    <2> QED BY <1>1, <1>2, <2>1, BoundType
  <1>5. FrameOK(F) /\ F.id = id /\ F.captures = <<>>
    <2> DEFINE D == Declare(fresh, params)
    <2>1. fresh.scopes # <<>> BY <1>3
    <2>2. /\ D \in Frame /\ Len(D.scopes) = Len(fresh.scopes)
          /\ D.handlers = <<>> /\ D.captures = <<>> /\ D.id = id
      BY <1>3, <2>1, DeclareType
    <2> HIDE DEF D
    <2>3. F = [D EXCEPT !.params = Len(params)] BY DEF D
    <2> HIDE DEF F
    <2>4. F \in Frame
      <3>1. Len(params) \in Nat OBVIOUS
      <3> QED BY <2>2, <2>3, <3>1 DEF Frame
    <2>5. /\ F.scopes = D.scopes /\ F.handlers = <<>> /\ F.captures = <<>>
          /\ F.id = id
      BY <2>2, <2>3 DEF Frame
    <2>6. ScopesBalanced(F)
      BY <1>3, <2>2, <2>5 DEF ScopesBalanced
    <2>7. DistinctNames(F) BY <2>5 DEF DistinctNames
    <2> QED BY <2>4, <2>5, <2>6, <2>7 DEF FrameOK
  <1> HIDE DEF F
  <1>6. /\ stack' \in Seq(Frame) /\ Len(stack') = n + 1
        /\ DOMAIN stack' = 1..(n + 1) /\ stack'[n + 1] = F
        /\ \A d \in 1..n : stack'[d] = stack[d]
    <2>1. F \in Frame BY <1>5 DEF FrameOK
    <2> QED BY <1>1, <1>2, <2>1
  <1>7. /\ functions' \in Seq(Function \cup {Pending})
        /\ DOMAIN functions' = DOMAIN functions \cup {Len(functions) + 1}
        /\ functions'[Len(functions) + 1] = Pending
        /\ \A i \in DOMAIN functions : functions'[i] = functions[i]
    BY <1>1, <1>2
  <1>8. stack' # <<>>
    <2>1. Len(stack') # 0 BY <1>2, <1>6
    <2> QED BY <2>1
  <1>9. TypeOK' BY <1>1, <1>4, <1>6, <1>7 DEF Inv, TypeOK, session
  <1>10. \A d \in DOMAIN stack' :
            ScopesBalanced(stack'[d]) /\ DistinctNames(stack'[d])
    BY <1>2, <1>5, <1>6 DEF Inv, FrameOK
  <1>11. FunctionTable'
    <2>1. {i \in DOMAIN functions' : functions'[i] = Pending}
            = {i \in DOMAIN functions : functions[i] = Pending}
                \cup {Len(functions) + 1}
      BY <1>2, <1>7
    <2>2. {stack'[d].id - Len(module) + 1 : d \in 2..(n + 1)}
            = {stack[d].id - Len(module) + 1 : d \in 2..n}
                \cup {Len(functions) + 1}
      <3>1. \A d \in 2..n : stack'[d].id = stack[d].id BY <1>2, <1>6
      <3>2. stack'[n + 1].id - Len(module) + 1 = Len(functions) + 1
        BY <1>2, <1>5, <1>6
      <3>3. 2..(n + 1) = 2..n \cup {n + 1} BY <1>2
      <3> HIDE DEF n
      <3> QED BY <3>1, <3>2, <3>3
    <2>3. \A i \in DOMAIN functions' :
             functions'[i] = Pending \/ functions'[i].id = Len(module) + i - 1
      BY <1>7 DEF Inv, FunctionTable
    <2>4. module' = module BY <1>1 DEF session
    <2>5. {i \in DOMAIN functions : functions[i] = Pending}
            = {stack[d].id - Len(module) + 1 : d \in 2..n}
      BY DEF Inv, FunctionTable
    <2>6. \A i \in DOMAIN module : module[i].id = i - 1
      BY DEF Inv, FunctionTable
    <2> HIDE DEF n
    <2>7. {i \in DOMAIN functions' : functions'[i] = Pending}
            = {stack'[d].id - Len(module') + 1 : d \in 2..Len(stack')}
      BY <1>6, <2>1, <2>2, <2>4, <2>5
    <2> QED BY <2>3, <2>4, <2>6, <2>7 DEF FunctionTable
  <1>12. StackIds'
    <2>1. \A d \in 2..n : stack[d].id \in Nat /\ stack[d].id < id
      BY PendingFacts
    <2>2. \A d \in 2..n : stack'[d].id = stack[d].id BY <1>2, <1>6
    <2>3. stack'[1].id = NoFunction BY <1>1, <1>2, <1>6 DEF Inv, StackIds
    <2>4. stack'[n + 1].id = id BY <1>5, <1>6
    <2>5. \A d, e \in 2..n : d < e => stack[d].id < stack[e].id
      BY DEF Inv, StackIds
    <2>6. \A d \in 2..(n + 1) : d \in 2..n \/ d = n + 1 BY <1>2
    <2> HIDE DEF n
    <2>7. \A d \in 2..(n + 1) : stack'[d].id \in Nat
      BY <1>2, <2>1, <2>2, <2>4, <2>6
    <2>8. \A d, e \in 2..(n + 1) : d < e => stack'[d].id < stack'[e].id
      <3> SUFFICES ASSUME NEW d \in 2..(n + 1), NEW e \in 2..(n + 1), d < e
                   PROVE  stack'[d].id < stack'[e].id
        OBVIOUS
      <3>1. d \in 2..n BY <1>2, <2>6
      <3>2. CASE e \in 2..n BY <2>2, <2>5, <3>1, <3>2
      <3>3. CASE e = n + 1 BY <2>1, <2>2, <2>4, <3>1, <3>3
      <3> QED BY <2>6, <3>2, <3>3
    <2> QED BY <1>6, <2>3, <2>7, <2>8 DEF StackIds
  <1>13. CaptureChain'
    <2> SUFFICES ASSUME NEW d \in DOMAIN stack', NEW i \in DOMAIN stack'[d].captures
                 PROVE  Leads(d, stack[d].captures[i].src,
                                 stack[d].captures[i].origin)'
      BY DEF CaptureChain
    <2>1. d \in 1..n
      <3>1. d # n + 1 BY <1>5, <1>6
      <3> QED BY <1>2, <1>6, <3>1
    <2>2. stack'[d] = stack[d] BY <1>6, <2>1
    <2> DEFINE c == stack[d].captures[i]
    <2>3. Leads(d, c.src, c.origin) BY <1>2, <2>1, <2>2 DEF Inv, CaptureChain
    <2>4. d > 1 => stack'[d - 1] = stack[d - 1] BY <1>2, <1>6, <2>1
    <2>5. c' = c BY <2>2
    <2> HIDE DEF c
    <2>6. Leads(d, c.src, c.origin)' BY <2>3, <2>4, <2>5 DEF Leads
    <2> QED BY <2>6 DEF c
  <1>14. NoDuplicateCaptures'
    BY <1>2, <1>5, <1>6 DEF Inv, NoDuplicateCaptures
  <1>15. OriginsOutside'
    BY <1>2, <1>5, <1>6 DEF Inv, OriginsOutside
  <1>16. HopLeads' BY <1>1 DEF HopLeads
  <1> QED
    BY <1>1, <1>8, <1>9, <1>10, <1>11, <1>12, <1>13, <1>14, <1>15, <1>16
    DEF Inv, session

LEMMA ExitFnStep == ASSUME Inv, ExitFn PROVE Inv'
  <1> DEFINE n == Len(stack)
             p == PlaceOf(Top.id)
             closure == [op |-> "closure", fn |-> Top.id,
                         sources |-> [i \in DOMAIN Top.captures |->
                                         Top.captures[i].src]]
             fun == [id |-> Top.id, params |-> Top.params,
                     captureCount |-> Len(Top.captures),
                     localCount |-> Top.nextLocal, code |-> Top.code]
             G == Emit(stack[n - 1], closure)
  <1>1. /\ stack # <<>> /\ hop = NoHop /\ n > 1
        /\ functions' = [functions EXCEPT ![p] = fun]
        /\ stack' = [Front(stack) EXCEPT ![n - 1] =
                        Emit(Last(Front(stack)), closure)]
        /\ env' = Top.outer
        /\ UNCHANGED <<session, nextLoop, hop, target, outcome>>
    BY DEF ExitFn, AtExpr, Lowering
  <1>2. /\ stack \in Seq(Frame) /\ n \in Nat /\ DOMAIN stack = 1..n
        /\ functions \in Seq(Function \cup {Pending})
        /\ DOMAIN functions = 1..Len(functions)
        /\ Len(functions) \in Nat /\ Len(module) \in Nat
        /\ Top = stack[n] /\ Top \in Frame /\ n \in 2..n
    BY <1>1, TopFacts DEF Inv, TypeOK
  <1>3. /\ Front(stack) \in Seq(Frame) /\ Len(Front(stack)) = n - 1
        /\ \A d \in 1..(n - 1) : Front(stack)[d] = stack[d]
    BY <1>1, <1>2, FrontLast
  <1>4. Last(Front(stack)) = stack[n - 1]
    <2>1. Front(stack) # <<>>
      <3>1. Len(Front(stack)) # 0 BY <1>1, <1>2, <1>3
      <3> QED BY <3>1
    <2> DEFINE fr == Front(stack)
    <2>2. fr \in Seq(Frame) /\ fr # <<>> /\ Len(fr) = n - 1 BY <1>3, <2>1
    <2> HIDE DEF fr
    <2>3. Last(fr) = fr[n - 1] BY <2>2, FrontLast
    <2>4. n - 1 \in 1..(n - 1) BY <1>1, <1>2
    <2> QED BY <1>3, <2>3, <2>4 DEF fr
  <1>5. /\ Top.id \in Nat /\ p \in DOMAIN functions /\ functions[p] = Pending
        /\ p = Top.id - Len(module) + 1
    BY <1>2, PendingFacts DEF PlaceOf
  <1>6. closure \in Instr
    <2>1. Top.captures \in Seq(Capture) BY <1>2 DEF Frame
    <2>2. \A i \in DOMAIN Top.captures : Top.captures[i].src \in Source
      <3>1. \A i \in DOMAIN Top.captures : Top.captures[i] \in Capture
        BY <2>1
      <3> QED BY <3>1 DEF Capture
    <2>3. [i \in DOMAIN Top.captures |-> Top.captures[i].src] \in Seq(Source)
      BY <2>1, <2>2
    <2> QED BY <1>5, <2>3 DEF Instr
  <1>7. fun \in Function /\ fun # Pending
    <2>1. fun \in Function
      <3>1. Len(Top.captures) \in Nat
        <4>1. Top.captures \in Seq(Capture) BY <1>2 DEF Frame
        <4> QED BY <4>1
      <3>2. Top.params \in Nat /\ Top.nextLocal \in Nat /\ Top.code \subseteq Instr
        BY <1>2 DEF Frame
      <3> QED BY <1>5, <3>1, <3>2 DEF Function
    <2>2. fun.id # Pending.id BY <1>5 DEF Pending, NoFunction
    <2> QED BY <2>1, <2>2
  <1> HIDE DEF closure
  <1>8. /\ FrameOK(G) /\ G \in Frame /\ G.id = stack[n - 1].id
        /\ G.captures = stack[n - 1].captures
    <2>1. n - 1 \in DOMAIN stack BY <1>1, <1>2
    <2>2. FrameOK(stack[n - 1]) BY <1>2, <2>1 DEF Inv, FrameOK
    <2> QED BY <1>6, <2>2, EmitOK DEF FrameOK
  <1>9. stack' = [Front(stack) EXCEPT ![n - 1] = G] BY <1>1, <1>4
  <1> HIDE DEF G
  <1>10. /\ stack' \in Seq(Frame) /\ Len(stack') = n - 1
         /\ DOMAIN stack' = 1..(n - 1) /\ stack'[n - 1] = G
         /\ \A d \in 1..(n - 2) : stack'[d] = stack[d]
    <2> DEFINE fr == Front(stack)
    <2>1. fr \in Seq(Frame) /\ Len(fr) = n - 1 BY <1>3
    <2>2. \A d \in 1..(n - 2) : fr[d] = stack[d] BY <1>2, <1>3
    <2>3. stack' = [fr EXCEPT ![n - 1] = G] BY <1>9
    <2>4. n > 1 /\ n \in Nat BY <1>1, <1>2
    <2> HIDE DEF fr, n
    <2> QED BY <1>8, <2>1, <2>2, <2>3, <2>4
  <1>11. \A d \in 1..(n - 1) : /\ d \in DOMAIN stack
                               /\ stack'[d].id = stack[d].id
                               /\ stack'[d].captures = stack[d].captures
    BY <1>2, <1>8, <1>10
  <1>12. stack' # <<>>
    <2>1. n > 1 /\ n \in Nat /\ Len(stack') = n - 1 BY <1>1, <1>2, <1>10
    <2> HIDE DEF n
    <2>2. Len(stack') # 0 BY <2>1
    <2> QED BY <2>2
  <1> HIDE DEF p, fun
  <1>13. /\ functions' \in Seq(Function \cup {Pending})
         /\ DOMAIN functions' = DOMAIN functions /\ functions'[p] = fun
         /\ \A i \in DOMAIN functions : i # p => functions'[i] = functions[i]
    BY <1>1, <1>2, <1>5, <1>7
  <1>14. env' \in Env BY <1>1, <1>2 DEF Frame
  <1>15. TypeOK' BY <1>1, <1>10, <1>13, <1>14 DEF Inv, TypeOK, session
  <1>16. \A d \in DOMAIN stack' :
            ScopesBalanced(stack'[d]) /\ DistinctNames(stack'[d])
    BY <1>2, <1>8, <1>10 DEF Inv, FrameOK
  <1>17. FunctionTable'
    <2>1. {i \in DOMAIN functions' : functions'[i] = Pending}
            = {i \in DOMAIN functions : functions[i] = Pending} \ {p}
      BY <1>7, <1>13
    <2>2. {stack'[d].id - Len(module) + 1 : d \in 2..(n - 1)}
            = {stack[d].id - Len(module) + 1 : d \in 2..n} \ {p}
      <3> DEFINE place(d) == stack[d].id - Len(module) + 1
      <3>1. \A d \in 2..(n - 1) : stack'[d].id - Len(module) + 1 = place(d)
        BY <1>2, <1>11
      <3>2. 2..n = 2..(n - 1) \cup {n} BY <1>1, <1>2
      <3>3. place(n) = p BY <1>2, <1>5
      <3>4. \A d \in 2..(n - 1) : place(d) # p
        <4>1. \A d \in 2..n : stack[d].id \in Nat BY DEF Inv, StackIds
        <4>2. \A d \in 2..(n - 1) : stack[d].id < stack[n].id
          BY <1>1, <1>2 DEF Inv, StackIds
        <4> QED BY <1>2, <3>2, <3>3, <4>1, <4>2
      <3> HIDE DEF place, n
      <3>5. {place(d) : d \in 2..(n - 1)} = {place(d) : d \in 2..n} \ {p}
        BY <3>2, <3>3, <3>4
      <3>6. {stack'[d].id - Len(module) + 1 : d \in 2..(n - 1)}
              = {place(d) : d \in 2..(n - 1)}
        BY <3>1
      <3> QED BY <3>5, <3>6 DEF place
    <2>3. fun.id = Len(module) + p - 1 BY <1>2, <1>5 DEF fun
    <2>4. \A i \in DOMAIN functions' :
             functions'[i] = Pending \/ functions'[i].id = Len(module) + i - 1
      BY <1>13, <2>3 DEF Inv, FunctionTable
    <2>5. module' = module BY <1>1 DEF session
    <2>6. {i \in DOMAIN functions : functions[i] = Pending}
            = {stack[d].id - Len(module) + 1 : d \in 2..n}
      BY DEF Inv, FunctionTable
    <2>7. \A i \in DOMAIN module : module[i].id = i - 1
      BY DEF Inv, FunctionTable
    <2> HIDE DEF n
    <2>8. {i \in DOMAIN functions' : functions'[i] = Pending}
            = {stack'[d].id - Len(module') + 1 : d \in 2..Len(stack')}
      BY <1>10, <2>1, <2>2, <2>5, <2>6
    <2> QED BY <2>4, <2>5, <2>7, <2>8 DEF FunctionTable
  <1>18. StackIds'
    <2>1. /\ stack[1].id = NoFunction
          /\ \A d \in 2..n : stack[d].id \in Nat
          /\ \A d, e \in 2..n : d < e => stack[d].id < stack[e].id
      BY <1>1 DEF Inv, StackIds
    <2>2. n > 1 /\ n \in Nat BY <1>1, <1>2
    <2>3. \A d \in 1..(n - 1) : stack'[d].id = stack[d].id BY <1>11
    <2> HIDE DEF n
    <2>4. stack'[1].id = NoFunction BY <2>1, <2>2, <2>3
    <2>5. \A d \in 2..(n - 1) : d \in 2..n /\ d \in 1..(n - 1) BY <2>2
    <2>6. \A d \in 2..(n - 1) : stack'[d].id \in Nat BY <2>1, <2>3, <2>5
    <2>7. \A d, e \in 2..(n - 1) : d < e => stack'[d].id < stack'[e].id
      BY <2>1, <2>3, <2>5
    <2> QED BY <1>10, <2>4, <2>6, <2>7 DEF StackIds
  <1>19. CaptureChain'
    <2> SUFFICES ASSUME NEW d \in DOMAIN stack', NEW i \in DOMAIN stack'[d].captures
                 PROVE  Leads(d, stack[d].captures[i].src,
                                 stack[d].captures[i].origin)'
      BY DEF CaptureChain
    <2> DEFINE c == stack[d].captures[i]
    <2>1. d \in 1..(n - 1) BY <1>10
    <2>2. Leads(d, c.src, c.origin) BY <1>11, <2>1 DEF Inv, CaptureChain
    <2>3. d > 1 => d - 1 \in 1..(n - 1) BY <1>2, <2>1
    <2>4. d > 1 => stack'[d - 1].captures = stack[d - 1].captures
      BY <1>11, <2>3
    <2>5. c' = c BY <1>11, <2>1
    <2> HIDE DEF c
    <2>6. Leads(d, c.src, c.origin)' BY <2>2, <2>4, <2>5 DEF Leads
    <2> QED BY <2>6 DEF c
  <1>20. NoDuplicateCaptures'
    BY <1>10, <1>11 DEF Inv, NoDuplicateCaptures
  <1>21. OriginsOutside'
    BY <1>10, <1>11 DEF Inv, OriginsOutside
  <1>22. HopLeads' BY <1>1 DEF HopLeads
  <1> QED
    BY <1>1, <1>12, <1>15, <1>16, <1>17, <1>18, <1>19, <1>20, <1>21, <1>22
    DEF Inv, session

-----------------------------------------------------------------------------
(* The form is finished, and the invariant *)

LEMMA FinishStep == ASSUME Inv, Finish PROVE Inv'
  <1>1. /\ Len(stack) = 1 /\ DropContext /\ registry' = registry
        /\ nextLoopId' = nextLoop
        /\ \/ module' = module \o functions /\ outcome' = "committed"
           \/ module' = module /\ outcome' = "rejected"
    BY DEF Finish
  <1>2. /\ registry \in Seq(Interned) /\ IsInjective(registry)
        /\ module \in Seq(Function) /\ nextLoop \in Nat
        /\ functions \in Seq(Function \cup {Pending})
        /\ \A i \in DOMAIN module : module[i].id = i - 1
        /\ \A i \in DOMAIN functions :
              functions[i] = Pending \/ functions[i].id = Len(module) + i - 1
    BY DEF Inv, TypeOK, FunctionTable
  <1>3. \A i \in DOMAIN functions : functions[i] # Pending
    <2>1. {stack[d].id - Len(module) + 1 : d \in 2..Len(stack)} = {}
      BY <1>1
    <2> QED BY <2>1 DEF Inv, FunctionTable
  <1>4. functions \in Seq(Function) BY <1>2, <1>3
  <1> DEFINE mod == module \o functions
  <1>5. mod \in Seq(Function) BY <1>2, <1>4
  <1>6. \A i \in DOMAIN mod : mod[i].id = i - 1
    <2> SUFFICES ASSUME NEW i \in DOMAIN mod PROVE mod[i].id = i - 1
      OBVIOUS
    <2>1. CASE i \in DOMAIN module
      BY <1>2, <1>4, <2>1
    <2>2. CASE i \notin DOMAIN module
      <3>1. /\ i - Len(module) \in DOMAIN functions
            /\ mod[i] = functions[i - Len(module)]
            /\ Len(module) \in Nat /\ i \in Nat
        BY <1>2, <1>4, <2>2
      <3>2. functions[i - Len(module)].id = Len(module) + (i - Len(module)) - 1
        BY <1>2, <1>3, <3>1
      <3> QED BY <3>1, <3>2
    <2> QED BY <2>1, <2>2
  <1> HIDE DEF mod
  <1>7. \/ module' = mod \/ module' = module
    BY <1>1 DEF mod
  <1> QED BY <1>1, <1>2, <1>5, <1>6, <1>7, DropStep

\* The invariant holds at the start and every step keeps it.
LEMMA InitInv == ASSUME Init PROVE Inv
  <1>1. registry \in Seq(Interned) /\ IsInjective(registry)
    BY NamesAssumption DEF Init, IsInjective
  <1>2. EmptyEnv \in Env BY DEF EmptyEnv, Env, NoBinder, Binder, NoSlot
  <1>3. TypeOK BY <1>1, <1>2 DEF Init, TypeOK
  <1>4. FunctionTable
    <2>1. {i \in DOMAIN functions : functions[i] = Pending} = {}
      BY DEF Init
    <2>2. {stack[d].id - Len(module) + 1 : d \in 2..Len(stack)} = {}
      BY DEF Init
    <2> QED BY <2>1, <2>2 DEF Init, FunctionTable
  <1>5. StackIds BY DEF Init, StackIds
  <1>6. CaptureChain /\ NoDuplicateCaptures /\ OriginsOutside /\ HopLeads
    BY DEF Init, CaptureChain, NoDuplicateCaptures, OriginsOutside, HopLeads
  <1> QED BY <1>1, <1>3, <1>4, <1>5, <1>6 DEF Init, Inv

LEMMA NameSteps ==
    ASSUME Inv, NEW n \in Name,
           \/ ResolveLocal(n) \/ ResolveGlobal(n) \/ BeginCapture(n)
           \/ EnterRange(n) \/ NextBinding(n)
    PROVE  Inv'
  <1>1. CASE ResolveLocal(n) BY <1>1, ResolveLocalStep
  <1>2. CASE ResolveGlobal(n)
    <2>1. CASE n \in Generated
      <3>1. Fail BY <1>2, <2>1 DEF ResolveGlobal
      <3> QED BY <3>1, FailStep
    <2>2. CASE ~(n \in Generated)
      <3>1. n \in Interned BY <2>2 DEF Name
      <3> QED BY <1>2, <2>2, <3>1, ResolveGlobalStep
    <2> QED BY <2>1, <2>2
  <1>3. CASE BeginCapture(n) BY <1>3, BeginCaptureStep
  <1>4. CASE EnterRange(n)
    <2>1. <<n>> \in Seq(Name) /\ IsInjective(<<n>>) BY DEF IsInjective
    <2> QED BY <1>4, <2>1, EnterFormStep DEF EnterRange
  <1>5. CASE NextBinding(n)
    <2>1. CASE n \in Range(Last(Top.handlers).names)
      <3>1. Fail BY <1>5, <2>1 DEF NextBinding
      <3> QED BY <3>1, FailStep
    <2>2. CASE n \notin Range(Last(Top.handlers).names)
      BY <1>5, <2>2, NextBindingStep
    <2> QED BY <2>1, <2>2
  <1> QED BY <1>1, <1>2, <1>3, <1>4, <1>5

LEMMA ParamsType ==
    ASSUME NEW params \in BoundedSeq(Name, MaxParams)
    PROVE  params \in Seq(Name)
  <1>1. PICK m \in 0..MaxParams : params \in [1..m -> Name]
    BY DEF BoundedSeq, SeqOf
  <1>2. m \in Nat BY BoundsAssumption
  <1> QED BY <1>1, <1>2

LEMMA FunctionSteps ==
    ASSUME Inv, NEW params \in BoundedSeq(Name, MaxParams), EnterFn(params)
    PROVE  Inv'
  <1>1. CASE ~IsInjective(params)
    <2>1. Fail BY <1>1 DEF EnterFn
    <2> QED BY <2>1, FailStep
  <1>2. CASE IsInjective(params) BY <1>2, ParamsType, EnterFnStep
  <1> QED BY <1>1, <1>2

LEMMA NextInv == ASSUME Inv, [Next]_vars PROVE Inv'
  <1>1. CASE BeginExpr BY <1>1, BeginExprStep
  <1>2. CASE \E n \in Interned : BeginDef(n) BY <1>2, BeginDefStep
  <1>3. CASE \E n \in Name : \/ ResolveLocal(n) \/ ResolveGlobal(n)
                             \/ BeginCapture(n) \/ EnterRange(n)
                             \/ NextBinding(n)
    BY <1>3, NameSteps
  <1>4. CASE CaptureHop BY <1>4, CaptureHopStep
  <1>5. CASE \E params \in BoundedSeq(Name, MaxParams) : EnterFn(params)
    BY <1>5, FunctionSteps
  <1>6. CASE ExitFn BY <1>6, ExitFnStep
  <1>7. CASE EnterLet \/ EnterState
    <2>1. <<>> \in Seq(Name) /\ IsInjective(<<>>) BY DEF IsInjective
    <2> QED BY <1>7, <2>1, EnterFormStep DEF EnterLet, EnterState
  <1>8. CASE LetBody BY <1>8, LetBodyStep
  <1>9. CASE LetExit BY <1>9, LetExitStep
  <1>10. CASE RangeBody BY <1>10, RangeBodyStep
  <1>11. CASE RangeExit BY <1>11, RangeExitStep
  <1>12. CASE StateCond BY <1>12, StateCondStep
  <1>13. CASE StateBody BY <1>13, StateBodyStep
  <1>14. CASE StateNext BY <1>14, StateNextStep
  <1>15. CASE StateUpdate BY <1>15, StateUpdateStep
  <1>16. CASE StateExit BY <1>16, StateExitStep
  <1>17. CASE Break
    <2>1. CASE Top.loops = <<>>
      <3>1. Fail BY <1>17, <2>1 DEF Break
      <3> QED BY <3>1, FailStep
    <2>2. CASE Top.loops # <<>> BY <1>17, <2>2, BreakStep
    <2> QED BY <2>1, <2>2
  <1>18. CASE Malformed BY <1>18, FailStep DEF Malformed
  <1>19. CASE Finish BY <1>19, FinishStep
  <1>20. CASE UNCHANGED vars
    <2>1. TypeOK' BY <1>20 DEF Inv, TypeOK, vars, session, context
    <2>2. /\ FunctionTable' /\ StackIds' /\ CaptureChain'
          /\ NoDuplicateCaptures' /\ OriginsOutside' /\ HopLeads'
      BY <1>20 DEF Inv, vars, session, context, FunctionTable, StackIds,
                   CaptureChain, Leads, NoDuplicateCaptures, OriginsOutside,
                   HopLeads
    <2> QED BY <1>20, <2>1, <2>2 DEF Inv, vars, session, context
  <1> QED
    BY <1>1, <1>2, <1>3, <1>4, <1>5, <1>6, <1>7, <1>8, <1>9, <1>10, <1>11,
       <1>12, <1>13, <1>14, <1>15, <1>16, <1>17, <1>18, <1>19, <1>20
    DEF Next

-----------------------------------------------------------------------------
(* The theorems *)

\* The inductive invariant holds in every reachable state.
THEOREM Invariance == Spec => []Inv
  <1>1. Init => Inv BY InitInv
  <1>2. Inv /\ [Next]_vars => Inv' BY NextInv
  <1> QED BY <1>1, <1>2, PTL DEF Spec

\* The lowerer keeps its types: slots, ids and instructions are well formed
\* whatever forms a session is given (lower.rs, capture.rs).
THEOREM TypeCorrect == Spec => []TypeOK
  <1>1. Inv => TypeOK BY DEF Inv
  <1> QED BY <1>1, Invariance, PTL

\* alloc_function_id, place_function and the session's append agree: each
\* function is at the index of its FunctionId, however deep functions nest and
\* in whatever order they finish.
THEOREM FunctionTableCorrect == Spec => []FunctionTable
  <1>1. Inv => FunctionTable BY DEF Inv
  <1> QED BY <1>1, Invariance, PTL

\* LowerContext::resolve threads a captured variable to where it is used, over
\* any number of functions.
THEOREM CaptureChainCorrect == Spec => []CaptureChain
  <1>1. Inv => CaptureChain BY DEF Inv
  <1> QED BY <1>1, Invariance, PTL

\* CaptureList never takes a second slot for a variable it has.
THEOREM CapturesDistinct == Spec => []NoDuplicateCaptures
  <1>1. Inv => NoDuplicateCaptures BY DEF Inv
  <1> QED BY <1>1, Invariance, PTL

-----------------------------------------------------------------------------
(* What a step may do to the session *)

\* Names enter the registry by `intern` alone.
LEMMA RegistrySteps ==
    ASSUME Next
    PROVE  registry' = registry \/ \E n \in Interned : registry' = Interning(n)
  <1>1. CASE \E n \in Interned : BeginDef(n)
    BY <1>1 DEF BeginDef, session
  <1>2. CASE \E n \in Name : ResolveGlobal(n)
    <2>1. PICK n \in Name : ResolveGlobal(n) BY <1>2
    <2>2. CASE n \in Generated
      BY <2>1, <2>2 DEF ResolveGlobal, Fail, session
    <2>3. CASE ~(n \in Generated)
      <3>1. n \in Interned BY <2>3 DEF Name
      <3>2. registry' = Interning(n) BY <2>1, <2>3 DEF ResolveGlobal
      <3> QED BY <3>1, <3>2
    <2> QED BY <2>2, <2>3
  <1>3. CASE \E n \in Name : \/ ResolveLocal(n) \/ BeginCapture(n)
                             \/ EnterRange(n) \/ NextBinding(n)
    BY <1>3 DEF ResolveLocal, BeginCapture, EnterRange, EnterForm, NextBinding,
                Fail, session
  <1>4. CASE \E params \in BoundedSeq(Name, MaxParams) : EnterFn(params)
    BY <1>4 DEF EnterFn, Fail, session
  <1>5. CASE BeginExpr \/ CaptureHop \/ ExitFn \/ Break \/ Malformed \/ Finish
    BY <1>5 DEF BeginExpr, CaptureHop, ExitFn, Break, Malformed, Fail, Finish,
                session
  <1>6. CASE EnterLet \/ LetBody \/ LetExit \/ RangeBody \/ RangeExit
    BY <1>6 DEF EnterLet, EnterForm, LetBody, LetExit, RangeBody, RangeExit,
                CloseForm, session
  <1>7. CASE \/ EnterState \/ StateCond \/ StateBody \/ StateNext
             \/ StateUpdate \/ StateExit
    BY <1>7 DEF EnterState, EnterForm, StateCond, StateBody, StateNext,
                StateUpdate, StateExit, CloseForm, session
  <1> QED BY <1>1, <1>2, <1>3, <1>4, <1>5, <1>6, <1>7 DEF Next

\* The module changes only when a verified form is committed.
LEMMA ModuleSteps ==
    ASSUME Next
    PROVE  \/ module' = module
           \/ /\ module' = module \o functions /\ outcome' = "committed"
              /\ Finish
  <1>1. CASE Finish BY <1>1 DEF Finish
  <1>2. CASE \/ \E n \in Interned : BeginDef(n)
             \/ \E params \in BoundedSeq(Name, MaxParams) : EnterFn(params)
             \/ BeginExpr \/ CaptureHop \/ ExitFn \/ Break \/ Malformed
    BY <1>2 DEF BeginDef, EnterFn, BeginExpr, CaptureHop, ExitFn, Break,
                Malformed, Fail, session
  <1>3. CASE \E n \in Name : \/ ResolveLocal(n) \/ ResolveGlobal(n)
                             \/ BeginCapture(n) \/ EnterRange(n)
                             \/ NextBinding(n)
    BY <1>3 DEF ResolveLocal, ResolveGlobal, BeginCapture, EnterRange,
                EnterForm, NextBinding, Fail, session
  <1>4. CASE EnterLet \/ LetBody \/ LetExit \/ RangeBody \/ RangeExit
    BY <1>4 DEF EnterLet, EnterForm, LetBody, LetExit, RangeBody, RangeExit,
                CloseForm, session
  <1>5. CASE \/ EnterState \/ StateCond \/ StateBody \/ StateNext
             \/ StateUpdate \/ StateExit
    BY <1>5 DEF EnterState, EnterForm, StateCond, StateBody, StateNext,
                StateUpdate, StateExit, CloseForm, session
  <1> QED BY <1>1, <1>2, <1>3, <1>4, <1>5 DEF Next

\* A GlobalId, once given out by GlobalRegistry::intern, keeps its name through
\* every later form, failed ones included.
THEOREM RegistryNeverChanges == Spec => RegistryStable
  <1>1. Inv /\ Inv' /\ [Next]_vars
          => [IsPrefix(registry, registry') /\ IsInjective(registry')]_vars
    <2> SUFFICES ASSUME Inv, Inv', Next
                 PROVE  IsPrefix(registry, registry') /\ IsInjective(registry')
      OBVIOUS
    <2>1. IsInjective(registry') BY DEF Inv
    <2>2. registry \in Seq(Interned) BY DEF Inv, TypeOK
    <2>3. CASE registry' = registry BY <2>1, <2>2, <2>3, PrefixOfSelf
    <2>4. ASSUME NEW n \in Interned, registry' = Interning(n)
          PROVE  IsPrefix(registry, registry')
      <3>1. CASE n \in Range(registry)
        BY <2>2, <2>4, <3>1, PrefixOfSelf DEF Interning
      <3>2. CASE n \notin Range(registry)
        <4>1. registry' = registry \o <<n>>
          BY <2>2, <2>4, <3>2 DEF Interning
        <4>2. <<n>> \in Seq(Interned) OBVIOUS
        <4> QED BY <2>2, <4>1, <4>2, PrefixOfConcat
      <3> QED BY <3>1, <3>2
    <2> QED BY <2>1, <2>3, <2>4, RegistrySteps
  <1>2. Spec => []Inv BY Invariance
  <1> QED BY <1>1, <1>2, PTL DEF Spec, RegistryStable

\* A FunctionId of a committed function stays valid, and a form that fails or is
\* rejected leaves the module as it was.
THEOREM ModuleNeverChanges == Spec => ModuleStable
  <1>1. Inv /\ [Next]_vars
          => [/\ IsPrefix(module, module')
              /\ outcome' \in {"failed", "rejected"} => module' = module]_vars
    <2> SUFFICES ASSUME Inv, Next
                 PROVE  /\ IsPrefix(module, module')
                        /\ outcome' \in {"failed", "rejected"} => module' = module
      OBVIOUS
    <2>1. /\ module \in Seq(Function)
          /\ functions \in Seq(Function \cup {Pending})
      BY DEF Inv, TypeOK
    <2>2. CASE module' = module BY <2>1, <2>2, PrefixOfSelf
    <2>3. CASE module' = module \o functions /\ outcome' = "committed"
      <3>1. module \in Seq(Function \cup {Pending}) BY <2>1
      <3> QED BY <2>1, <2>3, <3>1, PrefixOfConcat
    <2> QED BY <2>2, <2>3, ModuleSteps
  <1>2. Spec => []Inv BY Invariance
  <1> QED BY <1>1, <1>2, PTL DEF Spec, ModuleStable

-----------------------------------------------------------------------------
(* What each step does to the frames, field by field: where every proof about
   the loops, the scopes and the instructions of the lowerer starts *)

Fields == {"id", "params", "scopes", "captures", "nextLocal", "loops", "code",
           "handlers", "outer"}

\* g is a frame that differs from f in the fields `changed` at most.
Changed(f, g, changed) ==
    /\ DOMAIN g = Fields
    /\ \A k \in Fields \ changed : g[k] = f[k]

LEMMA FrameFields == ASSUME NEW f \in Frame PROVE DOMAIN f = Fields
  BY DEF Frame, Fields

-----------------------------------------------------------------------------
(* The operations of FunctionScope *)

LEMMA FieldUpdates ==
    ASSUME NEW f, DOMAIN f = Fields, NEW x
    PROVE  /\ Changed(f, Emit(f, x), {"code"})
           /\ Emit(f, x).code = f.code \cup {x}
           /\ Changed(f, PushHandler(f, x), {"handlers"})
           /\ PushHandler(f, x).handlers = Append(f.handlers, x)
           /\ Changed(f, PopHandler(f), {"handlers"})
           /\ PopHandler(f).handlers = Front(f.handlers)
           /\ Changed(f, SetHandler(f, x), {"handlers"})
           /\ SetHandler(f, x).handlers = Append(Front(f.handlers), x)
           /\ Changed(f, PushLoop(f, x), {"loops"})
           /\ PushLoop(f, x).loops = Append(f.loops, x)
           /\ Changed(f, PopLoop(f), {"loops"})
           /\ PopLoop(f).loops = Front(f.loops)
           /\ Changed(f, PushScope(f), {"scopes"})
           /\ PushScope(f).scopes = Append(f.scopes, EmptyScope)
           /\ Changed(f, PopScope(f), {"scopes"})
           /\ PopScope(f).scopes = Front(f.scopes)
  BY DEF Fields, Changed, Emit, PushHandler, PopHandler, SetHandler, PushLoop,
         PopLoop, PushScope, PopScope

\* What declare of `names` from the slot `first` on makes of a scope.
Declared(scope, names, first) ==
    [n \in Name |-> IF n \in Range(names)
                    THEN LastEntry(names, [i \in DOMAIN names |-> first + i - 1], n)
                    ELSE scope[n]]

LEMMA DeclareUpdates ==
    ASSUME NEW f, DOMAIN f = Fields, NEW names
    PROVE  /\ Changed(f, Declare(f, names), {"nextLocal", "scopes"})
           /\ Declare(f, names).nextLocal = f.nextLocal + Len(names)
           /\ Declare(f, names).scopes =
                Append(Front(f.scopes), Declared(Last(f.scopes), names, f.nextLocal))
  BY DEF Fields, Changed, Declare, Declared, FreshSlots

LEMMA CaptureUpdates ==
    ASSUME NEW f, DOMAIN f = Fields, NEW src, NEW origin
    PROVE  Changed(f, CaptureIn(f, src, origin), {"captures"})
  BY DEF Fields, Changed, CaptureIn

\* The frame whose innermost form goes on to `at`, in its own scope.
Opened(f, at, loop) ==
    LET h == Last(f.handlers) IN
    SetHandler(Declare(PushScope(f), h.names),
      [h EXCEPT !.at = at, !.loop = loop, !.slots = FreshSlots(f, h.names)])

LEMMA OpenedFields ==
    ASSUME NEW f \in Frame, NEW at, NEW loop
    PROVE  LET F == Opened(f, at, loop)
               h == Last(f.handlers)
           IN /\ Changed(f, F, {"scopes", "nextLocal", "handlers"})
              /\ F.nextLocal = f.nextLocal + Len(h.names)
              /\ F.handlers = Append(Front(f.handlers),
                   [h EXCEPT !.at = at, !.loop = loop,
                             !.slots = FreshSlots(f, h.names)])
              /\ F.scopes = Append(f.scopes,
                              Declared(EmptyScope, h.names, f.nextLocal))
  <1> DEFINE h == Last(f.handlers)
             g == [h EXCEPT !.at = at, !.loop = loop,
                            !.slots = FreshSlots(f, h.names)]
             f1 == PushScope(f)
             f2 == Declare(f1, h.names)
             f3 == SetHandler(f2, g)
  <1>1. DOMAIN f = Fields /\ f.scopes \in Seq(Scope)
    BY FrameFields DEF Frame
  <1>2. Changed(f, f1, {"scopes"}) /\ f1.scopes = Append(f.scopes, EmptyScope)
    BY <1>1, FieldUpdates
  <1> HIDE DEF f1, g, h
  <1>3. /\ Changed(f1, f2, {"nextLocal", "scopes"})
        /\ f2.nextLocal = f1.nextLocal + Len(h.names)
        /\ f2.scopes = Append(Front(f1.scopes),
                              Declared(Last(f1.scopes), h.names, f1.nextLocal))
    BY <1>2, DeclareUpdates DEF Changed
  <1> HIDE DEF f2
  <1>4. /\ Changed(f2, f3, {"handlers"})
        /\ f3.handlers = Append(Front(f2.handlers), g)
    BY <1>3, FieldUpdates DEF Changed
  <1> HIDE DEF f3
  <1>5. Changed(f, f3, {"scopes", "nextLocal", "handlers"})
    BY <1>2, <1>3, <1>4 DEF Changed
  <1>6. /\ f3.nextLocal = f.nextLocal + Len(h.names)
        /\ f3.handlers = Append(Front(f.handlers), g)
    BY <1>2, <1>3, <1>4 DEF Changed, Fields
  <1>7. f3.scopes = Append(f.scopes, Declared(EmptyScope, h.names, f.nextLocal))
    <2>1. EmptyScope \in Scope BY DEF EmptyScope, Scope, NoSlot
    <2>2. /\ Front(f1.scopes) = f.scopes /\ Last(f1.scopes) = EmptyScope
      BY <1>1, <1>2, <2>1, LastOfAppend
    <2>3. f3.scopes = f2.scopes /\ f1.nextLocal = f.nextLocal
      BY <1>2, <1>4 DEF Changed, Fields
    <2> QED BY <1>3, <2>2, <2>3
  <1>8. f3 = Opened(f, at, loop)
    BY DEF f1, f2, f3, g, h, Opened
  <1> QED BY <1>5, <1>6, <1>7, <1>8 DEF g, h

\* The frame whose innermost form is finished, as instruction i.
Closed(f, i) == Emit(PopHandler(PopScope(f)), i)

LEMMA ClosedFields ==
    ASSUME NEW f \in Frame, NEW i
    PROVE  LET F == Closed(f, i)
           IN /\ Changed(f, F, {"scopes", "handlers", "code"})
              /\ F.scopes = Front(f.scopes)
              /\ F.handlers = Front(f.handlers)
              /\ F.code = f.code \cup {i}
  <1> DEFINE f1 == PopScope(f)
             f2 == PopHandler(f1)
             f3 == Emit(f2, i)
  <1>1. DOMAIN f = Fields BY FrameFields
  <1>2. Changed(f, f1, {"scopes"}) /\ f1.scopes = Front(f.scopes)
    BY <1>1, FieldUpdates
  <1> HIDE DEF f1
  <1>3. Changed(f1, f2, {"handlers"}) /\ f2.handlers = Front(f1.handlers)
    BY <1>2, FieldUpdates DEF Changed
  <1> HIDE DEF f2
  <1>4. Changed(f2, f3, {"code"}) /\ f3.code = f2.code \cup {i}
    BY <1>3, FieldUpdates DEF Changed
  <1> HIDE DEF f3
  <1>5. Changed(f, f3, {"scopes", "handlers", "code"})
    BY <1>2, <1>3, <1>4 DEF Changed
  <1>6. /\ f3.scopes = Front(f.scopes) /\ f3.handlers = Front(f.handlers)
        /\ f3.code = f.code \cup {i}
    BY <1>2, <1>3, <1>4 DEF Changed, Fields
  <1> QED BY <1>5, <1>6 DEF f1, f2, f3, Closed

LEMMA NewFrameFields ==
    ASSUME NEW id
    PROVE  LET F == NewFrame(id)
           IN /\ DOMAIN F = Fields
              /\ F.id = id /\ F.params = 0 /\ F.scopes = <<EmptyScope>>
              /\ F.captures = <<>> /\ F.nextLocal = 0 /\ F.loops = <<>>
              /\ F.code = {} /\ F.handlers = <<>> /\ F.outer = env
  BY DEF NewFrame, Fields

\* The frame of a function that begins: its parameters are declared.
Entered(id, params) ==
    [Declare(NewFrame(id), params) EXCEPT !.params = Len(params)]

LEMMA EnteredFields ==
    ASSUME NEW id, NEW params \in Seq(Name)
    PROVE  LET F == Entered(id, params)
           IN /\ DOMAIN F = Fields
              /\ F.id = id /\ F.params = Len(params)
              /\ F.scopes = <<Declared(EmptyScope, params, 0)>>
              /\ F.captures = <<>> /\ F.nextLocal = Len(params)
              /\ F.loops = <<>> /\ F.code = {} /\ F.handlers = <<>>
              /\ F.outer = env
  <1> DEFINE f == NewFrame(id)
             g == Declare(f, params)
             F == [g EXCEPT !.params = Len(params)]
  <1>1. /\ DOMAIN f = Fields
        /\ f.id = id /\ f.scopes = <<EmptyScope>> /\ f.captures = <<>>
        /\ f.nextLocal = 0 /\ f.loops = <<>> /\ f.code = {}
        /\ f.handlers = <<>> /\ f.outer = env
    BY NewFrameFields
  <1> HIDE DEF f
  <1>2. /\ Changed(f, g, {"nextLocal", "scopes"})
        /\ g.nextLocal = f.nextLocal + Len(params)
        /\ g.scopes = Append(Front(f.scopes),
                             Declared(Last(f.scopes), params, f.nextLocal))
    BY <1>1, DeclareUpdates
  <1> HIDE DEF g
  <1>3. /\ DOMAIN F = Fields /\ F.params = Len(params)
        /\ \A k \in Fields \ {"params"} : F[k] = g[k]
    BY <1>2 DEF Changed, Fields
  <1> HIDE DEF F
  <1>4. F.scopes = <<Declared(EmptyScope, params, 0)>>
    <2>1. EmptyScope \in Scope BY DEF EmptyScope, Scope, NoSlot
    <2>2. <<EmptyScope>> = Append(<<>>, EmptyScope) /\ <<>> \in Seq(Scope)
      OBVIOUS
    <2>3. Front(<<EmptyScope>>) = <<>> /\ Last(<<EmptyScope>>) = EmptyScope
      BY <2>1, <2>2, LastOfAppend
    <2>4. F.scopes = Append(<<>>, Declared(EmptyScope, params, 0))
      BY <1>1, <1>2, <1>3, <2>3 DEF Fields
    <2> QED BY <2>4
  <1>5. F.nextLocal = Len(params)
    <2>1. F.nextLocal = 0 + Len(params) BY <1>1, <1>2, <1>3 DEF Fields
    <2> QED BY <2>1
  <1>6. /\ F.id = id /\ F.captures = <<>> /\ F.loops = <<>> /\ F.code = {}
        /\ F.handlers = <<>> /\ F.outer = env
    BY <1>1, <1>2, <1>3 DEF Changed, Fields
  <1> QED BY <1>3, <1>4, <1>5, <1>6 DEF f, g, F, Entered

-----------------------------------------------------------------------------
(* The steps that change more than the top of the stack *)

\* EnterFn adds a frame, and a function still to be placed.
LEMMA EnterFnEffect ==
    ASSUME Inv, NEW params \in Seq(Name), IsInjective(params), EnterFn(params)
    PROVE  LET n == Len(stack)
               F == Entered(Len(module) + Len(functions), params)
           IN /\ AtExpr /\ stack # <<>> /\ hop = NoHop
              /\ n \in Nat /\ Len(stack') = n + 1 /\ DOMAIN stack' = 1..(n + 1)
              /\ stack'[n + 1] = F
              /\ \A d \in 1..n : d \in DOMAIN stack /\ stack'[d] = stack[d]
              /\ functions' = Append(functions, Pending)
              /\ functions \in Seq(Function \cup {Pending})
              /\ env' = Bound(params, [i \in DOMAIN params |-> 0 + i - 1], n + 1)
              /\ UNCHANGED <<registry, module, nextLoopId, nextLoop, hop, target,
                             outcome>>
  <1> DEFINE id == Len(module) + Len(functions)
             F == Entered(id, params)
             fresh == NewFrame(id)
  <1>1. /\ AtExpr /\ stack # <<>> /\ hop = NoHop
        /\ functions' = Append(functions, Pending)
        /\ stack' = Append(stack, F)
        /\ env' = Bound(params, FreshSlots(fresh, params), Len(stack) + 1)
        /\ UNCHANGED <<session, nextLoop, hop, target, outcome>>
    BY DEF EnterFn, AtExpr, Lowering, Entered
  <1>2. /\ stack \in Seq(Frame) /\ functions \in Seq(Function \cup {Pending})
    BY DEF Inv, TypeOK
  <1>3. FreshSlots(fresh, params) = [i \in DOMAIN params |-> 0 + i - 1]
    BY NewFrameFields DEF FreshSlots
  <1> HIDE DEF fresh, F
  <1>4. /\ Len(stack) \in Nat /\ Len(stack') = Len(stack) + 1
        /\ DOMAIN stack' = 1..(Len(stack) + 1)
        /\ stack'[Len(stack) + 1] = F
        /\ \A d \in 1..Len(stack) : d \in DOMAIN stack /\ stack'[d] = stack[d]
    BY <1>1, <1>2
  <1> QED BY <1>1, <1>2, <1>3, <1>4 DEF F, session

\* ExitFn takes the top frame off, places its function, and the frame below
\* has a closure more.
ClosureOf(frame) ==
    [op |-> "closure", fn |-> frame.id,
     sources |-> [i \in DOMAIN frame.captures |-> frame.captures[i].src]]
FunctionOf(frame) ==
    [id |-> frame.id, params |-> frame.params,
     captureCount |-> Len(frame.captures), localCount |-> frame.nextLocal,
     code |-> frame.code]

LEMMA ExitFnEffect ==
    ASSUME Inv, ExitFn
    PROVE  LET n == Len(stack)
               p == Top.id - Len(module) + 1
           IN /\ AtExpr /\ hop = NoHop /\ Top.handlers = <<>>
              /\ n \in Nat /\ n > 1 /\ Top = stack[n] /\ Top \in Frame
              /\ n \in DOMAIN stack
              /\ Len(stack') = n - 1 /\ DOMAIN stack' = 1..(n - 1)
              /\ n - 1 \in DOMAIN stack
              /\ stack'[n - 1] = Emit(stack[n - 1], ClosureOf(Top))
              /\ \A d \in 1..(n - 2) : d \in DOMAIN stack /\ stack'[d] = stack[d]
              /\ p \in DOMAIN functions /\ functions[p] = Pending
              /\ DOMAIN functions' = DOMAIN functions
              /\ functions'[p] = FunctionOf(Top) /\ functions'[p] # Pending
              /\ \A i \in DOMAIN functions : i # p => functions'[i] = functions[i]
              /\ env' = Top.outer
              /\ UNCHANGED <<registry, module, nextLoopId, nextLoop, hop, target,
                             outcome>>
  <1> DEFINE n == Len(stack)
             p == PlaceOf(Top.id)
             fr == Front(stack)
             G == Emit(Last(Front(stack)), ClosureOf(Top))
             fun == FunctionOf(Top)
  <1>1. /\ AtExpr /\ hop = NoHop /\ Top.handlers = <<>> /\ n > 1
        /\ stack # <<>>
        /\ functions' = [functions EXCEPT ![p] = fun]
        /\ stack' = [fr EXCEPT ![n - 1] = G]
        /\ env' = Top.outer
        /\ UNCHANGED <<session, nextLoop, hop, target, outcome>>
    BY DEF ExitFn, AtExpr, Lowering, ClosureOf, FunctionOf
  <1>2. /\ stack \in Seq(Frame) /\ n \in Nat /\ DOMAIN stack = 1..n
        /\ Top = stack[n] /\ Top \in Frame
    BY <1>1, TopFacts DEF Inv, TypeOK
  <1>3. /\ fr \in Seq(Frame) /\ Len(fr) = n - 1
        /\ \A d \in 1..(n - 1) : fr[d] = stack[d]
    BY <1>1, <1>2, FrontLast
  <1> HIDE DEF fr, G
  <1>4. G = Emit(stack[n - 1], ClosureOf(Top))
    <2>1. n - 1 \in 1..(n - 1) BY <1>1, <1>2
    <2>2. Len(fr) # 0 BY <1>1, <1>2, <1>3
    <2>3. fr # <<>> BY <2>2
    <2>4. Last(fr) = fr[n - 1] BY <1>3, <2>3, FrontLast
    <2> QED BY <1>3, <2>1, <2>4 DEF G, fr
  <1>5. /\ n \in DOMAIN stack /\ n - 1 \in DOMAIN stack
        /\ Len(stack') = n - 1 /\ DOMAIN stack' = 1..(n - 1)
        /\ stack'[n - 1] = G
        /\ \A d \in 1..(n - 2) : d \in DOMAIN stack /\ stack'[d] = stack[d]
    <2> HIDE DEF n
    <2> QED BY <1>1, <1>2, <1>3
  <1>6. /\ Top.id \in Nat /\ p \in DOMAIN functions /\ functions[p] = Pending
        /\ p = Top.id - Len(module) + 1
    BY <1>1, <1>2, PendingFacts DEF PlaceOf
  <1>7. fun # Pending
    <2>1. fun.id # Pending.id BY <1>6 DEF Pending, NoFunction, FunctionOf
    <2> QED BY <2>1
  <1> HIDE DEF p, fun
  <1>8. /\ DOMAIN functions' = DOMAIN functions /\ functions'[p] = fun
        /\ \A i \in DOMAIN functions : i # p => functions'[i] = functions[i]
    BY <1>1, <1>6
  <1> QED BY <1>1, <1>2, <1>4, <1>5, <1>6, <1>7, <1>8 DEF p, fun, session

\* CaptureHop gives one frame the capture, and the last one its load.
LEMMA CaptureHopEffect ==
    ASSUME Inv, CaptureHop
    PROVE  LET at == hop.at
           IN /\ hop # NoHop /\ hop \in Hop
              /\ at \in 2..Len(stack) /\ at \in DOMAIN stack
              /\ \E G, i :
                    /\ Changed(stack[at], G, {"captures", "code"})
                    /\ \A j \in DOMAIN stack[at].captures :
                          /\ j \in DOMAIN G.captures
                          /\ G.captures[j] = stack[at].captures[j]
                    /\ i \in DOMAIN G.captures /\ i \in Nat
                    /\ G.captures[i].src = hop.src
                    /\ G.captures[i].origin = hop.origin
                    /\ \A j \in DOMAIN G.captures : \/ j \in DOMAIN stack[at].captures
                                                    \/ G.captures[j] = G.captures[i]
                    /\ stack' = [stack EXCEPT ![at] = G]
                    /\ \/ /\ at = Len(stack) /\ hop' = NoHop
                          /\ G.code = stack[at].code \cup
                               {LoadOf("capture", i - 1, hop.name, hop.binder)}
                       \/ /\ at # Len(stack) /\ G.code = stack[at].code
                          /\ hop' = [hop EXCEPT !.at = @ + 1, !.src = CarriedFrom(i)]
              /\ UNCHANGED <<registry, module, nextLoopId, functions, nextLoop,
                             target, env, outcome>>
  <1> DEFINE at == hop.at
             f == stack[at]
             g == CaptureIn(f, hop.src, hop.origin)
             load(i) == LoadOf("capture", i - 1, hop.name, hop.binder)
             onwards(i) == [hop EXCEPT !.at = @ + 1, !.src = CarriedFrom(i)]
  <1>1. /\ hop # NoHop
        /\ UNCHANGED <<session, functions, nextLoop, target, env, outcome>>
    BY DEF CaptureHop
  <1>2. at \in 2..Len(stack) /\ hop \in Hop
    BY <1>1 DEF Inv, HopLeads, TypeOK
  <1>3. at \in DOMAIN stack /\ f \in Frame
    BY <1>2 DEF Inv, TypeOK
  <1>4. Changed(f, g, {"captures"}) /\ DOMAIN f = Fields
    BY <1>3, FrameFields, CaptureUpdates
  <1>5. PICK i \in DOMAIN g.captures :
           /\ g.captures[i].src = hop.src
           /\ at = Len(stack) => hop' = NoHop /\ stack' = SetTop(Emit(g, load(i)))
           /\ at # Len(stack) => /\ hop' = onwards(i)
                                 /\ stack' = [stack EXCEPT ![at] = g]
    BY DEF CaptureHop, IsFor
  <1>6. /\ f.captures \in Seq(Capture) /\ g.captures \in Seq(Capture) /\ i \in Nat
        /\ \A j \in DOMAIN f.captures :
              j \in DOMAIN g.captures /\ g.captures[j] = f.captures[j]
        /\ \A j \in DOMAIN g.captures :
              \/ j \in DOMAIN f.captures
              \/ /\ j = Len(f.captures) + 1
                 /\ g.captures[j] = [src |-> hop.src, origin |-> hop.origin]
                 /\ \A k \in DOMAIN f.captures : f.captures[k].src # hop.src
    <2>1. FrameOK(f) BY <1>3 DEF Inv, FrameOK
    <2>2. hop.src \in Source /\ hop.origin \in Binder BY <1>2 DEF Hop
    <2> DEFINE entry == [src |-> hop.src, origin |-> hop.origin]
    <2>3. /\ f.captures \in Seq(Capture) /\ g.captures \in Seq(Capture)
          /\ \A j \in DOMAIN f.captures :
                j \in DOMAIN g.captures /\ g.captures[j] = f.captures[j]
          /\ \A j \in DOMAIN g.captures :
                \/ j \in DOMAIN f.captures
                \/ /\ j = Len(f.captures) + 1 /\ g.captures[j] = entry
                   /\ \A k \in DOMAIN f.captures : f.captures[k].src # hop.src
      <3> HIDE DEF f
      <3> QED BY <2>1, <2>2, CaptureInOK DEF g, entry
    <2>4. i \in Nat
      <3> HIDE DEF f, g
      <3> QED BY <1>5, <2>3
    <2> HIDE DEF f, g
    <2> QED BY <2>3, <2>4, Zenon DEF entry
  <1>7. g.captures[i].origin = hop.origin
    <2>1. CASE i \in DOMAIN f.captures
      <3>1. Leads(at, hop.src, f.captures[i].origin)
        BY <1>3, <1>5, <1>6, <2>1 DEF Inv, CaptureChain
      <3>2. Leads(at, hop.src, hop.origin) BY <1>1 DEF Inv, HopLeads
      <3> QED BY <1>6, <2>1, <3>1, <3>2, LeadsUnique
    <2>2. CASE i \notin DOMAIN f.captures BY <1>5, <1>6, <2>2
    <2> QED BY <2>1, <2>2
  <1>8. ASSUME NEW j \in DOMAIN g.captures
         PROVE  j \in DOMAIN f.captures \/ g.captures[j] = g.captures[i]
    <2>1. CASE j \notin DOMAIN f.captures
      <3>1. \A k \in DOMAIN f.captures : f.captures[k].src # hop.src
        BY <1>6, <2>1
      <3>2. i \notin DOMAIN f.captures BY <1>5, <1>6, <3>1
      <3> QED BY <1>5, <1>6, <2>1, <3>2
    <2> QED BY <2>1
  <1> HIDE DEF g, load, onwards
  <1>9. CASE at = Len(stack)
    <2> DEFINE G == Emit(g, load(i))
    <2>1. /\ Changed(g, G, {"code"}) /\ G.code = g.code \cup {load(i)}
      BY <1>4, FieldUpdates DEF Changed
    <2> HIDE DEF G
    <2>2. /\ Changed(f, G, {"captures", "code"}) /\ G.captures = g.captures
          /\ G.code = f.code \cup {load(i)}
      BY <1>4, <2>1 DEF Changed, Fields
    <2>3. stack' = [stack EXCEPT ![at] = G] /\ hop' = NoHop
      BY <1>5, <1>9 DEF G, SetTop
    <2>4. /\ Changed(f, G, {"captures", "code"})
          /\ \A j \in DOMAIN f.captures :
                j \in DOMAIN G.captures /\ G.captures[j] = f.captures[j]
          /\ i \in DOMAIN G.captures /\ i \in Nat /\ G.captures[i].src = hop.src
          /\ G.captures[i].origin = hop.origin
          /\ \A j \in DOMAIN G.captures :
                j \in DOMAIN f.captures \/ G.captures[j] = G.captures[i]
          /\ stack' = [stack EXCEPT ![at] = G]
          /\ at = Len(stack) /\ hop' = NoHop
          /\ G.code = f.code \cup
                {LoadOf("capture", i - 1, hop.name, hop.binder)}
      BY <1>5, <1>9, <1>6, <1>7, <1>8, <2>2, <2>3 DEF load
    <2> HIDE DEF f, at
    <2> QED BY <1>1, <1>2, <1>3, <2>4, Zenon DEF session, f, at
  <1>10. CASE at # Len(stack)
    <2>1. Changed(f, g, {"captures", "code"}) /\ g.code = f.code
      BY <1>4 DEF Changed, Fields
    <2>2. stack' = [stack EXCEPT ![at] = g] /\ hop' = onwards(i)
      BY <1>5, <1>10
    <2>3. /\ Changed(f, g, {"captures", "code"})
          /\ \A j \in DOMAIN f.captures :
                j \in DOMAIN g.captures /\ g.captures[j] = f.captures[j]
          /\ i \in DOMAIN g.captures /\ i \in Nat /\ g.captures[i].src = hop.src
          /\ g.captures[i].origin = hop.origin
          /\ \A j \in DOMAIN g.captures :
                j \in DOMAIN f.captures \/ g.captures[j] = g.captures[i]
          /\ stack' = [stack EXCEPT ![at] = g]
          /\ at # Len(stack) /\ g.code = f.code
          /\ hop' = [hop EXCEPT !.at = @ + 1, !.src = CarriedFrom(i)]
      BY <1>5, <1>10, <1>6, <1>7, <1>8, <2>1, <2>2 DEF onwards
    <2> HIDE DEF f, at
    <2> QED BY <1>1, <1>2, <1>3, <2>3, Zenon DEF session, f, at
  <1> QED BY <1>9, <1>10

-----------------------------------------------------------------------------
(* Loops: the inductive invariant *)

\* The ids of the loops whose calls are in progress.
LoopIds(hs) == {hs[i].loop : i \in {j \in DOMAIN hs : hs[j].loop # NoLoop}}

\* A call has an id from the end of its initializers on, if it is a loop's.
HasItsLoop(h) == h.loop # NoLoop <=> h.kind # "let" /\ h.at # "init"

IsBody(h) == h.kind # "let" /\ h.at = "body"

\* A break is inside its loop, and no loop is inside itself.
WellNested(code) ==
    \A i \in code : /\ i.op = "break" => i.loop \in i.within
                    /\ i.op = "loop" => i.loop \notin i.within

\* What a function's loop_stack, calls in progress and code have in common.
LoopState(loops, hs, code) ==
    /\ LoopsFollow(loops, hs)
    /\ \A i \in DOMAIN hs : HasItsLoop(hs[i])
    /\ \A i, j \in DOMAIN hs : hs[i].loop = hs[j].loop => i = j \/ hs[i].loop = NoLoop
    /\ LoopsIn(code) \cap LoopIds(hs) = {}
    /\ FinishedApart(code)
    /\ WellNested(code)

LoopFrame(f) == LoopState(f.loops, f.handlers, f.code)
LoopFunction(f) == f # Pending => FinishedApart(f.code) /\ WellNested(f.code)

\* The form's loops have the ids given out since it began, the module's have
\* older ones, and no two functions share one.
LoopInv ==
    /\ nextLoopId <= nextLoop
    /\ \A d \in DOMAIN stack :
          /\ LoopFrame(stack[d])
          /\ FrameLoops(stack[d]) \subseteq nextLoopId..(nextLoop - 1)
    /\ \A i \in DOMAIN functions :
          /\ LoopFunction(functions[i])
          /\ KeptLoops(functions[i]) \subseteq nextLoopId..(nextLoop - 1)
    /\ \A i \in DOMAIN module :
          /\ LoopFunction(module[i])
          /\ KeptLoops(module[i]) \subseteq 0..(nextLoopId - 1)
    /\ \A d, e \in DOMAIN stack :
          d # e => FrameLoops(stack[d]) \cap FrameLoops(stack[e]) = {}
    /\ \A i, j \in DOMAIN functions :
          i # j => KeptLoops(functions[i]) \cap KeptLoops(functions[j]) = {}
    /\ \A i \in DOMAIN functions, d \in DOMAIN stack :
          KeptLoops(functions[i]) \cap FrameLoops(stack[d]) = {}
    /\ \A i, j \in DOMAIN module :
          i # j => KeptLoops(module[i]) \cap KeptLoops(module[j]) = {}

-----------------------------------------------------------------------------
(* loop_stack as the forms in progress are pushed and popped *)

\* LoopBodies of a call more.
LEMMA BodiesAppend ==
    ASSUME NEW hs \in Seq(Handler), NEW h \in Handler
    PROVE  /\ LoopBodies(hs) \in SUBSET (1..Len(hs))
           /\ IsBody(h) => LoopBodies(Append(hs, h)) = LoopBodies(hs) \cup {Len(hs) + 1}
           /\ ~IsBody(h) => LoopBodies(Append(hs, h)) = LoopBodies(hs)
           /\ \A i \in LoopBodies(hs) : Append(hs, h)[i] = hs[i]
           /\ Append(hs, h)[Len(hs) + 1] = h
  BY DEF LoopBodies, IsBody

LEMMA FollowNoBody ==
    ASSUME NEW loops, NEW hs \in Seq(Handler), NEW h \in Handler, ~IsBody(h)
    PROVE  LoopsFollow(loops, Append(hs, h)) <=> LoopsFollow(loops, hs)
  BY BodiesAppend DEF LoopsFollow

LEMMA FollowPush ==
    ASSUME NEW loops \in Seq(Nat), NEW hs \in Seq(Handler), NEW h \in Handler,
           IsBody(h), h.loop \in Nat, LoopsFollow(loops, hs)
    PROVE  LoopsFollow(Append(loops, h.loop), Append(hs, h))
  <1> DEFINE P == LoopBodies(hs)
             n == Len(hs)
             ls == Append(loops, h.loop)
             gs == Append(hs, h)
  <1>1. /\ n \in Nat /\ P \in SUBSET (1..n) /\ LoopBodies(gs) = P \cup {n + 1}
        /\ \A i \in P : gs[i] = hs[i]
        /\ gs[n + 1] = h
    BY BodiesAppend
  <1>2. /\ Len(loops) = Cardinality(P)
        /\ \A i \in P : loops[Cardinality({j \in P : j <= i})] = hs[i].loop
    BY DEF LoopsFollow
  <1>3. /\ Len(ls) = Cardinality(P) + 1 /\ ls[Cardinality(P) + 1] = h.loop
        /\ \A i \in 1..Cardinality(P) : ls[i] = loops[i]
    BY <1>2
  <1> HIDE DEF P, n, ls, gs
  <1>4. Len(ls) = Cardinality(P \cup {n + 1}) BY <1>1, <1>3, RankFacts
  <1>5. ASSUME NEW i \in P \cup {n + 1}
        PROVE  ls[Cardinality({j \in P \cup {n + 1} : j <= i})] = gs[i].loop
    <2>1. CASE i \in P
      <3>1. /\ {j \in P \cup {n + 1} : j <= i} = {j \in P : j <= i}
            /\ Cardinality({j \in P : j <= i}) \in 1..Cardinality(P)
        BY <1>1, <2>1, RankFacts
      <3> QED BY <1>1, <1>2, <1>3, <2>1, <3>1
    <2>2. CASE i = n + 1
      <3>1. /\ {j \in P \cup {n + 1} : j <= n + 1} = P \cup {n + 1}
            /\ Cardinality(P \cup {n + 1}) = Cardinality(P) + 1
        BY <1>1, RankFacts
      <3> QED BY <1>1, <1>3, <2>2, <3>1
    <2> QED BY <2>1, <2>2
  <1>6. LoopsFollow(ls, gs) BY <1>1, <1>4, <1>5 DEF LoopsFollow
  <1> QED BY <1>6 DEF ls, gs

LEMMA FollowPop ==
    ASSUME NEW loops \in Seq(Nat), NEW hs \in Seq(Handler), NEW h \in Handler,
           IsBody(h), LoopsFollow(loops, Append(hs, h))
    PROVE  /\ loops # <<>> /\ Last(loops) = h.loop
           /\ LoopsFollow(Front(loops), hs)
  <1> DEFINE P == LoopBodies(hs)
             n == Len(hs)
             gs == Append(hs, h)
             c == Cardinality(P)
  <1>1. /\ n \in Nat /\ P \in SUBSET (1..n) /\ LoopBodies(gs) = P \cup {n + 1}
        /\ \A i \in P : gs[i] = hs[i]
        /\ gs[n + 1] = h
    BY BodiesAppend
  <1> HIDE DEF P, n, gs
  <1>2. /\ Len(loops) = Cardinality(P \cup {n + 1})
        /\ \A i \in P \cup {n + 1} :
              loops[Cardinality({j \in P \cup {n + 1} : j <= i})] = gs[i].loop
    BY <1>1 DEF LoopsFollow, gs
  <1>3. /\ c \in Nat /\ Cardinality(P \cup {n + 1}) = c + 1
        /\ {j \in P \cup {n + 1} : j <= n + 1} = P \cup {n + 1}
    BY <1>1, RankFacts
  <1>4. Len(loops) = c + 1 /\ loops[c + 1] = h.loop BY <1>1, <1>2, <1>3
  <1>5. loops # <<>> BY <1>3, <1>4
  <1>6. /\ Last(loops) = h.loop /\ Len(Front(loops)) = c
        /\ \A i \in 1..c : Front(loops)[i] = loops[i]
    <2>1. /\ Len(Front(loops)) = Len(loops) - 1
          /\ \A i \in 1..(Len(loops) - 1) : Front(loops)[i] = loops[i]
          /\ Last(loops) = loops[Len(loops)]
      BY <1>5, FrontLast
    <2>2. Len(loops) - 1 = c BY <1>3, <1>4
    <2> QED BY <1>4, <2>1, <2>2
  <1>7. ASSUME NEW i \in P
        PROVE  Front(loops)[Cardinality({j \in P : j <= i})] = hs[i].loop
    <2>1. /\ {j \in P \cup {n + 1} : j <= i} = {j \in P : j <= i}
          /\ Cardinality({j \in P : j <= i}) \in 1..c
      BY <1>1, RankFacts
    <2> QED BY <1>1, <1>2, <1>6, <2>1
  <1> QED BY <1>5, <1>6, <1>7 DEF LoopsFollow, P

\* The ids in progress, and that no two calls have the same.
LEMMA IdsAppend ==
    ASSUME NEW hs \in Seq(Handler), NEW h \in Handler
    PROVE  LoopIds(Append(hs, h)) =
             LoopIds(hs) \cup (IF h.loop = NoLoop THEN {} ELSE {h.loop})
  <1> DEFINE gs == Append(hs, h)
  <1>1. /\ DOMAIN gs = DOMAIN hs \cup {Len(hs) + 1}
        /\ \A i \in DOMAIN hs : gs[i] = hs[i]
        /\ gs[Len(hs) + 1] = h
    OBVIOUS
  <1> HIDE DEF gs
  <1>2. LoopIds(gs) = LoopIds(hs) \cup (IF h.loop = NoLoop THEN {} ELSE {h.loop})
    BY <1>1 DEF LoopIds
  <1> QED BY <1>2 DEF gs

LEMMA IdsOfFrame ==
    ASSUME NEW f
    PROVE  /\ OpenLoops(f) = LoopIds(f.handlers)
           /\ FrameLoops(f) = LoopsIn(f.code) \cup LoopIds(f.handlers)
  <1>1. OpenLoops(f) = LoopIds(f.handlers)
    BY DEF OpenLoops, LoopIds, Range
  <1> QED BY <1>1 DEF FrameLoops

\* A call begins, or comes back, with an id no other loop of the function has.
LEMMA PushCall ==
    ASSUME NEW loops \in Seq(Nat), NEW hs \in Seq(Handler), NEW code \in SUBSET Instr,
           LoopState(loops, hs, code),
           NEW h \in Handler, HasItsLoop(h),
           h.loop = NoLoop \/ h.loop \notin LoopsIn(code) \cup LoopIds(hs)
    PROVE  LoopState(IF IsBody(h) THEN Append(loops, h.loop) ELSE loops,
                     Append(hs, h), code)
  <1> DEFINE gs == Append(hs, h)
             ls == IF IsBody(h) THEN Append(loops, h.loop) ELSE loops
  <1>1. /\ DOMAIN gs = DOMAIN hs \cup {Len(hs) + 1}
        /\ \A i \in DOMAIN hs : gs[i] = hs[i]
        /\ gs[Len(hs) + 1] = h
        /\ Len(hs) + 1 \notin DOMAIN hs
    OBVIOUS
  <1>2. LoopsFollow(ls, gs)
    <2>1. CASE IsBody(h)
      <3>1. h.loop \in Nat BY <2>1, HandlerFields DEF IsBody
      <3> QED BY <2>1, <3>1, FollowPush DEF LoopState
    <2>2. CASE ~IsBody(h) BY <2>2, FollowNoBody DEF LoopState
    <2> QED BY <2>1, <2>2
  <1> HIDE DEF gs, ls
  <1>3. \A i \in DOMAIN gs : HasItsLoop(gs[i]) BY <1>1 DEF LoopState
  <1>4. \A i, j \in DOMAIN gs :
           gs[i].loop = gs[j].loop => i = j \/ gs[i].loop = NoLoop
    <2>1. ASSUME NEW i \in DOMAIN hs, hs[i].loop = h.loop PROVE h.loop = NoLoop
      BY <2>1 DEF LoopIds
    <2> QED BY <1>1, <2>1 DEF LoopState
  <1>5. LoopsIn(code) \cap LoopIds(gs) = {}
    <2>1. LoopIds(gs) = LoopIds(hs) \cup (IF h.loop = NoLoop THEN {} ELSE {h.loop})
      BY IdsAppend DEF gs
    <2> QED BY <2>1 DEF LoopState
  <1>6. LoopState(ls, gs, code) BY <1>2, <1>3, <1>4, <1>5 DEF LoopState
  <1> QED BY <1>6 DEF ls, gs

\* The call on top ends, or is taken off to be put back changed.
LEMMA PopCall ==
    ASSUME NEW loops \in Seq(Nat), NEW hs \in Seq(Handler), NEW code \in SUBSET Instr,
           NEW h \in Handler, LoopState(loops, Append(hs, h), code)
    PROVE  /\ LoopState(IF IsBody(h) THEN Front(loops) ELSE loops, hs, code)
           /\ HasItsLoop(h)
           /\ h.loop = NoLoop \/ h.loop \notin LoopsIn(code) \cup LoopIds(hs)
           /\ IsBody(h) => loops # <<>> /\ Last(loops) = h.loop
  <1> DEFINE gs == Append(hs, h)
             ls == IF IsBody(h) THEN Front(loops) ELSE loops
  <1>1. /\ DOMAIN gs = DOMAIN hs \cup {Len(hs) + 1}
        /\ \A i \in DOMAIN hs : gs[i] = hs[i]
        /\ gs[Len(hs) + 1] = h
        /\ Len(hs) + 1 \notin DOMAIN hs
    OBVIOUS
  <1>2. /\ LoopsFollow(ls, hs)
        /\ IsBody(h) => loops # <<>> /\ Last(loops) = h.loop
    <2>1. CASE IsBody(h) BY <2>1, FollowPop DEF LoopState
    <2>2. CASE ~IsBody(h) BY <2>2, FollowNoBody DEF LoopState
    <2> QED BY <2>1, <2>2
  <1> HIDE DEF gs, ls
  <1>3. /\ \A i \in DOMAIN gs : HasItsLoop(gs[i])
        /\ \A i, j \in DOMAIN gs :
              gs[i].loop = gs[j].loop => i = j \/ gs[i].loop = NoLoop
        /\ LoopsIn(code) \cap LoopIds(gs) = {}
        /\ FinishedApart(code) /\ WellNested(code)
    BY DEF LoopState, gs
  <1>4. LoopIds(gs) = LoopIds(hs) \cup (IF h.loop = NoLoop THEN {} ELSE {h.loop})
    BY IdsAppend DEF gs
  <1>5. LoopState(ls, hs, code)
    <2>1. /\ \A i \in DOMAIN hs : HasItsLoop(hs[i])
          /\ \A i, j \in DOMAIN hs :
                hs[i].loop = hs[j].loop => i = j \/ hs[i].loop = NoLoop
      BY <1>1, <1>3
    <2>2. LoopsIn(code) \cap LoopIds(hs) = {} BY <1>3, <1>4
    <2> QED BY <1>2, <1>3, <2>1, <2>2 DEF LoopState
  <1>6. HasItsLoop(h) BY <1>1, <1>3
  <1>7. h.loop = NoLoop \/ h.loop \notin LoopsIn(code) \cup LoopIds(hs)
    <2> SUFFICES ASSUME h.loop # NoLoop
                 PROVE  h.loop \notin LoopsIn(code) /\ h.loop \notin LoopIds(hs)
      OBVIOUS
    <2>1. h.loop \notin LoopsIn(code) BY <1>3, <1>4
    <2>2. ASSUME NEW i \in DOMAIN hs PROVE hs[i].loop # h.loop
      BY <1>1, <1>3
    <2> QED BY <2>1, <2>2 DEF LoopIds
  <1> QED BY <1>2, <1>5, <1>6, <1>7 DEF ls

-----------------------------------------------------------------------------
(* Instructions that join the code *)

LEMMA LoopsInAdd ==
    ASSUME NEW code, NEW i
    PROVE  LoopsIn(code \cup {i}) =
             LoopsIn(code) \cup (IF i.op = "loop" THEN {i.loop} ELSE {})
  BY DEF LoopsIn

LEMMA EmitPlain ==
    ASSUME NEW loops, NEW hs, NEW code, LoopState(loops, hs, code),
           NEW i, i.op # "loop", i.op = "break" => i.loop \in i.within
    PROVE  /\ LoopState(loops, hs, code \cup {i})
           /\ LoopsIn(code \cup {i}) = LoopsIn(code)
  <1>1. LoopsIn(code \cup {i}) = LoopsIn(code) BY LoopsInAdd
  <1>2. FinishedApart(code \cup {i}) BY DEF LoopState, FinishedApart
  <1>3. WellNested(code \cup {i}) BY DEF LoopState, WellNested
  <1> QED BY <1>1, <1>2, <1>3 DEF LoopState

LEMMA EmitLoop ==
    ASSUME NEW loops, NEW hs, NEW code, LoopState(loops, hs, code),
           NEW i, i.op = "loop",
           i.loop \notin LoopsIn(code), i.loop \notin LoopIds(hs),
           i.loop \notin i.within
    PROVE  /\ LoopState(loops, hs, code \cup {i})
           /\ LoopsIn(code \cup {i}) = LoopsIn(code) \cup {i.loop}
  <1>1. LoopsIn(code \cup {i}) = LoopsIn(code) \cup {i.loop} BY LoopsInAdd
  <1>2. ASSUME NEW j \in code, j.op = "loop" PROVE j.loop # i.loop
    BY <1>2 DEF LoopsIn
  <1>3. FinishedApart(code \cup {i}) BY <1>2 DEF LoopState, FinishedApart
  <1>4. WellNested(code \cup {i}) BY DEF LoopState, WellNested
  <1>5. LoopsIn(code \cup {i}) \cap LoopIds(hs) = {}
    BY <1>1 DEF LoopState
  <1> QED BY <1>1, <1>3, <1>4, <1>5 DEF LoopState

LEMMA BodiesAreOpen ==
    ASSUME NEW hs, \A i \in DOMAIN hs : HasItsLoop(hs[i])
    PROVE  {hs[i].loop : i \in LoopBodies(hs)} \subseteq LoopIds(hs)
  BY DEF LoopBodies, HasItsLoop, LoopIds

\* The loops around a position are in progress, and the innermost one, the
\* target of a break, is on top of loop_stack.
LEMMA WithinFacts ==
    ASSUME NEW f \in Frame, LoopFrame(f)
    PROVE  /\ Within(f) \subseteq LoopIds(f.handlers)
           /\ f.loops # <<>> => Last(f.loops) \in Within(f)
  <1> DEFINE hs == f.handlers
             P == LoopBodies(hs)
  <1>1. hs \in Seq(Handler) /\ f.loops \in Seq(Nat) BY DEF Frame
  <1>2. /\ LoopsFollow(f.loops, hs) /\ \A i \in DOMAIN hs : HasItsLoop(hs[i])
    BY DEF LoopFrame, LoopState
  <1> HIDE DEF hs
  <1>3. \A i \in P : i \in DOMAIN hs /\ hs[i].loop # NoLoop
    BY <1>2 DEF LoopBodies, HasItsLoop
  <1>4. Within(f) = {hs[i].loop : i \in P} BY DEF Within, hs
  <1>5. Within(f) \subseteq LoopIds(hs) BY <1>3, <1>4 DEF LoopIds
  <1>6. ASSUME f.loops # <<>> PROVE Last(f.loops) \in Within(f)
    <2>1. Len(hs) \in Nat /\ P \in SUBSET (1..Len(hs)) BY <1>1 DEF LoopBodies
    <2>2. /\ Len(f.loops) = Cardinality(P)
          /\ \A i \in P : f.loops[Cardinality({j \in P : j <= i})] = hs[i].loop
      BY <1>2 DEF LoopsFollow
    <2>3. Last(f.loops) = f.loops[Cardinality(P)] /\ Cardinality(P) # 0
      <3>1. /\ Last(f.loops) = f.loops[Len(f.loops)]
            /\ Len(f.loops) \in DOMAIN f.loops
        BY <1>1, <1>6, FrontLast
      <3>2. Len(f.loops) # 0 BY <1>1, <3>1
      <3> QED BY <2>2, <3>1, <3>2
    <2>4. IsFiniteSet(P) /\ P # {} BY <2>1, <2>3, RankFacts, FS_EmptySet
    <2>5. PICK m \in P : \A j \in P : j <= m
      BY <2>1, <2>4, LastPosition
    <2>6. {j \in P : j <= m} = P BY <2>5
    <2>7. Last(f.loops) = hs[m].loop BY <2>2, <2>3, <2>6
    <2> QED BY <1>4, <2>7
  <1> QED BY <1>5, <1>6 DEF hs

-----------------------------------------------------------------------------
(* Steps that change one frame *)

\* A frame changes, and takes no loop id but those it has and new ones.
LEMMA LoopChange ==
    ASSUME LoopInv, nextLoopId \in Nat, nextLoop \in Nat, nextLoop' \in Nat,
           nextLoop <= nextLoop',
           NEW d \in DOMAIN stack, NEW F, stack' = [stack EXCEPT ![d] = F],
           UNCHANGED <<module, functions, nextLoopId>>,
           LoopFrame(F),
           FrameLoops(F) \subseteq FrameLoops(stack[d]) \cup nextLoop..(nextLoop' - 1)
    PROVE  LoopInv'
  <1>1. /\ DOMAIN stack' = DOMAIN stack /\ stack'[d] = F
        /\ \A e \in DOMAIN stack : e # d => stack'[e] = stack[e]
    OBVIOUS
  <1>2. nextLoopId..(nextLoop - 1) \subseteq nextLoopId..(nextLoop' - 1)
    OBVIOUS
  <1>3. nextLoop..(nextLoop' - 1) \subseteq nextLoopId..(nextLoop' - 1)
    BY DEF LoopInv
  <1>4. \A m \in nextLoop..(nextLoop' - 1) : m \notin nextLoopId..(nextLoop - 1)
    OBVIOUS
  <1> DEFINE new == nextLoop..(nextLoop' - 1)
             old == nextLoopId..(nextLoop - 1)
             all == nextLoopId..(nextLoop' - 1)
  <1>5. old \subseteq all /\ new \subseteq all /\ new \cap old = {}
    BY <1>2, <1>3, <1>4
  <1>6. /\ \A e \in DOMAIN stack : LoopFrame(stack[e]) /\ FrameLoops(stack[e]) \subseteq old
        /\ \A i \in DOMAIN functions : /\ LoopFunction(functions[i])
                                       /\ KeptLoops(functions[i]) \subseteq old
        /\ FrameLoops(F) \subseteq FrameLoops(stack[d]) \cup new
    BY DEF LoopInv
  <1> HIDE DEF new, old, all
  <1>7. \A e \in DOMAIN stack' : LoopFrame(stack'[e]) /\ FrameLoops(stack'[e]) \subseteq all
    BY <1>1, <1>5, <1>6
  <1>8. \A i \in DOMAIN functions : /\ LoopFunction(functions[i])
                                    /\ KeptLoops(functions[i]) \subseteq all
    BY <1>5, <1>6
  <1>9. ASSUME NEW e \in DOMAIN stack, e # d
        PROVE  FrameLoops(stack[e]) \cap FrameLoops(F) = {}
    <2>1. FrameLoops(stack[e]) \cap FrameLoops(stack[d]) = {}
      BY <1>9 DEF LoopInv
    <2> QED BY <1>5, <1>6, <2>1
  <1>10. \A e, g \in DOMAIN stack' :
            e # g => FrameLoops(stack'[e]) \cap FrameLoops(stack'[g]) = {}
    <2> SUFFICES ASSUME NEW e \in DOMAIN stack, NEW g \in DOMAIN stack, e # g
                 PROVE  FrameLoops(stack'[e]) \cap FrameLoops(stack'[g]) = {}
      BY <1>1
    <2>1. CASE e = d BY <1>1, <1>9, <2>1
    <2>2. CASE g = d BY <1>1, <1>9, <2>2
    <2>3. CASE e # d /\ g # d
      <3>1. FrameLoops(stack[e]) \cap FrameLoops(stack[g]) = {} BY DEF LoopInv
      <3> QED BY <1>1, <2>3, <3>1
    <2> QED BY <2>1, <2>2, <2>3
  <1>11. \A i \in DOMAIN functions, e \in DOMAIN stack' :
            KeptLoops(functions[i]) \cap FrameLoops(stack'[e]) = {}
    <2> SUFFICES ASSUME NEW i \in DOMAIN functions, NEW e \in DOMAIN stack
                 PROVE  KeptLoops(functions[i]) \cap FrameLoops(stack'[e]) = {}
      BY <1>1
    <2>1. KeptLoops(functions[i]) \cap FrameLoops(stack[e]) = {} BY DEF LoopInv
    <2>2. CASE e = d BY <1>1, <1>5, <1>6, <2>1, <2>2
    <2>3. CASE e # d BY <1>1, <2>1, <2>3
    <2> QED BY <2>2, <2>3
  <1>12. nextLoopId <= nextLoop' BY DEF LoopInv
  <1> QED BY <1>7, <1>8, <1>10, <1>11, <1>12 DEF LoopInv, all

\* An instruction that is not a loop joins the code of a frame, if any does.
LEMMA LoopEmit ==
    ASSUME Inv, LoopInv, NEW d \in DOMAIN stack, NEW F, NEW i,
           F.loops = stack[d].loops, F.handlers = stack[d].handlers,
           F.code = stack[d].code \/ F.code = stack[d].code \cup {i},
           i.op # "loop", i.op = "break" => i.loop \in i.within,
           stack' = [stack EXCEPT ![d] = F],
           UNCHANGED <<module, functions, nextLoopId, nextLoop>>
    PROVE  LoopInv'
  <1>1. nextLoopId \in Nat /\ nextLoop \in Nat BY DEF Inv, TypeOK
  <1>2. LoopState(F.loops, F.handlers, stack[d].code)
    BY DEF LoopInv, LoopFrame
  <1>3. LoopFrame(F) /\ LoopsIn(F.code) = LoopsIn(stack[d].code)
    <2>1. CASE F.code = stack[d].code BY <1>2, <2>1 DEF LoopFrame
    <2>2. CASE F.code = stack[d].code \cup {i}
      BY <1>2, <2>2, EmitPlain DEF LoopFrame
    <2> QED BY <2>1, <2>2
  <1>4. FrameLoops(F) = FrameLoops(stack[d])
    BY <1>3 DEF FrameLoops, OpenLoops
  <1>5. nextLoop' \in Nat /\ nextLoop <= nextLoop' BY <1>1
  <1>6. FrameLoops(F) \subseteq FrameLoops(stack[d]) \cup nextLoop..(nextLoop' - 1)
    BY <1>4
  <1> QED BY <1>1, <1>3, <1>5, <1>6, LoopChange

LEMMA LoopTop ==
    ASSUME Inv, LoopInv, stack # <<>>
    PROVE  /\ Len(stack) \in DOMAIN stack /\ Top = stack[Len(stack)]
           /\ Top \in Frame
           /\ Top.loops \in Seq(Nat) /\ Top.handlers \in Seq(Handler)
           /\ Top.code \in SUBSET Instr
           /\ LoopState(Top.loops, Top.handlers, Top.code)
           /\ FrameLoops(Top) \subseteq nextLoopId..(nextLoop - 1)
           /\ nextLoopId \in Nat /\ nextLoop \in Nat
  <1>1. /\ Len(stack) \in DOMAIN stack /\ Top = stack[Len(stack)]
        /\ Top \in Frame /\ nextLoopId \in Nat /\ nextLoop \in Nat
    BY TopFacts DEF Inv, TypeOK
  <1>2. /\ Top.loops \in Seq(Nat) /\ Top.handlers \in Seq(Handler)
        /\ Top.code \in SUBSET Instr
    BY <1>1 DEF Frame
  <1>3. LoopFrame(Top) /\ FrameLoops(Top) \subseteq nextLoopId..(nextLoop - 1)
    BY <1>1 DEF LoopInv
  <1> QED BY <1>1, <1>2, <1>3 DEF LoopFrame

\* A call begins, or the one that was on top comes back changed.
LEMMA LoopCall ==
    ASSUME Inv, LoopInv, stack # <<>>, NEW F,
           NEW loops \in Seq(Nat), NEW hs \in Seq(Handler),
           LoopState(loops, hs, Top.code),
           LoopIds(hs) \subseteq LoopIds(Top.handlers),
           NEW h \in Handler, HasItsLoop(h),
           h.loop = NoLoop \/ h.loop \notin LoopsIn(Top.code) \cup LoopIds(hs),
           h.loop = NoLoop
             \/ h.loop \in LoopIds(Top.handlers) \cup nextLoop..(nextLoop' - 1),
           F.code = Top.code, F.handlers = Append(hs, h),
           F.loops = IF IsBody(h) THEN Append(loops, h.loop) ELSE loops,
           stack' = SetTop(F), UNCHANGED <<module, functions, nextLoopId>>,
           nextLoop' \in Nat, nextLoop <= nextLoop'
    PROVE  LoopInv'
  <1>1. /\ Len(stack) \in DOMAIN stack /\ Top = stack[Len(stack)]
        /\ Top.code \in SUBSET Instr
        /\ nextLoopId \in Nat /\ nextLoop \in Nat
    BY LoopTop
  <1>2. LoopFrame(F) BY <1>1, PushCall DEF LoopFrame
  <1>3. LoopIds(F.handlers) =
          LoopIds(hs) \cup (IF h.loop = NoLoop THEN {} ELSE {h.loop})
    BY IdsAppend
  <1>4. /\ FrameLoops(F) = LoopsIn(F.code) \cup LoopIds(F.handlers)
        /\ FrameLoops(Top) = LoopsIn(Top.code) \cup LoopIds(Top.handlers)
    BY IdsOfFrame
  <1> DEFINE new == nextLoop..(nextLoop' - 1)
  <1>5. h.loop = NoLoop \/ h.loop \in LoopIds(Top.handlers) \cup new
    OBVIOUS
  <1> HIDE DEF new
  <1>6. FrameLoops(F) \subseteq FrameLoops(Top) \cup new
    BY <1>3, <1>4, <1>5
  <1>7. stack' = [stack EXCEPT ![Len(stack)] = F] BY DEF SetTop
  <1> QED BY <1>1, <1>2, <1>6, <1>7, LoopChange DEF new

\* What is below the call on top, and what the loop_stack is without it.
Outside(loops, h) == IF IsBody(h) THEN Front(loops) ELSE loops

LEMMA LoopBelow ==
    ASSUME Inv, LoopInv, stack # <<>>, Top.handlers # <<>>
    PROVE  LET h == Last(Top.handlers)
               hs == Front(Top.handlers)
               loops == Outside(Top.loops, h)
           IN /\ loops \in Seq(Nat) /\ hs \in Seq(Handler) /\ h \in Handler
              /\ LoopState(loops, hs, Top.code)
              /\ LoopIds(Top.handlers) =
                   LoopIds(hs) \cup (IF h.loop = NoLoop THEN {} ELSE {h.loop})
              /\ HasItsLoop(h)
              /\ h.loop = NoLoop \/ h.loop \notin LoopsIn(Top.code) \cup LoopIds(hs)
              /\ IsBody(h) => Top.loops # <<>> /\ Last(Top.loops) = h.loop
  <1> DEFINE h == Last(Top.handlers)
             hs == Front(Top.handlers)
             loops == Outside(Top.loops, h)
  <1>1. /\ Top.loops \in Seq(Nat) /\ Top.handlers \in Seq(Handler)
        /\ Top.code \in SUBSET Instr
        /\ LoopState(Top.loops, Top.handlers, Top.code)
    BY LoopTop
  <1>2. hs \in Seq(Handler) /\ h \in Handler BY <1>1, FrontLast
  <1>3. Top.handlers = Append(hs, h) BY <1>1, FrontThenLast
  <1> HIDE DEF h, hs
  <1>4. /\ LoopState(loops, hs, Top.code) /\ HasItsLoop(h)
        /\ h.loop = NoLoop \/ h.loop \notin LoopsIn(Top.code) \cup LoopIds(hs)
        /\ IsBody(h) => Top.loops # <<>> /\ Last(Top.loops) = h.loop
    <2>1. LoopState(Top.loops, Append(hs, h), Top.code) BY <1>1, <1>3
    <2>2. /\ LoopState(IF IsBody(h) THEN Front(Top.loops) ELSE Top.loops, hs, Top.code)
          /\ HasItsLoop(h)
          /\ h.loop = NoLoop \/ h.loop \notin LoopsIn(Top.code) \cup LoopIds(hs)
          /\ IsBody(h) => Top.loops # <<>> /\ Last(Top.loops) = h.loop
      BY <1>1, <1>2, <2>1, PopCall
    <2> QED BY <2>2 DEF Outside
  <1>5. loops \in Seq(Nat)
    BY <1>1, <1>4, FrontLast DEF Outside
  <1>6. LoopIds(Top.handlers) =
          LoopIds(hs) \cup (IF h.loop = NoLoop THEN {} ELSE {h.loop})
    BY <1>2, <1>3, IdsAppend
  <1> HIDE DEF loops
  <1>7. /\ loops \in Seq(Nat) /\ hs \in Seq(Handler) /\ h \in Handler
        /\ LoopState(loops, hs, Top.code)
        /\ LoopIds(Top.handlers) =
             LoopIds(hs) \cup (IF h.loop = NoLoop THEN {} ELSE {h.loop})
        /\ HasItsLoop(h)
        /\ h.loop = NoLoop \/ h.loop \notin LoopsIn(Top.code) \cup LoopIds(hs)
        /\ IsBody(h) => Top.loops # <<>> /\ Last(Top.loops) = h.loop
    BY <1>2, <1>4, <1>5, <1>6 DEF loops
  <1> QED BY <1>7 DEF loops, hs, h

\* The call on top goes on, with the id it has or, when its initializers are
\* lowered, with a new one.
LEMMA LoopAdvance ==
    ASSUME Inv, LoopInv, stack # <<>>, Top.handlers # <<>>, NEW F,
           NEW h \in Handler, HasItsLoop(h),
           \/ h.loop = Last(Top.handlers).loop /\ nextLoop' = nextLoop
           \/ h.loop = nextLoop /\ nextLoop' = nextLoop + 1,
           F.code = Top.code, F.handlers = Append(Front(Top.handlers), h),
           F.loops = LET loops == Outside(Top.loops, Last(Top.handlers))
                     IN IF IsBody(h) THEN Append(loops, h.loop) ELSE loops,
           stack' = SetTop(F), UNCHANGED <<module, functions, nextLoopId>>
    PROVE  LoopInv'
  <1> DEFINE g == Last(Top.handlers)
             hs == Front(Top.handlers)
             loops == Outside(Top.loops, g)
  <1>1. /\ loops \in Seq(Nat) /\ hs \in Seq(Handler)
        /\ LoopState(loops, hs, Top.code)
        /\ LoopIds(Top.handlers) =
             LoopIds(hs) \cup (IF g.loop = NoLoop THEN {} ELSE {g.loop})
        /\ g.loop = NoLoop \/ g.loop \notin LoopsIn(Top.code) \cup LoopIds(hs)
    BY LoopBelow
  <1>2. /\ FrameLoops(Top) = LoopsIn(Top.code) \cup LoopIds(Top.handlers)
        /\ FrameLoops(Top) \subseteq nextLoopId..(nextLoop - 1)
        /\ nextLoop \in Nat /\ nextLoopId \in Nat
    BY LoopTop, IdsOfFrame
  <1>3. F.handlers = Append(hs, h)
        /\ F.loops = IF IsBody(h) THEN Append(loops, h.loop) ELSE loops
    OBVIOUS
  <1> HIDE DEF g, hs, loops
  <1>4. CASE h.loop = g.loop /\ nextLoop' = nextLoop
    <2>1. h.loop = NoLoop \/ h.loop \in LoopIds(Top.handlers) \cup nextLoop..(nextLoop' - 1)
      BY <1>1, <1>4
    <2>2. LoopIds(hs) \subseteq LoopIds(Top.handlers) BY <1>1
    <2>3. h.loop = NoLoop \/ h.loop \notin LoopsIn(Top.code) \cup LoopIds(hs)
      BY <1>1, <1>4
    <2>4. nextLoop' \in Nat /\ nextLoop <= nextLoop' BY <1>2, <1>4
    <2> QED BY <1>1, <1>3, <2>1, <2>2, <2>3, <2>4, LoopCall
  <1>5. CASE h.loop = nextLoop /\ nextLoop' = nextLoop + 1
    <2>1. h.loop \in nextLoop..(nextLoop' - 1) BY <1>2, <1>5
    <2>2. LoopIds(hs) \subseteq LoopIds(Top.handlers) BY <1>1
    <2>3. nextLoop \notin nextLoopId..(nextLoop - 1) BY <1>2
    <2>4. h.loop \notin LoopsIn(Top.code) \cup LoopIds(hs)
      BY <1>2, <1>5, <2>2, <2>3
    <2>5. nextLoop' \in Nat /\ nextLoop <= nextLoop' BY <1>2, <1>5
    <2> QED BY <1>1, <1>3, <2>1, <2>2, <2>4, <2>5, LoopCall
  <1> QED BY <1>4, <1>5 DEF g

\* The call on top returns and its instruction joins the code.
LEMMA LoopClose ==
    ASSUME Inv, LoopInv, stack # <<>>, Top.handlers # <<>>, NEW F, NEW i,
           \/ i.op = "let"
           \/ /\ Last(Top.handlers).kind # "let" /\ Last(Top.handlers).at # "init"
              /\ i = LoopOf(Top),
           F.handlers = Front(Top.handlers), F.code = Top.code \cup {i},
           F.loops = Outside(Top.loops, Last(Top.handlers)),
           stack' = SetTop(F),
           UNCHANGED <<module, functions, nextLoopId, nextLoop>>
    PROVE  LoopInv'
  <1> DEFINE g == Last(Top.handlers)
             hs == Front(Top.handlers)
             loops == Outside(Top.loops, g)
  <1>1. /\ hs \in Seq(Handler) /\ LoopState(loops, hs, Top.code)
        /\ LoopIds(Top.handlers) =
             LoopIds(hs) \cup (IF g.loop = NoLoop THEN {} ELSE {g.loop})
        /\ HasItsLoop(g)
        /\ g.loop = NoLoop \/ g.loop \notin LoopsIn(Top.code) \cup LoopIds(hs)
    BY LoopBelow
  <1>2. /\ FrameLoops(Top) = LoopsIn(Top.code) \cup LoopIds(Top.handlers)
        /\ FrameLoops(F) = LoopsIn(F.code) \cup LoopIds(F.handlers)
        /\ nextLoop \in Nat /\ nextLoopId \in Nat
        /\ Len(stack) \in DOMAIN stack /\ Top = stack[Len(stack)]
        /\ Top \in Frame
    BY LoopTop, IdsOfFrame
  <1>3. F.handlers = hs /\ F.loops = loops OBVIOUS
  <1>4. LoopFrame(F) /\ FrameLoops(F) \subseteq FrameLoops(Top)
    <2>1. CASE i.op = "let"
      <3>1. /\ LoopState(loops, hs, Top.code \cup {i})
            /\ LoopsIn(Top.code \cup {i}) = LoopsIn(Top.code)
        <4> HIDE DEF loops, hs
        <4> QED BY <1>1, <2>1, EmitPlain
      <3> QED BY <1>1, <1>2, <1>3, <3>1 DEF LoopFrame
    <2>2. CASE g.kind # "let" /\ g.at # "init" /\ i = LoopOf(Top)
      <3>1. /\ i.op = "loop" /\ i.loop = g.loop /\ i.within = Within(PopHandler(Top))
        BY <2>2 DEF LoopOf
      <3>2. g.loop # NoLoop BY <1>1, <2>2 DEF HasItsLoop
      <3>3. PopHandler(Top).handlers = hs
        BY <1>2, FrameFields, FieldUpdates
      <3>4. i.within \subseteq LoopIds(hs)
        <4>1. \A j \in DOMAIN hs : HasItsLoop(hs[j]) BY <1>1 DEF LoopState
        <4> QED BY <3>1, <3>3, <4>1, BodiesAreOpen DEF Within
      <3>5. /\ LoopState(loops, hs, Top.code \cup {i})
            /\ LoopsIn(Top.code \cup {i}) = LoopsIn(Top.code) \cup {i.loop}
        <4> HIDE DEF loops, hs, g
        <4>1. i.loop \notin LoopsIn(Top.code) /\ i.loop \notin LoopIds(hs)
          BY <1>1, <3>1, <3>2
        <4>2. LoopState(loops, hs, Top.code) BY <1>1
        <4>3. i.loop \notin i.within BY <3>4, <4>1
        <4>4. i.op = "loop" BY <3>1
        <4>5. LoopState(loops, hs, Top.code \cup {i})
          BY <4>1, <4>2, <4>3, <4>4, EmitLoop
        <4>6. LoopsIn(Top.code \cup {i}) = LoopsIn(Top.code) \cup {i.loop}
          BY <4>4, LoopsInAdd
        <4> QED BY <4>5, <4>6
      <3> HIDE DEF g, hs, loops
      <3>6. FrameLoops(F) \subseteq FrameLoops(Top)
        BY <1>1, <1>2, <1>3, <3>1, <3>2, <3>5
      <3> QED BY <1>3, <3>5, <3>6 DEF LoopFrame
    <2> QED BY <2>1, <2>2
  <1>5. stack' = [stack EXCEPT ![Len(stack)] = F] BY DEF SetTop
  <1>6. nextLoop' \in Nat /\ nextLoop <= nextLoop' BY <1>2
  <1>7. FrameLoops(F) \subseteq FrameLoops(Top) \cup nextLoop..(nextLoop' - 1)
    BY <1>4
  <1>8. LoopFrame(F) BY <1>4
  <1> HIDE DEF g, hs, loops
  <1> QED BY <1>2, <1>5, <1>6, <1>7, <1>8, LoopChange

-----------------------------------------------------------------------------
(* The steps of lower_symbol and of the forms *)

\* A load, a capture on its way, a break.
LEMMA LoopLoads ==
    ASSUME Inv, LoopInv, NEW n \in Name,
           ResolveLocal(n) \/ (n \notin Generated /\ ResolveGlobal(n))
    PROVE  LoopInv'
  <1>1. stack # <<>>
    BY DEF ResolveLocal, ResolveGlobal, AtExpr, Lowering
  <1>2. PICK op \in {"local", "global"} : \E slot :
           /\ stack' = SetTop(Emit(Top, LoadOf(op, slot, n, env[n])))
           /\ UNCHANGED <<module, functions, nextLoopId, nextLoop>>
    BY DEF ResolveLocal, ResolveGlobal, session
  <1>3. PICK slot :
           /\ stack' = SetTop(Emit(Top, LoadOf(op, slot, n, env[n])))
           /\ UNCHANGED <<module, functions, nextLoopId, nextLoop>>
    BY <1>2
  <1> DEFINE i == LoadOf(op, slot, n, env[n])
  <1>4. i.op # "loop" /\ i.op # "break" BY <1>2 DEF LoadOf
  <1> HIDE DEF i
  <1>5. /\ Len(stack) \in DOMAIN stack /\ Top = stack[Len(stack)]
        /\ DOMAIN Top = Fields
    BY <1>1, LoopTop, FrameFields
  <1> DEFINE F == Emit(Top, i)
  <1>6. /\ F.loops = Top.loops /\ F.handlers = Top.handlers
        /\ F.code = Top.code \cup {i}
    BY <1>5, FieldUpdates DEF Changed, Fields
  <1>7. stack' = [stack EXCEPT ![Len(stack)] = F] BY <1>3 DEF SetTop, i
  <1> HIDE DEF F
  <1> QED BY <1>3, <1>4, <1>5, <1>6, <1>7, LoopEmit

LEMMA LoopCaptureHop == ASSUME Inv, LoopInv, CaptureHop PROVE LoopInv'
  <1> DEFINE at == hop.at
             load(i) == LoadOf("capture", i - 1, hop.name, hop.binder)
  <1>1. /\ at \in DOMAIN stack
        /\ UNCHANGED <<module, functions, nextLoopId, nextLoop>>
        /\ \E F, i : /\ Changed(stack[at], F, {"captures", "code"})
                     /\ stack' = [stack EXCEPT ![at] = F]
                     /\ \/ F.code = stack[at].code \cup {load(i)}
                        \/ F.code = stack[at].code
    BY CaptureHopEffect
  <1>2. PICK F, i : /\ Changed(stack[at], F, {"captures", "code"})
                    /\ stack' = [stack EXCEPT ![at] = F]
                    /\ \/ F.code = stack[at].code \cup {load(i)}
                       \/ F.code = stack[at].code
    BY <1>1
  <1>3. F.loops = stack[at].loops /\ F.handlers = stack[at].handlers
    BY <1>2 DEF Changed, Fields
  <1>4. load(i).op # "loop" /\ load(i).op # "break" BY DEF LoadOf
  <1> HIDE DEF at, load
  <1> QED BY <1>1, <1>2, <1>3, <1>4, LoopEmit

LEMMA LoopBreak == ASSUME Inv, LoopInv, Break, Top.loops # <<>> PROVE LoopInv'
  <1> DEFINE i == [op |-> "break", loop |-> Last(Top.loops), within |-> Within(Top)]
             F == Emit(Top, i)
  <1>1. /\ stack # <<>> /\ stack' = SetTop(F)
        /\ UNCHANGED <<module, functions, nextLoopId, nextLoop>>
    BY DEF Break, AtExpr, Lowering, session
  <1>2. /\ Len(stack) \in DOMAIN stack /\ Top = stack[Len(stack)]
        /\ Top \in Frame /\ LoopFrame(Top)
    BY <1>1, LoopTop DEF LoopFrame
  <1>3. i.op # "loop" /\ i.loop \in i.within BY <1>2, WithinFacts
  <1> HIDE DEF i
  <1>4. /\ F.loops = Top.loops /\ F.handlers = Top.handlers
        /\ F.code = Top.code \cup {i}
    <2>1. DOMAIN Top = Fields BY <1>2, FrameFields
    <2> QED BY <2>1, FieldUpdates DEF Changed, Fields
  <1>5. stack' = [stack EXCEPT ![Len(stack)] = F] BY <1>1 DEF SetTop
  <1> HIDE DEF F
  <1> QED BY <1>1, <1>2, <1>3, <1>4, <1>5, LoopEmit

LEMMA LoopEnterForm ==
    ASSUME Inv, LoopInv, NEW kind \in {"let", "range", "state"},
           NEW names \in Seq(Name), EnterForm(kind, names)
    PROVE  LoopInv'
  <1> DEFINE h == [kind |-> kind, at |-> "init", names |-> names,
                   slots |-> <<>>, updates |-> <<>>, loop |-> NoLoop,
                   outer |-> env]
             F == PushHandler(Top, h)
  <1>1. /\ stack # <<>> /\ stack' = SetTop(F)
        /\ UNCHANGED <<module, functions, nextLoopId, nextLoop>>
    BY DEF EnterForm, AtExpr, Lowering, session
  <1>2. h \in Handler /\ h.loop = NoLoop /\ ~IsBody(h) /\ HasItsLoop(h)
    BY <1>1, TopFacts DEF Handler, IsBody, HasItsLoop
  <1> HIDE DEF h
  <1>3. /\ Top \in Frame /\ DOMAIN Top = Fields /\ nextLoop \in Nat
        /\ Top.loops \in Seq(Nat) /\ Top.handlers \in Seq(Handler)
        /\ LoopState(Top.loops, Top.handlers, Top.code)
    BY <1>1, LoopTop, FrameFields
  <1>4. /\ F.loops = Top.loops /\ F.code = Top.code
        /\ F.handlers = Append(Top.handlers, h)
    BY <1>3, FieldUpdates DEF Changed, Fields
  <1> HIDE DEF F
  <1>5. nextLoop' \in Nat /\ nextLoop <= nextLoop' BY <1>1, <1>3
  <1> QED BY <1>1, <1>2, <1>3, <1>4, <1>5, LoopCall

LEMMA LoopNextBinding ==
    ASSUME Inv, LoopInv, NEW n \in Name, NextBinding(n),
           n \notin Range(Last(Top.handlers).names)
    PROVE  LoopInv'
  <1> DEFINE h == Last(Top.handlers)
             g == [h EXCEPT !.names = Append(@, n)]
             F == SetHandler(Top, g)
  <1>1. /\ stack # <<>> /\ Top.handlers # <<>> /\ h.at = "init"
        /\ stack' = SetTop(F)
        /\ UNCHANGED <<module, functions, nextLoopId, nextLoop>>
    BY DEF NextBinding, Handling, Lowering, session
  <1>2. h \in Handler /\ h.names \in Seq(Name) /\ HasItsLoop(h)
    BY <1>1, LoopBelow, HandlerFields
  <1>3. /\ g \in Handler /\ g.at = h.at /\ g.loop = h.loop /\ g.kind = h.kind
    <2>1. Append(h.names, n) \in Seq(Name) BY <1>2
    <2> HIDE DEF h
    <2> QED BY <1>2, <2>1 DEF Handler
  <1>4. HasItsLoop(g) /\ ~IsBody(g) /\ ~IsBody(h)
    BY <1>1, <1>2, <1>3 DEF HasItsLoop, IsBody
  <1>5. DOMAIN Top = Fields BY <1>1, LoopTop, FrameFields
  <1> HIDE DEF g
  <1>6. /\ F.loops = Top.loops /\ F.code = Top.code
        /\ F.handlers = Append(Front(Top.handlers), g)
    BY <1>5, FieldUpdates DEF Changed, Fields
  <1> HIDE DEF F
  <1> QED BY <1>1, <1>3, <1>4, <1>6, LoopAdvance DEF Outside

\* The scope of a form opens, with the id of its loop.
LEMMA LoopOpenForm ==
    ASSUME Inv, LoopInv, stack # <<>>, NEW f \in Frame,
           f.handlers = Top.handlers, f.code = Top.code, Top.handlers # <<>>,
           Last(Top.handlers).at = "init",
           NEW at \in {"cond", "body"}, NEW loop \in Nat \cup {NoLoop},
           loop # NoLoop <=> Last(Top.handlers).kind # "let",
           f.loops = IF loop # NoLoop /\ at = "body"
                     THEN Append(Top.loops, loop) ELSE Top.loops,
           \/ loop = NoLoop /\ nextLoop' = nextLoop
           \/ loop = nextLoop /\ nextLoop' = nextLoop + 1,
           OpenForm(f, at, loop),
           UNCHANGED <<module, functions, nextLoopId>>
    PROVE  LoopInv'
  <1> DEFINE h == Last(Top.handlers)
             slots == FreshSlots(f, h.names)
             g == [h EXCEPT !.at = at, !.loop = loop, !.slots = slots]
             F == Opened(f, at, loop)
  <1>1. stack' = SetTop(F) BY DEF OpenForm, Opened
  <1>2. h \in Handler /\ HasItsLoop(h) BY LoopBelow
  <1>3. slots \in Seq(Nat)
    <2>1. h.names \in Seq(Name) BY <1>2, HandlerFields
    <2> QED BY <2>1, FreshSlotsType
  <1> HIDE DEF slots
  <1>4. /\ g \in Handler /\ g.at = at /\ g.loop = loop /\ g.kind = h.kind
    BY <1>2, <1>3 DEF Handler, NoLoop
  <1>5. h.loop = NoLoop BY <1>2 DEF HasItsLoop
  <1>6. HasItsLoop(g) BY <1>4 DEF HasItsLoop
  <1>7. IsBody(g) <=> loop # NoLoop /\ at = "body" BY <1>4 DEF IsBody
  <1>8. Outside(Top.loops, h) = Top.loops BY DEF Outside, IsBody
  <1>9. /\ F.loops = f.loops /\ F.code = f.code
        /\ F.handlers = Append(Front(f.handlers), g)
    <2>1. /\ Changed(f, F, {"scopes", "nextLocal", "handlers"})
          /\ F.handlers = Append(Front(f.handlers),
               [Last(f.handlers) EXCEPT !.at = at, !.loop = loop,
                  !.slots = FreshSlots(f, Last(f.handlers).names)])
      BY OpenedFields
    <2>2. g = [Last(f.handlers) EXCEPT !.at = at, !.loop = loop,
                 !.slots = FreshSlots(f, Last(f.handlers).names)]
      BY DEF slots
    <2> HIDE DEF g, F
    <2> QED BY <2>1, <2>2 DEF Changed, Fields
  <1> HIDE DEF F, g, h
  <1>10. F.loops = IF IsBody(g) THEN Append(Outside(Top.loops, h), g.loop)
                   ELSE Outside(Top.loops, h)
    BY <1>4, <1>7, <1>8, <1>9
  <1>11. \/ g.loop = h.loop /\ nextLoop' = nextLoop
         \/ g.loop = nextLoop /\ nextLoop' = nextLoop + 1
    BY <1>4, <1>5
  <1>12. F.handlers = Append(Front(Top.handlers), g) /\ F.code = Top.code
    BY <1>9
  <1> QED BY <1>1, <1>4, <1>6, <1>10, <1>11, <1>12, LoopAdvance DEF h

LEMMA LoopOpens ==
    ASSUME Inv, LoopInv, LetBody \/ RangeBody \/ StateCond
    PROVE  LoopInv'
  <1>0. stack # <<>> /\ Top.handlers # <<>> /\ Last(Top.handlers).at = "init"
    BY DEF LetBody, RangeBody, StateCond, Handling, Lowering
  <1>1. Top \in Frame /\ nextLoop \in Nat /\ DOMAIN Top = Fields
    BY <1>0, LoopTop, FrameFields
  <1>2. nextLoop # NoLoop BY <1>1 DEF NoLoop
  <1>3. CASE LetBody
    BY <1>0, <1>1, <1>3, LoopOpenForm DEF LetBody, Handling, session
  <1>4. CASE RangeBody
    <2> DEFINE f == PushLoop(Top, nextLoop)
    <2>1. f \in Frame
      BY <1>0, <1>1, TopFacts, PushLoopOK DEF FrameOK
    <2>2. /\ f.loops = Append(Top.loops, nextLoop) /\ f.code = Top.code
          /\ f.handlers = Top.handlers
      BY <1>1, FieldUpdates DEF Changed, Fields
    <2>3. /\ OpenForm(f, "body", nextLoop) /\ nextLoop' = nextLoop + 1
          /\ Last(Top.handlers).kind = "range"
          /\ UNCHANGED <<module, functions, nextLoopId>>
      BY <1>4 DEF RangeBody, Handling, session
    <2> HIDE DEF f
    <2> QED BY <1>0, <1>1, <1>2, <2>1, <2>2, <2>3, LoopOpenForm
  <1>5. CASE StateCond
    <2>1. /\ OpenForm(Top, "cond", nextLoop) /\ nextLoop' = nextLoop + 1
          /\ Last(Top.handlers).kind = "state"
          /\ UNCHANGED <<module, functions, nextLoopId>>
      BY <1>5 DEF StateCond, Handling, session
    <2> QED BY <1>0, <1>1, <1>2, <2>1, LoopOpenForm
  <1> QED BY <1>3, <1>4, <1>5

\* The call on top moves on, its scope open all along.
LEMMA LoopMovesOn ==
    ASSUME Inv, LoopInv, StateBody \/ StateNext \/ StateUpdate
    PROVE  LoopInv'
  <1> DEFINE h == Last(Top.handlers)
  <1>1. /\ stack # <<>> /\ Top.handlers # <<>> /\ h.kind = "state"
        /\ UNCHANGED <<module, functions, nextLoopId, nextLoop>>
    BY DEF StateBody, StateNext, StateUpdate, Handling, Lowering, session
  <1>2. h \in Handler /\ HasItsLoop(h) BY <1>1, LoopBelow
  <1>3. Top \in Frame /\ DOMAIN Top = Fields BY <1>1, LoopTop, FrameFields
  <1> HIDE DEF h
  <1>4. CASE StateBody
    <2> DEFINE f == PushLoop(Top, h.loop)
               g == [h EXCEPT !.at = "body"]
               F == SetHandler(f, g)
    <2>1. h.at = "cond" /\ stack' = SetTop(F)
      BY <1>4 DEF StateBody, Handling, h
    <2>2. /\ g \in Handler /\ g.at = "body" /\ g.loop = h.loop /\ g.kind = h.kind
      BY <1>1, <1>2, <2>1 DEF Handler
    <2>3. HasItsLoop(g) /\ IsBody(g) /\ ~IsBody(h)
      BY <1>1, <1>2, <2>1, <2>2 DEF HasItsLoop, IsBody
    <2> HIDE DEF g
    <2>4. /\ DOMAIN f = Fields /\ f.loops = Append(Top.loops, h.loop)
          /\ f.code = Top.code /\ f.handlers = Top.handlers
      BY <1>3, FieldUpdates DEF Changed, Fields
    <2> HIDE DEF f
    <2>5. /\ F.loops = f.loops /\ F.code = f.code
          /\ F.handlers = Append(Front(f.handlers), g)
      <3>1. DOMAIN f = Fields BY <2>4
      <3> QED BY <3>1, FieldUpdates DEF Changed, Fields
    <2> HIDE DEF F
    <2>6. F.loops = Append(Outside(Top.loops, h), g.loop)
      BY <2>2, <2>3, <2>4, <2>5 DEF Outside
    <2> QED BY <1>1, <2>1, <2>2, <2>3, <2>4, <2>5, <2>6, LoopAdvance DEF h
  <1>5. CASE StateNext
    <2> DEFINE f == PopLoop(Top)
               g == [h EXCEPT !.at = "next"]
               F == SetHandler(f, g)
    <2>1. h.at = "body" /\ stack' = SetTop(F)
      BY <1>5 DEF StateNext, Handling, h
    <2>2. /\ g \in Handler /\ g.at = "next" /\ g.loop = h.loop /\ g.kind = h.kind
      BY <1>1, <1>2, <2>1 DEF Handler
    <2>3. HasItsLoop(g) /\ ~IsBody(g) /\ IsBody(h)
      BY <1>1, <1>2, <2>1, <2>2 DEF HasItsLoop, IsBody
    <2> HIDE DEF g
    <2>4. /\ DOMAIN f = Fields /\ f.loops = Front(Top.loops)
          /\ f.code = Top.code /\ f.handlers = Top.handlers
      BY <1>3, FieldUpdates DEF Changed, Fields
    <2> HIDE DEF f
    <2>5. /\ F.loops = f.loops /\ F.code = f.code
          /\ F.handlers = Append(Front(f.handlers), g)
      <3>1. DOMAIN f = Fields BY <2>4
      <3> QED BY <3>1, FieldUpdates DEF Changed, Fields
    <2> HIDE DEF F
    <2>6. F.loops = Outside(Top.loops, h)
      BY <2>3, <2>4, <2>5 DEF Outside
    <2> QED BY <1>1, <2>1, <2>2, <2>3, <2>4, <2>5, <2>6, LoopAdvance DEF h
  <1>6. CASE StateUpdate
    <2> DEFINE slot == Last(Top.scopes)[h.names[Len(h.updates) + 1]]
               g == [h EXCEPT !.updates = Append(@, slot)]
               F == SetHandler(Top, g)
    <2>1. h.at = "next" /\ Len(h.updates) < Len(h.names) /\ stack' = SetTop(F)
      BY <1>6 DEF StateUpdate, Handling, h
    <2>2. slot \in Nat \cup {NoSlot}
      <3>1. h.names[Len(h.updates) + 1] \in Name
        BY <1>2, <2>1, HandlerFields
      <3>2. Top.scopes \in Seq(Scope) /\ Top.scopes # <<>>
        <4>1. Top.scopes \in Seq(Scope) BY <1>3 DEF Frame
        <4>2. Len(Top.scopes) # 0 BY <1>1, <2>1, TopFacts DEF h
        <4> QED BY <4>1, <4>2
      <3>3. Last(Top.scopes) \in Scope BY <3>2, FrontLast
      <3> QED BY <3>1, <3>3 DEF Scope
    <2> HIDE DEF slot
    <2>3. /\ g \in Handler /\ g.at = h.at /\ g.loop = h.loop /\ g.kind = h.kind
      <3>1. Append(h.updates, slot) \in Seq(Nat \cup {NoSlot})
        BY <1>2, <2>2, HandlerFields
      <3> QED BY <1>2, <3>1 DEF Handler
    <2>4. HasItsLoop(g) /\ ~IsBody(g) /\ ~IsBody(h)
      BY <1>1, <1>2, <2>1, <2>3 DEF HasItsLoop, IsBody
    <2> HIDE DEF g
    <2>5. /\ F.loops = Top.loops /\ F.code = Top.code
          /\ F.handlers = Append(Front(Top.handlers), g)
      BY <1>3, FieldUpdates DEF Changed, Fields
    <2> HIDE DEF F
    <2>6. F.loops = Outside(Top.loops, h) BY <2>4, <2>5 DEF Outside
    <2> QED BY <1>1, <2>1, <2>3, <2>4, <2>5, <2>6, LoopAdvance DEF h
  <1> QED BY <1>4, <1>5, <1>6

\* A form returns.
LEMMA LoopCloseForm ==
    ASSUME Inv, LoopInv, stack # <<>>, Top.handlers # <<>>, NEW f \in Frame, NEW i,
           \/ i.op = "let"
           \/ /\ Last(Top.handlers).kind # "let" /\ Last(Top.handlers).at # "init"
              /\ i = LoopOf(Top),
           f.handlers = Top.handlers, f.code = Top.code,
           f.loops = Outside(Top.loops, Last(Top.handlers)),
           CloseForm(f, i)
    PROVE  LoopInv'
  <1> DEFINE F == Closed(f, i)
  <1>1. /\ stack' = SetTop(F)
        /\ UNCHANGED <<module, functions, nextLoopId, nextLoop>>
    BY DEF CloseForm, Closed, session
  <1>2. /\ F.handlers = Front(f.handlers) /\ F.code = f.code \cup {i}
        /\ F.loops = f.loops
    BY ClosedFields DEF Changed, Fields
  <1> HIDE DEF F
  <1> QED BY <1>1, <1>2, LoopClose

LEMMA LoopCloses ==
    ASSUME Inv, LoopInv, LetExit \/ RangeExit \/ StateExit
    PROVE  LoopInv'
  <1> DEFINE h == Last(Top.handlers)
  <1>1. stack # <<>> /\ Top.handlers # <<>>
    BY DEF LetExit, RangeExit, StateExit, Handling, Lowering
  <1>2. Top \in Frame /\ DOMAIN Top = Fields BY <1>1, LoopTop, FrameFields
  <1>3. CASE LetExit
    <2> DEFINE i == [op |-> "let", slots |-> h.slots]
    <2>1. CloseForm(Top, i) /\ h.kind = "let"
      BY <1>3 DEF LetExit, Handling
    <2>2. i.op = "let" OBVIOUS
    <2>3. Top.loops = Outside(Top.loops, h) BY <2>1 DEF Outside, IsBody
    <2> HIDE DEF i
    <2> QED BY <1>1, <1>2, <2>1, <2>2, <2>3, LoopCloseForm
  <1>4. CASE RangeExit
    <2> DEFINE f == PopLoop(Top)
    <2>1. CloseForm(f, LoopOf(Top)) /\ h.kind = "range" /\ h.at = "body"
      BY <1>4 DEF RangeExit, Handling
    <2>2. f \in Frame BY <1>1, TopFacts, PopLoopOK DEF FrameOK
    <2>3. /\ f.loops = Front(Top.loops) /\ f.code = Top.code
          /\ f.handlers = Top.handlers
      BY <1>2, FieldUpdates DEF Changed, Fields
    <2> HIDE DEF f
    <2>4. f.loops = Outside(Top.loops, h) BY <2>1, <2>3 DEF Outside, IsBody
    <2> QED BY <1>1, <2>1, <2>2, <2>3, <2>4, LoopCloseForm
  <1>5. CASE StateExit
    <2>1. CloseForm(Top, LoopOf(Top)) /\ h.kind = "state" /\ h.at = "next"
      BY <1>5 DEF StateExit, Handling
    <2>2. Top.loops = Outside(Top.loops, h) BY <2>1 DEF Outside, IsBody
    <2> QED BY <1>1, <1>2, <2>1, <2>2, LoopCloseForm
  <1> QED BY <1>3, <1>4, <1>5

-----------------------------------------------------------------------------
(* The steps of lower_fn *)

\* A new function is in no loop: it sees none of the loops around it.
LEMMA LoopEnterFn ==
    ASSUME Inv, LoopInv, NEW params \in Seq(Name), IsInjective(params),
           EnterFn(params)
    PROVE  LoopInv'
  <1> DEFINE n == Len(stack)
             F == Entered(Len(module) + Len(functions), params)
  <1>1. /\ n \in Nat /\ DOMAIN stack' = 1..(n + 1) /\ DOMAIN stack = 1..n
        /\ stack'[n + 1] = F
        /\ \A d \in 1..n : stack'[d] = stack[d]
        /\ functions' = Append(functions, Pending)
        /\ functions \in Seq(Function \cup {Pending})
        /\ UNCHANGED <<module, nextLoopId, nextLoop>>
    <2>1. DOMAIN stack = 1..n BY DEF Inv, TypeOK
    <2> HIDE DEF F
    <2> QED BY <2>1, EnterFnEffect DEF F
  <1>2. F.loops = <<>> /\ F.code = {} /\ F.handlers = <<>>
    BY EnteredFields
  <1> HIDE DEF F, n
  <1>3. LoopFrame(F)
    <2>1. LoopBodies(<<>>) = {} BY DEF LoopBodies
    <2>2. LoopsFollow(<<>>, <<>>)
      BY <2>1, FS_EmptySet DEF LoopsFollow
    <2>3. LoopIds(<<>>) = {} BY DEF LoopIds
    <2>4. FinishedApart({}) /\ WellNested({}) BY DEF FinishedApart, WellNested
    <2>5. LoopState(<<>>, <<>>, {}) BY <2>2, <2>3, <2>4 DEF LoopState
    <2> QED BY <1>2, <2>5 DEF LoopFrame
  <1>4. FrameLoops(F) = {}
    BY <1>2, IdsOfFrame DEF LoopsIn, LoopIds
  <1>5. /\ DOMAIN functions' = DOMAIN functions \cup {Len(functions) + 1}
        /\ \A i \in DOMAIN functions : functions'[i] = functions[i]
        /\ functions'[Len(functions) + 1] = Pending
    BY <1>1
  <1>6. KeptLoops(Pending) = {} /\ LoopFunction(Pending)
    BY DEF KeptLoops, LoopFunction
  <1>7. \A d \in DOMAIN stack' :
           \/ d \in DOMAIN stack /\ stack'[d] = stack[d]
           \/ d = n + 1 /\ stack'[d] = F
    BY <1>1
  <1>8. \A i \in DOMAIN functions' :
           \/ i \in DOMAIN functions /\ functions'[i] = functions[i]
           \/ i = Len(functions) + 1 /\ functions'[i] = Pending
    BY <1>5
  <1> DEFINE old == nextLoopId..(nextLoop - 1)
  <1>9. old' = old BY <1>1
  <1>10. /\ nextLoopId <= nextLoop
         /\ \A d \in DOMAIN stack : LoopFrame(stack[d]) /\ FrameLoops(stack[d]) \subseteq old
         /\ \A i \in DOMAIN functions : /\ LoopFunction(functions[i])
                                        /\ KeptLoops(functions[i]) \subseteq old
    BY DEF LoopInv
  <1> HIDE DEF old
  <1>11. \A d \in DOMAIN stack' : LoopFrame(stack'[d]) /\ FrameLoops(stack'[d]) \subseteq old
    BY <1>3, <1>4, <1>7, <1>10
  <1>12. \A i \in DOMAIN functions' : /\ LoopFunction(functions'[i])
                                      /\ KeptLoops(functions'[i]) \subseteq old
    BY <1>6, <1>8, <1>10
  <1>13. \A d, e \in DOMAIN stack' :
            d # e => FrameLoops(stack'[d]) \cap FrameLoops(stack'[e]) = {}
    BY <1>4, <1>7 DEF LoopInv
  <1>14. \A i, j \in DOMAIN functions' :
            i # j => KeptLoops(functions'[i]) \cap KeptLoops(functions'[j]) = {}
    BY <1>6, <1>8 DEF LoopInv
  <1>15. \A i \in DOMAIN functions', d \in DOMAIN stack' :
            KeptLoops(functions'[i]) \cap FrameLoops(stack'[d]) = {}
    BY <1>4, <1>6, <1>7, <1>8 DEF LoopInv
  <1>16. \A i \in DOMAIN module :
            /\ LoopFunction(module[i]) /\ KeptLoops(module[i]) \subseteq 0..(nextLoopId - 1)
    BY DEF LoopInv
  <1>17. \A i, j \in DOMAIN module :
            i # j => KeptLoops(module[i]) \cap KeptLoops(module[j]) = {}
    BY DEF LoopInv
  <1> QED BY <1>1, <1>9, <1>10, <1>11, <1>12, <1>13, <1>14, <1>15, <1>16, <1>17
          DEF LoopInv, old

\* The function takes its loops to its place in the table.
LEMMA LoopExitFn == ASSUME Inv, LoopInv, ExitFn PROVE LoopInv'
  <1> DEFINE n == Len(stack)
             p == Top.id - Len(module) + 1
             F == Emit(stack[n - 1], ClosureOf(Top))
             fun == FunctionOf(Top)
  <1>1. /\ Top.handlers = <<>>
        /\ n \in Nat /\ n > 1 /\ Top = stack[n] /\ n \in DOMAIN stack
        /\ DOMAIN stack' = 1..(n - 1) /\ DOMAIN stack = 1..n
        /\ n - 1 \in DOMAIN stack /\ stack'[n - 1] = F
        /\ \A d \in 1..(n - 2) : stack'[d] = stack[d]
        /\ p \in DOMAIN functions /\ DOMAIN functions' = DOMAIN functions
        /\ functions'[p] = fun /\ functions'[p] # Pending
        /\ \A i \in DOMAIN functions : i # p => functions'[i] = functions[i]
        /\ UNCHANGED <<module, nextLoopId, nextLoop>>
    BY ExitFnEffect DEF Inv, TypeOK
  <1>2. /\ LoopFrame(stack[n]) /\ LoopFrame(stack[n - 1]) BY <1>1 DEF LoopInv
  <1>3. /\ F.loops = stack[n - 1].loops /\ F.handlers = stack[n - 1].handlers
        /\ F.code = stack[n - 1].code \cup {ClosureOf(Top)}
    <2>1. DOMAIN stack[n - 1] = Fields
      <3>1. stack[n - 1] \in Frame BY <1>1 DEF Inv, TypeOK
      <3> QED BY <3>1, FrameFields
    <2> DEFINE f == stack[n - 1]
               c == ClosureOf(Top)
    <2>2. DOMAIN f = Fields BY <2>1
    <2> HIDE DEF f, c
    <2>3. /\ Emit(f, c).loops = f.loops /\ Emit(f, c).handlers = f.handlers
          /\ Emit(f, c).code = f.code \cup {c}
      BY <2>2, FieldUpdates DEF Changed, Fields
    <2> QED BY <2>3 DEF f, c
  <1>4. ClosureOf(Top).op # "loop" /\ ClosureOf(Top).op # "break"
    BY DEF ClosureOf
  <1> HIDE DEF F, p
  <1>5. LoopFrame(F) /\ FrameLoops(F) = FrameLoops(stack[n - 1])
    <2>1. /\ LoopState(F.loops, F.handlers, stack[n - 1].code)
      BY <1>2, <1>3 DEF LoopFrame
    <2>2. /\ LoopFrame(F) /\ LoopsIn(F.code) = LoopsIn(stack[n - 1].code)
      BY <1>3, <1>4, <2>1, EmitPlain DEF LoopFrame
    <2> QED BY <1>3, <2>2, IdsOfFrame
  <1>6. fun.code = stack[n].code BY <1>1 DEF FunctionOf
  <1> HIDE DEF fun
  <1>7. LoopFunction(fun) /\ KeptLoops(fun) = FrameLoops(stack[n])
    <2>1. FinishedApart(fun.code) /\ WellNested(fun.code)
      BY <1>2, <1>6 DEF LoopFrame, LoopState
    <2>2. LoopIds(<<>>) = {} BY DEF LoopIds
    <2>3. KeptLoops(fun) = LoopsIn(stack[n].code) BY <1>1, <1>6 DEF KeptLoops
    <2>4. FrameLoops(stack[n]) = LoopsIn(stack[n].code)
      BY <1>1, <2>2, IdsOfFrame
    <2> QED BY <2>1, <2>3, <2>4 DEF LoopFunction
  <1>8. \A d \in DOMAIN stack' :
           /\ d \in DOMAIN stack /\ d # n
           /\ LoopFrame(stack'[d]) /\ FrameLoops(stack'[d]) = FrameLoops(stack[d])
    <2> SUFFICES ASSUME NEW d \in 1..(n - 1)
                 PROVE  /\ d \in DOMAIN stack /\ d # n
                        /\ LoopFrame(stack'[d])
                        /\ FrameLoops(stack'[d]) = FrameLoops(stack[d])
      BY <1>1
    <2>1. d \in DOMAIN stack /\ d # n
      <3> HIDE DEF n
      <3> QED BY <1>1
    <2>2. CASE d = n - 1 BY <1>1, <1>5, <2>1, <2>2
    <2>3. CASE d # n - 1
      <3>1. d \in 1..(n - 2)
        <4> HIDE DEF n
        <4> QED BY <1>1, <2>3
      <3>2. stack'[d] = stack[d] BY <1>1, <3>1
      <3>3. LoopFrame(stack[d]) BY <2>1 DEF LoopInv
      <3> QED BY <2>1, <3>2, <3>3
    <2> QED BY <2>2, <2>3
  <1>9. \A i \in DOMAIN functions' :
           \/ i = p /\ functions'[i] = fun
           \/ i # p /\ i \in DOMAIN functions /\ functions'[i] = functions[i]
    BY <1>1
  <1> DEFINE old == nextLoopId..(nextLoop - 1)
  <1>10. /\ nextLoopId <= nextLoop
         /\ \A d \in DOMAIN stack : FrameLoops(stack[d]) \subseteq old
         /\ \A i \in DOMAIN functions : /\ LoopFunction(functions[i])
                                        /\ KeptLoops(functions[i]) \subseteq old
    BY DEF LoopInv
  <1>11. old' = old BY <1>1
  <1> HIDE DEF old, n
  <1>12. \A d \in DOMAIN stack' : LoopFrame(stack'[d]) /\ FrameLoops(stack'[d]) \subseteq old
    BY <1>8, <1>10
  <1>13. \A i \in DOMAIN functions' : /\ LoopFunction(functions'[i])
                                      /\ KeptLoops(functions'[i]) \subseteq old
    BY <1>1, <1>7, <1>9, <1>10
  <1>14. \A d, e \in DOMAIN stack' :
            d # e => FrameLoops(stack'[d]) \cap FrameLoops(stack'[e]) = {}
    BY <1>8 DEF LoopInv
  <1>15. \A i \in DOMAIN functions, d \in DOMAIN stack :
            KeptLoops(functions[i]) \cap FrameLoops(stack[d]) = {}
    BY DEF LoopInv
  <1>16. \A i, j \in DOMAIN functions' :
            i # j => KeptLoops(functions'[i]) \cap KeptLoops(functions'[j]) = {}
    <2>1. \A i, j \in DOMAIN functions :
            i # j => KeptLoops(functions[i]) \cap KeptLoops(functions[j]) = {}
      BY DEF LoopInv
    <2> QED BY <1>1, <1>7, <1>9, <1>15, <2>1
  <1>17. \A i \in DOMAIN functions', d \in DOMAIN stack' :
            KeptLoops(functions'[i]) \cap FrameLoops(stack'[d]) = {}
    <2>1. \A d \in DOMAIN stack' : FrameLoops(stack[n]) \cap FrameLoops(stack'[d]) = {}
      BY <1>1, <1>8 DEF LoopInv
    <2> QED BY <1>7, <1>8, <1>9, <1>15, <2>1
  <1>18. \A i \in DOMAIN module :
            /\ LoopFunction(module[i]) /\ KeptLoops(module[i]) \subseteq 0..(nextLoopId - 1)
    BY DEF LoopInv
  <1>19. \A i, j \in DOMAIN module :
            i # j => KeptLoops(module[i]) \cap KeptLoops(module[j]) = {}
    BY DEF LoopInv
  <1> QED BY <1>1, <1>10, <1>11, <1>12, <1>13, <1>14, <1>16, <1>17, <1>18, <1>19
          DEF LoopInv, old

-----------------------------------------------------------------------------
(* The steps that begin and end a form *)

\* The functions of m keep loops with ids from first to last - 1, each its own.
KeepApart(m, first, last) ==
    /\ \A i \in DOMAIN m : /\ LoopFunction(m[i])
                           /\ KeptLoops(m[i]) \subseteq first..(last - 1)
    /\ \A i, j \in DOMAIN m : i # j => KeptLoops(m[i]) \cap KeptLoops(m[j]) = {}

LEMMA KeepMore ==
    ASSUME NEW m, NEW first \in Nat, NEW last \in Nat, NEW later \in Nat,
           last <= later, KeepApart(m, first, last)
    PROVE  KeepApart(m, first, later)
  <1>1. first..(last - 1) \subseteq first..(later - 1) OBVIOUS
  <1> QED BY <1>1 DEF KeepApart

LEMMA KeepConcat ==
    ASSUME NEW S, NEW m \in Seq(S), NEW n \in Seq(S),
           NEW first \in Nat, NEW mid \in Nat, NEW last \in Nat,
           first <= mid, mid <= last,
           KeepApart(m, first, mid), KeepApart(n, mid, last)
    PROVE  KeepApart(m \o n, first, last)
  <1> DEFINE both == m \o n
             old == first..(mid - 1)
             new == mid..(last - 1)
             all == first..(last - 1)
  <1>1. old \subseteq all /\ new \subseteq all /\ old \cap new = {} OBVIOUS
  <1>2. \A i \in DOMAIN both :
           \/ i \in DOMAIN m /\ both[i] = m[i]
           \/ i - Len(m) \in DOMAIN n /\ both[i] = n[i - Len(m)]
    OBVIOUS
  <1>3. \A i, j \in DOMAIN both : i # j => i - Len(m) # j - Len(m)
    OBVIOUS
  <1>4. /\ \A i \in DOMAIN m : LoopFunction(m[i]) /\ KeptLoops(m[i]) \subseteq old
        /\ \A i \in DOMAIN n : LoopFunction(n[i]) /\ KeptLoops(n[i]) \subseteq new
        /\ \A i, j \in DOMAIN m : i # j => KeptLoops(m[i]) \cap KeptLoops(m[j]) = {}
        /\ \A i, j \in DOMAIN n : i # j => KeptLoops(n[i]) \cap KeptLoops(n[j]) = {}
    BY DEF KeepApart
  <1> HIDE DEF both, old, new, all
  <1>5. \A i \in DOMAIN both : LoopFunction(both[i]) /\ KeptLoops(both[i]) \subseteq all
    BY <1>1, <1>2, <1>4
  <1>6. \A i \in DOMAIN m, j \in DOMAIN n : KeptLoops(m[i]) \cap KeptLoops(n[j]) = {}
    BY <1>1, <1>4
  <1>7. \A i, j \in DOMAIN both :
           i # j => KeptLoops(both[i]) \cap KeptLoops(both[j]) = {}
    BY <1>2, <1>3, <1>4, <1>6
  <1> QED BY <1>5, <1>7 DEF KeepApart, both, all

\* Whatever ends a form, the loops of the functions it kept have older ids
\* than those of the next form.
LEMMA LoopDrop ==
    ASSUME DropContext, nextLoopId' \in Nat, KeepApart(module', 0, nextLoopId')
    PROVE  LoopInv'
  <1>1. stack' = <<>> /\ functions' = <<>> /\ nextLoop' = nextLoopId'
    BY DEF DropContext
  <1> QED BY <1>1 DEF LoopInv, KeepApart

LEMMA LoopKept ==
    ASSUME Inv, LoopInv
    PROVE  /\ KeepApart(module, 0, nextLoopId)
           /\ KeepApart(module, 0, nextLoop)
           /\ KeepApart(module \o functions, 0, nextLoop)
  <1>1. /\ module \in Seq(Function) /\ functions \in Seq(Function \cup {Pending})
        /\ nextLoopId \in Nat /\ nextLoop \in Nat /\ nextLoopId <= nextLoop
    BY DEF Inv, TypeOK, LoopInv
  <1>2. /\ KeepApart(module, 0, nextLoopId)
        /\ KeepApart(functions, nextLoopId, nextLoop)
    BY DEF LoopInv, KeepApart
  <1>3. module \in Seq(Function \cup {Pending}) BY <1>1
  <1> QED BY <1>1, <1>2, <1>3, KeepMore, KeepConcat

LEMMA LoopFail == ASSUME Inv, LoopInv, Fail PROVE LoopInv'
  <1>1. /\ DropContext /\ module' = module /\ nextLoopId' = nextLoopId
    BY DEF Fail, session
  <1>2. nextLoopId \in Nat BY DEF Inv, TypeOK
  <1> QED BY <1>1, <1>2, LoopKept, LoopDrop

LEMMA LoopFinish == ASSUME Inv, LoopInv, Finish PROVE LoopInv'
  <1>1. /\ DropContext /\ nextLoopId' = nextLoop
        /\ module' = module \o functions \/ module' = module
    BY DEF Finish
  <1>2. nextLoop \in Nat BY DEF Inv, TypeOK
  <1>3. KeepApart(module', 0, nextLoop) BY <1>1, LoopKept
  <1> QED BY <1>1, <1>2, <1>3, LoopDrop

LEMMA LoopBegin ==
    ASSUME Inv, LoopInv, stack = <<>>, stack' = <<NewFrame(NoFunction)>>,
           UNCHANGED <<module, nextLoopId, functions, nextLoop>>
    PROVE  LoopInv'
  <1> DEFINE F == NewFrame(NoFunction)
  <1>1. F.loops = <<>> /\ F.code = {} /\ F.handlers = <<>> BY NewFrameFields
  <1> HIDE DEF F
  <1>2. LoopFrame(F) /\ FrameLoops(F) = {}
    <2>1. LoopBodies(<<>>) = {} BY DEF LoopBodies
    <2>2. LoopsFollow(<<>>, <<>>)
      BY <2>1, FS_EmptySet DEF LoopsFollow
    <2>3. LoopIds(<<>>) = {} BY DEF LoopIds
    <2>4. FinishedApart({}) /\ WellNested({}) BY DEF FinishedApart, WellNested
    <2>5. LoopState(<<>>, <<>>, {}) BY <2>2, <2>3, <2>4 DEF LoopState
    <2>6. LoopsIn({}) = {} BY DEF LoopsIn
    <2> QED BY <1>1, <2>3, <2>5, <2>6, IdsOfFrame DEF LoopFrame
  <1>3. DOMAIN stack' = {1} /\ stack'[1] = F BY DEF F
  <1>4. functions = <<>> BY DEF Inv
  <1> QED BY <1>2, <1>3, <1>4 DEF LoopInv

LEMMA LoopBegins ==
    ASSUME Inv, LoopInv, BeginExpr \/ \E n \in Interned : BeginDef(n)
    PROVE  LoopInv'
  <1>1. CASE BeginExpr BY <1>1, LoopBegin DEF BeginExpr, session
  <1>2. ASSUME NEW n \in Interned, BeginDef(n) PROVE LoopInv'
    <2>1. CASE n \in Reserved
      BY <1>2, <2>1 DEF BeginDef, session, context, LoopInv
    <2>2. CASE n \notin Reserved
      BY <1>2, <2>2, LoopBegin DEF BeginDef
    <2> QED BY <2>1, <2>2
  <1> QED BY <1>1, <1>2

-----------------------------------------------------------------------------
(* The invariant *)

LEMMA LoopInit == ASSUME Init PROVE LoopInv
  BY DEF Init, LoopInv

LEMMA LoopUnchanged ==
    ASSUME LoopInv, UNCHANGED <<module, nextLoopId, functions, nextLoop, stack>>
    PROVE  LoopInv'
  BY DEF LoopInv

LEMMA LoopNames ==
    ASSUME Inv, LoopInv, NEW n \in Name,
           \/ ResolveLocal(n) \/ ResolveGlobal(n) \/ BeginCapture(n)
           \/ EnterRange(n) \/ NextBinding(n)
    PROVE  LoopInv'
  <1>1. CASE ResolveLocal(n) BY <1>1, LoopLoads
  <1>2. CASE ResolveGlobal(n)
    <2>1. CASE n \in Generated BY <1>2, <2>1, LoopFail DEF ResolveGlobal
    <2>2. CASE n \notin Generated BY <1>2, <2>2, LoopLoads
    <2> QED BY <2>1, <2>2
  <1>3. CASE BeginCapture(n)
    BY <1>3, LoopUnchanged DEF BeginCapture, session
  <1>4. CASE EnterRange(n)
    <2>1. <<n>> \in Seq(Name) OBVIOUS
    <2> QED BY <1>4, <2>1, LoopEnterForm DEF EnterRange
  <1>5. CASE NextBinding(n)
    <2>1. CASE n \in Range(Last(Top.handlers).names)
      BY <1>5, <2>1, LoopFail DEF NextBinding
    <2>2. CASE n \notin Range(Last(Top.handlers).names)
      BY <1>5, <2>2, LoopNextBinding
    <2> QED BY <2>1, <2>2
  <1> QED BY <1>1, <1>2, <1>3, <1>4, <1>5

LEMMA LoopNext == ASSUME Inv, LoopInv, [Next]_vars PROVE LoopInv'
  <1>1. CASE BeginExpr \/ \E n \in Interned : BeginDef(n) BY <1>1, LoopBegins
  <1>2. CASE \E n \in Name : \/ ResolveLocal(n) \/ ResolveGlobal(n)
                             \/ BeginCapture(n) \/ EnterRange(n)
                             \/ NextBinding(n)
    BY <1>2, LoopNames
  <1>3. CASE CaptureHop BY <1>3, LoopCaptureHop
  <1>4. ASSUME NEW params \in BoundedSeq(Name, MaxParams), EnterFn(params)
        PROVE  LoopInv'
    <2>1. CASE ~IsInjective(params) BY <1>4, <2>1, LoopFail DEF EnterFn
    <2>2. CASE IsInjective(params) BY <1>4, <2>2, ParamsType, LoopEnterFn
    <2> QED BY <2>1, <2>2
  <1>5. CASE ExitFn BY <1>5, LoopExitFn
  <1>6. CASE EnterLet \/ EnterState
    <2>1. <<>> \in Seq(Name) OBVIOUS
    <2> QED BY <1>6, <2>1, LoopEnterForm DEF EnterLet, EnterState
  <1>7. CASE LetBody \/ RangeBody \/ StateCond BY <1>7, LoopOpens
  <1>8. CASE StateBody \/ StateNext \/ StateUpdate BY <1>8, LoopMovesOn
  <1>9. CASE LetExit \/ RangeExit \/ StateExit BY <1>9, LoopCloses
  <1>10. CASE Break
    <2>1. CASE Top.loops = <<>> BY <1>10, <2>1, LoopFail DEF Break
    <2>2. CASE Top.loops # <<>> BY <1>10, <2>2, LoopBreak
    <2> QED BY <2>1, <2>2
  <1>11. CASE Malformed BY <1>11, LoopFail DEF Malformed
  <1>12. CASE Finish BY <1>12, LoopFinish
  <1>13. CASE UNCHANGED vars
    BY <1>13, LoopUnchanged DEF vars, session, context
  <1> QED
    BY <1>1, <1>2, <1>3, <1>4, <1>5, <1>6, <1>7, <1>8, <1>9, <1>10, <1>11,
       <1>12, <1>13
    DEF Next

\* Loop ids and loop_stack are as lower_loop and lower_break rely on.
THEOREM LoopInvariance == Spec => []LoopInv
  <1>1. Init => LoopInv BY LoopInit
  <1>2. Inv /\ LoopInv /\ [Next]_vars => LoopInv' BY LoopNext
  <1> QED BY <1>1, <1>2, Invariance, PTL DEF Spec

\* A frame's scopes and loop_stack are those of the forms in progress: no way
\* out of a form leaves a scope or a break target behind.
THEOREM ControlBalanced == Spec => []BalancedControl
  <1>1. Inv /\ LoopInv => BalancedControl
    BY DEF Inv, LoopInv, LoopFrame, LoopState, BalancedControl
  <1> QED BY <1>1, Invariance, LoopInvariance, PTL

\* No two loops of the session have the same id.
THEOREM LoopIdsUnique == Spec => []UniqueLoopIds
  <1>1. ASSUME Inv, LoopInv PROVE UniqueLoopIds
    <2> DEFINE done == module \o functions
               ids == [i \in 1..(Len(done) + Len(stack)) |->
                         IF i <= Len(done) THEN KeptLoops(done[i])
                         ELSE FrameLoops(stack[i - Len(done)])]
               old == 0..(nextLoopId - 1)
               new == nextLoopId..(nextLoop - 1)
    <2>1. /\ module \in Seq(Function) /\ functions \in Seq(Function \cup {Pending})
          /\ stack \in Seq(Frame) /\ nextLoopId \in Nat /\ nextLoop \in Nat
      BY <1>1 DEF Inv, TypeOK
    <2>2. \A i \in DOMAIN done :
             \/ i \in DOMAIN module /\ done[i] = module[i]
             \/ /\ i - Len(module) \in DOMAIN functions
                /\ done[i] = functions[i - Len(module)]
      BY <2>1
    <2>3. \A i \in DOMAIN done : LoopFunction(done[i])
      BY <1>1, <2>2 DEF LoopInv
    <2>4. \A i, j \in DOMAIN ids : i # j => ids[i] \cap ids[j] = {}
      <3>1. \A i \in DOMAIN ids :
               \/ i \in DOMAIN module /\ ids[i] = KeptLoops(module[i])
               \/ /\ i - Len(module) \in DOMAIN functions
                  /\ ids[i] = KeptLoops(functions[i - Len(module)])
               \/ /\ i - Len(module) - Len(functions) \in DOMAIN stack
                  /\ ids[i] = FrameLoops(stack[i - Len(module) - Len(functions)])
        <4> SUFFICES ASSUME NEW i \in DOMAIN ids
                     PROVE
               \/ i \in DOMAIN module /\ ids[i] = KeptLoops(module[i])
               \/ /\ i - Len(module) \in DOMAIN functions
                  /\ ids[i] = KeptLoops(functions[i - Len(module)])
               \/ /\ i - Len(module) - Len(functions) \in DOMAIN stack
                  /\ ids[i] = FrameLoops(stack[i - Len(module) - Len(functions)])
          OBVIOUS
        <4>1. /\ Len(done) = Len(module) + Len(functions)
              /\ DOMAIN done = 1..Len(done) /\ Len(done) \in Nat
              /\ Len(module) \in Nat /\ Len(functions) \in Nat /\ Len(stack) \in Nat
          BY <2>1
        <4>2. CASE i <= Len(done)
          <5>1. i \in DOMAIN done /\ ids[i] = KeptLoops(done[i])
            BY <4>1, <4>2
          <5> HIDE DEF ids, done
          <5> QED BY <2>2, <5>1
        <4>3. CASE ~(i <= Len(done))
          <5>1. ids[i] = FrameLoops(stack[i - Len(done)]) BY <4>3
          <5>2. i \in 1..(Len(done) + Len(stack)) OBVIOUS
          <5> HIDE DEF ids, done
          <5>3. /\ i - Len(done) \in DOMAIN stack
                /\ i - Len(done) = i - Len(module) - Len(functions)
            BY <2>1, <4>1, <4>3, <5>2
          <5> QED BY <5>1, <5>3
        <4> QED BY <4>2, <4>3
      <3>2. /\ \A i, j \in DOMAIN ids : i # j =>
                  /\ i - Len(module) # j - Len(module)
                  /\ i - Len(module) - Len(functions) # j - Len(module) - Len(functions)
        BY <2>1
      <3>3. /\ \A i \in DOMAIN module : KeptLoops(module[i]) \subseteq old
            /\ \A i \in DOMAIN functions : KeptLoops(functions[i]) \subseteq new
            /\ \A d \in DOMAIN stack : FrameLoops(stack[d]) \subseteq new
        BY <1>1 DEF LoopInv
      <3>4. old \cap new = {} BY <2>1
      <3>5. /\ \A i, j \in DOMAIN module :
                  i # j => KeptLoops(module[i]) \cap KeptLoops(module[j]) = {}
            /\ \A i, j \in DOMAIN functions :
                  i # j => KeptLoops(functions[i]) \cap KeptLoops(functions[j]) = {}
            /\ \A d, e \in DOMAIN stack :
                  d # e => FrameLoops(stack[d]) \cap FrameLoops(stack[e]) = {}
            /\ \A i \in DOMAIN functions, d \in DOMAIN stack :
                  KeptLoops(functions[i]) \cap FrameLoops(stack[d]) = {}
        BY <1>1 DEF LoopInv
      <3> HIDE DEF ids, done, old, new
      <3>6. /\ \A i \in DOMAIN module, j \in DOMAIN functions :
                  KeptLoops(module[i]) \cap KeptLoops(functions[j]) = {}
            /\ \A i \in DOMAIN module, d \in DOMAIN stack :
                  KeptLoops(module[i]) \cap FrameLoops(stack[d]) = {}
        BY <3>3, <3>4
      <3> QED BY <3>1, <3>2, <3>5, <3>6
    <2>5. \A d \in DOMAIN stack : LoopsApart(stack[d])
      <3> SUFFICES ASSUME NEW d \in DOMAIN stack PROVE LoopsApart(stack[d])
        OBVIOUS
      <3>1. LoopState(stack[d].loops, stack[d].handlers, stack[d].code)
        BY <1>1 DEF LoopInv, LoopFrame
      <3>2. OpenLoops(stack[d]) = LoopIds(stack[d].handlers) BY IdsOfFrame
      <3> QED BY <3>1, <3>2 DEF LoopState, LoopsApart
    <2>6. \A i \in DOMAIN done : done[i] = Pending \/ FinishedApart(done[i].code)
      BY <2>3 DEF LoopFunction
    <2> HIDE DEF done, ids
    <2>7. (\A i, j \in DOMAIN ids : i # j => ids[i] \cap ids[j] = {})
      BY <2>4
    <2> QED BY <2>5, <2>6, <2>7 DEF UniqueLoopIds, done, ids
  <1> QED BY <1>1, Invariance, LoopInvariance, PTL

-----------------------------------------------------------------------------
(* Scopes: the inductive invariant *)

\* Of the first s scopes of a function, scope i is the innermost to bind n.
BindsAt(scopes, s, n, i) ==
    /\ i \in 1..s
    /\ scopes[i][n] # NoSlot
    /\ \A j \in 1..s : j > i => scopes[j][n] = NoSlot

\* The variable in a slot of frame d.
SlotOf(d, slot) == [frame |-> d, slot |-> slot]

\* Inside the first s scopes of frame d, where `base` is the environment
\* around the function, `e` is the environment.
Shows(scopes, s, d, base, e) ==
    /\ s \in 0..Len(scopes)
    /\ \A n \in Name :
          \/ (\A i \in 1..s : scopes[i][n] = NoSlot) /\ e[n] = base[n]
          \/ \E i \in 1..s : /\ BindsAt(scopes, s, n, i)
                             /\ e[n] = SlotOf(d, scopes[i][n])

\* The scopes that were open when call k of a function began.
OpenBelow(hs, k) == 1 + Cardinality({j \in OpenForms(hs) : j < k})

\* What each call in progress will put back when its form is lowered.
CallsShown(scopes, hs, d, base) ==
    \A k \in DOMAIN hs : Shows(scopes, OpenBelow(hs, k), d, base, hs[k].outer)

\* A reference of frame d, with these captures, denotes the variable its name
\* had where it is written.
Denotes(captures, d, reg, i) ==
    CASE i.op = "local" -> i.binder = [frame |-> d, slot |-> i.slot]
      [] i.op = "capture" -> /\ i.slot + 1 \in DOMAIN captures
                             /\ i.binder = captures[i.slot + 1].origin
      [] i.op = "global" -> /\ i.slot + 1 \in DOMAIN reg
                            /\ i.binder = NoBinder
                            /\ reg[i.slot + 1] = i.name
      [] OTHER -> TRUE

\* Frame d is as it should be where the environment is e.
FrameScoped(f, d, e, reg) ==
    /\ Shows(f.scopes, Len(f.scopes), d, f.outer, e)
    /\ CallsShown(f.scopes, f.handlers, d, f.outer)
    /\ \A i \in f.code : Denotes(f.captures, d, reg, i)

\* The environment e, or that at the position a frame further out has come to.
Inside(frames, e, d) == IF d = Len(frames) THEN e ELSE frames[d + 1].outer

ScopeInv ==
    /\ stack = <<>> => env = EmptyEnv
    /\ stack # <<>> => stack[1].outer = EmptyEnv
    /\ \A d \in DOMAIN stack : FrameScoped(stack[d], d, Inside(stack, env, d), registry)
    /\ hop # NoHop => hop.binder = hop.origin

-----------------------------------------------------------------------------
(* What the scopes show *)

LEMMA ShownLocal ==
    ASSUME NEW f \in Frame, NEW d, NEW e, NEW n \in Name, NEW slot,
           ResolvesTo(f, n, slot), Shows(f.scopes, Len(f.scopes), d, f.outer, e)
    PROVE  e[n] = SlotOf(d, slot)
  <1>1. /\ f.scopes \in Seq(Scope) /\ DOMAIN f.scopes = 1..Len(f.scopes)
        /\ Len(f.scopes) \in Nat
    BY DEF Frame
  <1>2. PICK i \in DOMAIN f.scopes :
           /\ slot # NoSlot /\ f.scopes[i][n] = slot
           /\ \A j \in DOMAIN f.scopes : j > i => f.scopes[j][n] = NoSlot
    BY DEF ResolvesTo
  <1>3. PICK k \in 1..Len(f.scopes) :
           /\ BindsAt(f.scopes, Len(f.scopes), n, k)
           /\ e[n] = SlotOf(d, f.scopes[k][n])
    BY <1>1, <1>2 DEF Shows
  <1>4. k = i
    <2>1. ~(k > i) BY <1>1, <1>2, <1>3 DEF BindsAt
    <2>2. ~(i > k) BY <1>1, <1>2, <1>3 DEF BindsAt
    <2> QED BY <1>1, <1>2, <1>3, <2>1, <2>2
  <1> QED BY <1>2, <1>3, <1>4

LEMMA ShownOutside ==
    ASSUME NEW f \in Frame, NEW d, NEW e, NEW n \in Name, Unresolved(f, n),
           Shows(f.scopes, Len(f.scopes), d, f.outer, e)
    PROVE  e[n] = f.outer[n]
  <1>1. f.scopes \in Seq(Scope) /\ DOMAIN f.scopes = 1..Len(f.scopes)
    BY DEF Frame
  <1>2. \A i \in 1..Len(f.scopes) : f.scopes[i][n] = NoSlot
    BY <1>1 DEF Unresolved
  <1> QED BY <1>1, <1>2 DEF Shows, BindsAt

\* No function further in than d binds n: it is seen here as in d.
LEMMA CarriedIn ==
    ASSUME Inv, ScopeInv, NEW d \in DOMAIN stack, NEW n \in Name,
           \A e \in DOMAIN stack : e > d => Unresolved(stack[e], n)
    PROVE  env[n] = Inside(stack, env, d)[n]
  <1>1. /\ stack \in Seq(Frame) /\ Len(stack) \in Nat
        /\ DOMAIN stack = 1..Len(stack) /\ d \in Nat /\ d <= Len(stack)
        /\ Len(stack) \in DOMAIN stack
    BY DEF Inv, TypeOK
  <1> DEFINE P == {e \in d..Len(stack) : Inside(stack, env, e)[n] # Inside(stack, env, d)[n]}
  <1>2. CASE P # {}
    <2>1. P \in SUBSET (1..Len(stack)) BY <1>1
    <2>2. PICK m \in P : \A j \in P : m <= j
      BY <1>1, <1>2, <2>1, FirstPosition
    <2>3. /\ m \in DOMAIN stack /\ m \in d..Len(stack) /\ m # d /\ m > d
          /\ m - 1 \in d..Len(stack) /\ m - 1 # Len(stack) /\ m - 1 + 1 = m
          /\ ~(m <= m - 1) /\ Inside(stack, env, m)[n] # Inside(stack, env, d)[n]
      BY <1>1, <2>2
    <2>4. Inside(stack, env, m - 1)[n] = Inside(stack, env, d)[n] BY <2>2, <2>3
    <2>5. Inside(stack, env, m - 1) = stack[m].outer BY <2>3 DEF Inside
    <2>6. Inside(stack, env, m)[n] = stack[m].outer[n]
      <3>1. stack[m] \in Frame BY <1>1, <2>3
      <3>2. Shows(stack[m].scopes, Len(stack[m].scopes), m, stack[m].outer, Inside(stack, env, m))
        BY <2>3 DEF ScopeInv, FrameScoped
      <3>3. Unresolved(stack[m], n) BY <2>3
      <3> QED BY <3>1, <3>2, <3>3, ShownOutside
    <2> QED BY <2>3, <2>4, <2>5, <2>6
  <1>3. CASE P = {}
    <2>1. Len(stack) \notin P BY <1>3
    <2>2. Len(stack) \in d..Len(stack) BY <1>1
    <2>3. Inside(stack, env, Len(stack))[n] = Inside(stack, env, d)[n] BY <2>1, <2>2
    <2> QED BY <2>3 DEF Inside
  <1> QED BY <1>2, <1>3

\* A scope more.
LEMMA ShowsAppend ==
    ASSUME NEW scopes \in Seq(Scope), NEW sc \in Scope, NEW d, NEW base,
           NEW e, NEW e2, Shows(scopes, Len(scopes), d, base, e),
           \A n \in Name : e2[n] = IF sc[n] # NoSlot
                                   THEN SlotOf(d, sc[n]) ELSE e[n]
    PROVE  Shows(Append(scopes, sc), Len(Append(scopes, sc)), d, base, e2)
  <1> DEFINE l == Len(scopes)
             more == Append(scopes, sc)
  <1>1. /\ l \in Nat /\ Len(more) = l + 1 /\ more[l + 1] = sc
        /\ \A i \in 1..l : more[i] = scopes[i]
    OBVIOUS
  <1>2. Shows(scopes, l, d, base, e) OBVIOUS
  <1> HIDE DEF l, more
  <1>3. ASSUME NEW n \in Name
        PROVE  \/ (\A i \in 1..(l + 1) : more[i][n] = NoSlot) /\ e2[n] = base[n]
               \/ \E i \in 1..(l + 1) :
                     /\ BindsAt(more, l + 1, n, i)
                     /\ e2[n] = SlotOf(d, more[i][n])
    <2>0. \A i \in 1..(l + 1) : i \in 1..l \/ i = l + 1 BY <1>1
    <2>1. CASE sc[n] # NoSlot
      <3>1. BindsAt(more, l + 1, n, l + 1) BY <1>1, <2>1 DEF BindsAt
      <3>2. l + 1 \in 1..(l + 1) BY <1>1
      <3> QED BY <1>1, <2>1, <3>1, <3>2
    <2>2. CASE sc[n] = NoSlot
      <3>1. e2[n] = e[n] BY <2>2
      <3>2. CASE (\A i \in 1..l : scopes[i][n] = NoSlot) /\ e[n] = base[n]
        BY <1>1, <2>0, <2>2, <3>1, <3>2
      <3>3. ASSUME NEW i \in 1..l, BindsAt(scopes, l, n, i),
                   e[n] = SlotOf(d, scopes[i][n])
            PROVE  /\ i \in 1..(l + 1) /\ BindsAt(more, l + 1, n, i)
                   /\ e2[n] = SlotOf(d, more[i][n])
        BY <1>1, <2>0, <2>2, <3>1, <3>3 DEF BindsAt
      <3> QED BY <1>2, <3>2, <3>3 DEF Shows
    <2> QED BY <2>1, <2>2
  <1>4. Len(more) \in 0..Len(more) BY <1>1
  <1>5. Shows(more, l + 1, d, base, e2) BY <1>1, <1>3, <1>4 DEF Shows
  <1> QED BY <1>1, <1>5 DEF more

\* Only the scopes that are looked through matter.
LEMMA ShowsPrefix ==
    ASSUME NEW scopes, NEW more, NEW s \in Nat, NEW d, NEW base, NEW e,
           Len(more) \in Nat, s <= Len(more),
           \A i \in 1..s : more[i] = scopes[i],
           Shows(scopes, s, d, base, e)
    PROVE  Shows(more, s, d, base, e)
  <1>1. s \in 0..Len(more) OBVIOUS
  <1> QED BY <1>1 DEF Shows, BindsAt

-----------------------------------------------------------------------------
(* What the calls in progress will put back *)

LEMMA OpenBelowFacts ==
    ASSUME NEW hs \in Seq(Handler), NEW h \in Handler
    PROVE  /\ OpenBelow(Append(hs, h), Len(hs) + 1) = 1 + Cardinality(OpenForms(hs))
           /\ \A k \in DOMAIN hs :
                 /\ OpenBelow(Append(hs, h), k) = OpenBelow(hs, k)
                 /\ OpenBelow(hs, k) \in 1..(1 + Cardinality(OpenForms(hs)))
  <1> DEFINE m == Append(hs, h)
  <1>1. /\ DOMAIN m = 1..(Len(hs) + 1) /\ DOMAIN hs = 1..Len(hs) /\ Len(hs) \in Nat
        /\ \A j \in 1..Len(hs) : m[j] = hs[j]
    OBVIOUS
  <1>2. IsFiniteSet(OpenForms(hs)) /\ Cardinality(OpenForms(hs)) \in Nat
    BY OpenFormsAppend
  <1> HIDE DEF m
  <1>3. {j \in OpenForms(m) : j < Len(hs) + 1} = OpenForms(hs)
    BY <1>1 DEF OpenForms
  <1>4. ASSUME NEW k \in DOMAIN hs
        PROVE  /\ OpenBelow(m, k) = OpenBelow(hs, k)
               /\ OpenBelow(hs, k) \in 1..(1 + Cardinality(OpenForms(hs)))
    <2> DEFINE Q == {j \in OpenForms(hs) : j < k}
    <2>1. {j \in OpenForms(m) : j < k} = Q
      BY <1>1 DEF OpenForms
    <2>2. Q \subseteq OpenForms(hs) OBVIOUS
    <2>3. Cardinality(Q) \in Nat /\ Cardinality(Q) <= Cardinality(OpenForms(hs))
      BY <1>2, <2>2, FS_Subset, FS_CardinalityType
    <2>4. OpenBelow(hs, k) = 1 + Cardinality(Q) /\ OpenBelow(m, k) = 1 + Cardinality(Q)
      BY <2>1 DEF OpenBelow
    <2> HIDE DEF Q
    <2> QED BY <1>2, <2>3, <2>4
  <1> QED BY <1>3, <1>4 DEF OpenBelow, m

LEMMA CallsAppend ==
    ASSUME NEW hs \in Seq(Handler), NEW h \in Handler, NEW scopes, NEW d, NEW base
    PROVE  CallsShown(scopes, Append(hs, h), d, base) <=>
             /\ CallsShown(scopes, hs, d, base)
             /\ Shows(scopes, 1 + Cardinality(OpenForms(hs)), d, base, h.outer)
  <1> DEFINE m == Append(hs, h)
  <1>1. /\ DOMAIN m = DOMAIN hs \cup {Len(hs) + 1}
        /\ m[Len(hs) + 1] = h
        /\ \A k \in DOMAIN hs : m[k] = hs[k]
    OBVIOUS
  <1>2. /\ OpenBelow(m, Len(hs) + 1) = 1 + Cardinality(OpenForms(hs))
        /\ \A k \in DOMAIN hs : OpenBelow(m, k) = OpenBelow(hs, k)
    BY OpenBelowFacts
  <1> HIDE DEF m
  <1>3. CallsShown(scopes, m, d, base) <=>
          /\ CallsShown(scopes, hs, d, base)
          /\ Shows(scopes, 1 + Cardinality(OpenForms(hs)), d, base, h.outer)
    BY <1>1, <1>2 DEF CallsShown
  <1> QED BY <1>3 DEF m

LEMMA CallsPrefix ==
    ASSUME NEW hs \in Seq(Handler), NEW scopes, NEW more, NEW d, NEW base,
           Len(more) \in Nat, 1 + Cardinality(OpenForms(hs)) <= Len(more),
           \A i \in 1..(1 + Cardinality(OpenForms(hs))) : more[i] = scopes[i],
           CallsShown(scopes, hs, d, base)
    PROVE  CallsShown(more, hs, d, base)
  <1> SUFFICES ASSUME NEW k \in DOMAIN hs
               PROVE  Shows(more, OpenBelow(hs, k), d, base, hs[k].outer)
    BY DEF CallsShown
  <1> DEFINE s == OpenBelow(hs, k)
             c == 1 + Cardinality(OpenForms(hs))
  <1>1. s \in 1..c /\ c \in Nat
    <2>1. hs[k] \in Handler OBVIOUS
    <2> QED BY <2>1, OpenBelowFacts, OpenFormsAppend
  <1>2. Shows(scopes, s, d, base, hs[k].outer) BY DEF CallsShown
  <1> HIDE DEF s, c
  <1>3. s \in Nat /\ s <= c BY <1>1
  <1>4. s <= Len(more) /\ \A i \in 1..s : more[i] = scopes[i]
    BY <1>1, <1>3 DEF c
  <1>5. Shows(more, s, d, base, hs[k].outer)
    BY <1>2, <1>3, <1>4, ShowsPrefix
  <1> QED BY <1>5 DEF s

-----------------------------------------------------------------------------
(* Steps that change one frame *)

\* Neither captures nor registered names are ever taken back.
LEMMA StillDenotes ==
    ASSUME NEW captures, NEW more, NEW d, NEW reg, NEW names, NEW i,
           \A k \in DOMAIN captures : k \in DOMAIN more /\ more[k] = captures[k],
           \A k \in DOMAIN reg : k \in DOMAIN names /\ names[k] = reg[k],
           Denotes(captures, d, reg, i)
    PROVE  Denotes(more, d, names, i)
  BY DEF Denotes

RegistryKept ==
    \A k \in DOMAIN registry : k \in DOMAIN registry' /\ registry'[k] = registry[k]

LEMMA ScopeChange ==
    ASSUME ScopeInv, Len(stack) \in Nat, DOMAIN stack = 1..Len(stack), stack # <<>>,
           NEW d \in DOMAIN stack, NEW F, F.outer = stack[d].outer,
           stack' = [stack EXCEPT ![d] = F], Len(stack') = Len(stack),
           FrameScoped(F, d, IF d = Len(stack) THEN env' ELSE stack[d + 1].outer,
                       registry'),
           d # Len(stack) => env' = env,
           RegistryKept, hop' # NoHop => hop'.binder = hop'.origin
    PROVE  ScopeInv'
  <1>1. /\ DOMAIN stack' = DOMAIN stack /\ stack'[d] = F
        /\ \A e \in DOMAIN stack : e # d => stack'[e] = stack[e]
        /\ \A e \in DOMAIN stack : stack'[e].outer = stack[e].outer
        /\ stack' # <<>> /\ 1 \in DOMAIN stack
    OBVIOUS
  <1>2. stack'[1].outer = EmptyEnv BY <1>1 DEF ScopeInv
  <1>3. ASSUME NEW e \in DOMAIN stack
        PROVE  FrameScoped(stack'[e], e, Inside(stack', env', e), registry')
    <2>0. e # Len(stack) => e + 1 \in DOMAIN stack OBVIOUS
    <2>1. CASE e = d
      <3>1. Inside(stack', env', e) = IF d = Len(stack) THEN env' ELSE stack[d + 1].outer
        BY <1>1, <2>0, <2>1 DEF Inside
      <3> QED BY <1>1, <2>1, <3>1
    <2>2. CASE e # d
      <3>1. Inside(stack', env', e) = Inside(stack, env, e)
        BY <1>1, <2>0, <2>2 DEF Inside
      <3>2. FrameScoped(stack[e], e, Inside(stack, env, e), registry) BY DEF ScopeInv
      <3>3. \A i \in stack[e].code : Denotes(stack[e].captures, e, registry', i)
        BY <3>2, StillDenotes DEF FrameScoped, RegistryKept
      <3> QED BY <1>1, <2>2, <3>1, <3>2, <3>3 DEF FrameScoped
    <2> QED BY <2>1, <2>2
  <1> QED BY <1>1, <1>2, <1>3 DEF ScopeInv

\* What ScopeInv says of the top of the stack.
LEMMA ScopeTop ==
    ASSUME Inv, ScopeInv, stack # <<>>
    PROVE  /\ stack \in Seq(Frame) /\ Len(stack) \in Nat /\ DOMAIN stack = 1..Len(stack)
           /\ Len(stack) \in DOMAIN stack /\ Top = stack[Len(stack)]
           /\ Top \in Frame /\ DOMAIN Top = Fields
           /\ Top.scopes \in Seq(Scope) /\ Top.handlers \in Seq(Handler)
           /\ Len(Top.scopes) = 1 + Cardinality(OpenForms(Top.handlers))
           /\ Cardinality(OpenForms(Top.handlers)) \in Nat
           /\ Shows(Top.scopes, Len(Top.scopes), Len(stack), Top.outer, env)
           /\ CallsShown(Top.scopes, Top.handlers, Len(stack), Top.outer)
           /\ \A i \in Top.code : Denotes(Top.captures, Len(stack), registry, i)
  <1>1. /\ stack \in Seq(Frame) /\ Len(stack) \in Nat /\ DOMAIN stack = 1..Len(stack)
        /\ Len(stack) \in DOMAIN stack /\ Top = stack[Len(stack)]
        /\ Top \in Frame /\ DOMAIN Top = Fields
    BY TopFacts, FrameFields DEF Inv, TypeOK
  <1>2. Top.scopes \in Seq(Scope) /\ Top.handlers \in Seq(Handler)
    BY <1>1 DEF Frame
  <1>3. /\ Len(Top.scopes) = 1 + Cardinality(OpenForms(Top.handlers))
        /\ Cardinality(OpenForms(Top.handlers)) \in Nat
    <2>1. Len(Top.scopes) = Cardinality(OpenForms(Top.handlers)) + 1
      BY <1>1 DEF Inv, ScopesBalanced
    <2>2. Cardinality(OpenForms(Top.handlers)) \in Nat
      <3>1. CASE Top.handlers = <<>>
        <4>1. OpenForms(Top.handlers) = {} BY <3>1 DEF OpenForms
        <4> QED BY <4>1, FS_EmptySet
      <3>2. CASE Top.handlers # <<>>
        <4>1. Last(Top.handlers) \in Handler BY <1>2, <3>2, FrontLast
        <4> QED BY <1>2, <4>1, OpenFormsAppend
      <3> QED BY <3>1, <3>2
    <2> QED BY <2>1, <2>2
  <1>4. Inside(stack, env, Len(stack)) = env BY DEF Inside
  <1>5. FrameScoped(Top, Len(stack), env, registry) BY <1>1, <1>4 DEF ScopeInv
  <1> QED BY <1>1, <1>2, <1>3, <1>5 DEF FrameScoped

LEMMA ScopeStep ==
    ASSUME Inv, ScopeInv, stack # <<>>, NEW F, F.outer = Top.outer,
           stack' = SetTop(F), FrameScoped(F, Len(stack), env', registry'),
           RegistryKept, hop' = NoHop
    PROVE  ScopeInv'
  <1>1. /\ Len(stack) \in Nat /\ DOMAIN stack = 1..Len(stack) /\ stack \in Seq(Frame)
        /\ Len(stack) \in DOMAIN stack /\ Top = stack[Len(stack)]
    BY ScopeTop
  <1>2. stack' = [stack EXCEPT ![Len(stack)] = F] /\ Len(stack') = Len(stack)
    BY <1>1 DEF SetTop
  <1> QED BY <1>1, <1>2, ScopeChange

LEMMA RegistryStays == ASSUME registry' = registry PROVE RegistryKept
  BY DEF RegistryKept

\* An instruction joins the code of the function.
LEMMA ScopeEmit ==
    ASSUME Inv, ScopeInv, Lowering, NEW i, stack' = SetTop(Emit(Top, i)),
           RegistryKept, Denotes(Top.captures, Len(stack), registry', i),
           UNCHANGED <<hop, env>>
    PROVE  ScopeInv'
  <1> DEFINE F == Emit(Top, i)
  <1>1. stack # <<>> /\ hop' = NoHop BY DEF Lowering
  <1>2. /\ DOMAIN Top = Fields
        /\ Shows(Top.scopes, Len(Top.scopes), Len(stack), Top.outer, env)
        /\ CallsShown(Top.scopes, Top.handlers, Len(stack), Top.outer)
        /\ \A j \in Top.code : Denotes(Top.captures, Len(stack), registry, j)
    BY <1>1, ScopeTop
  <1>3. /\ F.scopes = Top.scopes /\ F.handlers = Top.handlers
        /\ F.captures = Top.captures /\ F.outer = Top.outer
        /\ F.code = Top.code \cup {i}
    BY <1>2, FieldUpdates DEF Changed, Fields
  <1> HIDE DEF F
  <1>4. \A j \in Top.code : Denotes(Top.captures, Len(stack), registry', j)
    BY <1>2, StillDenotes DEF RegistryKept
  <1>5. FrameScoped(F, Len(stack), env', registry')
    BY <1>2, <1>3, <1>4 DEF FrameScoped
  <1> QED BY <1>1, <1>3, <1>5, ScopeStep DEF F

-----------------------------------------------------------------------------
(* The steps of lower_symbol *)

LEMMA ScopeLocal == ASSUME Inv, ScopeInv, NEW n \in Name, ResolveLocal(n) PROVE ScopeInv'
  <1>1. PICK slot \in 0..(Top.nextLocal - 1) :
           /\ ResolvesTo(Top, n, slot)
           /\ stack' = SetTop(Emit(Top, LoadOf("local", slot, n, env[n])))
    BY DEF ResolveLocal
  <1>2. Lowering /\ stack # <<>> /\ UNCHANGED <<registry, hop, env>>
    BY DEF ResolveLocal, AtExpr, Lowering, session
  <1>3. env[n] = SlotOf(Len(stack), slot)
    <2>1. /\ Top \in Frame
          /\ Shows(Top.scopes, Len(Top.scopes), Len(stack), Top.outer, env)
      BY <1>2, ScopeTop
    <2>2. ResolvesTo(Top, n, slot) BY <1>1
    <2> QED BY <2>1, <2>2, ShownLocal
  <1>4. Denotes(Top.captures, Len(stack), registry',
                LoadOf("local", slot, n, env[n]))
    BY <1>3 DEF Denotes, LoadOf, SlotOf
  <1> QED BY <1>1, <1>2, <1>4, RegistryStays, ScopeEmit

\* A name that was registered keeps its place, and a new one has the last.
LEMMA InterningKeeps ==
    ASSUME registry \in Seq(Interned), NEW n \in Interned
    PROVE  /\ \A k \in DOMAIN registry :
                 k \in DOMAIN Interning(n) /\ Interning(n)[k] = registry[k]
           /\ GlobalId(Interning(n), n) + 1 \in DOMAIN Interning(n)
           /\ Interning(n)[GlobalId(Interning(n), n) + 1] = n
  <1> DEFINE reg == Interning(n)
  <1>1. \E k \in DOMAIN reg : reg[k] = n
    <2>1. CASE n \in Range(registry)
      BY <2>1 DEF Interning, Range
    <2>2. CASE n \notin Range(registry)
      <3>1. reg = Append(registry, n) BY <2>2 DEF Interning
      <3>2. Len(registry) + 1 \in DOMAIN reg /\ reg[Len(registry) + 1] = n
        BY <3>1
      <3> QED BY <3>2
    <2> QED BY <2>1, <2>2
  <1>2. \A k \in DOMAIN registry : k \in DOMAIN reg /\ reg[k] = registry[k]
    BY DEF Interning
  <1>3. DOMAIN reg \subseteq Nat BY DEF Interning
  <1> HIDE DEF reg
  <1> DEFINE c == CHOOSE k \in DOMAIN reg : reg[k] = n
  <1>4. c \in DOMAIN reg /\ reg[c] = n /\ c \in Nat BY <1>1, <1>3
  <1>5. GlobalId(reg, n) = c - 1 BY DEF GlobalId
  <1> HIDE DEF c
  <1>6. GlobalId(reg, n) + 1 = c BY <1>4, <1>5
  <1> QED BY <1>2, <1>4, <1>6 DEF reg

LEMMA ScopeGlobal ==
    ASSUME Inv, ScopeInv, NEW n \in Interned, n \notin Generated, ResolveGlobal(n)
    PROVE  ScopeInv'
  <1> DEFINE load == LoadOf("global", GlobalId(Interning(n), n), n, env[n])
  <1>1. /\ Lowering /\ stack # <<>> /\ UNCHANGED <<hop, env>>
        /\ registry' = Interning(n) /\ stack' = SetTop(Emit(Top, load))
        /\ \A d \in DOMAIN stack : Unresolved(stack[d], n)
    BY DEF ResolveGlobal, AtExpr, Lowering
  <1>2. n \in Name /\ registry \in Seq(Interned)
    BY DEF Name, Inv, TypeOK
  <1>3. 1 \in DOMAIN stack /\ stack[1] \in Frame
    BY <1>1, ScopeTop
  <1>4. env[n] = NoBinder
    <2>1. env[n] = Inside(stack, env, 1)[n] BY <1>1, <1>2, <1>3, CarriedIn
    <2>2. Inside(stack, env, 1)[n] = stack[1].outer[n]
      <3> DEFINE f == stack[1]
                 e == Inside(stack, env, 1)
      <3>1. Shows(f.scopes, Len(f.scopes), 1, f.outer, e)
        BY <1>3 DEF ScopeInv, FrameScoped
      <3>2. Unresolved(f, n) /\ f \in Frame BY <1>1, <1>3
      <3> HIDE DEF f, e
      <3>3. e[n] = f.outer[n] BY <1>2, <3>1, <3>2, ShownOutside
      <3> QED BY <3>3 DEF f, e
    <2>3. stack[1].outer[n] = NoBinder
      BY <1>1, <1>2 DEF ScopeInv, EmptyEnv
    <2> QED BY <2>1, <2>2, <2>3
  <1>5. RegistryKept BY <1>1, <1>2, InterningKeeps DEF RegistryKept
  <1>6. Denotes(Top.captures, Len(stack), registry', load)
    BY <1>1, <1>2, <1>4, InterningKeeps DEF Denotes, LoadOf
  <1> HIDE DEF load
  <1> QED BY <1>1, <1>5, <1>6, ScopeEmit

\* The function that the capture starts from is the one that binds the name.
LEMMA ScopeBeginCapture ==
    ASSUME Inv, ScopeInv, NEW n \in Name, BeginCapture(n)
    PROVE  ScopeInv'
  <1>1. /\ stack # <<>> /\ Unresolved(Top, n)
        /\ UNCHANGED <<registry, stack, env>>
    BY DEF BeginCapture, AtExpr, Lowering, session
  <1>2. PICK d \in 1..(Len(stack) - 1) :
           /\ Nearest(n, d)
           /\ \E slot \in 0..(stack[d].nextLocal - 1) :
                 /\ ResolvesTo(stack[d], n, slot)
                 /\ hop' = [at |-> d + 1,
                            src |-> [kind |-> "local", slot |-> slot],
                            origin |-> [frame |-> d, slot |-> slot],
                            name |-> n, binder |-> env[n]]
    BY DEF BeginCapture
  <1>3. PICK slot \in 0..(stack[d].nextLocal - 1) :
           /\ ResolvesTo(stack[d], n, slot)
           /\ hop' = [at |-> d + 1,
                      src |-> [kind |-> "local", slot |-> slot],
                      origin |-> [frame |-> d, slot |-> slot],
                      name |-> n, binder |-> env[n]]
    BY <1>2
  <1>4. /\ DOMAIN stack = 1..Len(stack) /\ Len(stack) \in Nat /\ stack \in Seq(Frame)
        /\ Top = stack[Len(stack)] /\ d \in DOMAIN stack /\ stack[d] \in Frame
    BY <1>1, ScopeTop
  <1>5. \A e \in DOMAIN stack : e > d => Unresolved(stack[e], n)
    <2> SUFFICES ASSUME NEW e \in DOMAIN stack, e > d PROVE Unresolved(stack[e], n)
      OBVIOUS
    <2>1. CASE e = Len(stack) BY <1>1, <1>4, <2>1
    <2>2. CASE e # Len(stack)
      <3>1. e \in (d + 1)..(Len(stack) - 1) BY <1>4, <2>2
      <3> QED BY <1>2, <3>1 DEF Nearest
    <2> QED BY <2>1, <2>2
  <1>6. env[n] = Inside(stack, env, d)[n] BY <1>4, <1>5, CarriedIn
  <1>7. Inside(stack, env, d)[n] = SlotOf(d, slot)
    <2>1. Shows(stack[d].scopes, Len(stack[d].scopes), d, stack[d].outer, Inside(stack, env, d))
      BY <1>4 DEF ScopeInv, FrameScoped
    <2> DEFINE f == stack[d]
               e == Inside(stack, env, d)
    <2>2. /\ f \in Frame /\ ResolvesTo(f, n, slot)
          /\ Shows(f.scopes, Len(f.scopes), d, f.outer, e)
      BY <1>3, <1>4, <2>1
    <2> HIDE DEF f, e
    <2>3. e[n] = SlotOf(d, slot) BY <2>2, ShownLocal
    <2> QED BY <2>3 DEF e
  <1>8. hop'.binder = hop'.origin BY <1>3, <1>6, <1>7 DEF SlotOf
  <1>9. \A e : Inside(stack', env', e) = Inside(stack, env, e) BY <1>1 DEF Inside
  <1> QED BY <1>1, <1>8, <1>9 DEF ScopeInv

\* A capture on its way stays what it was captured for.
LEMMA ScopeCaptureHop == ASSUME Inv, ScopeInv, CaptureHop PROVE ScopeInv'
  <1> DEFINE at == hop.at
             f == stack[at]
             load(i) == LoadOf("capture", i - 1, hop.name, hop.binder)
  <1>1. /\ hop # NoHop /\ hop \in Hop /\ at \in DOMAIN stack
        /\ \E G, i :
              /\ Changed(f, G, {"captures", "code"})
              /\ \A j \in DOMAIN f.captures :
                    j \in DOMAIN G.captures /\ G.captures[j] = f.captures[j]
              /\ i \in DOMAIN G.captures /\ i \in Nat
              /\ G.captures[i].origin = hop.origin
              /\ stack' = [stack EXCEPT ![at] = G]
              /\ \/ hop' = NoHop /\ G.code = f.code \cup {load(i)}
                 \/ /\ G.code = f.code
                    /\ hop' = [hop EXCEPT !.at = @ + 1, !.src = CarriedFrom(i)]
        /\ UNCHANGED <<registry, env>>
    BY CaptureHopEffect
  <1>2. PICK G, i :
              /\ Changed(f, G, {"captures", "code"})
              /\ \A j \in DOMAIN f.captures :
                    j \in DOMAIN G.captures /\ G.captures[j] = f.captures[j]
              /\ i \in DOMAIN G.captures /\ i \in Nat
              /\ G.captures[i].origin = hop.origin
              /\ stack' = [stack EXCEPT ![at] = G]
              /\ \/ hop' = NoHop /\ G.code = f.code \cup {load(i)}
                 \/ /\ G.code = f.code
                    /\ hop' = [hop EXCEPT !.at = @ + 1, !.src = CarriedFrom(i)]
    BY <1>1
  <1>3. hop.binder = hop.origin BY <1>1 DEF ScopeInv
  <1>4. hop' # NoHop => hop'.binder = hop'.origin
    <2>1. CASE hop' = NoHop BY <2>1
    <2>2. CASE hop' = [hop EXCEPT !.at = @ + 1, !.src = CarriedFrom(i)]
      <3>1. hop'.binder = hop.binder /\ hop'.origin = hop.origin
        BY <1>1, <2>2 DEF Hop
      <3> QED BY <1>3, <3>1
    <2> QED BY <1>2, <2>1, <2>2
  <1>5. Denotes(G.captures, at, registry', load(i))
    <2>1. i - 1 + 1 = i BY <1>2
    <2> QED BY <1>2, <1>3, <2>1 DEF Denotes, LoadOf
  <1> HIDE DEF load, f, at
  <1>6. G.outer = f.outer /\ G.scopes = f.scopes /\ G.handlers = f.handlers
    BY <1>2 DEF Changed, Fields
  <1>7. FrameScoped(f, at, Inside(stack, env, at), registry)
    BY <1>1 DEF ScopeInv, f
  <1>8. \A j \in G.code : Denotes(G.captures, at, registry', j)
    <2>1. \A j \in f.code : Denotes(f.captures, at, registry, j)
      BY <1>7 DEF FrameScoped
    <2>2. \A j \in f.code : Denotes(G.captures, at, registry', j)
      BY <1>1, <1>2, <2>1, StillDenotes
    <2> QED BY <1>2, <1>5, <2>2
  <1>9. FrameScoped(G, at, Inside(stack, env, at), registry')
    BY <1>6, <1>7, <1>8 DEF FrameScoped
  <1>10. Inside(stack, env, at) = IF at = Len(stack) THEN env' ELSE stack[at + 1].outer
    BY <1>1 DEF Inside
  <1>11. /\ stack \in Seq(Frame) /\ Len(stack) \in Nat /\ DOMAIN stack = 1..Len(stack)
         /\ stack # <<>> /\ Len(stack') = Len(stack)
    BY <1>1, <1>2 DEF Inv, TypeOK
  <1>12. RegistryKept BY <1>1, RegistryStays
  <1> QED BY <1>1, <1>2, <1>4, <1>6, <1>9, <1>10, <1>11, <1>12, ScopeChange DEF f

-----------------------------------------------------------------------------
(* The steps of lower_let and lower_loop *)

\* A call begins, or goes on with the scopes it has.
LEMMA ScopeCall ==
    ASSUME Inv, ScopeInv, Lowering, NEW F,
           F.scopes = Top.scopes, F.captures = Top.captures,
           F.outer = Top.outer, F.code = Top.code,
           NEW hs \in Seq(Handler), NEW g \in Handler, F.handlers = Append(hs, g),
           CallsShown(Top.scopes, hs, Len(stack), Top.outer),
           Shows(Top.scopes, 1 + Cardinality(OpenForms(hs)), Len(stack), Top.outer,
                 g.outer),
           stack' = SetTop(F), UNCHANGED <<registry, hop, env>>
    PROVE  ScopeInv'
  <1>1. stack # <<>> /\ hop' = NoHop BY DEF Lowering
  <1>2. CallsShown(F.scopes, F.handlers, Len(stack), F.outer)
    BY CallsAppend
  <1>3. FrameScoped(F, Len(stack), env', registry')
    BY <1>1, <1>2, ScopeTop DEF FrameScoped
  <1> QED BY <1>1, <1>3, RegistryStays, ScopeStep

\* What is below the call on top, and what that call will put back.
LEMMA ScopeBelow ==
    ASSUME Inv, ScopeInv, stack # <<>>, Top.handlers # <<>>
    PROVE  LET h == Last(Top.handlers)
               hs == Front(Top.handlers)
           IN /\ h \in Handler /\ hs \in Seq(Handler)
              /\ CallsShown(Top.scopes, hs, Len(stack), Top.outer)
              /\ Shows(Top.scopes, 1 + Cardinality(OpenForms(hs)), Len(stack),
                       Top.outer, h.outer)
              /\ Cardinality(OpenForms(hs)) \in Nat
              /\ Len(Top.scopes) = 1 + Cardinality(OpenForms(hs))
                                     + (IF h.at = "init" THEN 0 ELSE 1)
  <1> DEFINE h == Last(Top.handlers)
             hs == Front(Top.handlers)
  <1>1. /\ Top.handlers \in Seq(Handler)
        /\ CallsShown(Top.scopes, Top.handlers, Len(stack), Top.outer)
    BY ScopeTop
  <1>2. /\ h \in Handler /\ hs \in Seq(Handler) /\ Top.handlers = Append(hs, h)
    BY <1>1, FrontLast, FrontThenLast
  <1>3. /\ Cardinality(OpenForms(hs)) \in Nat
        /\ Len(Top.scopes) = Cardinality(OpenForms(hs)) + 1
                               + (IF h.at = "init" THEN 0 ELSE 1)
    BY TopFacts
  <1> HIDE DEF h, hs
  <1>4. /\ CallsShown(Top.scopes, hs, Len(stack), Top.outer)
        /\ Shows(Top.scopes, 1 + Cardinality(OpenForms(hs)), Len(stack),
                 Top.outer, h.outer)
    BY <1>1, <1>2, CallsAppend
  <1>5. Len(Top.scopes) = 1 + Cardinality(OpenForms(hs))
                            + (IF h.at = "init" THEN 0 ELSE 1)
    BY <1>3
  <1> QED BY <1>2, <1>3, <1>4, <1>5 DEF h, hs

LEMMA ScopeEnterForm ==
    ASSUME Inv, ScopeInv, NEW kind \in {"let", "range", "state"},
           NEW names \in Seq(Name), EnterForm(kind, names)
    PROVE  ScopeInv'
  <1> DEFINE g == [kind |-> kind, at |-> "init", names |-> names,
                   slots |-> <<>>, updates |-> <<>>, loop |-> NoLoop,
                   outer |-> env]
             F == PushHandler(Top, g)
  <1>1. /\ Lowering /\ stack # <<>> /\ stack' = SetTop(F)
        /\ UNCHANGED <<registry, hop, env>>
    BY DEF EnterForm, AtExpr, Lowering, session
  <1>2. g \in Handler /\ g.outer = env
    BY <1>1, TopFacts DEF Handler
  <1> HIDE DEF g
  <1>3. DOMAIN Top = Fields BY <1>1, ScopeTop
  <1>4. /\ F.scopes = Top.scopes /\ F.captures = Top.captures
        /\ F.outer = Top.outer /\ F.code = Top.code
        /\ F.handlers = Append(Top.handlers, g)
    BY <1>3, FieldUpdates DEF Changed, Fields
  <1> HIDE DEF F
  <1>5. /\ Top.handlers \in Seq(Handler)
        /\ CallsShown(Top.scopes, Top.handlers, Len(stack), Top.outer)
        /\ Shows(Top.scopes, 1 + Cardinality(OpenForms(Top.handlers)), Len(stack),
                 Top.outer, g.outer)
    BY <1>1, <1>2, ScopeTop
  <1> QED BY <1>1, <1>2, <1>4, <1>5, ScopeCall

\* The call on top goes on; the environment it puts back is the same.
LEMMA ScopeAdvance ==
    ASSUME Inv, ScopeInv, Lowering, Top.handlers # <<>>, NEW F,
           F.scopes = Top.scopes, F.captures = Top.captures,
           F.outer = Top.outer, F.code = Top.code,
           NEW g, g \in Handler, g.outer = Last(Top.handlers).outer,
           F.handlers = Append(Front(Top.handlers), g),
           stack' = SetTop(F), UNCHANGED <<registry, hop, env>>
    PROVE  ScopeInv'
  <1>1. stack # <<>> BY DEF Lowering
  <1> DEFINE hs == Front(Top.handlers)
  <1>2. /\ hs \in Seq(Handler)
        /\ CallsShown(Top.scopes, hs, Len(stack), Top.outer)
        /\ Shows(Top.scopes, 1 + Cardinality(OpenForms(hs)), Len(stack),
                 Top.outer, g.outer)
    BY <1>1, ScopeBelow
  <1>3. F.handlers = Append(hs, g) OBVIOUS
  <1> HIDE DEF hs
  <1> QED BY <1>2, <1>3, ScopeCall

LEMMA ScopeNextBinding ==
    ASSUME Inv, ScopeInv, NEW n \in Name, NextBinding(n),
           n \notin Range(Last(Top.handlers).names)
    PROVE  ScopeInv'
  <1> DEFINE h == Last(Top.handlers)
             g == [h EXCEPT !.names = Append(@, n)]
             F == SetHandler(Top, g)
  <1>1. /\ Lowering /\ stack # <<>> /\ Top.handlers # <<>>
        /\ stack' = SetTop(F) /\ UNCHANGED <<registry, hop, env>>
    BY DEF NextBinding, Handling, Lowering, session
  <1>2. g \in Handler /\ g.outer = h.outer
    <2>1. h \in Handler /\ h.names \in Seq(Name)
      BY <1>1, ScopeBelow, HandlerFields
    <2>2. Append(h.names, n) \in Seq(Name) BY <2>1
    <2> HIDE DEF h
    <2> QED BY <1>1, <2>1, <2>2 DEF Handler
  <1>3. DOMAIN Top = Fields BY <1>1, ScopeTop
  <1> HIDE DEF g
  <1>4. /\ F.scopes = Top.scopes /\ F.captures = Top.captures
        /\ F.outer = Top.outer /\ F.code = Top.code
        /\ F.handlers = Append(Front(Top.handlers), g)
    BY <1>3, FieldUpdates DEF Changed, Fields
  <1> HIDE DEF F
  <1> QED BY <1>1, <1>2, <1>4, ScopeAdvance

LEMMA ScopeMovesOn ==
    ASSUME Inv, ScopeInv, StateBody \/ StateNext \/ StateUpdate
    PROVE  ScopeInv'
  <1> DEFINE h == Last(Top.handlers)
  <1>1. /\ Lowering /\ stack # <<>> /\ Top.handlers # <<>> /\ h.kind = "state"
        /\ UNCHANGED <<registry, hop, env>>
    BY DEF StateBody, StateNext, StateUpdate, Handling, Lowering, session
  <1>2. h \in Handler BY <1>1, ScopeBelow
  <1>3. DOMAIN Top = Fields BY <1>1, ScopeTop
  <1> HIDE DEF h
  <1>4. ASSUME NEW at \in {"body", "next"}, NEW f, DOMAIN f = Fields,
               h.at # "init", Changed(Top, f, {"loops"}),
               stack' = SetTop(SetHandler(f, [h EXCEPT !.at = at]))
        PROVE  ScopeInv'
    <2> DEFINE g == [h EXCEPT !.at = at]
               F == SetHandler(f, g)
    <2>1. g \in Handler /\ g.outer = h.outer BY <1>2, <1>4 DEF Handler
    <2> HIDE DEF g
    <2>2. /\ F.scopes = f.scopes /\ F.captures = f.captures
          /\ F.outer = f.outer /\ F.code = f.code
          /\ F.handlers = Append(Front(f.handlers), g)
      <3>1. DOMAIN f = Fields BY <1>4
      <3> QED BY <3>1, FieldUpdates DEF Changed, Fields
    <2>3. /\ f.scopes = Top.scopes /\ f.captures = Top.captures
          /\ f.outer = Top.outer /\ f.code = Top.code /\ f.handlers = Top.handlers
      BY <1>4 DEF Changed, Fields
    <2>4. stack' = SetTop(F) BY <1>4 DEF g
    <2> HIDE DEF F
    <2> QED BY <1>1, <2>1, <2>2, <2>3, <2>4, ScopeAdvance DEF h
  <1>5. CASE StateBody
    <2> DEFINE f == PushLoop(Top, h.loop)
    <2>1. h.at # "init" /\ stack' = SetTop(SetHandler(f, [h EXCEPT !.at = "body"]))
      BY <1>5 DEF StateBody, Handling, h
    <2>2. Changed(Top, f, {"loops"}) /\ DOMAIN f = Fields
      BY <1>3, FieldUpdates DEF Changed
    <2> HIDE DEF f
    <2> QED BY <1>4, <2>1, <2>2
  <1>6. CASE StateNext
    <2> DEFINE f == PopLoop(Top)
    <2>1. h.at # "init" /\ stack' = SetTop(SetHandler(f, [h EXCEPT !.at = "next"]))
      BY <1>6 DEF StateNext, Handling, h
    <2>2. Changed(Top, f, {"loops"}) /\ DOMAIN f = Fields
      BY <1>3, FieldUpdates DEF Changed
    <2> HIDE DEF f
    <2> QED BY <1>4, <2>1, <2>2
  <1>7. CASE StateUpdate
    <2> DEFINE slot == Last(Top.scopes)[h.names[Len(h.updates) + 1]]
               g == [h EXCEPT !.updates = Append(@, slot)]
               F == SetHandler(Top, g)
    <2>1. h.at = "next" /\ Len(h.updates) < Len(h.names) /\ stack' = SetTop(F)
      BY <1>7 DEF StateUpdate, Handling, h
    <2>2. slot \in Nat \cup {NoSlot}
      <3>1. h.names[Len(h.updates) + 1] \in Name
        BY <1>2, <2>1, HandlerFields
      <3>2. Top.scopes \in Seq(Scope) /\ Len(Top.scopes) # 0
        BY <1>1, ScopeTop
      <3>3. Top.scopes # <<>> BY <3>2
      <3>4. Last(Top.scopes) \in Scope BY <3>2, <3>3, FrontLast
      <3> QED BY <3>1, <3>4 DEF Scope
    <2> HIDE DEF slot
    <2>3. g \in Handler /\ g.outer = h.outer
      <3>1. Append(h.updates, slot) \in Seq(Nat \cup {NoSlot})
        BY <1>2, <2>2, HandlerFields
      <3> QED BY <1>2, <3>1 DEF Handler
    <2> HIDE DEF g
    <2>4. /\ F.scopes = Top.scopes /\ F.captures = Top.captures
          /\ F.outer = Top.outer /\ F.code = Top.code
          /\ F.handlers = Append(Front(Top.handlers), g)
      BY <1>3, FieldUpdates DEF Changed, Fields
    <2> HIDE DEF F
    <2> QED BY <1>1, <2>1, <2>3, <2>4, ScopeAdvance DEF h
  <1> QED BY <1>1, <1>5, <1>6, <1>7

\* The names a form binds are shown by the scope that declares them.
LEMMA BoundShown ==
    ASSUME Inv, NEW names \in Seq(Name), IsInjective(names), NEW first \in Nat,
           NEW slots, slots = [i \in DOMAIN names |-> first + i - 1], NEW d
    PROVE  /\ Declared(EmptyScope, names, first) \in Scope
           /\ \A n \in Name :
                 Bound(names, slots, d)[n] =
                   IF Declared(EmptyScope, names, first)[n] # NoSlot
                   THEN SlotOf(d, Declared(EmptyScope, names, first)[n])
                   ELSE env[n]
  <1>1. slots \in Seq(Nat) /\ Len(slots) = Len(names)
    OBVIOUS
  <1>2. \A n \in Range(names) : LastEntry(names, slots, n) \in Nat
    BY <1>1, LastEntryType
  <1> DEFINE sc == Declared(EmptyScope, names, first)
  <1>3. \A n \in Name : sc[n] = IF n \in Range(names)
                                THEN LastEntry(names, slots, n) ELSE NoSlot
    BY DEF Declared, EmptyScope
  <1>4. sc \in Scope
    <2>1. sc = [n \in Name |-> sc[n]] BY DEF Declared
    <2> HIDE DEF sc
    <2>2. \A n \in Name : sc[n] \in Nat \cup {NoSlot} BY <1>2, <1>3
    <2> QED BY <2>1, <2>2 DEF Scope
  <1> HIDE DEF sc
  <1>5. ASSUME NEW n \in Name
        PROVE  Bound(names, slots, d)[n] =
                 IF sc[n] # NoSlot THEN SlotOf(d, sc[n]) ELSE env[n]
    <2>1. CASE n \in Range(names)
      <3>1. sc[n] # NoSlot /\ sc[n] = LastEntry(names, slots, n)
        <4>1. LastEntry(names, slots, n) \in Nat BY <1>2, <2>1
        <4>2. sc[n] = LastEntry(names, slots, n) BY <1>3, <2>1
        <4>3. \A x \in Nat : x # NoSlot BY DEF NoSlot
        <4> QED BY <4>1, <4>2, <4>3, Zenon
      <3>2. Bound(names, slots, d)[n] = SlotOf(d, LastEntry(names, slots, n))
        BY <2>1 DEF Bound, SlotOf
      <3> QED BY <3>1, <3>2
    <2>2. CASE n \notin Range(names)
      <3>1. sc[n] = NoSlot BY <1>3, <2>2
      <3>2. Bound(names, slots, d)[n] = env[n] BY <2>2 DEF Bound
      <3> QED BY <3>1, <3>2
    <2> QED BY <2>1, <2>2
  <1> QED BY <1>4, <1>5 DEF sc

\* The scope of a form opens.
LEMMA ScopeOpenForm ==
    ASSUME Inv, ScopeInv, Lowering, NEW f \in Frame,
           f.scopes = Top.scopes, f.captures = Top.captures,
           f.outer = Top.outer, f.code = Top.code, f.handlers = Top.handlers,
           Top.handlers # <<>>, Last(Top.handlers).at = "init",
           NEW at \in {"cond", "body"}, NEW loop \in Nat \cup {NoLoop},
           Last(Top.handlers).kind # "let" => loop \in Nat,
           OpenForm(f, at, loop), UNCHANGED <<registry, hop>>
    PROVE  ScopeInv'
  <1> DEFINE h == Last(Top.handlers)
             hs == Front(Top.handlers)
             slots == FreshSlots(f, h.names)
             sc == Declared(EmptyScope, h.names, f.nextLocal)
             g == [h EXCEPT !.at = at, !.loop = loop, !.slots = slots]
             F == Opened(f, at, loop)
  <1>1. /\ stack # <<>> /\ hop' = NoHop /\ stack' = SetTop(F)
        /\ env' = Bound(h.names, slots, Len(stack))
    BY DEF OpenForm, Opened, Lowering
  <1>2. /\ h \in Handler /\ h.names \in Seq(Name) /\ IsInjective(h.names)
        /\ hs \in Seq(Handler)
    BY <1>1, TopFacts, ScopeBelow, HandlerFields
  <1>3. f.nextLocal \in Nat /\ slots = [i \in DOMAIN h.names |-> f.nextLocal + i - 1]
    BY DEF Frame, FreshSlots
  <1>4. slots \in Seq(Nat) BY <1>2, FreshSlotsType
  <1>5. /\ F.scopes = Append(f.scopes, sc)
        /\ F.handlers = Append(Front(f.handlers), g)
        /\ F.captures = f.captures /\ F.outer = f.outer /\ F.code = f.code
    <2>1. /\ Changed(f, F, {"scopes", "nextLocal", "handlers"})
          /\ F.handlers = Append(Front(f.handlers),
               [Last(f.handlers) EXCEPT !.at = at, !.loop = loop,
                  !.slots = FreshSlots(f, Last(f.handlers).names)])
          /\ F.scopes = Append(f.scopes,
               Declared(EmptyScope, Last(f.handlers).names, f.nextLocal))
      BY OpenedFields
    <2>2. /\ g = [Last(f.handlers) EXCEPT !.at = at, !.loop = loop,
                    !.slots = FreshSlots(f, Last(f.handlers).names)]
          /\ sc = Declared(EmptyScope, Last(f.handlers).names, f.nextLocal)
      OBVIOUS
    <2> HIDE DEF g, F, sc
    <2> QED BY <2>1, <2>2 DEF Changed, Fields
  <1> HIDE DEF F, slots
  <1>6. g \in Handler /\ g.outer = h.outer
    BY <1>2, <1>4 DEF Handler, NoLoop
  <1>7. /\ sc \in Scope
        /\ \A n \in Name : env'[n] = IF sc[n] # NoSlot
                                    THEN SlotOf(Len(stack), sc[n]) ELSE env[n]
    <2> DEFINE names == h.names
               first == f.nextLocal
    <2>1. names \in Seq(Name) /\ IsInjective(names) /\ first \in Nat
          /\ slots = [i \in DOMAIN names |-> first + i - 1]
          /\ env' = Bound(names, slots, Len(stack))
          /\ sc = Declared(EmptyScope, names, first)
      BY <1>1, <1>2, <1>3
    <2> HIDE DEF names, first, sc
    <2> QED BY <2>1, BoundShown
  <1> HIDE DEF sc, g
  <1>8. /\ Top.scopes \in Seq(Scope)
        /\ Shows(Top.scopes, Len(Top.scopes), Len(stack), Top.outer, env)
        /\ \A i \in Top.code : Denotes(Top.captures, Len(stack), registry, i)
    BY <1>1, ScopeTop
  <1>9. Shows(F.scopes, Len(F.scopes), Len(stack), F.outer, env')
    BY <1>5, <1>7, <1>8, ShowsAppend
  <1>10. /\ CallsShown(Top.scopes, hs, Len(stack), Top.outer)
         /\ Shows(Top.scopes, 1 + Cardinality(OpenForms(hs)), Len(stack),
                  Top.outer, g.outer)
         /\ Cardinality(OpenForms(hs)) \in Nat
         /\ Len(Top.scopes) = 1 + Cardinality(OpenForms(hs))
    BY <1>1, <1>6, ScopeBelow
  <1> HIDE DEF hs, h
  <1>11. CallsShown(F.scopes, F.handlers, Len(stack), F.outer)
    <2> DEFINE c == 1 + Cardinality(OpenForms(hs))
               more == Append(Top.scopes, sc)
    <2>1. /\ Len(more) \in Nat /\ c <= Len(more) /\ c \in Nat
          /\ \A i \in 1..c : more[i] = Top.scopes[i]
      BY <1>7, <1>8, <1>10
    <2> HIDE DEF more
    <2>2. CallsShown(more, hs, Len(stack), Top.outer)
      BY <1>2, <1>10, <2>1, CallsPrefix
    <2>3. Shows(more, c, Len(stack), Top.outer, g.outer)
      BY <1>10, <2>1, ShowsPrefix
    <2>4. CallsShown(more, Append(hs, g), Len(stack), Top.outer)
      BY <1>2, <1>6, <2>2, <2>3, CallsAppend
    <2>5. F.handlers = Append(hs, g) /\ F.scopes = more /\ F.outer = Top.outer
      BY <1>5 DEF hs, more
    <2> QED BY <2>4, <2>5
  <1>12. FrameScoped(F, Len(stack), env', registry')
    BY <1>5, <1>8, <1>9, <1>11 DEF FrameScoped
  <1> QED BY <1>1, <1>5, <1>12, RegistryStays, ScopeStep

LEMMA ScopeOpens ==
    ASSUME Inv, ScopeInv, LetBody \/ RangeBody \/ StateCond
    PROVE  ScopeInv'
  <1>1. /\ Lowering /\ stack # <<>> /\ Top.handlers # <<>>
        /\ Last(Top.handlers).at = "init" /\ UNCHANGED <<registry, hop>>
    BY DEF LetBody, RangeBody, StateCond, Handling, Lowering, session
  <1>2. Top \in Frame /\ nextLoop \in Nat /\ DOMAIN Top = Fields
    BY <1>1, TopFacts, FrameFields
  <1>3. CASE LetBody
    <2>1. OpenForm(Top, "body", NoLoop) /\ Last(Top.handlers).kind = "let"
      BY <1>3 DEF LetBody, Handling
    <2> QED BY <1>1, <1>2, <2>1, ScopeOpenForm
  <1>4. CASE RangeBody
    <2> DEFINE f == PushLoop(Top, nextLoop)
    <2>1. f \in Frame BY <1>1, <1>2, TopFacts, PushLoopOK DEF FrameOK
    <2>2. /\ f.scopes = Top.scopes /\ f.captures = Top.captures
          /\ f.outer = Top.outer /\ f.code = Top.code
          /\ f.handlers = Top.handlers
      BY <1>2, FieldUpdates DEF Changed, Fields
    <2>3. OpenForm(f, "body", nextLoop) BY <1>4 DEF RangeBody
    <2> HIDE DEF f
    <2> QED BY <1>1, <1>2, <2>1, <2>2, <2>3, ScopeOpenForm
  <1>5. CASE StateCond
    <2>1. OpenForm(Top, "cond", nextLoop) BY <1>5 DEF StateCond
    <2> QED BY <1>1, <1>2, <2>1, ScopeOpenForm
  <1> QED BY <1>3, <1>4, <1>5

\* A form returns: its scope closes over the environment it was in.
LEMMA ScopeCloseForm ==
    ASSUME Inv, ScopeInv, Lowering, Top.handlers # <<>>,
           Last(Top.handlers).at # "init", NEW f \in Frame,
           f.scopes = Top.scopes, f.captures = Top.captures,
           f.outer = Top.outer, f.code = Top.code, f.handlers = Top.handlers,
           NEW i, i.op \notin {"local", "capture", "global"}, CloseForm(f, i)
    PROVE  ScopeInv'
  <1> DEFINE F == Closed(f, i)
             hs == Front(Top.handlers)
             c == 1 + Cardinality(OpenForms(hs))
             less == Front(Top.scopes)
  <1>1. /\ stack # <<>> /\ hop' = NoHop /\ stack' = SetTop(F)
        /\ env' = Last(Top.handlers).outer /\ registry' = registry
    BY DEF CloseForm, Closed, Lowering, session
  <1>2. /\ F.scopes = less /\ F.handlers = hs /\ F.code = f.code \cup {i}
        /\ F.captures = f.captures /\ F.outer = f.outer
    BY ClosedFields DEF Changed, Fields
  <1> HIDE DEF F
  <1>3. /\ hs \in Seq(Handler) /\ c \in Nat
        /\ CallsShown(Top.scopes, hs, Len(stack), Top.outer)
        /\ Shows(Top.scopes, c, Len(stack), Top.outer, env')
        /\ Len(Top.scopes) = c + 1
    BY <1>1, ScopeBelow
  <1>4. /\ Top.scopes \in Seq(Scope)
        /\ \A j \in Top.code : Denotes(Top.captures, Len(stack), registry, j)
    BY <1>1, ScopeTop
  <1>5. Len(less) = c /\ \A j \in 1..c : less[j] = Top.scopes[j]
    <2>1. Top.scopes # <<>> BY <1>3, <1>4
    <2>2. /\ Len(less) = Len(Top.scopes) - 1
          /\ \A j \in 1..(Len(Top.scopes) - 1) : less[j] = Top.scopes[j]
      BY <1>4, <2>1, FrontLast
    <2> HIDE DEF less, c
    <2> QED BY <1>3, <2>2
  <1> HIDE DEF less, hs
  <1>6. Shows(F.scopes, Len(F.scopes), Len(stack), F.outer, env')
    <2> HIDE DEF c
    <2> DEFINE e == env'
    <2>1. /\ Shows(Top.scopes, c, Len(stack), Top.outer, e)
          /\ c \in Nat /\ Len(less) \in Nat /\ c <= Len(less)
      BY <1>3, <1>5
    <2> HIDE DEF e
    <2>2. Shows(less, c, Len(stack), Top.outer, e)
      BY <1>5, <2>1, ShowsPrefix
    <2> QED BY <1>2, <1>5, <2>2 DEF e
  <1>7. CallsShown(F.scopes, F.handlers, Len(stack), F.outer)
    <2>1. CallsShown(less, hs, Len(stack), Top.outer)
      BY <1>3, <1>5, CallsPrefix
    <2> QED BY <1>2, <2>1
  <1>8. Denotes(Top.captures, Len(stack), registry, i) BY DEF Denotes
  <1>9. FrameScoped(F, Len(stack), env', registry')
    BY <1>1, <1>2, <1>4, <1>6, <1>7, <1>8 DEF FrameScoped
  <1> QED BY <1>1, <1>2, <1>9, RegistryStays, ScopeStep

LEMMA ScopeCloses ==
    ASSUME Inv, ScopeInv, LetExit \/ RangeExit \/ StateExit
    PROVE  ScopeInv'
  <1>1. /\ Lowering /\ stack # <<>> /\ Top.handlers # <<>>
        /\ Last(Top.handlers).at # "init"
    BY DEF LetExit, RangeExit, StateExit, Handling, Lowering
  <1>2. Top \in Frame /\ DOMAIN Top = Fields BY <1>1, ScopeTop
  <1>3. CASE LetExit
    <2> DEFINE i == [op |-> "let", slots |-> Last(Top.handlers).slots]
    <2>1. CloseForm(Top, i) BY <1>3 DEF LetExit
    <2>2. i.op \notin {"local", "capture", "global"} OBVIOUS
    <2> HIDE DEF i
    <2> QED BY <1>1, <1>2, <2>1, <2>2, ScopeCloseForm
  <1>4. LoopOf(Top).op \notin {"local", "capture", "global"} BY DEF LoopOf
  <1>5. CASE RangeExit
    <2> DEFINE f == PopLoop(Top)
    <2>1. CloseForm(f, LoopOf(Top)) BY <1>5 DEF RangeExit
    <2>2. f \in Frame BY <1>1, TopFacts, PopLoopOK DEF FrameOK
    <2>3. /\ f.scopes = Top.scopes /\ f.captures = Top.captures
          /\ f.outer = Top.outer /\ f.code = Top.code
          /\ f.handlers = Top.handlers
      BY <1>2, FieldUpdates DEF Changed, Fields
    <2> HIDE DEF f
    <2> QED BY <1>1, <1>4, <2>1, <2>2, <2>3, ScopeCloseForm
  <1>6. CASE StateExit
    <2>1. CloseForm(Top, LoopOf(Top)) BY <1>6 DEF StateExit
    <2> QED BY <1>1, <1>2, <1>4, <2>1, ScopeCloseForm
  <1> QED BY <1>3, <1>5, <1>6

LEMMA ScopeBreak == ASSUME Inv, ScopeInv, Break, Top.loops # <<>> PROVE ScopeInv'
  <1> DEFINE i == [op |-> "break", loop |-> Last(Top.loops), within |-> Within(Top)]
  <1>1. /\ Lowering /\ stack' = SetTop(Emit(Top, i))
        /\ UNCHANGED <<registry, hop, env>>
    BY DEF Break, AtExpr, session
  <1>2. Denotes(Top.captures, Len(stack), registry', i) BY DEF Denotes
  <1> HIDE DEF i
  <1> QED BY <1>1, <1>2, RegistryStays, ScopeEmit

-----------------------------------------------------------------------------
(* The steps of lower_fn *)

\* In a new function the parameters are in scope, and what was before.
LEMMA ScopeEnterFn ==
    ASSUME Inv, ScopeInv, NEW params \in Seq(Name), IsInjective(params),
           EnterFn(params)
    PROVE  ScopeInv'
  <1> DEFINE n == Len(stack)
             F == Entered(Len(module) + Len(functions), params)
             sc == Declared(EmptyScope, params, 0)
             slots == [i \in DOMAIN params |-> 0 + i - 1]
  <1>1. /\ stack # <<>> /\ hop = NoHop /\ n \in Nat /\ DOMAIN stack = 1..n
        /\ Len(stack') = n + 1 /\ DOMAIN stack' = 1..(n + 1)
        /\ stack'[n + 1] = F
        /\ \A d \in 1..n : stack'[d] = stack[d]
        /\ env' = Bound(params, slots, n + 1)
        /\ UNCHANGED <<registry, hop>>
    <2>1. DOMAIN stack = 1..n BY DEF Inv, TypeOK
    <2> HIDE DEF F, slots
    <2> QED BY <2>1, EnterFnEffect DEF F, slots
  <1>2. /\ F.scopes = <<sc>> /\ F.captures = <<>> /\ F.code = {}
        /\ F.handlers = <<>> /\ F.outer = env
    BY EnteredFields
  <1>3. /\ sc \in Scope
        /\ \A m \in Name : env'[m] = IF sc[m] # NoSlot
                                     THEN SlotOf(n + 1, sc[m]) ELSE env[m]
    <2> DEFINE now == env'
    <2>1. /\ 0 \in Nat /\ slots = [i \in DOMAIN params |-> 0 + i - 1]
          /\ sc = Declared(EmptyScope, params, 0)
          /\ now = Bound(params, slots, n + 1)
      BY <1>1
    <2> HIDE DEF slots, F, n, now
    <2>2. /\ Declared(EmptyScope, params, 0) \in Scope
          /\ \A m \in Name :
                Bound(params, slots, n + 1)[m] =
                  IF Declared(EmptyScope, params, 0)[m] # NoSlot
                  THEN SlotOf(n + 1, Declared(EmptyScope, params, 0)[m])
                  ELSE env[m]
      BY <2>1, BoundShown
    <2>3. /\ sc \in Scope
          /\ \A m \in Name : now[m] = IF sc[m] # NoSlot
                                       THEN SlotOf(n + 1, sc[m]) ELSE env[m]
      BY <2>1, <2>2
    <2> QED BY <2>3 DEF now
  <1> HIDE DEF F, sc, slots, n
  <1>4. Shows(<<>>, Len(<<>>), n + 1, env, env)
    BY DEF Shows
  <1>5. Shows(F.scopes, Len(F.scopes), n + 1, F.outer, env')
    <2>1. <<>> \in Seq(Scope) /\ <<sc>> = Append(<<>>, sc) OBVIOUS
    <2>2. Shows(Append(<<>>, sc), Len(Append(<<>>, sc)), n + 1, env, env')
      BY <1>3, <1>4, <2>1, ShowsAppend
    <2> QED BY <1>2, <2>1, <2>2
  <1>6. FrameScoped(F, n + 1, env', registry')
    BY <1>2, <1>5 DEF FrameScoped, CallsShown
  <1>7. ASSUME NEW d \in 1..n
        PROVE  FrameScoped(stack'[d], d, Inside(stack', env', d), registry')
    <2>1. Inside(stack', env', d) = stack'[d + 1].outer
      <3>1. d # Len(stack') BY <1>1
      <3> QED BY <3>1 DEF Inside
    <2>2. Inside(stack, env, d) = stack'[d + 1].outer
      <3>1. CASE d = n
        <4>1. Inside(stack, env, d) = env BY <3>1 DEF Inside, n
        <4>2. stack'[d + 1] = F BY <1>1, <3>1
        <4> QED BY <1>2, <4>1, <4>2
      <3>2. CASE d # n
        <4>1. d + 1 \in 1..n BY <1>1, <3>2
        <4>2. stack'[d + 1] = stack[d + 1] BY <1>1, <4>1
        <4>3. Inside(stack, env, d) = stack[d + 1].outer BY <3>2 DEF Inside, n
        <4> QED BY <4>2, <4>3
      <3> QED BY <3>1, <3>2
    <2>3. stack'[d] = stack[d] /\ registry' = registry /\ d \in DOMAIN stack
      BY <1>1
    <2>4. FrameScoped(stack[d], d, Inside(stack, env, d), registry) BY <2>3 DEF ScopeInv
    <2> QED BY <2>1, <2>2, <2>3, <2>4, Zenon
  <1>8. Inside(stack', env', n + 1) = env' BY <1>1 DEF Inside
  <1>9. \A d \in DOMAIN stack' : FrameScoped(stack'[d], d, Inside(stack', env', d), registry')
    <2>1. \A d \in DOMAIN stack' : d \in 1..n \/ d = n + 1 BY <1>1
    <2> QED BY <1>1, <1>6, <1>7, <1>8, <2>1
  <1>10. stack' # <<>> /\ stack'[1].outer = EmptyEnv
    <2>1. 1 \in 1..n BY <1>1 DEF n
    <2>2. stack'[1] = stack[1] BY <1>1, <2>1
    <2>3. stack' # <<>> BY <1>1
    <2> QED BY <1>1, <2>2, <2>3 DEF ScopeInv
  <1> QED BY <1>1, <1>9, <1>10 DEF ScopeInv

\* The function is done: the environment is that of the place it stands at.
LEMMA ScopeExitFn == ASSUME Inv, ScopeInv, ExitFn PROVE ScopeInv'
  <1> DEFINE n == Len(stack)
             i == ClosureOf(Top)
             f == stack[n - 1]
             F == Emit(f, i)
  <1>1. /\ hop = NoHop /\ n \in Nat /\ n > 1 /\ Top = stack[n]
        /\ Len(stack') = n - 1 /\ DOMAIN stack' = 1..(n - 1)
        /\ n - 1 \in DOMAIN stack /\ stack'[n - 1] = F
        /\ \A d \in 1..(n - 2) : d \in DOMAIN stack /\ stack'[d] = stack[d]
        /\ env' = Top.outer /\ UNCHANGED <<registry, hop>>
    BY ExitFnEffect
  <1>2. i.op = "closure" BY DEF ClosureOf
  <1> HIDE DEF i
  <1>3. DOMAIN f = Fields
    <2>1. f \in Frame BY <1>1 DEF Inv, TypeOK
    <2> QED BY <2>1, FrameFields
  <1> HIDE DEF f, n
  <1>4. /\ F.scopes = f.scopes /\ F.captures = f.captures
        /\ F.outer = f.outer /\ F.handlers = f.handlers
        /\ F.code = f.code \cup {i}
    BY <1>3, FieldUpdates DEF Changed, Fields
  <1> HIDE DEF F
  <1>5. Inside(stack, env, n - 1) = env'
    <2>1. n - 1 # Len(stack) /\ n - 1 + 1 = n BY <1>1 DEF n
    <2> QED BY <1>1, <2>1 DEF Inside
  <1>6. FrameScoped(f, n - 1, env', registry)
    BY <1>1, <1>5 DEF ScopeInv, f
  <1>7. Denotes(f.captures, n - 1, registry, i) BY <1>2 DEF Denotes
  <1>8. FrameScoped(F, n - 1, env', registry')
    BY <1>1, <1>4, <1>6, <1>7 DEF FrameScoped
  <1>9. ASSUME NEW d \in 1..(n - 2)
        PROVE  FrameScoped(stack'[d], d, Inside(stack', env', d), registry')
    <2>1. d \in DOMAIN stack /\ stack'[d] = stack[d] BY <1>1
    <2>2. /\ d # n - 1 /\ d # n /\ d + 1 \in 1..(n - 1)
          /\ d + 1 \in 1..(n - 2) \/ d + 1 = n - 1
      BY <1>1
    <2>3. stack'[d + 1].outer = stack[d + 1].outer
      BY <1>1, <1>4, <2>2 DEF f
    <2>4. Inside(stack', env', d) = stack'[d + 1].outer BY <1>1, <2>2 DEF Inside
    <2>5. Inside(stack, env, d) = stack[d + 1].outer BY <2>2 DEF Inside, n
    <2>6. FrameScoped(stack[d], d, Inside(stack, env, d), registry) BY <2>1 DEF ScopeInv
    <2>7. registry' = registry BY <1>1
    <2> QED BY <2>1, <2>3, <2>4, <2>5, <2>6, <2>7, Zenon
  <1>10. Inside(stack', env', n - 1) = env' BY <1>1 DEF Inside
  <1>11. \A d \in DOMAIN stack' : FrameScoped(stack'[d], d, Inside(stack', env', d), registry')
    <2>1. \A d \in DOMAIN stack' : d \in 1..(n - 2) \/ d = n - 1 BY <1>1
    <2>2. stack'[n - 1] = F BY <1>1
    <2>3. FrameScoped(stack'[n - 1], n - 1, Inside(stack', env', n - 1), registry')
      BY <1>8, <1>10, <2>2, Zenon
    <2> QED BY <1>9, <2>1, <2>3, Zenon
  <1>12. stack' # <<>> /\ stack'[1].outer = EmptyEnv
    <2>1. stack # <<>> /\ stack[1].outer = EmptyEnv
      BY <1>1 DEF ScopeInv, n
    <2>2. 1 \in 1..(n - 2) \/ 1 = n - 1 BY <1>1
    <2>3. stack'[1].outer = stack[1].outer BY <1>1, <1>4, <2>2 DEF f
    <2>4. stack' # <<>> BY <1>1
    <2> QED BY <2>1, <2>3, <2>4
  <1> QED BY <1>1, <1>11, <1>12 DEF ScopeInv

-----------------------------------------------------------------------------
(* The ends of a form, and the invariant *)

LEMMA ScopeDrop == ASSUME DropContext PROVE ScopeInv'
  BY DEF DropContext, ScopeInv

LEMMA ScopeBegin ==
    ASSUME Inv, ScopeInv, stack = <<>>, stack' = <<NewFrame(NoFunction)>>,
           UNCHANGED <<hop, env>>
    PROVE  ScopeInv'
  <1> DEFINE F == NewFrame(NoFunction)
  <1>1. /\ F.scopes = <<EmptyScope>> /\ F.code = {} /\ F.handlers = <<>>
        /\ F.outer = env
    BY NewFrameFields
  <1> HIDE DEF F
  <1>2. env = EmptyEnv BY DEF ScopeInv
  <1>3. /\ DOMAIN stack' = {1} /\ Len(stack') = 1 /\ stack'[1] = F /\ stack' # <<>>
    BY DEF F
  <1>4. Shows(F.scopes, Len(F.scopes), 1, F.outer, env')
    <2>1. EmptyScope \in Scope BY DEF EmptyScope, Scope, NoSlot
    <2>2. Shows(<<>>, Len(<<>>), 1, env, env) BY DEF Shows
    <2>3. <<>> \in Seq(Scope) /\ <<EmptyScope>> = Append(<<>>, EmptyScope) OBVIOUS
    <2>4. \A n \in Name : env[n] = IF EmptyScope[n] # NoSlot
                                   THEN SlotOf(1, EmptyScope[n]) ELSE env[n]
      BY DEF EmptyScope
    <2>5. Shows(Append(<<>>, EmptyScope), Len(Append(<<>>, EmptyScope)), 1, env, env)
      BY <2>1, <2>2, <2>3, <2>4, ShowsAppend
    <2> QED BY <1>1, <2>3, <2>5
  <1>5. FrameScoped(F, 1, env', registry')
    BY <1>1, <1>4 DEF FrameScoped, CallsShown
  <1>6. Inside(stack', env', 1) = env' BY <1>3 DEF Inside
  <1>7. hop' # NoHop => hop'.binder = hop'.origin BY DEF ScopeInv
  <1> QED BY <1>1, <1>2, <1>3, <1>5, <1>6, <1>7 DEF ScopeInv

LEMMA ScopeUnchanged ==
    ASSUME ScopeInv, UNCHANGED <<registry, stack, hop, env>>
    PROVE  ScopeInv'
  <1>1. \A d : Inside(stack', env', d) = Inside(stack, env, d) BY DEF Inside
  <1> QED BY <1>1 DEF ScopeInv

LEMMA ScopeBegins ==
    ASSUME Inv, ScopeInv, BeginExpr \/ \E n \in Interned : BeginDef(n)
    PROVE  ScopeInv'
  <1>1. CASE BeginExpr BY <1>1, ScopeBegin DEF BeginExpr
  <1>2. ASSUME NEW n \in Interned, BeginDef(n) PROVE ScopeInv'
    <2>1. CASE n \in Reserved
      BY <1>2, <2>1, ScopeUnchanged DEF BeginDef, session, context
    <2>2. CASE n \notin Reserved
      BY <1>2, <2>2, ScopeBegin DEF BeginDef
    <2> QED BY <2>1, <2>2
  <1> QED BY <1>1, <1>2

LEMMA ScopeFail == ASSUME Fail PROVE ScopeInv'
  BY ScopeDrop DEF Fail

LEMMA ScopeNames ==
    ASSUME Inv, ScopeInv, NEW n \in Name,
           \/ ResolveLocal(n) \/ ResolveGlobal(n) \/ BeginCapture(n)
           \/ EnterRange(n) \/ NextBinding(n)
    PROVE  ScopeInv'
  <1>1. CASE ResolveLocal(n) BY <1>1, ScopeLocal
  <1>2. CASE ResolveGlobal(n)
    <2>1. CASE n \in Generated BY <1>2, <2>1, ScopeFail DEF ResolveGlobal
    <2>2. CASE n \notin Generated
      <3>1. n \in Interned BY <2>2 DEF Name
      <3> QED BY <1>2, <2>2, <3>1, ScopeGlobal
    <2> QED BY <2>1, <2>2
  <1>3. CASE BeginCapture(n) BY <1>3, ScopeBeginCapture
  <1>4. CASE EnterRange(n)
    <2>1. <<n>> \in Seq(Name) OBVIOUS
    <2> QED BY <1>4, <2>1, ScopeEnterForm DEF EnterRange
  <1>5. CASE NextBinding(n)
    <2>1. CASE n \in Range(Last(Top.handlers).names)
      BY <1>5, <2>1, ScopeFail DEF NextBinding
    <2>2. CASE n \notin Range(Last(Top.handlers).names)
      BY <1>5, <2>2, ScopeNextBinding
    <2> QED BY <2>1, <2>2
  <1> QED BY <1>1, <1>2, <1>3, <1>4, <1>5

LEMMA ScopeNext == ASSUME Inv, ScopeInv, [Next]_vars PROVE ScopeInv'
  <1>1. CASE BeginExpr \/ \E n \in Interned : BeginDef(n) BY <1>1, ScopeBegins
  <1>2. CASE \E n \in Name : \/ ResolveLocal(n) \/ ResolveGlobal(n)
                             \/ BeginCapture(n) \/ EnterRange(n)
                             \/ NextBinding(n)
    BY <1>2, ScopeNames
  <1>3. CASE CaptureHop BY <1>3, ScopeCaptureHop
  <1>4. ASSUME NEW params \in BoundedSeq(Name, MaxParams), EnterFn(params)
        PROVE  ScopeInv'
    <2>1. CASE ~IsInjective(params) BY <1>4, <2>1, ScopeFail DEF EnterFn
    <2>2. CASE IsInjective(params) BY <1>4, <2>2, ParamsType, ScopeEnterFn
    <2> QED BY <2>1, <2>2
  <1>5. CASE ExitFn BY <1>5, ScopeExitFn
  <1>6. CASE EnterLet \/ EnterState
    <2>1. <<>> \in Seq(Name) OBVIOUS
    <2> QED BY <1>6, <2>1, ScopeEnterForm DEF EnterLet, EnterState
  <1>7. CASE LetBody \/ RangeBody \/ StateCond BY <1>7, ScopeOpens
  <1>8. CASE StateBody \/ StateNext \/ StateUpdate BY <1>8, ScopeMovesOn
  <1>9. CASE LetExit \/ RangeExit \/ StateExit BY <1>9, ScopeCloses
  <1>10. CASE Break
    <2>1. CASE Top.loops = <<>> BY <1>10, <2>1, ScopeFail DEF Break
    <2>2. CASE Top.loops # <<>> BY <1>10, <2>2, ScopeBreak
    <2> QED BY <2>1, <2>2
  <1>11. CASE Malformed BY <1>11, ScopeFail DEF Malformed
  <1>12. CASE Finish BY <1>12, ScopeDrop DEF Finish
  <1>13. CASE UNCHANGED vars
    BY <1>13, ScopeUnchanged DEF vars, session, context
  <1> QED
    BY <1>1, <1>2, <1>3, <1>4, <1>5, <1>6, <1>7, <1>8, <1>9, <1>10, <1>11,
       <1>12, <1>13
    DEF Next

\* The frames' scopes are the lexical environment at every moment.
THEOREM ScopeInvariance == Spec => []ScopeInv
  <1>1. Init => ScopeInv BY DEF Init, ScopeInv
  <1>2. Inv /\ ScopeInv /\ [Next]_vars => ScopeInv' BY ScopeNext
  <1> QED BY <1>1, <1>2, Invariance, PTL DEF Spec

\* What resolve answers is what lexical scoping says: a local, a capture of the
\* variable, through however many functions, or a global when nothing binds it.
THEOREM ResolutionIsLexical == Spec => []LexicalScoping
  <1>1. ScopeInv => LexicalScoping
    <2> SUFFICES ASSUME ScopeInv, NEW d \in DOMAIN stack, NEW i \in stack[d].code
                 PROVE  CASE i.op = "local" ->
                                i.binder = [frame |-> d, slot |-> i.slot]
                          [] i.op = "capture" ->
                                i.binder = stack[d].captures[i.slot + 1].origin
                          [] i.op = "global" -> /\ i.binder = NoBinder
                                                /\ registry[i.slot + 1] = i.name
                          [] OTHER -> TRUE
      BY DEF LexicalScoping
    <2>1. Denotes(stack[d].captures, d, registry, i)
      BY DEF ScopeInv, FrameScoped
    <2> QED BY <2>1 DEF Denotes
  <1> QED BY <1>1, ScopeInvariance, PTL

-----------------------------------------------------------------------------
(* Verification: the inductive invariant *)

\* The slots of a frame, the captures of a function, the ids of a table of n.
Below(n) == 0..(n - 1)

\* A call in progress, whose form opens scope s + 1: the names it binds have
\* its slots there, and its states are updated in their order.
CallSound(scopes, s, locals, h) ==
    /\ h.at = "init" => h.updates = <<>>
    /\ h.at # "init" =>
          /\ Len(h.slots) = Len(h.names)
          /\ \A j \in DOMAIN h.slots : h.slots[j] \in Below(locals)
          /\ \A j \in DOMAIN h.names : scopes[s + 1][h.names[j]] = h.slots[j]
    /\ Len(h.updates) <= Len(h.names)
    /\ \A j \in DOMAIN h.updates : h.updates[j] = h.slots[j]

CallsSound(scopes, hs, locals) ==
    \A k \in DOMAIN hs : CallSound(scopes, OpenBelow(hs, k), locals, hs[k])

\* A source that the making function has.
InFrame(src, locals, captures) ==
    src.slot \in Below(IF src.kind = "local" THEN locals ELSE captures)

\* The function a closure is made of is one of the form, is lowered, and has
\* as many captures as the closure fills; `base` functions came before.
Made(i, base, fns) ==
    LET k == i.fn - base + 1 IN
    /\ k \in DOMAIN fns
    /\ fns[k] # Pending
    /\ fns[k].captureCount = Len(i.sources)

\* What the verifier asks of an instruction, but for the nesting of loops.
Sound(i, locals, captures, names, base, fns) ==
    /\ i.op = "local" => i.slot \in Below(locals)
    /\ i.op = "capture" => i.slot \in Below(captures)
    /\ i.op = "global" => i.slot \in Below(names)
    /\ i.op = "closure" =>
          /\ Made(i, base, fns)
          /\ \A j \in DOMAIN i.sources : InFrame(i.sources[j], locals, captures)
    /\ i.op \in {"let", "loop"} =>
          \A j \in DOMAIN i.slots : i.slots[j] \in Below(locals)
    /\ i.op = "loop" => (i.kind = "state" => i.updates = i.slots)

FrameSound(f, names, base, fns) ==
    /\ f.params <= f.nextLocal
    /\ CallsSound(f.scopes, f.handlers, f.nextLocal)
    /\ \A i \in f.code : Sound(i, f.nextLocal, Len(f.captures), names, base, fns)

FunctionSound(f, names, base, fns) ==
    /\ f.params <= f.localCount
    /\ \A i \in f.code : Sound(i, f.localCount, f.captureCount, names, base, fns)

\* A local that is captured exists where it is captured from.
Reaches(src, locals) == src.kind = "local" => src.slot \in Below(locals)

VerifierInv ==
    /\ \A d \in DOMAIN stack :
          FrameSound(stack[d], Len(registry), Len(module), functions)
    /\ \A d \in 2..Len(stack) : \A i \in DOMAIN stack[d].captures :
          Reaches(stack[d].captures[i].src, stack[d - 1].nextLocal)
    /\ hop # NoHop => Reaches(hop.src, stack[hop.at - 1].nextLocal)
    /\ \A k \in DOMAIN functions :
          functions[k] # Pending =>
            FunctionSound(functions[k], Len(registry), Len(module), functions)
    /\ target < Len(registry)
    /\ outcome # "rejected"

-----------------------------------------------------------------------------
(* What grows stays in range *)

LEMMA BelowMore ==
    ASSUME NEW m \in Int, NEW n \in Int, m <= n
    PROVE  Below(m) \subseteq Below(n)
  BY DEF Below

FunctionsKept(fns, more) ==
    \A k \in DOMAIN fns : fns[k] # Pending => k \in DOMAIN more /\ more[k] = fns[k]

LEMMA SoundMore ==
    ASSUME NEW i, NEW locals, NEW locals2, NEW captures, NEW captures2,
           NEW names, NEW names2, NEW base, NEW fns, NEW fns2,
           Below(locals) \subseteq Below(locals2),
           Below(captures) \subseteq Below(captures2),
           Below(names) \subseteq Below(names2), FunctionsKept(fns, fns2),
           Sound(i, locals, captures, names, base, fns)
    PROVE  Sound(i, locals2, captures2, names2, base, fns2)
  <1>1. ASSUME i.op = "closure"
        PROVE  /\ Made(i, base, fns2)
               /\ \A j \in DOMAIN i.sources :
                     InFrame(i.sources[j], locals2, captures2)
    <2>1. Made(i, base, fns) BY <1>1 DEF Sound
    <2>2. Made(i, base, fns2) BY <2>1 DEF Made, FunctionsKept
    <2>3. \A j \in DOMAIN i.sources : InFrame(i.sources[j], locals, captures)
      BY <1>1 DEF Sound
    <2> QED BY <2>2, <2>3 DEF InFrame
  <1>2. /\ i.op = "local" => i.slot \in Below(locals2)
        /\ i.op = "capture" => i.slot \in Below(captures2)
        /\ i.op = "global" => i.slot \in Below(names2)
        /\ i.op \in {"let", "loop"} =>
              \A j \in DOMAIN i.slots : i.slots[j] \in Below(locals2)
        /\ i.op = "loop" => (i.kind = "state" => i.updates = i.slots)
    BY DEF Sound
  <1> QED BY <1>1, <1>2 DEF Sound

LEMMA FrameMore ==
    ASSUME NEW f, NEW names, NEW names2, NEW base, NEW fns, NEW fns2,
           Below(names) \subseteq Below(names2), FunctionsKept(fns, fns2),
           FrameSound(f, names, base, fns)
    PROVE  FrameSound(f, names2, base, fns2)
  <1> DEFINE locals == f.nextLocal
             captures == Len(f.captures)
  <1>1. \A i \in f.code : Sound(i, locals, captures, names, base, fns)
    BY DEF FrameSound
  <1>2. f.params <= f.nextLocal /\ CallsSound(f.scopes, f.handlers, f.nextLocal)
    BY DEF FrameSound
  <1> HIDE DEF locals, captures
  <1>3. \A i \in f.code : Sound(i, locals, captures, names2, base, fns2)
    BY <1>1, SoundMore
  <1> QED BY <1>2, <1>3 DEF FrameSound, locals, captures

LEMMA FunctionMore ==
    ASSUME NEW f, NEW names, NEW names2, NEW base, NEW fns, NEW fns2,
           Below(names) \subseteq Below(names2), FunctionsKept(fns, fns2),
           FunctionSound(f, names, base, fns)
    PROVE  FunctionSound(f, names2, base, fns2)
  <1> DEFINE locals == f.localCount
             captures == f.captureCount
  <1>1. \A i \in f.code : Sound(i, locals, captures, names, base, fns)
    BY DEF FunctionSound
  <1>2. f.params <= f.localCount BY DEF FunctionSound
  <1> HIDE DEF locals, captures
  <1>3. \A i \in f.code : Sound(i, locals, captures, names2, base, fns2)
    BY <1>1, SoundMore
  <1> QED BY <1>2, <1>3 DEF FunctionSound, locals, captures

LEMMA FunctionsStay == ASSUME NEW fns PROVE FunctionsKept(fns, fns)
  BY DEF FunctionsKept

-----------------------------------------------------------------------------
(* The calls in progress *)

LEMMA CallSoundsAppend ==
    ASSUME NEW hs \in Seq(Handler), NEW h \in Handler, NEW scopes, NEW locals
    PROVE  CallsSound(scopes, Append(hs, h), locals) <=>
             /\ CallsSound(scopes, hs, locals)
             /\ CallSound(scopes, 1 + Cardinality(OpenForms(hs)), locals, h)
  <1> DEFINE m == Append(hs, h)
  <1>1. /\ DOMAIN m = DOMAIN hs \cup {Len(hs) + 1}
        /\ m[Len(hs) + 1] = h
        /\ \A k \in DOMAIN hs : m[k] = hs[k]
    OBVIOUS
  <1>2. /\ OpenBelow(m, Len(hs) + 1) = 1 + Cardinality(OpenForms(hs))
        /\ \A k \in DOMAIN hs : OpenBelow(m, k) = OpenBelow(hs, k)
    BY OpenBelowFacts
  <1> HIDE DEF m
  <1>3. CallsSound(scopes, m, locals) <=>
          /\ CallsSound(scopes, hs, locals)
          /\ CallSound(scopes, 1 + Cardinality(OpenForms(hs)), locals, h)
    BY <1>1, <1>2 DEF CallsSound
  <1> QED BY <1>3 DEF m

\* The scope of an open form is one of those its function has open.
LEMMA OwnScope ==
    ASSUME NEW hs \in Seq(Handler), NEW k \in OpenForms(hs)
    PROVE  OpenBelow(hs, k) + 1 \in 1..(1 + Cardinality(OpenForms(hs)))
  <1> DEFINE all == OpenForms(hs)
             Q == {j \in all : j < k}
  <1>1. k \in DOMAIN hs /\ hs[k] \in Handler /\ k \in Nat BY DEF OpenForms
  <1>2. IsFiniteSet(all) /\ Cardinality(all) \in Nat
    BY <1>1, OpenFormsAppend
  <1>3. Q \subseteq all /\ k \notin Q /\ Q \cup {k} \subseteq all BY <1>1
  <1>4. OpenBelow(hs, k) = 1 + Cardinality(Q) BY DEF OpenBelow
  <1> HIDE DEF all, Q
  <1>5. IsFiniteSet(Q) /\ Cardinality(Q) \in Nat
    BY <1>2, <1>3, FS_Subset, FS_CardinalityType
  <1>6. Cardinality(Q \cup {k}) = Cardinality(Q) + 1
    BY <1>3, <1>5, FS_AddElement
  <1>7. Cardinality(Q \cup {k}) <= Cardinality(all)
    BY <1>2, <1>3, FS_Subset
  <1> QED BY <1>2, <1>4, <1>5, <1>6, <1>7 DEF all

LEMMA CallSoundsMore ==
    ASSUME NEW hs \in Seq(Handler), NEW scopes, NEW more, NEW locals, NEW locals2,
           \A i \in 1..(1 + Cardinality(OpenForms(hs))) : more[i] = scopes[i],
           Below(locals) \subseteq Below(locals2),
           CallsSound(scopes, hs, locals)
    PROVE  CallsSound(more, hs, locals2)
  <1> SUFFICES ASSUME NEW k \in DOMAIN hs
               PROVE  CallSound(more, OpenBelow(hs, k), locals2, hs[k])
    BY DEF CallsSound
  <1> DEFINE s == OpenBelow(hs, k)
             h == hs[k]
  <1>1. CallSound(scopes, s, locals, h) BY DEF CallsSound
  <1>2. h.at # "init" => more[s + 1] = scopes[s + 1]
    <2>1. h.at # "init" => k \in OpenForms(hs) BY DEF OpenForms
    <2> QED BY <2>1, OwnScope
  <1> HIDE DEF s, h
  <1>3. CallSound(more, s, locals2, h)
    BY <1>1, <1>2 DEF CallSound
  <1> QED BY <1>3 DEF s, h

-----------------------------------------------------------------------------
(* Steps that change one frame *)

LEMMA VerifierTop ==
    ASSUME Inv, VerifierInv, stack # <<>>
    PROVE  /\ stack \in Seq(Frame) /\ Len(stack) \in Nat /\ DOMAIN stack = 1..Len(stack)
           /\ Len(stack) \in DOMAIN stack /\ Top = stack[Len(stack)]
           /\ Top \in Frame /\ DOMAIN Top = Fields
           /\ Top.nextLocal \in Nat /\ Top.handlers \in Seq(Handler)
           /\ Top.scopes \in Seq(Scope) /\ Top.params \in Nat
           /\ FrameSound(Top, Len(registry), Len(module), functions)
  <1>1. /\ stack \in Seq(Frame) /\ Len(stack) \in Nat /\ DOMAIN stack = 1..Len(stack)
        /\ Len(stack) \in DOMAIN stack /\ Top = stack[Len(stack)]
        /\ Top \in Frame /\ DOMAIN Top = Fields
    BY TopFacts, FrameFields DEF Inv, TypeOK
  <1>2. /\ Top.nextLocal \in Nat /\ Top.handlers \in Seq(Handler)
        /\ Top.scopes \in Seq(Scope) /\ Top.params \in Nat
    BY <1>1 DEF Frame
  <1>3. FrameSound(Top, Len(registry), Len(module), functions)
    BY <1>1 DEF VerifierInv
  <1> QED BY <1>1, <1>2, <1>3

\* Frame d is F from now on; it has no fewer slots than before.
LEMMA VerifierChange ==
    ASSUME Inv, VerifierInv, NEW d \in DOMAIN stack, NEW F,
           stack' = [stack EXCEPT ![d] = F],
           Below(stack[d].nextLocal) \subseteq Below(F.nextLocal),
           FrameSound(F, Len(registry'), Len(module), functions),
           d > 1 => \A i \in DOMAIN F.captures :
                       Reaches(F.captures[i].src, stack[d - 1].nextLocal),
           Below(Len(registry)) \subseteq Below(Len(registry')),
           target < Len(registry'),
           hop' # NoHop => /\ hop'.at \in 2..Len(stack)
                           /\ Reaches(hop'.src, stack[hop'.at - 1].nextLocal),
           UNCHANGED <<module, functions, target, outcome>>
    PROVE  VerifierInv'
  <1>1. /\ stack \in Seq(Frame) /\ Len(stack) \in Nat /\ DOMAIN stack = 1..Len(stack)
    BY DEF Inv, TypeOK
  <1>2. /\ DOMAIN stack' = DOMAIN stack /\ Len(stack') = Len(stack) /\ stack'[d] = F
        /\ \A e \in DOMAIN stack : e # d => stack'[e] = stack[e]
    BY <1>1
  <1>3. \A e \in DOMAIN stack : Below(stack[e].nextLocal) \subseteq Below(stack'[e].nextLocal)
    BY <1>2
  <1>4. ASSUME NEW e \in DOMAIN stack
        PROVE  FrameSound(stack'[e], Len(registry'), Len(module'), functions')
    <2>1. CASE e = d BY <1>2, <2>1
    <2>2. CASE e # d
      <3>1. FrameSound(stack[e], Len(registry), Len(module), functions)
        BY DEF VerifierInv
      <3>2. FrameSound(stack[e], Len(registry'), Len(module), functions)
        BY <3>1, FunctionsStay, FrameMore
      <3> QED BY <1>2, <2>2, <3>2
    <2> QED BY <2>1, <2>2
  <1>5. ASSUME NEW e \in 2..Len(stack), NEW i \in DOMAIN stack'[e].captures
        PROVE  Reaches(stack'[e].captures[i].src, stack'[e - 1].nextLocal)
    <2>1. e \in DOMAIN stack /\ e - 1 \in DOMAIN stack BY <1>1
    <2>2. Reaches(stack'[e].captures[i].src, stack[e - 1].nextLocal)
      <3>1. CASE e = d BY <1>2, <3>1
      <3>2. CASE e # d
        <4>1. stack'[e] = stack[e] BY <1>2, <2>1, <3>2
        <4> QED BY <4>1 DEF VerifierInv
      <3> QED BY <3>1, <3>2
    <2>3. Below(stack[e - 1].nextLocal) \subseteq Below(stack'[e - 1].nextLocal)
      BY <1>3, <2>1
    <2> QED BY <2>2, <2>3 DEF Reaches
  <1>6. hop' # NoHop => Reaches(hop'.src, stack'[hop'.at - 1].nextLocal)
    <2> SUFFICES ASSUME hop' # NoHop
                 PROVE  Reaches(hop'.src, stack'[hop'.at - 1].nextLocal)
      OBVIOUS
    <2>1. hop'.at - 1 \in DOMAIN stack BY <1>1
    <2>2. Below(stack[hop'.at - 1].nextLocal) \subseteq Below(stack'[hop'.at - 1].nextLocal)
      BY <1>3, <2>1
    <2> QED BY <2>2 DEF Reaches
  <1>7. ASSUME NEW k \in DOMAIN functions, functions[k] # Pending
        PROVE  FunctionSound(functions[k], Len(registry'), Len(module), functions)
    <2>1. FunctionSound(functions[k], Len(registry), Len(module), functions)
      BY <1>7 DEF VerifierInv
    <2> QED BY <2>1, FunctionsStay, FunctionMore
  <1>8. target' < Len(registry') /\ outcome' # "rejected" BY DEF VerifierInv
  <1> QED BY <1>2, <1>4, <1>5, <1>6, <1>7, <1>8 DEF VerifierInv

\* A step of the function being lowered, with the captures it has.
LEMMA VerifierStep ==
    ASSUME Inv, VerifierInv, Lowering, NEW F, F.captures = Top.captures,
           Below(Top.nextLocal) \subseteq Below(F.nextLocal),
           stack' = SetTop(F),
           FrameSound(F, Len(registry'), Len(module), functions),
           Below(Len(registry)) \subseteq Below(Len(registry')),
           target < Len(registry'),
           UNCHANGED <<module, functions, hop, target, outcome>>
    PROVE  VerifierInv'
  <1>1. stack # <<>> /\ hop' = NoHop BY DEF Lowering
  <1>2. /\ Len(stack) \in Nat /\ Len(stack) \in DOMAIN stack /\ Top = stack[Len(stack)]
        /\ stack' = [stack EXCEPT ![Len(stack)] = F]
    BY <1>1, VerifierTop DEF SetTop
  <1>3. Len(stack) > 1 => \A i \in DOMAIN F.captures :
           Reaches(F.captures[i].src, stack[Len(stack) - 1].nextLocal)
    BY <1>2 DEF VerifierInv
  <1> QED BY <1>1, <1>2, <1>3, VerifierChange

\* An instruction joins the code of the function.
LEMMA EmitSound ==
    ASSUME NEW f, DOMAIN f = Fields, NEW i, NEW names, NEW base, NEW fns,
           FrameSound(f, names, base, fns),
           Sound(i, f.nextLocal, Len(f.captures), names, base, fns)
    PROVE  FrameSound(Emit(f, i), names, base, fns)
  <1> DEFINE F == Emit(f, i)
  <1>1. /\ F.params = f.params /\ F.nextLocal = f.nextLocal /\ F.scopes = f.scopes
        /\ F.handlers = f.handlers /\ F.captures = f.captures
        /\ F.code = f.code \cup {i}
    BY FieldUpdates DEF Changed, Fields
  <1> HIDE DEF F
  <1>2. FrameSound(F, names, base, fns) BY <1>1 DEF FrameSound
  <1> QED BY <1>2 DEF F

LEMMA VerifierEmit ==
    ASSUME Inv, VerifierInv, Lowering, NEW i, stack' = SetTop(Emit(Top, i)),
           Sound(i, Top.nextLocal, Len(Top.captures), Len(registry'), Len(module),
                 functions),
           Below(Len(registry)) \subseteq Below(Len(registry')),
           target < Len(registry'),
           UNCHANGED <<module, functions, hop, target, outcome>>
    PROVE  VerifierInv'
  <1> DEFINE F == Emit(Top, i)
  <1>1. stack # <<>> BY DEF Lowering
  <1>2. /\ DOMAIN Top = Fields
        /\ FrameSound(Top, Len(registry), Len(module), functions)
    BY <1>1, VerifierTop
  <1>3. FrameSound(Top, Len(registry'), Len(module), functions)
    BY <1>2, FunctionsStay, FrameMore
  <1>4. FrameSound(F, Len(registry'), Len(module), functions)
    BY <1>2, <1>3, EmitSound
  <1>5. F.captures = Top.captures /\ F.nextLocal = Top.nextLocal
    BY <1>2, FieldUpdates DEF Changed, Fields
  <1> HIDE DEF F
  <1> QED BY <1>4, <1>5, VerifierStep DEF F

-----------------------------------------------------------------------------
(* The steps of lower_symbol *)

LEMMA VerifierLocal ==
    ASSUME Inv, VerifierInv, NEW n \in Name, ResolveLocal(n)
    PROVE  VerifierInv'
  <1>1. PICK slot \in 0..(Top.nextLocal - 1) :
           stack' = SetTop(Emit(Top, LoadOf("local", slot, n, env[n])))
    BY DEF ResolveLocal
  <1>2. Lowering /\ UNCHANGED <<registry, module, functions, hop, target, outcome>>
    BY DEF ResolveLocal, AtExpr, session
  <1>3. Sound(LoadOf("local", slot, n, env[n]), Top.nextLocal, Len(Top.captures),
              Len(registry'), Len(module), functions)
    BY DEF Sound, LoadOf, Below
  <1>4. target < Len(registry') BY <1>2 DEF VerifierInv
  <1> QED BY <1>1, <1>2, <1>3, <1>4, VerifierEmit

\* The id a name gets is one of the registry's, which only grows.
LEMMA InterningInRange ==
    ASSUME registry \in Seq(Interned), NEW n \in Interned
    PROVE  /\ Len(Interning(n)) \in Nat /\ Len(registry) <= Len(Interning(n))
           /\ Below(Len(registry)) \subseteq Below(Len(Interning(n)))
           /\ GlobalId(Interning(n), n) \in Below(Len(Interning(n)))
  <1> DEFINE reg == Interning(n)
  <1>1. Len(reg) \in Nat /\ Len(registry) <= Len(reg) /\ DOMAIN reg = 1..Len(reg)
    BY DEF Interning
  <1>2. Below(Len(registry)) \subseteq Below(Len(reg)) BY <1>1, BelowMore
  <1>3. GlobalId(reg, n) + 1 \in DOMAIN reg BY InterningKeeps
  <1>4. GlobalId(reg, n) \in Int
    <2>1. (CHOOSE i \in DOMAIN reg : reg[i] = n) \in DOMAIN reg
      <3>1. \E i \in DOMAIN reg : reg[i] = n BY InterningKeeps
      <3> QED BY <3>1
    <2> QED BY <1>1, <2>1 DEF GlobalId
  <1> HIDE DEF reg
  <1>5. GlobalId(reg, n) \in Below(Len(reg)) BY <1>1, <1>3, <1>4 DEF Below
  <1> QED BY <1>1, <1>2, <1>5 DEF reg

LEMMA VerifierGlobal ==
    ASSUME Inv, VerifierInv, NEW n \in Interned, n \notin Generated, ResolveGlobal(n)
    PROVE  VerifierInv'
  <1> DEFINE id == GlobalId(Interning(n), n)
             load == LoadOf("global", id, n, env[n])
  <1>1. /\ Lowering /\ registry' = Interning(n) /\ stack' = SetTop(Emit(Top, load))
        /\ UNCHANGED <<module, functions, hop, target, outcome>>
    BY DEF ResolveGlobal, AtExpr
  <1>2. registry \in Seq(Interned) /\ Len(registry) \in Nat BY DEF Inv, TypeOK
  <1>3. /\ Len(registry') \in Nat /\ Len(registry) <= Len(registry')
        /\ Below(Len(registry)) \subseteq Below(Len(registry'))
        /\ id \in Below(Len(registry'))
    BY <1>1, <1>2, InterningInRange
  <1> HIDE DEF id
  <1>4. Sound(load, Top.nextLocal, Len(Top.captures), Len(registry'), Len(module),
              functions)
    BY <1>3 DEF Sound, LoadOf
  <1> HIDE DEF load
  <1>5. target < Len(registry')
    <2>1. target < Len(registry) /\ target \in Int
      BY DEF VerifierInv, Inv, TypeOK, NoGlobal
    <2> QED BY <1>2, <1>3, <2>1
  <1> QED BY <1>1, <1>3, <1>4, <1>5, VerifierEmit

\* The slot a capture starts from is one of its function's.
LEMMA VerifierBeginCapture ==
    ASSUME Inv, VerifierInv, NEW n \in Name, BeginCapture(n)
    PROVE  VerifierInv'
  <1>1. UNCHANGED <<registry, module, functions, stack, target, outcome>>
    BY DEF BeginCapture, session
  <1>2. \E d \in 1..(Len(stack) - 1) : \E slot \in 0..(stack[d].nextLocal - 1) :
           hop' = [at |-> d + 1,
                      src |-> [kind |-> "local", slot |-> slot],
                      origin |-> [frame |-> d, slot |-> slot],
                      name |-> n, binder |-> env[n]]
    BY DEF BeginCapture
  <1>3. PICK d \in 1..(Len(stack) - 1) : \E slot \in 0..(stack[d].nextLocal - 1) :
           hop' = [at |-> d + 1,
                      src |-> [kind |-> "local", slot |-> slot],
                      origin |-> [frame |-> d, slot |-> slot],
                      name |-> n, binder |-> env[n]]
    BY <1>2
  <1>4. PICK slot \in 0..(stack[d].nextLocal - 1) :
           hop' = [at |-> d + 1,
                      src |-> [kind |-> "local", slot |-> slot],
                      origin |-> [frame |-> d, slot |-> slot],
                      name |-> n, binder |-> env[n]]
    BY <1>3
  <1>5. /\ hop'.at - 1 = d /\ hop'.src = [kind |-> "local", slot |-> slot]
    BY <1>4
  <1>6. Reaches(hop'.src, stack[hop'.at - 1].nextLocal)
    BY <1>5 DEF Reaches, Below
  <1> QED BY <1>1, <1>6 DEF VerifierInv

\* A function that has the capture already, or takes it from the one around it.
LEMMA VerifierCaptureHop == ASSUME Inv, VerifierInv, CaptureHop PROVE VerifierInv'
  <1> DEFINE at == hop.at
             f == stack[at]
             load(i) == LoadOf("capture", i - 1, hop.name, hop.binder)
  <1>1. /\ hop # NoHop /\ hop \in Hop /\ at \in 2..Len(stack) /\ at \in DOMAIN stack
        /\ \E G, i :
              /\ Changed(f, G, {"captures", "code"})
              /\ \A j \in DOMAIN f.captures : j \in DOMAIN G.captures /\ G.captures[j] = f.captures[j]
              /\ i \in DOMAIN G.captures
              /\ G.captures[i].src = hop.src
              /\ \A j \in DOMAIN G.captures : \/ j \in DOMAIN f.captures
                                              \/ G.captures[j] = G.captures[i]
              /\ stack' = [stack EXCEPT ![at] = G]
              /\ \/ hop' = NoHop /\ G.code = f.code \cup {load(i)}
                 \/ /\ at # Len(stack) /\ G.code = f.code
                    /\ hop' = [hop EXCEPT !.at = @ + 1, !.src = CarriedFrom(i)]
        /\ UNCHANGED <<registry, module, functions, target, outcome>>
    BY CaptureHopEffect
  <1>2. PICK G, i :
              /\ Changed(f, G, {"captures", "code"})
              /\ \A j \in DOMAIN f.captures : j \in DOMAIN G.captures /\ G.captures[j] = f.captures[j]
              /\ i \in DOMAIN G.captures
              /\ G.captures[i].src = hop.src
              /\ \A j \in DOMAIN G.captures : \/ j \in DOMAIN f.captures
                                              \/ G.captures[j] = G.captures[i]
              /\ stack' = [stack EXCEPT ![at] = G]
              /\ \/ hop' = NoHop /\ G.code = f.code \cup {load(i)}
                 \/ /\ at # Len(stack) /\ G.code = f.code
                    /\ hop' = [hop EXCEPT !.at = @ + 1, !.src = CarriedFrom(i)]
    BY <1>1
  <1>3. /\ f \in Frame /\ f.captures \in Seq(Capture) /\ f.nextLocal \in Nat
    <2>1. at \in DOMAIN stack BY <1>1
    <2>2. stack \in Seq(Frame) BY DEF Inv, TypeOK
    <2>3. f \in Frame BY <2>1, <2>2
    <2> HIDE DEF f
    <2> QED BY <2>3 DEF Frame
  <1>4. G.captures \in Seq(Capture)
    <2>1. stack' \in Seq(Frame) BY CaptureHopStep DEF Inv, TypeOK
    <2>2. at \in DOMAIN stack' /\ stack'[at] = G BY <1>1, <1>2
    <2>3. G \in Frame BY <2>1, <2>2
    <2> QED BY <2>3 DEF Frame
  <1>5. Below(Len(f.captures)) \subseteq Below(Len(G.captures))
    <2>1. Len(f.captures) <= Len(G.captures)
      <3>1. CASE Len(f.captures) = 0 BY <1>4, <3>1
      <3>2. CASE Len(f.captures) # 0
        <4>1. Len(f.captures) \in DOMAIN f.captures BY <1>3, <3>2
        <4>2. Len(f.captures) \in DOMAIN G.captures BY <1>2, <4>1
        <4> QED BY <1>4, <4>2
      <3> QED BY <3>1, <3>2
    <2> QED BY <1>3, <1>4, <2>1, BelowMore
  <1>6. /\ G.params = f.params /\ G.nextLocal = f.nextLocal
        /\ G.scopes = f.scopes /\ G.handlers = f.handlers
    BY <1>2 DEF Changed, Fields
  <1>7. FrameSound(f, Len(registry), Len(module), functions)
    BY <1>1 DEF VerifierInv
  <1>8. Sound(load(i), G.nextLocal, Len(G.captures), Len(registry), Len(module),
              functions)
    <2>1. i - 1 \in Below(Len(G.captures)) BY <1>2, <1>4 DEF Below
    <2> QED BY <2>1 DEF Sound, LoadOf
  <1> HIDE DEF load
  <1>9. \A j \in f.code : Sound(j, G.nextLocal, Len(G.captures), Len(registry),
                                Len(module), functions)
    <2> DEFINE captures == Len(f.captures)
               more == Len(G.captures)
    <2>1. \A j \in f.code : Sound(j, f.nextLocal, captures, Len(registry),
                                  Len(module), functions)
      BY <1>7 DEF FrameSound
    <2>2. Below(captures) \subseteq Below(more) BY <1>5
    <2> HIDE DEF captures, more, f
    <2>3. \A j \in f.code : Sound(j, f.nextLocal, more, Len(registry),
                                  Len(module), functions)
      BY <2>1, <2>2, FunctionsStay, SoundMore
    <2> QED BY <1>6, <2>3 DEF more
  <1>10. FrameSound(G, Len(registry'), Len(module), functions)
    <2>1. \A j \in G.code : Sound(j, G.nextLocal, Len(G.captures), Len(registry),
                                  Len(module), functions)
      BY <1>2, <1>8, <1>9
    <2>2. registry' = registry BY <1>1
    <2> QED BY <1>6, <1>7, <2>1, <2>2 DEF FrameSound
  <1>11. \A j \in DOMAIN G.captures :
            Reaches(G.captures[j].src, stack[at - 1].nextLocal)
    <2>1. Reaches(hop.src, stack[at - 1].nextLocal) BY <1>1 DEF VerifierInv
    <2>2. \A j \in DOMAIN f.captures :
             Reaches(f.captures[j].src, stack[at - 1].nextLocal)
      BY <1>1 DEF VerifierInv
    <2> QED BY <1>2, <2>1, <2>2
  <1>12. hop' # NoHop => /\ hop'.at \in 2..Len(stack)
                         /\ Reaches(hop'.src, stack[hop'.at - 1].nextLocal)
    <2>1. CASE hop' = NoHop BY <2>1
    <2>2. CASE /\ at # Len(stack)
               /\ hop' = [hop EXCEPT !.at = @ + 1, !.src = CarriedFrom(i)]
      <3>1. hop'.at = at + 1 /\ hop'.src = CarriedFrom(i) BY <1>1, <2>2 DEF Hop
      <3>2. Reaches(CarriedFrom(i), stack[hop'.at - 1].nextLocal)
        BY DEF Reaches, CarriedFrom
      <3>3. Len(stack) \in Nat BY DEF Inv, TypeOK
      <3>4. at + 1 \in 2..Len(stack) BY <1>1, <2>2, <3>3
      <3> QED BY <3>1, <3>2, <3>4
    <2> QED BY <1>2, <2>1, <2>2
  <1>13. /\ Below(f.nextLocal) \subseteq Below(G.nextLocal)
         /\ Below(Len(registry)) \subseteq Below(Len(registry'))
         /\ target < Len(registry')
    BY <1>1, <1>6 DEF VerifierInv
  <1> HIDE DEF f, at
  <1>14. /\ at \in DOMAIN stack /\ stack' = [stack EXCEPT ![at] = G]
         /\ UNCHANGED <<module, functions, target, outcome>>
    BY <1>1, <1>2
  <1>15. Below(stack[at].nextLocal) \subseteq Below(G.nextLocal) BY <1>13 DEF f
  <1> QED BY <1>10, <1>11, <1>12, <1>13, <1>14, <1>15, VerifierChange

-----------------------------------------------------------------------------
(* The steps of lower_let and lower_loop *)

\* What is below the call on top.
LEMMA VerifierBelow ==
    ASSUME Inv, VerifierInv, stack # <<>>, Top.handlers # <<>>
    PROVE  LET h == Last(Top.handlers)
               hs == Front(Top.handlers)
               c == 1 + Cardinality(OpenForms(hs))
           IN /\ h \in Handler /\ hs \in Seq(Handler) /\ IsInjective(h.names)
              /\ CallsSound(Top.scopes, hs, Top.nextLocal)
              /\ CallSound(Top.scopes, c, Top.nextLocal, h)
              /\ c \in Nat
              /\ Len(Top.scopes) = c + (IF h.at = "init" THEN 0 ELSE 1)
  <1> DEFINE h == Last(Top.handlers)
             hs == Front(Top.handlers)
             c == 1 + Cardinality(OpenForms(hs))
  <1>1. /\ Top.handlers \in Seq(Handler)
        /\ CallsSound(Top.scopes, Top.handlers, Top.nextLocal)
    BY VerifierTop DEF FrameSound
  <1>2. /\ h \in Handler /\ hs \in Seq(Handler) /\ Top.handlers = Append(hs, h)
    BY <1>1, FrontLast, FrontThenLast
  <1>3. /\ Cardinality(OpenForms(hs)) \in Nat /\ IsInjective(h.names)
        /\ Len(Top.scopes) = Cardinality(OpenForms(hs)) + 1
                               + (IF h.at = "init" THEN 0 ELSE 1)
    BY TopFacts
  <1> HIDE DEF h, hs
  <1>4. /\ CallsSound(Top.scopes, hs, Top.nextLocal)
        /\ CallSound(Top.scopes, c, Top.nextLocal, h)
    BY <1>1, <1>2, CallSoundsAppend
  <1>5. c \in Nat /\ Len(Top.scopes) = c + (IF h.at = "init" THEN 0 ELSE 1)
    BY <1>3
  <1> QED BY <1>2, <1>3, <1>4, <1>5 DEF h, hs

\* A call begins, or goes on with the scopes it has.
LEMMA VerifierCall ==
    ASSUME Inv, VerifierInv, Lowering, NEW F,
           F.scopes = Top.scopes, F.captures = Top.captures, F.code = Top.code,
           F.params = Top.params, F.nextLocal = Top.nextLocal,
           NEW hs \in Seq(Handler), NEW g \in Handler, F.handlers = Append(hs, g),
           CallsSound(Top.scopes, hs, Top.nextLocal),
           CallSound(Top.scopes, 1 + Cardinality(OpenForms(hs)), Top.nextLocal, g),
           stack' = SetTop(F),
           UNCHANGED <<registry, module, functions, hop, target, outcome>>
    PROVE  VerifierInv'
  <1>1. stack # <<>> BY DEF Lowering
  <1>2. CallsSound(F.scopes, F.handlers, F.nextLocal)
    BY CallSoundsAppend
  <1>3. FrameSound(Top, Len(registry), Len(module), functions)
    BY <1>1, VerifierTop
  <1>4. FrameSound(F, Len(registry'), Len(module), functions)
    BY <1>2, <1>3 DEF FrameSound
  <1>5. target < Len(registry') BY DEF VerifierInv
  <1> QED BY <1>4, <1>5, VerifierStep

LEMMA VerifierEnterForm ==
    ASSUME Inv, VerifierInv, NEW kind \in {"let", "range", "state"},
           NEW names \in Seq(Name), EnterForm(kind, names)
    PROVE  VerifierInv'
  <1> DEFINE g == [kind |-> kind, at |-> "init", names |-> names,
                   slots |-> <<>>, updates |-> <<>>, loop |-> NoLoop,
                   outer |-> env]
             F == PushHandler(Top, g)
  <1>1. /\ Lowering /\ stack # <<>> /\ stack' = SetTop(F)
        /\ UNCHANGED <<registry, module, functions, hop, target, outcome>>
    BY DEF EnterForm, AtExpr, Lowering, session
  <1>2. g \in Handler
    BY <1>1, TopFacts DEF Handler
  <1>3. \A scopes, s, locals : CallSound(scopes, s, locals, g)
    BY DEF CallSound
  <1> HIDE DEF g
  <1>4. DOMAIN Top = Fields /\ Top.handlers \in Seq(Handler)
        /\ CallsSound(Top.scopes, Top.handlers, Top.nextLocal)
    BY <1>1, VerifierTop DEF FrameSound
  <1>5. /\ F.scopes = Top.scopes /\ F.captures = Top.captures /\ F.code = Top.code
        /\ F.params = Top.params /\ F.nextLocal = Top.nextLocal
        /\ F.handlers = Append(Top.handlers, g)
    BY <1>4, FieldUpdates DEF Changed, Fields
  <1> HIDE DEF F
  <1> QED BY <1>1, <1>2, <1>3, <1>4, <1>5, VerifierCall

\* The call on top goes on.
LEMMA VerifierAdvance ==
    ASSUME Inv, VerifierInv, Lowering, Top.handlers # <<>>, NEW f,
           Changed(Top, f, {"loops"}), NEW g \in Handler,
           CallSound(Top.scopes, 1 + Cardinality(OpenForms(Front(Top.handlers))),
                     Top.nextLocal, g),
           stack' = SetTop(SetHandler(f, g)),
           UNCHANGED <<registry, module, functions, hop, target, outcome>>
    PROVE  VerifierInv'
  <1> DEFINE hs == Front(Top.handlers)
             F == SetHandler(f, g)
  <1>1. stack # <<>> BY DEF Lowering
  <1>2. hs \in Seq(Handler) /\ CallsSound(Top.scopes, hs, Top.nextLocal)
    BY <1>1, VerifierBelow
  <1>3. DOMAIN f = Fields BY DEF Changed
  <1>4. Changed(f, F, {"handlers"}) /\ F.handlers = Append(Front(f.handlers), g)
    BY <1>3, FieldUpdates
  <1> HIDE DEF F
  <1>5. /\ F.scopes = Top.scopes /\ F.captures = Top.captures /\ F.code = Top.code
        /\ F.params = Top.params /\ F.nextLocal = Top.nextLocal
        /\ F.handlers = Append(hs, g)
    BY <1>4 DEF Changed, Fields
  <1>6. stack' = SetTop(F) BY DEF F
  <1>7. CallSound(Top.scopes, 1 + Cardinality(OpenForms(hs)), Top.nextLocal, g)
    OBVIOUS
  <1> HIDE DEF hs
  <1> QED BY <1>2, <1>5, <1>6, <1>7, VerifierCall

LEMMA VerifierNextBinding ==
    ASSUME Inv, VerifierInv, NEW n \in Name, NextBinding(n),
           n \notin Range(Last(Top.handlers).names)
    PROVE  VerifierInv'
  <1> DEFINE h == Last(Top.handlers)
             g == [h EXCEPT !.names = Append(@, n)]
             c == 1 + Cardinality(OpenForms(Front(Top.handlers)))
  <1>1. /\ Lowering /\ stack # <<>> /\ Top.handlers # <<>> /\ h.at = "init"
        /\ stack' = SetTop(SetHandler(Top, g))
        /\ UNCHANGED <<registry, module, functions, hop, target, outcome>>
    BY DEF NextBinding, Handling, Lowering, session
  <1>2. h \in Handler /\ h.names \in Seq(Name) /\ CallSound(Top.scopes, c, Top.nextLocal, h)
    BY <1>1, VerifierBelow, HandlerFields
  <1>3. Changed(Top, Top, {"loops"}) BY <1>1, VerifierTop DEF Changed
  <1> HIDE DEF h, c
  <1>4. /\ g.names = Append(h.names, n) /\ g.updates = h.updates /\ g.at = "init"
        /\ g \in Handler
    <2>1. Append(h.names, n) \in Seq(Name) BY <1>2
    <2> QED BY <1>1, <1>2, <2>1 DEF Handler
  <1>5. CallSound(Top.scopes, c, Top.nextLocal, g)
    <2>1. h.updates = <<>> BY <1>1, <1>2 DEF CallSound
    <2>2. Len(g.updates) <= Len(g.names) BY <1>2, <1>4, <2>1
    <2> HIDE DEF g
    <2> QED BY <1>4, <2>1, <2>2 DEF CallSound
  <1> HIDE DEF g
  <1> QED BY <1>1, <1>3, <1>4, <1>5, VerifierAdvance DEF c

\* A name's entry is at the place where it stands, when it stands at one only.
LEMMA OnlyEntry ==
    ASSUME NEW names \in Seq(Name), IsInjective(names), NEW slots,
           NEW j \in DOMAIN names
    PROVE  LastEntry(names, slots, names[j]) = slots[j]
  <1> DEFINE last == CHOOSE i \in DOMAIN names :
                        /\ names[i] = names[j]
                        /\ \A k \in DOMAIN names : names[k] = names[j] => k <= i
  <1>1. \A k \in DOMAIN names : names[k] = names[j] => k = j
    BY DEF IsInjective
  <1>2. j \in Nat OBVIOUS
  <1>3. \E i \in DOMAIN names :
           /\ names[i] = names[j]
           /\ \A k \in DOMAIN names : names[k] = names[j] => k <= i
    BY <1>1, <1>2
  <1>4. last \in DOMAIN names /\ names[last] = names[j] BY <1>3
  <1>5. LastEntry(names, slots, names[j]) = slots[last] BY DEF LastEntry
  <1> HIDE DEF last
  <1> QED BY <1>1, <1>4, <1>5

\* The scope of a form opens.
LEMMA VerifierOpenForm ==
    ASSUME Inv, VerifierInv, Lowering, NEW f \in Frame,
           Changed(Top, f, {"loops"}),
           Top.handlers # <<>>, Last(Top.handlers).at = "init",
           NEW at \in {"cond", "body"}, NEW loop \in Nat \cup {NoLoop},
           Last(Top.handlers).kind # "let" => loop \in Nat,
           OpenForm(f, at, loop),
           UNCHANGED <<registry, module, functions, hop, target, outcome>>
    PROVE  VerifierInv'
  <1> DEFINE h == Last(Top.handlers)
             hs == Front(Top.handlers)
             c == 1 + Cardinality(OpenForms(hs))
             slots == FreshSlots(f, h.names)
             sc == Declared(EmptyScope, h.names, f.nextLocal)
             g == [h EXCEPT !.at = at, !.loop = loop, !.slots = slots]
             F == Opened(f, at, loop)
             locals == f.nextLocal + Len(h.names)
  <1>1. stack # <<>> /\ stack' = SetTop(F)
    BY DEF OpenForm, Opened, Lowering
  <1>2. /\ h \in Handler /\ h.names \in Seq(Name) /\ IsInjective(h.names)
        /\ hs \in Seq(Handler) /\ c \in Nat /\ Len(Top.scopes) = c
        /\ CallsSound(Top.scopes, hs, Top.nextLocal)
        /\ CallSound(Top.scopes, c, Top.nextLocal, h)
    BY <1>1, VerifierBelow, HandlerFields
  <1>3. /\ f.params = Top.params /\ f.scopes = Top.scopes /\ f.code = Top.code
        /\ f.captures = Top.captures /\ f.nextLocal = Top.nextLocal
        /\ f.handlers = Top.handlers
    BY DEF Changed, Fields
  <1>4. /\ Top.nextLocal \in Nat /\ Top.scopes \in Seq(Scope) /\ Top.params \in Nat
        /\ FrameSound(Top, Len(registry), Len(module), functions)
    BY <1>1, VerifierTop
  <1>5. slots \in Seq(Nat) /\ Len(slots) = Len(h.names)
    BY <1>2, FreshSlotsType
  <1>6. \A j \in DOMAIN slots : slots[j] \in Below(locals)
    <2> DEFINE first == f.nextLocal
               n == Len(h.names)
    <2>1. /\ first \in Nat /\ n \in Nat /\ DOMAIN slots = 1..n
          /\ \A j \in 1..n : slots[j] = first + j - 1
      BY <1>2, <1>3, <1>4, <1>5 DEF FreshSlots
    <2> HIDE DEF slots, first, n
    <2>2. \A j \in DOMAIN slots : slots[j] \in Below(first + n)
      BY <2>1 DEF Below
    <2> QED BY <2>2 DEF first, n
  <1>7. \A j \in DOMAIN h.names : sc[h.names[j]] = slots[j]
    <2> SUFFICES ASSUME NEW j \in DOMAIN h.names PROVE sc[h.names[j]] = slots[j]
      OBVIOUS
    <2>1. h.names[j] \in Name /\ h.names[j] \in Range(h.names)
      BY <1>2 DEF Range
    <2>2. sc[h.names[j]] = LastEntry(h.names, slots, h.names[j])
      BY <2>1 DEF Declared, FreshSlots
    <2> HIDE DEF sc, slots
    <2> QED BY <1>2, <2>2, OnlyEntry
  <1>8. /\ Changed(f, F, {"scopes", "nextLocal", "handlers"})
        /\ F.nextLocal = locals
        /\ F.handlers = Append(Front(f.handlers),
             [Last(f.handlers) EXCEPT !.at = at, !.loop = loop,
                !.slots = FreshSlots(f, Last(f.handlers).names)])
        /\ F.scopes = Append(f.scopes,
             Declared(EmptyScope, Last(f.handlers).names, f.nextLocal))
    <2>1. f.handlers = Top.handlers BY <1>3
    <2> HIDE DEF F
    <2> QED BY <2>1, OpenedFields DEF F
  <1>9. /\ F.scopes = Append(Top.scopes, sc) /\ F.handlers = Append(hs, g)
        /\ F.captures = Top.captures /\ F.code = Top.code /\ F.params = Top.params
    <2>1. /\ g = [Last(f.handlers) EXCEPT !.at = at, !.loop = loop,
                    !.slots = FreshSlots(f, Last(f.handlers).names)]
          /\ sc = Declared(EmptyScope, Last(f.handlers).names, f.nextLocal)
      BY <1>3
    <2> HIDE DEF g, F, sc
    <2> QED BY <1>3, <1>8, <2>1 DEF Changed, Fields
  <1>10. sc \in Scope
    <2> DEFINE names == h.names
               first == f.nextLocal
    <2>1. names \in Seq(Name) /\ IsInjective(names) /\ first \in Nat
          /\ slots = [i \in DOMAIN names |-> first + i - 1]
      BY <1>2, <1>3, <1>4 DEF FreshSlots
    <2>2. sc = Declared(EmptyScope, names, first) OBVIOUS
    <2> HIDE DEF names, first, sc, slots
    <2> QED BY <2>1, <2>2, BoundShown
  <1> HIDE DEF F, slots, sc
  <1>11. /\ g \in Handler /\ g.at # "init" /\ g.names = h.names
         /\ g.slots = slots /\ g.updates = <<>>
    <2>1. h.updates = <<>> BY <1>2 DEF CallSound
    <2> HIDE DEF h
    <2> QED BY <1>2, <1>5, <2>1 DEF Handler, NoLoop, h
  <1> HIDE DEF g, h, hs, locals
  <1> DEFINE more == Append(Top.scopes, sc)
  <1>12. /\ more[c + 1] = sc
         /\ \A i \in 1..c : more[i] = Top.scopes[i]
    BY <1>2, <1>4, <1>10
  <1> HIDE DEF more
  <1>13. Below(Top.nextLocal) \subseteq Below(locals)
    <2>1. /\ locals \in Int /\ Top.nextLocal \in Int /\ Top.nextLocal <= locals
      BY <1>2, <1>3, <1>4 DEF locals
    <2> QED BY <2>1, BelowMore
  <1>14. CallsSound(more, Append(hs, g), locals)
    <2>1. CallsSound(more, hs, locals)
      BY <1>2, <1>12, <1>13, CallSoundsMore DEF c
    <2>2. CallSound(more, c, locals, g)
      BY <1>5, <1>6, <1>7, <1>11, <1>12 DEF CallSound
    <2> QED BY <1>2, <1>11, <2>1, <2>2, CallSoundsAppend DEF c
  <1>15. FrameSound(F, Len(registry'), Len(module), functions)
    <2>1. Top.params <= Top.nextLocal BY <1>4 DEF FrameSound
    <2>2. F.params <= F.nextLocal
      BY <1>2, <1>3, <1>4, <1>8, <1>9, <2>1 DEF locals
    <2>3. CallsSound(F.scopes, F.handlers, F.nextLocal)
      BY <1>8, <1>9, <1>14 DEF more
    <2>4. \A i \in F.code : Sound(i, F.nextLocal, Len(F.captures), Len(registry'),
                                  Len(module), functions)
      <3> DEFINE old == Top.nextLocal
      <3>1. \A i \in Top.code : Sound(i, old, Len(Top.captures), Len(registry),
                                      Len(module), functions)
        BY <1>4 DEF FrameSound
      <3>2. Below(old) \subseteq Below(locals) BY <1>13
      <3> HIDE DEF old
      <3>3. \A i \in Top.code : Sound(i, locals, Len(Top.captures), Len(registry),
                                      Len(module), functions)
        BY <3>1, <3>2, FunctionsStay, SoundMore
      <3> QED BY <1>8, <1>9, <3>3
    <2> QED BY <2>2, <2>3, <2>4 DEF FrameSound
  <1>16. /\ F.captures = Top.captures
         /\ Below(Top.nextLocal) \subseteq Below(F.nextLocal)
         /\ target < Len(registry')
    BY <1>8, <1>9, <1>13 DEF VerifierInv
  <1> QED BY <1>1, <1>15, <1>16, VerifierStep

LEMMA VerifierOpens ==
    ASSUME Inv, VerifierInv, LetBody \/ RangeBody \/ StateCond
    PROVE  VerifierInv'
  <1>1. /\ Lowering /\ stack # <<>> /\ Top.handlers # <<>>
        /\ Last(Top.handlers).at = "init"
        /\ UNCHANGED <<registry, module, functions, hop, target, outcome>>
    BY DEF LetBody, RangeBody, StateCond, Handling, Lowering, session
  <1>2. Top \in Frame /\ nextLoop \in Nat /\ DOMAIN Top = Fields
    BY <1>1, TopFacts, FrameFields
  <1>3. Changed(Top, Top, {"loops"}) BY <1>2 DEF Changed
  <1>4. CASE LetBody
    <2>1. OpenForm(Top, "body", NoLoop) /\ Last(Top.handlers).kind = "let"
      BY <1>4 DEF LetBody, Handling
    <2> QED BY <1>1, <1>2, <1>3, <2>1, VerifierOpenForm
  <1>5. CASE RangeBody
    <2> DEFINE f == PushLoop(Top, nextLoop)
    <2>1. f \in Frame BY <1>1, <1>2, TopFacts, PushLoopOK DEF FrameOK
    <2>2. Changed(Top, f, {"loops"}) BY <1>2, FieldUpdates
    <2>3. OpenForm(f, "body", nextLoop) BY <1>5 DEF RangeBody
    <2> HIDE DEF f
    <2> QED BY <1>1, <1>2, <2>1, <2>2, <2>3, VerifierOpenForm
  <1>6. CASE StateCond
    <2>1. OpenForm(Top, "cond", nextLoop) BY <1>6 DEF StateCond
    <2> QED BY <1>1, <1>2, <1>3, <2>1, VerifierOpenForm
  <1> QED BY <1>4, <1>5, <1>6

\* The next state is updated by the slot its name has in the loop's scope.
LEMMA VerifierMovesOn ==
    ASSUME Inv, VerifierInv, StateBody \/ StateNext \/ StateUpdate
    PROVE  VerifierInv'
  <1> DEFINE h == Last(Top.handlers)
             c == 1 + Cardinality(OpenForms(Front(Top.handlers)))
  <1>1. /\ Lowering /\ stack # <<>> /\ Top.handlers # <<>> /\ h.kind = "state"
        /\ UNCHANGED <<registry, module, functions, hop, target, outcome>>
    BY DEF StateBody, StateNext, StateUpdate, Handling, Lowering, session
  <1>2. /\ h \in Handler /\ CallSound(Top.scopes, c, Top.nextLocal, h) /\ c \in Nat
        /\ Len(Top.scopes) = c + (IF h.at = "init" THEN 0 ELSE 1)
    BY <1>1, VerifierBelow
  <1>3. DOMAIN Top = Fields /\ Top.scopes \in Seq(Scope) BY <1>1, VerifierTop
  <1> HIDE DEF h, c
  <1>4. ASSUME NEW at \in {"body", "next"}, NEW f, Changed(Top, f, {"loops"}),
               h.at # "init", stack' = SetTop(SetHandler(f, [h EXCEPT !.at = at]))
        PROVE  VerifierInv'
    <2> DEFINE g == [h EXCEPT !.at = at]
    <2>1. g \in Handler BY <1>2, <1>4 DEF Handler
    <2>2. /\ g.at = at /\ g.names = h.names /\ g.slots = h.slots
          /\ g.updates = h.updates
      BY <1>2 DEF Handler
    <2> HIDE DEF g
    <2>3. CallSound(Top.scopes, c, Top.nextLocal, g)
      BY <1>2, <1>4, <2>2 DEF CallSound
    <2>4. stack' = SetTop(SetHandler(f, g)) BY <1>4 DEF g
    <2> QED BY <1>1, <1>4, <2>1, <2>3, <2>4, VerifierAdvance DEF c
  <1>5. CASE StateBody
    <2> DEFINE f == PushLoop(Top, h.loop)
    <2>1. h.at # "init" /\ stack' = SetTop(SetHandler(f, [h EXCEPT !.at = "body"]))
      BY <1>5 DEF StateBody, Handling, h
    <2>2. Changed(Top, f, {"loops"}) BY <1>3, FieldUpdates
    <2> HIDE DEF f
    <2> QED BY <1>4, <2>1, <2>2
  <1>6. CASE StateNext
    <2> DEFINE f == PopLoop(Top)
    <2>1. h.at # "init" /\ stack' = SetTop(SetHandler(f, [h EXCEPT !.at = "next"]))
      BY <1>6 DEF StateNext, Handling, h
    <2>2. Changed(Top, f, {"loops"}) BY <1>3, FieldUpdates
    <2> HIDE DEF f
    <2> QED BY <1>4, <2>1, <2>2
  <1>7. CASE StateUpdate
    <2> DEFINE n == Len(h.updates) + 1
               slot == Last(Top.scopes)[h.names[n]]
               g == [h EXCEPT !.updates = Append(@, slot)]
    <2>1. h.at = "next" /\ Len(h.updates) < Len(h.names)
          /\ stack' = SetTop(SetHandler(Top, g))
      BY <1>7 DEF StateUpdate, Handling, h
    <2>2. /\ h.names \in Seq(Name) /\ h.slots \in Seq(Nat)
          /\ h.updates \in Seq(Nat \cup {NoSlot})
          /\ Len(h.slots) = Len(h.names)
          /\ \A j \in DOMAIN h.names : Top.scopes[c + 1][h.names[j]] = h.slots[j]
          /\ \A j \in DOMAIN h.updates : h.updates[j] = h.slots[j]
      BY <1>2, <2>1, HandlerFields DEF CallSound
    <2>3. n \in DOMAIN h.names /\ n \in DOMAIN h.slots BY <2>1, <2>2
    <2>4. slot = h.slots[n] /\ slot \in Nat
      <3>1. Len(Top.scopes) = c + 1 BY <1>2, <2>1
      <3>2. Top.scopes # <<>> BY <1>2, <1>3, <3>1
      <3>3. Last(Top.scopes) = Top.scopes[c + 1] BY <1>3, <3>1, <3>2, FrontLast
      <3>4. slot = h.slots[n] BY <2>2, <2>3, <3>3
      <3> QED BY <2>2, <2>3, <3>4
    <2> HIDE DEF slot
    <2>5. /\ g \in Handler /\ g.at = h.at /\ g.names = h.names /\ g.slots = h.slots
          /\ g.updates = Append(h.updates, slot)
      <3>1. Append(h.updates, slot) \in Seq(Nat \cup {NoSlot}) BY <2>2, <2>4
      <3> QED BY <1>2, <3>1 DEF Handler
    <2> HIDE DEF g
    <2>6. /\ Len(g.updates) <= Len(g.names)
          /\ \A j \in DOMAIN g.updates : g.updates[j] = g.slots[j]
      BY <2>1, <2>2, <2>4, <2>5
    <2>7. CallSound(Top.scopes, c, Top.nextLocal, g)
      BY <1>2, <2>1, <2>5, <2>6 DEF CallSound
    <2>8. Changed(Top, Top, {"loops"}) BY <1>3 DEF Changed
    <2> QED BY <1>1, <2>1, <2>5, <2>7, <2>8, VerifierAdvance DEF c
  <1> QED BY <1>1, <1>5, <1>6, <1>7

\* A form returns, as an instruction.
LEMMA VerifierCloseForm ==
    ASSUME Inv, VerifierInv, Lowering, Top.handlers # <<>>,
           Last(Top.handlers).at # "init", NEW f \in Frame,
           Changed(Top, f, {"loops"}), NEW i,
           Sound(i, Top.nextLocal, Len(Top.captures), Len(registry), Len(module),
                 functions),
           CloseForm(f, i), registry' = registry, module' = module
    PROVE  VerifierInv'
  <1> DEFINE F == Closed(f, i)
             hs == Front(Top.handlers)
             c == 1 + Cardinality(OpenForms(hs))
             less == Front(Top.scopes)
  <1>1. /\ stack # <<>> /\ stack' = SetTop(F)
        /\ UNCHANGED <<registry, module, functions, hop, target, outcome>>
    BY DEF CloseForm, Closed, Lowering
  <1>2. /\ F.scopes = less /\ F.handlers = hs /\ F.code = Top.code \cup {i}
        /\ F.captures = Top.captures /\ F.params = Top.params
        /\ F.nextLocal = Top.nextLocal
    <2>1. /\ Changed(f, F, {"scopes", "handlers", "code"})
          /\ F.scopes = Front(f.scopes) /\ F.handlers = Front(f.handlers)
          /\ F.code = f.code \cup {i}
      BY ClosedFields
    <2> HIDE DEF F
    <2> QED BY <2>1 DEF Changed, Fields
  <1> HIDE DEF F
  <1>3. /\ hs \in Seq(Handler) /\ c \in Nat /\ Len(Top.scopes) = c + 1
        /\ CallsSound(Top.scopes, hs, Top.nextLocal)
    BY <1>1, VerifierBelow
  <1>4. /\ Top.scopes \in Seq(Scope)
        /\ FrameSound(Top, Len(registry), Len(module), functions)
    BY <1>1, VerifierTop
  <1>5. \A j \in 1..c : less[j] = Top.scopes[j]
    <2>1. Top.scopes # <<>> BY <1>3, <1>4
    <2>2. \A j \in 1..(Len(Top.scopes) - 1) : less[j] = Top.scopes[j]
      BY <1>4, <2>1, FrontLast
    <2> QED BY <1>3, <2>2
  <1>6. CallsSound(less, hs, Top.nextLocal)
    <2> HIDE DEF less
    <2> QED BY <1>3, <1>5, CallSoundsMore
  <1>7. FrameSound(F, Len(registry'), Len(module), functions)
    BY <1>1, <1>2, <1>4, <1>6 DEF FrameSound
  <1>8. target < Len(registry') BY <1>1 DEF VerifierInv
  <1> QED BY <1>1, <1>2, <1>7, <1>8, VerifierStep

LEMMA VerifierCloses ==
    ASSUME Inv, VerifierInv, LetExit \/ RangeExit \/ StateExit
    PROVE  VerifierInv'
  <1> DEFINE h == Last(Top.handlers)
             c == 1 + Cardinality(OpenForms(Front(Top.handlers)))
  <1>1. /\ Lowering /\ stack # <<>> /\ Top.handlers # <<>> /\ h.at # "init"
        /\ registry' = registry /\ module' = module
    BY DEF LetExit, RangeExit, StateExit, Handling, Lowering, CloseForm, session
  <1>2. Top \in Frame /\ DOMAIN Top = Fields BY <1>1, VerifierTop
  <1>3. Changed(Top, Top, {"loops"}) BY <1>2 DEF Changed
  <1>4. h \in Handler /\ CallSound(Top.scopes, c, Top.nextLocal, h)
    BY <1>1, VerifierBelow
  <1>5. /\ h.slots \in Seq(Nat) /\ h.updates \in Seq(Nat \cup {NoSlot})
        /\ Len(h.slots) = Len(h.names)
        /\ \A j \in DOMAIN h.slots : h.slots[j] \in Below(Top.nextLocal)
        /\ \A j \in DOMAIN h.updates : h.updates[j] = h.slots[j]
    <2> HIDE DEF h
    <2> QED BY <1>1, <1>4, HandlerFields DEF CallSound
  <1>6. CASE LetExit
    <2> DEFINE i == [op |-> "let", slots |-> h.slots]
    <2>1. CloseForm(Top, i) BY <1>6 DEF LetExit
    <2>2. i.op = "let" /\ i.slots = h.slots OBVIOUS
    <2> HIDE DEF i, h
    <2>3. Sound(i, Top.nextLocal, Len(Top.captures), Len(registry), Len(module),
                functions)
      BY <1>5, <2>2 DEF Sound
    <2> QED BY <1>1, <1>2, <1>3, <2>1, <2>3, VerifierCloseForm DEF h
  <1> DEFINE i == LoopOf(Top)
  <1>7. i.op = "loop" /\ i.kind = h.kind /\ i.slots = h.slots /\ i.updates = h.updates
    BY DEF LoopOf
  <1> HIDE DEF i, h
  <1>8. ASSUME h.kind = "state" => i.updates = i.slots
        PROVE  Sound(i, Top.nextLocal, Len(Top.captures), Len(registry), Len(module),
                     functions)
    BY <1>5, <1>7, <1>8 DEF Sound
  <1>9. CASE RangeExit
    <2> DEFINE f == PopLoop(Top)
    <2>1. CloseForm(f, i) /\ h.kind = "range"
      BY <1>9 DEF RangeExit, Handling, h, i
    <2>2. f \in Frame BY <1>1, TopFacts, PopLoopOK DEF FrameOK
    <2>3. Changed(Top, f, {"loops"}) BY <1>2, FieldUpdates
    <2> HIDE DEF f
    <2> QED BY <1>1, <1>8, <2>1, <2>2, <2>3, VerifierCloseForm DEF h
  <1>10. CASE StateExit
    <2>1. CloseForm(Top, i) /\ Len(h.updates) = Len(h.names)
      BY <1>10 DEF StateExit, h, i
    <2>2. h.updates = h.slots BY <1>5, <2>1
    <2> QED BY <1>1, <1>2, <1>3, <1>7, <1>8, <2>1, <2>2, VerifierCloseForm DEF h
  <1> QED BY <1>6, <1>9, <1>10

LEMMA VerifierBreak ==
    ASSUME Inv, VerifierInv, Break, Top.loops # <<>>
    PROVE  VerifierInv'
  <1> DEFINE i == [op |-> "break", loop |-> Last(Top.loops), within |-> Within(Top)]
  <1>1. /\ Lowering /\ stack' = SetTop(Emit(Top, i))
        /\ UNCHANGED <<registry, module, functions, hop, target, outcome>>
    BY DEF Break, AtExpr, session
  <1>2. Sound(i, Top.nextLocal, Len(Top.captures), Len(registry'), Len(module), functions)
    BY DEF Sound
  <1> HIDE DEF i
  <1>3. target < Len(registry') BY <1>1 DEF VerifierInv
  <1> QED BY <1>1, <1>2, <1>3, VerifierEmit

-----------------------------------------------------------------------------
(* The steps of lower_fn *)

LEMMA VerifierEnterFn ==
    ASSUME Inv, VerifierInv, NEW params \in Seq(Name), IsInjective(params),
           EnterFn(params)
    PROVE  VerifierInv'
  <1> DEFINE n == Len(stack)
             F == Entered(Len(module) + Len(functions), params)
             fns == Append(functions, Pending)
  <1>1. /\ hop = NoHop /\ n \in Nat
        /\ Len(stack') = n + 1 /\ DOMAIN stack' = 1..(n + 1)
        /\ stack'[n + 1] = F
        /\ \A d \in 1..n : d \in DOMAIN stack /\ stack'[d] = stack[d]
        /\ functions' = fns /\ functions \in Seq(Function \cup {Pending})
        /\ UNCHANGED <<registry, module, hop, target, outcome>>
    <2> HIDE DEF F
    <2> QED BY EnterFnEffect DEF F
  <1>2. /\ F.captures = <<>> /\ F.code = {} /\ F.handlers = <<>>
        /\ F.params = Len(params) /\ F.nextLocal = Len(params)
    BY EnteredFields
  <1> HIDE DEF F, n
  <1>3. FunctionsKept(functions, fns) BY <1>1 DEF FunctionsKept
  <1>4. \A k \in DOMAIN fns : fns[k] # Pending => k \in DOMAIN functions /\ fns[k] = functions[k]
    BY <1>1
  <1> HIDE DEF fns
  <1>5. FrameSound(F, Len(registry), Len(module), fns)
    BY <1>2 DEF FrameSound, CallsSound
  <1>6. ASSUME NEW d \in DOMAIN stack'
        PROVE  FrameSound(stack'[d], Len(registry'), Len(module'), functions')
    <2>1. CASE d \in 1..n
      <3>1. FrameSound(stack[d], Len(registry), Len(module), functions)
        BY <1>1, <2>1 DEF VerifierInv
      <3>2. FrameSound(stack[d], Len(registry), Len(module), fns)
        BY <1>3, <3>1, FrameMore
      <3> QED BY <1>1, <2>1, <3>2
    <2>2. CASE d = n + 1 BY <1>1, <1>5, <2>2
    <2> QED BY <1>1, <2>1, <2>2
  <1>7. ASSUME NEW d \in 2..Len(stack'), NEW i \in DOMAIN stack'[d].captures
        PROVE  Reaches(stack'[d].captures[i].src, stack'[d - 1].nextLocal)
    <2>1. CASE d \in 2..n
      <3>1. stack'[d] = stack[d] /\ stack'[d - 1] = stack[d - 1] BY <1>1, <2>1
      <3> QED BY <2>1, <3>1 DEF VerifierInv, n
    <2>2. CASE d = n + 1 BY <1>1, <1>2, <2>2
    <2> QED BY <1>1, <2>1, <2>2
  <1>8. ASSUME NEW k \in DOMAIN functions', functions'[k] # Pending
        PROVE  FunctionSound(functions'[k], Len(registry'), Len(module'), functions')
    <2>1. k \in DOMAIN functions /\ fns[k] = functions[k] /\ functions[k] # Pending
      BY <1>1, <1>4, <1>8
    <2>2. FunctionSound(functions[k], Len(registry), Len(module), functions)
      BY <2>1 DEF VerifierInv
    <2>3. FunctionSound(functions[k], Len(registry), Len(module), fns)
      BY <1>3, <2>2, FunctionMore
    <2> QED BY <1>1, <2>1, <2>3
  <1>9. target' < Len(registry') /\ outcome' # "rejected" /\ hop' = NoHop
    BY <1>1 DEF VerifierInv
  <1> QED BY <1>6, <1>7, <1>8, <1>9 DEF VerifierInv

\* The closure fills the captures of the function just placed, each from a
\* slot of the function that makes it.
LEMMA VerifierExitFn == ASSUME Inv, VerifierInv, ExitFn PROVE VerifierInv'
  <1> DEFINE n == Len(stack)
             p == Top.id - Len(module) + 1
             i == ClosureOf(Top)
             f == stack[n - 1]
             F == Emit(f, i)
             fun == FunctionOf(Top)
             fns == functions'
  <1>1. /\ hop = NoHop /\ n \in Nat /\ n > 1 /\ Top = stack[n] /\ Top \in Frame
        /\ n \in DOMAIN stack
        /\ Len(stack') = n - 1 /\ DOMAIN stack' = 1..(n - 1)
        /\ n - 1 \in DOMAIN stack /\ stack'[n - 1] = F
        /\ \A d \in 1..(n - 2) : d \in DOMAIN stack /\ stack'[d] = stack[d]
        /\ p \in DOMAIN functions /\ functions[p] = Pending
        /\ DOMAIN fns = DOMAIN functions
        /\ fns[p] = fun /\ fun # Pending
        /\ \A k \in DOMAIN functions : k # p => fns[k] = functions[k]
        /\ UNCHANGED <<registry, module, hop, target, outcome>>
    <2> HIDE DEF F, fun
    <2> QED BY ExitFnEffect DEF F, fun
  <1>2. FunctionsKept(functions, fns)
    <2> HIDE DEF p, fun, fns
    <2> QED BY <1>1 DEF FunctionsKept
  <1>3. /\ i.op = "closure" /\ i.fn = Top.id
        /\ DOMAIN i.sources = DOMAIN Top.captures
        /\ \A j \in DOMAIN Top.captures : i.sources[j] = Top.captures[j].src
    BY DEF ClosureOf
  <1>4. /\ fun.params = Top.params /\ fun.captureCount = Len(Top.captures)
        /\ fun.localCount = Top.nextLocal /\ fun.code = Top.code
    BY DEF FunctionOf
  <1>5. /\ Top.captures \in Seq(Capture) /\ f \in Frame
        /\ Len(i.sources) = Len(Top.captures)
    <2>1. f \in Frame /\ Top.captures \in Seq(Capture)
      <3>1. stack \in Seq(Frame) BY DEF Inv, TypeOK
      <3>2. n - 1 \in DOMAIN stack BY <1>1
      <3>3. f \in Frame BY <3>1, <3>2
      <3>4. Top.captures \in Seq(Capture) BY <1>1 DEF Frame
      <3> QED BY <3>3, <3>4
    <2>2. i.sources = [j \in DOMAIN Top.captures |-> Top.captures[j].src]
      BY DEF ClosureOf
    <2> HIDE DEF i
    <2>3. Len(i.sources) = Len(Top.captures) BY <2>1, <2>2
    <2> QED BY <2>1, <2>3
  <1> HIDE DEF i, fun, fns, f
  <1>6. Made(i, Len(module), fns)
    <2>1. i.fn - Len(module) + 1 = p BY <1>3
    <2> HIDE DEF p
    <2> QED BY <1>1, <1>4, <1>5, <2>1 DEF Made
  <1>7. \A j \in DOMAIN i.sources : InFrame(i.sources[j], f.nextLocal, Len(f.captures))
    <2> SUFFICES ASSUME NEW j \in DOMAIN Top.captures
                 PROVE  InFrame(Top.captures[j].src, f.nextLocal, Len(f.captures))
      BY <1>3
    <2> DEFINE src == Top.captures[j].src
    <2>1. src \in Source
      <3>1. Top.captures[j] \in Capture BY <1>5
      <3> QED BY <3>1 DEF Capture
    <2>2. Reaches(src, f.nextLocal) BY <1>1 DEF VerifierInv, f
    <2>3. Leads(n, src, Top.captures[j].origin) BY <1>1 DEF Inv, CaptureChain
    <2> HIDE DEF src, n
    <2>4. src.kind # "local" => src.slot < Len(f.captures)
      BY <2>3 DEF Leads, f
    <2>5. src.slot \in Nat /\ f.captures \in Seq(Capture)
      BY <1>5, <2>1 DEF Source, Frame
    <2>6. src.kind # "local" => src.slot \in Below(Len(f.captures))
      BY <2>4, <2>5 DEF Below
    <2>7. InFrame(src, f.nextLocal, Len(f.captures))
      BY <2>2, <2>6 DEF InFrame, Reaches
    <2> QED BY <2>7 DEF src
  <1>8. Sound(i, f.nextLocal, Len(f.captures), Len(registry), Len(module), fns)
    BY <1>3, <1>6, <1>7 DEF Sound
  <1>9. \A d \in DOMAIN stack : FrameSound(stack[d], Len(registry), Len(module), fns)
    <2> SUFFICES ASSUME NEW d \in DOMAIN stack
                 PROVE  FrameSound(stack[d], Len(registry), Len(module), fns)
      OBVIOUS
    <2>1. FrameSound(stack[d], Len(registry), Len(module), functions)
      BY DEF VerifierInv
    <2> QED BY <1>2, <2>1, FrameMore
  <1>10. FrameSound(F, Len(registry), Len(module), fns)
    <2>1. DOMAIN f = Fields BY <1>5, FrameFields
    <2>2. FrameSound(f, Len(registry), Len(module), fns) BY <1>1, <1>9 DEF f
    <2> QED BY <1>8, <2>1, <2>2, EmitSound
  <1>11. F.captures = f.captures /\ F.nextLocal = f.nextLocal
    <2>1. DOMAIN f = Fields BY <1>5, FrameFields
    <2> QED BY <2>1, FieldUpdates DEF Changed, Fields
  <1> HIDE DEF F, n
  <1>12. ASSUME NEW d \in DOMAIN stack'
         PROVE  FrameSound(stack'[d], Len(registry'), Len(module'), functions')
    <2>1. CASE d = n - 1 BY <1>1, <1>10, <2>1 DEF fns
    <2>2. CASE d \in 1..(n - 2) BY <1>1, <1>9, <2>2 DEF fns
    <2> QED BY <1>1, <2>1, <2>2
  <1>13. \A d \in DOMAIN stack' : /\ d \in DOMAIN stack
                                  /\ stack'[d].captures = stack[d].captures
                                  /\ stack'[d].nextLocal = stack[d].nextLocal
    <2> SUFFICES ASSUME NEW d \in DOMAIN stack'
                 PROVE  /\ d \in DOMAIN stack
                        /\ stack'[d].captures = stack[d].captures
                        /\ stack'[d].nextLocal = stack[d].nextLocal
      OBVIOUS
    <2>1. CASE d = n - 1 BY <1>1, <1>11, <2>1 DEF f
    <2>2. CASE d \in 1..(n - 2) BY <1>1, <2>2
    <2> QED BY <1>1, <2>1, <2>2
  <1>14. ASSUME NEW d \in 2..Len(stack'), NEW j \in DOMAIN stack'[d].captures
         PROVE  Reaches(stack'[d].captures[j].src, stack'[d - 1].nextLocal)
    <2>1. d \in DOMAIN stack' /\ d - 1 \in DOMAIN stack' /\ d \in 2..n BY <1>1
    <2>2. j \in DOMAIN stack[d].captures BY <1>13, <2>1
    <2>3. Reaches(stack[d].captures[j].src, stack[d - 1].nextLocal)
      BY <2>1, <2>2 DEF VerifierInv, n
    <2> QED BY <1>13, <2>1, <2>3
  <1>15. FunctionSound(fun, Len(registry), Len(module), fns)
    <2>1. FrameSound(Top, Len(registry), Len(module), fns) BY <1>1, <1>9
    <2> QED BY <1>4, <2>1 DEF FrameSound, FunctionSound
  <1>16. ASSUME NEW k \in DOMAIN fns, fns[k] # Pending
         PROVE  FunctionSound(fns[k], Len(registry), Len(module), fns)
    <2>1. CASE k = p BY <1>1, <1>15, <2>1
    <2>2. CASE k # p
      <3> HIDE DEF p
      <3>1. k \in DOMAIN functions /\ fns[k] = functions[k] BY <1>1, <2>2
      <3>2. FunctionSound(functions[k], Len(registry), Len(module), functions)
        BY <1>16, <3>1 DEF VerifierInv
      <3>3. FunctionSound(functions[k], Len(registry), Len(module), fns)
        BY <1>2, <3>2, FunctionMore
      <3> QED BY <3>1, <3>3
    <2> QED BY <2>1, <2>2
  <1>17. /\ target' < Len(registry') /\ outcome' # "rejected" /\ hop' = NoHop
         /\ registry' = registry /\ module' = module
    BY <1>1 DEF VerifierInv
  <1> QED BY <1>12, <1>14, <1>16, <1>17 DEF VerifierInv, fns

-----------------------------------------------------------------------------
(* The ends of a form *)

LEMMA VerifierDrop ==
    ASSUME DropContext, Len(registry') \in Nat, outcome' # "rejected"
    PROVE  VerifierInv'
  BY DEF DropContext, VerifierInv, NoGlobal

LEMMA VerifierFail == ASSUME Inv, Fail PROVE VerifierInv'
  <1>1. DropContext /\ registry' = registry /\ outcome' # "rejected"
    BY DEF Fail, session
  <1>2. Len(registry) \in Nat BY DEF Inv, TypeOK
  <1> QED BY <1>1, <1>2, VerifierDrop

LEMMA InstrShape ==
    ASSUME NEW i \in Instr
    PROVE  /\ i.op \in {"local", "capture", "global", "closure", "let", "loop",
                        "break"}
           /\ i.op = "closure" => i.fn \in Nat
  BY DEF Instr

LEMMA BelowIsLess == ASSUME NEW n \in Nat, NEW x \in Below(n) PROVE x < n
  BY DEF Below

\* An instruction in range passes, when the loops around it are right.
LEMMA InstrIsVerified ==
    ASSUME NEW i \in Instr, NEW locals \in Nat, NEW captures \in Nat,
           NEW reg \in Seq(Interned), NEW mod \in Seq(Function),
           NEW fns \in Seq(Function \cup {Pending}),
           \A k \in DOMAIN fns : fns[k] # Pending,
           Sound(i, locals, captures, Len(reg), Len(mod), fns),
           i.op = "break" => i.loop \in i.within,
           i.op = "loop" => i.loop \notin i.within
    PROVE  VerifiedInstr(i, locals, captures, mod \o fns, reg)
  <1>1. /\ i.op \in {"local", "capture", "global", "closure", "let", "loop", "break"}
        /\ i.op = "closure" => i.fn \in Nat
    BY InstrShape
  <1>2. CASE i.op = "local"
    <2>1. i.slot < locals BY <1>2, BelowIsLess DEF Sound
    <2> QED BY <1>2, <2>1 DEF VerifiedInstr
  <1>3. CASE i.op = "capture"
    <2>1. i.slot < captures BY <1>3, BelowIsLess DEF Sound
    <2> QED BY <1>3, <2>1 DEF VerifiedInstr
  <1>4. CASE i.op = "global"
    <2>1. Len(reg) \in Nat OBVIOUS
    <2>2. i.slot < Len(reg) BY <1>4, <2>1, BelowIsLess DEF Sound
    <2> QED BY <1>4, <2>2 DEF VerifiedInstr
  <1>5. CASE i.op = "closure"
    <2> DEFINE k == i.fn - Len(mod) + 1
               all == mod \o fns
    <2>1. /\ i.fn \in Nat /\ k \in DOMAIN fns
          /\ fns[k].captureCount = Len(i.sources)
          /\ \A j \in DOMAIN i.sources : InFrame(i.sources[j], locals, captures)
      BY <1>1, <1>5 DEF Sound, Made
    <2>2. InModule(i.fn, all) /\ all[i.fn + 1] = fns[k]
      <3>1. /\ Len(mod) \in Nat /\ Len(fns) \in Nat /\ DOMAIN fns = 1..Len(fns)
            /\ Len(all) = Len(mod) + Len(fns)
            /\ \A j \in 1..Len(fns) : all[Len(mod) + j] = fns[j]
        OBVIOUS
      <3> DEFINE base == Len(mod)
      <3>2. i.fn = base + k - 1 /\ k \in 1..Len(fns) BY <2>1, <3>1
      <3>3. i.fn + 1 = base + k BY <2>1, <3>1
      <3> HIDE DEF all, k
      <3>4. all[i.fn + 1] = fns[k] BY <3>1, <3>2, <3>3
      <3>5. i.fn \in 0..(Len(all) - 1) BY <2>1, <3>1, <3>2
      <3> QED BY <3>4, <3>5 DEF InModule
    <2> HIDE DEF k, all
    <2>3. \A s \in Range(i.sources) :
             s.slot < IF s.kind = "local" THEN locals ELSE captures
      <3> SUFFICES ASSUME NEW j \in DOMAIN i.sources
                   PROVE  i.sources[j].slot <
                            IF i.sources[j].kind = "local" THEN locals ELSE captures
        BY DEF Range
      <3> DEFINE bound == IF i.sources[j].kind = "local" THEN locals ELSE captures
      <3>1. bound \in Nat /\ i.sources[j].slot \in Below(bound)
        BY <2>1 DEF InFrame
      <3> HIDE DEF bound
      <3>2. i.sources[j].slot < bound BY <3>1, BelowIsLess
      <3> QED BY <3>2 DEF bound
    <2>4. VerifiedInstr(i, locals, captures, all, reg)
      BY <1>5, <2>1, <2>2, <2>3 DEF VerifiedInstr
    <2> QED BY <2>4 DEF all
  <1>6. ASSUME i.op \in {"let", "loop"}
        PROVE  \A s \in Range(i.slots) : s < locals
    BY <1>6, BelowIsLess DEF Sound, Range
  <1>7. CASE i.op = "let" BY <1>6, <1>7 DEF VerifiedInstr
  <1>8. CASE i.op = "loop"
    <2>1. i.kind = "state" => i.updates = i.slots BY <1>8 DEF Sound
    <2> QED BY <1>6, <1>8, <2>1 DEF VerifiedInstr
  <1>9. CASE i.op = "break" BY <1>9 DEF VerifiedInstr
  <1> QED BY <1>1, <1>2, <1>3, <1>4, <1>5, <1>7, <1>8, <1>9

\* The verifier finds nothing wrong with a form that was lowered.
LEMMA FormIsVerified ==
    ASSUME Inv, LoopInv, VerifierInv, Lowering, Len(stack) = 1
    PROVE  Verified(Top, functions, module \o functions, registry, target)
  <1>1. /\ module \in Seq(Function) /\ functions \in Seq(Function \cup {Pending})
        /\ registry \in Seq(Interned) /\ stack # <<>>
    BY DEF Inv, TypeOK, Lowering
  <1>2. /\ Top = stack[1] /\ 1 \in DOMAIN stack /\ Top \in Frame
        /\ FrameSound(Top, Len(registry), Len(module), functions)
    BY <1>1, VerifierTop
  <1>3. \A k \in DOMAIN functions : functions[k] # Pending
    <2>1. {k \in DOMAIN functions : functions[k] = Pending}
            = {stack[d].id - Len(module) + 1 : d \in 2..Len(stack)}
      BY DEF Inv, FunctionTable
    <2>2. 2..Len(stack) = {} OBVIOUS
    <2> QED BY <2>1, <2>2
  <1>4. Len(Top.captures) = 0
    <2>1. \A c \in DOMAIN stack[1].captures :
             Leads(1, stack[1].captures[c].src, stack[1].captures[c].origin)
      BY <1>2 DEF Inv, CaptureChain
    <2>2. \A c \in DOMAIN Top.captures : FALSE BY <1>2, <2>1 DEF Leads
    <2>3. Top.captures \in Seq(Capture) BY <1>2 DEF Frame
    <2> HIDE DEF Top
    <2>4. Len(Top.captures) # 0 => 1 \in DOMAIN Top.captures BY <2>3
    <2> QED BY <2>2, <2>4
  <1>5. ASSUME NEW i \in Top.code
        PROVE  VerifiedInstr(i, Top.nextLocal, 0, module \o functions, registry)
    <2>1. i \in Instr /\ Top.nextLocal \in Nat BY <1>2 DEF Frame
    <2>2. Sound(i, Top.nextLocal, 0, Len(registry), Len(module), functions)
      BY <1>2, <1>4 DEF FrameSound
    <2>3. /\ i.op = "break" => i.loop \in i.within
          /\ i.op = "loop" => i.loop \notin i.within
      BY <1>2 DEF LoopInv, LoopFrame, LoopState, WellNested
    <2> HIDE DEF Top
    <2> QED BY <1>1, <1>3, <2>1, <2>2, <2>3, InstrIsVerified
  <1>6. ASSUME NEW k \in DOMAIN functions
        PROVE  VerifiedFunction(functions[k], module \o functions, registry)
    <2> DEFINE f == functions[k]
    <2>1. f # Pending /\ f \in Function BY <1>1, <1>3
    <2>2. FunctionSound(f, Len(registry), Len(module), functions)
      BY <2>1 DEF VerifierInv
    <2>3. WellNested(f.code) BY <2>1 DEF LoopInv, LoopFunction
    <2> HIDE DEF f
    <2>4. f.localCount \in Nat /\ f.captureCount \in Nat /\ f.code \subseteq Instr
      BY <2>1 DEF Function
    <2>5. ASSUME NEW i \in f.code
          PROVE  VerifiedInstr(i, f.localCount, f.captureCount, module \o functions,
                               registry)
      <3>1. Sound(i, f.localCount, f.captureCount, Len(registry), Len(module),
                  functions)
        BY <2>2 DEF FunctionSound
      <3>2. /\ i.op = "break" => i.loop \in i.within
            /\ i.op = "loop" => i.loop \notin i.within
        BY <2>3 DEF WellNested
      <3>3. i \in Instr BY <2>4
      <3> QED BY <1>1, <1>3, <2>4, <3>1, <3>2, <3>3, InstrIsVerified
    <2>6. f.params <= f.localCount BY <2>2 DEF FunctionSound
    <2> QED BY <2>5, <2>6 DEF VerifiedFunction, f
  <1>7. \A f \in Range(functions) : VerifiedFunction(f, module \o functions, registry)
    BY <1>6 DEF Range
  <1>8. target < Len(registry) BY DEF VerifierInv
  <1> QED BY <1>5, <1>7, <1>8 DEF Verified

LEMMA VerifierFinish == ASSUME Inv, LoopInv, VerifierInv, Finish PROVE VerifierInv'
  <1>1. Lowering /\ Len(stack) = 1 /\ DropContext /\ registry' = registry
    BY DEF Finish
  <1>2. Verified(Top, functions, module \o functions, registry, target)
    BY <1>1, FormIsVerified
  <1>3. outcome' # "rejected" BY <1>2 DEF Finish
  <1>4. Len(registry) \in Nat BY DEF Inv, TypeOK
  <1> QED BY <1>1, <1>3, <1>4, VerifierDrop

LEMMA VerifierBegin ==
    ASSUME Inv, VerifierInv, stack = <<>>, stack' = <<NewFrame(NoFunction)>>,
           target' < Len(registry'), outcome' # "rejected",
           UNCHANGED <<functions, hop>>
    PROVE  VerifierInv'
  <1> DEFINE F == NewFrame(NoFunction)
  <1>1. /\ F.code = {} /\ F.handlers = <<>> /\ F.params = 0 /\ F.nextLocal = 0
    BY NewFrameFields
  <1> HIDE DEF F
  <1>2. DOMAIN stack' = {1} /\ Len(stack') = 1 /\ stack'[1] = F BY DEF F
  <1>3. FrameSound(F, Len(registry'), Len(module'), functions')
    BY <1>1 DEF FrameSound, CallsSound
  <1>4. functions' = <<>> BY DEF Inv
  <1>5. hop' = NoHop BY DEF Inv, HopLeads
  <1> QED BY <1>2, <1>3, <1>4, <1>5 DEF VerifierInv

LEMMA VerifierUnchanged ==
    ASSUME VerifierInv, UNCHANGED <<registry, module, functions, stack, hop, target>>,
           outcome' # "rejected"
    PROVE  VerifierInv'
  BY DEF VerifierInv

LEMMA VerifierBegins ==
    ASSUME Inv, VerifierInv, BeginExpr \/ \E n \in Interned : BeginDef(n)
    PROVE  VerifierInv'
  <1>1. registry \in Seq(Interned) /\ Len(registry) \in Nat BY DEF Inv, TypeOK
  <1>2. CASE BeginExpr
    <2>1. target' < Len(registry') BY <1>1, <1>2 DEF BeginExpr, session, NoGlobal
    <2> QED BY <1>2, <2>1, VerifierBegin DEF BeginExpr
  <1>3. ASSUME NEW n \in Interned, BeginDef(n) PROVE VerifierInv'
    <2>1. CASE n \in Reserved
      BY <1>3, <2>1, VerifierUnchanged DEF BeginDef, session, context
    <2>2. CASE n \notin Reserved
      <3>1. /\ registry' = Interning(n) /\ target' = GlobalId(registry', n)
            /\ stack = <<>> /\ stack' = <<NewFrame(NoFunction)>>
            /\ outcome' = "lowering" /\ UNCHANGED <<functions, hop>>
        BY <1>3, <2>2 DEF BeginDef
      <3>2. target' \in Below(Len(registry')) /\ Len(registry') \in Nat
        BY <1>1, <3>1, InterningInRange
      <3>3. target' < Len(registry') BY <3>2, BelowIsLess
      <3> QED BY <3>1, <3>3, VerifierBegin
    <2> QED BY <2>1, <2>2
  <1> QED BY <1>2, <1>3

-----------------------------------------------------------------------------
(* The invariant, and what the host sees of it *)

LEMMA VerifierNames ==
    ASSUME Inv, VerifierInv, NEW n \in Name,
           \/ ResolveLocal(n) \/ ResolveGlobal(n) \/ BeginCapture(n)
           \/ EnterRange(n) \/ NextBinding(n)
    PROVE  VerifierInv'
  <1>1. CASE ResolveLocal(n) BY <1>1, VerifierLocal
  <1>2. CASE ResolveGlobal(n)
    <2>1. CASE n \in Generated BY <1>2, <2>1, VerifierFail DEF ResolveGlobal
    <2>2. CASE n \notin Generated
      <3>1. n \in Interned BY <2>2 DEF Name
      <3> QED BY <1>2, <2>2, <3>1, VerifierGlobal
    <2> QED BY <2>1, <2>2
  <1>3. CASE BeginCapture(n) BY <1>3, VerifierBeginCapture
  <1>4. CASE EnterRange(n)
    <2>1. <<n>> \in Seq(Name) OBVIOUS
    <2> QED BY <1>4, <2>1, VerifierEnterForm DEF EnterRange
  <1>5. CASE NextBinding(n)
    <2>1. CASE n \in Range(Last(Top.handlers).names)
      BY <1>5, <2>1, VerifierFail DEF NextBinding
    <2>2. CASE n \notin Range(Last(Top.handlers).names)
      BY <1>5, <2>2, VerifierNextBinding
    <2> QED BY <2>1, <2>2
  <1> QED BY <1>1, <1>2, <1>3, <1>4, <1>5

LEMMA VerifierNext ==
    ASSUME Inv, LoopInv, VerifierInv, [Next]_vars
    PROVE  VerifierInv'
  <1>1. CASE BeginExpr \/ \E n \in Interned : BeginDef(n) BY <1>1, VerifierBegins
  <1>2. CASE \E n \in Name : \/ ResolveLocal(n) \/ ResolveGlobal(n)
                             \/ BeginCapture(n) \/ EnterRange(n)
                             \/ NextBinding(n)
    BY <1>2, VerifierNames
  <1>3. CASE CaptureHop BY <1>3, VerifierCaptureHop
  <1>4. ASSUME NEW params \in BoundedSeq(Name, MaxParams), EnterFn(params)
        PROVE  VerifierInv'
    <2>1. CASE ~IsInjective(params) BY <1>4, <2>1, VerifierFail DEF EnterFn
    <2>2. CASE IsInjective(params) BY <1>4, <2>2, ParamsType, VerifierEnterFn
    <2> QED BY <2>1, <2>2
  <1>5. CASE ExitFn BY <1>5, VerifierExitFn
  <1>6. CASE EnterLet \/ EnterState
    <2>1. <<>> \in Seq(Name) OBVIOUS
    <2> QED BY <1>6, <2>1, VerifierEnterForm DEF EnterLet, EnterState
  <1>7. CASE LetBody \/ RangeBody \/ StateCond BY <1>7, VerifierOpens
  <1>8. CASE StateBody \/ StateNext \/ StateUpdate BY <1>8, VerifierMovesOn
  <1>9. CASE LetExit \/ RangeExit \/ StateExit BY <1>9, VerifierCloses
  <1>10. CASE Break
    <2>1. CASE Top.loops = <<>> BY <1>10, <2>1, VerifierFail DEF Break
    <2>2. CASE Top.loops # <<>> BY <1>10, <2>2, VerifierBreak
    <2> QED BY <2>1, <2>2
  <1>11. CASE Malformed BY <1>11, VerifierFail DEF Malformed
  <1>12. CASE Finish BY <1>12, VerifierFinish
  <1>13. CASE UNCHANGED vars
    <2>1. /\ UNCHANGED <<registry, module, functions, stack, hop, target>>
          /\ outcome' = outcome
      BY <1>13 DEF vars, session, context
    <2>2. outcome' # "rejected" BY <2>1 DEF VerifierInv
    <2> QED BY <2>1, <2>2, VerifierUnchanged
  <1> QED
    BY <1>1, <1>2, <1>3, <1>4, <1>5, <1>6, <1>7, <1>8, <1>9, <1>10, <1>11,
       <1>12, <1>13
    DEF Next

\* What is emitted is in range, and stays in range, of what it refers to.
THEOREM VerifierInvariance == Spec => []VerifierInv
  <1>1. Init => VerifierInv
    <2>1. Builtins \in Seq(Interned) BY NamesAssumption
    <2>2. Len(Builtins) \in Nat BY <2>1
    <2>3. Init => VerifierInv BY <2>2 DEF Init, VerifierInv, NoGlobal
    <2> QED BY <2>3
  <1>2. Inv /\ LoopInv /\ VerifierInv /\ [Next]_vars => VerifierInv'
    BY VerifierNext
  <1> QED BY <1>1, <1>2, Invariance, LoopInvariance, PTL DEF Spec

\* No form that the lowerer accepts is rejected by the verifier: "the lowerer
\* should always produce IR that passes this check" (verify.rs).
THEOREM VerifierAlwaysAccepts == Spec => []VerifierAccepts
  <1>1. VerifierInv => VerifierAccepts BY DEF VerifierInv, VerifierAccepts
  <1> QED BY <1>1, VerifierInvariance, PTL

-----------------------------------------------------------------------------
(* The session implements FormStore *)

\* What FormStore sees of the functions of a module.
Shown(fns) ==
    [i \in DOMAIN fns |-> [id |-> fns[i].id, loops |-> LoopsIn(fns[i].code)]]

\* A name more in the registry, or none: NamesGrow of FormStore.
Grown ==
    \/ registry' = registry
    \/ \E n \in Interned \ Range(registry) : registry' = Append(registry, n)

LEMMA InterningGrows ==
    ASSUME NEW n \in Interned, registry' = Interning(n)
    PROVE  Grown
  BY DEF Interning, Grown

LEMMA StoreInit == ASSUME Init PROVE Store!Init
  BY DEF Init, Store!Init

\* A form begins with the body on an empty stack.
LEMMA StoreBegin ==
    ASSUME stack = <<>>, stack' = <<NewFrame(NoFunction)>>,
           outcome' = "lowering", Grown, UNCHANGED <<module, nextLoopId>>
    PROVE  Store!Begin
  <1> DEFINE F == NewFrame(NoFunction)
  <1> HIDE DEF F
  <1>1. stack' # <<>>
    <2>1. stack' = <<F>> BY DEF F
    <2> QED BY <2>1
  <1> QED BY <1>1 DEF Store!Begin, Store!NamesGrow, Store!Range, Range, Grown

\* Everything between the beginning of a form and its end.
Working ==
    /\ stack # <<>> /\ stack' # <<>>
    /\ Grown
    /\ UNCHANGED <<module, nextLoopId, outcome>>

LEMMA StoreWork == ASSUME Working PROVE Store!Work
  BY DEF Working, Store!Work, Store!NamesGrow, Store!Range, Range, Grown

LEMMA StoreFail == ASSUME Fail PROVE Store!Refuse
  BY DEF Fail, DropContext, session, Store!Refuse

LEMMA StoreBegins ==
    ASSUME BeginExpr \/ \E n \in Interned : BeginDef(n)
    PROVE  Store!Next
  <1>1. CASE BeginExpr
    BY <1>1, StoreBegin DEF BeginExpr, session, Grown, Store!Next
  <1>2. ASSUME NEW n \in Interned, BeginDef(n) PROVE Store!Next
    <2>1. CASE n \in Reserved
      BY <1>2, <2>1 DEF BeginDef, session, context, Store!Next, Store!Refuse
    <2>2. CASE n \notin Reserved
      <3>1. /\ stack = <<>> /\ stack' = <<NewFrame(NoFunction)>>
            /\ outcome' = "lowering" /\ registry' = Interning(n)
            /\ UNCHANGED <<module, nextLoopId>>
        BY <1>2, <2>2 DEF BeginDef
      <3> QED BY <3>1, InterningGrows, StoreBegin DEF Store!Next
    <2> QED BY <2>1, <2>2
  <1> QED BY <1>1, <1>2

\* The steps inside a function change its frame in place.
LEMMA WorkInPlace ==
    ASSUME stack \in Seq(Frame), stack # <<>>, NEW d, NEW f,
           stack' = [stack EXCEPT ![d] = f],
           Grown, UNCHANGED <<module, nextLoopId, outcome>>
    PROVE  Store!Work
  <1>1. stack' # <<>>
    <2>1. 1 \in DOMAIN stack OBVIOUS
    <2>2. DOMAIN stack' = DOMAIN stack OBVIOUS
    <2>3. 1 \notin DOMAIN <<>> OBVIOUS
    <2> QED BY <2>1, <2>2, <2>3
  <1> QED BY <1>1, StoreWork DEF Working

LEMMA WorkAtTop ==
    ASSUME Inv, stack # <<>>, NEW f, stack' = SetTop(f),
           Grown, UNCHANGED <<module, nextLoopId, outcome>>
    PROVE  Store!Work
  BY WorkInPlace DEF Inv, TypeOK, SetTop

LEMMA StoreNames ==
    ASSUME Inv, NEW n \in Name,
           \/ ResolveLocal(n) \/ ResolveGlobal(n) \/ BeginCapture(n)
           \/ EnterRange(n) \/ NextBinding(n)
    PROVE  Store!Next
  <1>1. CASE ResolveLocal(n)
    BY <1>1, WorkAtTop
    DEF ResolveLocal, AtExpr, Lowering, session, Grown, Store!Next
  <1>2. CASE ResolveGlobal(n)
    <2>1. CASE n \in Generated
      BY <1>2, <2>1, StoreFail DEF ResolveGlobal, Store!Next
    <2>2. CASE n \notin Generated
      <3>1. n \in Interned BY <2>2 DEF Name
      <3>2. /\ stack # <<>> /\ registry' = Interning(n)
            /\ \E f : stack' = SetTop(f)
            /\ UNCHANGED <<module, nextLoopId, outcome>>
        BY <1>2, <2>2 DEF ResolveGlobal, AtExpr, Lowering
      <3> QED BY <3>1, <3>2, InterningGrows, WorkAtTop DEF Store!Next
    <2> QED BY <2>1, <2>2
  <1>3. CASE BeginCapture(n)
    BY <1>3, StoreWork
    DEF BeginCapture, AtExpr, Lowering, session, Grown, Working, Store!Next
  <1>4. CASE EnterRange(n)
    BY <1>4, WorkAtTop
    DEF EnterRange, EnterForm, AtExpr, Lowering, session, Grown, Store!Next
  <1>5. CASE NextBinding(n)
    <2>1. CASE n \in Range(Last(Top.handlers).names)
      BY <1>5, <2>1, StoreFail DEF NextBinding, Store!Next
    <2>2. CASE n \notin Range(Last(Top.handlers).names)
      BY <1>5, <2>2, WorkAtTop
      DEF NextBinding, Handling, Lowering, session, Grown, Store!Next
    <2> QED BY <2>1, <2>2
  <1> QED BY <1>1, <1>2, <1>3, <1>4, <1>5

LEMMA StoreCaptureHop == ASSUME Inv, CaptureHop PROVE Store!Next
  <1>1. /\ \E f : stack' = [stack EXCEPT ![hop.at] = f]
        /\ UNCHANGED <<registry, module, nextLoopId, outcome>>
    BY DEF CaptureHop, SetTop, session
  <1>2. stack # <<>> /\ stack \in Seq(Frame)
    <2>1. hop.at \in 2..Len(stack) BY DEF Inv, HopLeads, CaptureHop
    <2>2. stack \in Seq(Frame) BY DEF Inv, TypeOK
    <2>3. Len(stack) # 0 BY <2>1, <2>2
    <2> QED BY <2>2, <2>3
  <1> QED BY <1>1, <1>2, WorkInPlace DEF Grown, Store!Next

LEMMA StoreFunctions ==
    ASSUME Inv,
           \/ ExitFn
           \/ \E params \in BoundedSeq(Name, MaxParams) : EnterFn(params)
    PROVE  Store!Next
  <1>1. CASE ExitFn
    <2>1. /\ Len(stack) > 1 /\ Len(stack') = Len(stack) - 1
          /\ UNCHANGED <<registry, module, nextLoopId, outcome>>
          /\ Len(stack) \in Nat
      BY <1>1, ExitFnEffect
    <2>2. Len(stack) # 0 /\ Len(stack') # 0 BY <2>1
    <2>3. stack # <<>> /\ stack' # <<>> BY <2>2
    <2> QED BY <2>1, <2>3, StoreWork DEF Working, Grown, Store!Next
  <1>2. ASSUME NEW params \in BoundedSeq(Name, MaxParams), EnterFn(params)
        PROVE  Store!Next
    <2>1. CASE ~IsInjective(params)
      BY <1>2, <2>1, StoreFail DEF EnterFn, Store!Next
    <2>2. CASE IsInjective(params)
      <3>1. /\ stack # <<>> /\ Len(stack') = Len(stack) + 1 /\ Len(stack) \in Nat
            /\ UNCHANGED <<registry, module, nextLoopId, outcome>>
        BY <1>2, <2>2, ParamsType, EnterFnEffect
      <3>2. Len(stack') # 0 BY <3>1
      <3>3. stack' # <<>> BY <3>2
      <3> QED BY <3>1, <3>3, StoreWork DEF Working, Grown, Store!Next
    <2> QED BY <2>1, <2>2
  <1> QED BY <1>1, <1>2

LEMMA StoreForms ==
    ASSUME Inv,
           \/ EnterLet \/ LetBody \/ LetExit \/ RangeBody \/ RangeExit
           \/ EnterState \/ StateCond \/ StateBody \/ StateNext
           \/ StateUpdate \/ StateExit
    PROVE  Store!Next
  <1>1. CASE EnterLet \/ EnterState
    BY <1>1, WorkAtTop
    DEF EnterLet, EnterState, EnterForm, AtExpr, Lowering, session, Grown,
        Store!Next
  <1>2. CASE LetBody \/ RangeBody \/ StateCond
    BY <1>2, WorkAtTop
    DEF LetBody, RangeBody, StateCond, OpenForm, Handling, Lowering, session,
        Grown, Store!Next
  <1>3. CASE StateBody \/ StateNext \/ StateUpdate
    BY <1>3, WorkAtTop
    DEF StateBody, StateNext, StateUpdate, Handling, Lowering, session, Grown,
        Store!Next
  <1>4. CASE LetExit \/ RangeExit \/ StateExit
    BY <1>4, WorkAtTop
    DEF LetExit, RangeExit, StateExit, CloseForm, Handling, Lowering, session,
        Grown, Store!Next
  <1> QED BY <1>1, <1>2, <1>3, <1>4

LEMMA StoreBreak == ASSUME Inv, Break PROVE Store!Next
  <1>1. CASE Top.loops = <<>>
    BY <1>1, StoreFail DEF Break, Store!Next
  <1>2. CASE Top.loops # <<>>
    BY <1>2, WorkAtTop DEF Break, AtExpr, Lowering, session, Grown, Store!Next
  <1> QED BY <1>1, <1>2

-----------------------------------------------------------------------------
(* The end of a form that was lowered *)

LEMMA ShownOfConcat ==
    ASSUME NEW S, NEW m \in Seq(S), NEW n \in Seq(S)
    PROVE  /\ Len(Shown(m)) = Len(m)
           /\ Len(Shown(m \o n)) = Len(m) + Len(n)
           /\ \A i \in 1..Len(m) : Shown(m \o n)[i] = Shown(m)[i]
           /\ SubSeq(Shown(m \o n), 1, Len(m)) = Shown(m)
  <1> DEFINE both == m \o n
             V == [id : {x.id : x \in S}, loops : {LoopsIn(x.code) : x \in S}]
             of(f) == [id |-> f.id, loops |-> LoopsIn(f.code)]
  <1>1. both \in Seq(S) /\ Len(both) = Len(m) + Len(n)
    OBVIOUS
  <1>2. \A i \in 1..Len(m) : i \in DOMAIN both /\ both[i] = m[i]
    OBVIOUS
  <1>3. \A f \in S : of(f) \in V OBVIOUS
  <1>4. /\ Shown(m) = [i \in 1..Len(m) |-> of(m[i])]
        /\ Shown(both) = [i \in 1..Len(both) |-> of(both[i])]
    BY <1>1 DEF Shown
  <1> HIDE DEF both, V, of
  <1>5. Shown(m) \in Seq(V) /\ Shown(both) \in Seq(V) BY <1>1, <1>3, <1>4
  <1>6. Len(Shown(m)) = Len(m) /\ Len(Shown(both)) = Len(m) + Len(n)
    BY <1>1, <1>4, <1>5
  <1>7. \A i \in 1..Len(m) : Shown(both)[i] = Shown(m)[i]
    BY <1>1, <1>2, <1>4
  <1>8. SubSeq(Shown(both), 1, Len(m)) = Shown(m)
    BY <1>5, <1>6, <1>7
  <1> QED BY <1>6, <1>7, <1>8 DEF both

\* The functions of the form are complete, are where their ids say, and their
\* loops are new.
LEMMA StoreFinish == ASSUME Inv, LoopInv, VerifierInv, Finish PROVE Store!Next
  <1> DEFINE old == Shown(module)
             new == Shown(module \o functions)
             fresh == nextLoopId..(nextLoop - 1)
  <1>1. /\ Lowering /\ Len(stack) = 1 /\ registry' = registry
        /\ nextLoopId' = nextLoop /\ DropContext
    BY DEF Finish
  <1>2. module' = module \o functions /\ outcome' = "committed"
    BY <1>1, FormIsVerified DEF Finish
  <1>3. stack # <<>> /\ stack' = <<>> BY <1>1 DEF Lowering, DropContext
  <1>4. /\ module \in Seq(Function) /\ functions \in Seq(Function \cup {Pending})
        /\ module \in Seq(Function \cup {Pending})
        /\ nextLoopId \in Nat /\ nextLoop \in Nat /\ nextLoopId <= nextLoop
    BY DEF Inv, TypeOK, LoopInv
  <1>5. /\ Len(old) = Len(module)
        /\ Len(new) = Len(module) + Len(functions)
        /\ SubSeq(new, 1, Len(module)) = old
    BY <1>4, ShownOfConcat
  <1>6. \A k \in DOMAIN functions :
           /\ functions[k] # Pending
           /\ functions[k].id = Len(module) + k - 1
    <2>1. {k \in DOMAIN functions : functions[k] = Pending}
            = {stack[d].id - Len(module) + 1 : d \in 2..Len(stack)}
      BY DEF Inv, FunctionTable
    <2>2. 2..Len(stack) = {} BY <1>1
    <2> QED BY <2>1, <2>2 DEF Inv, FunctionTable
  <1>7. \A i \in (Len(old) + 1)..Len(new) :
           /\ i - Len(module) \in DOMAIN functions
           /\ new[i].id = functions[i - Len(module)].id
           /\ new[i].loops = KeptLoops(functions[i - Len(module)])
    <2> SUFFICES ASSUME NEW i \in (Len(module) + 1)..(Len(module) + Len(functions))
                 PROVE  /\ i - Len(module) \in DOMAIN functions
                        /\ new[i].id = functions[i - Len(module)].id
                        /\ new[i].loops = KeptLoops(functions[i - Len(module)])
      BY <1>5
    <2>1. /\ i - Len(module) \in DOMAIN functions
          /\ i \in DOMAIN (module \o functions)
          /\ (module \o functions)[i] = functions[i - Len(module)]
      BY <1>4
    <2>2. new[i] = [id |-> functions[i - Len(module)].id,
                    loops |-> LoopsIn(functions[i - Len(module)].code)]
      BY <2>1 DEF Shown
    <2> QED BY <1>6, <2>1, <2>2 DEF KeptLoops
  <1>8. /\ \A k \in DOMAIN functions : KeptLoops(functions[k]) \subseteq fresh
        /\ \A k, l \in DOMAIN functions :
              k # l => KeptLoops(functions[k]) \cap KeptLoops(functions[l]) = {}
    BY DEF LoopInv
  <1> HIDE DEF old, new, fresh
  <1>9. \A i \in (Len(old) + 1)..Len(new) :
           /\ new[i].id = i - 1
           /\ new[i].loops \subseteq fresh
           /\ \A j \in (Len(old) + 1)..(i - 1) : new[i].loops \cap new[j].loops = {}
    <2> SUFFICES ASSUME NEW i \in (Len(old) + 1)..Len(new)
                 PROVE  /\ new[i].id = i - 1
                        /\ new[i].loops \subseteq fresh
                        /\ \A j \in (Len(old) + 1)..(i - 1) :
                              new[i].loops \cap new[j].loops = {}
      OBVIOUS
    <2>1. Len(module) \in Nat /\ Len(functions) \in Nat BY <1>4
    <2>2. new[i].id = i - 1
      <3>1. /\ i - Len(module) \in DOMAIN functions
            /\ new[i].id = functions[i - Len(module)].id
        BY <1>7
      <3>2. new[i].id = Len(module) + (i - Len(module)) - 1
        BY <1>6, <3>1
      <3>3. i \in Int BY <1>5, <2>1
      <3> QED BY <2>1, <3>2, <3>3
    <2>3. new[i].loops \subseteq fresh BY <1>7, <1>8
    <2>4. ASSUME NEW j \in (Len(old) + 1)..(i - 1)
          PROVE  new[i].loops \cap new[j].loops = {}
      <3>1. /\ j \in (Len(old) + 1)..Len(new)
            /\ i - Len(module) # j - Len(module)
        BY <1>5, <2>1
      <3> QED BY <1>7, <1>8, <3>1
    <2> QED BY <2>2, <2>3, <2>4
  <1>10. Store!IsPrefix(old, new)
    <2>1. Len(old) <= Len(new) BY <1>4, <1>5
    <2>2. SubSeq(old, 1, Len(old)) = old
      <3>1. old = [i \in 1..Len(module) |-> old[i]] /\ DOMAIN old = 1..Len(module)
        BY <1>4 DEF old, Shown
      <3>2. \A i \in 1..Len(module) : old[i] \in Range(old)
        BY <3>1 DEF Range
      <3>3. old \in Seq(Range(old))
        <4>1. Len(module) \in Nat BY <1>4
        <4> QED BY <3>1, <3>2, <4>1
      <3> QED BY <3>3
    <2>3. SubSeq(new, 1, Len(old)) = old BY <1>5
    <2> QED BY <2>1, <2>2, <2>3 DEF Store!IsPrefix
  <1> DEFINE committed ==
               [i \in DOMAIN module |->
                   [id |-> module[i].id, loops |-> LoopsIn(module[i].code)]]
  <1>11. old = committed /\ new = committed'
    BY <1>2 DEF old, new, Shown
  <1>12. nextLoopId' >= nextLoopId /\ fresh = nextLoopId..(nextLoopId' - 1)
    BY <1>1, <1>4 DEF fresh
  <1> HIDE DEF committed
  <1>13. /\ Store!IsPrefix(committed, committed')
         /\ \A i \in (Len(committed) + 1)..Len(committed') :
               /\ committed'[i].id = i - 1
               /\ committed'[i].loops \subseteq nextLoopId..(nextLoopId' - 1)
               /\ \A j \in (Len(committed) + 1)..(i - 1) :
                     committed'[i].loops \cap committed'[j].loops = {}
    BY <1>9, <1>10, <1>11, <1>12
  <1>14. Store!Commit
    BY <1>1, <1>2, <1>3, <1>12, <1>13 DEF Store!Commit, committed
  <1> QED BY <1>14 DEF Store!Next

LEMMA StoreStep ==
    ASSUME Inv, LoopInv, VerifierInv, Next
    PROVE  Store!Next
  <1>1. CASE BeginExpr \/ \E n \in Interned : BeginDef(n) BY <1>1, StoreBegins
  <1>2. CASE \E n \in Name : \/ ResolveLocal(n) \/ ResolveGlobal(n)
                             \/ BeginCapture(n) \/ EnterRange(n)
                             \/ NextBinding(n)
    BY <1>2, StoreNames
  <1>3. CASE CaptureHop BY <1>3, StoreCaptureHop
  <1>4. CASE \/ ExitFn
             \/ \E params \in BoundedSeq(Name, MaxParams) : EnterFn(params)
    BY <1>4, StoreFunctions
  <1>5. CASE \/ EnterLet \/ LetBody \/ LetExit \/ RangeBody \/ RangeExit
             \/ EnterState \/ StateCond \/ StateBody \/ StateNext
             \/ StateUpdate \/ StateExit
    BY <1>5, StoreForms
  <1>6. CASE Break BY <1>6, StoreBreak
  <1>7. CASE Malformed BY <1>7, StoreFail DEF Malformed, Store!Next
  <1>8. CASE Finish BY <1>8, StoreFinish
  <1> QED BY <1>1, <1>2, <1>3, <1>4, <1>5, <1>6, <1>7, <1>8 DEF Next

\* A session keeps what FormStore promises its hosts: names and functions stay
\* where their ids say, and a form is committed whole or leaves nothing.
THEOREM SessionStoresForms == Spec => Stored
  <1>1. Init => Store!Init BY StoreInit
  <1>2. Inv /\ LoopInv /\ VerifierInv /\ [Next]_vars => [Store!Next]_(Store!store)
    <2>1. UNCHANGED vars => UNCHANGED Store!store
      BY DEF vars, session, context, Store!store
    <2> QED BY <2>1, StoreStep
  <1> QED
    BY <1>1, <1>2, Invariance, LoopInvariance, VerifierInvariance, PTL
    DEF Spec, Stored, Store!Spec
=============================================================================
