---------------------------- MODULE HardwareExpr ----------------------------
(***************************************************************************)
(* Expressions of the SystemVerilog backend (hardware.rs): the lowering of *)
(* a core expression to a typed HwExpr, where an integer without a width   *)
(* takes its type from its surroundings, and the verifier's own type       *)
(* check.                                                                  *)
(*                                                                         *)
(* A core expression is a symbol, an integer, a datum or the application   *)
(* of an operator; a `case` also has arms.  A HwExpr has its kind and      *)
(* type, `args` with all subexpressions, and what else its kind needs.     *)
(* Both are trees, up to some depth.  What recurses over trees is a step,  *)
(* which has the results for the subtrees from a function, and the         *)
(* function that the step defines.                                         *)
(***************************************************************************)
EXTENDS Integers, SequencesExt, FiniteSetsExt

CONSTANTS
    WordBits, \* bits of an integer in the source, i64
    MaxWidth, \* u32::MAX
    Depth     \* of expressions and statements, at most

ASSUME WidthsAssumption ==
    /\ WordBits \in Nat /\ WordBits >= 2
    /\ MaxWidth \in Nat /\ MaxWidth >= WordBits
    /\ Depth \in Nat

Error(kind) == [error |-> kind]
IsError(r) == "error" \in DOMAIN r
FirstIndex(seq, Test(_)) ==
    CHOOSE i \in DOMAIN seq : Test(seq[i]) /\ \A j \in 1..(i - 1) : ~Test(seq[j])
AnyError(rs) == \E i \in DOMAIN rs : IsError(rs[i])
FirstError(rs) == rs[FirstIndex(rs, IsError)]

\* The results of checks, "ok" or the kind of an error, in their order.
FirstFailure(checks) ==
    LET Fails(c) == c # "ok" IN
    IF \E i \in DOMAIN checks : Fails(checks[i]) THEN checks[FirstIndex(checks, Fails)]
    ELSE "ok"
Check(test, kind) == IF test THEN "ok" ELSE kind

-----------------------------------------------------------------------------
(* Types *)

Unsigned(width) == [width |-> width, signed |-> FALSE]
Signed(width) == [width |-> width, signed |-> TRUE]
Bit == Unsigned(1)
HwTypes == [width : 1..MaxWidth, signed : BOOLEAN]
Untyped == Unsigned(0)
\* What may be expected of an expression.
Expected == HwTypes \cup {Untyped}

\* The properties of a `meta`.
Properties ==
    {<<>>} \cup [width : Int] \cup [signed : STRING] \cup [width : Int, signed : STRING]

\* Mutant of TypeFrom: a width of zero is let through.
TypeFromZero(props) ==
    IF "width" \notin DOMAIN props THEN Error("MissingWidth")
    ELSE IF props.width \notin 0..MaxWidth THEN Error("InvalidWidth")
    ELSE [width |-> props.width, signed |-> "signed" \in DOMAIN props]

\* type_from_properties: `width` and `signed` of a `meta`, if they are there.
TypeFrom(props) ==
    IF "width" \notin DOMAIN props THEN Error("MissingWidth")
    ELSE IF props.width \notin 1..MaxWidth THEN Error("InvalidWidth")
    ELSE IF "signed" \notin DOMAIN props THEN Unsigned(props.width)
    ELSE IF props.signed \notin {"true", "false"} THEN Error("InvalidSigned")
    ELSE [width |-> props.width, signed |-> props.signed = "true"]

\* 1 << n
Power[n \in Nat] == IF n = 0 THEN 1 ELSE 2 * Power[n - 1]

\* The integers of a source: i64.
Words == -Power[WordBits - 1]..(Power[WordBits - 1] - 1)

InRange(value, ty) ==
    IF ty.signed THEN value \in -Power[ty.width - 1]..(Power[ty.width - 1] - 1)
                 ELSE value \in 0..(Power[ty.width] - 1)

\* Mutant of Fits: the shortcut begins a width too early.
FitsWide(value, ty) == ty.width >= WordBits - 2 \/ InRange(value, ty)

\* fits: the bound of a wide type would not fit the word itself.
Fits(value, ty) == ty.width >= WordBits - 1 \/ InRange(value, ty)

-----------------------------------------------------------------------------
(* Core expressions *)

Sym(name) == [form |-> "symbol", name |-> name]
Num(value, props) == [form |-> "int", value |-> value, props |-> props]
Quoted == [form |-> "datum"]
App(head, args) == [form |-> "list", head |-> head, args |-> args]
Case(selector, arms) == [form |-> "case", args |-> <<selector>>, arms |-> arms]
Arm(key, value) == [key |-> key, value |-> value]
Else == Sym("else")
IsElse(key) == key = Else

Comparisons == {"=", "!=", "<", "<=", ">", ">="}
Operators == {"+", "-", "bit-and", "bit-or", "bit-xor"}

\* The expressions with these parts, and those of any parts.
CoreNode(parts) ==
    [form : {"symbol"}, name : STRING]
    \cup [form : {"int"}, value : Words, props : Properties]
    \cup [form : {"datum"}]
    \cup [form : {"list"}, head : STRING, args : Seq(parts)]
    \cup [form : {"case"}, args : [1..1 -> parts], arms : Seq([key : parts, value : parts])]
CoreExpr ==
    LET trees[n \in 0..Depth] == IF n = 0 THEN {} ELSE CoreNode(trees[n - 1])
    IN trees[Depth]

\* The names an expression is written with.
NamesStep(e, names) ==
    CASE e.form = "symbol" -> {e.name}
      [] e.form \in {"int", "datum"} -> {}
      [] e.form = "list" -> UNION {names[e.args[i]] : i \in DOMAIN e.args}
      [] e.form = "case" ->
            names[e.args[1]] \cup
            UNION {(names[e.arms[i].key] \ {"else"}) \cup names[e.arms[i].value] :
                      i \in DOMAIN e.arms}
NamesIn(e) ==
    LET names[x \in CoreExpr] == NamesStep(x, names)
    IN names[e]

-----------------------------------------------------------------------------
(* Lowered expressions: HwExpr *)

\* The key of an arm, a literal or a member of an enum.
Key == [member : {<<>>} \cup (Nat \X Nat), value : Words, ty : HwTypes]

HwNode(parts) ==
    [kind : {"reference"}, id : Nat, ty : HwTypes, args : {<<>>}]
    \cup [kind : {"member"}, member : Nat \X Nat, ty : HwTypes, args : {<<>>}]
    \cup [kind : {"constant"}, value : Words, ty : HwTypes, args : {<<>>}]
    \cup [kind : {"unary", "binary", "compare", "mux", "concat"},
          ty : HwTypes, args : Seq(parts)]
    \cup [kind : {"resize"}, ty : HwTypes, args : Seq(parts), width : Nat]
    \cup [kind : {"bit"}, ty : HwTypes, args : Seq(parts), index : Nat]
    \cup [kind : {"slice"}, ty : HwTypes, args : Seq(parts), high : Nat, low : Nat]
    \cup [kind : {"case"}, ty : HwTypes, args : Seq(parts), keys : Seq(Key)]
HwExpr ==
    LET trees[n \in 0..Depth] == IF n = 0 THEN {} ELSE HwNode(trees[n - 1])
    IN trees[Depth]

\* An expression and everything in it.
Subexpressions(h) ==
    LET all[x \in HwExpr] == {x} \cup UNION {all[x.args[i]] : i \in DOMAIN x.args}
    IN all[h]
OfKind(h, kind) == {x \in Subexpressions(h) : x.kind = kind}
KeysIn(h) == UNION {Range(x.keys) : x \in OfKind(h, "case")}

-----------------------------------------------------------------------------
(* lower_core_with_expected and lower_application.  `env` has the `signals` *)
(* and the enum `members` in sight, `expected` is a type or Untyped, and    *)
(* `lower` has what each part is lowered to where a type is expected of it. *)

\* Mutant of RequireType: what is expected is not compared.
RequireTypeNever(r, expected) == r

\* require_type, for a result that may be an error.
RequireType(r, expected) ==
    IF ~IsError(r) /\ expected # Untyped /\ r.ty # expected THEN Error("TypeMismatch")
    ELSE r

LowerSymbol(e, env) ==
    IF e.name \in DOMAIN env.signals
    THEN [kind |-> "reference", id |-> env.signals[e.name].id,
          ty |-> env.signals[e.name].ty, args |-> <<>>]
    ELSE IF e.name \in DOMAIN env.members
    THEN [kind |-> "member", member |-> env.members[e.name].id,
          ty |-> env.members[e.name].ty, args |-> <<>>]
    ELSE Error("UnknownSignal")

\* A `meta` that gives no type, be it a wrong one, leaves the expected one.
LowerInt(e, expected) ==
    LET written == TypeFrom(e.props)
        ty == IF IsError(written) THEN expected ELSE written
    IN IF ty = Untyped THEN Error("UntypedConstant")
       ELSE IF ~Fits(e.value, ty) THEN Error("ConstantOutOfRange")
       ELSE [kind |-> "constant", value |-> e.value, ty |-> ty, args |-> <<>>]

\* The number of operands, or the error of a form with another.
ShapeError(e) ==
    LET n == Len(e.args) IN
    CASE e.head = "if" -> Check(n = 3, "UnsupportedExpression")
      [] e.head = "bit" -> Check(n = 2, "InvalidBitSelect")
      [] e.head = "slice" -> Check(n = 3, "InvalidSlice")
      [] e.head = "concat" -> Check(n >= 2, "InvalidConcat")
      [] e.head = "resize" -> Check(n = 2, "InvalidResize")
      [] e.head = "bit-not" -> Check(n = 1, "UnsupportedExpression")
      [] OTHER -> Check(n = 2, "UnsupportedExpression")

\* hardware_index
IsIndex(e) == e.form = "int" /\ e.value \in 0..MaxWidth

\* What a key or an arm that is not one is called, in `case` and in `case-do`.
MalformedKey(construct) ==
    IF construct = "case" THEN "UnsupportedExpression" ELSE "InvalidModule"

\* A literal key; case-do reads it before expansion, where a `meta` is a list.
IsLiteralKey(key, construct) ==
    key.form = "int" /\ (construct = "case" \/ key.props = <<>>)

\* The key of a `case` or `case-do` arm, for a selector of type `ty`.
LowerKey(key, ty, env, construct) ==
    CASE IsLiteralKey(key, construct) /\ Fits(key.value, ty) ->
            [member |-> <<>>, value |-> key.value, ty |-> ty]
      [] key.form = "symbol" ->
            IF key.name \notin DOMAIN env.members THEN Error("UnknownSignal")
            ELSE IF env.members[key.name].ty # ty THEN Error("TypeMismatch")
            ELSE [member |-> env.members[key.name].id,
                  value |-> env.members[key.name].value, ty |-> ty]
      [] OTHER -> Error(MalformedKey(construct))

\* The keys of the arms but `else`, the last; a value may be used once.
LowerKeys(arms, ty, env, construct) ==
    LET keyOf(i) == LowerKey(arms[i].key, ty, env, construct)
        used(i) == \E j \in 1..(i - 1) :
                      ~IsElse(arms[j].key) /\ ~IsError(keyOf(j)) /\ keyOf(j).value = keyOf(i).value
    IN [i \in DOMAIN arms |->
           IF IsElse(arms[i].key)
           THEN IF i = Len(arms) THEN [default |-> TRUE] ELSE Error(MalformedKey(construct))
           ELSE IF ~IsError(keyOf(i)) /\ used(i) THEN Error("DuplicateAssignment")
           ELSE keyOf(i)]

SumOfWidths(args) ==
    LET sum[n \in 0..Len(args)] == IF n = 0 THEN 0 ELSE sum[n - 1] + args[n].ty.width
    IN sum[Len(args)]

\* What an operator makes of its lowered operands, `e` for what it is written with.
Operation(e, args) ==
    LET v == args[1]
        index(i) == e.args[i].value
        result(kind, ty) == [kind |-> kind, ty |-> ty, args |-> args]
    IN
    CASE e.head = "if" -> result("mux", args[2].ty)
      [] e.head = "bit" ->
            IF ~IsIndex(e.args[2]) THEN Error("InvalidBitSelect")
            ELSE IF index(2) >= v.ty.width THEN Error("IndexOutOfRange")
            ELSE [kind |-> "bit", ty |-> Bit, args |-> args, index |-> index(2)]
      [] e.head = "slice" ->
            IF ~IsIndex(e.args[2]) \/ ~IsIndex(e.args[3]) \/ index(2) < index(3)
            THEN Error("InvalidSlice")
            ELSE IF index(2) >= v.ty.width THEN Error("IndexOutOfRange")
            ELSE [kind |-> "slice", ty |-> Unsigned(index(2) - index(3) + 1),
                  args |-> args, high |-> index(2), low |-> index(3)]
      [] e.head = "concat" ->
            IF SumOfWidths(args) > MaxWidth THEN Error("InvalidWidth")
            ELSE result("concat", Unsigned(SumOfWidths(args)))
      [] e.head = "resize" ->
            IF ~IsIndex(e.args[2]) THEN Error("InvalidResize")
            ELSE IF index(2) = 0 THEN Error("InvalidWidth")
            ELSE [kind |-> "resize", ty |-> [width |-> index(2), signed |-> v.ty.signed],
                  args |-> args, width |-> index(2)]
      [] e.head = "bit-not" -> result("unary", v.ty)
      [] e.head \in Comparisons ->
            IF v.ty.signed THEN Error("UnsupportedExpression") ELSE result("compare", Bit)
      [] e.head \in Operators -> result("binary", v.ty)
      [] OTHER -> Error("UnsupportedExpression")

\* Two operands of one type: the second takes that of the first, or the first, if
\* it has none, that of the second.
LowerPair(a, b, eitherWay, lower) ==
    LET first == lower[a][Untyped]
        second == lower[b][Untyped]
    IN IF ~IsError(first) THEN <<first, lower[b][first.ty]>>
       ELSE IF ~eitherWay \/ first # Error("UntypedConstant") THEN <<first>>
       ELSE IF IsError(second) THEN <<second>>
       ELSE <<lower[a][second.ty], second>>

LowerCondition(e, lower) ==
    LET condition == lower[e][Untyped] IN
    IF ~IsError(condition) /\ condition.ty.width # 1 THEN Error("InvalidCondition")
    ELSE condition

LowerArgs(e, expected, lower) ==
    CASE e.head = "if" ->
            <<LowerCondition(e.args[1], lower)>> \o
            (IF expected = Untyped THEN LowerPair(e.args[2], e.args[3], TRUE, lower)
             ELSE [i \in 1..2 |-> lower[e.args[i + 1]][expected]])
      [] e.head \in {"bit", "slice", "resize"} -> <<lower[e.args[1]][Untyped]>>
      [] e.head = "concat" -> [i \in DOMAIN e.args |-> lower[e.args[i]][Untyped]]
      [] e.head = "bit-not" -> <<lower[e.args[1]][expected]>>
      [] OTHER -> LowerPair(e.args[1], e.args[2], e.head \in Comparisons, lower)

LowerList(e, expected, lower) ==
    IF ShapeError(e) # "ok" THEN Error(ShapeError(e))
    ELSE LET args == LowerArgs(e, expected, lower) IN
         IF AnyError(args) THEN FirstError(args) ELSE Operation(e, args)

\* A `case` ends in `else` and has an arm before; the first arm gives the type.
LowerCase(e, env, expected, lower) ==
    LET n == Len(e.arms)
        selector == lower[e.args[1]][Untyped]
        keys == LowerKeys(e.arms, selector.ty, env, "case")
        first == lower[e.arms[1].value][Untyped]
        ty == IF expected # Untyped THEN expected ELSE first.ty
        values == [i \in DOMAIN e.arms |-> lower[e.arms[i].value][ty]]
    IN IF n < 2 THEN Error("UnsupportedExpression")
       ELSE IF IsError(selector) THEN selector
       ELSE IF AnyError(keys) THEN FirstError(keys)
       ELSE IF ~IsElse(e.arms[n].key) THEN Error("UnsupportedExpression")
       ELSE IF expected = Untyped /\ IsError(first) THEN first
       ELSE IF AnyError(values) THEN FirstError(values)
       ELSE [kind |-> "case", ty |-> ty, args |-> <<selector>> \o values,
             keys |-> Front(keys)]

LowerStep(e, env, expected, lower) ==
    CASE e.form = "symbol" -> RequireType(LowerSymbol(e, env), expected)
      [] e.form = "int" -> RequireType(LowerInt(e, expected), expected)
      [] e.form = "datum" -> Error("DatumNotHardwareValue")
      [] e.form = "list" -> RequireType(LowerList(e, expected, lower), expected)
      [] e.form = "case" -> LowerCase(e, env, expected, lower)

LowerCore(e, env, expected) ==
    LET lower[x \in CoreExpr] == [ty \in Expected |-> LowerStep(x, env, ty, lower)]
    IN lower[e][expected]

-----------------------------------------------------------------------------
(* verify_hardware_expr, on the tables of the finished module *)

\* case_key_type_value
KeyError(key, m) ==
    IF key.member = <<>> THEN Check(Fits(key.value, key.ty), "ConstantOutOfRange")
    ELSE Check(/\ key.member[1] \in DOMAIN m.enums
               /\ key.member[2] \in DOMAIN m.enums[key.member[1]].values, "InvalidModule")

KeyType(key, m) == IF key.member = <<>> THEN key.ty ELSE m.enums[key.member[1]].ty
KeyValue(key, m) ==
    IF key.member = <<>> THEN key.value ELSE m.enums[key.member[1]].values[key.member[2]]

\* The keys are of the selector's type and distinct.
VerifyKeys(keys, ty, m) ==
    FirstFailure([i \in DOMAIN keys |-> KeyError(keys[i], m)]
                 \o <<Check(/\ \A i \in DOMAIN keys : KeyType(keys[i], m) = ty
                            /\ \A i, j \in DOMAIN keys :
                                  KeyValue(keys[i], m) = KeyValue(keys[j], m) => i = j,
                            "TypeMismatch")>>)

\* Whether an expression has the type its operands give it.
WellTyped(h, m) ==
    LET a(i) == h.args[i].ty IN
    CASE h.kind = "reference" -> h.id \in DOMAIN m.type /\ m.type[h.id] = h.ty
      [] h.kind = "member" ->
            /\ h.member[1] \in DOMAIN m.enums
            /\ h.member[2] \in DOMAIN m.enums[h.member[1]].values
            /\ m.enums[h.member[1]].ty = h.ty
      [] h.kind = "constant" -> TRUE
      [] h.kind = "unary" -> a(1) = h.ty
      [] h.kind = "binary" -> a(1) = a(2) /\ a(1) = h.ty
      [] h.kind = "compare" -> ~a(1).signed /\ a(1) = a(2) /\ h.ty = Bit
      [] h.kind = "mux" -> a(1).width = 1 /\ a(2) = a(3) /\ h.ty = a(2)
      [] h.kind = "case" ->
            Len(h.args) > 2 /\ \A i \in 2..Len(h.args) : a(i) = h.ty
      [] h.kind = "bit" -> h.index < a(1).width /\ h.ty = Bit
      [] h.kind = "slice" ->
            /\ h.high >= h.low /\ h.high < a(1).width
            /\ h.ty = Unsigned(h.high - h.low + 1)
      [] h.kind = "concat" -> Len(h.args) >= 2 /\ h.ty = Unsigned(SumOfWidths(h.args))
      [] h.kind = "resize" ->
            h.width > 0 /\ h.ty.width = h.width /\ h.ty.signed = a(1).signed

VerifyStep(h, m, verify) ==
    FirstFailure(
        <<Check(h.ty.width > 0, "InvalidWidth")>>
        \o [i \in DOMAIN h.args |-> verify[h.args[i]]]
        \o <<Check(h.kind = "constant" => Fits(h.value, h.ty), "ConstantOutOfRange"),
             Check(WellTyped(h, m), "TypeMismatch"),
             IF h.kind = "case" THEN VerifyKeys(h.keys, h.args[1].ty, m) ELSE "ok">>)

VerifyExpr(h, m) ==
    LET verify[x \in HwExpr] == VerifyStep(x, m, verify)
    IN verify[h]

\* collect_references
References(h) == {x.id : x \in OfKind(h, "reference")}

\* The enum members an expression or its keys are emitted with.
MembersIn(h) ==
    {x.member : x \in OfKind(h, "member")} \cup ({key.member : key \in KeysIn(h)} \ {<<>>})

\* The literals of an expression and its keys, each with its type.
Literals(h) ==
    {<<x.value, x.ty>> : x \in OfKind(h, "constant")}
      \cup {<<key.value, key.ty>> : key \in KeysIn(h)}
=============================================================================
