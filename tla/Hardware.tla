------------------------------ MODULE Hardware ------------------------------
(***************************************************************************)
(* The SystemVerilog backend (hardware.rs): modules are lowered one form   *)
(* after another, the whole design is verified, and text is emitted for    *)
(* it.  lower_module sorts the forms by what they are and takes each sort  *)
(* in turn; `phase` is the sort it has come to.  Within a sort any form    *)
(* that is offered may come next, so the designs are those of all sources  *)
(* made of these forms.                                                    *)
(***************************************************************************)
EXTENDS SignalTable, HardwareExpr

CONSTANTS
    ModuleNames, \* names of modules in the source
    Identifiers, \* the names that are valid_identifier
    Offers       \* the forms to choose from, one record for each kind of source

VARIABLES
    offered,  \* the kind of source this is
    phase,    \* how far lower_hardware_design and emit_systemverilog are
    portsDue, \* definitions of the `ports` form still to lower
    source,   \* name of this module and forms of each sort taken so far; in the code, all
    clocking, \* clock, edge, next, enable and reset of each of `registers`
    enums,    \* HwModule.enums
    members,  \* EnumMemberLookup
    assigns,  \* HwModule.assignments
    blocks,   \* HwModule.clocked_blocks
    design,   \* HwDesign.modules
    outcome,  \* the error, or "ok"
    text      \* what is emitted, as the names it declares, drives and reads

\* The names and the number of modules, the ports to choose from, and the forms to
\* choose from for each place in a module after its name.
offer == Offers[offered]

tables == <<table, clocking, enums, members, assigns, blocks>>
vars == <<tables, offered, phase, portsDue, source, design, outcome, text>>

-----------------------------------------------------------------------------
(* Forms of a module *)

PortDef(direction, name, props) ==
    [sort |-> "port", direction |-> direction, name |-> name, props |-> props]
EnumDef(name, width, names, values) ==
    [sort |-> "enum", name |-> name, width |-> width, names |-> names, values |-> values]
\* (registers (register name type attributes...))
RegisterDef(name, props, attributes) ==
    [sort |-> "register", name |-> name, props |-> props, attributes |-> attributes]
\* (register name attributes...), of an output port
OutputRegister(name, attributes) ==
    [sort |-> "direct", name |-> name, attributes |-> attributes]
\* (register declaration), to be driven by a clocked block
Declaration(name, props) == [sort |-> "declaration", name |-> name, props |-> props]
Clocked(clock, edge, body) ==
    [sort |-> "clocked", clock |-> clock, edge |-> edge,
     body |-> [stmt |-> "do", body |-> body]]
Assign(dest, value) == [sort |-> "assign", dest |-> dest, value |-> value]

ClockAttr(signal, edge) == [attr |-> "clock", signal |-> signal, edge |-> edge]
NextAttr(value) == [attr |-> "next", value |-> value]
EnableAttr(value) == [attr |-> "enable", value |-> value]
ResetAttr(signal, level, value) ==
    [attr |-> "reset", signal |-> signal, level |-> level, value |-> value]

Set(target, value) == [stmt |-> "set", target |-> target, value |-> value]
Do(body) == [stmt |-> "do", body |-> body]
\* One branch or two.
When(cond, branches) == [stmt |-> "if", cond |-> cond, branches |-> branches]
CaseDo(selector, arms) == [stmt |-> "case", cond |-> selector, arms |-> arms]

\* Statements, as trees like expressions; and all the forms there are.
StmtNode(parts) ==
    [stmt : {"set"}, target : Names, value : CoreExpr]
    \cup [stmt : {"do"}, body : Seq(parts)]
    \cup [stmt : {"if"}, cond : CoreExpr, branches : [1..1 -> parts] \cup [1..2 -> parts]]
    \cup [stmt : {"case"}, cond : CoreExpr, arms : Seq([key : CoreExpr, value : parts])]
Stmt ==
    LET trees[n \in 0..Depth] == IF n = 0 THEN {} ELSE StmtNode(trees[n - 1])
    IN trees[Depth]
\* The statements of a clocked block.
Body == {s \in Stmt : s.stmt = "do" /\ s.body # <<>>}

Edge == {"rising", "falling"}
Attribute ==
    [attr : {"clock"}, signal : Names, edge : Edge]
    \cup [attr : {"next", "enable"}, value : CoreExpr]
    \cup [attr : {"reset"}, signal : Names, level : {"high", "low"}, value : CoreExpr]

PortForm == [sort : {"port"}, direction : {Input, Output}, name : Names, props : Properties]
EnumForm ==
    {f \in [sort : {"enum"}, name : Names, width : Int, names : Seq(Names), values : Seq(Words)] :
        Len(f.names) = Len(f.values)}
Form ==
    EnumForm
    \cup [sort : {"register"}, name : Names, props : Properties, attributes : Seq(Attribute)]
    \cup [sort : {"direct"}, name : Names, attributes : Seq(Attribute)]
    \cup [sort : {"declaration"}, name : Names, props : Properties]
    \cup [sort : {"clocked"}, clock : Names, edge : Edge, body : Body]
    \cup [sort : {"assign"}, dest : Names, value : CoreExpr]

ASSUME NamesAssumption ==
    Types = HwTypes /\ Identifiers \subseteq Names \cup ModuleNames
ASSUME OffersAssumption ==
    \A k \in DOMAIN Offers :
        /\ Offers[k].length \in Nat
        /\ Offers[k].modules \subseteq ModuleNames
        /\ Offers[k].ports \subseteq Seq(PortForm)
        /\ \A i \in DOMAIN Offers[k].forms : Offers[k].forms[i] \subseteq Form

\* A module of which no form but its name was taken; `place` is that of the next.
FormSorts == {"enum", "register", "direct", "declaration", "clocked", "assign"}
NewSource(name) == [name |-> name, place |-> 1, forms |-> [s \in FormSorts |-> <<>>]]

\* The sorts in the order in which they are lowered.
Sorts == <<"port", "enum", "register", "attributes", "direct", "declaration",
           "clocked", "assign">>
Rank(sort) == CHOOSE i \in DOMAIN Sorts : Sorts[i] = sort
Lowering == phase \in Range(Sorts)

\* The next form is of this sort: none of a later sort was lowered, and the
\* ports, and the attributes of `registers`, are complete.
Reached(sort) ==
    /\ Lowering
    /\ Rank(phase) <= Rank(sort)
    /\ sort # "port" => portsDue = <<>>
    /\ Rank(sort) > Rank("attributes") => Len(clocking) = Len(registers)
Takes(form) ==
    /\ Reached(form.sort)
    /\ source' = [source EXCEPT !.place = @ + 1, !.forms[form.sort] = Append(@, form)]

Env == [signals |-> lookup, members |-> members]
Finished == UNCHANGED <<offered, portsDue, design, outcome, text>>

Fail(kind) ==
    /\ phase' = "failed"
    /\ outcome' = kind
    /\ UNCHANGED <<tables, offered, portsDue, design, text>>

-----------------------------------------------------------------------------
(* lower_module: ports and enums *)

BeginModule(name) ==
    /\ phase = "between"
    /\ Len(design) < offer.length
    /\ IF name \in Identifiers
       THEN /\ phase' = "port"
            /\ source' = NewSource(name)
            /\ portsDue' \in offer.ports
            /\ UNCHANGED <<tables, offered, design, outcome, text>>
       ELSE Fail("InvalidIdentifier") /\ UNCHANGED source

LowerPort ==
    /\ Reached("port")
    /\ portsDue # <<>>
    /\ LET p == Head(portsDue)
           ty == TypeFrom(p.props)
       IN IF p.name \notin Identifiers THEN Fail("InvalidIdentifier")
          ELSE IF PortTaken(p.name) THEN Fail("DuplicatePort")
          ELSE IF IsError(ty) THEN Fail(ty.error)
          ELSE /\ AddPort(p.direction, p.name, ty)
               /\ portsDue' = Tail(portsDue)
               /\ UNCHANGED <<phase, clocking, enums, members, assigns, blocks, offered,
                              design, outcome, text>>
    /\ UNCHANGED source

\* A member's name is taken, by a port or by a member of this or another enum.
MemberClashes(name) ==
    \/ PortTaken(name)
    \/ \E n \in DOMAIN members : FoldCase[n] = FoldCase[name]

EnumOk(f) ==
    \A i \in DOMAIN f.names :
        /\ f.names[i] \in Identifiers
        /\ ~MemberClashes(f.names[i])
        /\ Fits(f.values[i], Unsigned(f.width))
        /\ \A j \in 1..(i - 1) : /\ FoldCase[f.names[i]] # FoldCase[f.names[j]]
                                 /\ f.values[i] # f.values[j]

\* lower_enums
LowerEnum(f) ==
    /\ Takes(f)
    /\ IF f.width \notin 1..MaxWidth THEN Fail("InvalidWidth")
       ELSE IF \/ f.name \notin Identifiers \/ f.names = <<>>
               \/ \E i \in DOMAIN enums : FoldCase[enums[i].name] = FoldCase[f.name]
       THEN Fail("InvalidIdentifier")
       ELSE IF ~EnumOk(f) THEN Fail("InvalidModule")
       ELSE LET ty == Unsigned(f.width)
                place(n) == CHOOSE i \in DOMAIN f.names : f.names[i] = n
            IN /\ enums' = Append(enums, [name |-> f.name, ty |-> ty,
                                          names |-> f.names, values |-> f.values])
               /\ members' = [n \in DOMAIN members \cup Range(f.names) |->
                     IF n \in Range(f.names)
                     THEN [id |-> <<Len(enums) + 1, place(n)>>, ty |-> ty,
                           value |-> f.values[place(n)]]
                     ELSE members[n]]
               /\ phase' = f.sort
               /\ UNCHANGED <<table, clocking, assigns, blocks>>
               /\ Finished

-----------------------------------------------------------------------------
(* lower_module: registers *)

NoClock == [clock |-> -1]

\* One attribute, for a register of type `ty`.  `strict` is how `registers` has
\* it; direct registers ask for the width only and have no active-low reset.
LowerAttribute(a, ty, strict) ==
    LET oneBit(signal) == IF strict THEN lookup[signal].ty = Bit
                                    ELSE lookup[signal].ty.width = 1
        value == LowerCore(a.value, Env, IF a.attr = "enable" THEN Untyped ELSE ty)
    IN
    CASE a.attr \in {"next", "enable"} -> value
      [] a.attr = "clock" ->
            IF a.signal \notin DOMAIN lookup THEN Error("UnknownSignal")
            ELSE IF lookup[a.signal].direction # Input \/ ~oneBit(a.signal)
            THEN Error("InvalidCondition")
            ELSE [clock |-> lookup[a.signal].id, edge |-> a.edge]
      [] a.attr = "reset" ->
            IF ~strict /\ a.level # "high" THEN Error("InvalidModule")
            ELSE IF a.signal \notin DOMAIN lookup THEN Error("UnknownSignal")
            ELSE IF ~oneBit(a.signal) THEN Error("InvalidCondition")
            ELSE IF IsError(value) THEN value
            ELSE [signal |-> lookup[a.signal].id, level |-> a.level, value |-> value]

\* An attribute, lowered to r, that must be the first of its kind.
AtMostOnce(r, i, attributes) ==
    IF \/ IsError(r)
       \/ \A j \in 1..(i - 1) : attributes[j].attr # attributes[i].attr
    THEN r ELSE Error("InvalidModule")

\* All attributes of a register together, with clock and next; what is missing of
\* the others is <<>>.
Clocking(attributes, lowered, strict) ==
    LET at(attr) == {i \in DOMAIN attributes : attributes[i].attr = attr}
        the(attr) == lowered[CHOOSE i \in at(attr) : TRUE]
        some(attr) == IF at(attr) = {} THEN <<>> ELSE <<the(attr)>>
    IN IF AnyError(lowered) THEN FirstError(lowered)
       ELSE IF at("clock") = {} \/ at("next") = {} THEN Error("InvalidModule")
       ELSE IF at("enable") # {} /\ strict /\ the("enable").ty # Bit
       THEN Error("InvalidCondition")
       ELSE IF at("enable") # {} /\ the("enable").ty.width # 1 THEN Error("TypeMismatch")
       ELSE [clock |-> the("clock").clock, edge |-> the("clock").edge,
             next |-> the("next"), enable |-> some("enable"), reset |-> some("reset")]

LowerAttributes(attributes, ty, strict) ==
    Clocking(attributes,
             [i \in DOMAIN attributes |->
                 AtMostOnce(LowerAttribute(attributes[i], ty, strict), i, attributes)],
             strict)

\* All registers of `registers` are in the table before any attribute is lowered.
DeclareRegister(f) ==
    /\ Takes(f)
    /\ LET ty == TypeFrom(f.props) IN
       IF f.name \in DOMAIN lookup THEN Fail("DuplicatePort")
       ELSE IF IsError(ty) THEN Fail(ty.error)
       ELSE /\ AddRegister(f.name, ty)
            /\ phase' = f.sort
            /\ UNCHANGED <<clocking, enums, members, assigns, blocks>>
            /\ Finished

\* The attributes of the next of them.
LowerRegister ==
    /\ Reached("attributes")
    /\ Len(clocking) < Len(registers)
    /\ LET i == Len(clocking) + 1
           form == source.forms["register"][i]
           lowered == LowerAttributes(form.attributes, registers[i].ty, TRUE)
       IN IF IsError(lowered) THEN Fail(lowered.error)
          ELSE /\ clocking' = Append(clocking, lowered)
               /\ phase' = "attributes"
               /\ UNCHANGED <<table, enums, members, assigns, blocks>>
               /\ Finished
    /\ UNCHANGED source

LowerOutputRegister(f) ==
    /\ Takes(f)
    /\ IF IsRegister(f.name) THEN Fail("DuplicatePort")
       ELSE IF f.name \notin DOMAIN lookup THEN Fail("UnknownSignal")
       ELSE IF lookup[f.name].direction # Output THEN Fail("InputAssignment")
       ELSE LET lowered == LowerAttributes(f.attributes, lookup[f.name].ty, FALSE) IN
            IF IsError(lowered) THEN Fail(lowered.error)
            ELSE /\ AddOutputRegister(f.name)
                 /\ clocking' = Append(clocking, lowered)
                 /\ phase' = f.sort
                 /\ UNCHANGED <<enums, members, assigns, blocks>>
                 /\ Finished

\* Mutant of Declare: an output port gets a second id.
DeclareAnew(known, name, ty) ==
    LET own == IF known THEN lookup[name].ty ELSE ty IN
    registers' = Append(registers, [name |-> name, ty |-> own])
    /\ Enter(name, NewId, own, Output) /\ UNCHANGED ports

Declare(known, name, ty) ==
    IF known THEN AddOutputRegister(name) ELSE AddRegister(name, ty)

\* A declared register is an output port or new.
DeclareForClocked(f) ==
    /\ Takes(f)
    /\ LET known == f.name \in DOMAIN lookup
           ty == TypeFrom(f.props)
       IN IF known /\ lookup[f.name].direction # Output THEN Fail("InputAssignment")
          ELSE IF IsRegister(f.name) THEN Fail("DuplicatePort")
          ELSE IF ~known /\ IsError(ty) THEN Fail(ty.error)
          ELSE /\ Declare(known, f.name, ty)
               /\ clocking' = Append(clocking, NoClock)
               /\ phase' = f.sort
               /\ UNCHANGED <<enums, members, assigns, blocks>>
               /\ Finished

-----------------------------------------------------------------------------
(* lower_module: clocked blocks and assignments *)

HwStmtNode(parts) ==
    [stmt : {"set"}, target : Nat, value : HwExpr]
    \cup [stmt : {"block"}, body : Seq(parts)]
    \cup [stmt : {"if"}, cond : HwExpr, branches : Seq(parts)]
    \cup [stmt : {"case"}, cond : HwExpr, keys : Seq(Key), branches : Seq(parts)]
HwStmt ==
    LET trees[n \in 0..Depth] == IF n = 0 THEN {} ELSE HwStmtNode(trees[n - 1])
    IN trees[Depth]

\* Statements lowered one by one: the error of the first that has one, or what
\* they make together.
Together(lowered, stmt) == IF AnyError(lowered) THEN FirstError(lowered) ELSE stmt

Block(lowered) == Together(lowered, [stmt |-> "block", body |-> lowered])

\* The else branch is lowered before the other.
If(condition, branches) ==
    IF IsError(condition) THEN condition
    ELSE IF condition.ty # Bit THEN Error("InvalidCondition")
    ELSE Together(Reverse(branches), [stmt |-> "if", cond |-> condition, branches |-> branches])

\* The arms but the last, if that is `else`, have a key.
ArmsOf(s, selector, keys, lower) ==
    LET keyed == {i \in DOMAIN s.arms : ~IsElse(s.arms[i].key)}
        arm(i) == IF IsError(keys[i]) THEN keys[i] ELSE lower[s.arms[i].value]
    IN [stmt |-> "case", cond |-> selector, branches |-> [i \in DOMAIN s.arms |-> arm(i)],
        keys |-> SubSeq(keys, 1, Cardinality(keyed))]
CaseOf(arms) == Together(arms.branches, arms)
LowerArms(s, selector, lower) ==
    IF IsError(selector) THEN selector
    ELSE CaseOf(ArmsOf(s, selector, LowerKeys(s.arms, selector.ty, Env, "case-do"),
                       lower))

\* lower_stmt; `lower` has what the statements inside are lowered to.
LowerStmtStep(s, lower) ==
    CASE s.stmt = "set" ->
            IF s.target \notin DOMAIN lookup THEN Error("UnknownSignal")
            ELSE IF ~IsRegister(s.target) THEN Error("InputAssignment")
            ELSE LET value == LowerCore(s.value, Env, lookup[s.target].ty) IN
                 IF IsError(value) THEN value
                 ELSE [stmt |-> "set", target |-> lookup[s.target].id, value |-> value]
      [] s.stmt = "do" ->
            IF s.body = <<>> THEN Error("InvalidModule")
            ELSE Block([i \in DOMAIN s.body |-> lower[s.body[i]]])
      [] s.stmt = "if" ->
            If(LowerCore(s.cond, Env, Untyped),
               [i \in DOMAIN s.branches |-> lower[s.branches[i]]])
      [] s.stmt = "case" ->
            IF s.arms = <<>> THEN Error("InvalidModule")
            ELSE LowerArms(s, LowerCore(s.cond, Env, Untyped), lower)

LowerStmt(s) ==
    LET lower[x \in Stmt] == LowerStmtStep(x, lower)
    IN lower[s]

LowerClocked(f) ==
    /\ Takes(f)
    /\ LET body == LowerStmt(f.body) IN
       IF f.clock \notin DOMAIN lookup THEN Fail("UnknownSignal")
       ELSE IF lookup[f.clock].direction # Input \/ lookup[f.clock].ty # Bit
       THEN Fail("InvalidCondition")
       ELSE IF IsError(body) THEN Fail(body.error)
       ELSE /\ blocks' = Append(blocks, [clock |-> lookup[f.clock].id, edge |-> f.edge,
                                         body |-> body])
            /\ phase' = f.sort
            /\ UNCHANGED <<table, clocking, enums, members, assigns>>
            /\ Finished

\* Mutant of Assigned: an assignment to a register is let through.
AssignedByAssign(name) == \E i \in DOMAIN assigns : assigns[i].dest = lookup[name].id

\* The signal has a driver already.
Assigned(name) ==
    \/ IsRegister(name)
    \/ \E i \in DOMAIN assigns : assigns[i].dest = lookup[name].id

LowerAssign(f) ==
    /\ Takes(f)
    /\ IF f.dest \notin DOMAIN lookup THEN Fail("UnknownSignal")
       ELSE IF lookup[f.dest].direction # Output THEN Fail("InputAssignment")
       ELSE IF Assigned(f.dest) THEN Fail("DuplicateAssignment")
       ELSE LET value == LowerCore(f.value, Env, lookup[f.dest].ty) IN
            IF IsError(value) THEN Fail(value.error)
            ELSE /\ assigns' = Append(assigns, [dest |-> lookup[f.dest].id, value |-> value])
                 /\ phase' = f.sort
                 /\ UNCHANGED <<table, clocking, enums, members, blocks>>
                 /\ Finished

\* A form of the wrong shape, or no `ports`.
Malformed == Lowering /\ Fail("InvalidModule") /\ UNCHANGED source

\* The module is pushed on the design; nothing of it is left for the next.
EndModule ==
    /\ Lowering
    /\ portsDue = <<>>
    /\ Len(clocking) = Len(registers)
    /\ design' = Append(design,
           [ports |-> ports, registers |-> registers, clocking |-> clocking,
            enums |-> enums, assigns |-> assigns, blocks |-> blocks, source |-> source])
    /\ phase' = "between"
    /\ ClearTable
    /\ clocking' = <<>> /\ enums' = <<>> /\ members' = <<>>
    /\ assigns' = <<>> /\ blocks' = <<>> /\ source' = <<>>
    /\ UNCHANGED <<offered, portsDue, outcome, text>>

-----------------------------------------------------------------------------
(* verify_hardware_design *)

\* A module with the types of its signals, as signal_type finds them.
Typed(m) ==
    [ports |-> m.ports, registers |-> m.registers, enums |-> m.enums,
     type |-> [id \in 0..(Len(m.ports) + Len(m.registers) - 1) |->
                  SignalType(id, m.ports, m.registers)]]

NameOf(id, m) == SignalName(id, m.ports, m.registers)
IsPortName(n, m) == \E i \in DOMAIN m.ports : m.ports[i].name = n
IsRegisterName(n, m) == \E i \in DOMAIN m.registers : m.registers[i].name = n

\* Mutant of DeclaredNames: registers are not among the names.
DeclaredNamesOfPorts(m) ==
    [i \in DOMAIN m.ports |-> m.ports[i].name]
      \o FlattenSeq([i \in DOMAIN m.enums |-> m.enums[i].names])

\* The names the module declares: an output port that is a register once.
DeclaredNames(m) ==
    [i \in DOMAIN m.ports |-> m.ports[i].name]
      \o FlattenSeq([i \in DOMAIN m.enums |-> m.enums[i].names])
      \o FlattenSeq([i \in DOMAIN m.registers |->
            IF IsPortName(m.registers[i].name, m) THEN <<>> ELSE <<m.registers[i].name>>])

\* No member or register is declared under a name that is there already; the
\* names of the ports are taken as they come.
NewNames(m) ==
    LET names == DeclaredNames(m) IN
    \A i, j \in DOMAIN names :
        i < j /\ j > Len(m.ports) => FoldCase[names[i]] # FoldCase[names[j]]

VerifyEnum(e) ==
    Check(/\ e.name \in Identifiers /\ Range(e.names) \subseteq Identifiers
          /\ e.ty.width > 0 /\ ~e.ty.signed /\ e.names # <<>>
          /\ IsInjective(e.values)
          /\ \A i \in DOMAIN e.values : Fits(e.values[i], e.ty), "InvalidModule")

VerifyAssign(i, m) ==
    LET a == m.assigns[i] IN
    IF ~IsPort(a.dest, m.ports) THEN "InvalidModule"
    ELSE FirstFailure(<<
        Check(m.ports[a.dest + 1].direction = Output, "InputAssignment"),
        Check(\A j \in 1..(i - 1) : m.assigns[j].dest # a.dest, "DuplicateAssignment"),
        Check(a.value.ty = m.ports[a.dest + 1].ty, "TypeMismatch"),
        VerifyExpr(a.value, Typed(m))>>)

VerifyRegister(i, m) ==
    LET c == m.clocking[i]
        ty == m.registers[i].ty
        t == Typed(m)
        oneBit(id) == id \in DOMAIN t.type /\ t.type[id].width = 1
    IN IF c = NoClock THEN "ok"
       ELSE FirstFailure(
            <<Check(ty.width > 0, "InvalidWidth"),
              Check(oneBit(c.clock), "InvalidCondition"),
              Check(c.next.ty = ty, "TypeMismatch"),
              VerifyExpr(c.next, t)>>
            \o FlattenSeq([k \in DOMAIN c.reset |->
                  <<Check(oneBit(c.reset[k].signal) /\ c.reset[k].value.ty = ty, "TypeMismatch"),
                    VerifyExpr(c.reset[k].value, t)>>])
            \o FlattenSeq([k \in DOMAIN c.enable |->
                  <<Check(c.enable[k].ty.width = 1, "InvalidCondition"),
                    VerifyExpr(c.enable[k], t)>>]))

\* Mutant of AfterBranches: what a branch updates is forgotten.
AfterBranchesNone(updates, branches) == updates

\* The updates that may have happened once one of the branches, or none, is done.
AfterBranches(updates, branches) ==
    updates \cup UNION {branches[i].updates : i \in DOMAIN branches}

\* verify_stmt: the registers updated on the way here and by the statement, or
\* an error; `verify` is that of the statements inside.  Each branch starts from
\* the updates before the form.
VerifyBranches(s, updates, verify) ==
    LET branches == [i \in DOMAIN s.branches |-> verify[s.branches[i]][updates]] IN
    IF AnyError(branches) THEN FirstError(branches)
    ELSE [updates |-> AfterBranches(updates, branches)]

VerifySequence(body, updates, verify) ==
    LET after[n \in 0..Len(body)] ==
            IF n = 0 THEN [updates |-> updates]
            ELSE IF IsError(after[n - 1]) THEN after[n - 1]
            ELSE verify[body[n]][after[n - 1].updates]
    IN after[Len(body)]

VerifyStmtStep(s, m, updates, verify) ==
    LET t == Typed(m)
        after(e, r) == IF VerifyExpr(e, t) # "ok" THEN Error(VerifyExpr(e, t)) ELSE r
    IN
    CASE s.stmt = "set" ->
            IF ~(/\ s.target \in DOMAIN t.type /\ IsRegisterName(NameOf(s.target, m), m)
                 /\ s.value.ty = t.type[s.target])
            THEN Error("TypeMismatch")
            ELSE after(s.value, IF s.target \in updates THEN Error("DuplicateAssignment")
                                ELSE [updates |-> updates \cup {s.target}])
      [] s.stmt = "block" ->
            IF s.body = <<>> THEN Error("InvalidModule")
            ELSE VerifySequence(s.body, updates, verify)
      [] s.stmt = "if" ->
            IF s.cond.ty # Bit THEN Error("InvalidCondition")
            ELSE after(s.cond, VerifyBranches(s, updates, verify))
      [] s.stmt = "case" ->
            LET keys == VerifyKeys(s.keys, s.cond.ty, t) IN
            after(s.cond, IF s.keys = <<>> THEN Error("InvalidModule")
                          ELSE IF keys # "ok" THEN Error(keys)
                          ELSE VerifyBranches(s, updates, verify))

VerifyStmt(s, m, updates) ==
    LET verify[x \in HwStmt] == [before \in SUBSET Nat |-> VerifyStmtStep(x, m, before, verify)]
    IN verify[s][updates]

\* Mutant of BlockConflict: only assignments are compared.
BlockConflictAssigned(updates, drivers, m) ==
    \E i \in DOMAIN m.assigns : m.assigns[i].dest \in updates

\* A register of the block is updated by an earlier block, or assigned.
BlockConflict(updates, drivers, m) ==
    \/ updates \cap drivers # {}
    \/ \E i \in DOMAIN m.assigns : m.assigns[i].dest \in updates

\* One block, after blocks that update these registers.
VerifyBlock(b, drivers, m) ==
    LET r == VerifyStmt(b.body, m, {}) IN
    IF \/ ~IsPort(b.clock, m.ports)
       \/ m.ports[b.clock + 1].direction # Input \/ m.ports[b.clock + 1].ty # Bit
    THEN Error("InvalidCondition")
    ELSE IF IsError(r) THEN r
    ELSE IF BlockConflict(r.updates, drivers, m) THEN Error("DuplicateAssignment")
    ELSE [updates |-> drivers \cup r.updates]

VerifyBlocks(m) ==
    LET after[n \in 0..Len(m.blocks)] ==
            IF n = 0 THEN [updates |-> {}]
            ELSE IF IsError(after[n - 1]) THEN after[n - 1]
            ELSE VerifyBlock(m.blocks[n], after[n - 1].updates, m)
        all == after[Len(m.blocks)]
    IN IF IsError(all) THEN all.error ELSE "ok"

VerifyPort(i, m) ==
    FirstFailure(<<
        Check(m.ports[i].ty.width > 0, "InvalidWidth"),
        Check(m.ports[i].direction = Output =>
                  \/ \E k \in DOMAIN m.assigns : m.assigns[k].dest = i - 1
                  \/ IsRegisterName(m.ports[i].name, m), "MissingAssignment")>>)

\* The output ports the assignment to a signal, if it has one, reads.
OutputsRead(signal, m) ==
    UNION {{id \in References(m.assigns[i].value) :
              IsPort(id, m.ports) /\ m.ports[id + 1].direction = Output} :
           i \in {k \in DOMAIN m.assigns : m.assigns[k].dest = signal}}

\* visit: depth first through the assignments.  `path` has the signals being
\* visited, `walk` those that are done and whether the path has met itself.
Walk == [complete : SUBSET Nat, loop : BOOLEAN]
NoWalk == [complete |-> {}, loop |-> FALSE]
VisitStep(signal, path, walk, m, visit) ==
    IF walk.loop \/ signal \in walk.complete THEN walk
    ELSE IF signal \in path THEN [walk EXCEPT !.loop = TRUE]
    ELSE LET after == FoldSet(LAMBDA next, w : visit[path \cup {signal}][next][w],
                              walk, OutputsRead(signal, m))
         IN [after EXCEPT !.complete = @ \cup {signal}]

Visit(signal, walk, m) ==
    LET ids == 0..(Len(m.ports) + Len(m.registers) - 1)
        visit[path \in SUBSET ids] ==
            [next \in ids |-> [w \in Walk |-> VisitStep(next, path, w, m, visit)]]
    IN visit[{}][signal][walk]

\* Mutant of HasLoop: what the first assignment does not reach is not visited.
HasLoopFirst(m) ==
    m.assigns # <<>> /\ Visit(m.assigns[1].dest, NoWalk, m).loop

HasLoop(m) ==
    LET walk[n \in 0..Len(m.assigns)] ==
            IF n = 0 THEN NoWalk ELSE Visit(m.assigns[n].dest, walk[n - 1], m)
    IN walk[Len(m.assigns)].loop

VerifyModule(m) ==
    FirstFailure(
        [i \in DOMAIN m.enums |-> VerifyEnum(m.enums[i])]
        \o <<Check(/\ \A i, j \in DOMAIN m.enums :
                         FoldCase[m.enums[i].name] = FoldCase[m.enums[j].name] => i = j
                   /\ NewNames(m), "InvalidModule")>>
        \o [i \in DOMAIN m.assigns |-> VerifyAssign(i, m)]
        \o [i \in DOMAIN m.registers |-> VerifyRegister(i, m)]
        \o <<VerifyBlocks(m)>>
        \o [i \in DOMAIN m.ports |-> VerifyPort(i, m)]
        \o <<Check(~HasLoop(m), "CombinationalLoop")>>)

ModuleName(m) == m.source.name

VerifyDesign ==
    FirstFailure([k \in DOMAIN design |->
        IF \E j \in 1..(k - 1) : ModuleName(design[j]) = ModuleName(design[k])
        THEN "DuplicateModule" ELSE VerifyModule(design[k])])

Verify ==
    /\ phase = "between"
    /\ phase' = IF VerifyDesign = "ok" THEN "verified" ELSE "rejected"
    /\ outcome' = VerifyDesign
    /\ UNCHANGED <<tables, offered, portsDue, source, design, text>>

-----------------------------------------------------------------------------
(* emit_systemverilog *)

\* Mutant of PortNet: only a register with a clock of its own makes a variable.
PortNetClocked(p, m) ==
    IF p.direction = Input THEN "input"
    ELSE IF \E i \in DOMAIN m.registers :
               m.registers[i].name = p.name /\ m.clocking[i] # NoClock
    THEN "logic" ELSE "wire"

PortNet(p, m) ==
    IF p.direction = Input THEN "input"
    ELSE IF IsRegisterName(p.name, m) THEN "logic" ELSE "wire"

\* The declarations, in the order of DeclaredNames.
Nets(m) ==
    [i \in DOMAIN m.ports |-> [name |-> m.ports[i].name, net |-> PortNet(m.ports[i], m)]]
      \o LET names == FlattenSeq([i \in DOMAIN m.enums |-> m.enums[i].names])
         IN [i \in DOMAIN names |-> [name |-> names[i], net |-> "localparam"]]
      \o FlattenSeq([i \in DOMAIN m.registers |->
            IF IsPortName(m.registers[i].name, m) THEN <<>>
            ELSE <<[name |-> m.registers[i].name, net |-> "logic"]>>])

\* emit_expr and emit_case_key, as the names they write.
Read(h, m) ==
    {NameOf(id, m) : id \in References(h)}
      \cup {m.enums[id[1]].names[id[2]] : id \in MembersIn(h)}

\* emit_stmt, as the names it assigns and those it reads.
StmtTextStep(s, m, texts) ==
    LET all(parts) == [writes |-> UNION {texts[parts[i]].writes : i \in DOMAIN parts},
                       reads |-> UNION {texts[parts[i]].reads : i \in DOMAIN parts}]
        reads(names, parts) == [all(parts) EXCEPT !.reads = @ \cup names]
        keyNames(keys) == {m.enums[id[1]].names[id[2]] :
                              id \in {keys[i].member : i \in DOMAIN keys} \ {<<>>}}
    IN CASE s.stmt = "set" -> [writes |-> {NameOf(s.target, m)}, reads |-> Read(s.value, m)]
         [] s.stmt = "block" -> all(s.body)
         [] s.stmt = "if" -> reads(Read(s.cond, m), s.branches)
         [] s.stmt = "case" -> reads(Read(s.cond, m) \cup keyNames(s.keys), s.branches)

StmtText(s, m) ==
    LET texts[x \in HwStmt] == StmtTextStep(x, m, texts)
    IN texts[s]

AssignText(a, m) ==
    [driver |-> "assign", writes |-> {NameOf(a.dest, m)}, reads |-> Read(a.value, m)]

Sensitivity(edge) == IF edge = "rising" THEN "posedge" ELSE "negedge"

\* always_ff of a register with a clock of its own.
RegisterText(i, m) ==
    LET c == m.clocking[i] IN
    [driver |-> "always", edge |-> Sensitivity(c.edge), clock |-> NameOf(c.clock, m),
     writes |-> {m.registers[i].name},
     reset |-> {<<NameOf(c.reset[k].signal, m), c.reset[k].level>> : k \in DOMAIN c.reset},
     reads |-> Read(c.next, m) \cup (UNION {Read(c.enable[k], m) : k \in DOMAIN c.enable})
                 \cup UNION {Read(c.reset[k].value, m) \cup {NameOf(c.reset[k].signal, m)} :
                                k \in DOMAIN c.reset}]

BlockText(b, m) ==
    LET body == StmtText(b.body, m) IN
    [driver |-> "always", edge |-> Sensitivity(b.edge), clock |-> NameOf(b.clock, m),
     writes |-> body.writes, reads |-> body.reads]

ModuleText(m) ==
    [nets |-> Nets(m),
     drives |-> [i \in DOMAIN m.assigns |-> AssignText(m.assigns[i], m)]
                  \o FlattenSeq([i \in DOMAIN m.registers |->
                        IF m.clocking[i] = NoClock THEN <<>> ELSE <<RegisterText(i, m)>>])
                  \o [i \in DOMAIN m.blocks |-> BlockText(m.blocks[i], m)]]

\* It verifies the same design again; there is none if it was rejected.
Emit ==
    /\ phase = "verified"
    /\ phase' = "emitted"
    /\ text' = [k \in DOMAIN design |-> ModuleText(design[k])]
    /\ UNCHANGED <<tables, offered, portsDue, source, design, outcome>>

-----------------------------------------------------------------------------

Init ==
    /\ EmptyTable
    /\ clocking = <<>> /\ enums = <<>> /\ members = <<>> /\ assigns = <<>> /\ blocks = <<>>
    /\ offered \in DOMAIN Offers
    /\ phase = "between"
    /\ portsDue = <<>> /\ source = <<>> /\ design = <<>> /\ text = <<>>
    /\ outcome = "ok"

LowerForm(f) ==
    \/ f.sort = "enum" /\ LowerEnum(f)
    \/ f.sort = "register" /\ DeclareRegister(f)
    \/ f.sort = "direct" /\ LowerOutputRegister(f)
    \/ f.sort = "declaration" /\ DeclareForClocked(f)
    \/ f.sort = "clocked" /\ LowerClocked(f)
    \/ f.sort = "assign" /\ LowerAssign(f)

Next ==
    \/ \E name \in offer.modules : BeginModule(name)
    \/ LowerPort
    \/ /\ Lowering /\ source.place \in DOMAIN offer.forms
       /\ \E f \in offer.forms[source.place] : LowerForm(f)
    \/ LowerRegister
    \/ Malformed
    \/ EndModule
    \/ Verify
    \/ Emit

Spec == Init /\ [][Next]_vars

=============================================================================
