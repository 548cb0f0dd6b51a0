--------------------------- MODULE HardwareProofs ---------------------------
(***************************************************************************)
(* Proofs about the SystemVerilog backend, for all sources, widths, depths *)
(* of trees and names, in three parts.                                     *)
(*                                                                         *)
(* The ids of signals lead back to their names, however many signals a     *)
(* module declares.  TableTypeOK and IdsNameSignals together are inductive:*)
(* a port may be added only while there are no registers, which is why no  *)
(* id moves.                                                               *)
(*                                                                         *)
(* What was kept of a module is a lowering of its source (WrittenInv): form*)
(* by form the expressions are well typed for the verifier and read the    *)
(* names of the source, clocks are inputs, and the verifier judges each    *)
(* statement by the paths of the one that was written.  It is stated for   *)
(* the module as it is and as it may grow, since an expression is lowered  *)
(* before the registers and forms after it are there.                      *)
(*                                                                         *)
(* The verdict and the text follow from it: what is rejected is rejected   *)
(* for what drives what or for a name, and what is emitted is what was     *)
(* written and is closed.  The search for loops is last: what it has       *)
(* finished has no ring (Settled), and its path is a chain of assignments. *)
(***************************************************************************)
EXTENDS HardwareCodeProofs

-----------------------------------------------------------------------------
(* The signal table alone *)

TableInv == TableTypeOK /\ IdsNameSignals

\* What Enter leaves in the lookup.
LEMMA EnterResult ==
    ASSUME NEW name \in Names, NEW id \in Nat, NEW ty \in Types,
           NEW direction \in {Input, Output}, TableTypeOK, Enter(name, id, ty, direction)
    PROVE  /\ DOMAIN lookup' = DOMAIN lookup \cup {name}
           /\ lookup'[name] = [id |-> id, ty |-> ty, direction |-> direction]
           /\ \A n \in DOMAIN lookup : n # name => lookup'[n] = lookup[n]
           /\ DOMAIN lookup' \subseteq Names
           /\ lookup' = [n \in DOMAIN lookup' |-> lookup'[n]]
           /\ \A n \in DOMAIN lookup' : lookup'[n] \in Signal
<1>1. /\ DOMAIN lookup' = DOMAIN lookup \cup {name}
      /\ lookup'[name] = [id |-> id, ty |-> ty, direction |-> direction]
      /\ \A n \in DOMAIN lookup : n # name => lookup'[n] = lookup[n]
      /\ lookup' = [n \in DOMAIN lookup' |-> lookup'[n]]
  BY DEF Enter
<1>2. [id |-> id, ty |-> ty, direction |-> direction] \in Signal
  BY DEF Signal
<1>. QED
  BY <1>1, <1>2 DEF TableTypeOK

\* A port that is new by name is new to the lookup while there are only ports.
LEMMA NewPortIsUnknown ==
    ASSUME NEW name \in Names, TableInv, registers = <<>>, ~PortTaken(name)
    PROVE  name \notin DOMAIN lookup
<1>. SUFFICES ASSUME name \in DOMAIN lookup PROVE FALSE
  OBVIOUS
<1>1. lookup[name].id \in Nat /\ Len(ports) \in Nat /\ Len(registers) = 0
  BY DEF TableInv, TableTypeOK, Signal
<1>2. lookup[name].id < Len(ports) /\ SignalName(lookup[name].id, ports, registers) = name
  BY <1>1 DEF TableInv, IdsNameSignals
<1>3. ports[lookup[name].id + 1].name = name /\ lookup[name].id + 1 \in DOMAIN ports
  BY <1>1, <1>2 DEF SignalName, IsPort, TableInv, TableTypeOK
<1>. QED
  BY <1>3 DEF PortTaken

LEMMA TableInvInit == EmptyTable => TableInv
  BY DEF EmptyTable, TableInv, TableTypeOK, IdsNameSignals

-----------------------------------------------------------------------------
(* Each step *)

LEMMA AddPortKeeps ==
    ASSUME TableInv, NEW d \in {Input, Output}, NEW name \in Names, NEW ty \in Types,
           AddPort(d, name, ty)
    PROVE  TableInv' /\ \A n \in DOMAIN lookup : n \in DOMAIN lookup' /\ lookup'[n] = lookup[n]
<1>1. name \notin DOMAIN lookup
  BY NewPortIsUnknown DEF AddPort
<1>2. ports \in Seq(Port) /\ Len(ports) \in Nat /\ registers = <<>> /\ registers' = <<>>
  BY DEF AddPort, TableInv, TableTypeOK
<1>3. [direction |-> d, name |-> name, ty |-> ty] \in Port
  BY DEF Port
<1>4. /\ ports' \in Seq(Port) /\ Len(ports') = Len(ports) + 1
      /\ \A i \in 1..Len(ports) : ports'[i] = ports[i]
      /\ ports'[Len(ports) + 1] = [direction |-> d, name |-> name, ty |-> ty]
  BY <1>2, <1>3 DEF AddPort
<1>5. /\ DOMAIN lookup' = DOMAIN lookup \cup {name}
      /\ lookup'[name] = [id |-> Len(ports), ty |-> ty, direction |-> d]
      /\ \A n \in DOMAIN lookup : lookup'[n] = lookup[n]
      /\ DOMAIN lookup' \subseteq Names
      /\ lookup' = [n \in DOMAIN lookup' |-> lookup'[n]]
      /\ \A n \in DOMAIN lookup' : lookup'[n] \in Signal
  <2>1. TableTypeOK /\ Enter(name, Len(ports), ty, d)
    BY DEF AddPort, TableInv
  <2>2. /\ DOMAIN lookup' = DOMAIN lookup \cup {name}
        /\ lookup'[name] = [id |-> Len(ports), ty |-> ty, direction |-> d]
        /\ \A n \in DOMAIN lookup : n # name => lookup'[n] = lookup[n]
        /\ DOMAIN lookup' \subseteq Names
        /\ lookup' = [n \in DOMAIN lookup' |-> lookup'[n]]
        /\ \A n \in DOMAIN lookup' : lookup'[n] \in Signal
    BY <1>2, <2>1, EnterResult, Zenon
  <2>. QED
    BY <1>1, <2>2
<1>6. TableTypeOK'
  BY <1>2, <1>4, <1>5 DEF TableTypeOK, TableInv
<1>7. IdsNameSignals'
  <2>. SUFFICES ASSUME NEW n \in DOMAIN lookup'
                PROVE  /\ lookup'[n].id < Len(ports') + Len(registers')
                       /\ SignalName(lookup'[n].id, ports', registers') = n
                       /\ SignalType(lookup'[n].id, ports', registers') = lookup'[n].ty
    BY DEF IdsNameSignals
  <2>1. CASE n = name
    BY <2>1, <1>2, <1>4, <1>5 DEF SignalName, SignalType, IsPort
  <2>2. CASE n \in DOMAIN lookup
    <3>1. /\ lookup[n].id \in Nat /\ lookup[n].id < Len(ports)
          /\ SignalName(lookup[n].id, ports, registers) = n
          /\ SignalType(lookup[n].id, ports, registers) = lookup[n].ty
      BY <2>2, <1>2 DEF TableInv, TableTypeOK, IdsNameSignals, Signal
    <3>. QED
      BY <3>1, <2>2, <1>2, <1>4, <1>5 DEF SignalName, SignalType, IsPort
  <2>. QED
    BY <2>1, <2>2, <1>5
<1>. QED
  BY <1>5, <1>6, <1>7 DEF TableInv

\* What appending to the registers keeps of the signals there are.
LEMMA AppendKeepsSignals ==
    ASSUME NEW ps \in Seq(Port), NEW rs \in Seq(Register), NEW r \in Register,
           NEW id \in Nat, id < Len(ps) + Len(rs)
    PROVE  /\ SignalName(id, ps, Append(rs, r)) = SignalName(id, ps, rs)
           /\ SignalType(id, ps, Append(rs, r)) = SignalType(id, ps, rs)
<1>1. CASE id < Len(ps)
  BY <1>1 DEF SignalName, SignalType, IsPort
<1>2. CASE ~(id < Len(ps))
  <2>1. id - Len(ps) + 1 \in 1..Len(rs)
    BY <1>2
  <2>2. Append(rs, r)[id - Len(ps) + 1] = rs[id - Len(ps) + 1]
    BY <2>1
  <2>. QED
    BY <1>2, <2>2 DEF SignalName, SignalType, IsPort
<1>. QED
  BY <1>1, <1>2

LEMMA AddRegisterKeeps ==
    ASSUME TableInv, NEW name \in Names, NEW ty \in Types, AddRegister(name, ty)
    PROVE  TableInv' /\ \A n \in DOMAIN lookup : n \in DOMAIN lookup' /\ lookup'[n] = lookup[n]
<1>. DEFINE r == [name |-> name, ty |-> ty]
<1>1. /\ ports \in Seq(Port) /\ ports' = ports /\ Len(ports) \in Nat
      /\ registers \in Seq(Register) /\ Len(registers) \in Nat /\ r \in Register
      /\ registers' = Append(registers, r)
  BY DEF AddRegister, TableInv, TableTypeOK, Register
<1>2. registers' \in Seq(Register) /\ Len(registers') = Len(registers) + 1
      /\ registers'[Len(registers) + 1] = r
  BY <1>1
<1>3. name \notin DOMAIN lookup /\ NewId \in Nat /\ NewId = Len(ports) + Len(registers)
  BY <1>1 DEF AddRegister, NewId
<1>4. /\ DOMAIN lookup' = DOMAIN lookup \cup {name}
      /\ lookup'[name] = [id |-> NewId, ty |-> ty, direction |-> Output]
      /\ \A n \in DOMAIN lookup : lookup'[n] = lookup[n]
      /\ DOMAIN lookup' \subseteq Names
      /\ lookup' = [n \in DOMAIN lookup' |-> lookup'[n]]
      /\ \A n \in DOMAIN lookup' : lookup'[n] \in Signal
  BY <1>3, EnterResult DEF AddRegister, TableInv
<1>5. TableTypeOK'
  BY <1>1, <1>2, <1>4 DEF TableTypeOK, TableInv
<1>6. IdsNameSignals'
  <2>. SUFFICES ASSUME NEW n \in DOMAIN lookup'
                PROVE  /\ lookup'[n].id < Len(ports') + Len(registers')
                       /\ SignalName(lookup'[n].id, ports', registers') = n
                       /\ SignalType(lookup'[n].id, ports', registers') = lookup'[n].ty
    BY DEF IdsNameSignals
  <2>1. CASE n = name
    <3>1. lookup'[n].id = Len(ports) + Len(registers) /\ lookup'[n].ty = ty
      BY <2>1, <1>3, <1>4
    <3>2. lookup'[n].id - Len(ports) + 1 = Len(registers) + 1 /\ ~(lookup'[n].id < Len(ports))
      BY <3>1, <1>1
    <3>. QED
      BY <2>1, <3>1, <3>2, <1>1, <1>2 DEF SignalName, SignalType, IsPort
  <2>2. CASE n \in DOMAIN lookup
    <3>1. /\ lookup[n].id \in Nat /\ lookup[n].id < Len(ports) + Len(registers)
          /\ SignalName(lookup[n].id, ports, registers) = n
          /\ SignalType(lookup[n].id, ports, registers) = lookup[n].ty
      BY <2>2 DEF TableInv, TableTypeOK, IdsNameSignals, Signal
    <3>. QED
      BY <3>1, <2>2, <1>1, <1>2, <1>4, AppendKeepsSignals
  <2>. QED
    BY <2>1, <2>2, <1>4
<1>. QED
  BY <1>4, <1>5, <1>6 DEF TableInv

LEMMA AddOutputRegisterKeeps ==
    ASSUME TableInv, NEW name \in Names, AddOutputRegister(name)
    PROVE  TableInv' /\ lookup' = lookup
<1>. DEFINE r == [name |-> name, ty |-> lookup[name].ty]
<1>1. lookup' = lookup /\ ports' = ports /\ lookup[name] \in Signal
  BY DEF AddOutputRegister, TableInv, TableTypeOK
<1>2. /\ ports \in Seq(Port) /\ Len(ports) \in Nat
      /\ registers \in Seq(Register) /\ Len(registers) \in Nat /\ r \in Register
      /\ registers' = Append(registers, r)
  BY <1>1 DEF AddOutputRegister, TableInv, TableTypeOK, Register, Signal
<1>3. registers' \in Seq(Register) /\ Len(registers') = Len(registers) + 1
  BY <1>2
<1>4. TableTypeOK'
  BY <1>1, <1>3 DEF TableTypeOK, TableInv
<1>5. IdsNameSignals'
  <2>. SUFFICES ASSUME NEW n \in DOMAIN lookup
                PROVE  /\ lookup[n].id < Len(ports) + Len(registers')
                       /\ SignalName(lookup[n].id, ports, registers') = n
                       /\ SignalType(lookup[n].id, ports, registers') = lookup[n].ty
    BY <1>1 DEF IdsNameSignals
  <2>1. /\ lookup[n].id \in Nat /\ lookup[n].id < Len(ports) + Len(registers)
        /\ SignalName(lookup[n].id, ports, registers) = n
        /\ SignalType(lookup[n].id, ports, registers) = lookup[n].ty
    BY DEF TableInv, TableTypeOK, IdsNameSignals, Signal
  <2>. QED
    BY <2>1, <1>2, <1>3, AppendKeepsSignals
<1>. QED
  BY <1>1, <1>4, <1>5 DEF TableInv

LEMMA ClearTableKeeps ==
    ASSUME ClearTable PROVE TableInv' /\ lookup' = <<>>
  BY DEF ClearTable, TableInv, TableTypeOK, IdsNameSignals

\* Every step keeps the invariant, and the ids unless the table is cleared.
LEMMA TableStep ==
    ASSUME TableInv, [TableNext]_table
    PROVE  /\ TableInv'
           /\ \/ lookup' = <<>>
              \/ \A n \in DOMAIN lookup : n \in DOMAIN lookup' /\ lookup'[n] = lookup[n]
<1>1. CASE \E d \in {Input, Output}, n \in Names, ty \in Types : AddPort(d, n, ty)
  BY <1>1, AddPortKeeps
<1>2. CASE \E n \in Names, ty \in Types : AddRegister(n, ty)
  BY <1>2, AddRegisterKeeps
<1>3. CASE \E n \in Names : AddOutputRegister(n)
  BY <1>3, AddOutputRegisterKeeps
<1>4. CASE ClearTable
  BY <1>4, ClearTableKeeps
<1>5. CASE UNCHANGED table
  <2>1. ports' = ports /\ registers' = registers /\ lookup' = lookup
    BY <1>5 DEF table
  <2>. QED
    BY <2>1 DEF TableInv, TableTypeOK, IdsNameSignals
<1>. QED
  BY <1>1, <1>2, <1>3, <1>4, <1>5 DEF TableNext

-----------------------------------------------------------------------------

LEMMA TableInvariant == TableSpec => []TableInv
<1>1. TableInv /\ [TableNext]_table => TableInv'
  BY TableStep
<1>. QED
  BY <1>1, TableInvInit, PTL DEF TableSpec

\* The tables stay of their types.
THEOREM TableTypes == TableSpec => []TableTypeOK
<1>1. TableInv => TableTypeOK
  BY DEF TableInv
<1>. QED
  BY <1>1, TableInvariant, PTL

\* The id of every name leads back to the name and its type (signal_name,
\* signal_type), for any ports, registers and declarations in any order.
THEOREM IdsLeadBack == TableSpec => []IdsNameSignals
<1>1. TableInv => IdsNameSignals
  BY DEF TableInv
<1>. QED
  BY <1>1, TableInvariant, PTL

\* Two names never share an id.
THEOREM IdsAreDistinct ==
    TableSpec => [](\A m, n \in DOMAIN lookup : lookup[m].id = lookup[n].id => m = n)
<1>1. IdsNameSignals => \A m, n \in DOMAIN lookup : lookup[m].id = lookup[n].id => m = n
  BY DEF IdsNameSignals
<1>. QED
  BY <1>1, IdsLeadBack, PTL

\* Within a module no declaration moves an id that was resolved before it.
THEOREM IdsStay == TableSpec => IdsKept
<1>1. TableInv /\ [TableNext]_table
        => [lookup' # <<>> => \A n \in DOMAIN lookup :
               n \in DOMAIN lookup' /\ lookup'[n] = lookup[n]]_table
  BY TableStep
<1>. QED
  BY <1>1, TableInvariant, PTL DEF TableSpec, IdsKept

-----------------------------------------------------------------------------
(* Sorts, forms and offers *)

LEMMA SortRanks ==
    /\ Rank("port") = 1 /\ Rank("enum") = 2 /\ Rank("register") = 3
    /\ Rank("attributes") = 4 /\ Rank("direct") = 5 /\ Rank("declaration") = 6
    /\ Rank("clocked") = 7 /\ Rank("assign") = 8
  BY DEF Rank, Sorts

LEMMA SortsRange ==
    Range(Sorts) = {"port", "enum", "register", "attributes", "direct", "declaration",
                    "clocked", "assign"}
  BY DEF Range, Sorts

LEMMA PortFormFacts ==
    ASSUME NEW p \in PortForm
    PROVE  p.direction \in {Input, Output} /\ p.name \in Names /\ p.props \in Properties
  BY DEF PortForm

LEMMA FormFacts ==
    ASSUME NEW f \in Form
    PROVE  /\ f.sort \in Range(Sorts)
           /\ f.sort = "enum" => /\ f.name \in Names /\ f.width \in Int
                                 /\ f.names \in Seq(Names) /\ f.values \in Seq(Words)
                                 /\ Len(f.names) = Len(f.values)
           /\ f.sort = "register" => /\ f.name \in Names /\ f.props \in Properties
                                     /\ f.attributes \in Seq(Attribute)
           /\ f.sort = "direct" => f.name \in Names /\ f.attributes \in Seq(Attribute)
           /\ f.sort = "declaration" => f.name \in Names /\ f.props \in Properties
           /\ f.sort = "clocked" => f.clock \in Names /\ f.edge \in Edge /\ f.body \in Body
           /\ f.sort = "assign" => f.dest \in Names /\ f.value \in CoreExpr
  BY SortsRange DEF Form, EnumForm

\* type_from_properties finds a type there is, or none.
LEMMA TypeFromType ==
    ASSUME NEW props \in Properties
    PROVE  \/ IsError(TypeFrom(props))
           \/ TypeFrom(props) \in Types /\ ~IsError(TypeFrom(props))
  <1>1. \A n \in 1..MaxWidth, b \in BOOLEAN :
            LET ty == [width |-> n, signed |-> b] IN ty \in HwTypes /\ ~IsError(ty)
    BY DEF HwTypes, IsError
  <1>2. "width" \in DOMAIN props => props.width \in Int BY DEF Properties
  <1>3. \A k : IsError(Error(k)) BY DEF IsError, Error
  <1> QED BY <1>1, <1>2, <1>3, WidthsAssumption, NamesAssumption DEF TypeFrom, Unsigned

\* A function on 1..n for some n.
IsSequence(s) == \E S : s \in Seq(S)

LEMMA AppendToSequence ==
    ASSUME NEW s, NEW e, IsSequence(s)
    PROVE  /\ IsSequence(Append(s, e))
           /\ Len(s) \in Nat /\ Len(Append(s, e)) = Len(s) + 1
           /\ \A i \in 1..Len(s) : Append(s, e)[i] = s[i]
           /\ Append(s, e)[Len(s) + 1] = e
           /\ DOMAIN s = 1..Len(s) /\ DOMAIN Append(s, e) = 1..(Len(s) + 1)
  <1>1. PICK S : s \in Seq(S) BY DEF IsSequence
  <1> DEFINE T == S \cup {e}
  <1>2. s \in Seq(T) /\ e \in T BY <1>1
  <1> HIDE DEF T
  <1>3. Append(s, e) \in Seq(T) BY <1>2
  <1> QED BY <1>2, <1>3 DEF IsSequence

LEMMA SequenceLength ==
    ASSUME NEW s, IsSequence(s)
    PROVE  Len(s) \in Nat /\ DOMAIN s = 1..Len(s)
  BY DEF IsSequence

LEMMA EmptySequence == IsSequence(<<>>) /\ Len(<<>>) = 0
  <1>1. <<>> \in Seq({}) OBVIOUS
  <1> QED BY <1>1 DEF IsSequence

-----------------------------------------------------------------------------
(* Types *)

\* What all steps of the backend keep: the table is in order, clocks are input
\* ports, and a module is begun only while there is one to come.
Tables ==
    /\ TableInv
    /\ \A n \in DOMAIN lookup : lookup[n].direction = Input => lookup[n].id < Len(ports)
    /\ IsSequence(clocking) /\ Len(clocking) <= Len(registers)
    /\ DOMAIN members \subseteq Names
    /\ IsSequence(assigns)
    /\ \A i \in DOMAIN assigns : assigns[i].dest \in 0..(Len(ports) + Len(registers) - 1)
    /\ IsSequence(blocks)
    /\ \A i \in DOMAIN blocks : blocks[i].clock \in 0..(Len(ports) - 1)
Progress ==
    /\ offered \in DOMAIN Offers
    /\ phase \in Range(Sorts) \cup {"between", "failed", "verified", "rejected", "emitted"}
    /\ portsDue \in Seq(PortForm)
    /\ IsSequence(design) /\ Len(design) <= offer.length
    /\ Lowering => Len(design) < offer.length
    /\ text # <<>> => Len(text) = Len(design)
    /\ phase # "emitted" => text = <<>>
TypeInv == Tables /\ Progress

\* A form that is taken is one of those offered.
LEMMA OfferedForms ==
    ASSUME TypeInv
    PROVE  /\ offer.length \in Nat
           /\ offer.modules \subseteq ModuleNames
           /\ offer.ports \subseteq Seq(PortForm)
           /\ \A i \in DOMAIN offer.forms : offer.forms[i] \subseteq Form
  BY OffersAssumption DEF TypeInv, Progress, offer

LEMMA FailKeeps ==
    ASSUME TypeInv, phase # "emitted", NEW kind, Fail(kind)
    PROVE  TypeInv' /\ UNCHANGED table
  <1>1. /\ UNCHANGED <<ports, registers, lookup, clocking, members, assigns, blocks>>
        /\ UNCHANGED <<offered, portsDue, design, text>> /\ phase' = "failed"
    BY DEF Fail, tables, table
  <1>2. UNCHANGED table BY <1>1 DEF table
  <1>3. Tables'
    BY <1>1 DEF TypeInv, Tables, TableInv, TableTypeOK, IdsNameSignals
  <1>4. Progress'
    <2>1. ~Lowering' BY <1>1, SortsRange DEF Lowering
    <2> QED BY <1>1, <2>1 DEF TypeInv, Progress, offer
  <1> QED BY <1>2, <1>3, <1>4 DEF TypeInv

\* A form that was taken and lowered.
LEMMA FinishedKeeps ==
    ASSUME TypeInv, Lowering, Finished, phase' \in Range(Sorts)
    PROVE  Progress'
  <1>1. UNCHANGED <<offered, portsDue, design, text>> BY DEF Finished
  <1>2. phase \in Range(Sorts) BY DEF Lowering
  <1> QED BY <1>1, <1>2, SortsRange DEF TypeInv, Progress, offer, Lowering

LEMMA BeginModuleKeeps ==
    ASSUME TypeInv, NEW name \in offer.modules, BeginModule(name)
    PROVE  TypeInv' /\ UNCHANGED table
  <1>1. CASE name \in Identifiers
    <2>1. /\ UNCHANGED <<ports, registers, lookup, clocking, members, assigns, blocks>>
          /\ UNCHANGED <<offered, design, text>> /\ phase = "between" /\ phase' = "port"
          /\ Len(design) < offer.length /\ portsDue' \in offer.ports
      BY <1>1 DEF BeginModule, tables, table
    <2>2. UNCHANGED table BY <2>1 DEF table
    <2>3. Tables'
      BY <2>1 DEF TypeInv, Tables, TableInv, TableTypeOK, IdsNameSignals
    <2>4. Progress'
      <3>1. portsDue' \in Seq(PortForm) BY <2>1, OfferedForms
      <3> QED BY <2>1, <3>1, SortsRange DEF TypeInv, Progress, offer, Lowering
    <2> QED BY <2>2, <2>3, <2>4 DEF TypeInv
  <1>2. CASE name \notin Identifiers
    <2>1. Fail("InvalidIdentifier") /\ phase # "emitted" BY <1>2 DEF BeginModule
    <2> QED BY <2>1, FailKeeps
  <1> QED BY <1>1, <1>2

\* What the tables keep when signals are added.
LEMMA TablesGrow ==
    ASSUME Tables, TableInv',
           Len(ports') >= Len(ports), Len(registers') >= Len(registers),
           \A n \in DOMAIN lookup' : lookup'[n].direction = Input => lookup'[n].id < Len(ports'),
           IsSequence(clocking'), Len(clocking') <= Len(registers'),
           UNCHANGED <<members, assigns, blocks>>
    PROVE  Tables'
  <1>1. /\ Len(ports) \in Nat /\ Len(registers) \in Nat
        /\ Len(ports') \in Nat /\ Len(registers') \in Nat
    BY DEF Tables, TableInv, TableTypeOK
  <1>2. ASSUME NEW i \in DOMAIN assigns
        PROVE  assigns[i].dest \in 0..(Len(ports') + Len(registers') - 1)
    BY <1>1 DEF Tables
  <1>3. ASSUME NEW i \in DOMAIN blocks PROVE blocks[i].clock \in 0..(Len(ports') - 1)
    BY <1>1 DEF Tables
  <1> QED BY <1>2, <1>3 DEF Tables

LEMMA LowerPortKeeps ==
    ASSUME TypeInv, LowerPort
    PROVE  TypeInv' /\ [TableNext]_table
  <1> DEFINE p == Head(portsDue)
             ty == TypeFrom(p.props)
  <1>1. Lowering /\ portsDue # <<>> /\ phase # "emitted"
    BY SortsRange DEF LowerPort, Reached, Lowering
  <1>2. p \in PortForm /\ Tail(portsDue) \in Seq(PortForm)
    BY <1>1 DEF TypeInv, Progress
  <1>3. CASE \E kind : Fail(kind)
    BY <1>1, <1>3, FailKeeps
  <1>4. CASE ~\E kind : Fail(kind)
    <2>1. /\ AddPort(p.direction, p.name, ty) /\ ~IsError(ty) /\ portsDue' = Tail(portsDue)
          /\ UNCHANGED <<phase, clocking, enums, members, assigns, blocks, offered,
                         design, outcome, text>>
      BY <1>4, Zenon DEF LowerPort
    <2>2. p.direction \in {Input, Output} /\ p.name \in Names /\ ty \in Types
      BY <1>2, <2>1, PortFormFacts, TypeFromType
    <2> HIDE DEF p, ty
    <2>3. TableInv' BY <2>1, <2>2, AddPortKeeps DEF TypeInv, Tables
    <2>4. TableNext BY <2>1, <2>2 DEF TableNext
    <2>5. /\ Len(ports) \in Nat /\ Len(ports') = Len(ports) + 1 /\ registers' = registers
          /\ Len(registers) \in Nat
          /\ lookup' = [n \in DOMAIN lookup \cup {p.name} |->
                           IF n = p.name
                           THEN [id |-> Len(ports), ty |-> ty, direction |-> p.direction]
                           ELSE lookup[n]]
      <3>1. ports \in Seq(Port) BY DEF TypeInv, Tables, TableInv, TableTypeOK
      <3>2. [direction |-> p.direction, name |-> p.name, ty |-> ty] \in Port
        BY <2>2 DEF Port
      <3> QED BY <2>1, <3>1, <3>2 DEF AddPort, Enter, TypeInv, Tables, TableInv, TableTypeOK
    <2>6. ASSUME NEW n \in DOMAIN lookup', lookup'[n].direction = Input
          PROVE  lookup'[n].id < Len(ports')
      <3>1. CASE n = p.name BY <2>5, <3>1
      <3>2. CASE n # p.name
        <4>1. n \in DOMAIN lookup /\ lookup'[n] = lookup[n] BY <2>5, <3>2
        <4>2. lookup[n].id \in Nat BY <4>1 DEF TypeInv, Tables, TableInv, TableTypeOK, Signal
        <4> QED BY <2>5, <2>6, <4>1, <4>2 DEF TypeInv, Tables
      <3> QED BY <3>1, <3>2
    <2>7. Tables'
      <3>1. Len(ports') >= Len(ports) /\ Len(registers') >= Len(registers)
        BY <2>5
      <3>2. IsSequence(clocking') /\ Len(clocking') <= Len(registers')
        BY <2>1, <2>5 DEF TypeInv, Tables
      <3> QED BY <2>1, <2>3, <2>6, <3>1, <3>2, TablesGrow DEF TypeInv
    <2>8. Progress'
      BY <1>2, <2>1 DEF TypeInv, Progress, offer, Lowering, p
    <2> QED BY <2>4, <2>7, <2>8 DEF TypeInv
  <1> QED BY <1>3, <1>4

\* Taking a form: it is one of those offered, and its sort is reached.
LEMMA TakesFacts ==
    ASSUME TypeInv, NEW f \in Form, Takes(f)
    PROVE  /\ Lowering /\ phase # "emitted" /\ f.sort \in Range(Sorts)
           /\ f.sort \in {"direct", "declaration", "clocked", "assign"}
                => Len(clocking) = Len(registers)
  <1>1. Lowering /\ (Rank(f.sort) > Rank("attributes") => Len(clocking) = Len(registers))
    BY DEF Takes, Reached
  <1>2. f.sort \in Range(Sorts) BY FormFacts
  <1> QED BY <1>1, <1>2, SortRanks, SortsRange DEF Lowering

LEMMA LowerEnumKeeps ==
    ASSUME TypeInv, NEW f \in Form, f.sort = "enum", LowerEnum(f)
    PROVE  TypeInv' /\ UNCHANGED table
  <1>1. /\ Lowering /\ phase # "emitted" /\ f.sort \in Range(Sorts)
        /\ f.names \in Seq(Names)
    BY TakesFacts, FormFacts DEF LowerEnum
  <1>2. CASE \E kind : Fail(kind)
    BY <1>1, <1>2, FailKeeps
  <1>3. CASE ~\E kind : Fail(kind)
    <2>1. /\ \E g : members' = [n \in DOMAIN members \cup Range(f.names) |-> g[n]]
          /\ phase' = f.sort /\ UNCHANGED <<table, clocking, assigns, blocks>> /\ Finished
      BY <1>3 DEF LowerEnum
    <2>2. DOMAIN members' = DOMAIN members \cup Range(f.names) BY <2>1
    <2>3. Range(f.names) \subseteq Names BY <1>1, RangeType
    <2>4. UNCHANGED <<ports, registers, lookup>> BY <2>1 DEF table
    <2>5. Tables'
      BY <2>1, <2>2, <2>3, <2>4 DEF TypeInv, Tables, TableInv, TableTypeOK, IdsNameSignals
    <2>6. Progress' BY <1>1, <2>1, FinishedKeeps
    <2> QED BY <2>1, <2>5, <2>6 DEF TypeInv
  <1> QED BY <1>2, <1>3

LEMMA RegisterGrows ==
    ASSUME TypeInv, NEW name \in Names, NEW ty \in Types, AddRegister(name, ty), TableInv',
           UNCHANGED <<members, assigns, blocks>>,
           \/ UNCHANGED clocking
           \/ Len(clocking) = Len(registers) /\ clocking' = Append(clocking, NoClock)
    PROVE  Tables'
  <1>1. /\ Len(ports) \in Nat /\ ports' = ports /\ registers \in Seq(Register)
        /\ Len(registers) \in Nat /\ IsSequence(clocking) /\ Len(clocking) <= Len(registers)
    BY DEF TypeInv, Tables, TableInv, TableTypeOK, AddRegister
  <1>2. Len(registers') = Len(registers) + 1
    <2>1. [name |-> name, ty |-> ty] \in Register BY DEF Register
    <2> QED BY <1>1, <2>1 DEF AddRegister
  <1>3. IsSequence(clocking') /\ Len(clocking') <= Len(registers')
    <2>1. Len(clocking) \in Nat BY <1>1, SequenceLength
    <2>2. CASE UNCHANGED clocking BY <1>1, <1>2, <2>1, <2>2
    <2>3. CASE Len(clocking) = Len(registers) /\ clocking' = Append(clocking, NoClock)
      <3>1. /\ IsSequence(Append(clocking, NoClock))
            /\ Len(Append(clocking, NoClock)) = Len(clocking) + 1
        BY <1>1, AppendToSequence
      <3> QED BY <1>2, <2>1, <2>3, <3>1
    <2> QED BY <2>2, <2>3
  <1>4. ASSUME NEW n \in DOMAIN lookup', lookup'[n].direction = Input
        PROVE  lookup'[n].id < Len(ports')
    <2>1. CASE n = name
      <3>1. lookup'[n].direction = Output BY <2>1 DEF AddRegister, Enter
      <3> QED BY <1>4, <3>1 DEF Input, Output
    <2>2. CASE n # name
      <3>1. n \in DOMAIN lookup /\ lookup'[n] = lookup[n] BY <2>2 DEF AddRegister, Enter
      <3> QED BY <1>1, <1>4, <3>1 DEF TypeInv, Tables
    <2> QED BY <2>1, <2>2
  <1> QED BY <1>1, <1>2, <1>3, <1>4, TablesGrow DEF TypeInv

LEMMA OutputRegisterGrows ==
    ASSUME TypeInv, NEW name \in Names, AddOutputRegister(name),
           Len(clocking) = Len(registers), NEW c, clocking' = Append(clocking, c),
           UNCHANGED <<members, assigns, blocks>>
    PROVE  Tables'
  <1>1. /\ Len(ports) \in Nat /\ ports' = ports /\ registers \in Seq(Register)
        /\ Len(registers) \in Nat /\ IsSequence(clocking) /\ lookup' = lookup
        /\ lookup[name] \in Signal
    BY DEF TypeInv, Tables, TableInv, TableTypeOK, AddOutputRegister
  <1>2. Len(registers') = Len(registers) + 1
    <2>1. [name |-> name, ty |-> lookup[name].ty] \in Register BY <1>1 DEF Register, Signal
    <2> QED BY <1>1, <2>1 DEF AddOutputRegister
  <1>3. IsSequence(clocking') /\ Len(clocking') <= Len(registers')
    <2>1. Len(clocking) \in Nat BY <1>1, SequenceLength
    <2> QED BY <1>1, <1>2, <2>1, AppendToSequence
  <1>4. TableInv' BY AddOutputRegisterKeeps DEF TypeInv, Tables
  <1>5. \A n \in DOMAIN lookup' : lookup'[n].direction = Input => lookup'[n].id < Len(ports')
    BY <1>1 DEF TypeInv, Tables
  <1> QED BY <1>1, <1>2, <1>3, <1>4, <1>5, TablesGrow DEF TypeInv

\* Two sequences with the same positions are of one length.
LEMMA LenOfDomain ==
    ASSUME NEW s, IsSequence(s), NEW t, \E f : t = [i \in DOMAIN s |-> f[i]]
    PROVE  IsSequence(t) /\ Len(t) = Len(s)
  <1>1. PICK S : s \in Seq(S) BY DEF IsSequence
  <1>2. PICK f : t = [i \in DOMAIN s |-> f[i]] OBVIOUS
  <1>3. DOMAIN s = 1..Len(s) /\ Len(s) \in Nat BY <1>1
  <1> DEFINE T == {f[i] : i \in DOMAIN s}
  <1>4. t \in [1..Len(s) -> T] BY <1>2, <1>3
  <1> HIDE DEF T
  <1>5. t \in Seq(T) BY <1>3, <1>4
  <1>6. Len(t) = Len(s) BY <1>3, <1>4, <1>5
  <1> QED BY <1>5, <1>6 DEF IsSequence

LEMMA DeclareRegisterKeeps ==
    ASSUME TypeInv, NEW f \in Form, f.sort = "register", DeclareRegister(f)
    PROVE  TypeInv' /\ [TableNext]_table
  <1> DEFINE ty == TypeFrom(f.props)
  <1>1. /\ Lowering /\ phase # "emitted" /\ f.sort \in Range(Sorts)
        /\ f.name \in Names /\ f.props \in Properties
    BY TakesFacts, FormFacts DEF DeclareRegister
  <1>2. CASE \E kind : Fail(kind)
    BY <1>1, <1>2, FailKeeps
  <1>3. CASE ~\E kind : Fail(kind)
    <2>1. /\ AddRegister(f.name, ty) /\ ~IsError(ty) /\ phase' = f.sort
          /\ UNCHANGED <<clocking, enums, members, assigns, blocks>> /\ Finished
      BY <1>3, Zenon DEF DeclareRegister
    <2>2. ty \in Types BY <1>1, <2>1, TypeFromType
    <2> HIDE DEF ty
    <2>3. TableNext BY <1>1, <2>1, <2>2 DEF TableNext
    <2>4. TableInv' BY <1>1, <2>1, <2>2, AddRegisterKeeps DEF TypeInv, Tables
    <2>5. Tables' BY <1>1, <2>1, <2>2, <2>4, RegisterGrows
    <2>6. Progress' BY <1>1, <2>1, FinishedKeeps
    <2> QED BY <2>3, <2>5, <2>6 DEF TypeInv
  <1> QED BY <1>2, <1>3

\* The attributes of the next of `registers` were lowered.
LEMMA LowerRegisterKeeps ==
    ASSUME TypeInv, LowerRegister
    PROVE  TypeInv' /\ UNCHANGED table
  <1>1. Lowering /\ phase # "emitted" /\ Len(clocking) < Len(registers)
    BY SortsRange DEF LowerRegister, Reached, Lowering
  <1>2. CASE \E kind : Fail(kind)
    BY <1>1, <1>2, FailKeeps
  <1>3. CASE ~\E kind : Fail(kind)
    <2>1. /\ \E c : clocking' = Append(clocking, c)
          /\ phase' = "attributes"
          /\ UNCHANGED <<table, enums, members, assigns, blocks>> /\ Finished
      BY <1>3 DEF LowerRegister
    <2>2. UNCHANGED <<ports, registers, lookup>> BY <2>1 DEF table
    <2>3. TableInv' BY <2>2 DEF TypeInv, Tables, TableInv, TableTypeOK, IdsNameSignals
    <2>4. IsSequence(clocking') /\ Len(clocking') <= Len(registers')
      <3>1. PICK c : clocking' = Append(clocking, c) BY <2>1
      <3>2. Len(clocking) \in Nat /\ Len(registers) \in Nat /\ IsSequence(clocking)
        BY AppendToSequence DEF TypeInv, Tables, TableInv, TableTypeOK
      <3>3. IsSequence(clocking') /\ Len(clocking') = Len(clocking) + 1
        BY <3>1, <3>2, AppendToSequence
      <3> QED BY <1>1, <2>2, <3>2, <3>3
    <2>5. Tables' BY <2>1, <2>2, <2>3, <2>4 DEF TypeInv, Tables
    <2>6. Progress' BY <1>1, <2>1, SortsRange, FinishedKeeps
    <2> QED BY <2>1, <2>5, <2>6 DEF TypeInv
  <1> QED BY <1>2, <1>3

LEMMA LowerOutputRegisterKeeps ==
    ASSUME TypeInv, NEW f \in Form, f.sort = "direct", LowerOutputRegister(f)
    PROVE  TypeInv' /\ [TableNext]_table
  <1>1. /\ Lowering /\ phase # "emitted" /\ f.sort \in Range(Sorts)
        /\ f.name \in Names /\ Len(clocking) = Len(registers)
    BY TakesFacts, FormFacts DEF LowerOutputRegister
  <1>2. CASE \E kind : Fail(kind)
    BY <1>1, <1>2, FailKeeps
  <1>3. CASE ~\E kind : Fail(kind)
    <2>1. /\ AddOutputRegister(f.name) /\ \E c : clocking' = Append(clocking, c)
          /\ phase' = f.sort
          /\ UNCHANGED <<enums, members, assigns, blocks>> /\ Finished
      BY <1>3 DEF LowerOutputRegister
    <2>2. TableNext BY <1>1, <2>1 DEF TableNext
    <2>3. Tables' BY <1>1, <2>1, OutputRegisterGrows
    <2>4. Progress' BY <1>1, <2>1, FinishedKeeps
    <2> QED BY <2>2, <2>3, <2>4 DEF TypeInv
  <1> QED BY <1>2, <1>3

LEMMA DeclareForClockedKeeps ==
    ASSUME TypeInv, NEW f \in Form, f.sort = "declaration", DeclareForClocked(f)
    PROVE  TypeInv' /\ [TableNext]_table
  <1> DEFINE ty == TypeFrom(f.props)
             known == f.name \in DOMAIN lookup
  <1>1. /\ Lowering /\ phase # "emitted" /\ f.sort \in Range(Sorts)
        /\ f.name \in Names /\ f.props \in Properties /\ Len(clocking) = Len(registers)
    BY TakesFacts, FormFacts DEF DeclareForClocked
  <1>2. CASE \E kind : Fail(kind)
    BY <1>1, <1>2, FailKeeps
  <1>3. CASE ~\E kind : Fail(kind)
    <2>1. /\ Declare(known, f.name, ty) /\ (known \/ ~IsError(ty))
          /\ clocking' = Append(clocking, NoClock) /\ phase' = f.sort
          /\ UNCHANGED <<enums, members, assigns, blocks>> /\ Finished
      BY <1>3, Zenon DEF DeclareForClocked
    <2>2. Progress' BY <1>1, <2>1, FinishedKeeps
    <2>3. CASE known
      <3>1. AddOutputRegister(f.name) BY <2>1, <2>3 DEF Declare
      <3>2. TableNext BY <1>1, <3>1 DEF TableNext
      <3>3. Tables' BY <1>1, <2>1, <3>1, OutputRegisterGrows
      <3> QED BY <2>2, <3>2, <3>3 DEF TypeInv
    <2>4. CASE ~known
      <3>1. AddRegister(f.name, ty) /\ ty \in Types
        BY <1>1, <2>1, <2>4, TypeFromType DEF Declare
      <3> HIDE DEF ty
      <3>2. TableNext BY <1>1, <3>1 DEF TableNext
      <3>3. TableInv' BY <1>1, <3>1, AddRegisterKeeps DEF TypeInv, Tables
      <3>4. Tables' BY <1>1, <2>1, <3>1, <3>3, RegisterGrows
      <3> QED BY <2>2, <3>2, <3>4 DEF TypeInv
    <2> QED BY <2>3, <2>4
  <1> QED BY <1>2, <1>3

\* A block and an assignment have the ids of signals there are.
LEMMA LowerClockedKeeps ==
    ASSUME TypeInv, NEW f \in Form, f.sort = "clocked", LowerClocked(f)
    PROVE  TypeInv' /\ UNCHANGED table
  <1>1. /\ Lowering /\ phase # "emitted" /\ f.sort \in Range(Sorts)
    BY TakesFacts DEF LowerClocked
  <1>2. CASE \E kind : Fail(kind)
    BY <1>1, <1>2, FailKeeps
  <1>3. CASE ~\E kind : Fail(kind)
    <2>1. /\ f.clock \in DOMAIN lookup /\ lookup[f.clock].direction = Input
          /\ \E body : blocks' = Append(blocks, [clock |-> lookup[f.clock].id, edge |-> f.edge,
                                                 body |-> body])
          /\ phase' = f.sort
          /\ UNCHANGED <<table, clocking, enums, members, assigns>> /\ Finished
      BY <1>3, Zenon DEF LowerClocked
    <2>2. UNCHANGED <<ports, registers, lookup>> BY <2>1 DEF table
    <2>3. TableInv' BY <2>2 DEF TypeInv, Tables, TableInv, TableTypeOK, IdsNameSignals
    <2>4. PICK b : blocks' = Append(blocks, b) /\ b.clock = lookup[f.clock].id
      <3>1. PICK body : blocks' = Append(blocks, [clock |-> lookup[f.clock].id, edge |-> f.edge,
                                                 body |-> body])
        BY <2>1
      <3> DEFINE b == [clock |-> lookup[f.clock].id, edge |-> f.edge, body |-> body]
      <3>2. blocks' = Append(blocks, b) /\ b.clock = lookup[f.clock].id BY <3>1
      <3> QED BY <3>2
    <2>5. b.clock \in 0..(Len(ports) - 1)
      <3>1. lookup[f.clock].id \in Nat /\ Len(ports) \in Nat
        BY <2>1 DEF TypeInv, Tables, TableInv, TableTypeOK, Signal
      <3> QED BY <2>1, <2>4, <3>1 DEF TypeInv, Tables
    <2>6. IsSequence(blocks') /\ \A i \in DOMAIN blocks' : blocks'[i].clock \in 0..(Len(ports') - 1)
      <3>1. IsSequence(blocks) BY DEF TypeInv, Tables
      <3>2. ASSUME NEW i \in 1..(Len(blocks) + 1)
            PROVE  blocks'[i].clock \in 0..(Len(ports) - 1)
        <4>1. CASE i = Len(blocks) + 1 BY <2>4, <2>5, <3>1, <4>1, AppendToSequence
        <4>2. CASE i # Len(blocks) + 1
          <5>1. i \in 1..Len(blocks) BY <3>1, <4>2, AppendToSequence
          <5>2. blocks'[i] = blocks[i] /\ i \in DOMAIN blocks
            BY <2>4, <3>1, <5>1, AppendToSequence
          <5> QED BY <5>2 DEF TypeInv, Tables
        <4> QED BY <4>1, <4>2
      <3> QED BY <2>2, <2>4, <3>1, <3>2, AppendToSequence
    <2>7. Tables' BY <2>1, <2>2, <2>3, <2>6 DEF TypeInv, Tables
    <2>8. Progress' BY <1>1, <2>1, FinishedKeeps
    <2> QED BY <2>1, <2>7, <2>8 DEF TypeInv
  <1> QED BY <1>2, <1>3

LEMMA LowerAssignKeeps ==
    ASSUME TypeInv, NEW f \in Form, f.sort = "assign", LowerAssign(f)
    PROVE  TypeInv' /\ UNCHANGED table
  <1>1. /\ Lowering /\ phase # "emitted" /\ f.sort \in Range(Sorts)
    BY TakesFacts DEF LowerAssign
  <1>2. CASE \E kind : Fail(kind)
    BY <1>1, <1>2, FailKeeps
  <1>3. CASE ~\E kind : Fail(kind)
    <2>1. /\ f.dest \in DOMAIN lookup
          /\ \E v : assigns' = Append(assigns, [dest |-> lookup[f.dest].id, value |-> v])
          /\ phase' = f.sort
          /\ UNCHANGED <<table, clocking, enums, members, blocks>> /\ Finished
      BY <1>3, Zenon DEF LowerAssign
    <2>2. UNCHANGED <<ports, registers, lookup>> BY <2>1 DEF table
    <2>3. TableInv' BY <2>2 DEF TypeInv, Tables, TableInv, TableTypeOK, IdsNameSignals
    <2>4. PICK a : assigns' = Append(assigns, a) /\ a.dest = lookup[f.dest].id
      <3>1. PICK v : assigns' = Append(assigns, [dest |-> lookup[f.dest].id, value |-> v])
        BY <2>1
      <3> DEFINE a == [dest |-> lookup[f.dest].id, value |-> v]
      <3>2. assigns' = Append(assigns, a) /\ a.dest = lookup[f.dest].id BY <3>1
      <3> QED BY <3>2
    <2>5. a.dest \in 0..(Len(ports) + Len(registers) - 1)
      <3>1. /\ lookup[f.dest].id \in Nat /\ Len(ports) \in Nat /\ Len(registers) \in Nat
            /\ lookup[f.dest].id < Len(ports) + Len(registers)
        BY <2>1 DEF TypeInv, Tables, TableInv, TableTypeOK, Signal, IdsNameSignals
      <3> QED BY <2>4, <3>1
    <2>6. /\ IsSequence(assigns')
          /\ \A i \in DOMAIN assigns' :
                assigns'[i].dest \in 0..(Len(ports') + Len(registers') - 1)
      <3>1. IsSequence(assigns) BY DEF TypeInv, Tables
      <3>2. ASSUME NEW i \in 1..(Len(assigns) + 1)
            PROVE  assigns'[i].dest \in 0..(Len(ports) + Len(registers) - 1)
        <4>1. CASE i = Len(assigns) + 1 BY <2>4, <2>5, <3>1, <4>1, AppendToSequence
        <4>2. CASE i # Len(assigns) + 1
          <5>1. i \in 1..Len(assigns) BY <3>1, <4>2, AppendToSequence
          <5>2. assigns'[i] = assigns[i] /\ i \in DOMAIN assigns
            BY <2>4, <3>1, <5>1, AppendToSequence
          <5> QED BY <5>2 DEF TypeInv, Tables
        <4> QED BY <4>1, <4>2
      <3> QED BY <2>2, <2>4, <3>1, <3>2, AppendToSequence
    <2>7. Tables' BY <2>1, <2>2, <2>3, <2>6 DEF TypeInv, Tables
    <2>8. Progress' BY <1>1, <2>1, FinishedKeeps
    <2> QED BY <2>1, <2>7, <2>8 DEF TypeInv
  <1> QED BY <1>2, <1>3

LEMMA EndModuleKeeps ==
    ASSUME TypeInv, EndModule
    PROVE  TypeInv' /\ TableNext
  <1>1. /\ Lowering /\ ClearTable /\ phase' = "between"
        /\ clocking' = <<>> /\ members' = <<>> /\ assigns' = <<>> /\ blocks' = <<>>
        /\ \E m : design' = Append(design, m)
        /\ UNCHANGED <<offered, portsDue, text>>
    BY DEF EndModule
  <1>2. TableInv' /\ TableNext BY <1>1, ClearTableKeeps DEF TableNext
  <1>3. Tables'
    <2>1. ports' = <<>> /\ registers' = <<>> /\ lookup' = <<>> BY <1>1 DEF ClearTable
    <2> QED BY <1>1, <1>2, <2>1, EmptySequence DEF Tables
  <1>4. Progress'
    <2>1. PICK m : design' = Append(design, m) BY <1>1
    <2>2. IsSequence(design) /\ Len(design) < offer.length /\ text = <<>> /\ offer.length \in Nat
      BY <1>1, SortsRange, OfferedForms DEF TypeInv, Progress, Lowering
    <2>3. IsSequence(design') /\ Len(design') <= offer.length
      BY <2>1, <2>2, AppendToSequence
    <2>4. ~Lowering' BY <1>1, SortsRange DEF Lowering
    <2> QED BY <1>1, <2>2, <2>3, <2>4 DEF TypeInv, Progress, offer
  <1> QED BY <1>2, <1>3, <1>4 DEF TypeInv

LEMMA VerifyKeepsTypes ==
    ASSUME TypeInv, Verify
    PROVE  TypeInv' /\ UNCHANGED table
  <1>1. /\ UNCHANGED <<ports, registers, lookup, clocking, members, assigns, blocks>>
        /\ UNCHANGED <<offered, portsDue, design, text>> /\ phase = "between"
        /\ phase' \in {"verified", "rejected"}
    BY DEF Verify, tables, table
  <1>2. UNCHANGED table BY <1>1 DEF table
  <1>3. Tables'
    BY <1>1 DEF TypeInv, Tables, TableInv, TableTypeOK, IdsNameSignals
  <1>4. ~Lowering' BY <1>1, SortsRange DEF Lowering
  <1>5. Progress' BY <1>1, <1>4 DEF TypeInv, Progress, offer
  <1> QED BY <1>2, <1>3, <1>5 DEF TypeInv

LEMMA EmitKeepsTypes ==
    ASSUME TypeInv, Emit
    PROVE  TypeInv' /\ UNCHANGED table
  <1>1. /\ UNCHANGED <<ports, registers, lookup, clocking, members, assigns, blocks>>
        /\ UNCHANGED <<offered, portsDue, design>> /\ phase' = "emitted"
        /\ \E t : text' = [k \in DOMAIN design |-> t[k]]
    BY DEF Emit, tables, table
  <1>2. UNCHANGED table BY <1>1 DEF table
  <1>3. Tables'
    BY <1>1 DEF TypeInv, Tables, TableInv, TableTypeOK, IdsNameSignals
  <1>4. ~Lowering' BY <1>1, SortsRange DEF Lowering
  <1>5. Len(text') = Len(design')
    <2>1. IsSequence(design) BY DEF TypeInv, Progress
    <2> QED BY <1>1, <2>1, LenOfDomain
  <1>6. Progress' BY <1>1, <1>4, <1>5 DEF TypeInv, Progress, offer
  <1> QED BY <1>2, <1>3, <1>6 DEF TypeInv

LEMMA TypeInvInit == Init => TypeInv
  <1> SUFFICES ASSUME Init PROVE TypeInv OBVIOUS
  <1>1. /\ EmptyTable /\ clocking = <<>> /\ members = <<>> /\ assigns = <<>> /\ blocks = <<>>
        /\ offered \in DOMAIN Offers /\ phase = "between"
        /\ portsDue = <<>> /\ design = <<>> /\ text = <<>>
    BY DEF Init
  <1>2. Tables
    <2>1. ports = <<>> /\ registers = <<>> /\ lookup = <<>> BY <1>1 DEF EmptyTable
    <2> QED BY <1>1, <2>1, TableInvInit, EmptySequence DEF Tables
  <1>3. offer.length \in Nat BY <1>1, OffersAssumption DEF offer
  <1>4. ~Lowering BY <1>1, SortsRange DEF Lowering
  <1>5. Progress BY <1>1, <1>3, <1>4, EmptySequence DEF Progress
  <1> QED BY <1>2, <1>5 DEF TypeInv

LEMMA MalformedKeeps ==
    ASSUME TypeInv, Malformed
    PROVE  TypeInv' /\ UNCHANGED table
  BY FailKeeps, SortsRange DEF Malformed, Lowering

LEMMA LowerFormKeeps ==
    ASSUME TypeInv, NEW f \in Form, LowerForm(f)
    PROVE  TypeInv' /\ [TableNext]_table
  BY LowerEnumKeeps, DeclareRegisterKeeps, LowerOutputRegisterKeeps, DeclareForClockedKeeps,
     LowerClockedKeeps, LowerAssignKeeps DEF LowerForm

LEMMA TypeInvStep ==
    ASSUME TypeInv, [Next]_vars
    PROVE  TypeInv' /\ [TableNext]_table
  <1>1. CASE \E name \in offer.modules : BeginModule(name)
    BY <1>1, BeginModuleKeeps
  <1>2. CASE LowerPort
    BY <1>2, LowerPortKeeps
  <1>3. CASE /\ source.place \in DOMAIN offer.forms
             /\ \E f \in offer.forms[source.place] : LowerForm(f)
    <2>1. PICK f \in offer.forms[source.place] : LowerForm(f) BY <1>3
    <2>2. f \in Form BY <1>3, OfferedForms
    <2> QED BY <2>1, <2>2, LowerFormKeeps
  <1>4. CASE LowerRegister
    BY <1>4, LowerRegisterKeeps
  <1>5. CASE Malformed
    BY <1>5, MalformedKeeps
  <1>6. CASE EndModule
    BY <1>6, EndModuleKeeps
  <1>7. CASE Verify
    BY <1>7, VerifyKeepsTypes
  <1>8. CASE Emit
    BY <1>8, EmitKeepsTypes
  <1>9. CASE UNCHANGED vars
    <2>1. /\ UNCHANGED <<ports, registers, lookup, clocking, members, assigns, blocks>>
          /\ UNCHANGED <<offered, phase, portsDue, design, text>>
      BY <1>9 DEF vars, tables, table
    <2>2. UNCHANGED table BY <2>1 DEF table
    <2>3. Tables'
      BY <2>1 DEF TypeInv, Tables, TableInv, TableTypeOK, IdsNameSignals
    <2>4. Progress' BY <2>1 DEF TypeInv, Progress, offer, Lowering
    <2> QED BY <2>2, <2>3, <2>4 DEF TypeInv
  <1> QED BY <1>1, <1>2, <1>3, <1>4, <1>5, <1>6, <1>7, <1>8, <1>9 DEF Next

LEMMA TypeInvariant == Spec => []TypeInv
  <1>1. TypeInv /\ [Next]_vars => TypeInv' BY TypeInvStep
  <1> QED BY <1>1, TypeInvInit, PTL DEF Spec

\* All tables of the backend stay of their types, whatever the source: ids are
\* positions, clocks are input ports, and as many modules are emitted as there are.
THEOREM HardwareTypes == Spec => []TypeOK
  <1>1. TypeInv => TypeOK
    <2> SUFFICES ASSUME TypeInv PROVE TypeOK OBVIOUS
    <2>1. Len(ports) \in Nat BY DEF TypeInv, Tables, TableInv, TableTypeOK
    <2>2. \A i \in DOMAIN blocks : blocks[i].clock < Len(ports)
      BY <2>1 DEF TypeInv, Tables
    <2> QED BY <2>2 DEF TypeInv, Tables, Progress, TypeOK, TableInv
  <1> QED BY <1>1, TypeInvariant, PTL

\* The backend does to the table of signals what TableSpec says: the lowering of
\* ports, registers and declarations, in the order of the sorts, with attributes,
\* blocks and assignments between them, implements the table.
THEOREM BackendKeepsTable == Spec => TableSpec
  <1>1. Init => EmptyTable BY DEF Init
  <1>2. TypeInv /\ [Next]_vars => [TableNext]_table BY TypeInvStep
  <1> QED BY <1>1, <1>2, TypeInvariant, PTL DEF Spec, TableSpec

\* Whatever the source, signal_name and signal_type lead the id of a name back to
\* the name and its type, in every state of the backend.
THEOREM BackendIdsLeadBack == Spec => []IdsNameSignals
  <1> QED BY BackendKeepsTable, IdsLeadBack, PTL

-----------------------------------------------------------------------------
(* The attributes of a register *)

\* The emitted register of this name, with this clocking.
ClockText(c, name, t) ==
    [driver |-> "always", edge |-> Sensitivity(c.edge), clock |-> NameOf(c.clock, t),
     writes |-> {name},
     reset |-> {<<NameOf(c.reset[k].signal, t), c.reset[k].level>> : k \in DOMAIN c.reset},
     reads |-> Read(c.next, t) \cup (UNION {Read(c.enable[k], t) : k \in DOMAIN c.enable})
                 \cup UNION {Read(c.reset[k].value, t) \cup {NameOf(c.reset[k].signal, t)} :
                                k \in DOMAIN c.reset}]

\* A clock that the verifier accepts for a register of type ty.
InputBit(id, t) ==
    /\ id \in 0..(Len(t.ports) - 1)
    /\ t.ports[id + 1].direction = Input /\ t.ports[id + 1].ty.width = 1
OneBit(id, t) == id \in DOMAIN Typed(t).type /\ Typed(t).type[id].width = 1
EnableOK(enable, t) == enable = <<>> \/ \E e \in Good(t) : enable = <<e>> /\ e.ty.width = 1
ResetOK(reset, ty, t) ==
    \/ reset = <<>>
    \/ \E r : /\ reset = <<r>> /\ OneBit(r.signal, t)
              /\ r.value \in Good(t) /\ r.value.ty = ty
ClockOK(c, f, ty, t) ==
    /\ c # NoClock /\ InputBit(c.clock, t)
    /\ c.next \in Good(t) /\ c.next.ty = ty
    /\ EnableOK(c.enable, t) /\ ResetOK(c.reset, ty, t)
    /\ ClockText(c, f.name, t) = WantedOf(f)

\* Input signals are input ports.
InputsAreInputs(t) ==
    \A n \in DOMAIN lookup : lookup[n].direction = Input =>
        /\ lookup[n].id \in 0..(Len(t.ports) - 1)
        /\ t.ports[lookup[n].id + 1].direction = Input
        /\ t.ports[lookup[n].id + 1].ty = lookup[n].ty

LEMMA AttributeFacts ==
    ASSUME NEW a \in Attribute
    PROVE  /\ a.attr \in {"clock", "next", "enable", "reset"}
           /\ a.attr = "clock" => a.signal \in Names /\ a.edge \in Edge
           /\ a.attr \in {"next", "enable"} => a.value \in CoreExpr
           /\ a.attr = "reset" => /\ a.signal \in Names /\ a.level \in {"high", "low"}
                                  /\ a.value \in CoreExpr
  BY DEF Attribute

\* What an attribute is lowered to, if there is no error.
AttributeOK(r, a, ty, t) ==
    /\ a.attr = "clock" => InputBit(r.clock, t) /\ NameOf(r.clock, t) = a.signal /\ r.edge = a.edge
    /\ a.attr = "next" => r \in Good(t) /\ r.ty = ty /\ Read(r, t) = NamesIn(a.value)
    /\ a.attr = "enable" => r \in Good(t) /\ Read(r, t) = NamesIn(a.value)
    /\ a.attr = "reset" => /\ OneBit(r.signal, t) /\ NameOf(r.signal, t) = a.signal
                           /\ r.level = a.level
                           /\ r.value \in Good(t) /\ r.value.ty = ty
                           /\ Read(r.value, t) = NamesIn(a.value)

LEMMA AttributeLowered ==
    ASSUME NEW t, EnvOK(Env, t), InputsAreInputs(t), NEW a \in Attribute, NEW ty \in HwTypes,
           NEW strict \in BOOLEAN, ~IsError(LowerAttribute(a, ty, strict))
    PROVE  AttributeOK(LowerAttribute(a, ty, strict), a, ty, t)
  <1> DEFINE r == LowerAttribute(a, ty, strict)
             value(x) == LowerCore(a.value, Env, x)
  <1>1. \A kind : IsError(Error(kind)) BY DEF IsError, Error
  <1>2. ty \in Expected /\ Untyped \in Expected /\ ty # Untyped
    BY TypeFacts DEF Expected, Untyped, Unsigned
  <1>3. Bit.width = 1 BY DEF Bit, Unsigned
  <1>4. \A n \in DOMAIN lookup : /\ lookup[n].id \in DOMAIN Typed(t).type
                                 /\ Typed(t).type[lookup[n].id] = lookup[n].ty
                                 /\ NameOf(lookup[n].id, t) = n
    BY DEF EnvOK, SignalsOK, Env
  <1>5. CASE a.attr = "clock"
    <2>1. /\ a.signal \in DOMAIN lookup /\ lookup[a.signal].direction = Input
          /\ lookup[a.signal].ty.width = 1
          /\ r = [clock |-> lookup[a.signal].id, edge |-> a.edge]
      BY <1>1, <1>3, <1>5 DEF LowerAttribute
    <2>2. r.clock = lookup[a.signal].id /\ r.edge = a.edge BY <2>1
    <2> HIDE DEF r
    <2>3. InputBit(r.clock, t) /\ NameOf(r.clock, t) = a.signal
      BY <1>4, <2>1, <2>2 DEF InputBit, InputsAreInputs
    <2> QED BY <1>5, <2>2, <2>3 DEF AttributeOK, r
  <1>6. CASE a.attr = "next"
    <2>1. r = value(ty) /\ a.value \in CoreExpr BY <1>6, AttributeFacts DEF LowerAttribute
    <2>2. r \in Results(a.value, ty, t) BY <1>2, <2>1, CoreLowered
    <2> HIDE DEF r
    <2>3. r \in Lowered(a.value, ty, t) BY <2>2, ResultFacts DEF r
    <2> QED BY <1>2, <1>6, <2>3, LoweredFacts DEF AttributeOK, r
  <1>7. CASE a.attr = "enable"
    <2>1. r = value(Untyped) /\ a.value \in CoreExpr BY <1>7, AttributeFacts DEF LowerAttribute
    <2>2. r \in Results(a.value, Untyped, t) BY <1>2, <2>1, CoreLowered
    <2> HIDE DEF r
    <2>3. r \in Lowered(a.value, Untyped, t) BY <2>2, ResultFacts DEF r
    <2> QED BY <1>2, <1>7, <2>3, LoweredFacts DEF AttributeOK, r
  <1>8. CASE a.attr = "reset"
    <2>1. /\ a.signal \in DOMAIN lookup /\ lookup[a.signal].ty.width = 1
          /\ ~IsError(value(ty)) /\ a.value \in CoreExpr
          /\ r = [signal |-> lookup[a.signal].id, level |-> a.level, value |-> value(ty)]
      BY <1>1, <1>3, <1>8, AttributeFacts DEF LowerAttribute
    <2>2. value(ty) \in Results(a.value, ty, t) BY <1>2, <2>1, CoreLowered
    <2>3. r.signal = lookup[a.signal].id /\ r.level = a.level /\ r.value = value(ty) BY <2>1
    <2> HIDE DEF r
    <2>4. r.value \in Lowered(a.value, ty, t) BY <2>1, <2>2, <2>3, ResultFacts
    <2>5. OneBit(r.signal, t) /\ NameOf(r.signal, t) = a.signal BY <1>4, <2>1, <2>3 DEF OneBit
    <2> QED BY <1>2, <1>8, <2>3, <2>4, <2>5, LoweredFacts DEF AttributeOK, r
  <1> QED BY <1>5, <1>6, <1>7, <1>8, AttributeFacts


\* The attributes of a register that were lowered are all different, and are
\* lowered one by one.
OnePerKind(attributes) ==
    \A i, j \in DOMAIN attributes : attributes[i].attr = attributes[j].attr => i = j
LEMMA AttributesApart ==
    ASSUME NEW attributes \in Seq(Attribute), NEW ty, NEW strict,
           ~IsError(LowerAttributes(attributes, ty, strict)),
           NEW low, low = [i \in DOMAIN attributes |->
                 AtMostOnce(LowerAttribute(attributes[i], ty, strict), i, attributes)]
    PROVE  /\ OnePerKind(attributes)
           /\ \A i \in DOMAIN attributes : /\ low[i] = LowerAttribute(attributes[i], ty, strict)
                                           /\ ~IsError(low[i])
           /\ LowerAttributes(attributes, ty, strict) = Clocking(attributes, low, strict)
           /\ ~AnyError(low)
  <1>1. Len(attributes) \in Nat /\ DOMAIN attributes = 1..Len(attributes) OBVIOUS
  <1>2. LowerAttributes(attributes, ty, strict) = Clocking(attributes, low, strict)
    BY DEF LowerAttributes
  <1>3. DOMAIN low = 1..Len(attributes) BY <1>1
  <1>4. Len(low) = Len(attributes) /\ Len(low) \in Nat
    <2>1. IsSequence(attributes) BY DEF IsSequence
    <2>2. \E g : low = [i \in DOMAIN attributes |-> g[i]]
      <3>1. low = [i \in DOMAIN attributes |-> low[i]] BY <1>1, <1>3
      <3> QED BY <3>1
    <2> QED BY <1>1, <2>1, <2>2, LenOfDomain
  <1>5. ~AnyError(low)
    <2>1. AnyError(low) => IsError(FirstError(low)) BY <1>3, <1>4, FirstErrorFacts
    <2> QED BY <1>2, <2>1 DEF Clocking
  <1>6. \A i \in DOMAIN attributes : ~IsError(low[i]) BY <1>1, <1>3, <1>5 DEF AnyError
  <1>7. \A kind : IsError(Error(kind)) BY DEF IsError, Error
  <1>8. ASSUME NEW i \in DOMAIN attributes
        PROVE  /\ low[i] = LowerAttribute(attributes[i], ty, strict)
               /\ \A j \in 1..(i - 1) : attributes[j].attr # attributes[i].attr
    <2>1. low[i] = AtMostOnce(LowerAttribute(attributes[i], ty, strict), i, attributes) OBVIOUS
    <2> QED BY <1>6, <1>7, <2>1 DEF AtMostOnce
  <1>9. OnePerKind(attributes)
    <2> SUFFICES ASSUME NEW i \in DOMAIN attributes, NEW j \in DOMAIN attributes,
                        attributes[i].attr = attributes[j].attr
                 PROVE  i = j
      BY DEF OnePerKind
    <2>1. i \in Int /\ j \in Int /\ i >= 1 /\ j >= 1 BY <1>1
    <2>2. CASE i < j
      <3>1. i \in 1..(j - 1) BY <2>1, <2>2
      <3> QED BY <1>8, <3>1
    <2>3. CASE j < i
      <3>1. j \in 1..(i - 1) BY <2>1, <2>3
      <3> QED BY <1>8, <3>1
    <2> QED BY <2>1, <2>2, <2>3
  <1> QED BY <1>2, <1>5, <1>6, <1>8, <1>9

\* Where an attribute is.
PlaceOf(attr, attributes) == CHOOSE i \in DOMAIN attributes : attributes[i].attr = attr
LEMMA PlaceFacts ==
    ASSUME NEW attributes, OnePerKind(attributes), NEW i \in DOMAIN attributes
    PROVE  /\ PlaceOf(attributes[i].attr, attributes) = i
           /\ {k \in DOMAIN attributes : attributes[k].attr = attributes[i].attr} = {i}
  <1>1. PlaceOf(attributes[i].attr, attributes) \in DOMAIN attributes
        /\ attributes[PlaceOf(attributes[i].attr, attributes)].attr = attributes[i].attr
    BY DEF PlaceOf
  <1> QED BY <1>1 DEF OnePerKind

\* The attribute of a kind, if there is one.
Some(attr, attributes, low) ==
    IF {i \in DOMAIN attributes : attributes[i].attr = attr} = {} THEN <<>>
    ELSE <<low[PlaceOf(attr, attributes)]>>
Has(attr, attributes) == \E i \in DOMAIN attributes : attributes[i].attr = attr
LEMMA ClockingFacts ==
    ASSUME NEW attributes, OnePerKind(attributes), NEW low, NEW strict, ~AnyError(low),
           ~IsError(Clocking(attributes, low, strict))
    PROVE  /\ Has("clock", attributes) /\ Has("next", attributes)
           /\ Has("enable", attributes)
                => low[PlaceOf("enable", attributes)].ty.width = 1
           /\ Clocking(attributes, low, strict) =
                [clock |-> low[PlaceOf("clock", attributes)].clock,
                 edge |-> low[PlaceOf("clock", attributes)].edge,
                 next |-> low[PlaceOf("next", attributes)],
                 enable |-> Some("enable", attributes, low),
                 reset |-> Some("reset", attributes, low)]
  <1> DEFINE at(attr) == {i \in DOMAIN attributes : attributes[i].attr = attr}
             the(attr) == low[CHOOSE i \in at(attr) : TRUE]
             some(attr) == IF at(attr) = {} THEN <<>> ELSE <<the(attr)>>
  <1>1. \A kind : IsError(Error(kind)) BY DEF IsError, Error
  <1>2. ASSUME NEW attr, at(attr) # {}
        PROVE  the(attr) = low[PlaceOf(attr, attributes)]
    <2>1. PICK i \in DOMAIN attributes : attributes[i].attr = attr BY <1>2
    <2>2. at(attr) = {i} /\ PlaceOf(attr, attributes) = i BY <2>1, PlaceFacts
    <2>3. (CHOOSE k \in at(attr) : TRUE) = i
      <3>1. \A k \in {i} : k = i OBVIOUS
      <3>2. (CHOOSE k \in {i} : TRUE) \in {i} OBVIOUS
      <3> QED BY <2>2, <3>2
    <2> QED BY <2>2, <2>3
  <1>3. /\ at("clock") # {} /\ at("next") # {}
        /\ at("enable") # {} => the("enable").ty.width = 1
        /\ Clocking(attributes, low, strict) =
             [clock |-> the("clock").clock, edge |-> the("clock").edge,
              next |-> the("next"), enable |-> some("enable"), reset |-> some("reset")]
    <2>1. Clocking(attributes, low, strict) =
            IF at("clock") = {} \/ at("next") = {} THEN Error("InvalidModule")
            ELSE IF at("enable") # {} /\ strict /\ the("enable").ty # Bit
            THEN Error("InvalidCondition")
            ELSE IF at("enable") # {} /\ the("enable").ty.width # 1 THEN Error("TypeMismatch")
            ELSE [clock |-> the("clock").clock, edge |-> the("clock").edge,
                  next |-> the("next"), enable |-> some("enable"), reset |-> some("reset")]
      BY DEF Clocking
    <2> HIDE DEF at, the, some
    <2>2. ~IsError(IF at("clock") = {} \/ at("next") = {} THEN Error("InvalidModule")
            ELSE IF at("enable") # {} /\ strict /\ the("enable").ty # Bit
            THEN Error("InvalidCondition")
            ELSE IF at("enable") # {} /\ the("enable").ty.width # 1 THEN Error("TypeMismatch")
            ELSE [clock |-> the("clock").clock, edge |-> the("clock").edge,
                  next |-> the("next"), enable |-> some("enable"), reset |-> some("reset")])
      BY <2>1
    <2> QED BY <1>1, <2>1, <2>2
  <1>4. ASSUME NEW attr PROVE some(attr) = Some(attr, attributes, low)
    <2>1. CASE at(attr) = {} BY <2>1 DEF Some
    <2>2. CASE at(attr) # {}
      <3>1. the(attr) = low[PlaceOf(attr, attributes)] BY <1>2, <2>2
      <3>2. some(attr) = <<the(attr)>> BY <2>2
      <3>3. Some(attr, attributes, low) = <<low[PlaceOf(attr, attributes)]>> BY <2>2 DEF Some
      <3> QED BY <3>1, <3>2, <3>3
    <2> QED BY <2>1, <2>2
  <1>5. \A attr : at(attr) # {} <=> Has(attr, attributes) BY DEF Has
  <1> HIDE DEF at, the, some
  <1>6. /\ the("clock") = low[PlaceOf("clock", attributes)]
        /\ the("next") = low[PlaceOf("next", attributes)]
        /\ at("enable") # {} => the("enable") = low[PlaceOf("enable", attributes)]
    BY <1>2, <1>3
  <1> QED BY <1>3, <1>4, <1>5, <1>6


\* The attributes of a kind: one, at its place, or none.
OfAttr(attr, attributes) == {b \in Range(attributes) : b.attr = attr}
LEMMA OfAttrFacts ==
    ASSUME NEW attributes, OnePerKind(attributes), NEW attr, NEW low
    PROVE  /\ Has(attr, attributes)
                => /\ PlaceOf(attr, attributes) \in DOMAIN attributes
                   /\ attributes[PlaceOf(attr, attributes)].attr = attr
                   /\ OfAttr(attr, attributes) = {attributes[PlaceOf(attr, attributes)]}
                   /\ Some(attr, attributes, low) = <<low[PlaceOf(attr, attributes)]>>
           /\ ~Has(attr, attributes)
                => OfAttr(attr, attributes) = {} /\ Some(attr, attributes, low) = <<>>
  <1>1. CASE Has(attr, attributes)
    <2>1. PICK i \in DOMAIN attributes : attributes[i].attr = attr BY <1>1 DEF Has
    <2>2. PlaceOf(attr, attributes) = i /\ {k \in DOMAIN attributes : attributes[k].attr = attr} = {i}
      BY <2>1, PlaceFacts
    <2>3. OfAttr(attr, attributes) = {attributes[i]} BY <2>1, <2>2 DEF OfAttr, Range
    <2>4. Some(attr, attributes, low) = <<low[PlaceOf(attr, attributes)]>> BY <2>2 DEF Some
    <2> QED BY <1>1, <2>1, <2>2, <2>3, <2>4
  <1>2. CASE ~Has(attr, attributes)
    <2>1. {k \in DOMAIN attributes : attributes[k].attr = attr} = {} BY <1>2 DEF Has
    <2>2. OfAttr(attr, attributes) = {} BY <1>2 DEF OfAttr, Has, Range
    <2>3. Some(attr, attributes, low) = <<>> BY <2>1 DEF Some
    <2> QED BY <1>2, <2>2, <2>3
  <1> QED BY <1>1, <1>2

\* The names an attribute reads.
ReadBy(a) == IF a.attr = "clock" THEN {}
             ELSE NamesIn(a.value) \cup (IF a.attr = "reset" THEN {a.signal} ELSE {})

ReadByAll(as) == UNION {ReadBy(a) : a \in as}

\* Parts of the text of a register.
ResetsOf(reset, t) == {<<NameOf(reset[k].signal, t), reset[k].level>> : k \in DOMAIN reset}
EnableReads(enable, t) == UNION {Read(enable[k], t) : k \in DOMAIN enable}
ResetReads(reset, t) ==
    UNION {Read(reset[k].value, t) \cup {NameOf(reset[k].signal, t)} : k \in DOMAIN reset}
TextFrom(attributes, low, t) ==
    /\ ResetsOf(Some("reset", attributes, low), t)
         = {<<a.signal, a.level>> : a \in OfAttr("reset", attributes)}
    /\ Has("next", attributes)
         => Read(low[PlaceOf("next", attributes)], t) = ReadByAll(OfAttr("next", attributes))
    /\ EnableReads(Some("enable", attributes, low), t) = ReadByAll(OfAttr("enable", attributes))
    /\ ResetReads(Some("reset", attributes, low), t) = ReadByAll(OfAttr("reset", attributes))

\* What of the text comes from each attribute.
LEMMA TextOfAttributes ==
    ASSUME NEW t, NEW attributes \in Seq(Attribute), OnePerKind(attributes), NEW ty,
           NEW low, \A i \in DOMAIN attributes : AttributeOK(low[i], attributes[i], ty, t)
    PROVE  TextFrom(attributes, low, t)
  <1> DEFINE at(attr) == PlaceOf(attr, attributes)
             some(attr) == Some(attr, attributes, low)
  <1>1. ASSUME NEW attr, Has(attr, attributes)
        PROVE  /\ at(attr) \in DOMAIN attributes /\ attributes[at(attr)].attr = attr
               /\ OfAttr(attr, attributes) = {attributes[at(attr)]} /\ some(attr) = <<low[at(attr)]>>
               /\ AttributeOK(low[at(attr)], attributes[at(attr)], ty, t)
    BY <1>1, OfAttrFacts
  <1>2. ASSUME NEW attr, ~Has(attr, attributes)
        PROVE  OfAttr(attr, attributes) = {} /\ some(attr) = <<>>
    BY <1>2, OfAttrFacts
  <1> HIDE DEF at, some
  <1>4. {<<NameOf(some("reset")[k].signal, t), some("reset")[k].level>> : k \in DOMAIN some("reset")}
          = {<<a.signal, a.level>> : a \in OfAttr("reset", attributes)}
    <2>1. CASE Has("reset", attributes)
      <3> DEFINE a0 == attributes[at("reset")]
                 r0 == low[at("reset")]
      <3>1. a0.attr = "reset" /\ AttributeOK(r0, a0, ty, t) /\ OfAttr("reset", attributes) = {a0}
            /\ some("reset") = <<r0>>
        BY <1>1, <2>1
      <3> HIDE DEF a0, r0
      <3>2. NameOf(r0.signal, t) = a0.signal /\ r0.level = a0.level BY <3>1 DEF AttributeOK
      <3>3. DOMAIN some("reset") = {1} /\ some("reset")[1] = r0 BY <3>1
      <3> QED BY <3>1, <3>2, <3>3
    <2>2. CASE ~Has("reset", attributes)
      <3>1. OfAttr("reset", attributes) = {} /\ DOMAIN some("reset") = {} BY <1>2, <2>2
      <3> QED BY <3>1
    <2> QED BY <2>1, <2>2
  <1>5. ASSUME Has("next", attributes)
        PROVE  Read(low[at("next")], t) = UNION {ReadBy(a) : a \in OfAttr("next", attributes)}
    <2> DEFINE a0 == attributes[at("next")]
               r0 == low[at("next")]
    <2>1. a0.attr = "next" /\ AttributeOK(r0, a0, ty, t) /\ OfAttr("next", attributes) = {a0}
      BY <1>1, <1>5
    <2> HIDE DEF a0, r0
    <2>2. Read(r0, t) = NamesIn(a0.value) BY <2>1 DEF AttributeOK
    <2>3. ReadBy(a0) = NamesIn(a0.value) BY <2>1 DEF ReadBy
    <2>4. UNION {ReadBy(a) : a \in {a0}} = ReadBy(a0) OBVIOUS
    <2> QED BY <2>1, <2>2, <2>3, <2>4 DEF r0
  <1>6. UNION {Read(some("enable")[k], t) : k \in DOMAIN some("enable")}
          = UNION {ReadBy(a) : a \in OfAttr("enable", attributes)}
    <2>1. CASE Has("enable", attributes)
      <3> DEFINE a0 == attributes[at("enable")]
                 r0 == low[at("enable")]
      <3>1. a0.attr = "enable" /\ AttributeOK(r0, a0, ty, t) /\ OfAttr("enable", attributes) = {a0}
            /\ some("enable") = <<r0>>
        BY <1>1, <2>1
      <3> HIDE DEF a0, r0
      <3>2. Read(r0, t) = NamesIn(a0.value) BY <3>1 DEF AttributeOK
      <3>3. ReadBy(a0) = NamesIn(a0.value) BY <3>1 DEF ReadBy
      <3>4. DOMAIN some("enable") = {1} /\ some("enable")[1] = r0 BY <3>1
      <3>5. UNION {Read(some("enable")[k], t) : k \in {1}} = Read(some("enable")[1], t) OBVIOUS
      <3>6. UNION {ReadBy(a) : a \in {a0}} = ReadBy(a0) OBVIOUS
      <3> QED BY <3>1, <3>2, <3>3, <3>4, <3>5, <3>6
    <2>2. CASE ~Has("enable", attributes)
      <3>1. OfAttr("enable", attributes) = {} /\ DOMAIN some("enable") = {} BY <1>2, <2>2
      <3> QED BY <3>1
    <2> QED BY <2>1, <2>2
  <1>7. UNION {Read(some("reset")[k].value, t) \cup {NameOf(some("reset")[k].signal, t)} :
                  k \in DOMAIN some("reset")}
          = UNION {ReadBy(a) : a \in OfAttr("reset", attributes)}
    <2>1. CASE Has("reset", attributes)
      <3> DEFINE a0 == attributes[at("reset")]
                 r0 == low[at("reset")]
      <3>1. a0.attr = "reset" /\ AttributeOK(r0, a0, ty, t) /\ OfAttr("reset", attributes) = {a0}
            /\ some("reset") = <<r0>>
        BY <1>1, <2>1
      <3> HIDE DEF a0, r0
      <3>2. Read(r0.value, t) = NamesIn(a0.value) /\ NameOf(r0.signal, t) = a0.signal
        BY <3>1 DEF AttributeOK
      <3>3. ReadBy(a0) = NamesIn(a0.value) \cup {a0.signal} BY <3>1 DEF ReadBy
      <3>4. DOMAIN some("reset") = {1} /\ some("reset")[1] = r0 BY <3>1
      <3>5. UNION {Read(some("reset")[k].value, t) \cup {NameOf(some("reset")[k].signal, t)} : k \in {1}}
              = Read(some("reset")[1].value, t) \cup {NameOf(some("reset")[1].signal, t)}
        OBVIOUS
      <3>6. UNION {ReadBy(a) : a \in {a0}} = ReadBy(a0) OBVIOUS
      <3> QED BY <3>1, <3>2, <3>3, <3>4, <3>5, <3>6
    <2>2. CASE ~Has("reset", attributes)
      <3>1. OfAttr("reset", attributes) = {} /\ DOMAIN some("reset") = {} BY <1>2, <2>2
      <3> QED BY <3>1
    <2> QED BY <2>1, <2>2
  <1> QED BY <1>4, <1>5, <1>6, <1>7
          DEF at, some, TextFrom, ResetsOf, EnableReads, ResetReads, ReadByAll


\* What a register with these attributes is to be emitted as.
LEMMA WantedOfRegister ==
    ASSUME NEW f, f.sort \in {"register", "direct"}, f.attributes \in Seq(Attribute),
           OnePerKind(f.attributes), Has("clock", f.attributes)
    PROVE  WantedOf(f) =
             [driver |-> "always",
              edge |-> WantedEdge(f.attributes[PlaceOf("clock", f.attributes)].edge),
              clock |-> f.attributes[PlaceOf("clock", f.attributes)].signal,
              reset |-> {<<a.signal, a.level>> : a \in OfAttr("reset", f.attributes)},
              writes |-> {f.name}, reads |-> ReadByAll(Range(f.attributes))]
  <1> DEFINE clock == CHOOSE a \in Range(f.attributes) : a.attr = "clock"
             place == PlaceOf("clock", f.attributes)
  <1>1. OfAttr("clock", f.attributes) = {f.attributes[place]} BY OfAttrFacts
  <1>2. clock = f.attributes[place]
    <2>1. \E a \in Range(f.attributes) : a.attr = "clock" BY <1>1 DEF OfAttr
    <2>2. clock \in Range(f.attributes) /\ clock.attr = "clock" BY <2>1
    <2>3. clock \in OfAttr("clock", f.attributes) BY <2>2 DEF OfAttr
    <2> QED BY <1>1, <2>3
  <1>3. WantedOf(f) =
          [driver |-> "always", edge |-> WantedEdge(clock.edge), clock |-> clock.signal,
           reset |-> {<<a.signal, a.level>> :
                        a \in {b \in Range(f.attributes) : b.attr = "reset"}},
           writes |-> {f.name},
           reads |-> UNION {IF a.attr = "clock" THEN {}
                            ELSE NamesIn(a.value) \cup (IF a.attr = "reset" THEN {a.signal} ELSE {}) :
                               a \in Range(f.attributes)}]
    BY DEF WantedOf
  <1> HIDE DEF clock, place
  <1>4. {b \in Range(f.attributes) : b.attr = "reset"} = OfAttr("reset", f.attributes)
    BY DEF OfAttr
  <1>5. UNION {IF a.attr = "clock" THEN {}
               ELSE NamesIn(a.value) \cup (IF a.attr = "reset" THEN {a.signal} ELSE {}) :
                  a \in Range(f.attributes)}
          = ReadByAll(Range(f.attributes))
    BY DEF ReadBy, ReadByAll
  <1> QED BY <1>2, <1>3, <1>4, <1>5 DEF place

\* What all attributes read is what those of each kind read.
LEMMA ReadByKind ==
    ASSUME NEW attributes \in Seq(Attribute)
    PROVE  ReadByAll(Range(attributes))
             = ReadByAll(OfAttr("next", attributes)) \cup ReadByAll(OfAttr("enable", attributes))
                 \cup ReadByAll(OfAttr("reset", attributes))
  <1>1. \A a \in Range(attributes) : a.attr \in {"clock", "next", "enable", "reset"}
    BY RangeType, AttributeFacts
  <1>2. \A a : a.attr = "clock" => ReadBy(a) = {} BY DEF ReadBy
  <1>3. ASSUME NEW x, NEW a \in Range(attributes), x \in ReadBy(a)
        PROVE  \/ a \in OfAttr("next", attributes) \/ a \in OfAttr("enable", attributes)
               \/ a \in OfAttr("reset", attributes)
    BY <1>1, <1>2, <1>3 DEF OfAttr
  <1>4. \A attr : OfAttr(attr, attributes) \subseteq Range(attributes) BY DEF OfAttr
  <1>5. ASSUME NEW S, NEW x PROVE x \in ReadByAll(S) <=> \E a \in S : x \in ReadBy(a)
    BY DEF ReadByAll
  <1> DEFINE left == ReadByAll(Range(attributes))
             right == ReadByAll(OfAttr("next", attributes)) \cup ReadByAll(OfAttr("enable", attributes))
                        \cup ReadByAll(OfAttr("reset", attributes))
  <1>6. \A x : x \in left <=> x \in right BY <1>3, <1>4, <1>5
  <1> HIDE DEF left, right
  <1>7. left = right BY <1>6
  <1> QED BY <1>7 DEF left, right

LEMMA ClockLowered ==
    ASSUME NEW t, EnvOK(Env, t), InputsAreInputs(t), NEW ty \in HwTypes, NEW strict \in BOOLEAN,
           NEW f, f.sort \in {"register", "direct"}, f.attributes \in Seq(Attribute),
           ~IsError(LowerAttributes(f.attributes, ty, strict))
    PROVE  ClockOK(LowerAttributes(f.attributes, ty, strict), f, ty, t)
  <1> DEFINE attributes == f.attributes
             low == [i \in DOMAIN attributes |->
                       AtMostOnce(LowerAttribute(attributes[i], ty, strict), i, attributes)]
             c == LowerAttributes(attributes, ty, strict)
             at(attr) == PlaceOf(attr, attributes)
             some(attr) == Some(attr, attributes, low)
  <1>1. /\ OnePerKind(attributes)
        /\ \A i \in DOMAIN attributes : /\ low[i] = LowerAttribute(attributes[i], ty, strict)
                                        /\ ~IsError(low[i])
        /\ c = Clocking(attributes, low, strict) /\ ~AnyError(low)
    <2>1. ~IsError(c) OBVIOUS
    <2> HIDE DEF c
    <2>2. low = [i \in DOMAIN attributes |->
                 AtMostOnce(LowerAttribute(attributes[i], ty, strict), i, attributes)]
      OBVIOUS
    <2> HIDE DEF low
    <2> QED BY <2>1, <2>2, AttributesApart DEF c
  <1> HIDE DEF low
  <1>2. \A i \in DOMAIN attributes : AttributeOK(low[i], attributes[i], ty, t)
    <2> SUFFICES ASSUME NEW i \in DOMAIN attributes
                 PROVE  AttributeOK(low[i], attributes[i], ty, t)
      OBVIOUS
    <2>1. attributes[i] \in Attribute OBVIOUS
    <2> HIDE DEF attributes
    <2> QED BY <1>1, <2>1, AttributeLowered
  <1>3. /\ Has("clock", attributes) /\ Has("next", attributes)
        /\ Has("enable", attributes) => low[at("enable")].ty.width = 1
        /\ c = [clock |-> low[at("clock")].clock, edge |-> low[at("clock")].edge,
                next |-> low[at("next")], enable |-> some("enable"), reset |-> some("reset")]
    <2>1. ~IsError(Clocking(attributes, low, strict)) BY <1>1
    <2> HIDE DEF c, attributes
    <2> QED BY <1>1, <2>1, ClockingFacts
  <1>4. attributes \in Seq(Attribute) OBVIOUS
  <1>5. WantedOf(f) =
             [driver |-> "always", edge |-> WantedEdge(attributes[at("clock")].edge),
              clock |-> attributes[at("clock")].signal,
              reset |-> {<<a.signal, a.level>> : a \in OfAttr("reset", attributes)},
              writes |-> {f.name}, reads |-> ReadByAll(Range(attributes))]
    BY <1>1, <1>3, WantedOfRegister
  <1> HIDE DEF c, attributes
  <1>6. ASSUME NEW attr, Has(attr, attributes)
        PROVE  /\ AttributeOK(low[at(attr)], attributes[at(attr)], ty, t)
               /\ attributes[at(attr)].attr = attr /\ attributes[at(attr)] \in Attribute
               /\ some(attr) = <<low[at(attr)]>>
    BY <1>1, <1>2, <1>4, <1>6, OfAttrFacts
  <1>7. ASSUME NEW attr, ~Has(attr, attributes) PROVE some(attr) = <<>>
    BY <1>1, <1>7, OfAttrFacts
  <1> HIDE DEF at, some
  <1>8. /\ c.clock = low[at("clock")].clock /\ c.edge = low[at("clock")].edge
        /\ c.next = low[at("next")] /\ c.enable = some("enable") /\ c.reset = some("reset")
        /\ c # NoClock
    BY <1>3 DEF NoClock
  <1>9. /\ InputBit(c.clock, t) /\ NameOf(c.clock, t) = attributes[at("clock")].signal
        /\ c.edge = attributes[at("clock")].edge /\ c.edge \in Edge
    BY <1>3, <1>6, <1>8, AttributeFacts DEF AttributeOK
  <1>10. c.next \in Good(t) /\ c.next.ty = ty
    BY <1>3, <1>6, <1>8 DEF AttributeOK
  <1>11. EnableOK(c.enable, t)
    <2>1. CASE Has("enable", attributes)
      <3>1. low[at("enable")] \in Good(t) BY <1>6, <2>1 DEF AttributeOK
      <3> QED BY <1>3, <1>6, <1>8, <2>1, <3>1 DEF EnableOK
    <2>2. CASE ~Has("enable", attributes) BY <1>7, <1>8, <2>2 DEF EnableOK
    <2> QED BY <2>1, <2>2
  <1>12. ResetOK(c.reset, ty, t)
    <2>1. CASE Has("reset", attributes)
      <3>1. /\ OneBit(low[at("reset")].signal, t) /\ low[at("reset")].value \in Good(t)
            /\ low[at("reset")].value.ty = ty
        BY <1>6, <2>1 DEF AttributeOK
      <3> QED BY <1>6, <1>8, <2>1, <3>1 DEF ResetOK
    <2>2. CASE ~Has("reset", attributes) BY <1>7, <1>8, <2>2 DEF ResetOK
    <2> QED BY <2>1, <2>2
  <1>13. ClockText(c, f.name, t) = WantedOf(f)
    <2>1. TextFrom(attributes, low, t) BY <1>1, <1>2, <1>4, TextOfAttributes
    <2>2. \A edge \in Edge : Sensitivity(edge) = WantedEdge(edge)
      BY DEF Edge, Sensitivity, WantedEdge
    <2>3. ClockText(c, f.name, t) =
            [driver |-> "always", edge |-> Sensitivity(c.edge), clock |-> NameOf(c.clock, t),
             writes |-> {f.name}, reset |-> ResetsOf(c.reset, t),
             reads |-> Read(c.next, t) \cup EnableReads(c.enable, t) \cup ResetReads(c.reset, t)]
      BY DEF ClockText, ResetsOf, EnableReads, ResetReads
    <2>4. Read(c.next, t) \cup EnableReads(c.enable, t) \cup ResetReads(c.reset, t)
            = ReadByAll(Range(attributes))
      BY <1>3, <1>4, <1>8, <2>1, ReadByKind DEF TextFrom, at, some
    <2>6. ResetsOf(c.reset, t) = {<<a.signal, a.level>> : a \in OfAttr("reset", attributes)}
      BY <1>8, <2>1 DEF TextFrom, some
    <2>5. /\ Sensitivity(c.edge) = WantedEdge(attributes[at("clock")].edge)
          /\ NameOf(c.clock, t) = attributes[at("clock")].signal
      BY <1>9, <2>2
    <2> QED BY <1>5, <2>3, <2>4, <2>5, <2>6, Zenon
  <1> QED BY <1>8, <1>9, <1>10, <1>11, <1>12, <1>13 DEF ClockOK, c, attributes

-----------------------------------------------------------------------------
(* What is known of the signals: each has an id, the first there is for its *)
(* name, and the direction of its port; a register is an output.            *)

NameAt(j) == SignalName(j, ports, registers)
AllKnown == \A j \in 0..(Len(ports) + Len(registers) - 1) : NameAt(j) \in DOMAIN lookup
FirstIds == \A n \in DOMAIN lookup : \A j \in 0..(lookup[n].id - 1) : NameAt(j) # n
Directions ==
    \A n \in DOMAIN lookup :
        lookup[n].direction =
            IF lookup[n].id < Len(ports) THEN ports[lookup[n].id + 1].direction ELSE Output
RegistersKnown ==
    /\ \A i \in DOMAIN registers : /\ registers[i].name \in DOMAIN lookup
                                   /\ lookup[registers[i].name].direction = Output
                                   /\ lookup[registers[i].name].ty = registers[i].ty
    /\ \A i, j \in DOMAIN registers : registers[i].name = registers[j].name => i = j
PortsApart == \A i, j \in DOMAIN ports : FoldCase[ports[i].name] = FoldCase[ports[j].name] => i = j
SignalsKnown == AllKnown /\ FirstIds /\ Directions /\ RegistersKnown /\ PortsApart

\* The names when a signal is added: it comes last.
LEMMA NamesGrow ==
    ASSUME TableInv, TableInv',
           \/ \E p \in Port : ports' = Append(ports, p) /\ registers = <<>> /\ registers' = <<>>
           \/ \E r \in Register : ports' = ports /\ registers' = Append(registers, r)
    PROVE  /\ Len(ports) + Len(registers) \in Nat
           /\ Len(ports') + Len(registers') = Len(ports) + Len(registers) + 1
           /\ \A j \in 0..(Len(ports) + Len(registers) - 1) : SignalName(j, ports', registers') = NameAt(j)
           /\ SignalName(Len(ports) + Len(registers), ports', registers') =
                IF ports' = ports THEN registers'[Len(registers)+ 1].name
                ELSE ports'[Len(ports) + 1].name
  <1>1. /\ ports \in Seq(Port) /\ registers \in Seq(Register)
        /\ Len(ports) \in Nat /\ Len(registers) \in Nat
    BY DEF TableInv, TableTypeOK
  <1>2. CASE \E p \in Port : ports' = Append(ports, p) /\ registers = <<>> /\ registers' = <<>>
    <2>1. PICK p \in Port : ports' = Append(ports, p) /\ registers = <<>> /\ registers' = <<>>
      BY <1>2
    <2>2. Len(ports') = Len(ports) + 1 /\ ports' # ports /\ ports'[Len(ports) + 1] = p
          /\ \A i \in 1..Len(ports) : ports'[i] = ports[i]
      BY <1>1, <2>1
    <2>3. Len(registers) = 0 /\ Len(registers') = 0 BY <2>1
    <2>4. ASSUME NEW j \in 0..(Len(ports) + Len(registers) - 1) PROVE SignalName(j, ports', registers') = NameAt(j)
      BY <1>1, <2>2, <2>3 DEF NameAt, SignalName, IsPort
    <2>5. SignalName(Len(ports) + Len(registers), ports', registers') = ports'[Len(ports) + 1].name
      BY <1>1, <2>2, <2>3 DEF NameAt, SignalName, IsPort
    <2> QED BY <1>1, <2>2, <2>3, <2>4, <2>5
  <1>3. CASE \E r \in Register : ports' = ports /\ registers' = Append(registers, r)
    <2>1. PICK r \in Register : ports' = ports /\ registers' = Append(registers, r)
      BY <1>3
    <2>2. Len(registers') = Len(registers) + 1 /\ registers'[Len(registers) + 1] = r
      BY <1>1, <2>1
    <2>3. ASSUME NEW j \in 0..(Len(ports) + Len(registers) - 1) PROVE SignalName(j, ports', registers') = NameAt(j)
      <3>1. j \in Nat /\ j < Len(ports) + Len(registers) BY <1>1
      <3> QED BY <1>1, <2>1, <3>1, AppendKeepsSignals DEF NameAt
    <2>4. SignalName(Len(ports) + Len(registers), ports', registers') = registers'[Len(registers) + 1].name
      <3>1. ~(Len(ports) + Len(registers) < Len(ports))
            /\ Len(ports) + Len(registers) - Len(ports) + 1 = Len(registers) + 1
        BY <1>1
      <3> QED BY <2>1, <3>1 DEF NameAt, SignalName, IsPort
    <2> QED BY <1>1, <2>1, <2>2, <2>3, <2>4
  <1> QED BY <1>2, <1>3

\* A signal with an id of its own is added.
LEMMA NewSignalKnown ==
    ASSUME TableInv, SignalsKnown, NEW total \in Nat, total = Len(ports) + Len(registers),
           Len(ports') + Len(registers') = total + 1,
           \A j \in 0..(total - 1) : SignalName(j, ports', registers') = NameAt(j),
           NEW name, NEW ty, NEW direction, name \notin DOMAIN lookup, SignalName(total, ports', registers') = name,
           Enter(name, total, ty, direction)
    PROVE  AllKnown' /\ FirstIds'
  <1>1. /\ DOMAIN lookup' = DOMAIN lookup \cup {name} /\ lookup'[name].id = total
        /\ \A n \in DOMAIN lookup : lookup'[n] = lookup[n]
    BY DEF Enter
  <1>2. \A n \in DOMAIN lookup : lookup[n].id \in Nat /\ lookup[n].id < total
    BY DEF TableInv, TableTypeOK, Signal, IdsNameSignals
  <1>3. \A j \in 0..(total - 1) : NameAt(j) \in DOMAIN lookup BY DEF SignalsKnown, AllKnown
  <1>4. AllKnown'
    <2> SUFFICES ASSUME NEW j \in 0..total PROVE SignalName(j, ports', registers') \in DOMAIN lookup'
      BY DEF AllKnown, NameAt
    <2>1. CASE j = total BY <1>1, <2>1
    <2>2. CASE j # total
      <3>1. j \in 0..(total - 1) BY <2>2
      <3> QED BY <1>1, <1>3, <3>1
    <2> QED BY <2>1, <2>2
  <1>5. FirstIds'
    <2> SUFFICES ASSUME NEW n \in DOMAIN lookup', NEW j \in 0..(lookup'[n].id - 1)
                 PROVE  SignalName(j, ports', registers') # n
      BY DEF FirstIds, NameAt
    <2>1. CASE n = name
      <3>1. j \in 0..(total - 1) BY <1>1, <2>1
      <3> QED BY <1>3, <2>1, <3>1
    <2>2. CASE n # name
      <3>1. n \in DOMAIN lookup /\ lookup'[n] = lookup[n] BY <1>1, <2>2
      <3>2. j \in 0..(total - 1) /\ j \in 0..(lookup[n].id - 1) BY <1>2, <3>1
      <3> QED BY <3>1, <3>2 DEF SignalsKnown, FirstIds
    <2> QED BY <2>1, <2>2
  <1> QED BY <1>4, <1>5

LEMMA AddPortKnown ==
    ASSUME TableInv, SignalsKnown, NEW d \in {Input, Output}, NEW name \in Names,
           NEW ty \in Types, AddPort(d, name, ty)
    PROVE  SignalsKnown'
  <1> DEFINE p == [direction |-> d, name |-> name, ty |-> ty]
             total == Len(ports) + Len(registers)
  <1>1. /\ ports \in Seq(Port) /\ Len(ports) \in Nat /\ registers = <<>> /\ registers' = <<>>
        /\ Len(registers) = 0 /\ Len(registers') = 0
        /\ ports' = Append(ports, p) /\ ~PortTaken(name) /\ Enter(name, Len(ports), ty, d)
        /\ p \in Port
    BY DEF AddPort, TableInv, TableTypeOK, Port
  <1>10. /\ DOMAIN lookup' = DOMAIN lookup \cup {name}
         /\ lookup'[name].id = Len(ports) /\ lookup'[name].direction = d
         /\ \A n \in DOMAIN lookup : n # name => lookup'[n] = lookup[n]
    <2>1. Enter(name, Len(ports), ty, d) BY <1>1
    <2> QED BY <2>1 DEF Enter
  <1>2. TableInv' BY AddPortKeeps
  <1>3. name \notin DOMAIN lookup BY <1>1, NewPortIsUnknown
  <1>4. /\ Len(ports') = Len(ports) + 1 /\ ports'[Len(ports) + 1] = p /\ ports' # ports
        /\ \A i \in 1..Len(ports) : ports'[i] = ports[i]
        /\ DOMAIN ports' = 1..(Len(ports) + 1) /\ DOMAIN ports = 1..Len(ports)
        /\ p.name = name /\ p.direction = d
    BY <1>1
  <1> HIDE DEF p
  <1>5. /\ Len(ports') + Len(registers') = total + 1 /\ total = Len(ports)
        /\ \A j \in 0..(total - 1) : SignalName(j, ports', registers') = NameAt(j)
        /\ SignalName(total, ports', registers') = name
    <2>1. \E q \in Port : ports' = Append(ports, q) /\ registers = <<>> /\ registers' = <<>>
      BY <1>1
    <2>2. /\ Len(ports') + Len(registers') = total + 1
          /\ \A j \in 0..(total - 1) : SignalName(j, ports', registers') = NameAt(j)
          /\ SignalName(total, ports', registers') = ports'[Len(ports) + 1].name
      <3>1. ports' # ports BY <1>4
      <3> QED BY <1>2, <2>1, <3>1, NamesGrow
    <2>3. total = Len(ports)
      <3>1. Len(ports) \in Nat /\ Len(registers) = 0 BY <1>1
      <3> QED BY <3>1
    <2>4. ports'[Len(ports) + 1].name = name BY <1>4
    <2> QED BY <2>2, <2>3, <2>4
  <1>11. /\ Len(ports) \in Nat /\ Len(ports') = Len(ports) + 1
         /\ ports'[Len(ports) + 1].direction = d
         /\ \A i \in 1..Len(ports) : ports'[i] = ports[i]
    BY <1>1, <1>4
  <1>12. \A n \in DOMAIN lookup : lookup[n].id \in Nat /\ lookup[n].id < Len(ports)
    BY <1>1 DEF TableInv, TableTypeOK, Signal, IdsNameSignals
  <1>6. AllKnown' /\ FirstIds'
    <2>1. total \in Nat /\ Enter(name, total, ty, d) BY <1>1, <1>5
    <2> HIDE DEF total
    <2>2. total = Len(ports) + Len(registers) BY DEF total
    <2> QED BY <1>3, <1>5, <2>1, <2>2, NewSignalKnown
  <1>7. Directions'
    <2> SUFFICES ASSUME NEW n \in DOMAIN lookup'
                 PROVE  lookup'[n].direction =
                           IF lookup'[n].id < Len(ports') THEN ports'[lookup'[n].id + 1].direction
                           ELSE Output
      BY DEF Directions
    <2>1. CASE n = name
      <3>1. lookup'[n].id = Len(ports) /\ lookup'[n].direction = d BY <1>10, <2>1
      <3> QED BY <1>11, <3>1
    <2>2. CASE n # name
      <3>1. n \in DOMAIN lookup /\ lookup'[n] = lookup[n] BY <1>10, <2>2
      <3>2. lookup[n].id \in Nat /\ lookup[n].id < Len(ports) BY <1>12, <3>1
      <3>3. ports'[lookup[n].id + 1] = ports[lookup[n].id + 1] BY <1>11, <3>2
      <3>4. lookup[n].direction = ports[lookup[n].id + 1].direction
        BY <3>1, <3>2 DEF SignalsKnown, Directions
      <3> QED BY <1>11, <3>1, <3>2, <3>3, <3>4
    <2> QED BY <2>1, <2>2
  <1>8. RegistersKnown' BY <1>1 DEF RegistersKnown
  <1>9. PortsApart'
    <2> SUFFICES ASSUME NEW i \in 1..(Len(ports) + 1), NEW j \in 1..(Len(ports) + 1),
                        FoldCase[ports'[i].name] = FoldCase[ports'[j].name]
                 PROVE  i = j
      BY <1>4 DEF PortsApart
    <2>1. ASSUME NEW k \in 1..Len(ports) PROVE FoldCase[ports'[k].name] # FoldCase[name]
      BY <1>1, <1>4 DEF PortTaken
    <2>2. CASE i = Len(ports) + 1
      <3>1. ports'[i].name = name BY <1>4, <2>2
      <3>2. j \notin 1..Len(ports) BY <2>1, <3>1
      <3> QED BY <1>1, <2>2, <3>2
    <2>3. CASE j = Len(ports) + 1
      <3>1. ports'[j].name = name BY <1>4, <2>3
      <3>2. i \notin 1..Len(ports) BY <2>1, <3>1
      <3> QED BY <1>1, <2>3, <3>2
    <2>4. CASE i # Len(ports) + 1 /\ j # Len(ports) + 1
      <3>1. i \in 1..Len(ports) /\ j \in 1..Len(ports) BY <1>1, <2>4
      <3> QED BY <1>4, <3>1 DEF SignalsKnown, PortsApart
    <2> QED BY <2>2, <2>3, <2>4
  <1> QED BY <1>6, <1>7, <1>8, <1>9 DEF SignalsKnown


\* What registers keep when one is added.
LEMMA RegistersKnownGrow ==
    ASSUME TableInv, SignalsKnown, NEW r \in Register, registers' = Append(registers, r),
           \A i \in DOMAIN registers : registers[i].name # r.name,
           \A n \in DOMAIN lookup : n \in DOMAIN lookup' /\ lookup'[n] = lookup[n],
           r.name \in DOMAIN lookup', lookup'[r.name].direction = Output,
           lookup'[r.name].ty = r.ty
    PROVE  RegistersKnown'
  <1>1. registers \in Seq(Register) /\ Len(registers) \in Nat
    BY DEF TableInv, TableTypeOK
  <1>2. /\ DOMAIN registers = 1..Len(registers) /\ DOMAIN registers' = 1..(Len(registers) + 1)
        /\ registers'[Len(registers) + 1] = r
        /\ \A i \in 1..Len(registers) : registers'[i] = registers[i]
    BY <1>1
  <1>3. ASSUME NEW i \in DOMAIN registers'
        PROVE  /\ registers'[i].name \in DOMAIN lookup'
               /\ lookup'[registers'[i].name].direction = Output
               /\ lookup'[registers'[i].name].ty = registers'[i].ty
    <2>1. CASE i = Len(registers) + 1 BY <1>2, <2>1
    <2>2. CASE i # Len(registers) + 1
      <3>1. i \in DOMAIN registers /\ registers'[i] = registers[i] BY <1>1, <1>2, <2>2
      <3> QED BY <3>1 DEF SignalsKnown, RegistersKnown
    <2> QED BY <2>1, <2>2
  <1>4. ASSUME NEW i \in DOMAIN registers', NEW j \in DOMAIN registers',
               registers'[i].name = registers'[j].name
        PROVE  i = j
    <2>1. CASE i = Len(registers) + 1 /\ j # Len(registers) + 1
      <3>1. j \in DOMAIN registers /\ registers'[j] = registers[j] BY <1>1, <1>2, <2>1
      <3> QED BY <1>2, <1>4, <2>1, <3>1
    <2>2. CASE i # Len(registers) + 1 /\ j = Len(registers) + 1
      <3>1. i \in DOMAIN registers /\ registers'[i] = registers[i] BY <1>1, <1>2, <2>2
      <3> QED BY <1>2, <1>4, <2>2, <3>1
    <2>3. CASE i # Len(registers) + 1 /\ j # Len(registers) + 1
      <3>1. /\ i \in DOMAIN registers /\ registers'[i] = registers[i]
            /\ j \in DOMAIN registers /\ registers'[j] = registers[j]
        BY <1>1, <1>2, <2>3
      <3> QED BY <1>4, <3>1 DEF SignalsKnown, RegistersKnown
    <2> QED BY <2>1, <2>2, <2>3
  <1> QED BY <1>3, <1>4 DEF RegistersKnown

LEMMA AddRegisterKnown ==
    ASSUME TableInv, SignalsKnown, NEW name \in Names, NEW ty \in Types, AddRegister(name, ty)
    PROVE  SignalsKnown'
  <1> DEFINE r == [name |-> name, ty |-> ty]
             total == Len(ports) + Len(registers)
  <1>1. /\ ports' = ports /\ registers' = Append(registers, r) /\ r \in Register
        /\ name \notin DOMAIN lookup /\ Enter(name, total, ty, Output)
    BY DEF AddRegister, NewId, Register
  <1>2. TableInv' BY AddRegisterKeeps
  <1>3. /\ DOMAIN lookup' = DOMAIN lookup \cup {name}
        /\ lookup'[name] = [id |-> total, ty |-> ty, direction |-> Output]
        /\ \A n \in DOMAIN lookup : lookup'[n] = lookup[n]
    BY <1>1 DEF Enter
  <1>4. /\ total \in Nat /\ Len(ports') + Len(registers') = total + 1
        /\ \A j \in 0..(total - 1) : SignalName(j, ports', registers') = NameAt(j)
        /\ SignalName(total, ports', registers') = registers'[Len(registers) + 1].name
    <2>1. \E q \in Register : ports' = ports /\ registers' = Append(registers, q) BY <1>1
    <2> QED BY <1>1, <1>2, <2>1, NamesGrow
  <1>5. registers'[Len(registers) + 1] = r
    <2>1. registers \in Seq(Register) /\ Len(registers) \in Nat BY DEF TableInv, TableTypeOK
    <2> QED BY <1>1, <2>1
  <1>6. r.name = name /\ r.ty = ty OBVIOUS
  <1> HIDE DEF r
  <1>7. AllKnown' /\ FirstIds'
    <2> HIDE DEF total
    <2>1. total = Len(ports) + Len(registers) BY DEF total
    <2>2. SignalName(total, ports', registers') = name BY <1>4, <1>5, <1>6
    <2> QED BY <1>1, <1>4, <2>1, <2>2, NewSignalKnown
  <1>8. Directions'
    <2> SUFFICES ASSUME NEW n \in DOMAIN lookup'
                 PROVE  lookup'[n].direction =
                           IF lookup'[n].id < Len(ports') THEN ports'[lookup'[n].id + 1].direction
                           ELSE Output
      BY DEF Directions
    <2>1. CASE n = name
      <3>1. lookup'[n].id = total /\ lookup'[n].direction = Output BY <1>3, <2>1
      <3>2. ~(total < Len(ports))
        <4>1. Len(ports) \in Nat /\ Len(registers) \in Nat BY DEF TableInv, TableTypeOK
        <4> QED BY <4>1
      <3> QED BY <1>1, <3>1, <3>2
    <2>2. CASE n # name
      <3>1. n \in DOMAIN lookup /\ lookup'[n] = lookup[n] BY <1>3, <2>2
      <3> QED BY <1>1, <3>1 DEF SignalsKnown, Directions
    <2> QED BY <2>1, <2>2
  <1>9. RegistersKnown'
    <2>1. \A i \in DOMAIN registers : registers[i].name # name
      BY <1>1 DEF SignalsKnown, RegistersKnown
    <2> QED BY <1>1, <1>3, <1>6, <2>1, RegistersKnownGrow
  <1>10. PortsApart' BY <1>1 DEF SignalsKnown, PortsApart
  <1> QED BY <1>7, <1>8, <1>9, <1>10 DEF SignalsKnown

LEMMA AddOutputRegisterKnown ==
    ASSUME TableInv, SignalsKnown, NEW name \in Names, AddOutputRegister(name)
    PROVE  SignalsKnown'
  <1> DEFINE r == [name |-> name, ty |-> lookup[name].ty]
             total == Len(ports) + Len(registers)
  <1>1. /\ ports' = ports /\ registers' = Append(registers, r) /\ lookup' = lookup
        /\ name \in DOMAIN lookup /\ lookup[name].direction = Output
        /\ \A i \in DOMAIN registers : registers[i].name # name
    BY DEF AddOutputRegister, IsRegister
  <1>2. TableInv' BY AddOutputRegisterKeeps
  <1>3. r \in Register BY <1>1 DEF TableInv, TableTypeOK, Signal, Register
  <1>4. r.name = name /\ r.ty = lookup[name].ty OBVIOUS
  <1> HIDE DEF r
  <1>5. /\ total \in Nat /\ Len(ports') + Len(registers') = total + 1
        /\ \A j \in 0..(total - 1) : SignalName(j, ports', registers') = NameAt(j)
        /\ SignalName(total, ports', registers') = registers'[Len(registers) + 1].name
    <2>1. \E q \in Register : ports' = ports /\ registers' = Append(registers, q) BY <1>1, <1>3
    <2> QED BY <1>1, <1>2, <2>1, NamesGrow
  <1>6. registers'[Len(registers) + 1] = r
    <2>1. registers \in Seq(Register) /\ Len(registers) \in Nat BY DEF TableInv, TableTypeOK
    <2> QED BY <1>1, <1>3, <2>1
  <1>7. AllKnown'
    <2> SUFFICES ASSUME NEW j \in 0..total PROVE SignalName(j, ports', registers') \in DOMAIN lookup
      BY <1>1, <1>5 DEF AllKnown, NameAt
    <2>1. CASE j = total BY <1>1, <1>4, <1>5, <1>6, <2>1
    <2>2. CASE j # total
      <3>1. j \in 0..(total - 1) BY <1>5, <2>2
      <3> QED BY <1>5, <3>1 DEF SignalsKnown, AllKnown
    <2> QED BY <2>1, <2>2
  <1>8. FirstIds'
    <2> SUFFICES ASSUME NEW n \in DOMAIN lookup, NEW j \in 0..(lookup[n].id - 1)
                 PROVE  SignalName(j, ports', registers') # n
      BY <1>1 DEF FirstIds, NameAt
    <2>1. lookup[n].id \in Nat /\ lookup[n].id < total
      BY DEF TableInv, TableTypeOK, Signal, IdsNameSignals
    <2>2. j \in 0..(total - 1) BY <1>5, <2>1
    <2> QED BY <1>5, <2>2 DEF SignalsKnown, FirstIds
  <1>9. Directions' BY <1>1 DEF SignalsKnown, Directions
  <1>10. RegistersKnown' BY <1>1, <1>3, <1>4, RegistersKnownGrow
  <1>11. PortsApart' BY <1>1 DEF SignalsKnown, PortsApart
  <1> QED BY <1>7, <1>8, <1>9, <1>10, <1>11 DEF SignalsKnown

LEMMA EmptyTableKnown ==
    EmptyTable => SignalsKnown
  BY DEF EmptyTable, SignalsKnown, AllKnown, FirstIds, Directions, RegistersKnown, PortsApart

LEMMA SignalsKnownStep ==
    ASSUME TableInv, SignalsKnown, [TableNext]_table
    PROVE  SignalsKnown'
  <1>1. CASE \E d \in {Input, Output}, n \in Names, ty \in Types : AddPort(d, n, ty)
    BY <1>1, AddPortKnown
  <1>2. CASE \E n \in Names, ty \in Types : AddRegister(n, ty)
    BY <1>2, AddRegisterKnown
  <1>3. CASE \E n \in Names : AddOutputRegister(n)
    BY <1>3, AddOutputRegisterKnown
  <1>4. CASE ClearTable
    <2>1. ports' = <<>> /\ registers' = <<>> /\ lookup' = <<>> BY <1>4 DEF ClearTable
    <2> QED BY <2>1 DEF SignalsKnown, AllKnown, FirstIds, Directions, RegistersKnown, PortsApart
  <1>5. CASE UNCHANGED table
    <2>1. ports' = ports /\ registers' = registers /\ lookup' = lookup BY <1>5 DEF table
    <2> QED BY <2>1 DEF SignalsKnown, AllKnown, FirstIds, Directions, RegistersKnown, PortsApart,
                        NameAt
  <1> QED BY <1>1, <1>2, <1>3, <1>4, <1>5 DEF TableNext

-----------------------------------------------------------------------------
(* The module that is being lowered *)

Cur == [ports |-> ports, registers |-> registers, clocking |-> clocking, enums |-> enums,
        assigns |-> assigns, blocks |-> blocks, source |-> source]

\* A module with the same signals and enums; one with more registers.
Same(t, m) == t.ports = m.ports /\ t.registers = m.registers /\ t.enums = m.enums
Extends(t, m) ==
    /\ t.ports = m.ports /\ t.enums = m.enums
    /\ t.registers \in Seq(Register) /\ Len(m.registers) <= Len(t.registers)
    /\ \A i \in 1..Len(m.registers) : t.registers[i] = m.registers[i]

\* Ports and registers have names of their own; a register that is a port is an
\* output of the same type.
SignalsApart(m) ==
    /\ \A i, j \in DOMAIN m.ports : FoldCase[m.ports[i].name] = FoldCase[m.ports[j].name] => i = j
    /\ \A i, j \in DOMAIN m.registers : m.registers[i].name = m.registers[j].name => i = j
    /\ \A i \in DOMAIN m.registers, j \in DOMAIN m.ports :
          m.registers[i].name = m.ports[j].name =>
              m.ports[j].direction = Output /\ m.ports[j].ty = m.registers[i].ty

LEMMA CurFacts ==
    /\ Cur.ports = ports /\ Cur.registers = registers /\ Cur.clocking = clocking
    /\ Cur.enums = enums /\ Cur.assigns = assigns /\ Cur.blocks = blocks /\ Cur.source = source
  BY DEF Cur

\* The table as it is.
LEMMA TableFacts ==
    ASSUME TableInv, SignalsKnown
    PROVE  /\ ports \in Seq(Port) /\ Len(ports) \in Nat /\ DOMAIN ports = 1..Len(ports)
           /\ registers \in Seq(Register) /\ Len(registers) \in Nat
           /\ DOMAIN registers = 1..Len(registers)
           /\ \A n \in DOMAIN lookup :
                 /\ n \in Names /\ lookup[n].id \in Nat /\ lookup[n].ty \in HwTypes
                 /\ lookup[n].direction \in {Input, Output}
                 /\ lookup[n].id < Len(ports) + Len(registers)
                 /\ SignalName(lookup[n].id, ports, registers) = n
                 /\ SignalType(lookup[n].id, ports, registers) = lookup[n].ty
  BY NamesAssumption DEF TableInv, TableTypeOK, IdsNameSignals, Signal

\* A port's name was given the port's id.
LEMMA PortIsKnown ==
    ASSUME TableInv, SignalsKnown, NEW k \in DOMAIN ports
    PROVE  /\ ports[k].name \in DOMAIN lookup /\ lookup[ports[k].name].id = k - 1
           /\ lookup[ports[k].name].direction = ports[k].direction
           /\ lookup[ports[k].name].ty = ports[k].ty
  <1> DEFINE n == ports[k].name
             id == lookup[n].id
  <1>1. k - 1 \in Nat /\ k - 1 < Len(ports) /\ (k - 1) + 1 = k BY TableFacts
  <1>2. NameAt(k - 1) = n BY <1>1 DEF NameAt, SignalName, IsPort
  <1>3. n \in DOMAIN lookup BY <1>1, <1>2, TableFacts DEF SignalsKnown, AllKnown
  <1>4. id \in Nat /\ SignalName(id, ports, registers) = n
        /\ SignalType(id, ports, registers) = lookup[n].ty
    BY <1>3, TableFacts
  <1>5. id <= k - 1
    <2>1. ASSUME k - 1 < id PROVE FALSE
      <3>1. k - 1 \in 0..(id - 1) BY <1>1, <1>4, <2>1
      <3> QED BY <1>2, <1>3, <3>1 DEF SignalsKnown, FirstIds
    <2> QED BY <1>1, <1>4, <2>1
  <1>6. id < Len(ports) /\ id + 1 \in DOMAIN ports BY <1>1, <1>4, <1>5, TableFacts
  <1>7. ports[id + 1].name = n BY <1>4, <1>6 DEF SignalName, IsPort
  <1>8. id + 1 = k BY <1>6, <1>7 DEF SignalsKnown, PortsApart
  <1>9. id = k - 1 BY <1>1, <1>4, <1>8
  <1>10. lookup[n].ty = ports[k].ty BY <1>4, <1>6, <1>8 DEF SignalType, IsPort
  <1>11. lookup[n].direction = ports[k].direction
    BY <1>3, <1>6, <1>8 DEF SignalsKnown, Directions
  <1> QED BY <1>3, <1>9, <1>10, <1>11

LEMMA SignalsAreApart ==
    ASSUME TableInv, SignalsKnown
    PROVE  SignalsApart(Cur)
  <1>1. \A i, j \in DOMAIN ports : FoldCase[ports[i].name] = FoldCase[ports[j].name] => i = j
    BY DEF SignalsKnown, PortsApart
  <1>2. \A i, j \in DOMAIN registers : registers[i].name = registers[j].name => i = j
    BY DEF SignalsKnown, RegistersKnown
  <1>3. ASSUME NEW i \in DOMAIN registers, NEW j \in DOMAIN ports,
               registers[i].name = ports[j].name
        PROVE  ports[j].direction = Output /\ ports[j].ty = registers[i].ty
    BY <1>3, PortIsKnown DEF SignalsKnown, RegistersKnown
  <1> QED BY <1>1, <1>2, <1>3, CurFacts DEF SignalsApart

\* The environment is right for every module with these signals and more.
LEMMA EnvKnown ==
    ASSUME TableInv, SignalsKnown, NEW t, Extends(t, Cur), MembersOK(members, Cur)
    PROVE  EnvOK(Env, t) /\ InputsAreInputs(t)
  <1>1. /\ t.ports = ports /\ t.enums = enums /\ t.registers \in Seq(Register)
        /\ Len(registers) <= Len(t.registers) /\ Len(t.registers) \in Nat
        /\ \A i \in 1..Len(registers) : t.registers[i] = registers[i]
    BY CurFacts DEF Extends
  <1>2. ASSUME NEW j \in 0..(Len(ports) + Len(registers) - 1)
        PROVE  /\ j \in DOMAIN Typed(t).type
               /\ Typed(t).type[j] = SignalType(j, ports, registers)
               /\ NameOf(j, t) = SignalName(j, ports, registers)
    <2>1. j \in 0..(Len(t.ports) + Len(t.registers) - 1) BY <1>1, TableFacts
    <2>2. j \in DOMAIN Typed(t).type /\ Typed(t).type[j] = SignalType(j, t.ports, t.registers)
      BY <2>1 DEF Typed
    <2>3. CASE j < Len(ports)
      BY <1>1, <2>2, <2>3 DEF SignalType, SignalName, IsPort, NameOf
    <2>4. CASE ~(j < Len(ports))
      <3>1. j - Len(ports) + 1 \in 1..Len(registers) BY <2>4, TableFacts
      <3>2. t.registers[j - Len(ports) + 1] = registers[j - Len(ports) + 1] BY <1>1, <3>1
      <3> QED BY <1>1, <2>2, <2>4, <3>2 DEF SignalType, SignalName, IsPort, NameOf
    <2> QED BY <2>3, <2>4
  <1>3. SignalsOK(lookup, t)
    <2> SUFFICES ASSUME NEW n \in DOMAIN lookup
                 PROVE  /\ lookup[n].ty \in HwTypes /\ lookup[n].id \in Nat
                        /\ lookup[n].id \in DOMAIN Typed(t).type
                        /\ Typed(t).type[lookup[n].id] = lookup[n].ty
                        /\ NameOf(lookup[n].id, t) = n /\ OwnId(lookup[n].id, t)
      BY DEF SignalsOK
    <2> DEFINE id == lookup[n].id
    <2>1. /\ id \in Nat /\ lookup[n].ty \in HwTypes /\ id < Len(ports) + Len(registers)
          /\ SignalName(id, ports, registers) = n
          /\ SignalType(id, ports, registers) = lookup[n].ty
      BY TableFacts
    <2>2. id \in 0..(Len(ports) + Len(registers) - 1) BY <2>1, TableFacts
    <2>3. id \in DOMAIN Typed(t).type /\ Typed(t).type[id] = lookup[n].ty /\ NameOf(id, t) = n
      BY <1>2, <2>1, <2>2
    <2>4. ASSUME NEW j \in 0..(id - 1) PROVE NameOf(j, t) # NameOf(id, t)
      <3>1. NameAt(j) # n BY DEF SignalsKnown, FirstIds
      <3>2. j \in 0..(Len(ports) + Len(registers) - 1) BY <2>1, TableFacts
      <3> QED BY <1>2, <2>3, <3>1, <3>2 DEF NameAt
    <2>5. OwnId(id, t) BY <2>4 DEF OwnId
    <2> QED BY <2>1, <2>3, <2>5
  <1>4. MembersOK(members, t) BY <1>1, CurFacts DEF MembersOK
  <1>5. EnvOK(Env, t) BY <1>3, <1>4 DEF EnvOK, Env
  <1>6. InputsAreInputs(t)
    <2> SUFFICES ASSUME NEW n \in DOMAIN lookup, lookup[n].direction = Input
                 PROVE  /\ lookup[n].id \in 0..(Len(ports) - 1)
                        /\ ports[lookup[n].id + 1].direction = Input
                        /\ ports[lookup[n].id + 1].ty = lookup[n].ty
      BY <1>1 DEF InputsAreInputs
    <2>1. lookup[n].id \in Nat /\ SignalType(lookup[n].id, ports, registers) = lookup[n].ty
      BY TableFacts
    <2>2. lookup[n].id < Len(ports) /\ ports[lookup[n].id + 1].direction = Input
      BY DEF SignalsKnown, Directions, Input, Output
    <2> QED BY <2>1, <2>2, TableFacts DEF SignalType, IsPort
  <1> QED BY <1>5, <1>6

LEMMA SameExtends ==
    ASSUME TableInv, NEW t, Same(t, Cur)
    PROVE  Extends(t, Cur)
  BY CurFacts DEF Same, Extends, TableInv, TableTypeOK

LEMMA HereKnown ==
    ASSUME TableInv, SignalsKnown, NEW t, Same(t, Cur), MembersOK(members, Cur)
    PROVE  SignalsHere(t) /\ InputsAreInputs(t)
  <1>1. EnvOK(Env, t) /\ InputsAreInputs(t) BY SameExtends, EnvKnown
  <1>2. t.registers = registers BY CurFacts DEF Same
  <1> QED BY <1>1, <1>2 DEF SignalsHere, IsRegister, IsRegisterName

-----------------------------------------------------------------------------
(* What was written of a module *)

\* The forms that make registers, in the order of the registers.
RegisterForms(m) == FormsOf(m, "register") \o FormsOf(m, "direct") \o FormsOf(m, "declaration")

SourceOK(m) ==
    /\ m.source \in [name : ModuleNames, place : Nat, forms : [FormSorts -> Seq(Form)]]
    /\ \A s \in FormSorts : \A i \in DOMAIN FormsOf(m, s) : FormsOf(m, s)[i].sort = s
RegistersOK(m) ==
    /\ Len(m.registers) = Len(RegisterForms(m))
    /\ \A i \in DOMAIN m.registers : m.registers[i].name = RegisterForms(m)[i].name
EnumTyped(e) ==
    /\ e.ty \in HwTypes /\ e.names \in Seq(Names) /\ e.values \in Seq(Words)
    /\ Len(e.names) = Len(e.values)
EnumsOK(m) ==
    /\ IsSequence(m.enums) /\ Len(m.enums) = Len(FormsOf(m, "enum"))
    /\ \A i \in DOMAIN m.enums : EnumTyped(m.enums[i])
ClockingOK(c, f, ty, m) ==
    IF f.sort = "declaration" THEN c = NoClock
    ELSE \A t : Extends(t, m) => ClockOK(c, f, ty, t)
ClocksOK(m) ==
    /\ IsSequence(m.clocking)
    /\ \A i \in DOMAIN m.clocking :
          ClockingOK(m.clocking[i], RegisterForms(m)[i], m.registers[i].ty, m)
AssignOK(a, f, m) ==
    /\ a.dest \in 0..(Len(m.ports) - 1) /\ m.ports[a.dest + 1].direction = Output
    /\ m.ports[a.dest + 1].name = f.dest /\ ~IsRegisterName(f.dest, m)
    /\ \A t : Same(t, m) => a.value \in Lowered(f.value, m.ports[a.dest + 1].ty, t)
AssignsOK(m) ==
    /\ IsSequence(m.assigns) /\ Len(m.assigns) = Len(FormsOf(m, "assign"))
    /\ \A i \in DOMAIN m.assigns : AssignOK(m.assigns[i], FormsOf(m, "assign")[i], m)
    /\ \A i, j \in DOMAIN m.assigns : m.assigns[i].dest = m.assigns[j].dest => i = j
BlockOK(b, f, m) ==
    /\ b.clock \in 0..(Len(m.ports) - 1) /\ m.ports[b.clock + 1].direction = Input
    /\ m.ports[b.clock + 1].ty = Bit /\ m.ports[b.clock + 1].name = f.clock
    /\ b.edge = f.edge
    /\ \A t : Same(t, m) => StmtOK(f.body, b.body, t)
BlocksOK(m) ==
    /\ IsSequence(m.blocks) /\ Len(m.blocks) = Len(FormsOf(m, "clocked"))
    /\ \A i \in DOMAIN m.blocks : BlockOK(m.blocks[i], FormsOf(m, "clocked")[i], m)

\* All of it.
Written(m) ==
    /\ SourceOK(m) /\ RegistersOK(m) /\ EnumsOK(m) /\ ClocksOK(m) /\ AssignsOK(m)
    /\ BlocksOK(m)

LEMMA SortsFacts ==
    FormSorts = {"enum", "register", "direct", "declaration", "clocked", "assign"}
  BY DEF FormSorts

LEMMA FormsFacts ==
    ASSUME NEW m, SourceOK(m), NEW s \in FormSorts
    PROVE  /\ FormsOf(m, s) \in Seq(Form) /\ Len(FormsOf(m, s)) \in Nat
           /\ DOMAIN FormsOf(m, s) = 1..Len(FormsOf(m, s))
           /\ \A i \in 1..Len(FormsOf(m, s)) :
                 FormsOf(m, s)[i] \in Form /\ FormsOf(m, s)[i].sort = s
  <1>1. m.source.forms \in [FormSorts -> Seq(Form)] BY DEF SourceOK
  <1>2. FormsOf(m, s) \in Seq(Form) BY <1>1 DEF FormsOf
  <1> QED BY <1>2 DEF SourceOK

\* Sequences put together.
LEMMA Concatenation ==
    ASSUME NEW S, NEW a \in Seq(S), NEW b \in Seq(S)
    PROVE  /\ a \o b \in Seq(S) /\ Len(a \o b) = Len(a) + Len(b)
           /\ \A i \in 1..Len(a) : (a \o b)[i] = a[i]
           /\ \A i \in 1..Len(b) : (a \o b)[Len(a) + i] = b[i]
           /\ a \o <<>> = a /\ <<>> \o a = a
  OBVIOUS
LEMMA AppendLast ==
    ASSUME NEW S, NEW a \in Seq(S), NEW b \in Seq(S), NEW x \in S
    PROVE  a \o Append(b, x) = Append(a \o b, x)
  OBVIOUS

LEMMA RegisterFormsFacts ==
    ASSUME NEW m, SourceOK(m)
    PROVE  /\ RegisterForms(m) \in Seq(Form)
           /\ Len(RegisterForms(m)) = Len(FormsOf(m, "register")) + Len(FormsOf(m, "direct"))
                                        + Len(FormsOf(m, "declaration"))
           /\ \A i \in 1..Len(RegisterForms(m)) :
                 /\ RegisterForms(m)[i] \in Form
                 /\ RegisterForms(m)[i].sort \in {"register", "direct", "declaration"}
  <1> DEFINE r == FormsOf(m, "register")
             d == FormsOf(m, "direct")
             c == FormsOf(m, "declaration")
             n == Len(RegisterForms(m))
  <1>1. /\ r \in Seq(Form) /\ d \in Seq(Form) /\ c \in Seq(Form)
        /\ \A i \in 1..Len(r) : r[i].sort = "register"
        /\ \A i \in 1..Len(d) : d[i].sort = "direct"
        /\ \A i \in 1..Len(c) : c[i].sort = "declaration"
    BY FormsFacts, SortsFacts
  <1>2. RegisterForms(m) = (r \o d) \o c BY DEF RegisterForms
  <1> HIDE DEF r, d, c
  <1>3. /\ r \o d \in Seq(Form) /\ Len(r \o d) = Len(r) + Len(d)
        /\ \A i \in 1..Len(r) : (r \o d)[i] = r[i]
        /\ \A i \in 1..Len(d) : (r \o d)[Len(r) + i] = d[i]
    BY <1>1, Concatenation
  <1> DEFINE rd == r \o d
  <1>4. \A i \in 1..(Len(r) + Len(d)) : rd[i].sort \in {"register", "direct"}
    <2> SUFFICES ASSUME NEW i \in 1..(Len(r) + Len(d)) PROVE rd[i].sort \in {"register", "direct"}
      OBVIOUS
    <2>1. CASE i <= Len(r) BY <1>1, <1>3, <2>1
    <2>2. CASE ~(i <= Len(r))
      <3>1. i - Len(r) \in 1..Len(d) /\ Len(r) + (i - Len(r)) = i BY <1>1, <2>2
      <3> QED BY <1>1, <1>3, <3>1
    <2> QED BY <2>1, <2>2
  <1> HIDE DEF rd
  <1>5. /\ rd \o c \in Seq(Form) /\ Len(rd \o c) = Len(r) + Len(d) + Len(c)
        /\ \A i \in 1..Len(rd) : (rd \o c)[i] = rd[i]
        /\ \A i \in 1..Len(c) : (rd \o c)[Len(rd) + i] = c[i]
        /\ Len(rd) = Len(r) + Len(d) /\ Len(r) \in Nat /\ Len(d) \in Nat /\ Len(c) \in Nat
    BY <1>1, <1>3, Concatenation DEF rd
  <1>6. RegisterForms(m) = rd \o c BY <1>2 DEF rd
  <1>7. \A i \in 1..n : RegisterForms(m)[i].sort \in {"register", "direct", "declaration"}
    <2> SUFFICES ASSUME NEW i \in 1..(Len(r) + Len(d) + Len(c))
                 PROVE  (rd \o c)[i].sort \in {"register", "direct", "declaration"}
      BY <1>5, <1>6
    <2>1. CASE i <= Len(rd) BY <1>4, <1>5, <2>1
    <2>2. CASE ~(i <= Len(rd))
      <3>1. i - Len(rd) \in 1..Len(c) /\ Len(rd) + (i - Len(rd)) = i BY <1>5, <2>2
      <3> QED BY <1>1, <1>5, <3>1
    <2> QED BY <2>1, <2>2
  <1>8. \A i \in 1..n : RegisterForms(m)[i] \in Form BY <1>5, <1>6
  <1> QED BY <1>5, <1>6, <1>7, <1>8 DEF r, d, c

\* A form is taken: it is the last of its sort.
LEMMA FormTaken ==
    ASSUME SourceOK(Cur), NEW f \in Form, f.sort \in FormSorts, Takes(f)
    PROVE  /\ SourceOK(Cur')
           /\ FormsOf(Cur', f.sort) = Append(FormsOf(Cur, f.sort), f)
           /\ \A s \in FormSorts \ {f.sort} : FormsOf(Cur', s) = FormsOf(Cur, s)
           /\ Cur'.source.name = Cur.source.name
  <1>1. source' = [source EXCEPT !.place = @ + 1, !.forms[f.sort] = Append(@, f)]
    BY DEF Takes
  <1>2. source \in [name : ModuleNames, place : Nat, forms : [FormSorts -> Seq(Form)]]
    BY CurFacts DEF SourceOK
  <1>3. /\ source'.name = source.name /\ source'.place = source.place + 1
        /\ source'.forms = [source.forms EXCEPT ![f.sort] = Append(@, f)]
        /\ source' = [name |-> source'.name, place |-> source'.place, forms |-> source'.forms]
    BY <1>1, <1>2
  <1>4. source.forms[f.sort] \in Seq(Form) BY <1>2
  <1>5. /\ source'.forms[f.sort] = Append(source.forms[f.sort], f)
        /\ \A s \in FormSorts \ {f.sort} : source'.forms[s] = source.forms[s]
        /\ source'.forms \in [FormSorts -> Seq(Form)]
    BY <1>2, <1>3, <1>4
  <1>6. source' \in [name : ModuleNames, place : Nat, forms : [FormSorts -> Seq(Form)]]
    <2>1. source'.place \in Nat /\ source'.name \in ModuleNames BY <1>2, <1>3
    <2>2. source' = [name |-> source'.name, place |-> source'.place, forms |-> source'.forms]
      BY <1>3
    <2>3. \A n \in ModuleNames, p \in Nat, g \in [FormSorts -> Seq(Form)] :
              [name |-> n, place |-> p, forms |-> g]
                \in [name : ModuleNames, place : Nat, forms : [FormSorts -> Seq(Form)]]
      OBVIOUS
    <2> QED BY <1>5, <2>1, <2>2, <2>3, Zenon
  <1>7. /\ FormsOf(Cur', f.sort) = Append(FormsOf(Cur, f.sort), f)
        /\ \A s \in FormSorts \ {f.sort} : FormsOf(Cur', s) = FormsOf(Cur, s)
    BY <1>5 DEF FormsOf, Cur
  <1>8. ASSUME NEW s \in FormSorts, NEW i \in DOMAIN FormsOf(Cur', s)
        PROVE  FormsOf(Cur', s)[i].sort = s
    <2>1. CASE s # f.sort
      <3>1. FormsOf(Cur', s) = FormsOf(Cur, s) BY <1>7, <2>1
      <3> QED BY <1>8, <3>1 DEF SourceOK
    <2>2. CASE s = f.sort
      <3> DEFINE old == FormsOf(Cur, s)
      <3>1. old \in Seq(Form) /\ \A k \in 1..Len(old) : old[k].sort = s BY FormsFacts
      <3>2. FormsOf(Cur', s) = Append(old, f) BY <1>7, <2>2
      <3> HIDE DEF old
      <3>3. i \in 1..(Len(old) + 1) BY <1>8, <3>1, <3>2
      <3>4. Append(old, f)[i].sort = s
        <4>1. CASE i = Len(old) + 1 BY <2>2, <3>1, <4>1
        <4>2. CASE i # Len(old) + 1
          <5>1. i \in 1..Len(old) BY <3>1, <3>3, <4>2
          <5> QED BY <3>1, <5>1
        <4> QED BY <4>1, <4>2
      <3> QED BY <3>2, <3>4
    <2> QED BY <2>1, <2>2
  <1>9. SourceOK(Cur') BY <1>6, <1>8 DEF SourceOK, Cur
  <1> QED BY <1>3, <1>7, <1>9 DEF Cur


-----------------------------------------------------------------------------
(* What a module keeps when something else of it changes, and when more is   *)
(* appended                                                                  *)

SameRegisterForms(m2, m) ==
    \A s \in {"register", "direct", "declaration"} : FormsOf(m2, s) = FormsOf(m, s)

LEMMA RegistersKept ==
    ASSUME NEW m, NEW m2, RegistersOK(m), m2.registers = m.registers, SameRegisterForms(m2, m)
    PROVE  RegistersOK(m2) /\ RegisterForms(m2) = RegisterForms(m)
  <1>1. RegisterForms(m2) = RegisterForms(m) BY DEF RegisterForms, SameRegisterForms
  <1> QED BY <1>1 DEF RegistersOK

LEMMA EnumsKept ==
    ASSUME NEW m, NEW m2, EnumsOK(m), m2.enums = m.enums, FormsOf(m2, "enum") = FormsOf(m, "enum")
    PROVE  EnumsOK(m2)
  BY DEF EnumsOK

LEMMA ClocksKept ==
    ASSUME NEW m, NEW m2, ClocksOK(m), m2.clocking = m.clocking, Same(m2, m),
           RegisterForms(m2) = RegisterForms(m)
    PROVE  ClocksOK(m2)
  <1>1. \A t : Extends(t, m2) <=> Extends(t, m) BY DEF Extends, Same
  <1>2. \A c, f, ty : ClockingOK(c, f, ty, m) => ClockingOK(c, f, ty, m2)
    BY <1>1 DEF ClockingOK
  <1> QED BY <1>2 DEF ClocksOK, Same

LEMMA AssignsKept ==
    ASSUME NEW m, NEW m2, AssignsOK(m), m2.assigns = m.assigns, Same(m2, m),
           FormsOf(m2, "assign") = FormsOf(m, "assign")
    PROVE  AssignsOK(m2)
  <1>1. \A t : Same(t, m2) <=> Same(t, m) BY DEF Same
  <1>2. \A a, f : AssignOK(a, f, m) => AssignOK(a, f, m2)
    BY <1>1 DEF AssignOK, Same, IsRegisterName
  <1> QED BY <1>2 DEF AssignsOK

LEMMA BlocksKept ==
    ASSUME NEW m, NEW m2, BlocksOK(m), m2.blocks = m.blocks, Same(m2, m),
           FormsOf(m2, "clocked") = FormsOf(m, "clocked")
    PROVE  BlocksOK(m2)
  <1>1. \A t : Same(t, m2) <=> Same(t, m) BY DEF Same
  <1>2. \A b, f : BlockOK(b, f, m) => BlockOK(b, f, m2)
    BY <1>1 DEF BlockOK, Same
  <1> QED BY <1>2 DEF BlocksOK

\* Two sequences of one length, each with one more.
LEMMA AppendBoth ==
    ASSUME NEW s, IsSequence(s), NEW fs \in Seq(Form), Len(s) = Len(fs), NEW e, NEW f \in Form
    PROVE  /\ IsSequence(Append(s, e)) /\ Len(Append(s, e)) = Len(Append(fs, f))
           /\ DOMAIN Append(s, e) = DOMAIN s \cup {Len(s) + 1}
           /\ \A i \in DOMAIN s : Append(s, e)[i] = s[i] /\ Append(fs, f)[i] = fs[i]
           /\ Append(s, e)[Len(s) + 1] = e /\ Append(fs, f)[Len(s) + 1] = f
           /\ Len(s) + 1 \notin DOMAIN s
  <1>1. /\ IsSequence(Append(s, e)) /\ Len(s) \in Nat /\ Len(Append(s, e)) = Len(s) + 1
        /\ \A i \in 1..Len(s) : Append(s, e)[i] = s[i]
        /\ Append(s, e)[Len(s) + 1] = e
        /\ DOMAIN s = 1..Len(s) /\ DOMAIN Append(s, e) = 1..(Len(s) + 1)
    BY AppendToSequence
  <1>2. /\ Len(Append(fs, f)) = Len(s) + 1 /\ Append(fs, f)[Len(s) + 1] = f
        /\ \A i \in 1..Len(s) : Append(fs, f)[i] = fs[i]
    OBVIOUS
  <1> QED BY <1>1, <1>2

LEMMA EnumsGrow ==
    ASSUME NEW m, NEW m2, SourceOK(m), EnumsOK(m), NEW e, EnumTyped(e), NEW f \in Form,
           m2.enums = Append(m.enums, e), FormsOf(m2, "enum") = Append(FormsOf(m, "enum"), f)
    PROVE  EnumsOK(m2)
  <1>1. FormsOf(m, "enum") \in Seq(Form) BY FormsFacts, SortsFacts
  <1>2. IsSequence(m.enums) /\ Len(m.enums) = Len(FormsOf(m, "enum")) BY DEF EnumsOK
  <1>3. /\ IsSequence(m2.enums) /\ Len(m2.enums) = Len(FormsOf(m2, "enum"))
        /\ DOMAIN m2.enums = DOMAIN m.enums \cup {Len(m.enums) + 1}
        /\ \A i \in DOMAIN m.enums : m2.enums[i] = m.enums[i]
        /\ m2.enums[Len(m.enums) + 1] = e
    BY <1>1, <1>2, AppendBoth
  <1> QED BY <1>3 DEF EnumsOK

LEMMA AssignsGrow ==
    ASSUME NEW m, NEW m2, SourceOK(m), AssignsOK(m), Same(m2, m), NEW a, NEW f \in Form,
           AssignOK(a, f, m2), \A i \in DOMAIN m.assigns : m.assigns[i].dest # a.dest,
           m2.assigns = Append(m.assigns, a),
           FormsOf(m2, "assign") = Append(FormsOf(m, "assign"), f)
    PROVE  AssignsOK(m2)
  <1>1. FormsOf(m, "assign") \in Seq(Form) BY FormsFacts, SortsFacts
  <1>2. IsSequence(m.assigns) /\ Len(m.assigns) = Len(FormsOf(m, "assign")) BY DEF AssignsOK
  <1>3. /\ IsSequence(m2.assigns) /\ Len(m2.assigns) = Len(FormsOf(m2, "assign"))
        /\ DOMAIN m2.assigns = DOMAIN m.assigns \cup {Len(m.assigns) + 1}
        /\ \A i \in DOMAIN m.assigns : m2.assigns[i] = m.assigns[i]
                                       /\ FormsOf(m2, "assign")[i] = FormsOf(m, "assign")[i]
        /\ m2.assigns[Len(m.assigns) + 1] = a /\ FormsOf(m2, "assign")[Len(m.assigns) + 1] = f
    BY <1>1, <1>2, AppendBoth
  <1>4. \A t : Same(t, m2) <=> Same(t, m) BY DEF Same
  <1>5. \A x, g : AssignOK(x, g, m) => AssignOK(x, g, m2)
    BY <1>4 DEF AssignOK, Same, IsRegisterName
  <1>6. \A i \in DOMAIN m2.assigns : AssignOK(m2.assigns[i], FormsOf(m2, "assign")[i], m2)
    BY <1>3, <1>5 DEF AssignsOK
  <1>7. ASSUME NEW i \in DOMAIN m2.assigns, NEW j \in DOMAIN m2.assigns,
               m2.assigns[i].dest = m2.assigns[j].dest
        PROVE  i = j
    <2>1. CASE i \in DOMAIN m.assigns /\ j \in DOMAIN m.assigns
      BY <1>3, <1>7, <2>1 DEF AssignsOK
    <2>2. CASE i \in DOMAIN m.assigns /\ j = Len(m.assigns) + 1 BY <1>3, <1>7, <2>2
    <2>3. CASE i = Len(m.assigns) + 1 /\ j \in DOMAIN m.assigns BY <1>3, <1>7, <2>3
    <2>4. CASE i = Len(m.assigns) + 1 /\ j = Len(m.assigns) + 1 BY <2>4
    <2> QED BY <1>3, <2>1, <2>2, <2>3, <2>4
  <1> QED BY <1>3, <1>6, <1>7 DEF AssignsOK

LEMMA BlocksGrow ==
    ASSUME NEW m, NEW m2, SourceOK(m), BlocksOK(m), Same(m2, m), NEW b, NEW f \in Form,
           BlockOK(b, f, m2), m2.blocks = Append(m.blocks, b),
           FormsOf(m2, "clocked") = Append(FormsOf(m, "clocked"), f)
    PROVE  BlocksOK(m2)
  <1>1. FormsOf(m, "clocked") \in Seq(Form) BY FormsFacts, SortsFacts
  <1>2. IsSequence(m.blocks) /\ Len(m.blocks) = Len(FormsOf(m, "clocked")) BY DEF BlocksOK
  <1>3. /\ IsSequence(m2.blocks) /\ Len(m2.blocks) = Len(FormsOf(m2, "clocked"))
        /\ DOMAIN m2.blocks = DOMAIN m.blocks \cup {Len(m.blocks) + 1}
        /\ \A i \in DOMAIN m.blocks : m2.blocks[i] = m.blocks[i]
                                       /\ FormsOf(m2, "clocked")[i] = FormsOf(m, "clocked")[i]
        /\ m2.blocks[Len(m.blocks) + 1] = b /\ FormsOf(m2, "clocked")[Len(m.blocks) + 1] = f
    BY <1>1, <1>2, AppendBoth
  <1>4. \A t : Same(t, m2) <=> Same(t, m) BY DEF Same
  <1>5. \A x, g : BlockOK(x, g, m) => BlockOK(x, g, m2) BY <1>4 DEF BlockOK, Same
  <1> QED BY <1>3, <1>5 DEF BlocksOK

\* A register is added for a form, not yet with its clock.
LEMMA RegistersGrow ==
    ASSUME NEW m, NEW m2, SourceOK(m), RegistersOK(m), m.registers \in Seq(Register),
           NEW r \in Register, NEW f \in Form, r.name = f.name,
           m2.registers = Append(m.registers, r),
           RegisterForms(m2) = Append(RegisterForms(m), f)
    PROVE  RegistersOK(m2)
  <1>1. RegisterForms(m) \in Seq(Form) BY RegisterFormsFacts
  <1>2. IsSequence(m.registers) /\ Len(m.registers) = Len(RegisterForms(m))
    BY DEF RegistersOK, IsSequence
  <1>3. /\ Len(m2.registers) = Len(RegisterForms(m2))
        /\ DOMAIN m2.registers = DOMAIN m.registers \cup {Len(m.registers) + 1}
        /\ \A i \in DOMAIN m.registers : m2.registers[i] = m.registers[i]
                                       /\ RegisterForms(m2)[i] = RegisterForms(m)[i]
        /\ m2.registers[Len(m.registers) + 1] = r /\ RegisterForms(m2)[Len(m.registers) + 1] = f
    BY <1>1, <1>2, AppendBoth
  <1> QED BY <1>3 DEF RegistersOK

\* More registers, and a clock for the next that has none.
FormsExtend(m2, m) ==
    \A i \in 1..Len(m.registers) : RegisterForms(m2)[i] = RegisterForms(m)[i]

LEMMA ClocksGrow ==
    ASSUME NEW m, NEW m2, SourceOK(m), RegistersOK(m), ClocksOK(m),
           Extends(m2, m), FormsExtend(m2, m), m.registers \in Seq(Register),
           Len(m.clocking) <= Len(m.registers),
           NEW c, m2.clocking = Append(m.clocking, c),
           NEW i0, i0 = Len(m.clocking) + 1,
           ClockingOK(c, RegisterForms(m2)[i0], m2.registers[i0].ty, m2)
    PROVE  ClocksOK(m2)
  <1>1. ASSUME NEW t, Extends(t, m2) PROVE Extends(t, m)
    <2>1. Len(m.registers) \in Nat /\ Len(m2.registers) \in Nat BY DEF Extends
    <2>2. t.registers \in Seq(Register) /\ Len(t.registers) \in Nat BY <1>1 DEF Extends
    <2> QED BY <1>1, <2>1, <2>2 DEF Extends
  <1>2. \A x, f, ty : ClockingOK(x, f, ty, m) => ClockingOK(x, f, ty, m2)
    BY <1>1 DEF ClockingOK
  <1>3. IsSequence(m.clocking) BY DEF ClocksOK
  <1>4. /\ IsSequence(m2.clocking) /\ Len(m.clocking) \in Nat
        /\ DOMAIN m.clocking = 1..Len(m.clocking)
        /\ DOMAIN m2.clocking = 1..(Len(m.clocking) + 1)
        /\ \A i \in 1..Len(m.clocking) : m2.clocking[i] = m.clocking[i]
        /\ m2.clocking[i0] = c
    BY <1>3, AppendToSequence
  <1>5. ASSUME NEW i \in DOMAIN m2.clocking
        PROVE  ClockingOK(m2.clocking[i], RegisterForms(m2)[i], m2.registers[i].ty, m2)
    <2>1. CASE i = i0 BY <1>4, <2>1
    <2>2. CASE i # i0
      <3>1. i \in DOMAIN m.clocking /\ i \in 1..Len(m.registers) BY <1>4, <1>5, <2>2
      <3>2. /\ m2.clocking[i] = m.clocking[i] /\ m2.registers[i] = m.registers[i]
            /\ RegisterForms(m2)[i] = RegisterForms(m)[i]
        BY <1>4, <3>1 DEF Extends, FormsExtend
      <3> QED BY <1>2, <3>1, <3>2 DEF ClocksOK
    <2> QED BY <2>1, <2>2
  <1> QED BY <1>4, <1>5 DEF ClocksOK


-----------------------------------------------------------------------------
(* The invariant of the backend: what was lowered is what was written, with  *)
(* the types and names of its signals                                        *)

\* Of a later sort nothing was taken, and before the attributes there is no clock.
NothingLater ==
    /\ \A s \in FormSorts : Rank(phase) < Rank(s) => FormsOf(Cur, s) = <<>>
    /\ Rank(phase) < Rank("attributes") => clocking = <<>>
LoweringInv == Written(Cur) /\ MembersOK(members, Cur) /\ NothingLater
Idle ==
    /\ EmptyTable /\ clocking = <<>> /\ enums = <<>> /\ members = <<>>
    /\ assigns = <<>> /\ blocks = <<>>

\* A module of the design.
ModuleOK(m) ==
    /\ m.ports \in Seq(Port) /\ m.registers \in Seq(Register)
    /\ SignalsApart(m) /\ Written(m) /\ Len(m.clocking) = Len(m.registers)
Concluded ==
    /\ Verified => VerifyDesign = "ok"
    /\ phase = "rejected" => outcome = VerifyDesign /\ VerifyDesign # "ok"
    /\ phase = "emitted" => text = [k \in DOMAIN design |-> ModuleText(design[k])]
WrittenInv ==
    /\ SignalsKnown
    /\ phase = "between" => Idle
    /\ Lowering => LoweringInv
    /\ \A k \in DOMAIN design : ModuleOK(design[k])
    /\ Concluded

LEMMA RanksFacts ==
    /\ \A s \in Range(Sorts) : Rank(s) \in 1..8
    /\ \A s, r \in Range(Sorts) : Rank(s) = Rank(r) => s = r
    /\ FormSorts \subseteq Range(Sorts)
    /\ \A s \in Range(Sorts) : s \notin {"between", "failed", "verified", "rejected", "emitted"}
  BY SortRanks, SortsRange, SortsFacts

\* What a step leaves, if it ends the lowering or goes on with it.
LEMMA FailKeepsWritten ==
    ASSUME TypeInv, WrittenInv, SignalsKnown', NEW kind, Fail(kind)
    PROVE  WrittenInv'
  <1>1. phase' = "failed" /\ UNCHANGED design BY DEF Fail
  <1>2. ~Lowering' /\ ~Verified' BY <1>1, SortsRange DEF Lowering, Verified
  <1> QED BY <1>1, <1>2 DEF WrittenInv, Concluded

LEMMA LoweringKeepsWritten ==
    ASSUME TypeInv, WrittenInv, SignalsKnown', phase' \in Range(Sorts), UNCHANGED design,
           LoweringInv'
    PROVE  WrittenInv'
  <1>1. ~Verified' /\ phase' # "between" /\ phase' # "rejected" /\ phase' # "emitted"
    BY SortsRange DEF Verified
  <1> QED BY <1>1 DEF WrittenInv, Concluded

\* When a form is taken, there is none of a later sort.
LEMMA TakenLast ==
    ASSUME TypeInv, LoweringInv, NEW f \in Form, f.sort \in FormSorts, Takes(f)
    PROVE  /\ Lowering
           /\ \A s \in FormSorts : Rank(f.sort) < Rank(s) => FormsOf(Cur, s) = <<>>
           /\ f.sort \in {"enum", "register"} => clocking = <<>>
           /\ f.sort \notin {"enum", "register"} => Len(clocking) = Len(registers)
           /\ phase' = f.sort /\ (f.sort \in {"enum", "register"} => UNCHANGED clocking)
                => NothingLater'
  <1>1. /\ Lowering /\ Rank(phase) <= Rank(f.sort)
        /\ Rank(f.sort) > Rank("attributes") => Len(clocking) = Len(registers)
    BY DEF Takes, Reached
  <1>2. Rank(phase) \in Int /\ Rank(f.sort) \in Int BY <1>1, RanksFacts DEF Lowering
  <1>3. \A s \in FormSorts : Rank(f.sort) < Rank(s) => FormsOf(Cur, s) = <<>>
    <2> SUFFICES ASSUME NEW s \in FormSorts, Rank(f.sort) < Rank(s) PROVE FormsOf(Cur, s) = <<>>
      OBVIOUS
    <2>1. Rank(s) \in Int BY RanksFacts
    <2>2. Rank(phase) < Rank(s) BY <1>1, <1>2, <2>1
    <2> QED BY <2>2 DEF LoweringInv, NothingLater
  <1>4. f.sort \in {"enum", "register"} => clocking = <<>>
    <2> SUFFICES ASSUME f.sort \in {"enum", "register"} PROVE clocking = <<>> OBVIOUS
    <2>1. Rank(phase) < Rank("attributes") BY <1>1, <1>2, SortRanks
    <2> QED BY <2>1 DEF LoweringInv, NothingLater
  <1>5. f.sort \notin {"enum", "register"} => Len(clocking) = Len(registers)
    BY <1>1, SortRanks, SortsFacts
  <1>6. ASSUME phase' = f.sort, f.sort \in {"enum", "register"} => UNCHANGED clocking
        PROVE  NothingLater'
    <2>1. ASSUME NEW s \in FormSorts, Rank(phase') < Rank(s) PROVE FormsOf(Cur', s) = <<>>
      <3>1. s # f.sort BY <1>2, <1>6, <2>1
      <3>2. FormsOf(Cur', s) = FormsOf(Cur, s) BY <3>1, FormTaken DEF LoweringInv, Written
      <3> QED BY <1>3, <1>6, <2>1, <3>2
    <2>2. ASSUME Rank(phase') < Rank("attributes") PROVE clocking' = <<>>
      <3>1. f.sort \in {"enum", "register"} BY <1>6, <2>2, SortRanks, SortsFacts
      <3> QED BY <1>4, <1>6, <3>1
    <2> QED BY <2>1, <2>2 DEF NothingLater
  <1> QED BY <1>1, <1>3, <1>4, <1>5, <1>6

\* Nothing of these sorts.
LEMMA EmptyLength == ASSUME NEW s, IsSequence(s), Len(s) = 0 PROVE s = <<>> /\ DOMAIN s = {}
  <1>1. PICK S : s \in Seq(S) BY DEF IsSequence
  <1> QED BY <1>1
LEMMA NoClocks == ASSUME NEW m, m.clocking = <<>> PROVE ClocksOK(m)
  BY EmptySequence DEF ClocksOK
LEMMA NoAssigns ==
    ASSUME NEW m, NEW m2, AssignsOK(m), FormsOf(m, "assign") = <<>>,
           m2.assigns = m.assigns, FormsOf(m2, "assign") = <<>>
    PROVE  AssignsOK(m2) /\ m.assigns = <<>>
  <1>1. IsSequence(m.assigns) /\ Len(m.assigns) = 0 BY EmptySequence DEF AssignsOK
  <1>2. m.assigns = <<>> /\ DOMAIN m.assigns = {} BY <1>1, EmptyLength
  <1> QED BY <1>1, <1>2, EmptySequence DEF AssignsOK
LEMMA NoBlocks ==
    ASSUME NEW m, NEW m2, BlocksOK(m), FormsOf(m, "clocked") = <<>>,
           m2.blocks = m.blocks, FormsOf(m2, "clocked") = <<>>
    PROVE  BlocksOK(m2) /\ m.blocks = <<>>
  <1>1. IsSequence(m.blocks) /\ Len(m.blocks) = 0 BY EmptySequence DEF BlocksOK
  <1>2. m.blocks = <<>> /\ DOMAIN m.blocks = {} BY <1>1, EmptyLength
  <1> QED BY <1>1, <1>2, EmptySequence DEF BlocksOK

LEMMA BeginModuleWrites ==
    ASSUME TypeInv, WrittenInv, NEW name \in offer.modules, name \in Identifiers,
           BeginModule(name)
    PROVE  phase' \in Range(Sorts) /\ UNCHANGED design /\ LoweringInv'
  <1>1. /\ phase = "between" /\ phase' = "port" /\ source' = NewSource(name)
        /\ UNCHANGED <<ports, registers, lookup, clocking, enums, members, assigns, blocks>>
        /\ UNCHANGED design
    BY DEF BeginModule, tables, table
  <1>2. Idle BY <1>1 DEF WrittenInv
  <1>3. /\ ports' = <<>> /\ registers' = <<>> /\ clocking' = <<>> /\ enums' = <<>>
        /\ members' = <<>> /\ assigns' = <<>> /\ blocks' = <<>>
    BY <1>1, <1>2 DEF Idle, EmptyTable
  <1>4. name \in ModuleNames BY OfferedForms
  <1>5. /\ source'.name = name /\ source'.place = 1
        /\ source'.forms = [s \in FormSorts |-> <<>>]
    BY <1>1 DEF NewSource
  <1>6. \A s \in FormSorts : FormsOf(Cur', s) = <<>> BY <1>5 DEF FormsOf, Cur
  <1>7. SourceOK(Cur')
    <2>1. [s \in FormSorts |-> <<>>] \in [FormSorts -> Seq(Form)] OBVIOUS
    <2>2. source' \in [name : ModuleNames, place : Nat, forms : [FormSorts -> Seq(Form)]]
      BY <1>1, <1>4, <2>1 DEF NewSource
    <2> QED BY <1>6, <2>2 DEF SourceOK, Cur
  <1>8. RegisterForms(Cur') = <<>>
    BY <1>6, SortsFacts DEF RegisterForms
  <1>9. RegistersOK(Cur') BY <1>3, <1>8 DEF RegistersOK, Cur
  <1>10. EnumsOK(Cur') BY <1>3, <1>6, SortsFacts, EmptySequence DEF EnumsOK, Cur
  <1>11. ClocksOK(Cur') BY <1>3, NoClocks DEF Cur
  <1>12. AssignsOK(Cur') BY <1>3, <1>6, SortsFacts, EmptySequence DEF AssignsOK, Cur
  <1>13. BlocksOK(Cur') BY <1>3, <1>6, SortsFacts, EmptySequence DEF BlocksOK, Cur
  <1>14. MembersOK(members', Cur') BY <1>3 DEF MembersOK
  <1>15. NothingLater' BY <1>3, <1>6 DEF NothingLater
  <1> QED BY <1>1, <1>7, <1>9, <1>10, <1>11, <1>12, <1>13, <1>14, <1>15, SortsRange
          DEF LoweringInv, Written


\* Ports come before everything else.
LEMMA LowerPortWrites ==
    ASSUME TypeInv, WrittenInv, LowerPort, ~\E kind : Fail(kind)
    PROVE  phase' \in Range(Sorts) /\ UNCHANGED design /\ LoweringInv'
  <1>1. /\ Lowering /\ Rank(phase) <= Rank("port")
        /\ UNCHANGED <<phase, clocking, enums, members, assigns, blocks, design, source>>
        /\ \E d, n, ty : AddPort(d, n, ty)
    BY Zenon DEF LowerPort, Reached
  <1>2. registers = <<>> /\ registers' = <<>> BY <1>1 DEF AddPort
  <1>3. phase \in Range(Sorts) /\ LoweringInv BY <1>1 DEF Lowering, WrittenInv
  <1>4. Rank(phase) \in Int /\ \A s \in FormSorts : Rank(phase) < Rank(s)
    BY <1>1, <1>3, SortRanks, SortsFacts, RanksFacts
  <1>5. clocking = <<>>
    BY <1>1, <1>3, <1>4, SortRanks DEF LoweringInv, NothingLater
  <1>6. \A s \in FormSorts : FormsOf(Cur, s) = <<>> /\ FormsOf(Cur', s) = FormsOf(Cur, s)
    BY <1>1, <1>3, <1>4 DEF LoweringInv, NothingLater, FormsOf, Cur
  <1>7. SourceOK(Cur') BY <1>1, <1>3 DEF LoweringInv, Written, SourceOK, FormsOf, Cur
  <1>8. RegistersOK(Cur')
    <2>1. Cur'.registers = Cur.registers BY <1>2 DEF Cur
    <2>2. SameRegisterForms(Cur', Cur) BY <1>6, SortsFacts DEF SameRegisterForms
    <2> QED BY <1>3, <2>1, <2>2, RegistersKept DEF LoweringInv, Written
  <1>9. EnumsOK(Cur')
    <2>1. Cur'.enums = Cur.enums BY <1>1 DEF Cur
    <2> QED BY <1>3, <1>6, <2>1, SortsFacts, EnumsKept DEF LoweringInv, Written
  <1>10. ClocksOK(Cur') BY <1>1, <1>5, NoClocks DEF Cur
  <1>11. AssignsOK(Cur')
    <2>1. Cur'.assigns = Cur.assigns BY <1>1 DEF Cur
    <2> QED BY <1>3, <1>6, <2>1, SortsFacts, NoAssigns DEF LoweringInv, Written
  <1>12. BlocksOK(Cur')
    <2>1. Cur'.blocks = Cur.blocks BY <1>1 DEF Cur
    <2> QED BY <1>3, <1>6, <2>1, SortsFacts, NoBlocks DEF LoweringInv, Written
  <1>13. MembersOK(members', Cur')
    BY <1>1, <1>3 DEF LoweringInv, MembersOK, Cur
  <1>14. NothingLater' BY <1>1, <1>5, <1>6 DEF NothingLater
  <1> QED BY <1>1, <1>3, <1>7, <1>8, <1>9, <1>10, <1>11, <1>12, <1>13, <1>14
          DEF LoweringInv, Written

\* Until the attributes there is neither clock, block nor assignment.
LEMMA EarlyWrites ==
    ASSUME TypeInv, LoweringInv, NEW f \in Form, f.sort \in {"enum", "register"}, Takes(f),
           UNCHANGED <<clocking, assigns, blocks>>
    PROVE  /\ SourceOK(Cur') /\ ClocksOK(Cur') /\ AssignsOK(Cur') /\ BlocksOK(Cur')
           /\ \A s \in {"direct", "declaration", "clocked", "assign"} :
                 FormsOf(Cur, s) = <<>> /\ FormsOf(Cur', s) = <<>>
  <1>1. f.sort \in FormSorts BY SortsFacts
  <1>2. /\ SourceOK(Cur')
        /\ \A s \in FormSorts \ {f.sort} : FormsOf(Cur', s) = FormsOf(Cur, s)
    BY <1>1, FormTaken DEF LoweringInv, Written
  <1>3. clocking = <<>> BY <1>1, TakenLast
  <1>4. \A s \in {"direct", "declaration", "clocked", "assign"} :
            FormsOf(Cur, s) = <<>> /\ FormsOf(Cur', s) = <<>>
    <2> SUFFICES ASSUME NEW s \in {"direct", "declaration", "clocked", "assign"}
                 PROVE  FormsOf(Cur, s) = <<>> /\ FormsOf(Cur', s) = <<>>
      OBVIOUS
    <2>1. s \in FormSorts \ {f.sort} /\ Rank(f.sort) < Rank(s) BY SortRanks, SortsFacts
    <2>2. FormsOf(Cur, s) = <<>> BY <1>1, <2>1, TakenLast
    <2> QED BY <1>2, <2>1, <2>2
  <1>5. ClocksOK(Cur') BY <1>3, NoClocks DEF Cur
  <1>6. AssignsOK(Cur')
    <2>1. Cur'.assigns = Cur.assigns BY DEF Cur
    <2> QED BY <1>4, <2>1, NoAssigns DEF LoweringInv, Written
  <1>7. BlocksOK(Cur')
    <2>1. Cur'.blocks = Cur.blocks BY DEF Cur
    <2> QED BY <1>4, <2>1, NoBlocks DEF LoweringInv, Written
  <1> QED BY <1>2, <1>4, <1>5, <1>6, <1>7

\* A new enum: its members are where they say.
MemberAt(x, n, m) ==
    /\ x.id \in Nat \X Nat
    /\ x.id[1] \in DOMAIN m.enums /\ x.id[2] \in DOMAIN m.enums[x.id[1]].values
    /\ m.enums[x.id[1]].values[x.id[2]] = x.value /\ m.enums[x.id[1]].names[x.id[2]] = n
    /\ m.enums[x.id[1]].ty = x.ty
    /\ x.ty \in HwTypes /\ x.value \in Words /\ Fits(x.value, x.ty)

Entered(names2, names, e, place, i) ==
    names2 = [n \in DOMAIN names \cup Range(e.names) |->
                  IF n \in Range(e.names)
                  THEN [id |-> <<i, place[n]>>, ty |-> e.ty, value |-> e.values[place[n]]]
                  ELSE names[n]]

LEMMA MembersGrow ==
    ASSUME NEW m, NEW m2, NEW names, NEW names2, IsSequence(m.enums), MembersOK(names, m),
           NEW e, EnumTyped(e), m2.enums = Append(m.enums, e), NEW place,
           \A n \in Range(e.names) : place[n] \in DOMAIN e.names /\ e.names[place[n]] = n,
           \A i \in DOMAIN e.values : Fits(e.values[i], e.ty),
           Entered(names2, names, e, place, Len(m.enums) + 1)
    PROVE  MembersOK(names2, m2)
  <1>1. /\ DOMAIN m.enums = 1..Len(m.enums) /\ Len(m.enums) \in Nat
        /\ DOMAIN m2.enums = 1..(Len(m.enums) + 1) /\ m2.enums[Len(m.enums) + 1] = e
        /\ \A i \in 1..Len(m.enums) : m2.enums[i] = m.enums[i]
    BY AppendToSequence
  <1>2. /\ e.ty \in HwTypes /\ DOMAIN e.names = DOMAIN e.values /\ e.values \in Seq(Words)
        /\ DOMAIN e.values = 1..Len(e.values) /\ Len(e.values) \in Nat
    BY DEF EnumTyped
  <1> DEFINE made(n) == [id |-> <<Len(m.enums) + 1, place[n]>>, ty |-> e.ty,
                         value |-> e.values[place[n]]]
  <1>3. DOMAIN names2 = DOMAIN names \cup Range(e.names) BY DEF Entered
  <1>4. \A n \in Range(e.names) : names2[n] = made(n) BY DEF Entered
  <1>5. \A n \in DOMAIN names : n \notin Range(e.names) => names2[n] = names[n] BY DEF Entered
  <1>6. ASSUME NEW n \in Range(e.names) PROVE MemberAt(names2[n], n, m2)
    <2>1. place[n] \in DOMAIN e.values /\ e.names[place[n]] = n BY <1>2
    <2>2. place[n] \in Nat /\ e.values[place[n]] \in Words BY <1>2, <2>1
    <2> DEFINE x == made(n)
    <2>3. /\ x.id = <<Len(m.enums) + 1, place[n]>> /\ x.ty = e.ty /\ x.value = e.values[place[n]]
          /\ names2[n] = x
      BY <1>4
    <2> HIDE DEF x, made
    <2>4. x.id \in Nat \X Nat /\ x.id[1] = Len(m.enums) + 1 /\ x.id[2] = place[n]
      BY <1>1, <2>2, <2>3
    <2>5. x.id[1] \in DOMAIN m2.enums /\ m2.enums[x.id[1]] = e BY <1>1, <2>4
    <2> QED BY <1>2, <2>1, <2>2, <2>3, <2>4, <2>5 DEF MemberAt
  <1>7. ASSUME NEW n \in DOMAIN names, n \notin Range(e.names) PROVE MemberAt(names2[n], n, m2)
    <2> DEFINE x == names[n]
    <2>1. MemberAt(x, n, m) BY DEF MembersOK, MemberAt
    <2>2. names2[n] = x BY <1>5, <1>7
    <2> HIDE DEF x
    <2>3. m2.enums[x.id[1]] = m.enums[x.id[1]] /\ x.id[1] \in DOMAIN m2.enums
      BY <1>1, <2>1 DEF MemberAt
    <2> QED BY <2>1, <2>2, <2>3 DEF MemberAt
  <1>8. \A n \in DOMAIN names2 : MemberAt(names2[n], n, m2) BY <1>3, <1>6, <1>7
  <1> QED BY <1>8 DEF MembersOK, MemberAt

LEMMA LowerEnumWrites ==
    ASSUME TypeInv, WrittenInv, NEW f \in Form, f.sort = "enum", LowerEnum(f),
           ~\E kind : Fail(kind)
    PROVE  phase' \in Range(Sorts) /\ UNCHANGED design /\ LoweringInv'
  <1> DEFINE ty == Unsigned(f.width)
             at(n) == CHOOSE i \in DOMAIN f.names : f.names[i] = n
             place == [n \in Range(f.names) |-> at(n)]
             e == [name |-> f.name, ty |-> ty, names |-> f.names, values |-> f.values]
  <1>1. /\ Takes(f) /\ f.width \in 1..MaxWidth /\ EnumOk(f)
        /\ enums' = Append(enums, e)
        /\ members' = [n \in DOMAIN members \cup Range(f.names) |->
                         IF n \in Range(f.names)
                         THEN [id |-> <<Len(enums) + 1, at(n)>>, ty |-> ty,
                               value |-> f.values[at(n)]]
                         ELSE members[n]]
        /\ phase' = f.sort /\ UNCHANGED <<table, clocking, assigns, blocks>> /\ Finished
    BY Zenon DEF LowerEnum
  <1>2. Lowering /\ LoweringInv BY <1>1, TakesFacts DEF WrittenInv
  <1>3. /\ f.names \in Seq(Names) /\ f.values \in Seq(Words) /\ Len(f.names) = Len(f.values)
    BY FormFacts
  <1>4. EnumTyped(e)
    <2>1. ty \in HwTypes BY <1>1, TypeFacts
    <2> QED BY <1>3, <2>1 DEF EnumTyped
  <1>5. /\ e.names = f.names /\ e.values = f.values /\ e.ty = ty OBVIOUS
  <1>6. \A n \in Range(f.names) : place[n] = at(n) /\ place[n] \in DOMAIN f.names
                                    /\ f.names[place[n]] = n
    BY DEF Range
  <1>7. \A i \in DOMAIN f.values : Fits(f.values[i], ty)
    BY <1>1, <1>3 DEF EnumOk
  <1> HIDE DEF at, place, e, ty
  <1>8. members' = [n \in DOMAIN members \cup Range(f.names) |->
                         IF n \in Range(f.names)
                         THEN [id |-> <<Len(enums) + 1, place[n]>>, ty |-> ty,
                               value |-> f.values[place[n]]]
                         ELSE members[n]]
    BY <1>1, <1>6
  <1>9. UNCHANGED <<ports, registers, lookup, clocking, assigns, blocks, design>>
    BY <1>1 DEF table, Finished
  <1>10. /\ SourceOK(Cur') /\ ClocksOK(Cur') /\ AssignsOK(Cur') /\ BlocksOK(Cur')
    BY <1>1, <1>2, <1>9, EarlyWrites
  <1>11. FormsOf(Cur', "enum") = Append(FormsOf(Cur, "enum"), f)
         /\ SameRegisterForms(Cur', Cur)
    BY <1>1, <1>2, FormTaken, SortsFacts DEF LoweringInv, Written, SameRegisterForms
  <1>12. RegistersOK(Cur')
    <2>1. Cur'.registers = Cur.registers BY <1>9 DEF Cur
    <2> QED BY <1>2, <1>11, <2>1, RegistersKept DEF LoweringInv, Written
  <1>13. EnumsOK(Cur')
    <2>1. Cur'.enums = Append(Cur.enums, e) BY <1>1 DEF Cur
    <2> QED BY <1>2, <1>4, <1>11, <2>1, EnumsGrow DEF LoweringInv, Written
  <1>14. MembersOK(members', Cur')
    <2>1. IsSequence(Cur.enums) /\ MembersOK(members, Cur)
      BY <1>2 DEF LoweringInv, Written, EnumsOK
    <2>2. Cur'.enums = Append(Cur.enums, e) /\ Cur.enums = enums BY <1>1 DEF Cur
    <2>3. \A n \in Range(e.names) : place[n] \in DOMAIN e.names /\ e.names[place[n]] = n
      BY <1>5, <1>6
    <2>4. \A i \in DOMAIN e.values : Fits(e.values[i], e.ty) BY <1>5, <1>7
    <2>5. Entered(members', members, e, place, Len(Cur.enums) + 1)
      BY <1>5, <1>8, <2>2, Zenon DEF Entered
    <2> DEFINE m == Cur
               m2 == Cur'
               names2 == members'
    <2>6. /\ IsSequence(m.enums) /\ MembersOK(members, m) /\ m2.enums = Append(m.enums, e)
          /\ Entered(names2, members, e, place, Len(m.enums) + 1)
      BY <2>1, <2>2, <2>5
    <2>7. MembersOK(names2, m2)
      <3> HIDE DEF m, m2, names2
      <3> QED BY <1>4, <2>3, <2>4, <2>6, MembersGrow
    <2> QED BY <2>7
  <1>15. NothingLater' BY <1>1, <1>2, <1>9, TakenLast, SortsFacts
  <1> QED BY <1>1, <1>9, <1>10, <1>12, <1>13, <1>14, <1>15, SortsRange
          DEF LoweringInv, Written

LEMMA DeclareRegisterWrites ==
    ASSUME TypeInv, WrittenInv, NEW f \in Form, f.sort = "register", DeclareRegister(f),
           ~\E kind : Fail(kind)
    PROVE  phase' \in Range(Sorts) /\ UNCHANGED design /\ LoweringInv'
  <1> DEFINE ty == TypeFrom(f.props)
             r == [name |-> f.name, ty |-> ty]
  <1>1. /\ Takes(f) /\ AddRegister(f.name, ty) /\ ~IsError(ty) /\ phase' = f.sort
        /\ UNCHANGED <<clocking, enums, members, assigns, blocks>> /\ Finished
    BY Zenon DEF DeclareRegister
  <1>2. Lowering /\ LoweringInv BY <1>1, TakesFacts DEF WrittenInv
  <1>3. r \in Register /\ r.name = f.name
    BY <1>1, FormFacts, TypeFromType DEF Register
  <1>4. registers' = Append(registers, r) /\ UNCHANGED <<ports, design>>
    BY <1>1 DEF AddRegister, Finished
  <1> HIDE DEF r
  <1>5. /\ SourceOK(Cur') /\ ClocksOK(Cur') /\ AssignsOK(Cur') /\ BlocksOK(Cur')
        /\ \A s \in {"direct", "declaration", "clocked", "assign"} :
              FormsOf(Cur, s) = <<>> /\ FormsOf(Cur', s) = <<>>
    BY <1>1, <1>2, EarlyWrites
  <1>6. /\ FormsOf(Cur', "register") = Append(FormsOf(Cur, "register"), f)
        /\ FormsOf(Cur', "enum") = FormsOf(Cur, "enum")
    BY <1>1, <1>2, FormTaken, SortsFacts DEF LoweringInv, Written
  <1>7. FormsOf(Cur, "register") \in Seq(Form)
    BY <1>2, FormsFacts, SortsFacts DEF LoweringInv, Written
  <1>8. RegisterForms(Cur') = Append(RegisterForms(Cur), f)
    <2>1. Append(FormsOf(Cur, "register"), f) \in Seq(Form) BY <1>7
    <2>2. RegisterForms(Cur') = Append(FormsOf(Cur, "register"), f)
      BY <1>5, <1>6, <2>1, Concatenation DEF RegisterForms
    <2>3. RegisterForms(Cur) = FormsOf(Cur, "register")
      BY <1>5, <1>7, Concatenation DEF RegisterForms
    <2> QED BY <2>2, <2>3
  <1>9. RegistersOK(Cur')
    <2>1. Cur'.registers = Append(Cur.registers, r) /\ Cur.registers \in Seq(Register)
      BY <1>4, TableFacts DEF Cur, TypeInv, Tables, WrittenInv
    <2> QED BY <1>2, <1>3, <1>8, <2>1, RegistersGrow DEF LoweringInv, Written
  <1>10. EnumsOK(Cur')
    <2>1. Cur'.enums = Cur.enums BY <1>1 DEF Cur
    <2> QED BY <1>2, <1>6, <2>1, EnumsKept DEF LoweringInv, Written
  <1>11. MembersOK(members', Cur') BY <1>1, <1>2 DEF LoweringInv, MembersOK, Cur
  <1>12. NothingLater' BY <1>1, <1>2, TakenLast, SortsFacts
  <1> QED BY <1>1, <1>4, <1>5, <1>9, <1>10, <1>11, <1>12, SortsRange DEF LoweringInv, Written


\* A clock that was lowered is right for every module with these signals and more.
LEMMA ClockKnown ==
    ASSUME TypeInv, WrittenInv, LoweringInv,
           NEW f, f.sort \in {"register", "direct"}, f.attributes \in Seq(Attribute),
           NEW ty \in HwTypes, NEW strict \in BOOLEAN,
           NEW c, c = LowerAttributes(f.attributes, ty, strict), ~IsError(c),
           NEW m2, Extends(m2, Cur)
    PROVE  ClockingOK(c, f, ty, m2)
  <1>1. TableInv /\ SignalsKnown /\ MembersOK(members, Cur)
    BY DEF TypeInv, Tables, WrittenInv, LoweringInv
  <1>2. ASSUME NEW t, Extends(t, m2) PROVE ClockOK(c, f, ty, t)
    <2>1. /\ Len(registers) \in Nat /\ Len(m2.registers) \in Nat /\ t.registers \in Seq(Register)
          /\ Len(t.registers) \in Nat
      BY <1>1, <1>2, TableFacts DEF Extends
    <2>2. Extends(t, Cur) BY <1>2, <2>1, CurFacts DEF Extends
    <2>3. EnvOK(Env, t) /\ InputsAreInputs(t) BY <1>1, <2>2, EnvKnown
    <2> QED BY <2>3, ClockLowered
  <1>3. f.sort # "declaration" OBVIOUS
  <1> QED BY <1>2, <1>3 DEF ClockingOK

\* Later forms leave the register forms alone.
LEMMA RegisterFormsSame ==
    ASSUME SameRegisterForms(Cur', Cur) PROVE RegisterForms(Cur') = RegisterForms(Cur)
  BY DEF RegisterForms, SameRegisterForms

LEMMA LowerRegisterWrites ==
    ASSUME TypeInv, WrittenInv, LowerRegister, ~\E kind : Fail(kind)
    PROVE  phase' \in Range(Sorts) /\ UNCHANGED design /\ LoweringInv'
  <1> DEFINE i == Len(clocking) + 1
             form == source.forms["register"][i]
             c == LowerAttributes(form.attributes, registers[i].ty, TRUE)
  <1>1. /\ Lowering /\ Rank(phase) <= Rank("attributes") /\ Len(clocking) < Len(registers)
        /\ ~IsError(c) /\ clocking' = Append(clocking, c) /\ phase' = "attributes"
        /\ UNCHANGED <<table, enums, members, assigns, blocks>> /\ Finished
        /\ UNCHANGED source
    BY Zenon DEF LowerRegister, Reached
  <1>2. LoweringInv BY <1>1 DEF WrittenInv
  <1>3. /\ TableInv /\ SignalsKnown /\ SourceOK(Cur) /\ RegistersOK(Cur) /\ ClocksOK(Cur)
    BY <1>2 DEF TypeInv, Tables, WrittenInv, LoweringInv, Written
  <1>4. UNCHANGED <<ports, registers, lookup, design>> BY <1>1 DEF table, Finished
  <1>5. Rank(phase) \in Int BY <1>1, RanksFacts DEF Lowering
  <1>6. FormsOf(Cur, "direct") = <<>> /\ FormsOf(Cur, "declaration") = <<>>
    <2>1. Rank(phase) < Rank("direct") /\ Rank(phase) < Rank("declaration")
      BY <1>1, <1>5, SortRanks
    <2> QED BY <1>2, <2>1, SortsFacts DEF LoweringInv, NothingLater
  <1>7. FormsOf(Cur, "register") \in Seq(Form) BY <1>3, FormsFacts, SortsFacts
  <1>8. RegisterForms(Cur) = FormsOf(Cur, "register")
    BY <1>6, <1>7, Concatenation DEF RegisterForms
  <1>9. /\ Len(registers) \in Nat /\ registers \in Seq(Register)
        /\ Len(registers) = Len(FormsOf(Cur, "register"))
    BY <1>3, <1>8, CurFacts, TableFacts DEF RegistersOK
  <1>10. Len(clocking) \in Nat /\ IsSequence(clocking)
    BY <1>3, CurFacts, SequenceLength DEF ClocksOK
  <1>11. i \in 1..Len(registers) BY <1>1, <1>9, <1>10
  <1>12. FormsOf(Cur, "register")[i] = form BY DEF FormsOf, Cur
  <1>13. form \in Form /\ form.sort = "register"
    BY <1>3, <1>9, <1>11, <1>12, FormsFacts, SortsFacts
  <1>14. form.attributes \in Seq(Attribute) BY <1>13, FormFacts
  <1>15. registers[i].ty \in HwTypes
    <2>1. registers[i] \in Register BY <1>9, <1>11
    <2> QED BY <2>1, NamesAssumption DEF Register
  <1> HIDE DEF form, c
  <1>16. /\ Cur'.ports = ports /\ Cur'.enums = enums /\ Cur'.registers = registers
         /\ Cur'.clocking = clocking' /\ Cur'.source = source
         /\ Cur'.assigns = Cur.assigns /\ Cur'.blocks = Cur.blocks
    BY <1>1, <1>4 DEF Cur
  <1>17. ClockingOK(c, form, registers[i].ty, Cur')
    <2>1. c = LowerAttributes(form.attributes, registers[i].ty, TRUE) BY DEF c
    <2> DEFINE m2 == Cur'
               ty == registers[i].ty
               strict == TRUE
    <2>2. /\ m2.ports = ports /\ m2.enums = enums /\ m2.registers = registers BY <1>16
    <2>3. /\ ty \in HwTypes /\ c = LowerAttributes(form.attributes, ty, strict)
          /\ strict \in BOOLEAN
      BY <1>15, <2>1
    <2> HIDE DEF m2, ty, strict
    <2>4. Extends(m2, Cur) BY <1>9, <2>2, CurFacts DEF Extends
    <2>5. ~IsError(c) /\ form.sort \in {"register", "direct"} BY <1>1, <1>13
    <2>6. ClockingOK(c, form, ty, m2)
      BY <1>2, <1>14, <2>3, <2>4, <2>5, ClockKnown
    <2> QED BY <2>6 DEF m2, ty
  <1>18. \A s : FormsOf(Cur', s) = FormsOf(Cur, s) BY <1>16, CurFacts DEF FormsOf
  <1>19. SameRegisterForms(Cur', Cur) /\ Same(Cur', Cur)
    BY <1>16, <1>18, CurFacts DEF SameRegisterForms, Same
  <1>20. RegisterForms(Cur') = RegisterForms(Cur) BY <1>19, RegisterFormsSame
  <1>21. ClocksOK(Cur')
    <2> DEFINE m == Cur
               m2 == Cur'
    <2>1. /\ SourceOK(m) /\ RegistersOK(m) /\ ClocksOK(m)
          /\ m2.ports = m.ports /\ m2.enums = m.enums
          /\ m.registers \in Seq(Register) /\ m2.registers = m.registers
          /\ m.clocking = clocking /\ m.registers = registers
          /\ RegisterForms(m2) = RegisterForms(m)
          /\ Len(m.clocking) <= Len(m.registers) /\ Len(m.registers) \in Nat
          /\ m2.clocking = Append(m.clocking, c) /\ i = Len(m.clocking) + 1
      BY <1>1, <1>3, <1>9, <1>10, <1>16, <1>20, CurFacts
    <2>2. RegisterForms(m2)[i] = form BY <1>8, <1>12, <1>20
    <2>3. ClockingOK(c, form, registers[i].ty, m2) BY <1>17
    <2> HIDE DEF m, m2, i
    <2>4. ClockingOK(c, RegisterForms(m2)[i], m2.registers[i].ty, m2) BY <2>1, <2>2, <2>3
    <2>5. Extends(m2, m) /\ FormsExtend(m2, m) BY <2>1 DEF Extends, FormsExtend
    <2>6. /\ SourceOK(m) /\ RegistersOK(m) /\ ClocksOK(m) /\ m.registers \in Seq(Register)
          /\ Len(m.clocking) <= Len(m.registers)
          /\ m2.clocking = Append(m.clocking, c) /\ i = Len(m.clocking) + 1
      BY <2>1
    <2>7. ClocksOK(m2) BY <2>4, <2>5, <2>6, ClocksGrow
    <2> QED BY <2>7 DEF m2
  <1>22. SourceOK(Cur') BY <1>3, <1>16, <1>18, CurFacts DEF SourceOK
  <1>23. RegistersOK(Cur') BY <1>3, <1>16, <1>19, CurFacts, RegistersKept
  <1>24. EnumsOK(Cur')
    BY <1>2, <1>16, <1>18, CurFacts, EnumsKept DEF LoweringInv, Written
  <1>25. AssignsOK(Cur')
    BY <1>2, <1>16, <1>18, <1>19, CurFacts, AssignsKept DEF LoweringInv, Written
  <1>26. BlocksOK(Cur')
    BY <1>2, <1>16, <1>18, <1>19, CurFacts, BlocksKept DEF LoweringInv, Written
  <1>27. MembersOK(members', Cur')
    BY <1>1, <1>2, <1>16, CurFacts DEF LoweringInv, MembersOK
  <1>28. NothingLater'
    <2>1. ASSUME NEW s \in FormSorts, Rank("attributes") < Rank(s) PROVE FormsOf(Cur', s) = <<>>
      <3>1. Rank(s) \in Int BY RanksFacts
      <3>2. Rank(phase) < Rank(s) BY <1>1, <1>5, <2>1, <3>1, SortRanks
      <3> QED BY <1>2, <1>18, <3>2 DEF LoweringInv, NothingLater
    <2>2. ~(Rank("attributes") < Rank("attributes")) BY SortRanks
    <2> QED BY <1>1, <2>1, <2>2 DEF NothingLater
  <1> QED BY <1>1, <1>4, <1>21, <1>22, <1>23, <1>24, <1>25, <1>26, <1>27, <1>28, SortsRange
          DEF LoweringInv, Written


\* A form that makes a register comes after those there are.
LEMMA RegisterFormTaken ==
    ASSUME SourceOK(Cur), NEW f \in Form, f.sort \in {"direct", "declaration"}, Takes(f),
           f.sort = "direct" => FormsOf(Cur, "declaration") = <<>>
    PROVE  RegisterForms(Cur') = Append(RegisterForms(Cur), f)
  <1> DEFINE r == FormsOf(Cur, "register")
             d == FormsOf(Cur, "direct")
             c == FormsOf(Cur, "declaration")
  <1>1. r \in Seq(Form) /\ d \in Seq(Form) /\ c \in Seq(Form) BY FormsFacts, SortsFacts
  <1>2. /\ FormsOf(Cur', f.sort) = Append(FormsOf(Cur, f.sort), f)
        /\ \A s \in FormSorts \ {f.sort} : FormsOf(Cur', s) = FormsOf(Cur, s)
    BY FormTaken, SortsFacts
  <1>3. CASE f.sort = "direct"
    <2>1. /\ FormsOf(Cur', "register") = r /\ FormsOf(Cur', "direct") = Append(d, f)
          /\ FormsOf(Cur', "declaration") = <<>> /\ c = <<>>
      BY <1>2, <1>3, SortsFacts
    <2>2. RegisterForms(Cur') = (r \o Append(d, f)) \o <<>> BY <2>1 DEF RegisterForms
    <2>3. RegisterForms(Cur) = (r \o d) \o <<>> BY <2>1 DEF RegisterForms
    <2> HIDE DEF r, d, c
    <2>4. r \o d \in Seq(Form) /\ Append(d, f) \in Seq(Form) BY <1>1, Concatenation
    <2>5. r \o Append(d, f) \in Seq(Form) BY <1>1, <2>4, Concatenation
    <2>6. RegisterForms(Cur') = r \o Append(d, f) BY <2>2, <2>5, Concatenation
    <2>7. RegisterForms(Cur) = r \o d BY <2>3, <2>4, Concatenation
    <2> QED BY <1>1, <2>6, <2>7, AppendLast
  <1>4. CASE f.sort = "declaration"
    <2>1. /\ FormsOf(Cur', "register") = r /\ FormsOf(Cur', "direct") = d
          /\ FormsOf(Cur', "declaration") = Append(c, f)
      BY <1>2, <1>4, SortsFacts
    <2>2. RegisterForms(Cur') = (r \o d) \o Append(c, f) BY <2>1 DEF RegisterForms
    <2>3. RegisterForms(Cur) = (r \o d) \o c BY DEF RegisterForms
    <2> HIDE DEF r, d, c
    <2>4. r \o d \in Seq(Form) BY <1>1, Concatenation
    <2> QED BY <1>1, <2>2, <2>3, <2>4, AppendLast
  <1> QED BY <1>3, <1>4

\* A register after those of `registers`.
LEMMA RegisterWrites ==
    ASSUME TypeInv, WrittenInv, NEW f \in Form, f.sort \in {"direct", "declaration"}, Takes(f),
           NEW r \in Register, r.name = f.name, registers' = Append(registers, r),
           NEW c, clocking' = Append(clocking, c), ClockingOK(c, f, r.ty, Cur'),
           UNCHANGED <<ports, enums, members, assigns, blocks>>, phase' = f.sort
    PROVE  LoweringInv'
  <1>1. Lowering /\ LoweringInv BY TakesFacts DEF WrittenInv
  <1>2. /\ TableInv /\ SignalsKnown /\ SourceOK(Cur) /\ RegistersOK(Cur) /\ ClocksOK(Cur)
        /\ EnumsOK(Cur) /\ AssignsOK(Cur) /\ BlocksOK(Cur)
    BY <1>1 DEF TypeInv, Tables, WrittenInv, LoweringInv, Written
  <1>3. f.sort \in FormSorts /\ f.sort \notin {"enum", "register"} BY SortsFacts
  <1>4. /\ SourceOK(Cur')
        /\ \A s \in FormSorts \ {f.sort} : FormsOf(Cur', s) = FormsOf(Cur, s)
    BY <1>2, <1>3, FormTaken
  <1>5. /\ \A s \in FormSorts : Rank(f.sort) < Rank(s) => FormsOf(Cur, s) = <<>>
        /\ Len(clocking) = Len(registers) /\ NothingLater'
    BY <1>1, <1>3, TakenLast
  <1>6. /\ FormsOf(Cur, "assign") = <<>> /\ FormsOf(Cur, "clocked") = <<>>
        /\ f.sort = "direct" => FormsOf(Cur, "declaration") = <<>>
    BY <1>5, SortRanks, SortsFacts
  <1>7. /\ FormsOf(Cur', "assign") = <<>> /\ FormsOf(Cur', "clocked") = <<>>
        /\ FormsOf(Cur', "enum") = FormsOf(Cur, "enum")
    BY <1>4, <1>6, SortsFacts
  <1>8. RegisterForms(Cur') = Append(RegisterForms(Cur), f) BY <1>2, <1>6, RegisterFormTaken
  <1>9. /\ Cur'.ports = Cur.ports /\ Cur'.enums = Cur.enums /\ Cur'.assigns = Cur.assigns
        /\ Cur'.blocks = Cur.blocks /\ Cur'.registers = Append(Cur.registers, r)
        /\ Cur'.clocking = Append(Cur.clocking, c)
        /\ Cur.registers = registers /\ Cur.clocking = clocking
    BY DEF Cur
  <1>10. registers \in Seq(Register) /\ Len(registers) \in Nat BY <1>2, TableFacts
  <1> DEFINE m == Cur
             m2 == Cur'
  <1>11. /\ SourceOK(m) /\ RegistersOK(m) /\ ClocksOK(m) /\ m.registers \in Seq(Register)
         /\ m2.registers = Append(m.registers, r) /\ m2.clocking = Append(m.clocking, c)
         /\ RegisterForms(m2) = Append(RegisterForms(m), f)
         /\ Len(m.clocking) = Len(m.registers) /\ m2.ports = m.ports /\ m2.enums = m.enums
         /\ ClockingOK(c, f, r.ty, m2)
    BY <1>2, <1>5, <1>8, <1>9, <1>10
  <1>12. RegistersOK(m2) /\ ClocksOK(m2)
    <2> HIDE DEF m, m2
    <2>1. RegistersOK(m2) BY <1>11, RegistersGrow
    <2>2. /\ Len(m.registers) \in Nat /\ m2.registers \in Seq(Register)
          /\ Len(m2.registers) = Len(m.registers) + 1
          /\ \A k \in 1..Len(m.registers) : m2.registers[k] = m.registers[k]
          /\ m2.registers[Len(m.registers) + 1] = r
      BY <1>11
    <2>3. Extends(m2, m) BY <1>11, <2>2 DEF Extends
    <2>4. /\ RegisterForms(m) \in Seq(Form) /\ Len(RegisterForms(m)) = Len(m.registers)
      BY <1>11, RegisterFormsFacts DEF RegistersOK
    <2>5. /\ \A k \in 1..Len(m.registers) : RegisterForms(m2)[k] = RegisterForms(m)[k]
          /\ RegisterForms(m2)[Len(m.registers) + 1] = f
      <3> DEFINE g == RegisterForms(m)
      <3>1. RegisterForms(m2) = Append(g, f) /\ g \in Seq(Form) /\ Len(g) = Len(m.registers)
        BY <1>11, <2>4
      <3> HIDE DEF g
      <3>2. /\ \A k \in 1..Len(g) : Append(g, f)[k] = g[k]
            /\ Append(g, f)[Len(g) + 1] = f
        BY <3>1
      <3> QED BY <3>1, <3>2 DEF g
    <2>6. FormsExtend(m2, m) BY <2>5 DEF FormsExtend
    <2> DEFINE i == Len(m.clocking) + 1
    <2>7. i = Len(m.clocking) + 1 OBVIOUS
    <2>8. /\ Len(m.clocking) <= Len(m.registers)
          /\ ClockingOK(c, RegisterForms(m2)[i], m2.registers[i].ty, m2)
      BY <1>11, <2>2, <2>5
    <2> HIDE DEF i
    <2>9. ClocksOK(m2) BY <1>11, <2>3, <2>6, <2>7, <2>8, ClocksGrow
    <2> QED BY <2>1, <2>9
  <1>13. EnumsOK(Cur') BY <1>2, <1>7, <1>9, EnumsKept
  <1>14. AssignsOK(Cur') BY <1>2, <1>6, <1>7, <1>9, NoAssigns
  <1>15. BlocksOK(Cur') BY <1>2, <1>6, <1>7, <1>9, NoBlocks
  <1>16. MembersOK(members', Cur') BY <1>1, <1>9 DEF LoweringInv, MembersOK
  <1> QED BY <1>4, <1>5, <1>12, <1>13, <1>14, <1>15, <1>16 DEF LoweringInv, Written

LEMMA LowerOutputRegisterWrites ==
    ASSUME TypeInv, WrittenInv, NEW f \in Form, f.sort = "direct", LowerOutputRegister(f),
           ~\E kind : Fail(kind)
    PROVE  phase' \in Range(Sorts) /\ UNCHANGED design /\ LoweringInv'
  <1> DEFINE ty == lookup[f.name].ty
             strict == FALSE
             c == LowerAttributes(f.attributes, ty, strict)
             r == [name |-> f.name, ty |-> ty]
  <1>1. /\ Takes(f) /\ AddOutputRegister(f.name) /\ f.name \in DOMAIN lookup
        /\ ~IsError(c) /\ clocking' = Append(clocking, c) /\ phase' = f.sort
        /\ UNCHANGED <<enums, members, assigns, blocks>> /\ Finished
    BY Zenon DEF LowerOutputRegister
  <1>2. Lowering /\ LoweringInv BY <1>1, TakesFacts DEF WrittenInv
  <1>3. TableInv /\ SignalsKnown BY DEF TypeInv, Tables, WrittenInv
  <1>4. ty \in HwTypes /\ f.name \in Names BY <1>1, <1>3, TableFacts
  <1>5. r \in Register /\ r.name = f.name /\ r.ty = ty
    BY <1>4, NamesAssumption DEF Register
  <1>6. registers' = Append(registers, r) /\ UNCHANGED <<ports, design>>
    BY <1>1 DEF AddOutputRegister, Finished
  <1>7. f.attributes \in Seq(Attribute) BY FormFacts
  <1>8. strict \in BOOLEAN /\ f.sort \in {"register", "direct"} OBVIOUS
  <1>9. c = LowerAttributes(f.attributes, ty, strict) OBVIOUS
  <1> HIDE DEF c, r, ty, strict
  <1>10. Extends(Cur', Cur)
    <2>1. registers \in Seq(Register) /\ Len(registers) \in Nat BY <1>3, TableFacts
    <2>2. /\ registers' \in Seq(Register) /\ Len(registers') = Len(registers) + 1
          /\ \A k \in 1..Len(registers) : registers'[k] = registers[k]
      BY <1>5, <1>6, <2>1
    <2>3. Cur'.ports = ports /\ Cur'.enums = enums /\ Cur'.registers = registers'
      BY <1>1, <1>6 DEF Cur
    <2> QED BY <2>1, <2>2, <2>3, CurFacts DEF Extends
  <1>11. ClockingOK(c, f, ty, Cur')
    <2> DEFINE m2 == Cur'
    <2>1. Extends(m2, Cur) BY <1>10
    <2> HIDE DEF m2
    <2>2. ClockingOK(c, f, ty, m2)
      BY <1>1, <1>2, <1>4, <1>7, <1>8, <1>9, <2>1, ClockKnown
    <2> QED BY <2>2 DEF m2
  <1>12. LoweringInv' BY <1>1, <1>5, <1>6, <1>11, RegisterWrites
  <1> QED BY <1>1, <1>6, <1>12, SortsRange

LEMMA DeclareForClockedWrites ==
    ASSUME TypeInv, WrittenInv, NEW f \in Form, f.sort = "declaration", DeclareForClocked(f),
           ~\E kind : Fail(kind)
    PROVE  phase' \in Range(Sorts) /\ UNCHANGED design /\ LoweringInv'
  <1> DEFINE known == f.name \in DOMAIN lookup
             written == TypeFrom(f.props)
             ty == IF known THEN lookup[f.name].ty ELSE written
             r == [name |-> f.name, ty |-> ty]
  <1>1. /\ Takes(f) /\ Declare(known, f.name, written) /\ (known \/ ~IsError(written))
        /\ clocking' = Append(clocking, NoClock) /\ phase' = f.sort
        /\ UNCHANGED <<enums, members, assigns, blocks>> /\ Finished
    BY Zenon DEF DeclareForClocked
  <1>2. TableInv /\ SignalsKnown BY DEF TypeInv, Tables, WrittenInv
  <1>3. f.name \in Names /\ f.props \in Properties BY FormFacts
  <1>4. ty \in Types
    <2>1. CASE known BY <1>2, <2>1, TableFacts, NamesAssumption
    <2>2. CASE ~known BY <1>1, <1>3, <2>2, TypeFromType
    <2> QED BY <2>1, <2>2
  <1>5. r \in Register /\ r.name = f.name /\ r.ty = ty BY <1>3, <1>4 DEF Register
  <1>6. registers' = Append(registers, r) /\ UNCHANGED <<ports, design>>
    <2>1. CASE known BY <1>1, <2>1 DEF Declare, AddOutputRegister, Finished
    <2>2. CASE ~known BY <1>1, <2>2 DEF Declare, AddRegister, Finished
    <2> QED BY <2>1, <2>2
  <1> HIDE DEF r, ty
  <1>7. ClockingOK(NoClock, f, r.ty, Cur') BY DEF ClockingOK
  <1>8. LoweringInv' BY <1>1, <1>5, <1>6, <1>7, RegisterWrites
  <1> QED BY <1>1, <1>6, <1>8, SortsRange


\* Blocks and assignments leave signals, enums and clocks alone.
LEMMA LateWrites ==
    ASSUME TypeInv, LoweringInv, NEW f \in Form, f.sort \in {"clocked", "assign"}, Takes(f),
           UNCHANGED <<ports, registers, lookup, clocking, enums, members>>, phase' = f.sort
    PROVE  /\ SourceOK(Cur') /\ RegistersOK(Cur') /\ EnumsOK(Cur') /\ ClocksOK(Cur')
           /\ MembersOK(members', Cur') /\ NothingLater' /\ Same(Cur', Cur)
           /\ FormsOf(Cur', f.sort) = Append(FormsOf(Cur, f.sort), f)
           /\ \A s \in FormSorts \ {f.sort} : FormsOf(Cur', s) = FormsOf(Cur, s)
  <1>1. f.sort \in FormSorts /\ f.sort \notin {"enum", "register"} BY SortsFacts
  <1>2. /\ SourceOK(Cur) /\ RegistersOK(Cur) /\ ClocksOK(Cur) /\ EnumsOK(Cur)
    BY DEF LoweringInv, Written
  <1>3. /\ SourceOK(Cur')
        /\ FormsOf(Cur', f.sort) = Append(FormsOf(Cur, f.sort), f)
        /\ \A s \in FormSorts \ {f.sort} : FormsOf(Cur', s) = FormsOf(Cur, s)
    BY <1>1, <1>2, FormTaken
  <1>4. NothingLater' BY <1>1, TakenLast
  <1>5. /\ Cur'.ports = Cur.ports /\ Cur'.enums = Cur.enums /\ Cur'.registers = Cur.registers
        /\ Cur'.clocking = Cur.clocking
    BY DEF Cur
  <1>6. Same(Cur', Cur) BY <1>5 DEF Same
  <1>7. SameRegisterForms(Cur', Cur) /\ FormsOf(Cur', "enum") = FormsOf(Cur, "enum")
    BY <1>3, SortsFacts DEF SameRegisterForms
  <1>8. RegistersOK(Cur') /\ RegisterForms(Cur') = RegisterForms(Cur)
    BY <1>2, <1>5, <1>7, RegistersKept
  <1>9. EnumsOK(Cur') BY <1>2, <1>5, <1>7, EnumsKept
  <1>10. ClocksOK(Cur') BY <1>2, <1>5, <1>6, <1>8, ClocksKept
  <1>11. MembersOK(members', Cur') BY <1>5 DEF LoweringInv, MembersOK
  <1> QED BY <1>3, <1>4, <1>6, <1>8, <1>9, <1>10, <1>11

\* A signal with the id of a port is that port.
LEMMA PortOfSignal ==
    ASSUME TableInv, SignalsKnown, NEW n \in DOMAIN lookup, lookup[n].id < Len(ports)
    PROVE  /\ lookup[n].id \in 0..(Len(ports) - 1)
           /\ ports[lookup[n].id + 1].direction = lookup[n].direction
           /\ ports[lookup[n].id + 1].ty = lookup[n].ty
           /\ ports[lookup[n].id + 1].name = n
  <1>1. /\ lookup[n].id \in Nat /\ Len(ports) \in Nat
        /\ SignalName(lookup[n].id, ports, registers) = n
        /\ SignalType(lookup[n].id, ports, registers) = lookup[n].ty
    BY TableFacts
  <1>2. lookup[n].direction = ports[lookup[n].id + 1].direction
    BY DEF SignalsKnown, Directions
  <1> QED BY <1>1, <1>2 DEF SignalName, SignalType, IsPort

LEMMA LowerClockedWrites ==
    ASSUME TypeInv, WrittenInv, NEW f \in Form, f.sort = "clocked", LowerClocked(f),
           ~\E kind : Fail(kind)
    PROVE  phase' \in Range(Sorts) /\ UNCHANGED design /\ LoweringInv'
  <1> DEFINE body == LowerStmt(f.body)
             id == lookup[f.clock].id
             b == [clock |-> id, edge |-> f.edge, body |-> body]
  <1>1. /\ Takes(f) /\ f.clock \in DOMAIN lookup
        /\ lookup[f.clock].direction = Input /\ lookup[f.clock].ty = Bit
        /\ ~IsError(body) /\ blocks' = Append(blocks, b) /\ phase' = f.sort
        /\ UNCHANGED <<table, clocking, enums, members, assigns>> /\ Finished
    BY Zenon DEF LowerClocked
  <1>2. Lowering /\ LoweringInv BY <1>1, TakesFacts DEF WrittenInv
  <1>3. TableInv /\ SignalsKnown /\ MembersOK(members, Cur)
    BY <1>2 DEF TypeInv, Tables, WrittenInv, LoweringInv
  <1>4. UNCHANGED <<ports, registers, lookup, design>> BY <1>1 DEF table, Finished
  <1>5. /\ b.clock = id /\ b.edge = f.edge /\ b.body = body OBVIOUS
  <1>6. f.body \in Stmt BY FormFacts DEF Body
  <1>7. id < Len(ports) BY <1>1 DEF TypeInv, Tables
  <1>8. /\ id \in 0..(Len(ports) - 1) /\ ports[id + 1].direction = Input
        /\ ports[id + 1].ty = Bit /\ ports[id + 1].name = f.clock
    BY <1>1, <1>3, <1>7, PortOfSignal
  <1> HIDE DEF b, id, body
  <1>9. /\ SourceOK(Cur') /\ RegistersOK(Cur') /\ EnumsOK(Cur') /\ ClocksOK(Cur')
        /\ MembersOK(members', Cur') /\ NothingLater' /\ Same(Cur', Cur)
        /\ FormsOf(Cur', f.sort) = Append(FormsOf(Cur, f.sort), f)
        /\ \A s \in FormSorts \ {f.sort} : FormsOf(Cur', s) = FormsOf(Cur, s)
    BY <1>1, <1>2, <1>4, LateWrites
  <1>10. ASSUME NEW t, Same(t, Cur) PROVE StmtOK(f.body, body, t)
    <2>1. SignalsHere(t) BY <1>3, <1>10, HereKnown
    <2>2. body \in StmtResults(f.body, t) BY <1>6, <2>1, StmtLowered DEF body
    <2> QED BY <1>1, <1>6, <2>2, StmtResultFacts
  <1>11. BlockOK(b, f, Cur')
    <2>1. Cur'.ports = ports /\ \A t : Same(t, Cur') => Same(t, Cur)
      BY <1>4, <1>9 DEF Cur, Same
    <2> QED BY <1>5, <1>8, <1>10, <2>1 DEF BlockOK
  <1>12. BlocksOK(Cur')
    <2>1. Cur'.blocks = Append(Cur.blocks, b) BY <1>1 DEF Cur
    <2>2. FormsOf(Cur', "clocked") = Append(FormsOf(Cur, "clocked"), f) BY <1>9
    <2>3. SourceOK(Cur) /\ BlocksOK(Cur) BY <1>2 DEF LoweringInv, Written
    <2> DEFINE m == Cur
               m2 == Cur'
    <2>4. /\ SourceOK(m) /\ BlocksOK(m) /\ Same(m2, m) /\ BlockOK(b, f, m2)
          /\ m2.blocks = Append(m.blocks, b)
          /\ FormsOf(m2, "clocked") = Append(FormsOf(m, "clocked"), f)
      BY <1>9, <1>11, <2>1, <2>2, <2>3
    <2> HIDE DEF m, m2
    <2>5. BlocksOK(m2) BY <2>4, BlocksGrow
    <2> QED BY <2>5 DEF m2
  <1>13. AssignsOK(Cur')
    <2>1. Cur'.assigns = Cur.assigns BY <1>1 DEF Cur
    <2>2. FormsOf(Cur', "assign") = FormsOf(Cur, "assign") BY <1>9, SortsFacts
    <2> QED BY <1>2, <1>9, <2>1, <2>2, AssignsKept DEF LoweringInv, Written
  <1> QED BY <1>1, <1>4, <1>9, <1>12, <1>13, SortsRange DEF LoweringInv, Written

LEMMA LowerAssignWrites ==
    ASSUME TypeInv, WrittenInv, NEW f \in Form, f.sort = "assign", LowerAssign(f),
           ~\E kind : Fail(kind)
    PROVE  phase' \in Range(Sorts) /\ UNCHANGED design /\ LoweringInv'
  <1> DEFINE ty == lookup[f.dest].ty
             id == lookup[f.dest].id
             value == LowerCore(f.value, Env, ty)
             a == [dest |-> id, value |-> value]
  <1>1. /\ Takes(f) /\ f.dest \in DOMAIN lookup /\ lookup[f.dest].direction = Output
        /\ ~Assigned(f.dest) /\ ~IsError(value)
        /\ assigns' = Append(assigns, a) /\ phase' = f.sort
        /\ UNCHANGED <<table, clocking, enums, members, blocks>> /\ Finished
    BY Zenon DEF LowerAssign
  <1>2. Lowering /\ LoweringInv BY <1>1, TakesFacts DEF WrittenInv
  <1>3. TableInv /\ SignalsKnown /\ MembersOK(members, Cur)
    BY <1>2 DEF TypeInv, Tables, WrittenInv, LoweringInv
  <1>4. UNCHANGED <<ports, registers, lookup, design>> BY <1>1 DEF table, Finished
  <1>5. a.dest = id /\ a.value = value OBVIOUS
  <1>6. f.value \in CoreExpr BY FormFacts
  <1>7. /\ ty \in HwTypes /\ id \in Nat /\ id < Len(ports) + Len(registers)
        /\ SignalName(id, ports, registers) = f.dest
        /\ Len(ports) \in Nat /\ Len(registers) \in Nat /\ DOMAIN registers = 1..Len(registers)
    BY <1>1, <1>3, TableFacts
  <1>8. /\ \A i \in DOMAIN registers : registers[i].name # f.dest
        /\ \A i \in DOMAIN assigns : assigns[i].dest # id
    BY <1>1 DEF Assigned, IsRegister
  <1>9. id < Len(ports)
    <2> SUFFICES ASSUME ~(id < Len(ports)) PROVE FALSE OBVIOUS
    <2> DEFINE i == id - Len(ports) + 1
    <2>1. i \in 1..Len(registers) BY <1>7
    <2>2. registers[i].name = f.dest BY <1>7 DEF SignalName, IsPort
    <2> QED BY <1>7, <1>8, <2>1, <2>2
  <1>10. /\ id \in 0..(Len(ports) - 1) /\ ports[id + 1].direction = Output
         /\ ports[id + 1].ty = ty /\ ports[id + 1].name = f.dest
    BY <1>1, <1>3, <1>9, PortOfSignal
  <1> HIDE DEF a, id, value, ty
  <1>11. /\ SourceOK(Cur') /\ RegistersOK(Cur') /\ EnumsOK(Cur') /\ ClocksOK(Cur')
         /\ MembersOK(members', Cur') /\ NothingLater' /\ Same(Cur', Cur)
         /\ FormsOf(Cur', f.sort) = Append(FormsOf(Cur, f.sort), f)
         /\ \A s \in FormSorts \ {f.sort} : FormsOf(Cur', s) = FormsOf(Cur, s)
    BY <1>1, <1>2, <1>4, LateWrites
  <1>12. ASSUME NEW t, Same(t, Cur) PROVE value \in Lowered(f.value, ty, t)
    <2>1. EnvOK(Env, t) BY <1>3, <1>12, SameExtends, EnvKnown
    <2>2. ty \in Expected BY <1>7 DEF Expected
    <2>3. value \in Results(f.value, ty, t) BY <1>6, <2>1, <2>2, CoreLowered DEF value
    <2> QED BY <1>1, <2>3, ResultFacts
  <1>13. AssignOK(a, f, Cur')
    <2>1. /\ Cur'.ports = ports /\ Cur'.registers = registers
          /\ \A t : Same(t, Cur') => Same(t, Cur)
      BY <1>4, <1>11 DEF Cur, Same
    <2>2. ~IsRegisterName(f.dest, Cur') BY <1>8, <2>1 DEF IsRegisterName
    <2> QED BY <1>5, <1>10, <1>12, <2>1, <2>2 DEF AssignOK
  <1>14. AssignsOK(Cur')
    <2>1. Cur'.assigns = Append(Cur.assigns, a) BY <1>1 DEF Cur
    <2>2. FormsOf(Cur', "assign") = Append(FormsOf(Cur, "assign"), f) BY <1>11
    <2>3. SourceOK(Cur) /\ AssignsOK(Cur) BY <1>2 DEF LoweringInv, Written
    <2>4. \A i \in DOMAIN Cur.assigns : Cur.assigns[i].dest # a.dest
      BY <1>5, <1>8, CurFacts
    <2> DEFINE m == Cur
               m2 == Cur'
    <2>5. /\ SourceOK(m) /\ AssignsOK(m) /\ Same(m2, m) /\ AssignOK(a, f, m2)
          /\ \A i \in DOMAIN m.assigns : m.assigns[i].dest # a.dest
          /\ m2.assigns = Append(m.assigns, a)
          /\ FormsOf(m2, "assign") = Append(FormsOf(m, "assign"), f)
      BY <1>11, <1>13, <2>1, <2>2, <2>3, <2>4
    <2> HIDE DEF m, m2
    <2>6. AssignsOK(m2) BY <2>5, AssignsGrow
    <2> QED BY <2>6 DEF m2
  <1>15. BlocksOK(Cur')
    <2>1. Cur'.blocks = Cur.blocks BY <1>1 DEF Cur
    <2>2. FormsOf(Cur', "clocked") = FormsOf(Cur, "clocked") BY <1>11, SortsFacts
    <2> QED BY <1>2, <1>11, <2>1, <2>2, BlocksKept DEF LoweringInv, Written
  <1> QED BY <1>1, <1>4, <1>11, <1>14, <1>15, SortsRange DEF LoweringInv, Written

LEMMA EndModuleWrites ==
    ASSUME TypeInv, WrittenInv, SignalsKnown', EndModule
    PROVE  WrittenInv'
  <1>1. /\ Lowering /\ Len(clocking) = Len(registers) /\ design' = Append(design, Cur)
        /\ phase' = "between" /\ ClearTable
        /\ clocking' = <<>> /\ enums' = <<>> /\ members' = <<>>
        /\ assigns' = <<>> /\ blocks' = <<>>
    BY DEF EndModule, Cur
  <1>2. LoweringInv BY <1>1 DEF WrittenInv
  <1>3. ModuleOK(Cur)
    <2>1. TableInv /\ SignalsKnown BY DEF TypeInv, Tables, WrittenInv
    <2>2. SignalsApart(Cur) BY <2>1, SignalsAreApart
    <2> QED BY <1>1, <1>2, <2>1, <2>2, TableFacts, CurFacts DEF LoweringInv, ModuleOK
  <1>4. \A k \in DOMAIN design' : ModuleOK(design'[k])
    <2> DEFINE m == Cur
    <2>1. IsSequence(design) BY DEF TypeInv, Progress
    <2>2. ModuleOK(m) /\ design' = Append(design, m) BY <1>1, <1>3
    <2> HIDE DEF m
    <2>3. /\ DOMAIN design = 1..Len(design) /\ DOMAIN design' = 1..(Len(design) + 1)
          /\ Len(design) \in Nat
          /\ \A k \in 1..Len(design) : design'[k] = design[k]
          /\ design'[Len(design) + 1] = m
      BY <2>1, <2>2, AppendToSequence
    <2> SUFFICES ASSUME NEW k \in DOMAIN design' PROVE ModuleOK(design'[k]) OBVIOUS
    <2>4. CASE k = Len(design) + 1 BY <2>2, <2>3, <2>4
    <2>5. CASE k # Len(design) + 1
      <3>1. k \in DOMAIN design /\ design'[k] = design[k] BY <2>3, <2>5
      <3> QED BY <3>1 DEF WrittenInv
    <2> QED BY <2>4, <2>5
  <1>5. Idle' BY <1>1 DEF Idle, EmptyTable, ClearTable
  <1>6. ~Lowering' /\ ~Verified' /\ phase' # "rejected" /\ phase' # "emitted"
    BY <1>1, SortsRange DEF Lowering, Verified
  <1> QED BY <1>4, <1>5, <1>6 DEF WrittenInv, Concluded

LEMMA VerifyWrites ==
    ASSUME TypeInv, WrittenInv, SignalsKnown', Verify
    PROVE  WrittenInv'
  <1>1. /\ UNCHANGED design /\ outcome' = VerifyDesign
        /\ phase' = IF VerifyDesign = "ok" THEN "verified" ELSE "rejected"
    BY DEF Verify
  <1>2. VerifyDesign' = VerifyDesign BY <1>1 DEF VerifyDesign
  <1>3. ~Lowering' /\ phase' # "emitted" /\ phase' # "between"
        /\ (phase' = "verified" <=> VerifyDesign = "ok")
    BY <1>1, SortsRange DEF Lowering
  <1>4. Concluded' BY <1>1, <1>2, <1>3 DEF Concluded, Verified
  <1> QED BY <1>1, <1>3, <1>4 DEF WrittenInv

LEMMA EmitWrites ==
    ASSUME TypeInv, WrittenInv, SignalsKnown', Emit
    PROVE  WrittenInv'
  <1>1. /\ UNCHANGED design /\ phase = "verified" /\ phase' = "emitted"
        /\ text' = [k \in DOMAIN design |-> ModuleText(design[k])]
    BY DEF Emit
  <1>2. VerifyDesign' = VerifyDesign BY <1>1 DEF VerifyDesign
  <1>3. VerifyDesign = "ok" BY <1>1 DEF WrittenInv, Concluded, Verified
  <1>4. ~Lowering' /\ phase' # "between" /\ phase' # "rejected"
    BY <1>1, SortsRange DEF Lowering
  <1>5. Concluded' BY <1>1, <1>2, <1>3, <1>4 DEF Concluded, Verified
  <1> QED BY <1>1, <1>4, <1>5 DEF WrittenInv

LEMMA WrittenUnchanged ==
    ASSUME TypeInv, WrittenInv, SignalsKnown', UNCHANGED vars
    PROVE  WrittenInv'
  <1>1. /\ UNCHANGED <<ports, registers, lookup, clocking, enums, members, assigns, blocks>>
        /\ UNCHANGED <<phase, source, design, outcome, text>>
    BY DEF vars, tables, table
  <1>2. Cur' = Cur BY <1>1 DEF Cur
  <1>3. phase = "between" => Idle' BY <1>1 DEF WrittenInv, Idle, EmptyTable
  <1>4. Lowering => LoweringInv'
    BY <1>1, <1>2 DEF WrittenInv, LoweringInv, NothingLater
  <1>5. VerifyDesign' = VerifyDesign BY <1>1 DEF VerifyDesign
  <1>6. Concluded' BY <1>1, <1>5 DEF WrittenInv, Concluded, Verified
  <1> QED BY <1>1, <1>3, <1>4, <1>6 DEF WrittenInv, Lowering


LEMMA WrittenInvInit == Init => WrittenInv
  <1> SUFFICES ASSUME Init PROVE WrittenInv OBVIOUS
  <1>1. /\ EmptyTable /\ clocking = <<>> /\ enums = <<>> /\ members = <<>> /\ assigns = <<>>
        /\ blocks = <<>> /\ phase = "between" /\ design = <<>>
    BY DEF Init
  <1>2. SignalsKnown BY <1>1, EmptyTableKnown
  <1>3. ~Lowering /\ ~Verified BY <1>1, SortsRange DEF Lowering, Verified
  <1> QED BY <1>1, <1>2, <1>3 DEF WrittenInv, Idle, Concluded

LEMMA BeginModuleKeepsWritten ==
    ASSUME TypeInv, WrittenInv, SignalsKnown', NEW name \in offer.modules, BeginModule(name)
    PROVE  WrittenInv'
  <1>1. CASE name \in Identifiers
    BY <1>1, BeginModuleWrites, LoweringKeepsWritten
  <1>2. CASE name \notin Identifiers
    BY <1>2, FailKeepsWritten DEF BeginModule
  <1> QED BY <1>1, <1>2

LEMMA LowerFormWrites ==
    ASSUME TypeInv, WrittenInv, SignalsKnown', NEW f \in Form, LowerForm(f)
    PROVE  WrittenInv'
  <1>1. CASE \E kind : Fail(kind) BY <1>1, FailKeepsWritten
  <1>2. CASE ~\E kind : Fail(kind)
    <2>1. phase' \in Range(Sorts) /\ UNCHANGED design /\ LoweringInv'
      <3>1. CASE f.sort = "enum" /\ LowerEnum(f) BY <1>2, <3>1, LowerEnumWrites
      <3>2. CASE f.sort = "register" /\ DeclareRegister(f) BY <1>2, <3>2, DeclareRegisterWrites
      <3>3. CASE f.sort = "direct" /\ LowerOutputRegister(f)
        BY <1>2, <3>3, LowerOutputRegisterWrites
      <3>4. CASE f.sort = "declaration" /\ DeclareForClocked(f)
        BY <1>2, <3>4, DeclareForClockedWrites
      <3>5. CASE f.sort = "clocked" /\ LowerClocked(f) BY <1>2, <3>5, LowerClockedWrites
      <3>6. CASE f.sort = "assign" /\ LowerAssign(f) BY <1>2, <3>6, LowerAssignWrites
      <3> QED BY <3>1, <3>2, <3>3, <3>4, <3>5, <3>6 DEF LowerForm
    <2> QED BY <2>1, LoweringKeepsWritten
  <1> QED BY <1>1, <1>2

LEMMA WrittenInvStep ==
    ASSUME TypeInv, WrittenInv, [Next]_vars
    PROVE  WrittenInv'
  <1>1. SignalsKnown'
    BY TypeInvStep, SignalsKnownStep DEF TypeInv, Tables, WrittenInv
  <1>2. CASE \E name \in offer.modules : BeginModule(name)
    BY <1>1, <1>2, BeginModuleKeepsWritten
  <1>3. CASE LowerPort
    <2>1. CASE \E kind : Fail(kind) BY <1>1, <2>1, FailKeepsWritten
    <2>2. CASE ~\E kind : Fail(kind) BY <1>1, <1>3, <2>2, LowerPortWrites, LoweringKeepsWritten
    <2> QED BY <2>1, <2>2
  <1>4. CASE /\ source.place \in DOMAIN offer.forms
             /\ \E f \in offer.forms[source.place] : LowerForm(f)
    <2>1. PICK f \in offer.forms[source.place] : LowerForm(f) BY <1>4
    <2>2. f \in Form BY <1>4, OfferedForms
    <2> QED BY <1>1, <2>1, <2>2, LowerFormWrites
  <1>5. CASE LowerRegister
    <2>1. CASE \E kind : Fail(kind) BY <1>1, <2>1, FailKeepsWritten
    <2>2. CASE ~\E kind : Fail(kind)
      BY <1>1, <1>5, <2>2, LowerRegisterWrites, LoweringKeepsWritten
    <2> QED BY <2>1, <2>2
  <1>6. CASE Malformed BY <1>1, <1>6, FailKeepsWritten DEF Malformed
  <1>7. CASE EndModule BY <1>1, <1>7, EndModuleWrites
  <1>8. CASE Verify BY <1>1, <1>8, VerifyWrites
  <1>9. CASE Emit BY <1>1, <1>9, EmitWrites
  <1>10. CASE UNCHANGED vars BY <1>1, <1>10, WrittenUnchanged
  <1> QED BY <1>2, <1>3, <1>4, <1>5, <1>6, <1>7, <1>8, <1>9, <1>10 DEF Next

\* Whatever the source, the module in the making and those of the design are
\* lowerings of what was written, and the verdict and the text are theirs.
THEOREM WrittenInvariance == Spec => [](TypeInv /\ WrittenInv)
  <1>1. TypeInv /\ WrittenInv /\ [Next]_vars => TypeInv' /\ WrittenInv'
    BY TypeInvStep, WrittenInvStep
  <1> QED BY <1>1, TypeInvInit, WrittenInvInit, PTL DEF Spec

-----------------------------------------------------------------------------
(* Literals *)

LEMMA PowerFacts ==
    /\ Power \in [Nat -> Nat] /\ Power[0] = 1
    /\ \A n \in Nat : Power[n + 1] = 2 * Power[n]
  <1> DEFINE step(n, f) == IF n = 0 THEN 1 ELSE 2 * f[n - 1]
             N == Nat
             id == [n \in N |-> n]
             H == [n \in N |-> [f \in [N -> N] |-> step(n, f)]]
             body(f) == [n \in N |-> step(n, f)]
             power == CHOOSE f : f = body(f)
  <1>1. Power = power BY DEF Power
  <1>2. ASSUME NEW x \in N, NEW f, NEW g, \A y \in N : id[y] < id[x] => f[y] = g[y]
        PROVE  step(x, f) = step(x, g)
    <2>1. CASE x = 0 BY <2>1
    <2>2. CASE x # 0
      <3>1. x - 1 \in N /\ id[x - 1] < id[x] BY <2>2
      <3> QED BY <1>2, <3>1
    <2> QED BY <2>1, <2>2
  <1>3. \A x \in N, f \in [N -> N] : step(x, f) \in N
    <2> TAKE x \in N, f \in [N -> N]
    <2>1. CASE x = 0 BY <2>1
    <2>2. CASE x # 0
      <3>1. x - 1 \in N BY <2>2
      <3>2. f[x - 1] \in Nat BY <3>1
      <3> QED BY <2>2, <3>2
    <2> QED BY <2>1, <2>2
  <1>4. id \in [N -> Nat] OBVIOUS
  <1>5. N # {} BY DEF N
  <1> HIDE DEF step, id
  <1>6. LooksBelow(H, N, N, id)
    <2>1. H \in [N -> [[N -> N] -> N]] BY <1>3
    <2>2. \A x \in N, f \in [N -> N] : H[x][f] = step(x, f) OBVIOUS
    <2>3. ASSUME NEW x \in N, NEW f \in [N -> N], NEW g \in [N -> N],
                 \A y \in N : id[y] < id[x] => f[y] = g[y]
          PROVE  H[x][f] = H[x][g]
      <3> HIDE DEF H
      <3>1. step(x, f) = step(x, g) BY <1>2, <2>3
      <3> QED BY <2>2, <3>1
    <2> HIDE DEF H, N
    <2> QED BY <2>1, <2>3 DEF LooksBelow
  <1>7. PICK f : Solves(f, H, N, N)
    <2> HIDE DEF H, N
    <2> QED BY <1>4, <1>5, <1>6, RecursionExists
  <1>8. f \in [N -> N] /\ \A x \in N : f[x] = step(x, f) BY <1>7 DEF Solves
  <1>9. power = body(power)
    <2>1. f = body(f) BY <1>8
    <2> HIDE DEF body
    <2> QED BY <2>1, Zenon
  <1>10. \A x \in N : power[x] = step(x, power)
    <2> HIDE DEF power
    <2> QED BY <1>9
  <1>11. power = [x \in N |-> step(x, power)] BY <1>9, Zenon
  <1> HIDE DEF power
  <1>12. \A x \in N : power[x] = f[x]
    <2>1. ASSUME NEW x \in N, \A y \in N : id[y] < id[x] => power[y] = f[y]
          PROVE  power[x] = f[x]
      BY <1>2, <1>8, <1>10, <2>1
    <2> HIDE DEF N
    <2> QED BY <1>4, <2>1, AgreeByRank
  <1>13. \A x \in N : power[x] \in N BY <1>8, <1>12
  <1>14. power \in [N -> N]
    <2> DEFINE q(x) == step(x, power)
    <2>1. power = [x \in N |-> q(x)] BY <1>11
    <2>2. \A x \in N : q(x) \in N BY <1>10, <1>13
    <2> HIDE DEF q
    <2> QED BY <2>1, <2>2
  <1>15. power[0] = 1 BY <1>10 DEF step
  <1>16. \A n \in Nat : power[n + 1] = 2 * power[n]
    <2> TAKE n \in Nat
    <2>1. n + 1 \in N /\ n + 1 # 0 /\ (n + 1) - 1 = n OBVIOUS
    <2> QED BY <1>10, <2>1 DEF step
  <1> QED BY <1>1, <1>14, <1>15, <1>16

LEMMA PowerPositive == \A n \in Nat : Power[n] \in Nat \ {0}
  <1> DEFINE P == {n \in Nat : Power[n] # 0}
  <1>1. P \in SUBSET Nat OBVIOUS
  <1>2. 0 \in P BY PowerFacts
  <1>3. ASSUME NEW n \in P PROVE n + 1 \in P
    <2>1. n \in Nat /\ Power[n] \in Nat /\ Power[n] # 0 /\ Power[n + 1] = 2 * Power[n]
      BY PowerFacts
    <2>2. Power[n + 1] # 0 BY <2>1
    <2> QED BY <2>1, <2>2
  <1> HIDE DEF P
  <1>4. \A n \in Nat : n \in P BY <1>1, <1>2, <1>3, NaturalInduction
  <1> QED BY <1>4, PowerFacts DEF P

LEMMA Residue ==
    ASSUME NEW b \in Nat \ {0}, NEW v \in Int, v \in -b..(b - 1)
    PROVE  v % b = IF v < 0 THEN v + b ELSE v
  OBVIOUS

LEMMA FittingReadsBack ==
    ASSUME NEW ty \in HwTypes, NEW v \in Int, InRange(v, ty)
    PROVE  ReadBack(v, ty) = v
  <1>1. ty.width \in Nat /\ ty.width # 0 /\ ty.width - 1 \in Nat /\ ty.signed \in BOOLEAN
    BY WidthsAssumption DEF HwTypes
  <1> DEFINE half == Power[ty.width - 1]
             whole == Power[ty.width]
  <1>2. half \in Nat \ {0} /\ whole = 2 * half
    <2>1. (ty.width - 1) + 1 = ty.width BY <1>1
    <2> QED BY <1>1, <2>1, PowerFacts, PowerPositive
  <1>3. ReadBack(v, ty) = IF ty.signed /\ v % whole >= half THEN (v % whole) - whole ELSE v % whole
    BY DEF ReadBack
  <1>4. IF ty.signed THEN v \in -half..(half - 1) ELSE v \in 0..(whole - 1) BY DEF InRange
  <1> HIDE DEF half, whole
  <1>5. v \in -whole..(whole - 1) /\ whole \in Nat \ {0} BY <1>2, <1>4
  <1>6. v % whole = IF v < 0 THEN v + whole ELSE v BY <1>5, Residue
  <1> QED BY <1>1, <1>2, <1>3, <1>4, <1>6


LEMMA SignOfBits ==
    ASSUME NEW half \in Nat \ {0}, NEW bits \in 0..(2 * half - 1)
    PROVE  /\ bits >= half => bits - 2 * half \in -half..(half - 1)
           /\ ~(bits >= half) => bits \in -half..(half - 1)
  OBVIOUS

\* What does not fit is not read back: the bits of a type are in its range.
LEMMA ReadBackInRange ==
    ASSUME NEW ty \in HwTypes, NEW v \in Int
    PROVE  InRange(ReadBack(v, ty), ty)
  <1>1. ty.width \in Nat /\ ty.width # 0 /\ ty.width - 1 \in Nat /\ ty.signed \in BOOLEAN
    BY WidthsAssumption DEF HwTypes
  <1> DEFINE half == Power[ty.width - 1]
             whole == Power[ty.width]
             read == ReadBack(v, ty)
  <1>2. half \in Nat \ {0} /\ whole = 2 * half
    <2>1. (ty.width - 1) + 1 = ty.width BY <1>1
    <2> QED BY <1>1, <2>1, PowerFacts, PowerPositive
  <1>3. read = IF ty.signed /\ v % whole >= half THEN (v % whole) - whole ELSE v % whole
    BY DEF ReadBack
  <1>4. InRange(read, ty) <=> IF ty.signed THEN read \in -half..(half - 1) ELSE read \in 0..(whole - 1)
    BY DEF InRange
  <1> DEFINE bits == v % whole
  <1>5. bits \in 0..(whole - 1)
    <2> HIDE DEF half, whole
    <2>1. whole \in Nat \ {0} BY <1>2
    <2> QED BY <2>1
  <1>6. read = IF ty.signed /\ bits >= half THEN bits - whole ELSE bits BY <1>3
  <1> HIDE DEF half, whole, read, bits
  <1>7. ASSUME ty.signed PROVE InRange(read, ty)
    <2>1. bits \in 0..(2 * half - 1) BY <1>2, <1>5
    <2>2. /\ bits >= half => bits - whole \in -half..(half - 1)
          /\ ~(bits >= half) => bits \in -half..(half - 1)
      BY <1>2, <2>1, SignOfBits
    <2>3. read = IF bits >= half THEN bits - whole ELSE bits BY <1>6, <1>7
    <2>4. read \in -half..(half - 1) BY <2>2, <2>3
    <2> QED BY <1>4, <1>7, <2>4
  <1>8. ASSUME ~ty.signed PROVE InRange(read, ty)
    <2>1. read = bits BY <1>6, <1>8
    <2>2. read \in 0..(whole - 1) BY <1>5, <2>1
    <2> QED BY <1>4, <1>8, <2>2
  <1>9. InRange(read, ty) BY <1>7, <1>8
  <1> QED BY <1>9 DEF read

LEMMA PowerGrows == \A n \in Nat : \A k \in 0..n : Power[k] <= Power[n]
  <1> DEFINE P == {n \in Nat : \A k \in 0..n : Power[k] <= Power[n]}
  <1>1. P \in SUBSET Nat OBVIOUS
  <1>2. 0 \in P BY PowerFacts
  <1>3. ASSUME NEW n \in P PROVE n + 1 \in P
    <2>1. n \in Nat /\ Power[n] \in Nat /\ Power[n + 1] = 2 * Power[n] BY PowerFacts
    <2>2. \A k \in 0..(n + 1) : k \in Nat /\ Power[k] \in Nat /\ (k = n + 1 \/ k \in 0..n)
      BY <2>1, PowerFacts
    <2>3. Power[n + 1] \in Nat /\ Power[n] <= Power[n + 1] BY <2>1
    <2>4. \A k \in 0..n : Power[k] <= Power[n] OBVIOUS
    <2>5. \A k \in 0..(n + 1) : Power[k] <= Power[n + 1]
      <3> TAKE k \in 0..(n + 1)
      <3>1. CASE k = n + 1 BY <2>3, <3>1
      <3>2. CASE k \in 0..n
        <4>1. Power[k] \in Nat /\ Power[k] <= Power[n] BY <2>2, <2>4, <3>2
        <4> QED BY <2>1, <2>3, <4>1
      <3> QED BY <2>2, <3>1, <3>2
    <2> QED BY <2>1, <2>5
  <1> HIDE DEF P
  <1>4. \A n \in Nat : n \in P BY <1>1, <1>2, <1>3, NaturalInduction
  <1> QED BY <1>4 DEF P

\* Of the words `fits` accepts, those out of range are the ones it takes unseen:
\* a signed type as wide as a word, and an unsigned one a bit narrower, hold
\* every word that is not negative.
LEMMA UnseenOutOfRange ==
    ASSUME NEW ty \in HwTypes, NEW v \in Words, Fits(v, ty)
    PROVE  InRange(v, ty) <=> ~TakenUnseen(v, ty)
  <1> DEFINE w == ty.width
             bound == Power[WordBits - 1]
  <1>1. /\ w \in Nat /\ w # 0 /\ w - 1 \in Nat /\ ty.signed \in BOOLEAN
        /\ WordBits \in Nat /\ WordBits - 1 \in Nat
    BY WidthsAssumption DEF HwTypes
  <1>2. Power[w] \in Nat /\ Power[w - 1] \in Nat /\ bound \in Nat BY <1>1, PowerFacts
  <1>3. v \in Int /\ v \in -bound..(bound - 1) BY <1>2 DEF Words
  <1>4. InRange(v, ty) <=> IF ty.signed THEN v \in -Power[w - 1]..(Power[w - 1] - 1)
                           ELSE v \in 0..(Power[w] - 1)
    BY DEF InRange
  <1>5. TakenUnseen(v, ty) <=> IF ty.signed THEN w = WordBits - 1 /\ ~InRange(v, ty)
                               ELSE w >= WordBits - 1 /\ v < 0
    BY DEF TakenUnseen
  <1>6. w >= WordBits - 1 \/ InRange(v, ty) BY DEF Fits
  <1>7. CASE ty.signed /\ w > WordBits - 1
    <2>1. w - 1 \in Nat /\ WordBits - 1 \in 0..(w - 1) BY <1>1, <1>7
    <2>2. bound <= Power[w - 1] BY <2>1, PowerGrows
    <2>3. v \in -Power[w - 1]..(Power[w - 1] - 1)
      <3> HIDE DEF w, bound
      <3> QED BY <1>2, <1>3, <2>2
    <2> HIDE DEF w
    <2> QED BY <1>1, <1>4, <1>5, <1>7, <2>3
  <1>8. CASE ~ty.signed /\ w >= WordBits - 1
    <2>1. WordBits - 1 \in 0..w BY <1>1, <1>8
    <2>2. bound <= Power[w] BY <1>1, <2>1, PowerGrows
    <2>3. v \in 0..(Power[w] - 1) <=> ~(v < 0)
      <3> HIDE DEF w, bound
      <3> QED BY <1>2, <1>3, <2>2
    <2> HIDE DEF w
    <2> QED BY <1>4, <1>5, <1>8, <2>3
  <1>9. CASE ty.signed /\ w <= WordBits - 1
    <2> HIDE DEF w
    <2> QED BY <1>1, <1>5, <1>6, <1>9
  <1>10. CASE ~ty.signed /\ w < WordBits - 1
    <2>1. InRange(v, ty)
      <3> HIDE DEF w
      <3> QED BY <1>1, <1>6, <1>10
    <2>2. ~(w >= WordBits - 1)
      <3> HIDE DEF w
      <3> QED BY <1>1, <1>10
    <2> HIDE DEF w
    <2> QED BY <1>5, <1>10, <2>1, <2>2
  <1>11. w > WordBits - 1 \/ w <= WordBits - 1
    <2> HIDE DEF w
    <2> QED BY <1>1
  <1>12. w >= WordBits - 1 \/ w < WordBits - 1
    <2> HIDE DEF w
    <2> QED BY <1>1
  <1> HIDE DEF w
  <1> QED BY <1>1, <1>7, <1>8, <1>9, <1>10, <1>11, <1>12

LEMMA WordReadBack ==
    ASSUME NEW ty \in HwTypes, NEW v \in Words, Fits(v, ty)
    PROVE  ReadBack(v, ty) = v <=> ~TakenUnseen(v, ty)
  <1>1. v \in Int
    <2>1. Power[WordBits - 1] \in Nat
      <3>1. WordBits - 1 \in Nat BY WidthsAssumption
      <3> QED BY <3>1, PowerFacts
    <2> QED BY <2>1 DEF Words
  <1>2. InRange(v, ty) <=> ReadBack(v, ty) = v BY <1>1, FittingReadsBack, ReadBackInRange
  <1> QED BY <1>2, UnseenOutOfRange

LEMMA GoodLiterals ==
    ASSUME NEW m, NEW h \in Good(m), NEW l \in Literals(h)
    PROVE  ReadBack(l[1], l[2]) = l[1] <=> ~TakenUnseen(l[1], l[2])
  <1>1. /\ h \in HwExpr /\ Subexpressions(h) \subseteq HwExpr
        /\ \A x \in Subexpressions(h) : NodeOK(x, m)
    BY SubexpressionsUnfold DEF Good
  <1> DEFINE Fitting(v, ty) == v \in Words /\ ty \in HwTypes /\ Fits(v, ty)
  <1>2. \E v, ty : l = <<v, ty>> /\ Fitting(v, ty)
    <2>1. CASE l \in {<<x.value, x.ty>> : x \in OfKind(h, "constant")}
      <3>1. PICK x \in OfKind(h, "constant") : l = <<x.value, x.ty>> BY <2>1
      <3>2. x \in HwExpr /\ x.kind = "constant" /\ NodeOK(x, m) BY <1>1 DEF OfKind
      <3>3. Fitting(x.value, x.ty) BY <3>2, HwFacts DEF NodeOK
      <3> QED BY <3>1, <3>3
    <2>2. CASE l \in {<<key.value, key.ty>> : key \in KeysIn(h)}
      <3>1. PICK key \in KeysIn(h) : l = <<key.value, key.ty>> BY <2>2
      <3>2. PICK x \in OfKind(h, "case") : key \in Range(x.keys) BY DEF KeysIn
      <3>3. x \in HwExpr /\ x.kind = "case" /\ NodeOK(x, m) BY <1>1 DEF OfKind
      <3>4. x.keys \in Seq(Key) /\ Fits(key.value, key.ty) BY <3>2, <3>3, HwFacts DEF NodeOK
      <3>5. key \in Key BY <3>2, <3>4 DEF Range
      <3>6. Fitting(key.value, key.ty) BY <3>4, <3>5 DEF Key
      <3> QED BY <3>1, <3>6
    <2> QED BY <2>1, <2>2 DEF Literals
  <1>3. PICK v, ty : l = <<v, ty>> /\ Fitting(v, ty) BY <1>2
  <1>4. l[1] = v /\ l[2] = ty BY <1>3
  <1> QED BY <1>3, <1>4, WordReadBack

LEMMA AssignedIsGood ==
    ASSUME NEW m, AssignsOK(m), NEW i \in DOMAIN m.assigns
    PROVE  m.assigns[i].value \in Good(m)
  <1> DEFINE f == FormsOf(m, "assign")[i]
             a == m.assigns[i]
  <1>1. AssignOK(a, f, m) BY DEF AssignsOK
  <1>2. Same(m, m) BY DEF Same
  <1>3. a.value \in Lowered(f.value, m.ports[a.dest + 1].ty, m) BY <1>1, <1>2 DEF AssignOK
  <1> QED BY <1>3, LoweredFacts

\* At every width, a literal that is emitted has the value of the source unless it
\* is one of those `fits` takes unseen; and no one of those has it.
THEOREM LiteralsKept == Spec => []LiteralsKeepValue
  <1>1. WrittenInv => LiteralsKeepValue
    <2> SUFFICES ASSUME WrittenInv, NEW k \in DOMAIN design,
                        NEW i \in DOMAIN design[k].assigns,
                        NEW l \in Literals(design[k].assigns[i].value)
                 PROVE  ReadBack(l[1], l[2]) = l[1] <=> ~TakenUnseen(l[1], l[2])
      BY DEF LiteralsKeepValue
    <2>1. AssignsOK(design[k]) BY DEF WrittenInv, ModuleOK, Written
    <2> QED BY <2>1, AssignedIsGood, GoodLiterals
  <1> QED BY <1>1, WrittenInvariance, PTL


-----------------------------------------------------------------------------
(* Flattened sequences *)

\* f has what the first sequences make together.
Flattening(f, seqs, S, n) ==
    /\ f \in [0..n -> Seq(S)] /\ f[0] = <<>>
    /\ \A i \in 1..n : f[i] = f[i - 1] \o seqs[i]

LEMMA FlattenSteps ==
    ASSUME NEW S, NEW n \in Nat, NEW seqs \in [1..n -> Seq(S)]
    PROVE  \E f : Flattening(f, seqs, S, n) /\ FlattenSeq(seqs) = f[n]
  <1> DEFINE V == Seq(S)
             H == [i \in 1..n |-> [r \in V |-> r \o seqs[i]]]
             step(t) == [i \in 1..n |-> IF i = 1 THEN seqs[i] ELSE t[i - 1] \o seqs[i]]
             flatten == CHOOSE t : t = step(t)
  <1>1. Len(seqs) = n /\ DOMAIN seqs = 1..n /\ seqs \in Seq(V) OBVIOUS
  <1>2. <<>> \in V OBVIOUS
  <1>3. \A i \in 1..n : \A r \in V : r \o seqs[i] \in V /\ H[i][r] = r \o seqs[i] OBVIOUS
  <1>4. H \in [1..n -> [V -> V]] BY <1>3
  <1>5. PICK f \in [0..n -> V] : StepsFrom(f, <<>>, H, n)
    <2> HIDE DEF V, H
    <2> QED BY <1>2, <1>4, StepsExist
  <1>6. \A i \in 1..n : f[i] = f[i - 1] \o seqs[i]
    <2> TAKE i \in 1..n
    <2>1. i - 1 \in 0..n OBVIOUS
    <2>2. f[i - 1] \in V BY <2>1
    <2>3. f[i] = H[i][f[i - 1]] BY <1>5 DEF StepsFrom
    <2> QED BY <1>3, <2>2, <2>3
  <1>7. f[0] = <<>> BY <1>5 DEF StepsFrom
  <1>8. Flattening(f, seqs, S, n) BY <1>6, <1>7 DEF Flattening
  <1>9. CASE n = 0
    <2>1. seqs = <<>> BY <1>1, <1>9
    <2>2. FlattenSeq(seqs) = <<>> BY <1>1, <1>9, <2>1 DEF FlattenSeq
    <2> QED BY <1>7, <1>8, <1>9, <2>2
  <1>10. CASE n # 0
    <2>1. FlattenSeq(seqs) = flatten[n] BY <1>1, <1>10 DEF FlattenSeq
    <2> DEFINE g == [i \in 1..n |-> f[i]]
    <2>2. g = step(g)
      <3>1. ASSUME NEW i \in 1..n
            PROVE  f[i] = IF i = 1 THEN seqs[i] ELSE g[i - 1] \o seqs[i]
        <4>1. CASE i = 1
          <5>1. f[1] = f[0] \o seqs[1] BY <1>6, <4>1
          <5>2. seqs[1] \in Seq(S) BY <4>1
          <5> QED BY <1>7, <4>1, <5>1, <5>2
        <4>2. CASE i # 1
          <5>1. i - 1 \in 1..n BY <4>2
          <5>2. g[i - 1] = f[i - 1] BY <5>1
          <5> HIDE DEF g
          <5> QED BY <1>6, <4>2, <5>2
        <4> QED BY <4>1, <4>2
      <3> QED BY <3>1
    <2>3. flatten = step(flatten)
      <3> HIDE DEF step, g
      <3> QED BY <2>2, Zenon
    <2> HIDE DEF flatten
    <2>4. \A i \in 1..n : flatten[i] = IF i = 1 THEN seqs[i] ELSE flatten[i - 1] \o seqs[i]
      BY <2>3
    <2> DEFINE P == {k \in Nat : k + 1 \in 1..n => flatten[k + 1] = f[k + 1]}
    <2>5. 0 \in P
      <3>1. flatten[1] = seqs[1] BY <1>10, <2>4
      <3>2. f[1] = seqs[1]
        <4>1. 1 \in 1..n BY <1>10
        <4>2. f[1] = f[0] \o seqs[1] /\ seqs[1] \in Seq(S) BY <1>6, <4>1
        <4> QED BY <1>7, <4>2
      <3> QED BY <3>1, <3>2
    <2>6. ASSUME NEW k \in P PROVE k + 1 \in P
      <3> SUFFICES ASSUME k + 2 \in 1..n PROVE flatten[k + 2] = f[k + 2]
        <4>1. k \in Nat /\ (k + 1) + 1 = k + 2 OBVIOUS
        <4> HIDE DEF flatten
        <4> QED BY <4>1
      <3>1. k \in Nat /\ k + 1 \in 1..n /\ k + 2 # 1 /\ (k + 2) - 1 = k + 1 OBVIOUS
      <3>2. flatten[k + 1] = f[k + 1] BY <3>1
      <3>3. flatten[k + 2] = flatten[k + 1] \o seqs[k + 2] BY <2>4, <3>1
      <3>4. f[k + 2] = f[k + 1] \o seqs[k + 2] BY <1>6, <3>1
      <3> QED BY <3>2, <3>3, <3>4
    <2>7. P \in SUBSET Nat OBVIOUS
    <2>8. \A k \in Nat : k \in P
      <3> HIDE DEF P
      <3> QED BY <2>5, <2>6, <2>7, NaturalInduction
    <2>9. n - 1 \in P /\ (n - 1) + 1 = n /\ n \in 1..n
      <3>1. n - 1 \in Nat /\ (n - 1) + 1 = n /\ n \in 1..n BY <1>10
      <3> HIDE DEF P
      <3> QED BY <2>8, <3>1
    <2>10. flatten[n] = f[n] BY <2>9
    <2> QED BY <1>8, <2>1, <2>10
  <1> QED BY <1>9, <1>10

\* What holds of no sequence, and stays when another one is added, holds of all.
LEMMA UpTo ==
    ASSUME NEW n \in Nat, NEW P, 0 \in P, \A i \in 0..(n - 1) : i \in P => i + 1 \in P
    PROVE  n \in P
  <1> DEFINE Q == {k \in Nat : k <= n => k \in P}
  <1>1. Q \in SUBSET Nat /\ 0 \in Q OBVIOUS
  <1>2. ASSUME NEW k \in Q PROVE k + 1 \in Q
    <2> SUFFICES ASSUME k + 1 <= n PROVE k + 1 \in P OBVIOUS
    <2>1. k \in 0..(n - 1) /\ k <= n OBVIOUS
    <2> QED BY <2>1
  <1> HIDE DEF Q
  <1>3. n \in Q BY <1>1, <1>2, NaturalInduction
  <1> QED BY <1>3 DEF Q

LEMMA FlattenType ==
    ASSUME NEW S, NEW n \in Nat, NEW seqs \in [1..n -> Seq(S)]
    PROVE  FlattenSeq(seqs) \in Seq(S)
  <1>1. PICK f : Flattening(f, seqs, S, n) /\ FlattenSeq(seqs) = f[n] BY FlattenSteps
  <1>2. n \in 0..n OBVIOUS
  <1> QED BY <1>1, <1>2 DEF Flattening


-----------------------------------------------------------------------------
(* What the verifier can find in a module that was lowered *)

LEMMA ModuleFacts ==
    ASSUME NEW m, ModuleOK(m)
    PROVE  /\ Len(m.ports) \in Nat /\ DOMAIN m.ports = 1..Len(m.ports)
           /\ \A i \in DOMAIN m.ports : m.ports[i] \in Port /\ m.ports[i].ty \in HwTypes
           /\ Len(m.registers) \in Nat /\ DOMAIN m.registers = 1..Len(m.registers)
           /\ \A i \in DOMAIN m.registers : /\ m.registers[i] \in Register
                                            /\ m.registers[i].ty \in HwTypes
                                            /\ m.registers[i].name \in Names
           /\ Len(m.clocking) \in Nat /\ DOMAIN m.clocking = DOMAIN m.registers
           /\ Len(m.assigns) \in Nat /\ DOMAIN m.assigns = 1..Len(m.assigns)
           /\ Len(m.blocks) \in Nat /\ DOMAIN m.blocks = 1..Len(m.blocks)
           /\ Len(m.enums) \in Nat /\ DOMAIN m.enums = 1..Len(m.enums)
           /\ Extends(m, m) /\ Same(m, m)
  <1>1. m.ports \in Seq(Port) /\ m.registers \in Seq(Register) /\ Len(m.clocking) = Len(m.registers)
        /\ Written(m)
    BY DEF ModuleOK
  <1>2. IsSequence(m.clocking) /\ IsSequence(m.assigns) /\ IsSequence(m.blocks) /\ IsSequence(m.enums)
    BY <1>1 DEF Written, ClocksOK, AssignsOK, BlocksOK, EnumsOK
  <1>3. \A p \in Port : p.ty \in HwTypes BY NamesAssumption DEF Port
  <1>4. \A p \in Register : p.ty \in HwTypes /\ p.name \in Names BY NamesAssumption DEF Register
  <1>5. Extends(m, m) /\ Same(m, m) BY <1>1 DEF Extends, Same
  <1>6. /\ Len(m.ports) \in Nat /\ DOMAIN m.ports = 1..Len(m.ports)
        /\ \A i \in DOMAIN m.ports : m.ports[i] \in Port
    BY <1>1
  <1>7. /\ Len(m.registers) \in Nat /\ DOMAIN m.registers = 1..Len(m.registers)
        /\ \A i \in DOMAIN m.registers : m.registers[i] \in Register
    BY <1>1
  <1>8. \A s : IsSequence(s) => Len(s) \in Nat /\ DOMAIN s = 1..Len(s) BY DEF IsSequence
  <1> QED BY <1>1, <1>2, <1>3, <1>4, <1>5, <1>6, <1>7, <1>8

LEMMA AssignVerified ==
    ASSUME NEW m, ModuleOK(m), NEW i \in DOMAIN m.assigns
    PROVE  VerifyAssign(i, m) = "ok"
  <1> DEFINE a == m.assigns[i]
             f == FormsOf(m, "assign")[i]
             S == {"ok"}
  <1>1. AssignOK(a, f, m) /\ \A j \in DOMAIN m.assigns : m.assigns[j].dest = a.dest => j = i
    BY DEF ModuleOK, Written, AssignsOK
  <1>2. a.dest \in 0..(Len(m.ports) - 1) /\ m.ports[a.dest + 1].direction = Output
    BY <1>1 DEF AssignOK
  <1>3. IsPort(a.dest, m.ports) BY <1>2, ModuleFacts DEF IsPort
  <1>4. a.value \in Lowered(f.value, m.ports[a.dest + 1].ty, m) BY <1>1, ModuleFacts DEF AssignOK
  <1>5. m.ports[a.dest + 1].ty \in HwTypes
    <2>1. a.dest + 1 \in DOMAIN m.ports BY <1>2, ModuleFacts
    <2> QED BY <2>1, ModuleFacts
  <1>6. m.ports[a.dest + 1].ty # Untyped BY <1>5, WidthsAssumption DEF HwTypes, Untyped, Unsigned
  <1>7. a.value \in Good(m) /\ a.value \in HwExpr BY <1>4, LoweredFacts
  <1>t. a.value.ty = m.ports[a.dest + 1].ty BY <1>4, <1>6 DEF Lowered
  <1>8. VerifyExpr(a.value, Typed(m)) = "ok" BY <1>7, GoodIsVerified
  <1>9. \A j \in 1..(i - 1) : m.assigns[j].dest # a.dest
    <2>1. \A j \in 1..(i - 1) : j \in DOMAIN m.assigns /\ j # i BY ModuleFacts
    <2> QED BY <1>1, <2>1
  <1> DEFINE c1 == Check(m.ports[a.dest + 1].direction = Output, "InputAssignment")
             c2 == Check(\A j \in 1..(i - 1) : m.assigns[j].dest # a.dest, "DuplicateAssignment")
             c3 == Check(a.value.ty = m.ports[a.dest + 1].ty, "TypeMismatch")
             c4 == VerifyExpr(a.value, Typed(m))
  <1>10. VerifyAssign(i, m) = FirstFailure(<<c1, c2, c3, c4>>) BY <1>3 DEF VerifyAssign
  <1>11. c1 = "ok" /\ c2 = "ok" /\ c3 = "ok" /\ c4 = "ok" BY <1>2, <1>t, <1>8, <1>9 DEF Check
  <1> HIDE DEF c1, c2, c3, c4
  <1>12. <<c1, c2, c3, c4>> \in Seq(S) /\ "ok" \in S BY <1>11
  <1>13. FirstFailure(<<c1, c2, c3, c4>>) \in S
    <2> HIDE DEF S
    <2> QED BY <1>12, FirstFailureFacts
  <1> QED BY <1>10, <1>13

LEMMA FlattenOks ==
    ASSUME NEW n \in Nat, NEW seqs, DOMAIN seqs = 1..n, seqs = [i \in 1..n |-> seqs[i]],
           \A i \in 1..n : seqs[i] \in Seq({"ok"})
    PROVE  FlattenSeq(seqs) \in Seq({"ok"})
  <1>1. seqs \in [1..n -> Seq({"ok"})] OBVIOUS
  <1> QED BY <1>1, FlattenType

LEMMA RegisterVerified ==
    ASSUME NEW m, ModuleOK(m), NEW i \in DOMAIN m.registers
    PROVE  VerifyRegister(i, m) = "ok"
  <1> DEFINE c == m.clocking[i]
             ty == m.registers[i].ty
             f == RegisterForms(m)[i]
             t == Typed(m)
             oneBit(id) == id \in DOMAIN t.type /\ t.type[id].width = 1
             OK == {"ok"}
  <1>1. ClockingOK(c, f, ty, m) BY ModuleFacts DEF ModuleOK, Written, ClocksOK
  <1>2. CASE c = NoClock BY <1>2 DEF VerifyRegister
  <1>3. CASE c # NoClock
    <2>1. ClockOK(c, f, ty, m) BY <1>1, <1>3, ModuleFacts DEF ClockingOK
    <2>2. ty \in HwTypes BY ModuleFacts
    <2>3. ty.width > 0 BY <2>2, WidthsAssumption DEF HwTypes
    <2>4. oneBit(c.clock)
      <3>1. c.clock \in 0..(Len(m.ports) - 1) /\ m.ports[c.clock + 1].ty.width = 1
        BY <2>1 DEF ClockOK, InputBit
      <3>p. Len(m.ports) \in Nat /\ Len(m.registers) \in Nat BY ModuleFacts
      <3>q. \A a, b \in Nat : \A x \in 0..(a - 1) : x \in 0..(a + b - 1) /\ x < a OBVIOUS
      <3>2. c.clock \in 0..(Len(m.ports) + Len(m.registers) - 1) /\ IsPort(c.clock, m.ports)
        BY <3>1, <3>p, <3>q DEF IsPort
      <3>3. c.clock \in DOMAIN t.type /\ t.type[c.clock] = SignalType(c.clock, m.ports, m.registers)
        BY <3>2 DEF Typed
      <3> QED BY <3>1, <3>2, <3>3 DEF SignalType
    <2>5. c.next.ty = ty /\ VerifyExpr(c.next, t) = "ok"
      BY <2>1, GoodIsVerified DEF ClockOK, Good
    <2> DEFINE base == <<Check(ty.width > 0, "InvalidWidth"),
                         Check(oneBit(c.clock), "InvalidCondition"),
                         Check(c.next.ty = ty, "TypeMismatch"),
                         VerifyExpr(c.next, t)>>
               reset(k) == <<Check(oneBit(c.reset[k].signal) /\ c.reset[k].value.ty = ty, "TypeMismatch"),
                             VerifyExpr(c.reset[k].value, t)>>
               resets == [k \in DOMAIN c.reset |-> reset(k)]
               enable(k) == <<Check(c.enable[k].ty.width = 1, "InvalidCondition"),
                              VerifyExpr(c.enable[k], t)>>
               enables == [k \in DOMAIN c.enable |-> enable(k)]
    <2>6. VerifyRegister(i, m) = FirstFailure(base \o FlattenSeq(resets) \o FlattenSeq(enables))
      BY <1>3 DEF VerifyRegister
    <2>7. base \in Seq(OK)
      <3>1. Check(ty.width > 0, "InvalidWidth") = "ok" BY <2>3 DEF Check
      <3>2. Check(oneBit(c.clock), "InvalidCondition") = "ok" BY <2>4 DEF Check
      <3>3. Check(c.next.ty = ty, "TypeMismatch") = "ok" BY <2>5 DEF Check
      <3>4. base = <<"ok", "ok", "ok", "ok">> BY <2>5, <3>1, <3>2, <3>3
      <3> QED BY <3>4
    <2>8. FlattenSeq(resets) \in Seq(OK)
      <3>1. \E n \in {0, 1} : DOMAIN c.reset = 1..n /\ \A k \in 1..n : reset(k) \in Seq(OK)
        <4>1. CASE c.reset = <<>>
          <5>1. DOMAIN c.reset = 1..0 BY <4>1
          <5> QED BY <5>1
        <4>2. ASSUME c.reset # <<>>
              PROVE  DOMAIN c.reset = 1..1 /\ reset(1) \in Seq(OK)
          <5>1. PICK r : /\ c.reset = <<r>> /\ OneBit(r.signal, m)
                         /\ r.value \in Good(m) /\ r.value.ty = ty
            BY <2>1, <4>2 DEF ClockOK, ResetOK
          <5>2. DOMAIN c.reset = 1..1 /\ c.reset[1] = r BY <5>1
          <5>3. oneBit(c.reset[1].signal) /\ c.reset[1].value.ty = ty BY <5>1, <5>2 DEF OneBit
          <5>4. Check(oneBit(c.reset[1].signal) /\ c.reset[1].value.ty = ty, "TypeMismatch") = "ok"
            BY <5>3 DEF Check
          <5>5. VerifyExpr(c.reset[1].value, t) = "ok" BY <5>1, <5>2, GoodIsVerified DEF Good
          <5>6. reset(1) = <<"ok", "ok">> BY <5>4, <5>5
          <5> QED BY <5>2, <5>6
        <4> HIDE DEF reset, OK
        <4>3. \A k \in 1..1 : k = 1 OBVIOUS
        <4>4. \A k \in 1..0 : FALSE OBVIOUS
        <4>5. CASE c.reset = <<>>
          <5>1. DOMAIN c.reset = 1..0 BY <4>5
          <5> QED BY <4>4, <5>1
        <4>6. CASE c.reset # <<>> BY <4>2, <4>3, <4>6
        <4> QED BY <4>5, <4>6
      <3>2. PICK n \in {0, 1} : DOMAIN c.reset = 1..n /\ \A k \in 1..n : reset(k) \in Seq(OK)
        BY <3>1
      <3> HIDE DEF reset
      <3>3. DOMAIN resets = 1..n /\ \A k \in 1..n : resets[k] \in Seq(OK) BY <3>2
      <3>4. n \in Nat /\ resets = [k \in 1..n |-> resets[k]] BY <3>2
      <3> HIDE DEF resets
      <3> QED BY <3>3, <3>4, FlattenOks
    <2>9. FlattenSeq(enables) \in Seq(OK)
      <3>1. ASSUME c.enable # <<>>
            PROVE  DOMAIN c.enable = 1..1 /\ enable(1) \in Seq(OK)
        <4>1. PICK e \in Good(m) : c.enable = <<e>> /\ e.ty.width = 1
          BY <2>1, <3>1 DEF ClockOK, EnableOK
        <4>2. DOMAIN c.enable = 1..1 /\ c.enable[1] = e BY <4>1
        <4>3. Check(c.enable[1].ty.width = 1, "InvalidCondition") = "ok" BY <4>1, <4>2 DEF Check
        <4>4. VerifyExpr(c.enable[1], t) = "ok" BY <4>1, <4>2, GoodIsVerified DEF Good
        <4>5. enable(1) = <<"ok", "ok">> BY <4>3, <4>4
        <4> QED BY <4>2, <4>5
      <3> HIDE DEF enable, OK
      <3>2. \E n \in {0, 1} : DOMAIN c.enable = 1..n /\ \A k \in 1..n : enable(k) \in Seq(OK)
        <4>3. \A k \in 1..1 : k = 1 OBVIOUS
        <4>4. \A k \in 1..0 : FALSE OBVIOUS
        <4>5. CASE c.enable = <<>>
          <5>1. DOMAIN c.enable = 1..0 BY <4>5
          <5> QED BY <4>4, <5>1
        <4>6. CASE c.enable # <<>> BY <3>1, <4>3, <4>6
        <4> QED BY <4>5, <4>6
      <3>3. PICK n \in {0, 1} : DOMAIN c.enable = 1..n /\ \A k \in 1..n : enable(k) \in Seq(OK)
        BY <3>2
      <3>4. DOMAIN enables = 1..n /\ \A k \in 1..n : enables[k] \in Seq(OK) BY <3>3
      <3>5. n \in Nat /\ enables = [k \in 1..n |-> enables[k]] BY <3>3
      <3> HIDE DEF enables
      <3> QED BY <3>4, <3>5, FlattenOks DEF OK
    <2> HIDE DEF base, resets, enables
    <2>10. "ok" \in OK /\ base \o FlattenSeq(resets) \o FlattenSeq(enables) \in Seq(OK)
      <3>1. "ok" \in OK OBVIOUS
      <3> HIDE DEF OK
      <3> QED BY <2>7, <2>8, <2>9, <3>1
    <2>11. FirstFailure(base \o FlattenSeq(resets) \o FlattenSeq(enables)) \in OK
      <3> HIDE DEF OK
      <3> QED BY <2>10, FirstFailureFacts
    <2> QED BY <2>6, <2>11
  <1> QED BY <1>2, <1>3


-----------------------------------------------------------------------------
(* Blocks, one after another *)

LEMMA BlockFacts ==
    ASSUME NEW m, ModuleOK(m), NEW i \in DOMAIN m.blocks
    PROVE  /\ FormsOf(m, "clocked")[i].body \in Stmt
           /\ i \in DOMAIN BlockPaths(m)
           /\ BlockPaths(m)[i] = Paths(FormsOf(m, "clocked")[i].body)
           /\ BlockOK(m.blocks[i], FormsOf(m, "clocked")[i], m)
           /\ StmtOK(FormsOf(m, "clocked")[i].body, m.blocks[i].body, m)
  <1> DEFINE forms == FormsOf(m, "clocked")
  <1>1. SourceOK(m) /\ BlocksOK(m) BY DEF ModuleOK, Written
  <1>2. DOMAIN forms = 1..Len(forms) /\ Len(m.blocks) = Len(forms)
        /\ \A j \in 1..Len(forms) : forms[j] \in Form /\ forms[j].sort = "clocked"
    <2>1. "clocked" \in FormSorts BY DEF FormSorts
    <2> QED BY <1>1, <2>1, FormsFacts DEF BlocksOK
  <1>3. i \in DOMAIN forms /\ forms[i] \in Form /\ forms[i].sort = "clocked"
    BY <1>2, ModuleFacts
  <1>4. forms[i].body \in Stmt BY <1>3, FormFacts DEF Body
  <1>5. BlockPaths(m) = [j \in DOMAIN forms |-> Paths(forms[j].body)] BY DEF BlockPaths
  <1>6. BlockOK(m.blocks[i], forms[i], m) BY <1>1 DEF BlocksOK
  <1>7. StmtOK(forms[i].body, m.blocks[i].body, m) BY <1>6, ModuleFacts DEF BlockOK
  <1> QED BY <1>3, <1>4, <1>5, <1>6, <1>7

LEMMA BlockPathsDomain ==
    ASSUME NEW m, ModuleOK(m)
    PROVE  DOMAIN BlockPaths(m) = DOMAIN m.blocks
  <1>1. SourceOK(m) /\ BlocksOK(m) BY DEF ModuleOK, Written
  <1>2. "clocked" \in FormSorts BY DEF FormSorts
  <1>3. DOMAIN FormsOf(m, "clocked") = DOMAIN m.blocks
    BY <1>1, <1>2, FormsFacts, ModuleFacts DEF BlocksOK
  <1> QED BY <1>3 DEF BlockPaths

\* A block that sets a register twice, and two that set one.
TwiceIn(m, i) == Clashes(BlockPaths(m)[i], {})
SetByBoth(m, i, j) == SetBy(BlockPaths(m)[i]) \cap SetBy(BlockPaths(m)[j]) # {}

LEMMA SetTwiceFacts ==
    ASSUME NEW m, ModuleOK(m)
    PROVE  SetTwice(m) <=> \/ \E i \in DOMAIN m.blocks : TwiceIn(m, i)
                           \/ \E i, j \in DOMAIN m.blocks : i # j /\ SetByBoth(m, i, j)
  <1> DEFINE paths == BlockPaths(m)
             sets(i) == UNION {Range(p) : p \in paths[i]}
  <1>1. DOMAIN paths = DOMAIN m.blocks BY BlockPathsDomain
  <1>2. SetTwice(m) <=> \/ \E i \in DOMAIN paths : \E p \in paths[i] : ~IsInjective(p)
                        \/ \E i, j \in DOMAIN paths : i # j /\ sets(i) \cap sets(j) # {}
    BY DEF SetTwice
  <1>3. \A i : sets(i) = SetBy(paths[i]) BY DEF SetBy
  <1>4. \A i : TwiceIn(m, i) <=> \E p \in paths[i] : ~IsInjective(p) BY DEF TwiceIn, Clashes
  <1>5. \A i, j : SetByBoth(m, i, j) <=> sets(i) \cap sets(j) # {} BY <1>3 DEF SetByBoth
  <1> HIDE DEF paths, sets
  <1> QED BY <1>1, <1>2, <1>4, <1>5

\* r is right for the first k blocks.
BlocksSoFar(r, k, m) ==
    \/ r = Error("InvalidModule")
    \/ r = Error("DuplicateAssignment") /\ SetTwice(m)
    \/ /\ r \in Updates /\ r.updates \subseteq SetIds(m)
       /\ NamesOf(r.updates, m) = UNION {SetBy(BlockPaths(m)[i]) : i \in 1..k}
       /\ \A i \in 1..k : ~TwiceIn(m, i) /\ \A j \in 1..k : i # j => ~SetByBoth(m, i, j)

LEMMA OwnIdsDiffer ==
    ASSUME NEW m, NEW a \in SetIds(m), NEW b \in SetIds(m), NameOf(a, m) = NameOf(b, m)
    PROVE  a = b
  <1>1. a \in Nat /\ b \in Nat /\ OwnId(a, m) /\ OwnId(b, m) BY DEF SetIds
  <1>2. CASE a < b
    <2>1. a \in 0..(b - 1) BY <1>1, <1>2
    <2> QED BY <1>1, <2>1 DEF OwnId
  <1>3. CASE b < a
    <2>1. b \in 0..(a - 1) BY <1>1, <1>3
    <2> QED BY <1>1, <2>1 DEF OwnId
  <1> QED BY <1>1, <1>2, <1>3

LEMMA BlockResult ==
    ASSUME NEW m, ModuleOK(m), NEW k \in DOMAIN m.blocks
    PROVE  LET r == VerifyStmt(m.blocks[k].body, m, {}) IN
           /\ Judged(r, BlockPaths(m)[k], {}, m)
           /\ \A drivers : VerifyBlock(m.blocks[k], drivers, m) =
                 IF IsError(r) THEN r
                 ELSE IF BlockConflict(r.updates, drivers, m) THEN Error("DuplicateAssignment")
                 ELSE [updates |-> drivers \cup r.updates]
           /\ ~IsError(r) => \A i \in DOMAIN m.assigns : m.assigns[i].dest \notin r.updates
  <1> DEFINE b == m.blocks[k]
             f == FormsOf(m, "clocked")[k]
             r == VerifyStmt(b.body, m, {})
  <1>1. BlockOK(b, f, m) /\ StmtOK(f.body, b.body, m) /\ f.body \in Stmt
        /\ BlockPaths(m)[k] = Paths(f.body)
    BY BlockFacts
  <1>2. b.clock \in 0..(Len(m.ports) - 1) /\ m.ports[b.clock + 1].direction = Input
        /\ m.ports[b.clock + 1].ty = Bit
    BY <1>1 DEF BlockOK
  <1>3. IsPort(b.clock, m.ports)
    <2>1. Len(m.ports) \in Nat BY ModuleFacts
    <2>2. \A a \in Nat : \A x \in 0..(a - 1) : x < a OBVIOUS
    <2> QED BY <1>2, <2>1, <2>2 DEF IsPort
  <1>4. Judged(r, Paths(f.body), {}, m) BY <1>1 DEF StmtOK
  <1>5. \A drivers : VerifyBlock(b, drivers, m) =
            IF IsError(r) THEN r
            ELSE IF BlockConflict(r.updates, drivers, m) THEN Error("DuplicateAssignment")
            ELSE [updates |-> drivers \cup r.updates]
    BY <1>2, <1>3 DEF VerifyBlock
  <1>6. ASSUME ~IsError(r), NEW i \in DOMAIN m.assigns PROVE m.assigns[i].dest \notin r.updates
    <2> DEFINE a == m.assigns[i]
               g == FormsOf(m, "assign")[i]
    <2>1. AssignOK(a, g, m) BY DEF ModuleOK, Written, AssignsOK
    <2>2. a.dest \in 0..(Len(m.ports) - 1) /\ m.ports[a.dest + 1].name = g.dest
          /\ ~IsRegisterName(g.dest, m)
      BY <2>1 DEF AssignOK
    <2>3. NameOf(a.dest, m) = g.dest
      <3>1. Len(m.ports) \in Nat BY ModuleFacts
      <3>2. \A n \in Nat : \A x \in 0..(n - 1) : x < n OBVIOUS
      <3>3. IsPort(a.dest, m.ports) BY <2>2, <3>1, <3>2 DEF IsPort
      <3> QED BY <2>2, <3>3 DEF NameOf, SignalName
    <2>4. NamesOf(r.updates, m) = NamesOf({}, m) \cup SetBy(Paths(f.body))
      BY <1>4, <1>6, JudgedUpdates
    <2>5. NamesOf({}, m) = {} BY DEF NamesOf
    <2>6. SetBy(Paths(f.body)) \subseteq RegisterNames(m)
      BY <1>1, SetByIsWritten DEF StmtOK
    <2>7. g.dest \notin NamesOf(r.updates, m) BY <2>2, <2>4, <2>5, <2>6 DEF RegisterNames
    <2> QED BY <2>3, <2>7 DEF NamesOf
  <1> HIDE DEF r
  <1>7. /\ Judged(r, BlockPaths(m)[k], {}, m)
        /\ \A drivers : VerifyBlock(b, drivers, m) =
              IF IsError(r) THEN r
              ELSE IF BlockConflict(r.updates, drivers, m) THEN Error("DuplicateAssignment")
              ELSE [updates |-> drivers \cup r.updates]
        /\ ~IsError(r) => \A i \in DOMAIN m.assigns : m.assigns[i].dest \notin r.updates
    BY <1>1, <1>4, <1>5, <1>6
  <1> QED BY <1>7 DEF r

LEMMA BlockOutcome ==
    ASSUME NEW m, ModuleOK(m), NEW k \in DOMAIN m.blocks, NEW drivers \in SUBSET Nat
    PROVE  VerifyBlock(m.blocks[k], drivers, m) \in Outcomes
  <1> DEFINE r == VerifyStmt(m.blocks[k].body, m, {})
             v == VerifyBlock(m.blocks[k], drivers, m)
  <1>1. /\ Judged(r, BlockPaths(m)[k], {}, m)
        /\ v = IF IsError(r) THEN r
               ELSE IF BlockConflict(r.updates, drivers, m) THEN Error("DuplicateAssignment")
               ELSE [updates |-> drivers \cup r.updates]
    BY BlockResult
  <1> HIDE DEF r, v
  <1>2. Error("InvalidModule") \in Errors /\ Error("DuplicateAssignment") \in Errors
    BY DEF Errors, ErrorKinds
  <1>3. CASE IsError(r)
    <2>1. r = Error("InvalidModule") \/ r = Error("DuplicateAssignment")
      BY <1>1, <1>3, JudgedError
    <2>2. v = r BY <1>1, <1>3
    <2> QED BY <1>2, <2>1, <2>2 DEF Outcomes, v
  <1>4. CASE ~IsError(r)
    <2> DEFINE ps == BlockPaths(m)[k]
               before == {}
    <2>j. Judged(r, ps, before, m) BY <1>1
    <2> HIDE DEF ps, before
    <2>1. r.updates \in SUBSET Nat BY <1>4, <2>j, JudgedUpdates
    <2>2. [updates |-> drivers \cup r.updates] \in Updates BY <2>1 DEF Updates
    <2> QED BY <1>1, <1>2, <1>4, <2>2 DEF Outcomes, v
  <1> QED BY <1>3, <1>4

LEMMA BlockJudged ==
    ASSUME NEW m, ModuleOK(m), NEW k \in DOMAIN m.blocks, NEW u, u \in Updates,
           BlocksSoFar(u, k - 1, m)
    PROVE  BlocksSoFar(VerifyBlock(m.blocks[k], u.updates, m), k, m)
  <1> DEFINE r == VerifyStmt(m.blocks[k].body, m, {})
             v == VerifyBlock(m.blocks[k], u.updates, m)
             P == BlockPaths(m)
  <1>1. /\ Judged(r, P[k], {}, m)
        /\ v = IF IsError(r) THEN r
               ELSE IF BlockConflict(r.updates, u.updates, m) THEN Error("DuplicateAssignment")
               ELSE [updates |-> u.updates \cup r.updates]
        /\ ~IsError(r) => \A i \in DOMAIN m.assigns : m.assigns[i].dest \notin r.updates
    BY BlockResult
  <1>2. NamesOf({}, m) = {} BY DEF NamesOf
  <1>3. ~IsError(u) BY UpdatesNoError
  <1>e. \A kind : IsError(Error(kind)) BY DEF Error, IsError
  <1>4. /\ u.updates \subseteq SetIds(m)
        /\ NamesOf(u.updates, m) = UNION {SetBy(P[i]) : i \in 1..(k - 1)}
        /\ \A i \in 1..(k - 1) : ~TwiceIn(m, i) /\ \A j \in 1..(k - 1) : i # j => ~SetByBoth(m, i, j)
    BY <1>3, <1>e DEF BlocksSoFar
  <1>5. k \in Nat /\ k # 0 /\ \A i \in 1..k : i \in DOMAIN m.blocks /\ (i = k \/ i \in 1..(k - 1))
    BY ModuleFacts
  <1>6. CASE IsError(r)
    <2>1. CASE r = Error("InvalidModule") BY <1>1, <1>6, <2>1 DEF BlocksSoFar
    <2>2. CASE r = Error("DuplicateAssignment") /\ Clashes(P[k], NamesOf({}, m))
      <3>1. TwiceIn(m, k) BY <1>2, <2>2 DEF TwiceIn
      <3>2. SetTwice(m) BY <3>1, SetTwiceFacts
      <3> QED BY <1>1, <1>6, <2>2, <3>2 DEF BlocksSoFar
    <2> QED BY <1>1, <1>6, <2>1, <2>2, JudgedError
  <1>7. CASE ~IsError(r)
    <2>1. /\ r \in Updates /\ r.updates \subseteq SetIds(m) /\ NamesOf(r.updates, m) = SetBy(P[k])
          /\ ~TwiceIn(m, k)
      <3> DEFINE ps == P[k]
                 before == {}
      <3>1. Judged(r, ps, before, m) /\ NamesOf(before, m) = {} BY <1>1, <1>2
      <3> HIDE DEF ps, before
      <3>2. /\ r \in Updates /\ r.updates \subseteq SetIds(m)
            /\ NamesOf(r.updates, m) = NamesOf(before, m) \cup SetBy(ps)
            /\ ~Clashes(ps, NamesOf(before, m))
        BY <1>7, <3>1, JudgedUpdates
      <3> QED BY <3>1, <3>2 DEF ps, TwiceIn
    <2>2. BlockConflict(r.updates, u.updates, m) <=> r.updates \cap u.updates # {}
      BY <1>1, <1>7 DEF BlockConflict
    <2>3. CASE r.updates \cap u.updates # {}
      <3>1. PICK id \in r.updates : id \in u.updates BY <2>3
      <3>2. NameOf(id, m) \in SetBy(P[k]) BY <2>1 DEF NamesOf
      <3>3. NameOf(id, m) \in UNION {SetBy(P[i]) : i \in 1..(k - 1)} BY <1>4, <3>1 DEF NamesOf
      <3>4. PICK i \in 1..(k - 1) : NameOf(id, m) \in SetBy(P[i]) BY <3>3
      <3>5. i \in 1..k /\ i # k BY <1>5
      <3>6. SetByBoth(m, i, k) BY <3>2, <3>4 DEF SetByBoth
      <3>7. SetTwice(m)
        <4>1. i \in DOMAIN m.blocks BY <1>5, <3>5
        <4> QED BY <3>5, <3>6, <4>1, SetTwiceFacts
      <3>8. v = Error("DuplicateAssignment") BY <1>1, <1>7, <2>2, <2>3
      <3> QED BY <3>7, <3>8 DEF BlocksSoFar
    <2>4. CASE r.updates \cap u.updates = {}
      <3> DEFINE w == [updates |-> u.updates \cup r.updates]
      <3>1. v = w BY <1>1, <1>7, <2>2, <2>4
      <3>2. w.updates = u.updates \cup r.updates OBVIOUS
      <3>3. w \in Updates BY <2>1 DEF Updates
      <3> HIDE DEF w
      <3>4. w.updates \subseteq SetIds(m) BY <1>4, <2>1, <3>2
      <3>5. NamesOf(w.updates, m) = NamesOf(u.updates, m) \cup NamesOf(r.updates, m)
        BY <3>2 DEF NamesOf
      <3>6. UNION {SetBy(P[i]) : i \in 1..k} = (UNION {SetBy(P[i]) : i \in 1..(k - 1)}) \cup SetBy(P[k])
        <4> DEFINE Q(i) == SetBy(P[i])
        <4>1. 1..k = (1..(k - 1)) \cup {k} BY <1>5
        <4>2. \A A, B, x : A = B \cup {x} => UNION {Q(i) : i \in A} = (UNION {Q(i) : i \in B}) \cup Q(x)
          <5> HIDE DEF Q
          <5> QED OBVIOUS
        <4>3. UNION {Q(i) : i \in 1..k} = (UNION {Q(i) : i \in 1..(k - 1)}) \cup Q(k) BY <4>1, <4>2
        <4> QED BY <4>3
      <3>7. NamesOf(w.updates, m) = UNION {SetBy(P[i]) : i \in 1..k} BY <1>4, <2>1, <3>5, <3>6
      <3>8. \A i \in 1..(k - 1) : ~SetByBoth(m, i, k) /\ ~SetByBoth(m, k, i)
        <4> SUFFICES ASSUME NEW i \in 1..(k - 1), NEW n \in SetBy(P[i]), n \in SetBy(P[k]) PROVE FALSE
          BY DEF SetByBoth
        <4>1. n \in NamesOf(u.updates, m) /\ n \in NamesOf(r.updates, m) BY <1>4, <2>1
        <4>2. PICK a \in u.updates : n = NameOf(a, m) BY <4>1 DEF NamesOf
        <4>3. PICK b \in r.updates : n = NameOf(b, m) BY <4>1 DEF NamesOf
        <4>4. a = b BY <1>4, <2>1, <4>2, <4>3, OwnIdsDiffer
        <4> QED BY <2>4, <4>4
      <3>9. \A i \in 1..k : ~TwiceIn(m, i) /\ \A j \in 1..k : i # j => ~SetByBoth(m, i, j)
        BY <1>4, <1>5, <2>1, <3>8
      <3>10. BlocksSoFar(w, k, m) BY <3>3, <3>4, <3>7, <3>9 DEF BlocksSoFar
      <3> QED BY <3>1, <3>10
    <2> QED BY <2>3, <2>4
  <1> QED BY <1>6, <1>7


LEMMA BlocksUnfold ==
    ASSUME NEW m, ModuleOK(m)
    PROVE  \E a : /\ a[0] = [updates |-> {}] /\ \A k \in 0..Len(m.blocks) : a[k] \in Outcomes
                  /\ \A k \in 1..Len(m.blocks) :
                        a[k] = IF IsError(a[k - 1]) THEN a[k - 1]
                               ELSE VerifyBlock(m.blocks[k], a[k - 1].updates, m)
                  /\ VerifyBlocks(m) = IF IsError(a[Len(m.blocks)]) THEN a[Len(m.blocks)].error
                                       ELSE "ok"
  <1> DEFINE n == Len(m.blocks)
             first == [updates |-> {}]
             more(i, r) == IF IsError(r) THEN r ELSE VerifyBlock(m.blocks[i], r.updates, m)
             step(f) == [k \in 0..n |-> IF k = 0 THEN first ELSE more(k, f[k - 1])]
             t == CHOOSE f : f = step(f)
             H == [i \in 1..n |-> [r \in Outcomes |-> more(i, r)]]
  <1>0. n \in Nat /\ \A i \in 1..n : i \in DOMAIN m.blocks BY ModuleFacts
  <1>1. VerifyBlocks(m) = IF IsError(t[n]) THEN t[n].error ELSE "ok" BY DEF VerifyBlocks
  <1>2. first \in Outcomes BY DEF Outcomes, Updates
  <1>3. \A i \in 1..n : \A r \in Outcomes : more(i, r) \in Outcomes /\ H[i][r] = more(i, r)
    <2> SUFFICES ASSUME NEW i \in 1..n, NEW r \in Outcomes PROVE more(i, r) \in Outcomes
      OBVIOUS
    <2>1. CASE IsError(r) BY <2>1
    <2>2. CASE ~IsError(r)
      <3>1. r.updates \in SUBSET Nat BY <2>2, OutcomeFacts
      <3>2. VerifyBlock(m.blocks[i], r.updates, m) \in Outcomes BY <1>0, <3>1, BlockOutcome
      <3> QED BY <2>2, <3>2
    <2> QED BY <2>1, <2>2
  <1>m. \A i, r : more(i, r) = IF IsError(r) THEN r ELSE VerifyBlock(m.blocks[i], r.updates, m)
    OBVIOUS
  <1> HIDE DEF more, first
  <1>4. H \in [1..n -> [Outcomes -> Outcomes]] BY <1>3
  <1> HIDE DEF H
  <1>5. \A f \in [0..n -> Outcomes] : StepsFrom(f, first, H, n) => Unfolds(t, first, H, n, Outcomes)
    <2> SUFFICES ASSUME NEW f \in [0..n -> Outcomes], StepsFrom(f, first, H, n)
                 PROVE  Unfolds(t, first, H, n, Outcomes)
      OBVIOUS
    <2>1. \A k \in 1..n : k - 1 \in 0..n /\ f[k - 1] \in Outcomes BY <1>0
    <2>2. \A k \in 1..n : f[k] = more(k, f[k - 1])
      <3> SUFFICES ASSUME NEW k \in 1..n PROVE f[k] = more(k, f[k - 1])
        OBVIOUS
      <3>1. f[k - 1] \in Outcomes BY <2>1
      <3>2. f[k] = H[k][f[k - 1]] BY DEF StepsFrom
      <3> QED BY <1>3, <3>1, <3>2
    <2>3. \A k \in 0..n : f[k] = IF k = 0 THEN first ELSE more(k, f[k - 1])
      BY <2>2 DEF StepsFrom
    <2>4. f = step(f) BY <2>3
    <2>5. t = step(t)
      <3> HIDE DEF step
      <3> QED BY <2>4
    <2> HIDE DEF t
    <2>6. t[0] = first BY <1>0, <2>5
    <2>7. \A k \in 1..n : t[k] = more(k, t[k - 1])
      <3>1. \A k \in 1..n : k \in 0..n /\ k # 0 BY <1>0
      <3> QED BY <2>5, <3>1
    <2> QED BY <1>3, <2>6, <2>7 DEF Unfolds
  <1>6. /\ t[0] = first /\ \A k \in 0..n : t[k] \in Outcomes
        /\ \A i \in 1..n : t[i] = H[i][t[i - 1]]
    <2> HIDE DEF t
    <2> QED BY <1>0, <1>2, <1>4, <1>5, StepsSolved
  <1> HIDE DEF t
  <1>7. \A i \in 1..n : t[i] = more(i, t[i - 1])
    <2> TAKE i \in 1..n
    <2>1. i - 1 \in 0..n BY <1>0
    <2> QED BY <1>3, <1>6, <2>1
  <1>8. /\ t[0] = [updates |-> {}] /\ \A k \in 0..n : t[k] \in Outcomes
        /\ \A k \in 1..n : t[k] = IF IsError(t[k - 1]) THEN t[k - 1]
                                  ELSE VerifyBlock(m.blocks[k], t[k - 1].updates, m)
        /\ VerifyBlocks(m) = IF IsError(t[n]) THEN t[n].error ELSE "ok"
    BY <1>1, <1>6, <1>7, <1>m DEF first
  <1> QED BY <1>8

\* The verdict on the blocks is about what they set, and nothing else.
BlocksVerdict == {"ok", "InvalidModule", "DuplicateAssignment"}
LEMMA BlocksJudged ==
    ASSUME NEW m, ModuleOK(m)
    PROVE  /\ VerifyBlocks(m) \in BlocksVerdict
           /\ VerifyBlocks(m) = "ok" => ~SetTwice(m)
           /\ VerifyBlocks(m) = "DuplicateAssignment" => SetTwice(m)
  <1> DEFINE n == Len(m.blocks)
  <1>1. PICK a : /\ a[0] = [updates |-> {}] /\ \A k \in 0..n : a[k] \in Outcomes
                 /\ \A k \in 1..n : a[k] = IF IsError(a[k - 1]) THEN a[k - 1]
                                           ELSE VerifyBlock(m.blocks[k], a[k - 1].updates, m)
                 /\ VerifyBlocks(m) = IF IsError(a[n]) THEN a[n].error ELSE "ok"
    BY BlocksUnfold
  <1>2. n \in Nat /\ DOMAIN m.blocks = 1..n BY ModuleFacts
  <1> HIDE DEF n
  <1> DEFINE P == {k \in 0..n : BlocksSoFar(a[k], k, m)}
  <1>e. \A kind : IsError(Error(kind)) /\ Error(kind).error = kind BY DEF Error, IsError
  <1>3. 0 \in P
    <2>1. a[0] \in Updates /\ a[0].updates = {} BY <1>1 DEF Updates
    <2>2. NamesOf(a[0].updates, m) = {} BY <2>1 DEF NamesOf
    <2>3. 1..0 = {} OBVIOUS
    <2>4. UNION {SetBy(BlockPaths(m)[i]) : i \in 1..0} = {} BY <2>3
    <2>5. BlocksSoFar(a[0], 0, m) BY <2>1, <2>2, <2>3, <2>4 DEF BlocksSoFar
    <2> QED BY <1>2, <2>5
  <1>4. ASSUME NEW i \in 0..(n - 1), i \in P PROVE i + 1 \in P
    <2>1. i + 1 \in 1..n /\ (i + 1) - 1 = i /\ i + 1 \in 0..n BY <1>2
    <2>2. BlocksSoFar(a[i], i, m) BY <1>4
    <2>3. a[i + 1] = IF IsError(a[i]) THEN a[i] ELSE VerifyBlock(m.blocks[i + 1], a[i].updates, m)
      BY <1>1, <2>1
    <2>4. CASE IsError(a[i])
      <3>1. ~(a[i] \in Updates) BY <2>4, UpdatesNoError
      <3> QED BY <2>1, <2>2, <2>3, <2>4, <3>1 DEF BlocksSoFar
    <2>5. CASE ~IsError(a[i])
      <3>1. a[i] \in Updates BY <1>e, <2>2, <2>5 DEF BlocksSoFar
      <3>2. BlocksSoFar(a[i], (i + 1) - 1, m) BY <2>1, <2>2
      <3>3. i + 1 \in DOMAIN m.blocks BY <1>2, <2>1
      <3>4. BlocksSoFar(VerifyBlock(m.blocks[i + 1], a[i].updates, m), i + 1, m)
        BY <3>1, <3>2, <3>3, BlockJudged
      <3> QED BY <2>1, <2>3, <2>5, <3>4
    <2> QED BY <2>4, <2>5
  <1>5. n \in P
    <2> HIDE DEF P
    <2> QED BY <1>2, <1>3, <1>4, UpTo
  <1>6. BlocksSoFar(a[n], n, m) BY <1>5
  <1>7. CASE a[n] = Error("InvalidModule") BY <1>1, <1>7, <1>e DEF BlocksVerdict
  <1>8. CASE a[n] = Error("DuplicateAssignment") /\ SetTwice(m)
    BY <1>1, <1>8, <1>e DEF BlocksVerdict
  <1>9. CASE /\ a[n] \in Updates
             /\ \A i \in 1..n : ~TwiceIn(m, i) /\ \A j \in 1..n : i # j => ~SetByBoth(m, i, j)
    <2>1. ~IsError(a[n]) BY <1>9, UpdatesNoError
    <2>2. ~SetTwice(m) BY <1>2, <1>9, SetTwiceFacts
    <2> QED BY <1>1, <2>1, <2>2 DEF BlocksVerdict
  <1> QED BY <1>6, <1>7, <1>8, <1>9 DEF BlocksSoFar

-----------------------------------------------------------------------------
(* The whole module *)

LEMMA FirstFailureRange ==
    ASSUME NEW S, NEW checks \in Seq(S), "ok" \in S
    PROVE  /\ FirstFailure(checks) = "ok" <=> Range(checks) \subseteq {"ok"}
           /\ FirstFailure(checks) # "ok" => FirstFailure(checks) \in Range(checks)
           /\ FirstFailure(checks) \in S
  <1>1. Range(checks) = {checks[i] : i \in DOMAIN checks} BY DEF Range
  <1> QED BY <1>1, FirstFailureFacts

ModuleVerdict == {"ok", "InvalidModule", "DuplicateAssignment", "MissingAssignment", "CombinationalLoop"}

LEMMA EnumVerdict == \A e : VerifyEnum(e) \in {"ok", "InvalidModule"}
  BY DEF VerifyEnum, Check

LEMMA PortVerdict ==
    ASSUME NEW m, ModuleOK(m), NEW i \in DOMAIN m.ports
    PROVE  VerifyPort(i, m) \in {"ok", "MissingAssignment"}
  <1> DEFINE c1 == Check(m.ports[i].ty.width > 0, "InvalidWidth")
             driven == m.ports[i].direction = Output =>
                  \/ \E k \in DOMAIN m.assigns : m.assigns[k].dest = i - 1
                  \/ IsRegisterName(m.ports[i].name, m)
             c2 == Check(driven, "MissingAssignment")
             S == {"ok", "MissingAssignment"}
  <1>1. m.ports[i].ty \in HwTypes BY ModuleFacts
  <1>2. m.ports[i].ty.width > 0 BY <1>1, WidthsAssumption DEF HwTypes
  <1>3. c1 = "ok" BY <1>2 DEF Check
  <1>4. c2 \in S BY DEF Check
  <1>5. VerifyPort(i, m) = FirstFailure(<<c1, c2>>) BY DEF VerifyPort
  <1> HIDE DEF c1, c2
  <1>6. <<c1, c2>> \in Seq(S) BY <1>3, <1>4
  <1> QED BY <1>5, <1>6, FirstFailureFacts

NamesChecked(m) ==
    /\ \A i, j \in DOMAIN m.enums : FoldCase[m.enums[i].name] = FoldCase[m.enums[j].name] => i = j
    /\ NewNames(m)

LEMMA ModuleJudged ==
    ASSUME NEW m, ModuleOK(m)
    PROVE  /\ VerifyModule(m) \in ModuleVerdict
           /\ VerifyModule(m) = "ok" => /\ NamesChecked(m) /\ VerifyBlocks(m) = "ok" /\ ~HasLoop(m)
                                        /\ \A i \in DOMAIN m.ports : VerifyPort(i, m) = "ok"
           /\ VerifyModule(m) = "DuplicateAssignment" => VerifyBlocks(m) = "DuplicateAssignment"
           /\ VerifyModule(m) = "CombinationalLoop" => HasLoop(m)
  <1> DEFINE S == ModuleVerdict
             a == [i \in DOMAIN m.enums |-> VerifyEnum(m.enums[i])]
             b == Check(NamesChecked(m), "InvalidModule")
             c == [i \in DOMAIN m.assigns |-> VerifyAssign(i, m)]
             d == [i \in DOMAIN m.registers |-> VerifyRegister(i, m)]
             e == VerifyBlocks(m)
             f == [i \in DOMAIN m.ports |-> VerifyPort(i, m)]
             g == Check(~HasLoop(m), "CombinationalLoop")
             all == a \o <<b>> \o c \o d \o <<e>> \o f \o <<g>>
  <1>1. VerifyModule(m) = FirstFailure(all) BY DEF VerifyModule, NamesChecked
  <1>2. /\ Len(m.enums) \in Nat /\ DOMAIN m.enums = 1..Len(m.enums)
        /\ Len(m.assigns) \in Nat /\ DOMAIN m.assigns = 1..Len(m.assigns)
        /\ Len(m.registers) \in Nat /\ DOMAIN m.registers = 1..Len(m.registers)
        /\ Len(m.ports) \in Nat /\ DOMAIN m.ports = 1..Len(m.ports)
    BY ModuleFacts
  <1>q. ASSUME NEW n \in Nat, NEW s, s = [i \in 1..n |-> s[i]], NEW K, \A i \in 1..n : s[i] \in K
        PROVE  s \in Seq(K) /\ Range(s) = {s[i] : i \in 1..n} /\ Range(s) \subseteq K
    BY <1>q DEF Range
  <1>3. a \in Seq({"ok", "InvalidModule"}) /\ Range(a) \subseteq {"ok", "InvalidModule"}
    <2> DEFINE K == {"ok", "InvalidModule"}
               n == Len(m.enums)
    <2>1. n \in Nat /\ a = [i \in 1..n |-> a[i]] /\ \A i \in 1..n : a[i] \in K BY <1>2, EnumVerdict
    <2> HIDE DEF a, K, n
    <2>2. a \in Seq(K) /\ Range(a) \subseteq K BY <2>1, <1>q
    <2> QED BY <2>2 DEF K
  <1>4. b \in {"ok", "InvalidModule"} /\ (b = "ok" => NamesChecked(m)) BY DEF Check
  <1>5. c \in Seq({"ok"}) /\ Range(c) \subseteq {"ok"}
    <2> DEFINE K == {"ok"}
               n == Len(m.assigns)
    <2>1. n \in Nat /\ c = [i \in 1..n |-> c[i]] /\ \A i \in 1..n : c[i] \in K
      BY <1>2, AssignVerified
    <2> HIDE DEF c, K, n
    <2>2. c \in Seq(K) /\ Range(c) \subseteq K BY <2>1, <1>q
    <2> QED BY <2>2 DEF K
  <1>6. d \in Seq({"ok"}) /\ Range(d) \subseteq {"ok"}
    <2> DEFINE K == {"ok"}
               n == Len(m.registers)
    <2>1. n \in Nat /\ d = [i \in 1..n |-> d[i]] /\ \A i \in 1..n : d[i] \in K
      BY <1>2, RegisterVerified
    <2> HIDE DEF d, K, n
    <2>2. d \in Seq(K) /\ Range(d) \subseteq K BY <2>1, <1>q
    <2> QED BY <2>2 DEF K
  <1>7. e \in BlocksVerdict BY BlocksJudged
  <1>8. /\ f \in Seq({"ok", "MissingAssignment"}) /\ Range(f) \subseteq {"ok", "MissingAssignment"}
        /\ Range(f) = {VerifyPort(i, m) : i \in DOMAIN m.ports}
    <2> DEFINE K == {"ok", "MissingAssignment"}
               n == Len(m.ports)
    <2>1. n \in Nat /\ f = [i \in 1..n |-> f[i]] /\ \A i \in 1..n : f[i] \in K
      BY <1>2, PortVerdict
    <2>2. f \in Seq(K) /\ Range(f) \subseteq K
      <3> HIDE DEF f, K, n
      <3> QED BY <2>1, <1>q
    <2>3. Range(f) = {VerifyPort(i, m) : i \in DOMAIN m.ports} BY DEF Range
    <2> HIDE DEF f
    <2> QED BY <2>2, <2>3
  <1>9. g \in {"ok", "CombinationalLoop"} /\ (g = "ok" <=> ~HasLoop(m)) BY DEF Check
  <1> HIDE DEF a, b, c, d, e, f, g
  <1>10. /\ all \in Seq(S)
         /\ Range(all) = Range(a) \cup {b} \cup Range(c) \cup Range(d) \cup {e} \cup Range(f) \cup {g}
    <2>1. a \in Seq(S) /\ c \in Seq(S) /\ d \in Seq(S) /\ f \in Seq(S)
      <3>1. \A K : K \subseteq S => Seq(K) \subseteq Seq(S) OBVIOUS
      <3>2. {"ok", "InvalidModule"} \subseteq S /\ {"ok"} \subseteq S
            /\ {"ok", "MissingAssignment"} \subseteq S
        BY DEF ModuleVerdict
      <3> QED BY <1>3, <1>5, <1>6, <1>8, <3>1, <3>2
    <2>2. b \in S /\ e \in S /\ g \in S BY <1>4, <1>7, <1>9 DEF ModuleVerdict, BlocksVerdict
    <2> HIDE DEF S
    <2>3. \A x \in S : <<x>> \in Seq(S) /\ Range(<<x>>) = {x} BY DEF Range
    <2>4. \A x, y \in Seq(S) : x \o y \in Seq(S) OBVIOUS
    <2>5. \A x, y \in Seq(S) : Range(x \o y) = Range(x) \cup Range(y) BY ConcatFacts
    <2> DEFINE x1 == a \o <<b>>
               x2 == x1 \o c
               x3 == x2 \o d
               x4 == x3 \o <<e>>
               x5 == x4 \o f
    <2>b. <<b>> \in Seq(S) /\ Range(<<b>>) = {b} BY <2>2, <2>3
    <2>6. x1 \in Seq(S) /\ Range(x1) = Range(a) \cup {b}
      <3> DEFINE y == <<b>>
      <3>1. y \in Seq(S) /\ Range(y) = {b} BY <2>b
      <3> HIDE DEF y
      <3>2. a \o y \in Seq(S) /\ Range(a \o y) = Range(a) \cup Range(y) BY <2>1, <2>4, <2>5, <3>1
      <3> QED BY <3>1, <3>2 DEF y
    <2> HIDE DEF x1
    <2>7. x2 \in Seq(S) /\ Range(x2) = Range(x1) \cup Range(c) BY <2>1, <2>4, <2>5, <2>6
    <2> HIDE DEF x2
    <2>8. x3 \in Seq(S) /\ Range(x3) = Range(x2) \cup Range(d) BY <2>1, <2>4, <2>5, <2>7
    <2> HIDE DEF x3
    <2>9. x4 \in Seq(S) /\ Range(x4) = Range(x3) \cup {e} BY <2>2, <2>3, <2>4, <2>5, <2>8
    <2> HIDE DEF x4
    <2>10. x5 \in Seq(S) /\ Range(x5) = Range(x4) \cup Range(f) BY <2>1, <2>4, <2>5, <2>9
    <2> HIDE DEF x5
    <2>11. x5 \o <<g>> \in Seq(S) /\ Range(x5 \o <<g>>) = Range(x5) \cup {g}
      BY <2>2, <2>3, <2>4, <2>5, <2>10
    <2>12. all = x5 \o <<g>> BY DEF x1, x2, x3, x4, x5
    <2> QED BY <2>6, <2>7, <2>8, <2>9, <2>10, <2>11, <2>12
  <1>11. "ok" \in S BY DEF ModuleVerdict
  <1> HIDE DEF all, S
  <1>12. /\ FirstFailure(all) = "ok" <=> Range(all) \subseteq {"ok"}
         /\ FirstFailure(all) # "ok" => FirstFailure(all) \in Range(all)
         /\ FirstFailure(all) \in S
    BY <1>10, <1>11, FirstFailureRange
  <1>13. VerifyModule(m) \in ModuleVerdict BY <1>1, <1>12 DEF S
  <1>14. ASSUME VerifyModule(m) = "ok"
         PROVE  /\ NamesChecked(m) /\ VerifyBlocks(m) = "ok" /\ ~HasLoop(m)
                /\ \A i \in DOMAIN m.ports : VerifyPort(i, m) = "ok"
    <2>1. Range(all) \subseteq {"ok"} BY <1>1, <1>12, <1>14
    <2>2. b = "ok" /\ e = "ok" /\ g = "ok" /\ Range(f) \subseteq {"ok"} BY <1>10, <2>1
    <2>3. \A i \in DOMAIN m.ports : VerifyPort(i, m) = "ok" BY <1>8, <2>2
    <2> QED BY <1>4, <1>9, <2>2, <2>3 DEF e
  <1>15. VerifyModule(m) = "DuplicateAssignment" => VerifyBlocks(m) = "DuplicateAssignment"
    <2> HAVE VerifyModule(m) = "DuplicateAssignment"
    <2>1. "DuplicateAssignment" \in Range(all) BY <1>1, <1>12
    <2> QED BY <1>3, <1>4, <1>5, <1>6, <1>8, <1>9, <1>10, <2>1 DEF e
  <1>16. VerifyModule(m) = "CombinationalLoop" => HasLoop(m)
    <2> HAVE VerifyModule(m) = "CombinationalLoop"
    <2>1. "CombinationalLoop" \in Range(all) BY <1>1, <1>12
    <2>2. g = "CombinationalLoop" BY <1>3, <1>4, <1>5, <1>6, <1>7, <1>8, <1>10, <2>1 DEF BlocksVerdict
    <2> QED BY <1>9, <2>2
  <1> QED BY <1>13, <1>14, <1>15, <1>16


-----------------------------------------------------------------------------
(* The verdict on a design *)

DesignVerdict == ModuleVerdict \cup {"DuplicateModule"}

LEMMA DesignJudged ==
    ASSUME TypeInv, WrittenInv
    PROVE  /\ VerifyDesign \in DesignVerdict
           /\ VerifyDesign = "ok" => \A k \in DOMAIN design : VerifyModule(design[k]) = "ok"
           /\ VerifyDesign \notin {"ok", "DuplicateModule"}
                => \E k \in DOMAIN design : VerifyDesign = VerifyModule(design[k])
  <1> DEFINE v(k) == IF \E j \in 1..(k - 1) : ModuleName(design[j]) = ModuleName(design[k])
                     THEN "DuplicateModule" ELSE VerifyModule(design[k])
             checks == [k \in DOMAIN design |-> v(k)]
             S == DesignVerdict
  <1>1. VerifyDesign = FirstFailure(checks) BY DEF VerifyDesign
  <1>2. Len(design) \in Nat /\ DOMAIN design = 1..Len(design) BY DEF TypeInv, Progress, IsSequence
  <1>3. \A k \in DOMAIN design : VerifyModule(design[k]) \in ModuleVerdict
    BY ModuleJudged DEF WrittenInv
  <1>4. \A k \in DOMAIN design : /\ v(k) \in S
                                 /\ v(k) = "ok" => VerifyModule(design[k]) = "ok"
                                 /\ v(k) # "DuplicateModule" => v(k) = VerifyModule(design[k])
    BY <1>3 DEF DesignVerdict, ModuleVerdict
  <1>5. "ok" \in S BY DEF DesignVerdict, ModuleVerdict
  <1> HIDE DEF v, S
  <1>6. checks \in Seq(S) BY <1>2, <1>4
  <1>7. \A k \in DOMAIN checks : k \in DOMAIN design /\ checks[k] = v(k) OBVIOUS
  <1>n. DOMAIN checks = DOMAIN design OBVIOUS
  <1> HIDE DEF checks
  <1>8. /\ FirstFailure(checks) \in S
        /\ FirstFailure(checks) # "ok" => \E i \in DOMAIN checks : FirstFailure(checks) = checks[i]
        /\ FirstFailure(checks) = "ok" => \A i \in DOMAIN checks : checks[i] = "ok"
    BY <1>5, <1>6, FirstFailureFacts
  <1>9. VerifyDesign \in DesignVerdict BY <1>1, <1>8 DEF S
  <1>10. VerifyDesign = "ok" => \A k \in DOMAIN design : VerifyModule(design[k]) = "ok"
    BY <1>1, <1>4, <1>7, <1>8, <1>n
  <1>11. ASSUME VerifyDesign # "ok", VerifyDesign # "DuplicateModule"
         PROVE  \E k \in DOMAIN design : VerifyDesign = VerifyModule(design[k])
    <2>1. PICK i \in DOMAIN checks : VerifyDesign = checks[i] BY <1>1, <1>8, <1>11
    <2> QED BY <1>4, <1>7, <1>11, <2>1
  <1> QED BY <1>9, <1>10, <1>11

\* What was lowered is rejected for what drives what, or for a name, and never
\* for a type, a width, a literal or an unknown signal.
THEOREM LoweredTypes == Spec => []LoweredIsTyped
  <1>1. TypeInv /\ WrittenInv => LoweredIsTyped
    <2> SUFFICES ASSUME TypeInv, WrittenInv, phase = "rejected"
                 PROVE  outcome \in {"InvalidModule", "DuplicateModule", "DuplicateAssignment",
                                     "MissingAssignment", "CombinationalLoop"}
      BY DEF LoweredIsTyped
    <2>1. outcome = VerifyDesign /\ VerifyDesign # "ok" BY DEF WrittenInv, Concluded
    <2> QED BY <2>1, DesignJudged DEF DesignVerdict, ModuleVerdict
  <1> QED BY <1>1, WrittenInvariance, PTL

\* No path through the clocked blocks of a verified module sets a register twice;
\* and a design is refused for that only if one does.
THEOREM UpdatedOnce == Spec => []OneUpdatePerPath
  <1>1. TypeInv /\ WrittenInv => OneUpdatePerPath
    <2> SUFFICES ASSUME TypeInv, WrittenInv PROVE OneUpdatePerPath OBVIOUS
    <2>1. \A k \in DOMAIN design : ModuleOK(design[k]) BY DEF WrittenInv
    <2>2. ASSUME Verified, NEW k \in DOMAIN design PROVE ~SetTwice(design[k])
      <3>1. VerifyModule(design[k]) = "ok" BY <2>2, DesignJudged DEF WrittenInv, Concluded
      <3> QED BY <2>1, <3>1, ModuleJudged, BlocksJudged
    <2>3. ASSUME Rejected("DuplicateAssignment") PROVE \E k \in DOMAIN design : SetTwice(design[k])
      <3>1. VerifyDesign = "DuplicateAssignment" BY <2>3 DEF Rejected, WrittenInv, Concluded
      <3>2. PICK k \in DOMAIN design : VerifyModule(design[k]) = "DuplicateAssignment"
        BY <3>1, DesignJudged
      <3> QED BY <2>1, <3>2, ModuleJudged, BlocksJudged
    <2> QED BY <2>2, <2>3 DEF OneUpdatePerPath
  <1> QED BY <1>1, WrittenInvariance, PTL


-----------------------------------------------------------------------------
(* The drivers that are emitted *)

\* The first sequences have one element each, and the others none.
SinglesOf(seqs, h, S, l, n) ==
    /\ n \in Nat /\ l \in 0..n
    /\ seqs \in [1..n -> Seq(S)] /\ h \in [1..l -> S]
    /\ \A i \in 1..l : seqs[i] = <<h[i]>>
    /\ \A i \in (l + 1)..n : seqs[i] = <<>>

LEMMA FlattenSingles ==
    ASSUME NEW S, NEW n, NEW seqs, NEW l, NEW h, SinglesOf(seqs, h, S, l, n)
    PROVE  FlattenSeq(seqs) = h
  <1>0. /\ n \in Nat /\ l \in 0..n
        /\ seqs \in [1..n -> Seq(S)] /\ h \in [1..l -> S]
        /\ \A i \in 1..l : seqs[i] = <<h[i]>>
        /\ \A i \in (l + 1)..n : seqs[i] = <<>>
    BY DEF SinglesOf
  <1> USE <1>0
  <1>1. PICK f : Flattening(f, seqs, S, n) /\ FlattenSeq(seqs) = f[n] BY FlattenSteps
  <1>2. /\ f \in [0..n -> Seq(S)] /\ f[0] = <<>>
        /\ \A i \in 1..n : f[i] = f[i - 1] \o seqs[i]
    BY <1>1 DEF Flattening
  <1> DEFINE least(k) == IF k <= l THEN k ELSE l
             upTo(k) == [i \in 1..least(k) |-> h[i]]
             P == {k \in 0..n : f[k] = upTo(k)}
  <1>3. 0 \in P
    <2>1. least(0) = 0 OBVIOUS
    <2>2. upTo(0) = <<>> BY <2>1
    <2> QED BY <1>2, <2>2
  <1>4. ASSUME NEW k \in 0..(n - 1), k \in P PROVE k + 1 \in P
    <2>1. k \in Nat /\ l \in Nat /\ k + 1 \in 1..n /\ k + 1 \in 0..n /\ (k + 1) - 1 = k OBVIOUS
    <2>2. f[k + 1] = f[k] \o seqs[k + 1] BY <1>2, <2>1
    <2>3. f[k] = upTo(k) BY <1>4
    <2>4. CASE k + 1 <= l
      <3>1. least(k) = k /\ least(k + 1) = k + 1 /\ k + 1 \in 1..l BY <2>1, <2>4
      <3>2. seqs[k + 1] = <<h[k + 1]>> /\ h[k + 1] \in S BY <3>1
      <3>3. upTo(k) \in Seq(S) /\ Len(upTo(k)) = k
        <4>1. \A i \in 1..k : i \in 1..l BY <2>1, <2>4
        <4>2. upTo(k) = [i \in 1..k |-> h[i]] BY <3>1
        <4>3. [i \in 1..k |-> h[i]] \in [1..k -> S] BY <4>1
        <4> QED BY <2>1, <4>2, <4>3
      <3>4. \A i \in 1..k : upTo(k)[i] = h[i] BY <3>1
      <3>5. upTo(k + 1) = [i \in 1..(k + 1) |-> h[i]] BY <3>1
      <3> DEFINE u == upTo(k)
                 x == h[k + 1]
      <3> HIDE DEF u, x
      <3>6. u \o <<x>> = [i \in 1..(k + 1) |-> IF i <= k THEN u[i] ELSE x]
        BY <2>1, <3>2, <3>3 DEF u, x
      <3>7. \A i \in 1..(k + 1) : (IF i <= k THEN u[i] ELSE x) = h[i]
        <4> TAKE i \in 1..(k + 1)
        <4>1. CASE i <= k
          <5>1. i \in 1..k BY <2>1, <4>1
          <5> QED BY <3>4, <4>1, <5>1 DEF u
        <4>2. CASE ~(i <= k)
          <5>1. i = k + 1 BY <2>1, <4>2
          <5> QED BY <4>2, <5>1 DEF x
        <4> QED BY <4>1, <4>2
      <3>8. u \o <<x>> = upTo(k + 1) BY <3>5, <3>6, <3>7
      <3> QED BY <2>1, <2>2, <2>3, <3>2, <3>8 DEF u, x
    <2>5. CASE ~(k + 1 <= l)
      <3>1. least(k) = l /\ least(k + 1) = l BY <2>1, <2>5
      <3>2. k + 1 \in (l + 1)..n BY <2>1, <2>5
      <3>3. seqs[k + 1] = <<>> BY <3>2
      <3>4. k \in 0..n OBVIOUS
      <3>5. f[k] \in Seq(S) BY <1>2, <3>4
      <3>6. f[k] \o <<>> = f[k] BY <3>5
      <3>7. upTo(k) = upTo(k + 1) BY <3>1
      <3> HIDE DEF upTo
      <3> QED BY <2>1, <2>2, <2>3, <3>3, <3>6, <3>7
    <2> QED BY <2>4, <2>5
  <1>5. n \in P
    <2> HIDE DEF P
    <2> QED BY <1>3, <1>4, UpTo
  <1>6. least(n) = l OBVIOUS
  <1>7. upTo(n) = h BY <1>6
  <1> QED BY <1>1, <1>5, <1>7

MappedBy(p2, g, p) == p2 = [i \in DOMAIN p |-> g[p[i]]]

LEMMA MapConcat ==
    ASSUME NEW X, NEW Y, NEW g \in [X -> Y], NEW p \in Seq(X), NEW q \in Seq(X), NEW p2, NEW q2,
           MappedBy(p2, g, p), MappedBy(q2, g, q)
    PROVE  MappedBy(p2 \o q2, g, p \o q)
  <1>1. /\ Len(p) \in Nat /\ Len(q) \in Nat /\ DOMAIN p = 1..Len(p) /\ DOMAIN q = 1..Len(q)
        /\ \A i \in 1..Len(p) : p[i] \in X
        /\ \A i \in 1..Len(q) : q[i] \in X
    OBVIOUS
  <1>2. p2 \in Seq(Y) /\ Len(p2) = Len(p) /\ \A i \in 1..Len(p) : p2[i] = g[p[i]]
    BY <1>1 DEF MappedBy
  <1>3. q2 \in Seq(Y) /\ Len(q2) = Len(q) /\ \A i \in 1..Len(q) : q2[i] = g[q[i]]
    BY <1>1 DEF MappedBy
  <1> DEFINE n == Len(p) + Len(q)
             r2 == p2 \o q2
             r == p \o q
  <1>4. /\ DOMAIN r2 = 1..n /\ r2 = [i \in 1..n |-> r2[i]]
        /\ \A i \in 1..n : r2[i] = IF i <= Len(p) THEN p2[i] ELSE q2[i - Len(p)]
    <2>a. p2 \in Seq(Y) /\ q2 \in Seq(Y) BY <1>2, <1>3
    <2>b. \A a, b \in Seq(Y) : /\ a \o b \in Seq(Y) /\ Len(a \o b) = Len(a) + Len(b)
                               /\ \A i \in 1..(Len(a) + Len(b)) :
                                     (a \o b)[i] = IF i <= Len(a) THEN a[i] ELSE b[i - Len(a)]
      OBVIOUS
    <2>1. r2 \in Seq(Y) /\ Len(r2) = Len(p2) + Len(q2) BY <2>a, <2>b
    <2>2. \A i \in 1..(Len(p2) + Len(q2)) : r2[i] = IF i <= Len(p2) THEN p2[i] ELSE q2[i - Len(p2)]
      BY <2>a, <2>b
    <2> HIDE DEF r2
    <2>3. DOMAIN r2 = 1..n /\ r2 = [i \in 1..n |-> r2[i]] BY <1>1, <1>2, <1>3, <2>1
    <2> QED BY <1>2, <1>3, <2>2, <2>3
  <1>5. DOMAIN r = 1..n /\ \A i \in 1..n : r[i] = IF i <= Len(p) THEN p[i] ELSE q[i - Len(p)]
    BY <1>1
  <1> HIDE DEF r2, r
  <1>6. \A i \in 1..n : r2[i] = g[r[i]]
    <2> TAKE i \in 1..n
    <2>1. CASE i <= Len(p)
      <3>1. i \in 1..Len(p) BY <1>1, <2>1
      <3> QED BY <1>2, <1>4, <1>5, <2>1, <3>1
    <2>2. CASE ~(i <= Len(p))
      <3>1. i - Len(p) \in 1..Len(q) BY <1>1, <2>2
      <3> QED BY <1>3, <1>4, <1>5, <2>2, <3>1
    <2> QED BY <2>1, <2>2
  <1>7. r2 = [i \in DOMAIN r |-> g[r[i]]] BY <1>4, <1>5, <1>6
  <1> QED BY <1>7 DEF MappedBy, r2, r


LEMMA RegisterFormsSorts ==
    ASSUME NEW m, SourceOK(m)
    PROVE  LET rd == FormsOf(m, "register") \o FormsOf(m, "direct") IN
           /\ rd \in Seq(Form) /\ Len(rd) <= Len(RegisterForms(m))
           /\ \A i \in 1..Len(rd) : RegisterForms(m)[i] = rd[i] /\ rd[i].sort \in {"register", "direct"}
           /\ \A i \in (Len(rd) + 1)..Len(RegisterForms(m)) : RegisterForms(m)[i].sort = "declaration"
  <1> DEFINE r == FormsOf(m, "register")
             d == FormsOf(m, "direct")
             c == FormsOf(m, "declaration")
             rd == r \o d
             all == RegisterForms(m)
  <1>1. /\ r \in Seq(Form) /\ d \in Seq(Form) /\ c \in Seq(Form)
        /\ Len(r) \in Nat /\ Len(d) \in Nat /\ Len(c) \in Nat
        /\ \A i \in 1..Len(r) : r[i].sort = "register"
        /\ \A i \in 1..Len(d) : d[i].sort = "direct"
        /\ \A i \in 1..Len(c) : c[i].sort = "declaration"
    BY FormsFacts, SortsFacts
  <1>2. all = rd \o c BY DEF RegisterForms
  <1> HIDE DEF r, d, c, all
  <1>3. /\ rd \in Seq(Form) /\ Len(rd) = Len(r) + Len(d)
        /\ \A i \in 1..Len(r) : rd[i] = r[i]
        /\ \A i \in 1..Len(d) : rd[Len(r) + i] = d[i]
    BY <1>1, Concatenation
  <1> HIDE DEF rd
  <1>4. /\ Len(all) = Len(rd) + Len(c)
        /\ \A i \in 1..Len(rd) : all[i] = rd[i]
        /\ \A i \in 1..Len(c) : all[Len(rd) + i] = c[i]
    <2>1. /\ Len(rd \o c) = Len(rd) + Len(c)
          /\ \A i \in 1..Len(rd) : (rd \o c)[i] = rd[i]
          /\ \A i \in 1..Len(c) : (rd \o c)[Len(rd) + i] = c[i]
      <3>1. \A x, y \in Seq(Form) :
               /\ Len(x \o y) = Len(x) + Len(y)
               /\ \A i \in 1..Len(x) : (x \o y)[i] = x[i]
               /\ \A i \in 1..Len(y) : (x \o y)[Len(x) + i] = y[i]
        BY Concatenation
      <3> QED BY <1>1, <1>3, <3>1
    <2> QED BY <1>2, <2>1
  <1>5. \A i \in 1..Len(rd) : rd[i].sort \in {"register", "direct"}
    <2> TAKE i \in 1..Len(rd)
    <2>1. CASE i <= Len(r) BY <1>1, <1>3, <2>1
    <2>2. CASE ~(i <= Len(r))
      <3>1. i - Len(r) \in 1..Len(d) /\ Len(r) + (i - Len(r)) = i BY <1>1, <1>3, <2>2
      <3> QED BY <1>1, <1>3, <3>1
    <2> QED BY <2>1, <2>2
  <1>6. \A i \in (Len(rd) + 1)..Len(all) : all[i].sort = "declaration"
    <2> TAKE i \in (Len(rd) + 1)..Len(all)
    <2>1. i - Len(rd) \in 1..Len(c) /\ Len(rd) + (i - Len(rd)) = i BY <1>1, <1>3, <1>4
    <2> QED BY <1>1, <1>4, <2>1
  <1>7. Len(rd) <= Len(all) BY <1>1, <1>3, <1>4
  <1> QED BY <1>3, <1>4, <1>5, <1>6, <1>7 DEF rd, r, d, all

LEMMA AssignTextWanted ==
    ASSUME NEW m, ModuleOK(m), NEW i \in DOMAIN m.assigns
    PROVE  AssignText(m.assigns[i], m) = WantedOf(FormsOf(m, "assign")[i])
  <1> DEFINE a == m.assigns[i]
             f == FormsOf(m, "assign")[i]
  <1>1. AssignOK(a, f, m) /\ SourceOK(m) /\ i \in DOMAIN FormsOf(m, "assign")
    <2>1. SourceOK(m) /\ AssignsOK(m) BY DEF ModuleOK, Written
    <2>2. "assign" \in FormSorts BY DEF FormSorts
    <2> QED BY <2>1, <2>2, FormsFacts, ModuleFacts DEF AssignsOK
  <1>2. f.sort = "assign" BY <1>1, SortsFacts DEF SourceOK, FormSorts
  <1>3. a.dest \in 0..(Len(m.ports) - 1) /\ m.ports[a.dest + 1].name = f.dest BY <1>1 DEF AssignOK
  <1>4. NameOf(a.dest, m) = f.dest
    <2>1. Len(m.ports) \in Nat BY ModuleFacts
    <2>2. \A n \in Nat : \A x \in 0..(n - 1) : x < n OBVIOUS
    <2>3. IsPort(a.dest, m.ports) BY <1>3, <2>1, <2>2 DEF IsPort
    <2> QED BY <1>3, <2>3 DEF NameOf, SignalName
  <1>5. a.value \in Lowered(f.value, m.ports[a.dest + 1].ty, m) BY <1>1, ModuleFacts DEF AssignOK
  <1>6. Read(a.value, m) = NamesIn(f.value) BY <1>5 DEF Lowered
  <1>7. WantedOf(f) = [driver |-> "assign", writes |-> {f.dest}, reads |-> NamesIn(f.value)]
    BY <1>2 DEF WantedOf
  <1> QED BY <1>4, <1>6, <1>7 DEF AssignText

LEMMA RegisterTextWanted ==
    ASSUME NEW m, ModuleOK(m), NEW i \in DOMAIN m.registers
    PROVE  /\ RegisterForms(m)[i].sort = "declaration" => m.clocking[i] = NoClock
           /\ RegisterForms(m)[i].sort # "declaration" =>
                 m.clocking[i] # NoClock /\ RegisterText(i, m) = WantedOf(RegisterForms(m)[i])
  <1> DEFINE c == m.clocking[i]
             f == RegisterForms(m)[i]
             ty == m.registers[i].ty
  <1>1. ClockingOK(c, f, ty, m) BY ModuleFacts DEF ModuleOK, Written, ClocksOK
  <1>2. f.sort = "declaration" => c = NoClock BY <1>1 DEF ClockingOK
  <1>3. ASSUME f.sort # "declaration"
        PROVE  c # NoClock /\ RegisterText(i, m) = WantedOf(f)
    <2>1. ClockOK(c, f, ty, m) BY <1>1, <1>3, ModuleFacts DEF ClockingOK
    <2>2. m.registers[i].name = f.name BY DEF ModuleOK, Written, RegistersOK
    <2>3. RegisterText(i, m) = ClockText(c, m.registers[i].name, m) BY DEF RegisterText, ClockText
    <2> QED BY <2>1, <2>2, <2>3 DEF ClockOK
  <1> QED BY <1>2, <1>3

LEMMA BlockTextWanted ==
    ASSUME NEW m, ModuleOK(m), NEW i \in DOMAIN m.blocks
    PROVE  BlockText(m.blocks[i], m) = WantedOf(FormsOf(m, "clocked")[i])
  <1> DEFINE b == m.blocks[i]
             f == FormsOf(m, "clocked")[i]
  <1>1. BlockOK(b, f, m) /\ StmtOK(f.body, b.body, m) BY BlockFacts
  <1>2. f \in Form /\ f.sort = "clocked"
    <2>1. SourceOK(m) /\ BlocksOK(m) BY DEF ModuleOK, Written
    <2>2. "clocked" \in FormSorts BY DEF FormSorts
    <2> QED BY <2>1, <2>2, FormsFacts, ModuleFacts DEF BlocksOK
  <1>3. b.clock \in 0..(Len(m.ports) - 1) /\ m.ports[b.clock + 1].name = f.clock /\ b.edge = f.edge
    BY <1>1 DEF BlockOK
  <1>4. NameOf(b.clock, m) = f.clock
    <2>1. Len(m.ports) \in Nat BY ModuleFacts
    <2>2. \A n \in Nat : \A x \in 0..(n - 1) : x < n OBVIOUS
    <2>3. IsPort(b.clock, m.ports) BY <1>3, <2>1, <2>2 DEF IsPort
    <2> QED BY <1>3, <2>3 DEF NameOf, SignalName
  <1>5. Sensitivity(b.edge) = WantedEdge(f.edge)
    <2>1. f.edge \in {"rising", "falling"} BY <1>2, FormFacts DEF Edge
    <2> QED BY <1>3, <2>1 DEF Sensitivity, WantedEdge
  <1>6. StmtText(b.body, m) = Wanted(f.body) BY <1>1 DEF StmtOK
  <1>7. WantedOf(f) = [driver |-> "always", edge |-> WantedEdge(f.edge), clock |-> f.clock,
                       writes |-> Wanted(f.body).writes, reads |-> Wanted(f.body).reads]
    BY <1>2 DEF WantedOf
  <1>8. BlockText(b, m) = [driver |-> "always", edge |-> Sensitivity(b.edge), clock |-> NameOf(b.clock, m),
                           writes |-> StmtText(b.body, m).writes, reads |-> StmtText(b.body, m).reads]
    BY DEF BlockText
  <1> QED BY <1>4, <1>5, <1>6, <1>7, <1>8

\* The drivers of a module's source.
DriverForms(m) ==
    FormsOf(m, "assign") \o FormsOf(m, "register") \o FormsOf(m, "direct") \o FormsOf(m, "clocked")

LEMMA DrivesWanted ==
    ASSUME NEW m, ModuleOK(m)
    PROVE  ModuleText(m).drives = [i \in DOMAIN DriverForms(m) |-> WantedOf(DriverForms(m)[i])]
  <1> DEFINE g == [f \in Form |-> WantedOf(f)]
             Y == {WantedOf(f) : f \in Form}
             fa == FormsOf(m, "assign")
             rd == FormsOf(m, "register") \o FormsOf(m, "direct")
             fc == FormsOf(m, "clocked")
             as == [i \in DOMAIN m.assigns |-> AssignText(m.assigns[i], m)]
             own(i) == IF m.clocking[i] = NoClock THEN <<>> ELSE <<RegisterText(i, m)>>
             seqs == [i \in DOMAIN m.registers |-> own(i)]
             rs == FlattenSeq(seqs)
             bs == [i \in DOMAIN m.blocks |-> BlockText(m.blocks[i], m)]
             n == Len(m.registers)
  <1>1. SourceOK(m) /\ RegistersOK(m) /\ AssignsOK(m) /\ BlocksOK(m) BY DEF ModuleOK, Written
  <1>2. /\ fa \in Seq(Form) /\ DOMAIN fa = 1..Len(fa) /\ Len(m.assigns) = Len(fa)
        /\ fc \in Seq(Form) /\ DOMAIN fc = 1..Len(fc) /\ Len(m.blocks) = Len(fc)
        /\ FormsOf(m, "register") \in Seq(Form) /\ FormsOf(m, "direct") \in Seq(Form)
    BY <1>1, FormsFacts, SortsFacts DEF AssignsOK, BlocksOK, FormSorts
  <1>3. ModuleText(m).drives = as \o rs \o bs BY DEF ModuleText
  <1>4. g \in [Form -> Y] /\ \A f \in Form : g[f] = WantedOf(f) OBVIOUS
  <1> HIDE DEF g, Y
  <1>5. MappedBy(as, g, fa)
    <2>1. DOMAIN m.assigns = DOMAIN fa BY <1>2, ModuleFacts
    <2>2. \A i \in DOMAIN fa : fa[i] \in Form BY <1>2
    <2>3. \A i \in DOMAIN fa : AssignText(m.assigns[i], m) = g[fa[i]]
      BY <1>4, <2>1, <2>2, AssignTextWanted
    <2> QED BY <2>1, <2>3 DEF MappedBy
  <1>6. MappedBy(bs, g, fc)
    <2>1. DOMAIN m.blocks = DOMAIN fc BY <1>2, ModuleFacts
    <2>2. \A i \in DOMAIN fc : fc[i] \in Form BY <1>2
    <2>3. \A i \in DOMAIN fc : BlockText(m.blocks[i], m) = g[fc[i]]
      BY <1>4, <2>1, <2>2, BlockTextWanted
    <2> QED BY <2>1, <2>3 DEF MappedBy
  <1>7. MappedBy(rs, g, rd)
    <2> DEFINE l == Len(rd)
               h == [i \in 1..l |-> g[rd[i]]]
               all == RegisterForms(m)
    <2>1. /\ rd \in Seq(Form) /\ l <= Len(all)
          /\ \A i \in 1..l : all[i] = rd[i] /\ rd[i].sort \in {"register", "direct"}
          /\ \A i \in (l + 1)..Len(all) : all[i].sort = "declaration"
      BY <1>1, RegisterFormsSorts
    <2>2. n = Len(all) /\ n \in Nat /\ DOMAIN m.registers = 1..n
      BY <1>1, ModuleFacts DEF RegistersOK
    <2> HIDE DEF rd, all, n
    <2>3. l \in 0..n /\ DOMAIN rd = 1..l /\ \A i \in 1..l : rd[i] \in Form BY <2>1, <2>2
    <2> HIDE DEF l
    <2>4. \A i \in 1..l : g[rd[i]] \in Y BY <1>4, <2>3
    <2>5. h \in [1..l -> Y] BY <2>4
    <2>6. \A i \in 1..l : own(i) = <<h[i]>>
      <3> TAKE i \in 1..l
      <3>1. i \in DOMAIN m.registers BY <2>2, <2>3
      <3>2. all[i] = rd[i] /\ rd[i].sort # "declaration" BY <2>1 DEF l
      <3>3. m.clocking[i] # NoClock /\ RegisterText(i, m) = WantedOf(rd[i])
        BY <3>1, <3>2, RegisterTextWanted DEF all
      <3>4. h[i] = WantedOf(rd[i]) BY <1>4, <2>3
      <3> QED BY <3>3, <3>4
    <2>7. \A i \in (l + 1)..n : own(i) = <<>>
      <3> TAKE i \in (l + 1)..n
      <3>1. i \in DOMAIN m.registers BY <2>2, <2>3
      <3>2. all[i].sort = "declaration" BY <2>1, <2>2 DEF l
      <3>3. m.clocking[i] = NoClock BY <3>1, <3>2, RegisterTextWanted DEF all
      <3> QED BY <3>3
    <2>8. seqs \in [1..n -> Seq(Y)]
      <3>1. \A i \in 1..n : own(i) \in Seq(Y)
        <4> TAKE i \in 1..n
        <4>1. i \in 1..l \/ i \in (l + 1)..n BY <2>2, <2>3
        <4>2. CASE i \in 1..l
          <5>1. h[i] \in Y BY <2>5, <4>2
          <5>2. \A y \in Y : <<y>> \in Seq(Y) OBVIOUS
          <5> HIDE DEF own, h
          <5>3. own(i) = <<h[i]>> BY <2>6, <4>2
          <5> QED BY <5>1, <5>2, <5>3
        <4>3. CASE i \in (l + 1)..n
          <5>1. <<>> \in Seq(Y) OBVIOUS
          <5> HIDE DEF own
          <5>2. own(i) = <<>> BY <2>7, <4>3
          <5> QED BY <5>1, <5>2
        <4> QED BY <4>1, <4>2, <4>3
      <3> HIDE DEF own
      <3> QED BY <2>2, <3>1
    <2>9. \A i \in 1..n : seqs[i] = own(i) BY <2>2
    <2> HIDE DEF own, seqs, h
    <2>10. \A i \in 1..l : seqs[i] = <<h[i]>>
      <3>1. \A i \in 1..l : i \in 1..n BY <2>2, <2>3
      <3> QED BY <2>6, <2>9, <3>1
    <2>11. \A i \in (l + 1)..n : seqs[i] = <<>>
      <3> TAKE i \in (l + 1)..n
      <3>1. i \in 1..n BY <2>2, <2>3
      <3>2. own(i) = <<>> BY <2>7
      <3>3. seqs[i] = own(i) BY <2>9, <3>1
      <3> QED BY <3>2, <3>3
    <2>12. rs = h
      <3>1. n \in Nat /\ l \in 0..n BY <2>2, <2>3
      <3>2. h \in [1..l -> Y] /\ seqs \in [1..n -> Seq(Y)] BY <2>5, <2>8
      <3>3. SinglesOf(seqs, h, Y, l, n) BY <3>1, <3>2, <2>10, <2>11 DEF SinglesOf
      <3>4. FlattenSeq(seqs) = h BY <3>3, FlattenSingles
      <3> QED BY <3>4
    <2>13. h = [i \in DOMAIN rd |-> g[rd[i]]] BY <2>3 DEF h
    <2> QED BY <2>12, <2>13 DEF MappedBy
  <1> HIDE DEF as, bs, rs
  <1>8. rd \in Seq(Form) BY <1>2, Concatenation
  <1> HIDE DEF fa, rd, fc
  <1>9. MappedBy(as \o rs, g, fa \o rd) BY <1>2, <1>4, <1>5, <1>7, <1>8, MapConcat
  <1>10. fa \o rd \in Seq(Form) BY <1>2, <1>8
  <1>11. MappedBy(as \o rs \o bs, g, fa \o rd \o fc) BY <1>2, <1>4, <1>6, <1>9, <1>10, MapConcat
  <1>12. fa \o rd \o fc = DriverForms(m)
    <2> DEFINE r == FormsOf(m, "register")
               d == FormsOf(m, "direct")
    <2>1. rd = r \o d /\ DriverForms(m) = ((fa \o r) \o d) \o fc BY DEF rd, fa, fc, DriverForms
    <2>2. r \in Seq(Form) /\ d \in Seq(Form) BY <1>2
    <2> HIDE DEF r, d
    <2>3. fa \o (r \o d) = (fa \o r) \o d
      <3>1. \A x, y, z \in Seq(Form) : x \o (y \o z) = (x \o y) \o z
        <4> HIDE DEF Form
        <4> QED OBVIOUS
      <3> QED BY <1>2, <2>2, <3>1
    <2> QED BY <2>1, <2>3
  <1> DEFINE forms == DriverForms(m)
  <1>13. forms \in Seq(Form) /\ MappedBy(ModuleText(m).drives, g, forms)
    <2>1. fa \o rd \o fc \in Seq(Form) BY <1>2, <1>10
    <2> QED BY <1>3, <1>11, <1>12, <2>1
  <1> HIDE DEF forms
  <1>14. \A i \in DOMAIN forms : g[forms[i]] = WantedOf(forms[i]) BY <1>4, <1>13
  <1>15. ModuleText(m).drives = [i \in DOMAIN forms |-> WantedOf(forms[i])]
    BY <1>13, <1>14 DEF MappedBy
  <1> QED BY <1>15 DEF forms

\* The drivers that are emitted are those of the source, in its order, each with
\* the clock, destinations and operands it was written with.
THEOREM WrittenIsEmitted == Spec => []EmittedAsWritten
  <1>1. TypeInv /\ WrittenInv => EmittedAsWritten
    <2> SUFFICES ASSUME WrittenInv, phase = "emitted", NEW k \in DOMAIN text
                 PROVE  text[k].drives
                          = [i \in DOMAIN DriverForms(design[k]) |-> WantedOf(DriverForms(design[k])[i])]
      BY DEF EmittedAsWritten, DriverForms
    <2>1. text = [j \in DOMAIN design |-> ModuleText(design[j])] BY DEF WrittenInv, Concluded
    <2>2. k \in DOMAIN design /\ text[k] = ModuleText(design[k]) BY <2>1
    <2>3. ModuleOK(design[k]) BY <2>2 DEF WrittenInv
    <2> QED BY <2>2, <2>3, DrivesWanted
  <1> QED BY <1>1, WrittenInvariance, PTL


-----------------------------------------------------------------------------
(* The nets that are declared *)

LEMMA ConcatRange ==
    ASSUME NEW S, NEW a \in Seq(S), NEW b \in Seq(S)
    PROVE  Range(a \o b) = Range(a) \cup Range(b)
  <1>1. /\ Len(a) \in Nat /\ Len(b) \in Nat /\ DOMAIN a = 1..Len(a) /\ DOMAIN b = 1..Len(b)
        /\ DOMAIN (a \o b) = 1..(Len(a) + Len(b))
        /\ \A i \in 1..(Len(a) + Len(b)) : (a \o b)[i] = IF i <= Len(a) THEN a[i] ELSE b[i - Len(a)]
    OBVIOUS
  <1> DEFINE c == a \o b
  <1>2. DOMAIN c = 1..(Len(a) + Len(b)) /\ \A i \in 1..(Len(a) + Len(b)) :
            c[i] = IF i <= Len(a) THEN a[i] ELSE b[i - Len(a)]
    BY <1>1
  <1> HIDE DEF c
  <1>3. ASSUME NEW i \in DOMAIN a PROVE a[i] \in Range(c)
    <2>1. i \in DOMAIN c /\ i <= Len(a) BY <1>1, <1>2
    <2>2. c[i] = a[i] BY <1>2, <2>1
    <2> QED BY <2>1, <2>2 DEF Range
  <1>4. ASSUME NEW i \in DOMAIN b PROVE b[i] \in Range(c)
    <2>1. Len(a) + i \in 1..(Len(a) + Len(b)) /\ ~(Len(a) + i <= Len(a)) /\ (Len(a) + i) - Len(a) = i
      BY <1>1
    <2>2. c[Len(a) + i] = b[i] BY <1>2, <2>1
    <2> QED BY <1>2, <2>1, <2>2 DEF Range
  <1>5. ASSUME NEW i \in DOMAIN c PROVE c[i] \in Range(a) \cup Range(b)
    <2>1. CASE i <= Len(a)
      <3>1. i \in DOMAIN a /\ c[i] = a[i] BY <1>1, <1>2, <2>1
      <3> QED BY <3>1 DEF Range
    <2>2. CASE ~(i <= Len(a))
      <3>1. i - Len(a) \in DOMAIN b /\ c[i] = b[i - Len(a)] BY <1>1, <1>2, <2>2
      <3> QED BY <3>1 DEF Range
    <2> QED BY <2>1, <2>2
  <1>6. Range(c) = Range(a) \cup Range(b) BY <1>3, <1>4, <1>5 DEF Range
  <1> QED BY <1>6 DEF c

LEMMA FlattenRange ==
    ASSUME NEW S, NEW n \in Nat, NEW seqs \in [1..n -> Seq(S)], NEW k \in 1..n
    PROVE  Range(seqs[k]) \subseteq Range(FlattenSeq(seqs))
  <1> SUFFICES ASSUME NEW x \in Range(seqs[k]) PROVE x \in Range(FlattenSeq(seqs))
    OBVIOUS
  <1>1. PICK f : Flattening(f, seqs, S, n) /\ FlattenSeq(seqs) = f[n] BY FlattenSteps
  <1>2. /\ f \in [0..n -> Seq(S)]
        /\ \A i \in 1..n : f[i] = f[i - 1] \o seqs[i]
    BY <1>1 DEF Flattening
  <1> DEFINE P == {j \in 0..n : j >= k => x \in Range(f[j])}
  <1>3. 0 \in P OBVIOUS
  <1>4. ASSUME NEW j \in 0..(n - 1), j \in P PROVE j + 1 \in P
    <2>1. j \in 0..n /\ j + 1 \in 1..n /\ j + 1 \in 0..n /\ (j + 1) - 1 = j OBVIOUS
    <2>2. f[j + 1] = f[j] \o seqs[j + 1] /\ f[j] \in Seq(S) /\ seqs[j + 1] \in Seq(S) BY <1>2, <2>1
    <2>3. Range(f[j + 1]) = Range(f[j]) \cup Range(seqs[j + 1])
      <3>1. \A a, b \in Seq(S) : Range(a \o b) = Range(a) \cup Range(b) BY ConcatRange
      <3> QED BY <2>2, <3>1
    <2>4. CASE j + 1 = k BY <2>1, <2>3, <2>4
    <2>5. CASE j + 1 # k
      <3>1. j + 1 >= k => j >= k BY <2>5
      <3> QED BY <1>4, <2>1, <2>3, <3>1
    <2> QED BY <2>4, <2>5
  <1>5. n \in P
    <2> HIDE DEF P
    <2> QED BY <1>3, <1>4, UpTo
  <1>6. n >= k OBVIOUS
  <1> QED BY <1>1, <1>5, <1>6

EachMapped(images, g, seqs, n) == \A i \in 1..n : MappedBy(images[i], g, seqs[i])

LEMMA FlattenMapped ==
    ASSUME NEW X, NEW Y, NEW g \in [X -> Y], NEW n \in Nat,
           NEW seqs \in [1..n -> Seq(X)], NEW images \in [1..n -> Seq(Y)],
           EachMapped(images, g, seqs, n)
    PROVE  MappedBy(FlattenSeq(images), g, FlattenSeq(seqs))
  <1>1. PICK p : Flattening(p, seqs, X, n) /\ FlattenSeq(seqs) = p[n] BY FlattenSteps
  <1>2. PICK q : Flattening(q, images, Y, n) /\ FlattenSeq(images) = q[n] BY FlattenSteps
  <1>3. /\ p \in [0..n -> Seq(X)] /\ p[0] = <<>> /\ q[0] = <<>>
        /\ \A i \in 1..n : p[i] = p[i - 1] \o seqs[i]
        /\ \A i \in 1..n : q[i] = q[i - 1] \o images[i]
    BY <1>1, <1>2 DEF Flattening
  <1> DEFINE P == {j \in 0..n : MappedBy(q[j], g, p[j])}
  <1>4. 0 \in P
    <2>1. <<>> = [i \in DOMAIN <<>> |-> g[<<>>[i]]] OBVIOUS
    <2>2. 0 \in 0..n OBVIOUS
    <2> QED BY <1>3, <2>1, <2>2 DEF MappedBy
  <1>5. ASSUME NEW j \in 0..(n - 1), j \in P PROVE j + 1 \in P
    <2>1. j \in 0..n /\ j + 1 \in 1..n /\ j + 1 \in 0..n /\ (j + 1) - 1 = j OBVIOUS
    <2>2. p[j + 1] = p[j] \o seqs[j + 1] /\ p[j] \in Seq(X) /\ seqs[j + 1] \in Seq(X) BY <1>3, <2>1
    <2>3. q[j + 1] = q[j] \o images[j + 1] BY <1>3, <2>1
    <2>4. MappedBy(q[j], g, p[j]) /\ MappedBy(images[j + 1], g, seqs[j + 1])
      BY <1>5, <2>1 DEF EachMapped
    <2>5. MappedBy(q[j] \o images[j + 1], g, p[j] \o seqs[j + 1]) BY <2>2, <2>4, MapConcat
    <2> QED BY <2>1, <2>2, <2>3, <2>5
  <1>6. n \in P
    <2> HIDE DEF P
    <2> QED BY <1>4, <1>5, UpTo
  <1> QED BY <1>1, <1>2, <1>6

\* The parts that Nets puts together.
Net == [name : Names, net : {"input", "wire", "logic", "localparam"}]
PortNets(m) ==
    [i \in DOMAIN m.ports |-> [name |-> m.ports[i].name, net |-> PortNet(m.ports[i], m)]]
ConstantNames(m) == FlattenSeq([i \in DOMAIN m.enums |-> m.enums[i].names])
ConstantNet(name) == [name |-> name, net |-> "localparam"]
ConstantNets(m) == [i \in DOMAIN ConstantNames(m) |-> ConstantNet(ConstantNames(m)[i])]
Variable(name) == [name |-> name, net |-> "logic"]
RegisterNets(m) ==
    FlattenSeq([i \in DOMAIN m.registers |->
        IF IsPortName(m.registers[i].name, m) THEN <<>> ELSE <<Variable(m.registers[i].name)>>])
RegisterNetNames(m) ==
    FlattenSeq([i \in DOMAIN m.registers |->
        IF IsPortName(m.registers[i].name, m) THEN <<>> ELSE <<m.registers[i].name>>])
NetName == [x \in Net |-> x.name]

LEMMA NetFacts ==
    /\ NetName \in [Net -> Names] /\ \A x \in Net : NetName[x] = x.name
    /\ \A n \in Names : ConstantNet(n) \in Net /\ ConstantNet(n).name = n
    /\ \A n \in Names : Variable(n) \in Net /\ Variable(n).name = n /\ Variable(n).net = "logic"
  BY DEF Net, NetName, ConstantNet, Variable

LEMMA PortNetsFacts ==
    ASSUME NEW m, ModuleOK(m)
    PROVE  /\ PortNets(m) \in Seq(Net)
           /\ MappedBy([i \in DOMAIN m.ports |-> m.ports[i].name], NetName, PortNets(m))
  <1>1. \A i \in DOMAIN m.ports : m.ports[i].name \in Names
    <2>1. \A p \in Port : p.name \in Names BY DEF Port
    <2> QED BY <2>1, ModuleFacts
  <1>2. \A i \in DOMAIN m.ports : PortNet(m.ports[i], m) \in {"input", "wire", "logic", "localparam"}
    BY DEF PortNet
  <1>3. \A i \in DOMAIN m.ports : PortNets(m)[i] \in Net /\ NetName[PortNets(m)[i]] = m.ports[i].name
    BY <1>1, <1>2 DEF PortNets, Net, NetName
  <1>4. DOMAIN PortNets(m) = DOMAIN m.ports BY DEF PortNets
  <1>5. PortNets(m) \in Seq(Net)
    <2>1. Len(m.ports) \in Nat /\ DOMAIN m.ports = 1..Len(m.ports) BY ModuleFacts
    <2>2. PortNets(m) \in [1..Len(m.ports) -> Net] BY <1>3, <1>4, <2>1 DEF PortNets
    <2> HIDE DEF Net
    <2> QED BY <2>1, <2>2
  <1> QED BY <1>3, <1>4, <1>5 DEF MappedBy

LEMMA ConstantNetsFacts ==
    ASSUME NEW m, ModuleOK(m)
    PROVE  /\ ConstantNames(m) \in Seq(Names) /\ ConstantNets(m) \in Seq(Net)
           /\ MappedBy(ConstantNames(m), NetName, ConstantNets(m))
           /\ \A i \in DOMAIN m.enums : \A j \in DOMAIN m.enums[i].names :
                 ConstantNet(m.enums[i].names[j]) \in Range(ConstantNets(m))
  <1> DEFINE k == Len(m.enums)
             seqs == [i \in DOMAIN m.enums |-> m.enums[i].names]
             c == ConstantNames(m)
  <1>1. k \in Nat /\ DOMAIN m.enums = 1..k BY ModuleFacts
  <1>2. \A i \in DOMAIN m.enums : m.enums[i].names \in Seq(Names)
    BY DEF ModuleOK, Written, EnumsOK, EnumTyped
  <1>3. seqs \in [1..k -> Seq(Names)] /\ \A i \in 1..k : seqs[i] = m.enums[i].names BY <1>1, <1>2
  <1>4. c = FlattenSeq(seqs) BY DEF ConstantNames
  <1> HIDE DEF k, seqs, c
  <1>5. c \in Seq(Names) BY <1>1, <1>3, <1>4, FlattenType
  <1>6. Len(c) \in Nat /\ DOMAIN c = 1..Len(c) /\ \A i \in DOMAIN c : c[i] \in Names BY <1>5
  <1>7. /\ ConstantNets(m) = [i \in DOMAIN c |-> ConstantNet(c[i])]
        /\ DOMAIN ConstantNets(m) = DOMAIN c
        /\ \A i \in DOMAIN c : ConstantNets(m)[i] = ConstantNet(c[i])
    BY DEF ConstantNets, c
  <1>8. ConstantNets(m) \in Seq(Net)
    <2>1. \A i \in DOMAIN c : ConstantNet(c[i]) \in Net BY <1>6, NetFacts
    <2>2. ConstantNets(m) \in [1..Len(c) -> Net] BY <1>6, <1>7, <2>1
    <2> QED BY <1>6, <2>2
  <1>9. MappedBy(c, NetName, ConstantNets(m))
    <2>1. \A i \in DOMAIN c : NetName[ConstantNets(m)[i]] = c[i] BY <1>6, <1>7, NetFacts
    <2>2. c = [i \in DOMAIN c |-> c[i]] BY <1>5
    <2>3. c = [i \in DOMAIN ConstantNets(m) |-> NetName[ConstantNets(m)[i]]] BY <1>7, <2>1, <2>2
    <2> QED BY <2>3 DEF MappedBy
  <1>10. ASSUME NEW i \in DOMAIN m.enums, NEW j \in DOMAIN m.enums[i].names
         PROVE  ConstantNet(m.enums[i].names[j]) \in Range(ConstantNets(m))
    <2>1. i \in 1..k /\ seqs[i] = m.enums[i].names BY <1>1, <1>3
    <2>2. m.enums[i].names[j] \in Range(seqs[i]) BY <2>1 DEF Range
    <2>3. Range(seqs[i]) \subseteq Range(c) BY <1>1, <1>3, <1>4, <2>1, FlattenRange
    <2>4. PICK l \in DOMAIN c : c[l] = m.enums[i].names[j] BY <2>2, <2>3 DEF Range
    <2> QED BY <1>7, <2>4 DEF Range
  <1> QED BY <1>5, <1>8, <1>9, <1>10 DEF c

LEMMA RegisterNetsFacts ==
    ASSUME NEW m, ModuleOK(m)
    PROVE  /\ RegisterNets(m) \in Seq(Net)
           /\ MappedBy(RegisterNetNames(m), NetName, RegisterNets(m))
           /\ \A i \in DOMAIN m.registers : ~IsPortName(m.registers[i].name, m) =>
                 Variable(m.registers[i].name) \in Range(RegisterNets(m))
  <1> DEFINE k == Len(m.registers)
             net(i) == IF IsPortName(m.registers[i].name, m) THEN <<>>
                       ELSE <<Variable(m.registers[i].name)>>
             name(i) == IF IsPortName(m.registers[i].name, m) THEN <<>> ELSE <<m.registers[i].name>>
             seqs == [i \in DOMAIN m.registers |-> net(i)]
             images == [i \in DOMAIN m.registers |-> name(i)]
  <1>1. k \in Nat /\ DOMAIN m.registers = 1..k /\ \A i \in 1..k : m.registers[i].name \in Names
    BY ModuleFacts
  <1>2. \A i \in 1..k : Variable(m.registers[i].name) \in Net /\
                        NetName[Variable(m.registers[i].name)] = m.registers[i].name
    BY <1>1, NetFacts
  <1>3. \A x : (<<>> \in Seq(Net)) /\ (x \in Net => <<x>> \in Seq(Net)) OBVIOUS
  <1>4. \A x : (<<>> \in Seq(Names)) /\ (x \in Names => <<x>> \in Seq(Names)) OBVIOUS
  <1>5. \A i \in 1..k : net(i) \in Seq(Net) BY <1>2, <1>3
  <1>6. \A i \in 1..k : name(i) \in Seq(Names) BY <1>1, <1>4
  <1>7. \A i \in 1..k : MappedBy(name(i), NetName, net(i))
    <2> TAKE i \in 1..k
    <2>1. CASE IsPortName(m.registers[i].name, m)
      <3>1. <<>> = [j \in DOMAIN <<>> |-> NetName[<<>>[j]]] OBVIOUS
      <3> QED BY <2>1, <3>1 DEF MappedBy
    <2>2. CASE ~IsPortName(m.registers[i].name, m)
      <3>1. \A x, y : NetName[x] = y => <<y>> = [j \in DOMAIN <<x>> |-> NetName[<<x>>[j]]] OBVIOUS
      <3> QED BY <1>2, <2>2, <3>1 DEF MappedBy
    <2> QED BY <2>1, <2>2
  <1>8. /\ seqs \in [1..k -> Seq(Net)] /\ images \in [1..k -> Seq(Names)]
        /\ \A i \in 1..k : seqs[i] = net(i) /\ images[i] = name(i)
    <2> HIDE DEF net, name
    <2> QED BY <1>1, <1>5, <1>6
  <1>9. RegisterNets(m) = FlattenSeq(seqs) /\ RegisterNetNames(m) = FlattenSeq(images)
    BY DEF RegisterNets, RegisterNetNames
  <1>10. ASSUME NEW i \in DOMAIN m.registers, ~IsPortName(m.registers[i].name, m)
         PROVE  Variable(m.registers[i].name) \in Range(seqs[i])
    <2>1. \A x : x \in Range(<<x>>) BY DEF Range
    <2>2. seqs[i] = <<Variable(m.registers[i].name)>> BY <1>1, <1>8, <1>10
    <2> QED BY <2>1, <2>2
  <1> HIDE DEF k, seqs, images
  <1>11. RegisterNets(m) \in Seq(Net) BY <1>1, <1>8, <1>9, FlattenType
  <1>12. MappedBy(RegisterNetNames(m), NetName, RegisterNets(m))
    <2>1. NetName \in [Net -> Names] BY NetFacts
    <2>2. EachMapped(images, NetName, seqs, k)
      <3> HIDE DEF net, name
      <3> QED BY <1>7, <1>8 DEF EachMapped
    <2>3. seqs \in [1..k -> Seq(Net)] /\ images \in [1..k -> Seq(Names)] BY <1>8
    <2>4. MappedBy(FlattenSeq(images), NetName, FlattenSeq(seqs))
      BY <1>1, <2>1, <2>2, <2>3, FlattenMapped
    <2> QED BY <1>9, <2>4
  <1>13. \A i \in DOMAIN m.registers : Range(seqs[i]) \subseteq Range(RegisterNets(m))
    <2> HIDE DEF net, name
    <2> QED BY <1>1, <1>8, <1>9, FlattenRange
  <1> QED BY <1>10, <1>11, <1>12, <1>13


\* The declarations are those of DeclaredNames, and all that was put together.
LEMMA NetsFacts ==
    ASSUME NEW m, ModuleOK(m)
    PROVE  /\ Nets(m) \in Seq(Net)
           /\ DeclaredNames(m) = [i \in DOMAIN Nets(m) |-> Nets(m)[i].name]
           /\ Range(Nets(m)) = Range(PortNets(m)) \cup Range(ConstantNets(m)) \cup Range(RegisterNets(m))
  <1> DEFINE p == PortNets(m)
             c == ConstantNets(m)
             r == RegisterNets(m)
             pn == [i \in DOMAIN m.ports |-> m.ports[i].name]
             cn == ConstantNames(m)
             rn == RegisterNetNames(m)
             all == Nets(m)
  <1>1. all = p \o (c \o r)
    BY DEF Nets, PortNets, ConstantNets, RegisterNets, ConstantNames, ConstantNet, Variable
  <1>2. DeclaredNames(m) = (pn \o cn) \o rn BY DEF DeclaredNames, ConstantNames, RegisterNetNames
  <1>3. p \in Seq(Net) /\ c \in Seq(Net) /\ r \in Seq(Net)
    BY PortNetsFacts, ConstantNetsFacts, RegisterNetsFacts
  <1>4. MappedBy(pn, NetName, p) /\ MappedBy(cn, NetName, c) /\ MappedBy(rn, NetName, r)
    BY PortNetsFacts, ConstantNetsFacts, RegisterNetsFacts
  <1> HIDE DEF p, c, r, pn, cn, rn
  <1>5. \A a, b \in Seq(Net) : a \o b \in Seq(Net) /\ Range(a \o b) = Range(a) \cup Range(b)
    BY Concatenation, ConcatRange
  <1>6. c \o r \in Seq(Net) /\ Range(c \o r) = Range(c) \cup Range(r) BY <1>3, <1>5
  <1>7. p \o (c \o r) \in Seq(Net) /\ Range(p \o (c \o r)) = Range(p) \cup Range(c \o r)
    BY <1>3, <1>5, <1>6
  <1>8. NetName \in [Net -> Names] BY NetFacts
  <1>9. MappedBy(cn \o rn, NetName, c \o r) BY <1>3, <1>4, <1>8, MapConcat
  <1>10. MappedBy(pn \o (cn \o rn), NetName, p \o (c \o r)) BY <1>3, <1>4, <1>6, <1>8, <1>9, MapConcat
  <1>11. (pn \o cn) \o rn = pn \o (cn \o rn)
    <2>1. \A s \in Seq(Net) : [i \in DOMAIN s |-> NetName[s[i]]] \in Seq(Names)
      <3> TAKE s \in Seq(Net)
      <3>1. Len(s) \in Nat /\ DOMAIN s = 1..Len(s) /\ \A i \in 1..Len(s) : s[i] \in Net OBVIOUS
      <3>2. [i \in 1..Len(s) |-> NetName[s[i]]] \in [1..Len(s) -> Names] BY <1>8, <3>1
      <3> QED BY <3>1, <3>2
    <2>2. pn \in Seq(Names) /\ cn \in Seq(Names) /\ rn \in Seq(Names)
      BY <1>3, <1>4, <2>1 DEF MappedBy
    <2>3. \A x, y, z \in Seq(Names) : (x \o y) \o z = x \o (y \o z) OBVIOUS
    <2> QED BY <2>2, <2>3
  <1> HIDE DEF all
  <1>12. all \in Seq(Net) /\ MappedBy(DeclaredNames(m), NetName, all) BY <1>1, <1>2, <1>7, <1>10, <1>11
  <1>13. Range(all) = Range(p) \cup Range(c) \cup Range(r) BY <1>1, <1>6, <1>7
  <1>14. \A i \in DOMAIN all : NetName[all[i]] = all[i].name
    <2>1. \A i \in DOMAIN all : all[i] \in Net BY <1>12
    <2> QED BY <2>1, NetFacts
  <1>15. DeclaredNames(m) = [i \in DOMAIN all |-> all[i].name] BY <1>12, <1>14 DEF MappedBy
  <1> QED BY <1>12, <1>13, <1>15 DEF all, p, c, r

\* A name that is declared has one net.
NetOf(m, name) == (CHOOSE n \in Range(Nets(m)) : n.name = name).net
DeclaredBy(m) == {n.name : n \in Range(Nets(m))}

\* The verifier compares a constant or register with every name before it; that
\* two ports have names of their own it takes from lowering.
LEMMA NamesApart ==
    ASSUME NEW m, ModuleOK(m), NamesChecked(m)
    PROVE  DistinctNames([i \in DOMAIN Nets(m) |-> Nets(m)[i].name])
  <1> DEFINE names == DeclaredNames(m)
             k == Len(m.ports)
  <1>1. names = [i \in DOMAIN Nets(m) |-> Nets(m)[i].name] /\ Nets(m) \in Seq(Net) BY NetsFacts
  <1>2. /\ k \in Nat /\ DOMAIN m.ports = 1..k
        /\ Len(Nets(m)) \in Nat /\ DOMAIN names = 1..Len(Nets(m))
    BY <1>1, ModuleFacts
  <1>3. ASSUME NEW i \in DOMAIN names, i <= k PROVE i \in DOMAIN m.ports /\ names[i] = m.ports[i].name
    <2> DEFINE rest == ConstantNets(m) \o RegisterNets(m)
    <2>1. Nets(m) = PortNets(m) \o rest
      BY DEF Nets, PortNets, ConstantNets, RegisterNets, ConstantNames, ConstantNet, Variable
    <2>2. PortNets(m) \in Seq(Net) /\ rest \in Seq(Net)
      <3>1. ConstantNets(m) \in Seq(Net) /\ RegisterNets(m) \in Seq(Net)
        BY ConstantNetsFacts, RegisterNetsFacts
      <3>2. rest \in Seq(Net) BY <3>1, Concatenation
      <3> QED BY <3>2, PortNetsFacts
    <2> HIDE DEF rest
    <2>3. DOMAIN PortNets(m) = 1..k BY <1>2 DEF PortNets
    <2>4. i \in 1..k /\ Len(PortNets(m)) = k BY <1>2, <1>3, <2>2, <2>3
    <2>5. Nets(m)[i] = PortNets(m)[i] BY <2>1, <2>2, <2>4
    <2>6. PortNets(m)[i].name = m.ports[i].name BY <1>2, <2>4 DEF PortNets
    <2> QED BY <1>1, <1>2, <2>4, <2>5, <2>6
  <1>4. \A i, j \in DOMAIN names : i < j /\ j > k => FoldCase[names[i]] # FoldCase[names[j]]
    BY DEF NamesChecked, NewNames
  <1> HIDE DEF names, k
  <1>5. ASSUME NEW i \in DOMAIN names, NEW j \in DOMAIN names, i < j
        PROVE  FoldCase[names[i]] # FoldCase[names[j]]
    <2>1. CASE j > k BY <1>4, <1>5, <2>1
    <2>2. CASE ~(j > k)
      <3>1. i <= k /\ j <= k /\ i # j BY <1>2, <1>5, <2>2
      <3>2. /\ i \in DOMAIN m.ports /\ names[i] = m.ports[i].name
            /\ j \in DOMAIN m.ports /\ names[j] = m.ports[j].name
        BY <1>3, <3>1
      <3> QED BY <3>1, <3>2 DEF ModuleOK, SignalsApart
    <2> QED BY <2>1, <2>2
  <1>6. \A i, j \in DOMAIN names : i # j => i < j \/ j < i BY <1>2
  <1>7. DistinctNames(names) BY <1>5, <1>6 DEF DistinctNames
  <1> QED BY <1>1, <1>7

LEMMA OneNet ==
    ASSUME NEW m, ModuleOK(m), NamesChecked(m), NEW x \in Range(Nets(m))
    PROVE  x.name \in DeclaredBy(m) /\ NetOf(m, x.name) = x.net
  <1>1. DistinctNames([i \in DOMAIN Nets(m) |-> Nets(m)[i].name]) BY NamesApart
  <1>2. \A i, j \in DOMAIN Nets(m) : Nets(m)[i].name = Nets(m)[j].name => i = j
    BY <1>1 DEF DistinctNames
  <1>3. \A y \in Range(Nets(m)) : y.name = x.name => y = x BY <1>2 DEF Range
  <1>4. (CHOOSE n \in Range(Nets(m)) : n.name = x.name) = x BY <1>3
  <1> QED BY <1>4 DEF NetOf, DeclaredBy

LEMMA PortNetOf ==
    ASSUME NEW m, ModuleOK(m), NamesChecked(m), NEW i \in DOMAIN m.ports
    PROVE  /\ m.ports[i].name \in DeclaredBy(m)
           /\ NetOf(m, m.ports[i].name) = PortNet(m.ports[i], m)
  <1> DEFINE x == PortNets(m)[i]
  <1>1. x.name = m.ports[i].name /\ x.net = PortNet(m.ports[i], m) BY DEF PortNets
  <1>2. x \in Range(PortNets(m)) BY DEF PortNets, Range
  <1>3. x \in Range(Nets(m)) BY <1>2, NetsFacts
  <1> HIDE DEF x
  <1> QED BY <1>1, <1>3, OneNet

LEMMA RegisterNetOf ==
    ASSUME NEW m, ModuleOK(m), NamesChecked(m), NEW i \in DOMAIN m.registers
    PROVE  /\ m.registers[i].name \in DeclaredBy(m)
           /\ NetOf(m, m.registers[i].name) = "logic"
  <1> DEFINE n == m.registers[i].name
  <1>1. CASE IsPortName(n, m)
    <2>1. PICK j \in DOMAIN m.ports : m.ports[j].name = n BY <1>1 DEF IsPortName
    <2>2. m.ports[j].direction = Output BY <2>1 DEF ModuleOK, SignalsApart
    <2>3. IsRegisterName(n, m) BY DEF IsRegisterName
    <2>4. PortNet(m.ports[j], m) = "logic" BY <2>1, <2>2, <2>3 DEF PortNet, Input, Output
    <2> QED BY <2>1, <2>4, PortNetOf
  <1>2. CASE ~IsPortName(n, m)
    <2>1. Variable(n) \in Range(Nets(m)) BY <1>2, RegisterNetsFacts, NetsFacts
    <2>2. n \in Names BY ModuleFacts
    <2>3. Variable(n).name = n /\ Variable(n).net = "logic" BY DEF Variable
    <2> QED BY <2>1, <2>3, OneNet
  <1> QED BY <1>1, <1>2

LEMMA SignalDeclared ==
    ASSUME NEW m, ModuleOK(m), NamesChecked(m)
    PROVE  Declared(m) \subseteq DeclaredBy(m)
  <1>1. ASSUME NEW id \in DOMAIN Typed(m).type PROVE NameOf(id, m) \in DeclaredBy(m)
    <2>1. /\ Len(m.ports) \in Nat /\ DOMAIN m.ports = 1..Len(m.ports)
          /\ Len(m.registers) \in Nat /\ DOMAIN m.registers = 1..Len(m.registers)
      BY ModuleFacts
    <2>2. id \in 0..(Len(m.ports) + Len(m.registers) - 1) BY DEF Typed
    <2>3. CASE id < Len(m.ports)
      <3>1. id + 1 \in DOMAIN m.ports BY <2>1, <2>2, <2>3
      <3>2. NameOf(id, m) = m.ports[id + 1].name BY <2>3 DEF NameOf, SignalName, IsPort
      <3> QED BY <3>1, <3>2, PortNetOf
    <2>4. CASE ~(id < Len(m.ports))
      <3>1. \A p, r \in Nat : \A x \in 0..(p + r - 1) : ~(x < p) => x - p + 1 \in 1..r
        OBVIOUS
      <3>2. id - Len(m.ports) + 1 \in DOMAIN m.registers BY <2>1, <2>2, <2>4, <3>1
      <3>3. NameOf(id, m) = m.registers[id - Len(m.ports) + 1].name
        BY <2>4 DEF NameOf, SignalName, IsPort
      <3> QED BY <3>2, <3>3, RegisterNetOf
    <2> QED BY <2>3, <2>4
  <1>2. SignalNames(m) \subseteq DeclaredBy(m) BY <1>1 DEF SignalNames
  <1>3. ASSUME NEW i \in DOMAIN m.enums, NEW j \in DOMAIN m.enums[i].values
        PROVE  m.enums[i].names[j] \in DeclaredBy(m)
    <2>1. EnumTyped(m.enums[i]) BY DEF ModuleOK, Written, EnumsOK
    <2>2. DOMAIN m.enums[i].names = DOMAIN m.enums[i].values BY <2>1 DEF EnumTyped
    <2> DEFINE n == m.enums[i].names[j]
    <2>3. ConstantNet(n) \in Range(ConstantNets(m)) BY <1>3, <2>2, ConstantNetsFacts
    <2>4. ConstantNet(n) \in Range(Nets(m)) BY <2>3, NetsFacts
    <2>5. ConstantNet(n).name = n BY DEF ConstantNet
    <2> QED BY <2>4, <2>5 DEF DeclaredBy
  <1> QED BY <1>2, <1>3 DEF Declared


\* What a driver reads and writes is declared, and of the right kind.
DriverDeclared(d, m) ==
    /\ d.reads \cup d.writes \subseteq DeclaredBy(m)
    /\ \A name \in d.writes :
          NetOf(m, name) = IF d.driver = "always" THEN "logic" ELSE "wire"
    /\ d.driver = "always" => d.clock \in DeclaredBy(m) /\ NetOf(m, d.clock) = "input"

LEMMA AssignDeclares ==
    ASSUME NEW d, NEW m, d.driver # "always", d.reads \subseteq DeclaredBy(m),
           \A n \in d.writes : n \in DeclaredBy(m) /\ NetOf(m, n) = "wire"
    PROVE  DriverDeclared(d, m)
  <1>1. d.reads \cup d.writes \subseteq DeclaredBy(m) OBVIOUS
  <1> QED BY <1>1 DEF DriverDeclared

LEMMA AlwaysDeclares ==
    ASSUME NEW d, NEW m, d.driver = "always", d.reads \subseteq DeclaredBy(m),
           \A n \in d.writes : n \in DeclaredBy(m) /\ NetOf(m, n) = "logic",
           d.clock \in DeclaredBy(m), NetOf(m, d.clock) = "input"
    PROVE  DriverDeclared(d, m)
  <1>1. d.reads \cup d.writes \subseteq DeclaredBy(m) OBVIOUS
  <1> QED BY <1>1 DEF DriverDeclared

LEMMA InputNet ==
    ASSUME NEW m, ModuleOK(m), NamesChecked(m), NEW id \in 0..(Len(m.ports) - 1),
           m.ports[id + 1].direction = Input
    PROVE  NameOf(id, m) \in DeclaredBy(m) /\ NetOf(m, NameOf(id, m)) = "input"
  <1>1. Len(m.ports) \in Nat /\ DOMAIN m.ports = 1..Len(m.ports) BY ModuleFacts
  <1>2. \A n \in Nat : \A x \in 0..(n - 1) : x < n /\ x + 1 \in 1..n OBVIOUS
  <1>3. id + 1 \in DOMAIN m.ports /\ id < Len(m.ports) BY <1>1, <1>2
  <1>4. NameOf(id, m) = m.ports[id + 1].name BY <1>3 DEF NameOf, SignalName, IsPort
  <1>5. PortNet(m.ports[id + 1], m) = "input" BY DEF PortNet
  <1> QED BY <1>3, <1>4, <1>5, PortNetOf

LEMMA RegisterNameNet ==
    ASSUME NEW m, ModuleOK(m), NamesChecked(m), NEW name \in RegisterNames(m)
    PROVE  name \in DeclaredBy(m) /\ NetOf(m, name) = "logic"
  <1> PICK i \in DOMAIN m.registers : m.registers[i].name = name BY DEF RegisterNames, IsRegisterName
  <1> QED BY RegisterNetOf

LEMMA AssignDeclared ==
    ASSUME NEW m, ModuleOK(m), NamesChecked(m), NEW i \in DOMAIN m.assigns
    PROVE  DriverDeclared(AssignText(m.assigns[i], m), m)
  <1> DEFINE a == m.assigns[i]
             d == AssignText(a, m)
             name == NameOf(a.dest, m)
  <1>1. AssignOK(a, FormsOf(m, "assign")[i], m) BY DEF ModuleOK, Written, AssignsOK
  <1>2. /\ a.dest \in 0..(Len(m.ports) - 1) /\ m.ports[a.dest + 1].direction = Output
        /\ ~IsRegisterName(m.ports[a.dest + 1].name, m)
        /\ a.value \in Good(m)
    BY <1>1, ModuleFacts DEF AssignOK, Lowered
  <1>3. Len(m.ports) \in Nat /\ DOMAIN m.ports = 1..Len(m.ports) BY ModuleFacts
  <1>4. \A n \in Nat : \A x \in 0..(n - 1) : x < n /\ x + 1 \in 1..n OBVIOUS
  <1>5. a.dest + 1 \in DOMAIN m.ports /\ a.dest < Len(m.ports) BY <1>2, <1>3, <1>4
  <1>6. name = m.ports[a.dest + 1].name BY <1>5 DEF NameOf, SignalName, IsPort
  <1>7. PortNet(m.ports[a.dest + 1], m) = "wire" BY <1>2 DEF PortNet, Input, Output
  <1>8. name \in DeclaredBy(m) /\ NetOf(m, name) = "wire" BY <1>5, <1>6, <1>7, PortNetOf
  <1>9. Read(a.value, m) \subseteq DeclaredBy(m) BY <1>2, ReadIsDeclared, SignalDeclared
  <1>10. d.driver = "assign" /\ d.writes = {name} /\ d.reads = Read(a.value, m) BY DEF AssignText
  <1>11. d.driver # "always" BY <1>10
  <1> HIDE DEF d, name
  <1>12. \A n \in d.writes : n \in DeclaredBy(m) /\ NetOf(m, n) = "wire" BY <1>8, <1>10
  <1>13. d.reads \subseteq DeclaredBy(m) BY <1>9, <1>10
  <1>14. DriverDeclared(d, m) BY <1>11, <1>12, <1>13, AssignDeclares
  <1> QED BY <1>14 DEF d

LEMMA RegisterDeclared ==
    ASSUME NEW m, ModuleOK(m), NamesChecked(m), NEW i \in DOMAIN m.registers,
           m.clocking[i] # NoClock
    PROVE  DriverDeclared(RegisterText(i, m), m)
  <1> DEFINE c == m.clocking[i]
             f == RegisterForms(m)[i]
             d == RegisterText(i, m)
  <1>1. ClockingOK(c, f, m.registers[i].ty, m) BY ModuleFacts DEF ModuleOK, Written, ClocksOK
  <1>2. ClockOK(c, f, m.registers[i].ty, m) BY <1>1, ModuleFacts DEF ClockingOK
  <1>3. /\ InputBit(c.clock, m) /\ c.next \in Good(m)
        /\ EnableOK(c.enable, m) /\ ResetOK(c.reset, m.registers[i].ty, m)
    BY <1>2 DEF ClockOK
  <1>4. NameOf(c.clock, m) \in DeclaredBy(m) /\ NetOf(m, NameOf(c.clock, m)) = "input"
    BY <1>3, InputNet DEF InputBit
  <1>5. m.registers[i].name \in DeclaredBy(m) /\ NetOf(m, m.registers[i].name) = "logic"
    BY RegisterNetOf
  <1>6. Read(c.next, m) \subseteq DeclaredBy(m) BY <1>3, ReadIsDeclared, SignalDeclared
  <1>7. \A k \in DOMAIN c.enable : Read(c.enable[k], m) \subseteq DeclaredBy(m)
    <2> TAKE k \in DOMAIN c.enable
    <2>1. c.enable # <<>> /\ DOMAIN <<>> = {} OBVIOUS
    <2>2. PICK e \in Good(m) : c.enable = <<e>> BY <1>3, <2>1 DEF EnableOK
    <2>3. \A x : DOMAIN <<x>> = {1} /\ <<x>>[1] = x OBVIOUS
    <2>4. c.enable[k] = e BY <2>2, <2>3
    <2> QED BY <2>4, ReadIsDeclared, SignalDeclared
  <1>8. \A k \in DOMAIN c.reset : Read(c.reset[k].value, m) \cup {NameOf(c.reset[k].signal, m)}
                                    \subseteq DeclaredBy(m)
    <2> TAKE k \in DOMAIN c.reset
    <2>1. c.reset # <<>> /\ DOMAIN <<>> = {} OBVIOUS
    <2>2. PICK r : c.reset = <<r>> /\ OneBit(r.signal, m) /\ r.value \in Good(m)
      BY <1>3, <2>1 DEF ResetOK
    <2>3. \A x : DOMAIN <<x>> = {1} /\ <<x>>[1] = x OBVIOUS
    <2>4. c.reset[k] = r BY <2>2, <2>3
    <2>5. NameOf(r.signal, m) \in Declared(m) BY <2>2 DEF OneBit, Declared, SignalNames
    <2>6. Read(r.value, m) \subseteq Declared(m) BY <2>2, ReadIsDeclared
    <2> QED BY <2>4, <2>5, <2>6, SignalDeclared
  <1>9. /\ d.driver = "always" /\ d.writes = {m.registers[i].name} /\ d.clock = NameOf(c.clock, m)
        /\ d.reads = Read(c.next, m) \cup (UNION {Read(c.enable[k], m) : k \in DOMAIN c.enable})
                 \cup UNION {Read(c.reset[k].value, m) \cup {NameOf(c.reset[k].signal, m)} :
                                k \in DOMAIN c.reset}
    BY DEF RegisterText
  <1> HIDE DEF d, c
  <1>10. d.reads \subseteq DeclaredBy(m) BY <1>6, <1>7, <1>8, <1>9
  <1>11. \A n \in d.writes : n \in DeclaredBy(m) /\ NetOf(m, n) = "logic" BY <1>5, <1>9
  <1>12. d.driver = "always" /\ d.clock \in DeclaredBy(m) /\ NetOf(m, d.clock) = "input"
    BY <1>4, <1>9
  <1>13. DriverDeclared(d, m) BY <1>10, <1>11, <1>12, AlwaysDeclares
  <1> QED BY <1>13 DEF d, c

LEMMA BlockDeclared ==
    ASSUME NEW m, ModuleOK(m), NamesChecked(m), NEW i \in DOMAIN m.blocks
    PROVE  DriverDeclared(BlockText(m.blocks[i], m), m)
  <1> DEFINE b == m.blocks[i]
             f == FormsOf(m, "clocked")[i]
             d == BlockText(b, m)
             t == StmtText(b.body, m)
  <1>1. BlockOK(b, f, m) /\ StmtOK(f.body, b.body, m) BY BlockFacts
  <1>2. NameOf(b.clock, m) \in DeclaredBy(m) /\ NetOf(m, NameOf(b.clock, m)) = "input"
    BY <1>1, InputNet DEF BlockOK
  <1>3. t.writes \subseteq RegisterNames(m) /\ t.reads \subseteq Declared(m) BY <1>1 DEF StmtOK
  <1>4. t.reads \subseteq DeclaredBy(m) BY <1>3, SignalDeclared
  <1>5. \A n \in t.writes : n \in DeclaredBy(m) /\ NetOf(m, n) = "logic" BY <1>3, RegisterNameNet
  <1>7. /\ d.driver = "always" /\ d.clock = NameOf(b.clock, m)
        /\ d.writes = t.writes /\ d.reads = t.reads
    BY DEF BlockText
  <1> HIDE DEF d, t
  <1>8. \A n \in d.writes : n \in DeclaredBy(m) /\ NetOf(m, n) = "logic" BY <1>5, <1>7
  <1>9. d.driver = "always" /\ d.clock \in DeclaredBy(m) /\ NetOf(m, d.clock) = "input"
    BY <1>2, <1>7
  <1>10. DriverDeclared(d, m) BY <1>4, <1>7, <1>8, <1>9, AlwaysDeclares
  <1> QED BY <1>10 DEF d


LEMMA DriversDeclared ==
    ASSUME NEW m, ModuleOK(m), NamesChecked(m), NEW d \in Range(ModuleText(m).drives)
    PROVE  DriverDeclared(d, m)
  <1> DEFINE clocked == {i \in DOMAIN m.registers : m.clocking[i] # NoClock}
             S == {AssignText(m.assigns[i], m) : i \in DOMAIN m.assigns}
                    \cup {RegisterText(i, m) : i \in clocked}
                    \cup {BlockText(m.blocks[i], m) : i \in DOMAIN m.blocks}
             as == [i \in DOMAIN m.assigns |-> AssignText(m.assigns[i], m)]
             own(i) == IF m.clocking[i] = NoClock THEN <<>> ELSE <<RegisterText(i, m)>>
             seqs == [i \in DOMAIN m.registers |-> own(i)]
             rs == FlattenSeq(seqs)
             bs == [i \in DOMAIN m.blocks |-> BlockText(m.blocks[i], m)]
             n == Len(m.registers)
  <1>1. \A x \in S : DriverDeclared(x, m) BY AssignDeclared, RegisterDeclared, BlockDeclared
  <1>2. /\ Len(m.assigns) \in Nat /\ DOMAIN m.assigns = 1..Len(m.assigns)
        /\ Len(m.blocks) \in Nat /\ DOMAIN m.blocks = 1..Len(m.blocks)
        /\ n \in Nat /\ DOMAIN m.registers = 1..n
    BY ModuleFacts
  <1>3. ModuleText(m).drives = as \o rs \o bs BY DEF ModuleText
  <1>4. /\ \A i \in DOMAIN m.assigns : AssignText(m.assigns[i], m) \in S
        /\ \A i \in DOMAIN m.blocks : BlockText(m.blocks[i], m) \in S
        /\ \A i \in DOMAIN m.registers : m.clocking[i] # NoClock => RegisterText(i, m) \in S
    OBVIOUS
  <1> HIDE DEF S
  <1>5. as \in Seq(S) BY <1>2, <1>4
  <1>6. bs \in Seq(S) BY <1>2, <1>4
  <1>7. rs \in Seq(S)
    <2>1. \A x : (<<>> \in Seq(S)) /\ (x \in S => <<x>> \in Seq(S)) OBVIOUS
    <2>2. \A i \in DOMAIN m.registers : own(i) \in Seq(S) BY <1>4, <2>1
    <2> HIDE DEF own
    <2>3. seqs \in [1..n -> Seq(S)] BY <1>2, <2>2
    <2> HIDE DEF seqs
    <2> QED BY <1>2, <2>3, FlattenType
  <1> HIDE DEF as, bs, rs
  <1>8. \A a, b \in Seq(S) : a \o b \in Seq(S) OBVIOUS
  <1>9. as \o rs \o bs \in Seq(S) BY <1>5, <1>6, <1>7, <1>8
  <1>10. \A s \in Seq(S) : \A x \in Range(s) : x \in S BY DEF Range
  <1> QED BY <1>1, <1>3, <1>9, <1>10

\* The text with these declarations and drivers is closed.
DrivenIn(nets, drives) ==
    /\ DistinctNames([i \in DOMAIN nets |-> nets[i].name])
    /\ \A d \in Range(drives) :
          /\ d.reads \cup d.writes \subseteq {n.name : n \in Range(nets)}
          /\ \A name \in d.writes :
                (CHOOSE n \in Range(nets) : n.name = name).net
                    = IF d.driver = "always" THEN "logic" ELSE "wire"
          /\ d.driver = "always" =>
                /\ d.clock \in {n.name : n \in Range(nets)}
                /\ (CHOOSE n \in Range(nets) : n.name = d.clock).net = "input"

\* Every emitted name is declared once, even if case is ignored; always_ff writes
\* variables and has an input for a clock, assign writes wires, and nothing is
\* read or written that is not declared.
THEOREM DrivenAsDeclared == Spec => []DeclaredAsDriven
  <1>1. TypeInv /\ WrittenInv => DeclaredAsDriven
    <2> SUFFICES ASSUME TypeInv, WrittenInv, phase = "emitted", NEW k \in DOMAIN text
                 PROVE  DrivenIn(text[k].nets, text[k].drives)
      BY DEF DeclaredAsDriven, DrivenIn
    <2> DEFINE m == design[k]
    <2>1. text = [j \in DOMAIN design |-> ModuleText(design[j])] BY DEF WrittenInv, Concluded
    <2>2. k \in DOMAIN design /\ text[k] = ModuleText(m) BY <2>1
    <2>3. ModuleOK(m) BY <2>2 DEF WrittenInv
    <2>4. NamesChecked(m)
      <3>1. VerifyDesign = "ok" BY DEF WrittenInv, Concluded, Verified
      <3>2. VerifyModule(m) = "ok" BY <2>2, <3>1, DesignJudged
      <3> QED BY <2>3, <3>2, ModuleJudged
    <2>5. text[k].nets = Nets(m) /\ text[k].drives = ModuleText(m).drives BY <2>2 DEF ModuleText
    <2>6. DistinctNames([i \in DOMAIN Nets(m) |-> Nets(m)[i].name])
      BY <2>3, <2>4, NamesApart
    <2>7. \A d \in Range(ModuleText(m).drives) : DriverDeclared(d, m) BY <2>3, <2>4, DriversDeclared
    <2> HIDE DEF m
    <2>8. DrivenIn(Nets(m), ModuleText(m).drives)
      BY <2>6, <2>7, Zenon DEF DrivenIn, DriverDeclared, NetOf, DeclaredBy
    <2> QED BY <2>5, <2>8
  <1> QED BY <1>1, WrittenInvariance, PTL

-----------------------------------------------------------------------------
(* Folding over a set, and what is left when a part of it is taken *)

Folded(g, base, T) == FoldSet(LAMBDA x, v : g[x][v], base, T)
Chosen(s) == CHOOSE x \in s : TRUE
FoldStep(g, base, s, f) ==
    IF s = {} THEN base ELSE g[Chosen(s)][f[s \ {Chosen(s)}]]

LEMMA FoldInvariant ==
    ASSUME NEW V, NEW base \in V, NEW T, IsFiniteSet(T), NEW g,
           \A x \in T, v \in V : g[x][v] \in V,
           NEW Q \in [SUBSET T -> SUBSET V], base \in Q[{}],
           \A s \in SUBSET T : \A x \in s : \A v \in Q[s \ {x}] : g[x][v] \in Q[s]
    PROVE  Folded(g, base, T) \in Q[T]
  <1> DEFINE S == SUBSET T
             rank == [s \in S |-> Cardinality(s)]
             body(f) == [s \in S |-> FoldStep(g, base, s, f)]
             iter == CHOOSE f : f = body(f)
             H == [s \in S |-> [f \in [S -> V] |-> FoldStep(g, base, s, f)]]
  <1>1. \A s \in S : IsFiniteSet(s) /\ Cardinality(s) \in Nat
    BY FS_Subset, FS_CardinalityType
  <1>2. ASSUME NEW s \in S, s # {}
        PROVE  /\ Chosen(s) \in s /\ s \ {Chosen(s)} \in S /\ rank[s \ {Chosen(s)}] < rank[s]
    <2>1. Chosen(s) \in s BY <1>2 DEF Chosen
    <2>2. Cardinality(s \ {Chosen(s)}) = Cardinality(s) - 1 BY <1>1, <2>1, FS_RemoveElement
    <2>3. s \ {Chosen(s)} \in S OBVIOUS
    <2>4. Cardinality(s) \in Nat BY <1>1
    <2>5. rank[s] = Cardinality(s) /\ rank[s \ {Chosen(s)}] = Cardinality(s \ {Chosen(s)}) BY <2>3
    <2> HIDE DEF rank, S
    <2> QED BY <2>1, <2>2, <2>3, <2>4, <2>5
  <1>3. rank \in [S -> Nat] BY <1>1
  <1> HIDE DEF rank
  <1>4. \A s \in S, f \in [S -> V] : FoldStep(g, base, s, f) \in V
    <2> TAKE s \in S, f \in [S -> V]
    <2>1. CASE s = {} BY <2>1 DEF FoldStep
    <2>2. CASE s # {}
      <3>1. f[s \ {Chosen(s)}] \in V /\ Chosen(s) \in T BY <1>2, <2>2
      <3> QED BY <2>2, <3>1 DEF FoldStep
    <2> QED BY <2>1, <2>2
  <1>5. LooksBelow(H, S, V, rank)
    <2>1. H \in [S -> [[S -> V] -> V]] BY <1>4
    <2>2. \A s \in S, f \in [S -> V] : H[s][f] = FoldStep(g, base, s, f) OBVIOUS
    <2>3. ASSUME NEW s \in S, NEW f \in [S -> V], NEW h \in [S -> V],
                 \A t \in S : rank[t] < rank[s] => f[t] = h[t]
          PROVE  FoldStep(g, base, s, f) = FoldStep(g, base, s, h)
      <3>1. s # {} => f[s \ {Chosen(s)}] = h[s \ {Chosen(s)}] BY <1>2, <2>3
      <3> QED BY <3>1 DEF FoldStep
    <2> HIDE DEF H, S
    <2>4. \A s \in S, f, h \in [S -> V] :
             (\A t \in S : rank[t] < rank[s] => f[t] = h[t]) => H[s][f] = H[s][h]
      <3> TAKE s \in S, f, h \in [S -> V]
      <3> HAVE \A t \in S : rank[t] < rank[s] => f[t] = h[t]
      <3>1. FoldStep(g, base, s, f) = FoldStep(g, base, s, h) BY <2>3
      <3> QED BY <2>2, <3>1
    <2> QED BY <2>1, <2>4 DEF LooksBelow
  <1>6. PICK f : Solves(f, H, S, V)
    <2> HIDE DEF H, S
    <2> QED BY <1>3, <1>5, RecursionExists
  <1>7. f = body(f)
    <2>1. f \in [S -> V] BY <1>6 DEF Solves
    <2>2. \A s \in S : f[s] = FoldStep(g, base, s, f) BY <1>6, <2>1 DEF Solves
    <2> HIDE DEF S
    <2> QED BY <2>1, <2>2
  <1>8. iter = body(iter)
    <2> HIDE DEF body
    <2> QED BY <1>7, Zenon
  <1>9. Folded(g, base, T) = iter[T]
    BY DEF Folded, FoldSet, MapThenFoldSet, FoldStep, Chosen
  <1> HIDE DEF iter
  <1>10. \A s \in S : iter[s] = FoldStep(g, base, s, iter) BY <1>8
  <1> DEFINE P == {s \in S : iter[s] \in Q[s]}
  <1>11. ASSUME NEW s \in S, \A t \in S : rank[t] < rank[s] => t \in P
         PROVE  s \in P
    <2>1. CASE s = {} BY <1>10, <2>1 DEF FoldStep
    <2>2. CASE s # {}
      <3>1. Chosen(s) \in s /\ s \ {Chosen(s)} \in P BY <1>2, <1>11, <2>2
      <3>2. iter[s] = g[Chosen(s)][iter[s \ {Chosen(s)}]] BY <1>10, <2>2 DEF FoldStep
      <3> QED BY <3>1, <3>2
    <2> QED BY <2>1, <2>2
  <1>12. P = S
    <2>1. P \in SUBSET S OBVIOUS
    <2> HIDE DEF P, S
    <2> QED BY <1>3, <1>11, <2>1, RankInduction
  <1>13. T \in S OBVIOUS
  <1>14. T \in P BY <1>12, <1>13
  <1> QED BY <1>9, <1>14

-----------------------------------------------------------------------------
(* Combinational loops *)

\* Signals each of which is assigned from another one of them.
SignalIds(m) == 0..(Len(m.ports) + Len(m.registers) - 1)
Ring(ring, m) ==
    /\ ring \in SUBSET SignalIds(m) /\ ring # {}
    /\ \A s \in ring : OutputsRead(s, m) \cap ring # {}
HasRing(m) == \E ring \in SUBSET SignalIds(m) : Ring(ring, m)
\* What has been searched: it is closed and has no ring in it.
Settled(done, m) ==
    /\ done \in SUBSET SignalIds(m)
    /\ \A s \in done : OutputsRead(s, m) \subseteq done
    /\ \A ring \in SUBSET done : ~Ring(ring, m)
\* A walk says of a loop what is so; and it only goes on.
Searched(w, m) ==
    /\ w \in Walk
    /\ w.loop => HasRing(m)
    /\ ~w.loop => Settled(w.complete, m)
Onward(from, w, ids, m) ==
    /\ Searched(w, m)
    /\ ~w.loop => ~from.loop /\ from.complete \subseteq w.complete /\ ids \subseteq w.complete
\* Every signal of a path is assigned from one of them or from the next.
OnPath(path, signal, m) == \A p \in path : OutputsRead(p, m) \cap (path \cup {signal}) # {}

LEMMA SettledGrows ==
    ASSUME NEW m, NEW done, Settled(done, m), NEW signal \in SignalIds(m),
           OutputsRead(signal, m) \subseteq done
    PROVE  Settled(done \cup {signal}, m)
  <1>1. done \cup {signal} \in SUBSET SignalIds(m) BY DEF Settled
  <1>2. \A s \in done \cup {signal} : OutputsRead(s, m) \subseteq done \cup {signal} BY DEF Settled
  <1>3. ASSUME NEW ring \in SUBSET (done \cup {signal}), Ring(ring, m) PROVE FALSE
    <2>1. CASE signal \in done
      <3>1. ring \in SUBSET done BY <2>1
      <3> QED BY <1>3, <3>1 DEF Settled
    <2>2. CASE signal \notin ring
      <3>1. ring \in SUBSET done BY <2>2
      <3> QED BY <1>3, <3>1 DEF Settled
    <2>3. CASE signal \notin done /\ signal \in ring
      <3> DEFINE rest == ring \ {signal}
      <3>1. rest \in SUBSET done /\ rest \in SUBSET SignalIds(m) BY <1>3 DEF Ring
      <3>2. OutputsRead(signal, m) \cap ring # {} BY <1>3, <2>3 DEF Ring
      <3>3. rest # {} BY <2>3, <3>2
      <3>4. ASSUME NEW s \in rest PROVE OutputsRead(s, m) \cap rest # {}
        <4>1. OutputsRead(s, m) \cap ring # {} BY <1>3 DEF Ring
        <4>2. OutputsRead(s, m) \subseteq done BY <3>1 DEF Settled
        <4> QED BY <2>3, <4>1, <4>2
      <3> HIDE DEF rest
      <3>5. Ring(rest, m) BY <3>1, <3>3, <3>4 DEF Ring
      <3> QED BY <3>1, <3>5 DEF Settled
    <2> QED BY <2>1, <2>2, <2>3
  <1> QED BY <1>1, <1>2, <1>3 DEF Settled

\* A path that meets itself is a ring.
LEMMA PathIsRing ==
    ASSUME NEW m, NEW path \in SUBSET SignalIds(m), NEW signal \in path, OnPath(path, signal, m)
    PROVE  HasRing(m)
  <1>1. path \cup {signal} = path OBVIOUS
  <1>2. Ring(path, m) BY <1>1 DEF OnPath, Ring
  <1> QED BY <1>2 DEF HasRing

LEMMA PathGrows ==
    ASSUME NEW m, NEW path, NEW signal, OnPath(path, signal, m), NEW next \in OutputsRead(signal, m)
    PROVE  OnPath(path \cup {signal}, next, m)
  BY DEF OnPath

\* What is done for all signals that one reads.
ReadFold(signal, path, walk, m, visit) ==
    FoldSet(LAMBDA next, w : visit[path \cup {signal}][next][w], walk, OutputsRead(signal, m))

LEMMA VisitCases ==
    ASSUME NEW signal, NEW path, NEW walk, NEW m, NEW visit
    PROVE  VisitStep(signal, path, walk, m, visit) =
             IF walk.loop \/ signal \in walk.complete THEN walk
             ELSE IF signal \in path THEN [walk EXCEPT !.loop = TRUE]
             ELSE [ReadFold(signal, path, walk, m, visit) EXCEPT !.complete = @ \cup {signal}]
  BY DEF VisitStep, ReadFold

LEMMA ReadFolded ==
    ASSUME NEW signal, NEW path, NEW walk, NEW m, NEW visit
    PROVE  ReadFold(signal, path, walk, m, visit) =
             Folded(visit[path \cup {signal}], walk, OutputsRead(signal, m))
  BY DEF ReadFold, Folded

LEMMA WalkFacts ==
    /\ NoWalk \in Walk /\ NoWalk.complete = {} /\ ~NoWalk.loop
    /\ \A w \in Walk : /\ w.complete \in SUBSET Nat /\ w.loop \in BOOLEAN
                       /\ [w EXCEPT !.loop = TRUE] \in Walk
                       /\ [w EXCEPT !.loop = TRUE].loop
                       /\ \A id \in Nat :
                             /\ [w EXCEPT !.complete = @ \cup {id}] \in Walk
                             /\ [w EXCEPT !.complete = @ \cup {id}].complete = w.complete \cup {id}
                             /\ [w EXCEPT !.complete = @ \cup {id}].loop = w.loop
  BY DEF NoWalk, Walk

\* What a right expression refers to.
LEMMA ReferencesAreSignals ==
    ASSUME NEW m, NEW h \in Good(m)
    PROVE  References(h) \subseteq SignalIds(m)
  <1> SUFFICES ASSUME NEW id \in References(h) PROVE id \in SignalIds(m) OBVIOUS
  <1> PICK x \in Subexpressions(h) : x.kind = "reference" /\ x.id = id
    BY DEF References, OfKind
  <1>1. WellTyped(x, Typed(m)) BY DEF Good, NodeOK
  <1>2. id \in DOMAIN Typed(m).type BY <1>1 DEF WellTyped
  <1> QED BY <1>2 DEF Typed, SignalIds

\* The signals of a module, and that what an assignment reads is among them.
LEMMA OutputsReadFacts ==
    ASSUME NEW m, ModuleOK(m)
    PROVE  /\ IsFiniteSet(SignalIds(m)) /\ SignalIds(m) \subseteq Nat
           /\ \A s : OutputsRead(s, m) \subseteq SignalIds(m) /\ IsFiniteSet(OutputsRead(s, m))
  <1>1. Len(m.ports) \in Nat /\ Len(m.registers) \in Nat BY ModuleFacts
  <1>2. IsFiniteSet(SignalIds(m))
    <2> DEFINE last == Len(m.ports) + Len(m.registers) - 1
    <2>1. 0 \in Int /\ last \in Int BY <1>1
    <2>2. SignalIds(m) = 0..last BY DEF SignalIds
    <2> HIDE DEF last
    <2>3. IsFiniteSet(0..last) BY <2>1, FS_Interval
    <2> QED BY <2>2, <2>3, Zenon
  <1>3. SignalIds(m) \subseteq Nat
    <2>1. \A a \in Int : 0..a \subseteq Nat OBVIOUS
    <2>2. Len(m.ports) + Len(m.registers) - 1 \in Int BY <1>1
    <2> QED BY <2>1, <2>2 DEF SignalIds
  <1>4. ASSUME NEW i \in DOMAIN m.assigns, NEW id \in References(m.assigns[i].value)
        PROVE  id \in SignalIds(m)
    <2>1. m.assigns[i].value \in Good(m)
      <3>1. AssignOK(m.assigns[i], FormsOf(m, "assign")[i], m) BY DEF ModuleOK, Written, AssignsOK
      <3> QED BY <3>1, ModuleFacts DEF AssignOK, Lowered
    <2> QED BY <1>4, <2>1, ReferencesAreSignals
  <1>5. \A s : OutputsRead(s, m) \subseteq SignalIds(m) BY <1>4 DEF OutputsRead
  <1> QED BY <1>2, <1>3, <1>5, FS_Subset

\* One step of a search, when the steps after it are right.
VisitsRight(visits, path, m) ==
    \A next \in SignalIds(m) : \A w \in Walk :
        Searched(w, m) /\ OnPath(path, next, m) => Onward(w, visits[next][w], {next}, m)

LEMMA FoldIsRight ==
    ASSUME NEW m, ModuleOK(m), NEW signal \in SignalIds(m), NEW path \in SUBSET SignalIds(m),
           NEW visit, NEW walk \in Walk, Searched(walk, m), OnPath(path, signal, m), ~walk.loop,
           \A next \in SignalIds(m), w \in Walk : visit[path \cup {signal}][next][w] \in Walk,
           VisitsRight(visit[path \cup {signal}], path \cup {signal}, m)
    PROVE  Onward(walk, ReadFold(signal, path, walk, m, visit), OutputsRead(signal, m), m)
  <1> DEFINE g == visit[path \cup {signal}]
             T == OutputsRead(signal, m)
             Q == [s \in SUBSET T |-> {w \in Walk : Onward(walk, w, s, m)}]
  <1>1. IsFiniteSet(T) /\ T \subseteq SignalIds(m) BY OutputsReadFacts
  <1>2. Q \in [SUBSET T -> SUBSET Walk] OBVIOUS
  <1>3. walk \in Q[{}] BY DEF Onward
  <1>4. \A x \in T, v \in Walk : g[x][v] \in Walk BY <1>1
  <1>5. ASSUME NEW s \in SUBSET T, NEW x \in s, NEW v \in Q[s \ {x}] PROVE g[x][v] \in Q[s]
    <2>1. v \in Walk /\ Onward(walk, v, s \ {x}, m)
      <3>1. s \ {x} \in SUBSET T OBVIOUS
      <3> QED BY <3>1
    <2>2. x \in SignalIds(m) /\ OnPath(path \cup {signal}, x, m) BY <1>1, PathGrows
    <2>3. Searched(v, m) BY <2>1 DEF Onward
    <2>4. Onward(v, g[x][v], {x}, m) BY <2>1, <2>2, <2>3 DEF VisitsRight
    <2>5. Onward(walk, g[x][v], s, m) BY <2>1, <2>4 DEF Onward
    <2> QED BY <1>4, <2>1, <2>5
  <1> HIDE DEF Q, g
  <1>6. Folded(g, walk, T) \in Q[T]
    <2> HIDE DEF T
    <2>1. \A s \in SUBSET T : \A x \in s : \A v \in Q[s \ {x}] : g[x][v] \in Q[s] BY <1>5
    <2> QED BY <1>1, <1>2, <1>3, <1>4, <2>1, FoldInvariant
  <1>7. Onward(walk, Folded(g, walk, T), T, m)
    <2>1. T \in SUBSET T OBVIOUS
    <2> QED BY <1>6, <2>1 DEF Q
  <1> QED BY <1>7, ReadFolded DEF g

LEMMA StepIsRight ==
    ASSUME NEW m, ModuleOK(m), NEW signal \in SignalIds(m), NEW path \in SUBSET SignalIds(m),
           NEW visit, NEW walk \in Walk, Searched(walk, m), OnPath(path, signal, m),
           signal \notin path =>
               /\ \A next \in SignalIds(m), w \in Walk : visit[path \cup {signal}][next][w] \in Walk
               /\ VisitsRight(visit[path \cup {signal}], path \cup {signal}, m)
    PROVE  Onward(walk, VisitStep(signal, path, walk, m, visit), {signal}, m)
  <1> DEFINE after == ReadFold(signal, path, walk, m, visit)
             w == VisitStep(signal, path, walk, m, visit)
  <1>0. signal \in Nat BY OutputsReadFacts
  <1>1. CASE walk.loop \/ signal \in walk.complete
    <2>1. w = walk BY <1>1, VisitCases
    <2> QED BY <1>1, <2>1 DEF Onward
  <1>2. CASE ~walk.loop /\ signal \notin walk.complete /\ signal \in path
    <2>1. w = [walk EXCEPT !.loop = TRUE] BY <1>2, VisitCases
    <2>2. w \in Walk /\ w.loop BY <2>1, WalkFacts
    <2>3. HasRing(m) BY <1>2, PathIsRing
    <2> QED BY <2>2, <2>3 DEF Onward, Searched
  <1>3. CASE ~walk.loop /\ signal \notin walk.complete /\ signal \notin path
    <2>1. w = [after EXCEPT !.complete = @ \cup {signal}] BY <1>3, VisitCases
    <2>2. Onward(walk, after, OutputsRead(signal, m), m) BY <1>3, FoldIsRight
    <2> HIDE DEF after, w
    <2>3. after \in Walk BY <2>2 DEF Onward, Searched
    <2>4. w \in Walk /\ w.loop = after.loop /\ w.complete = after.complete \cup {signal}
      BY <1>0, <2>1, <2>3 DEF Walk
    <2>5. CASE after.loop
      <3>1. HasRing(m) BY <2>2, <2>5 DEF Onward, Searched
      <3> QED BY <2>4, <2>5, <3>1 DEF Onward, Searched, w
    <2>6. CASE ~after.loop
      <3>1. Settled(after.complete, m) /\ OutputsRead(signal, m) \subseteq after.complete
        BY <2>2, <2>6 DEF Onward, Searched
      <3>2. Settled(after.complete \cup {signal}, m) BY <3>1, SettledGrows
      <3>3. walk.complete \subseteq w.complete /\ {signal} \subseteq w.complete
        BY <2>2, <2>4, <2>6 DEF Onward
      <3>4. Onward(walk, w, {signal}, m) BY <1>3, <2>4, <2>6, <3>2, <3>3 DEF Onward, Searched
      <3> QED BY <3>4 DEF w
    <2> QED BY <2>5, <2>6
  <1> QED BY <1>1, <1>2, <1>3

\* The function that Visit defines.
VisitBody(m, visit) ==
    [path \in SUBSET SignalIds(m) |->
        [next \in SignalIds(m) |-> [w \in Walk |-> VisitStep(next, path, w, m, visit)]]]
Visits(m) == CHOOSE visit : visit = VisitBody(m, visit)
VisitResults(m) == [SignalIds(m) -> [Walk -> Walk]]

LEMMA VisitIsSearch ==
    ASSUME NEW signal, NEW walk, NEW m
    PROVE  Visit(signal, walk, m) = Visits(m)[{}][signal][walk]
  BY DEF Visit, Visits, VisitBody, SignalIds

\* A step makes a walk of walks, and looks only where the path is one longer.
LEMMA VisitStepType ==
    ASSUME NEW m, ModuleOK(m), NEW signal \in SignalIds(m), NEW path \in SUBSET SignalIds(m),
           NEW walk \in Walk, NEW visit \in [SUBSET SignalIds(m) -> VisitResults(m)]
    PROVE  VisitStep(signal, path, walk, m, visit) \in Walk
  <1> DEFINE g == visit[path \cup {signal}]
             T == OutputsRead(signal, m)
             Q == [s \in SUBSET T |-> Walk]
  <1>1. IsFiniteSet(T) /\ T \subseteq SignalIds(m) BY OutputsReadFacts
  <1>2. g \in VisitResults(m) OBVIOUS
  <1>3. \A x \in T, v \in Walk : g[x][v] \in Walk
    <2> HIDE DEF g, T
    <2> QED BY <1>1, <1>2 DEF VisitResults
  <1>4. Q \in [SUBSET T -> SUBSET Walk] /\ \A s \in SUBSET T : Q[s] = Walk OBVIOUS
  <1> HIDE DEF Q, g, T
  <1>5. Folded(g, walk, T) \in Walk
    <2>1. \A s \in SUBSET T : \A x \in s : \A v \in Q[s \ {x}] : g[x][v] \in Q[s]
      <3> TAKE s \in SUBSET T
      <3> TAKE x \in s
      <3>1. s \ {x} \in SUBSET T /\ x \in T OBVIOUS
      <3> QED BY <1>3, <1>4, <3>1
    <2>2. walk \in Q[{}] /\ Q[T] = Walk
      <3>1. {} \in SUBSET T /\ T \in SUBSET T OBVIOUS
      <3> QED BY <1>4, <3>1
    <2>3. Folded(g, walk, T) \in Q[T] BY <1>1, <1>3, <1>4, <2>1, <2>2, FoldInvariant
    <2> QED BY <2>2, <2>3
  <1>6. ReadFold(signal, path, walk, m, visit) \in Walk BY <1>5, ReadFolded DEF g, T
  <1>7. signal \in Nat BY OutputsReadFacts
  <1>8. \A w \in Walk : [w EXCEPT !.loop = TRUE] \in Walk BY WalkFacts
  <1>9. \A w \in Walk : [w EXCEPT !.complete = @ \cup {signal}] \in Walk BY <1>7 DEF Walk
  <1> QED BY <1>6, <1>8, <1>9, VisitCases

LEMMA VisitsDefined ==
    ASSUME NEW m, ModuleOK(m)
    PROVE  Visits(m) \in [SUBSET SignalIds(m) -> VisitResults(m)] /\ Visits(m) = VisitBody(m, Visits(m))
  <1> DEFINE I == SignalIds(m)
             S == SUBSET I
             V == VisitResults(m)
             rank == [path \in S |-> Cardinality(I \ path)]
             step(path, f) == [next \in I |-> [w \in Walk |-> VisitStep(next, path, w, m, f)]]
             H == [path \in S |-> [f \in [S -> V] |-> step(path, f)]]
  <1>1. IsFiniteSet(I) BY OutputsReadFacts
  <1>2. \A path \in S : IsFiniteSet(I \ path) /\ Cardinality(I \ path) \in Nat
    BY <1>1, FS_Subset, FS_CardinalityType
  <1>3. rank \in [S -> Nat] BY <1>2
  <1>4. ASSUME NEW path \in S, NEW next \in I, next \notin path
        PROVE  path \cup {next} \in S /\ rank[path \cup {next}] < rank[path]
    <2>1. path \cup {next} \in S OBVIOUS
    <2>2. I \ (path \cup {next}) = (I \ path) \ {next} /\ next \in I \ path BY <1>4
    <2>3. Cardinality((I \ path) \ {next}) = Cardinality(I \ path) - 1
      BY <1>2, <2>2, FS_RemoveElement
    <2>4. rank[path \cup {next}] = Cardinality(I \ path) - 1 /\ rank[path] = Cardinality(I \ path)
      BY <2>1, <2>2, <2>3
    <2>5. Cardinality(I \ path) \in Nat BY <1>2
    <2> HIDE DEF rank, S, I
    <2> QED BY <2>1, <2>4, <2>5
  <1> HIDE DEF rank
  <1>5. \A path \in S, f \in [S -> V] : step(path, f) \in V
    <2> SUFFICES ASSUME NEW path \in S, NEW f \in [S -> V], NEW next \in I, NEW w \in Walk
                 PROVE  VisitStep(next, path, w, m, f) \in Walk
      BY DEF VisitResults
    <2> QED BY VisitStepType
  <1>6. H \in [S -> [[S -> V] -> V]] /\ \A path \in S, f \in [S -> V] : H[path][f] = step(path, f)
    <2> HIDE DEF step, S, V
    <2> QED BY <1>5
  <1>7. ASSUME NEW path \in S, NEW f, NEW h,
               \A other \in S : rank[other] < rank[path] => f[other] = h[other]
        PROVE  step(path, f) = step(path, h)
    <2> SUFFICES ASSUME NEW next \in I, NEW w \in Walk
                 PROVE  VisitStep(next, path, w, m, f) = VisitStep(next, path, w, m, h)
      OBVIOUS
    <2>1. next \notin path => f[path \cup {next}] = h[path \cup {next}] BY <1>4, <1>7
    <2>2. next \notin path => ReadFold(next, path, w, m, f) = ReadFold(next, path, w, m, h)
      BY <2>1, ReadFolded
    <2> QED BY <2>2, VisitCases
  <1> HIDE DEF step, H, S, V
  <1>8. LooksBelow(H, S, V, rank)
    <2>1. \A path \in S, f, h \in [S -> V] :
             (\A other \in S : rank[other] < rank[path] => f[other] = h[other])
                => H[path][f] = H[path][h]
      <3> TAKE path \in S, f, h \in [S -> V]
      <3> HAVE \A other \in S : rank[other] < rank[path] => f[other] = h[other]
      <3>1. step(path, f) = step(path, h) BY <1>7
      <3> QED BY <1>6, <3>1
    <2> QED BY <1>6, <2>1 DEF LooksBelow
  <1>9. V # {}
    <2>1. [next \in I |-> [w \in Walk |-> w]] \in V BY DEF V, VisitResults
    <2> QED BY <2>1
  <1>10. PICK f : Solves(f, H, S, V) BY <1>3, <1>8, <1>9, RecursionExists
  <1>11. f \in [S -> V] /\ \A path \in S : f[path] = step(path, f) BY <1>6, <1>10 DEF Solves
  <1>12. f = VisitBody(m, f)
    <2>1. f = [path \in S |-> step(path, f)] BY <1>11
    <2> QED BY <2>1 DEF VisitBody, step, S
  <1>13. Visits(m) = VisitBody(m, Visits(m))
    <2> DEFINE is(visit) == visit = VisitBody(m, visit)
    <2>1. is(f) BY <1>12
    <2>2. Visits(m) = CHOOSE visit : is(visit) BY DEF Visits
    <2> HIDE DEF is
    <2>3. is(Visits(m)) BY <2>1, <2>2, Zenon
    <2> QED BY <2>3 DEF is
  <1> DEFINE u == Visits(m)
  <1>14. \A path \in S : u[path] = step(path, u)
    <2> HIDE DEF u
    <2> QED BY <1>13 DEF VisitBody, step, S, u
  <1>15. \A path \in S : u[path] = f[path]
    <2> HIDE DEF u
    <2>1. ASSUME NEW path \in S, \A other \in S : rank[other] < rank[path] => u[other] = f[other]
          PROVE  u[path] = f[path]
      <3>1. step(path, u) = step(path, f) BY <1>7, <2>1
      <3> QED BY <1>11, <1>14, <3>1
    <2> QED BY <1>3, <2>1, AgreeByRank
  <1>16. u = [path \in S |-> u[path]]
    <2>1. VisitBody(m, u) = [path \in S |-> step(path, u)] BY DEF VisitBody, step, S
    <2>2. u = [path \in S |-> step(path, u)] BY <1>13, <2>1
    <2> HIDE DEF u
    <2> QED BY <2>2
  <1>17. u \in [S -> V]
    <2> HIDE DEF u
    <2> QED BY <1>11, <1>15, <1>16
  <1> QED BY <1>13, <1>17 DEF S, V

\* A search from any path, and so from none, says what is so.
LEMMA SearchIsRight ==
    ASSUME NEW m, ModuleOK(m), NEW signal \in SignalIds(m), NEW walk \in Walk, Searched(walk, m)
    PROVE  Onward(walk, Visit(signal, walk, m), {signal}, m)
  <1> DEFINE I == SignalIds(m)
             S == SUBSET I
             rank == [path \in S |-> Cardinality(I \ path)]
             u == Visits(m)
             P == {path \in S : VisitsRight(u[path], path, m)}
  <1>1. \A path \in S : rank[path] \in Nat
    <2>1. IsFiniteSet(I) BY OutputsReadFacts
    <2> QED BY <2>1, FS_Subset, FS_CardinalityType
  <1>2. rank \in [S -> Nat] BY <1>1
  <1>3. \A path \in S : \A next \in I \ path :
           path \cup {next} \in S /\ rank[path \cup {next}] < rank[path]
    <2> SUFFICES ASSUME NEW path \in S, NEW next \in I \ path
                 PROVE  path \cup {next} \in S /\ rank[path \cup {next}] < rank[path]
      OBVIOUS
    <2>1. path \cup {next} \in S /\ I \ (path \cup {next}) = (I \ path) \ {next} OBVIOUS
    <2>2. IsFiniteSet(I \ path)
      <3>1. IsFiniteSet(I) BY OutputsReadFacts
      <3> QED BY <3>1, FS_Subset
    <2>3. Cardinality((I \ path) \ {next}) = Cardinality(I \ path) - 1 BY <2>2, FS_RemoveElement
    <2>4. rank[path \cup {next}] = Cardinality(I \ path) - 1 /\ rank[path] = Cardinality(I \ path)
      BY <2>1, <2>3
    <2>5. Cardinality(I \ path) \in Nat BY <2>2, FS_CardinalityType
    <2> HIDE DEF rank, S, I
    <2> QED BY <2>1, <2>4, <2>5
  <1> HIDE DEF rank
  <1>4. /\ u \in [S -> VisitResults(m)]
        /\ \A path \in S, next \in I, w \in Walk :
              /\ u[path][next][w] = VisitStep(next, path, w, m, u)
              /\ u[path][next][w] \in Walk
    <2>1. u \in [S -> VisitResults(m)] /\ u = VisitBody(m, u) BY VisitsDefined
    <2> HIDE DEF u
    <2>2. ASSUME NEW path \in S, NEW next \in I, NEW w \in Walk
          PROVE  u[path][next][w] = VisitStep(next, path, w, m, u) /\ u[path][next][w] \in Walk
      <3>1. u[path] = [n \in I |-> [v \in Walk |-> VisitStep(n, path, v, m, u)]]
        BY <2>1 DEF VisitBody
      <3>2. u[path] \in VisitResults(m) BY <2>1
      <3> QED BY <3>1, <3>2 DEF VisitResults
    <2> QED BY <2>1, <2>2
  <1> HIDE DEF u
  <1>5. ASSUME NEW path \in S, \A other \in S : rank[other] < rank[path] => other \in P
        PROVE  path \in P
    <2> SUFFICES ASSUME NEW next \in I, NEW w \in Walk, Searched(w, m), OnPath(path, next, m)
                 PROVE  Onward(w, u[path][next][w], {next}, m)
      BY DEF VisitsRight
    <2>1. next \notin path => VisitsRight(u[path \cup {next}], path \cup {next}, m)
      BY <1>3, <1>5
    <2>2. next \notin path => \A n \in I, v \in Walk : u[path \cup {next}][n][v] \in Walk
      BY <1>3, <1>4
    <2>3. Onward(w, VisitStep(next, path, w, m, u), {next}, m) BY <2>1, <2>2, StepIsRight
    <2> QED BY <1>4, <2>3
  <1>6. P = S
    <2>1. P \in SUBSET S OBVIOUS
    <2> HIDE DEF P, S
    <2> QED BY <1>2, <1>5, <2>1, RankInduction
  <1>7. VisitsRight(u[{}], {}, m)
    <2>1. {} \in S OBVIOUS
    <2> QED BY <1>6, <2>1
  <1>8. OnPath({}, signal, m) BY DEF OnPath
  <1>9. Onward(walk, u[{}][signal][walk], {signal}, m) BY <1>7, <1>8 DEF VisitsRight
  <1> QED BY <1>9, VisitIsSearch DEF u

\* The search from every assignment in turn.
Dests(k, m) == {m.assigns[i].dest : i \in 1..k}

LEMMA WalksUnfold ==
    ASSUME NEW m, ModuleOK(m)
    PROVE  \E walk : /\ walk[0] = NoWalk /\ \A k \in 0..Len(m.assigns) : walk[k] \in Walk
                     /\ \A k \in 1..Len(m.assigns) :
                           walk[k] = Visit(m.assigns[k].dest, walk[k - 1], m)
                     /\ HasLoop(m) = walk[Len(m.assigns)].loop
  <1> DEFINE n == Len(m.assigns)
             more(k, w) == Visit(m.assigns[k].dest, w, m)
             body(f) == [k \in 0..n |-> IF k = 0 THEN NoWalk ELSE more(k, f[k - 1])]
             t == CHOOSE f : f = body(f)
             H == [k \in 1..n |-> [w \in Walk |-> more(k, w)]]
  <1>0. n \in Nat /\ \A k \in 1..n : k \in DOMAIN m.assigns BY ModuleFacts
  <1>1. HasLoop(m) = t[n].loop BY DEF HasLoop
  <1>2. NoWalk \in Walk BY WalkFacts
  <1>d. \A k \in 1..n : m.assigns[k].dest \in SignalIds(m)
    <2> TAKE k \in 1..n
    <2>1. AssignOK(m.assigns[k], FormsOf(m, "assign")[k], m)
      BY <1>0 DEF ModuleOK, Written, AssignsOK
    <2>2. m.assigns[k].dest \in 0..(Len(m.ports) - 1) BY <2>1 DEF AssignOK
    <2>3. Len(m.ports) \in Nat /\ Len(m.registers) \in Nat BY ModuleFacts
    <2>4. \A a, b \in Nat : \A x \in 0..(a - 1) : x \in 0..(a + b - 1) OBVIOUS
    <2> QED BY <2>2, <2>3, <2>4 DEF SignalIds
  <1>3. \A k \in 1..n : \A w \in Walk : more(k, w) \in Walk /\ H[k][w] = more(k, w)
    <2> SUFFICES ASSUME NEW k \in 1..n, NEW w \in Walk PROVE more(k, w) \in Walk
      OBVIOUS
    <2> DEFINE d == m.assigns[k].dest
    <2>1. d \in SignalIds(m) BY <1>d
    <2>2. Visits(m) \in [SUBSET SignalIds(m) -> VisitResults(m)] BY VisitsDefined
    <2>3. Visits(m)[{}][d][w] \in Walk
      <3> HIDE DEF d
      <3>1. Visits(m)[{}] \in VisitResults(m) BY <2>2
      <3> QED BY <2>1, <3>1 DEF VisitResults
    <2> QED BY <2>3, VisitIsSearch
  <1> HIDE DEF more
  <1>4. H \in [1..n -> [Walk -> Walk]] BY <1>3
  <1> HIDE DEF H
  <1>5. \A f \in [0..n -> Walk] : StepsFrom(f, NoWalk, H, n) => Unfolds(t, NoWalk, H, n, Walk)
    <2> SUFFICES ASSUME NEW f \in [0..n -> Walk], StepsFrom(f, NoWalk, H, n)
                 PROVE  Unfolds(t, NoWalk, H, n, Walk)
      OBVIOUS
    <2>1. \A k \in 1..n : k - 1 \in 0..n /\ f[k - 1] \in Walk BY <1>0
    <2>2. \A k \in 1..n : f[k] = more(k, f[k - 1])
      <3> SUFFICES ASSUME NEW k \in 1..n PROVE f[k] = more(k, f[k - 1])
        OBVIOUS
      <3>1. f[k - 1] \in Walk BY <2>1
      <3>2. f[k] = H[k][f[k - 1]] BY DEF StepsFrom
      <3> QED BY <1>3, <3>1, <3>2
    <2>3. \A k \in 0..n : f[k] = IF k = 0 THEN NoWalk ELSE more(k, f[k - 1])
      BY <2>2 DEF StepsFrom
    <2>4. f = body(f) BY <2>3
    <2>5. t = body(t)
      <3> HIDE DEF body
      <3> QED BY <2>4
    <2> HIDE DEF t
    <2>6. t[0] = NoWalk BY <1>0, <2>5
    <2>7. \A k \in 1..n : t[k] = more(k, t[k - 1])
      <3>1. \A k \in 1..n : k \in 0..n /\ k # 0 BY <1>0
      <3> QED BY <2>5, <3>1
    <2> QED BY <1>3, <2>6, <2>7 DEF Unfolds
  <1> HIDE DEF t, n
  <1>6. /\ t[0] = NoWalk /\ \A k \in 0..n : t[k] \in Walk
        /\ \A k \in 1..n : t[k] = H[k][t[k - 1]]
    BY <1>0, <1>2, <1>4, <1>5, StepsSolved
  <1>7. \A k \in 1..n : t[k] = more(k, t[k - 1])
    <2> TAKE k \in 1..n
    <2>1. k - 1 \in 0..n BY <1>0
    <2> QED BY <1>3, <1>6, <2>1
  <1>8. /\ t[0] = NoWalk /\ \A k \in 0..n : t[k] \in Walk
        /\ \A k \in 1..n : t[k] = Visit(m.assigns[k].dest, t[k - 1], m)
        /\ HasLoop(m) = t[n].loop
    BY <1>1, <1>6, <1>7 DEF more
  <1> QED BY <1>8 DEF n

\* The search finds a ring exactly when there is one.
LEMMA LoopIsRing ==
    ASSUME NEW m, ModuleOK(m)
    PROVE  HasLoop(m) <=> HasRing(m)
  <1> DEFINE n == Len(m.assigns)
  <1>1. PICK walk : /\ walk[0] = NoWalk /\ \A k \in 0..n : walk[k] \in Walk
                    /\ \A k \in 1..n : walk[k] = Visit(m.assigns[k].dest, walk[k - 1], m)
                    /\ HasLoop(m) = walk[n].loop
    BY WalksUnfold
  <1>2. n \in Nat /\ DOMAIN m.assigns = 1..n BY ModuleFacts
  <1>3. \A k \in 1..n : m.assigns[k].dest \in SignalIds(m)
    <2> TAKE k \in 1..n
    <2>1. AssignOK(m.assigns[k], FormsOf(m, "assign")[k], m)
      BY <1>2 DEF ModuleOK, Written, AssignsOK
    <2>2. m.assigns[k].dest \in 0..(Len(m.ports) - 1) BY <2>1 DEF AssignOK
    <2>3. Len(m.ports) \in Nat /\ Len(m.registers) \in Nat BY ModuleFacts
    <2>4. \A a, b \in Nat : \A x \in 0..(a - 1) : x \in 0..(a + b - 1) OBVIOUS
    <2> QED BY <2>2, <2>3, <2>4 DEF SignalIds
  <1> HIDE DEF n
  <1> DEFINE P == {k \in 0..n : Onward(NoWalk, walk[k], Dests(k, m), m)}
  <1>4. 0 \in P
    <2>1. Dests(0, m) = {}
      <3>1. 1..0 = {} OBVIOUS
      <3> QED BY <3>1 DEF Dests
    <2>2. Settled({}, m) BY DEF Settled, Ring
    <2>3. Searched(NoWalk, m) BY <2>2, WalkFacts DEF Searched
    <2>4. Onward(NoWalk, NoWalk, {}, m) BY <2>3 DEF Onward
    <2>5. Onward(NoWalk, walk[0], Dests(0, m), m) BY <1>1, <2>1, <2>4, Zenon
    <2>6. 0 \in 0..n BY <1>2
    <2> QED BY <2>5, <2>6
  <1>5. ASSUME NEW i \in 0..(n - 1), i \in P PROVE i + 1 \in P
    <2>1. i + 1 \in 1..n /\ (i + 1) - 1 = i /\ i + 1 \in 0..n /\ i \in 0..n BY <1>2
    <2>2. Onward(NoWalk, walk[i], Dests(i, m), m) BY <1>5
    <2> DEFINE d == m.assigns[i + 1].dest
    <2>3. walk[i + 1] = Visit(d, walk[i], m) BY <1>1, <2>1
    <2>4. d \in SignalIds(m) BY <1>3, <2>1
    <2>5. Searched(walk[i], m) /\ walk[i] \in Walk BY <2>2 DEF Onward, Searched
    <2>6. Onward(walk[i], walk[i + 1], {d}, m) BY <2>3, <2>4, <2>5, SearchIsRight
    <2>7. Dests(i + 1, m) = Dests(i, m) \cup {d}
      <3>1. 1..(i + 1) = (1..i) \cup {i + 1} BY <1>2
      <3> QED BY <3>1 DEF Dests
    <2> HIDE DEF d
    <2>8. Onward(NoWalk, walk[i + 1], Dests(i + 1, m), m) BY <2>2, <2>6, <2>7 DEF Onward
    <2> QED BY <2>1, <2>8
  <1>6. n \in P
    <2> HIDE DEF P
    <2> QED BY <1>2, <1>4, <1>5, UpTo
  <1>7. Onward(NoWalk, walk[n], Dests(n, m), m) BY <1>6
  <1>8. HasLoop(m) => HasRing(m) BY <1>1, <1>7 DEF Onward, Searched
  <1>9. ASSUME ~HasLoop(m), HasRing(m) PROVE FALSE
    <2>1. Settled(walk[n].complete, m) /\ Dests(n, m) \subseteq walk[n].complete
      BY <1>1, <1>7, <1>9 DEF Onward, Searched
    <2>2. PICK ring \in SUBSET SignalIds(m) : Ring(ring, m) BY <1>9 DEF HasRing
    <2>3. \A s \in ring : s \in Dests(n, m)
      <3> TAKE s \in ring
      <3>1. OutputsRead(s, m) # {} BY <2>2 DEF Ring
      <3>2. \E k \in DOMAIN m.assigns : m.assigns[k].dest = s BY <3>1 DEF OutputsRead
      <3> QED BY <1>2, <3>2 DEF Dests
    <2>4. ring \in SUBSET walk[n].complete BY <2>1, <2>3
    <2> QED BY <2>1, <2>2, <2>4 DEF Settled
  <1> QED BY <1>8, <1>9

\* The names of an assignment and of what it reads.
LEMMA AssignNames ==
    ASSUME NEW m, ModuleOK(m), NEW k \in DOMAIN m.assigns
    PROVE  LET a == m.assigns[k]
               f == FormsOf(m, "assign")[k]
           IN /\ k \in DOMAIN FormsOf(m, "assign") /\ f \in Range(FormsOf(m, "assign"))
              /\ a.dest \in SignalIds(m) /\ a.dest \in 0..(Len(m.ports) - 1)
              /\ a.dest + 1 \in DOMAIN m.ports
              /\ m.ports[a.dest + 1].name = f.dest /\ m.ports[a.dest + 1].direction = Output
              /\ NameOf(a.dest, m) = f.dest /\ ~IsRegisterName(f.dest, m)
              /\ a.value \in Good(m) /\ Read(a.value, m) = NamesIn(f.value)
  <1> DEFINE a == m.assigns[k]
             f == FormsOf(m, "assign")[k]
  <1>1. AssignOK(a, f, m) /\ Len(m.assigns) = Len(FormsOf(m, "assign")) /\ SourceOK(m)
    BY DEF ModuleOK, Written, AssignsOK
  <1>2. k \in DOMAIN FormsOf(m, "assign")
    BY <1>1, FormsFacts, ModuleFacts, SortsFacts
  <1>3. f \in Range(FormsOf(m, "assign")) BY <1>2 DEF Range
  <1>4. /\ a.dest \in 0..(Len(m.ports) - 1) /\ m.ports[a.dest + 1].direction = Output
        /\ m.ports[a.dest + 1].name = f.dest /\ ~IsRegisterName(f.dest, m)
        /\ a.value \in Good(m) /\ Read(a.value, m) = NamesIn(f.value)
    BY <1>1, ModuleFacts DEF AssignOK, Lowered
  <1>5. /\ Len(m.ports) \in Nat /\ DOMAIN m.ports = 1..Len(m.ports) /\ Len(m.registers) \in Nat
    BY ModuleFacts
  <1>6. \A p, r \in Nat : \A x \in 0..(p - 1) : x < p /\ x + 1 \in 1..p /\ x \in 0..(p + r - 1)
    OBVIOUS
  <1>7. a.dest < Len(m.ports) /\ a.dest + 1 \in DOMAIN m.ports /\ a.dest \in SignalIds(m)
    BY <1>4, <1>5, <1>6 DEF SignalIds
  <1>8. NameOf(a.dest, m) = f.dest BY <1>4, <1>7 DEF NameOf, SignalName, IsPort
  <1> QED BY <1>2, <1>3, <1>4, <1>7, <1>8

\* A ring of signals is a ring of the names they were written with,
LEMMA RingIsLooping ==
    ASSUME NEW m, ModuleOK(m), HasRing(m)
    PROVE  Looping(m)
  <1> DEFINE forms == Range(FormsOf(m, "assign"))
  <1>1. PICK ring \in SUBSET SignalIds(m) : Ring(ring, m) BY DEF HasRing
  <1> DEFINE names == {NameOf(s, m) : s \in ring}
  <1>2. ASSUME NEW s \in ring
        PROVE  \E k \in DOMAIN m.assigns :
                  m.assigns[k].dest = s /\ References(m.assigns[k].value) \cap ring # {}
    <2>1. OutputsRead(s, m) \cap ring # {} BY <1>1 DEF Ring
    <2> QED BY <2>1 DEF OutputsRead
  <1>3. ASSUME NEW n \in names
        PROVE  \E f \in forms : f.dest = n /\ NamesIn(f.value) \cap names # {}
    <2>1. PICK s \in ring : n = NameOf(s, m) OBVIOUS
    <2>2. PICK k \in DOMAIN m.assigns :
             m.assigns[k].dest = s /\ References(m.assigns[k].value) \cap ring # {}
      BY <1>2
    <2>3. PICK id \in ring : id \in References(m.assigns[k].value) BY <2>2
    <2> DEFINE f == FormsOf(m, "assign")[k]
    <2>4. f \in forms /\ f.dest = n /\ Read(m.assigns[k].value, m) = NamesIn(f.value)
      BY <2>1, <2>2, AssignNames
    <2>5. NameOf(id, m) \in Read(m.assigns[k].value, m) BY <2>3 DEF Read
    <2>6. NameOf(id, m) \in names OBVIOUS
    <2> HIDE DEF f, forms, names
    <2> QED BY <2>4, <2>5, <2>6
  <1>4. names \in (SUBSET {f.dest : f \in forms}) \ {{}}
    <2>1. names # {} BY <1>1 DEF Ring
    <2>2. \A n \in names : \E f \in forms : n = f.dest BY <1>3
    <2> HIDE DEF names, forms
    <2>3. names \subseteq {f.dest : f \in forms} BY <2>2
    <2>4. names \in SUBSET {f.dest : f \in forms} BY <2>3
    <2> QED BY <2>1, <2>4
  <1> HIDE DEF names
  <1> QED BY <1>3, <1>4 DEF Looping

\* What a name that is assigned stands for where it is read: the signal assigned.
LEMMA AssignedIsRead ==
    ASSUME NEW m, ModuleOK(m), NamesChecked(m), NEW k \in DOMAIN m.assigns,
           NEW l \in DOMAIN m.assigns,
           FormsOf(m, "assign")[l].dest \in Read(m.assigns[k].value, m)
    PROVE  m.assigns[l].dest \in OutputsRead(m.assigns[k].dest, m)
  <1> DEFINE h == m.assigns[k].value
             d == m.assigns[l].dest
             n == FormsOf(m, "assign")[l].dest
  <1>1. /\ d \in 0..(Len(m.ports) - 1) /\ d + 1 \in DOMAIN m.ports
        /\ m.ports[d + 1].name = n /\ m.ports[d + 1].direction = Output
        /\ ~IsRegisterName(n, m) /\ h \in Good(m)
    BY AssignNames
  <1>2. /\ Len(m.ports) \in Nat /\ DOMAIN m.ports = 1..Len(m.ports)
        /\ Len(m.registers) \in Nat /\ DOMAIN m.registers = 1..Len(m.registers)
    BY ModuleFacts
  <1>3. NetOf(m, n) = "wire"
    <2>1. PortNet(m.ports[d + 1], m) = "wire" BY <1>1 DEF PortNet, Input, Output
    <2> QED BY <1>1, <2>1, PortNetOf
  <1>4. n \notin MemberNames(MembersIn(h), m)
    <2> SUFFICES ASSUME NEW id \in MembersIn(h), n = m.enums[id[1]].names[id[2]] PROVE FALSE
      BY DEF MemberNames
    <2>1. IsMember(id, m) BY <1>1, MembersAreDeclared
    <2>2. id[1] \in DOMAIN m.enums /\ id[2] \in DOMAIN m.enums[id[1]].names
      <3>1. EnumTyped(m.enums[id[1]]) BY <2>1 DEF ModuleOK, Written, EnumsOK, IsMember
      <3> QED BY <2>1, <3>1 DEF EnumTyped, IsMember
    <2>3. ConstantNet(n) \in Range(Nets(m)) BY <2>2, ConstantNetsFacts, NetsFacts
    <2>4. ConstantNet(n).name = n /\ ConstantNet(n).net = "localparam" BY DEF ConstantNet
    <2>5. NetOf(m, n) = "localparam" BY <2>3, <2>4, OneNet
    <2> QED BY <1>3, <2>5
  <1>5. PICK id \in References(h) : NameOf(id, m) = n BY <1>4 DEF Read, MemberNames
  <1>6. id \in SignalIds(m) BY <1>1, <1>5, ReferencesAreSignals
  <1>7. id < Len(m.ports)
    <2> SUFFICES ASSUME ~(id < Len(m.ports)) PROVE FALSE OBVIOUS
    <2>1. \A p, r \in Nat : \A x \in 0..(p + r - 1) : ~(x < p) => x - p + 1 \in 1..r OBVIOUS
    <2>2. id - Len(m.ports) + 1 \in DOMAIN m.registers BY <1>2, <1>6, <2>1 DEF SignalIds
    <2>3. n = m.registers[id - Len(m.ports) + 1].name
      BY <1>5 DEF NameOf, SignalName, IsPort
    <2> QED BY <1>1, <2>2, <2>3 DEF IsRegisterName
  <1>8. id + 1 \in DOMAIN m.ports /\ m.ports[id + 1].name = n
    <2>1. \A p, r \in Nat : \A x \in 0..(p + r - 1) : x < p => x + 1 \in 1..p OBVIOUS
    <2> QED BY <1>2, <1>5, <1>6, <1>7, <2>1 DEF SignalIds, NameOf, SignalName, IsPort
  <1>9. id = d
    <2>1. id + 1 = d + 1 BY <1>1, <1>8 DEF ModuleOK, SignalsApart
    <2>2. \A x, y \in Int : x + 1 = y + 1 => x = y OBVIOUS
    <2>3. id \in Int /\ d \in Int BY <1>1, <1>2, <1>6 DEF SignalIds
    <2> QED BY <2>1, <2>2, <2>3
  <1>10. IsPort(d, m.ports) BY <1>7, <1>9 DEF IsPort
  <1> QED BY <1>1, <1>5, <1>9, <1>10 DEF OutputsRead

\*   and the other way round where no name has two meanings.
LEMMA LoopingIsRing ==
    ASSUME NEW m, ModuleOK(m), NamesChecked(m), Looping(m)
    PROVE  HasRing(m)
  <1> DEFINE forms == Range(FormsOf(m, "assign"))
             form(k) == FormsOf(m, "assign")[k]
  <1>1. PICK names \in (SUBSET {f.dest : f \in forms}) \ {{}} :
           \A n \in names : \E f \in forms : f.dest = n /\ NamesIn(f.value) \cap names # {}
    BY DEF Looping
  <1>2. \A f \in forms : \E k \in DOMAIN m.assigns : f = form(k)
    <2>1. SourceOK(m) /\ Len(m.assigns) = Len(FormsOf(m, "assign"))
      BY DEF ModuleOK, Written, AssignsOK
    <2>2. DOMAIN FormsOf(m, "assign") = DOMAIN m.assigns
      BY <2>1, FormsFacts, ModuleFacts, SortsFacts
    <2> QED BY <2>2 DEF Range
  <1> HIDE DEF forms
  <1> DEFINE ring == {m.assigns[k].dest : k \in {i \in DOMAIN m.assigns : form(i).dest \in names}}
  <1>3. ring \in SUBSET SignalIds(m)
    <2>1. \A k \in DOMAIN m.assigns : m.assigns[k].dest \in SignalIds(m) BY AssignNames
    <2> HIDE DEF form
    <2> QED BY <2>1
  <1>4. ring # {}
    <2>1. PICK n \in names : TRUE OBVIOUS
    <2>2. PICK k \in DOMAIN m.assigns : n = form(k).dest BY <1>1, <1>2
    <2> QED BY <2>2
  <1>5. ASSUME NEW s \in ring PROVE OutputsRead(s, m) \cap ring # {}
    <2>1. PICK k \in DOMAIN m.assigns : s = m.assigns[k].dest /\ form(k).dest \in names OBVIOUS
    <2>2. PICK f \in forms : f.dest = form(k).dest /\ NamesIn(f.value) \cap names # {} BY <1>1, <2>1
    <2>3. PICK j \in DOMAIN m.assigns : f = form(j) BY <1>2
    <2>4. m.assigns[j].dest = s
      <3> DEFINE x == m.assigns[j].dest
                 y == m.assigns[k].dest
      <3>1. /\ x + 1 \in DOMAIN m.ports /\ m.ports[x + 1].name = form(j).dest
            /\ y + 1 \in DOMAIN m.ports /\ m.ports[y + 1].name = form(k).dest
            /\ x \in 0..(Len(m.ports) - 1) /\ y \in 0..(Len(m.ports) - 1)
        BY AssignNames
      <3>2. x + 1 = y + 1 BY <2>2, <2>3, <3>1 DEF ModuleOK, SignalsApart
      <3>3. \A v, w \in Int : v + 1 = w + 1 => v = w OBVIOUS
      <3>4. x \in Int /\ y \in Int
        <4>1. Len(m.ports) \in Nat BY ModuleFacts
        <4> QED BY <3>1, <4>1
      <3> QED BY <2>1, <3>2, <3>3, <3>4
    <2>5. PICK n \in names : n \in NamesIn(f.value) BY <2>2
    <2>6. PICK l \in DOMAIN m.assigns : n = form(l).dest BY <1>1, <1>2
    <2>7. n \in Read(m.assigns[j].value, m) BY <2>3, <2>5, AssignNames
    <2>8. m.assigns[l].dest \in OutputsRead(s, m) BY <2>4, <2>6, <2>7, AssignedIsRead
    <2>9. m.assigns[l].dest \in ring BY <2>6
    <2> QED BY <2>8, <2>9
  <1> HIDE DEF ring
  <1>6. Ring(ring, m) BY <1>3, <1>4, <1>5 DEF Ring
  <1> QED BY <1>3, <1>6 DEF HasRing

\* A verified module has no combinational loop; and a design is refused for one
\* only if there is one: visit, which searches the assignments depth first,
\* stops at the first signal it meets twice on a path and never goes on from one
\* that is done, misses none and invents none.
THEOREM LoopsAreFound == Spec => []LoopsFound
  <1>1. TypeInv /\ WrittenInv => LoopsFound
    <2> SUFFICES ASSUME TypeInv, WrittenInv PROVE LoopsFound OBVIOUS
    <2>1. \A k \in DOMAIN design : ModuleOK(design[k]) BY DEF WrittenInv
    <2>2. ASSUME Verified, NEW k \in DOMAIN design PROVE ~Looping(design[k])
      <3>1. VerifyModule(design[k]) = "ok" BY <2>2, DesignJudged DEF WrittenInv, Concluded
      <3>2. NamesChecked(design[k]) /\ ~HasLoop(design[k]) BY <2>1, <3>1, ModuleJudged
      <3> QED BY <2>1, <3>2, LoopIsRing, LoopingIsRing
    <2>3. ASSUME Rejected("CombinationalLoop") PROVE \E k \in DOMAIN design : Looping(design[k])
      <3>1. VerifyDesign = "CombinationalLoop" BY <2>3 DEF Rejected, WrittenInv, Concluded
      <3>2. PICK k \in DOMAIN design : VerifyModule(design[k]) = "CombinationalLoop"
        BY <3>1, DesignJudged
      <3>3. HasLoop(design[k]) BY <2>1, <3>2, ModuleJudged
      <3> QED BY <2>1, <3>3, LoopIsRing, RingIsLooping
    <2> QED BY <2>2, <2>3 DEF LoopsFound
  <1> QED BY <1>1, WrittenInvariance, PTL
=============================================================================
