---------------------------- MODULE SignalTable ----------------------------
(***************************************************************************)
(* The signals of one hardware module, as lower_module (hardware.rs)       *)
(* numbers them: HwSignalId counts the ports first and then the registers, *)
(* and everything after the lowering finds a signal's name and type by     *)
(* position.  An output port may itself be a register; it then has a place *)
(* in both sequences and keeps the id of the port.                         *)
(***************************************************************************)
EXTENDS Integers, Sequences

CONSTANTS
    Names,    \* names of signals in the source
    FoldCase, \* to_ascii_lowercase of each of them
    Types     \* hardware types

ASSUME FoldCaseAssumption == FoldCase \in [Names -> Names]

Input == "input"
Output == "output"

VARIABLES
    ports,     \* HwModule.ports
    registers, \* HwModule.registers: their names and types
    lookup     \* the local `lookup` of lower_module

table == <<ports, registers, lookup>>

Port == [direction : {Input, Output}, name : Names, ty : Types]
Register == [name : Names, ty : Types]
Signal == [id : Nat, ty : Types, direction : {Input, Output}]

-----------------------------------------------------------------------------
(* Ids and positions *)

IsPort(id, ps) == id < Len(ps)

\* signal_name and signal_type
SignalName(id, ps, rs) ==
    IF IsPort(id, ps) THEN ps[id + 1].name ELSE rs[id - Len(ps) + 1].name
SignalType(id, ps, rs) ==
    IF IsPort(id, ps) THEN ps[id + 1].ty ELSE rs[id - Len(ps) + 1].ty

IsRegister(name) == \E i \in DOMAIN registers : registers[i].name = name

\* The registers that are no ports.
Internal == SelectSeq(registers, LAMBDA r : \A i \in DOMAIN ports : ports[i].name # r.name)

\* Mutant of NewId: output ports that are registers are not counted.
NewIdInternal == Len(ports) + Len(Internal)

\* The id of the next register that is not a port.
NewId == Len(ports) + Len(registers)

Enter(name, id, ty, direction) ==
    lookup' = [n \in DOMAIN lookup \cup {name} |->
                  IF n = name THEN [id |-> id, ty |-> ty, direction |-> direction]
                  ELSE lookup[n]]

-----------------------------------------------------------------------------
(* What lower_module does to the table *)

PortTaken(name) == \E i \in DOMAIN ports : FoldCase[ports[i].name] = FoldCase[name]

AddPort(direction, name, ty) ==
    /\ registers = <<>>
    /\ ~PortTaken(name)
    /\ ports' = Append(ports, [direction |-> direction, name |-> name, ty |-> ty])
    /\ Enter(name, Len(ports), ty, direction)
    /\ UNCHANGED registers

\* A register of its own, from `registers` or from a declaration.
AddRegister(name, ty) ==
    /\ name \notin DOMAIN lookup
    /\ registers' = Append(registers, [name |-> name, ty |-> ty])
    /\ Enter(name, NewId, ty, Output)
    /\ UNCHANGED ports

\* An output port that is a register.
AddOutputRegister(name) ==
    /\ name \in DOMAIN lookup
    /\ lookup[name].direction = Output
    /\ ~IsRegister(name)
    /\ registers' = Append(registers, [name |-> name, ty |-> lookup[name].ty])
    /\ UNCHANGED <<ports, lookup>>

\* The next module has signals of its own.
ClearTable ==
    /\ ports' = <<>>
    /\ registers' = <<>>
    /\ lookup' = <<>>

EmptyTable == ports = <<>> /\ registers = <<>> /\ lookup = <<>>

TableNext ==
    \/ \E d \in {Input, Output}, n \in Names, ty \in Types : AddPort(d, n, ty)
    \/ \E n \in Names : AddOutputRegister(n) \/ \E ty \in Types : AddRegister(n, ty)
    \/ ClearTable

TableSpec == EmptyTable /\ [][TableNext]_table

-----------------------------------------------------------------------------
(* Properties *)

\* The type invariant.
TableTypeOK ==
    /\ ports \in Seq(Port)
    /\ registers \in Seq(Register)
    /\ DOMAIN lookup \subseteq Names
    /\ lookup = [n \in DOMAIN lookup |-> lookup[n]]
    /\ \A n \in DOMAIN lookup : lookup[n] \in Signal

\* The id a name was given leads back to the name and its type (signal_name,
\* signal_type), whatever was declared since, in whatever order; so two names
\* never share an id, and the text emitted for an id is the name written.
IdsNameSignals ==
    \A n \in DOMAIN lookup :
        LET id == lookup[n].id IN
        /\ id < Len(ports) + Len(registers)
        /\ SignalName(id, ports, registers) = n
        /\ SignalType(id, ports, registers) = lookup[n].ty

\* An id outlives later declarations: until the module is done, a signal that
\* was resolved keeps its id, type and direction.
IdsKept ==
    [][lookup' # <<>> => \A n \in DOMAIN lookup :
          n \in DOMAIN lookup' /\ lookup'[n] = lookup[n]]_table
=============================================================================
