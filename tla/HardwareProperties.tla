------------------------- MODULE HardwareProperties -------------------------
(***************************************************************************)
(* What the SystemVerilog backend promises of the text it emits and of the *)
(* designs it rejects.  A source is judged here by the names it is written *)
(* with: no id, table or type of the code under test is used to say what   *)
(* should have come of it.                                                 *)
(***************************************************************************)
EXTENDS Hardware

Verified == phase \in {"verified", "emitted"}
Rejected(kind) == phase = "rejected" /\ outcome = kind

\* The forms of a sort in a module, in the order of the source.
FormsOf(m, sort) == m.source.forms[sort]

\* The type invariant.
TypeOK ==
    /\ TableTypeOK
    /\ offered \in DOMAIN Offers
    /\ phase \in Range(Sorts) \cup {"between", "failed", "verified", "rejected", "emitted"}
    /\ Len(clocking) <= Len(registers)
    /\ DOMAIN members \subseteq Names
    /\ \A i \in DOMAIN assigns : assigns[i].dest \in 0..(Len(ports) + Len(registers) - 1)
    /\ \A i \in DOMAIN blocks : blocks[i].clock < Len(ports)
    /\ Len(design) <= offer.length
    /\ text # <<>> => Len(text) = Len(design)

-----------------------------------------------------------------------------
(* Types *)

\* lower_expr and the lowering of every form give each expression a type that
\* verify_hardware_design derives again: what was lowered is rejected for what
\* drives what, never for a type, a width, a literal or an unknown signal.
LoweredIsTyped ==
    phase = "rejected" =>
        outcome \in {"InvalidModule", "DuplicateModule", "DuplicateAssignment",
                     "MissingAssignment", "CombinationalLoop"}

\* A literal's bits, taken as a number of its type.
ReadBack(value, ty) ==
    LET bits == value % Power[ty.width] IN
    IF ty.signed /\ bits >= Power[ty.width - 1] THEN bits - Power[ty.width] ELSE bits

\* What `fits` accepts without looking and the type does not hold: a signed type
\* of one bit less than a word takes every word, and an unsigned one from that
\* width on takes a negative one.
TakenUnseen(value, ty) ==
    IF ty.signed THEN ty.width = WordBits - 1 /\ ~InRange(value, ty)
    ELSE ty.width >= WordBits - 1 /\ value < 0

\* At every width, the bits of the sized literal that emit_expr writes have the
\* value of the source, except exactly for what `fits` takes unseen: no literal
\* below that width, and above it no signed one, loses a bit or its sign.
LiteralsKeepValue ==
    Verified => \A k \in DOMAIN design :
        \A l \in UNION {Literals(design[k].assigns[i].value) : i \in DOMAIN design[k].assigns} :
            ReadBack(l[1], l[2]) = l[1] <=> ~TakenUnseen(l[1], l[2])

-----------------------------------------------------------------------------
(* Drivers *)

\* The registers each way through a statement sets, in order.
PathsThrough(body, paths) ==
    LET through[n \in 0..Len(body)] ==
            IF n = 0 THEN {<<>>}
            ELSE {p \o q : p \in through[n - 1], q \in paths[body[n]]}
    IN through[Len(body)]
PathsStep(s, paths) ==
    CASE s.stmt = "set" -> {<<s.target>>}
      [] s.stmt = "do" -> PathsThrough(s.body, paths)
      [] s.stmt = "if" -> (UNION {paths[s.branches[i]] : i \in DOMAIN s.branches})
                             \cup (IF Len(s.branches) = 1 THEN {<<>>} ELSE {})
      [] s.stmt = "case" -> (UNION {paths[s.arms[i].value] : i \in DOMAIN s.arms})
                             \cup (IF IsElse(Last(s.arms).key) THEN {} ELSE {<<>>})
Paths(s) ==
    LET paths[x \in Stmt] == PathsStep(x, paths)
    IN paths[s]

BlockPaths(m) ==
    LET forms == FormsOf(m, "clocked") IN
    [i \in DOMAIN forms |-> Paths(forms[i].body)]

\* A register is set twice on one path, or by two blocks.
SetTwice(m) ==
    LET paths == BlockPaths(m)
        sets(i) == UNION {Range(p) : p \in paths[i]}
    IN \/ \E i \in DOMAIN paths : \E p \in paths[i] : ~IsInjective(p)
       \/ \E i, j \in DOMAIN paths : i # j /\ sets(i) \cap sets(j) # {}

\* verify_stmt merges the updates of branches instead of following paths, and
\* compares the sums of blocks; it refuses exactly the designs in which some
\* path sets a register twice or two blocks set one.
OneUpdatePerPath ==
    /\ Verified => \A k \in DOMAIN design : ~SetTwice(design[k])
    /\ Rejected("DuplicateAssignment") => \E k \in DOMAIN design : SetTwice(design[k])

\* The outputs that form a ring: each is assigned from another one of them.
Looping(m) ==
    LET forms == Range(FormsOf(m, "assign")) IN
    \E ring \in (SUBSET {f.dest : f \in forms}) \ {{}} :
        \A n \in ring : \E f \in forms : f.dest = n /\ NamesIn(f.value) \cap ring # {}

\* visit finds a combinational loop in exactly the modules that have one,
\* whatever the order of the assignments and however paths meet again.
LoopsFound ==
    /\ Verified => \A k \in DOMAIN design : ~Looping(design[k])
    /\ Rejected("CombinationalLoop") => \E k \in DOMAIN design : Looping(design[k])

\* Every signal has one driver: of the assignments, registers and clocked blocks
\* of a module no two write to the same name.
OneDriver ==
    phase = "emitted" => \A k \in DOMAIN text :
        \A i, j \in DOMAIN text[k].drives :
            i # j => text[k].drives[i].writes \cap text[k].drives[j].writes = {}

-----------------------------------------------------------------------------
(* The emitted text *)

\* The names a statement sets and reads.
WantedStep(s, wanted) ==
    LET all(parts) == [writes |-> UNION {wanted[parts[i]].writes : i \in DOMAIN parts},
                       reads |-> UNION {wanted[parts[i]].reads : i \in DOMAIN parts}]
        reads(names, parts) == [all(parts) EXCEPT !.reads = @ \cup names]
        keys(arms) == UNION {NamesIn(arms[i].key) \ {"else"} : i \in DOMAIN arms}
    IN CASE s.stmt = "set" -> [writes |-> {s.target}, reads |-> NamesIn(s.value)]
         [] s.stmt = "do" -> all(s.body)
         [] s.stmt = "if" -> reads(NamesIn(s.cond), s.branches)
         [] s.stmt = "case" -> reads(NamesIn(s.cond) \cup keys(s.arms),
                                     [i \in DOMAIN s.arms |-> s.arms[i].value])
Wanted(s) ==
    LET wanted[x \in Stmt] == WantedStep(x, wanted)
    IN wanted[s]

\* The driver that a form asks for.
WantedEdge(edge) == CASE edge = "rising" -> "posedge" [] edge = "falling" -> "negedge"
WantedOf(f) ==
    CASE f.sort = "assign" ->
            [driver |-> "assign", writes |-> {f.dest}, reads |-> NamesIn(f.value)]
      [] f.sort = "clocked" ->
            LET body == Wanted(f.body) IN
            [driver |-> "always", edge |-> WantedEdge(f.edge), clock |-> f.clock,
             writes |-> body.writes, reads |-> body.reads]
      [] f.sort \in {"register", "direct"} ->
            LET clock == CHOOSE a \in Range(f.attributes) : a.attr = "clock"
                readBy(a) == IF a.attr = "clock" THEN {}
                             ELSE NamesIn(a.value)
                                    \cup (IF a.attr = "reset" THEN {a.signal} ELSE {})
            IN [driver |-> "always", edge |-> WantedEdge(clock.edge), clock |-> clock.signal,
                reset |-> {<<a.signal, a.level>> :
                             a \in {b \in Range(f.attributes) : b.attr = "reset"}},
                writes |-> {f.name}, reads |-> UNION {readBy(a) : a \in Range(f.attributes)}]

\* signal_name leads every id back to the name the source wrote: the drivers
\* that are emitted are those of the source, in its order, each with the clock,
\* destinations and operands it was written with.
EmittedAsWritten ==
    phase = "emitted" => \A k \in DOMAIN text :
        LET forms == FormsOf(design[k], "assign") \o FormsOf(design[k], "register")
                       \o FormsOf(design[k], "direct") \o FormsOf(design[k], "clocked")
        IN text[k].drives = [i \in DOMAIN forms |-> WantedOf(forms[i])]

DistinctNames(names) ==
    \A i, j \in DOMAIN names : FoldCase[names[i]] = FoldCase[names[j]] => i = j

\* The emitted module is closed and its nets are of the right kind: every name
\* is declared once, even if case is ignored, what `always_ff` writes is a
\* variable, what `assign` writes is a wire, and nothing else is read or written.
DeclaredAsDriven ==
    phase = "emitted" => \A k \in DOMAIN text :
        LET nets == Range(text[k].nets)
            declared == {n.name : n \in nets}
            kind(name) == (CHOOSE n \in nets : n.name = name).net
        IN /\ DistinctNames([i \in DOMAIN text[k].nets |-> text[k].nets[i].name])
           /\ \A d \in Range(text[k].drives) :
                 /\ d.reads \cup d.writes \subseteq declared
                 /\ \A name \in d.writes :
                       kind(name) = IF d.driver = "always" THEN "logic" ELSE "wire"
                 /\ d.driver = "always" => d.clock \in declared /\ kind(d.clock) = "input"
=============================================================================
