----------------------------- MODULE MCHardware -----------------------------
(***************************************************************************)
(* Small kinds of sources for the SystemVerilog backend.  Words have four  *)
(* bits and widths end at five, so that a width can be below the word's,   *)
(* at it, beyond it, and out of range.                                     *)
(***************************************************************************)
EXTENDS HardwareProperties

MCNames == {"clk", "rst", "a", "b", "c", "x", "y", "Y", "z", "q", "r",
            "S0", "s0", "S1", "E", "e", "1w"}
MCFoldCase == [n \in MCNames |->
                  CASE n = "Y" -> "y" [] n = "S0" -> "s0" [] n = "E" -> "e" [] OTHER -> n]
MCModuleNames == {"top", "sub", "2top"}
MCIdentifiers == (MCNames \cup MCModuleNames) \ {"1w", "2top"}
MCTypes == HwTypes

Width(n) == [width |-> n]
SignedWidth(n) == [width |-> n, signed |-> "true"]
In(name, props) == PortDef("input", name, props)
Out(name, props) == PortDef("output", name, props)
Plain(value) == Num(value, <<>>)
\* At most n forms, each from this set.
Each(n, forms) == [i \in 1..n |-> forms]

-----------------------------------------------------------------------------
(* Expressions: one assignment, of every type *)

Enumeration == EnumDef("E", 2, <<"S0", "S1">>, <<1, 2>>)

Leaves ==
    {Sym(n) : n \in {"a", "b", "c", "S0"}} \cup {Plain(v) : v \in {-2, 1, 2, 7}}
Atoms ==
    Leaves \cup {Sym("x"), Quoted, Num(2, Width(0)), Num(2, Width(2)), Num(7, Width(3)),
                 Num(-2, SignedWidth(2)), Num(1, [width |-> 2, signed |-> "maybe"])}
\* Literals of types about as wide as a word, at the ends of what a word holds.
Wide ==
    {Num(v, t) : v \in {-8, -5, -4, 3, 4, 7},
                 t \in {Width(n) : n \in 2..5} \cup {SignedWidth(n) : n \in 2..5}}

\* Applications with operands from two sets.
Apply(heads, first, second) ==
    {App(h, <<e, f>>) : h \in heads, e \in first, f \in second}

Simple ==
    Apply({"+", "<", "concat"}, Atoms, Atoms)
    \cup Apply({"bit", "resize"}, Atoms, {Plain(-2), Plain(0), Plain(1), Plain(2), Plain(6), Sym("a")})
    \cup {App("slice", <<e, Plain(h), Plain(l)>>) : e \in {Sym("b"), Sym("c")},
                                               h \in 0..2, l \in 0..2}
    \cup {App("bit-not", <<e>>) : e \in Atoms \cup Wide}
    \cup {App("=", <<App("resize", <<e, Plain(1)>>), Sym("a")>>) : e \in Wide}
    \cup {App("if", <<c, e, f>>) : c \in {Sym("a"), Sym("b")}, e \in Leaves, f \in Leaves}
    \cup {App("*", <<Sym("a"), Sym("a")>>), App("if", <<Sym("a")>>), App("concat", <<>>)}

CaseExprs ==
    {Case(Sym(s), arms \o <<Arm(Else, Plain(1))>>) : s \in {"b", "c"},
        arms \in {<<>>} \cup {<<Arm(k, v)>> : k \in Leaves \cup {Num(1, Width(3))}, v \in {Sym("b"), Plain(2)}}
                 \cup {<<Arm(k, Sym("b")), Arm(j, Sym("b"))>> :
                          k \in {Plain(1), Sym("S0")}, j \in {Plain(1), Plain(2), Sym("S1"), Else}}}
    \cup {Case(Sym("b"), <<Arm(Plain(1), Sym("b")), Arm(Plain(2), Sym("b"))>>)}
    \cup {Case(Num(1, t), <<Arm(Plain(v), Sym("b")), Arm(Else, Sym("b"))>>) :
              t \in {Width(3), SignedWidth(3), SignedWidth(4)}, v \in {-5, -2, 3, 7}}

Nested ==
    LET parts == {Sym("b"), Plain(2), App("concat", <<Sym("a"), Sym("a")>>),
                  App("if", <<Sym("a"), Plain(1), Sym("b")>>), App("+", <<Plain(1), Sym("b")>>),
                  App("resize", <<Sym("b"), Plain(5)>>),
                  Case(Sym("b"), <<Arm(Sym("S0"), Sym("b")), Arm(Else, Plain(2))>>)}
    IN Apply({"+", "=", "concat"}, parts, parts)
       \cup {App("if", <<App("=", <<p, q>>), r, Plain(1)>>) : p \in parts, q \in parts, r \in parts}

ExpressionPorts ==
    {<<In("a", Width(1)), In("b", Width(2)), In("c", SignedWidth(2)), Out("y", t)>> :
        t \in {Width(1), Width(2), SignedWidth(2), Width(3), SignedWidth(3), Width(4)}}

Expressions ==
    [modules |-> {"top"}, length |-> 1, ports |-> ExpressionPorts,
     forms |-> <<{Enumeration},
                 {Assign("y", e) : e \in Atoms \cup Wide \cup Simple \cup CaseExprs \cup Nested}>>]

-----------------------------------------------------------------------------
(* Drivers: registers, declarations, blocks and assignments of one another's *)
(* signals                                                                   *)

Clk == ClockAttr("clk", "rising")
ClockedPorts == <<In("clk", Width(1)), In("a", Width(1)), Out("q", Width(1)), Out("y", Width(1))>>

Attributes ==
    {<<Clk, NextAttr(Sym("r"))>>, <<ResetAttr("a", "high", Plain(1)), NextAttr(Sym("a")), Clk>>,
     <<ResetAttr("a", "low", Plain(0)), EnableAttr(Sym("a")), NextAttr(Sym("a")),
       ClockAttr("clk", "falling")>>}

Drivers ==
    [modules |-> {"top"}, length |-> 1, ports |-> {ClockedPorts},
     forms |-> Each(4,
        {RegisterDef("r", Width(1), as) : as \in Attributes}
        \cup {OutputRegister("q", as) : as \in Attributes}
        \cup {Declaration("q", <<>>), Declaration("r", Width(1))}
        \cup {Clocked("clk", "rising", <<Set(n, Sym("a"))>>) : n \in {"q", "r"}}
        \cup {Assign(n, e) : n \in {"q", "r", "y"}, e \in {Sym("a"), Sym("q"), Sym("r")}})]

\* Registers that are wrong in one way.
BadAttributes ==
    {<<>>, <<Clk>>, <<Clk, Clk, NextAttr(Plain(0))>>, <<NextAttr(Plain(0))>>,
     <<ClockAttr("q", "rising"), NextAttr(Plain(0))>>, <<ClockAttr("b", "rising"), NextAttr(Plain(0))>>,
     <<ClockAttr("x", "rising"), NextAttr(Plain(0))>>, <<ClockAttr("c", "rising"), NextAttr(Plain(0))>>,
     <<Clk, NextAttr(Plain(2))>>, <<Clk, NextAttr(Sym("b"))>>,
     <<Clk, NextAttr(Plain(0)), EnableAttr(Sym("b"))>>, <<Clk, NextAttr(Plain(0)), EnableAttr(Sym("c"))>>,
     <<Clk, NextAttr(Plain(0)), ResetAttr("b", "high", Plain(0))>>,
     <<Clk, NextAttr(Plain(0)), ResetAttr("c", "high", Sym("b"))>>,
     <<Clk, NextAttr(Plain(0)), ResetAttr("x", "high", Plain(0))>>,
     <<Clk, NextAttr(Plain(0)), ResetAttr("c", "high", Plain(0)), EnableAttr(Sym("q"))>>}

Registers ==
    [modules |-> {"top"}, length |-> 1,
     ports |-> {<<In("clk", Width(1)), In("b", Width(2)), In("c", SignedWidth(1)), Out("q", Width(1))>>},
     forms |-> Each(2,
        {RegisterDef("r", t, as) : t \in {Width(1), Width(0), <<>>}, as \in BadAttributes}
        \cup {RegisterDef("q", Width(1), <<Clk, NextAttr(Plain(0))>>)}
        \cup {OutputRegister(n, as) : n \in {"q", "b", "x"}, as \in BadAttributes}
        \cup {Declaration(n, t) : n \in {"q", "b", "r"}, t \in {<<>>, Width(1), Width(6)}}
        \cup {Clocked(n, "rising", <<Set("q", Plain(0))>>) : n \in {"clk", "b", "c", "q", "x"}}
        \cup {Assign(n, Plain(0)) : n \in {"q", "b", "x"}})]

-----------------------------------------------------------------------------
(* Statements: clocked blocks that branch *)

SetQ == Set("q", Plain(0))
SetR == Set("r", Sym("a"))
Small == {SetQ, SetR, Do(<<SetQ, SetR>>)}
Branching ==
    {When(Sym("a"), <<s>>) : s \in Small} \cup {When(Sym("a"), <<s, t>>) : s \in Small, t \in Small}
    \cup {CaseDo(Sym("b"), <<Arm(Plain(1), s), Arm(Plain(2), t)>>) : s \in Small, t \in Small}
    \cup {CaseDo(Sym("b"), <<Arm(Sym("S0"), s), Arm(Else, t)>>) : s \in Small, t \in Small}
    \cup {CaseDo(Sym("b"), <<Arm(Else, SetQ)>>), CaseDo(Sym("b"), <<Arm(Else, SetQ), Arm(Plain(1), SetR)>>),
          CaseDo(Sym("b"), <<Arm(Plain(1), SetQ), Arm(Plain(1), SetR)>>),
          CaseDo(Sym("b"), <<Arm(Num(1, Width(2)), SetQ), Arm(Else, SetR)>>),
          CaseDo(Sym("x"), <<Arm(Plain(1), SetQ)>>), When(Sym("b"), <<SetQ>>), When(Plain(1), <<SetQ>>),
          When(Sym("a"), <<Set("x", Plain(0)), Set("a", Plain(0))>>), Set("y", Plain(0)), Do(<<>>),
          When(Sym("a"), <<When(Sym("b"), <<SetQ>>), SetR>>),
          When(Sym("a"), <<When(App("=", <<Sym("b"), Plain(1)>>), <<SetQ>>)>>)}

Bodies == {<<s>> : s \in Small \cup Branching} \cup {<<s, t>> : s \in Branching, t \in {SetQ, SetR}}
            \cup {<<s, t>> : s \in {SetQ, SetR}, t \in Branching}

Statements ==
    [modules |-> {"top"}, length |-> 1,
     ports |-> {<<In("clk", Width(1)), In("a", Width(1)), In("b", Width(2)), Out("q", Width(1)),
                  Out("r", Width(1))>>},
     forms |-> <<{Enumeration}, {Declaration("q", <<>>)}, {Declaration("r", <<>>)},
                 {Clocked("clk", "rising", b) : b \in Bodies}>>]

\* Two blocks.
Blocks ==
    [Statements EXCEPT !.forms = Each(4,
        {Declaration("q", <<>>), Declaration("r", <<>>)}
        \cup {Clocked("clk", e, <<s>>) : e \in {"rising", "falling"},
                  s \in Small \cup {When(Sym("a"), <<SetQ, SetR>>)}})]

-----------------------------------------------------------------------------
(* Loops: three outputs assigned from one another *)

Sum(names) ==
    CASE names = {} -> Sym("a")
      [] Cardinality(names) = 1 -> Sym(CHOOSE n \in names : TRUE)
      [] OTHER -> LET n == CHOOSE n \in names : TRUE
                      rest == names \ {n}
                      m == CHOOSE m \in rest : TRUE
                  IN App("bit-xor", <<Sym(n), IF rest = {m} THEN Sym(m)
                        ELSE App("bit-or", <<Sym(m), Sym(CHOOSE k \in rest \ {m} : TRUE)>>)>>)

Loops ==
    [modules |-> {"top"}, length |-> 1,
     ports |-> {<<In("a", Width(1)), Out("x", Width(1)), Out("y", Width(1)), Out("z", Width(1))>>},
     forms |-> Each(3,
        {Assign(n, Sum(s)) : n \in {"x", "y", "z"}, s \in SUBSET {"x", "y", "z"}}
        \cup {Assign("a", Sym("x"))})]

-----------------------------------------------------------------------------
(* Names: two modules, names that differ in case and no identifiers         *)

Namings ==
    [modules |-> {"top", "sub", "2top"}, length |-> 2,
     ports |-> {<<>>, <<Out("y", Width(1))>>, <<In("a", Width(1)), Out("s0", Width(1))>>,
                <<Out("y", Width(1)), In("Y", Width(1))>>, <<In("1w", Width(1))>>,
                <<In("a", Width(6))>>, <<In("a", <<>>)>>},
     forms |-> Each(3, {Enumeration, EnumDef("e", 1, <<"s0">>, <<0>>), EnumDef("E", 1, <<"x">>, <<2>>),
                EnumDef("E", 6, <<"x">>, <<0>>), EnumDef("1w", 1, <<"x">>, <<0>>),
                Declaration("S0", Width(1)), Declaration("1w", Width(1)),
                Assign("y", Plain(1)), Assign("s0", Sym("a"))})]

MCOffers ==
    [expressions |-> Expressions, drivers |-> Drivers, registers |-> Registers,
     statements |-> Statements, blocks |-> Blocks, loops |-> Loops, names |-> Namings]
DriverOffers == [drivers |-> Drivers]
=============================================================================
