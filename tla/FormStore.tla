------------------------------ MODULE FormStore ------------------------------
(***************************************************************************)
(* What a session keeps of the forms it is given, and all that a host, the *)
(* evaluator or a later form may rely on: names and functions stay where   *)
(* their ids say, a form enters whole or not at all, and no two loops kept *)
(* have one id.  How a form is lowered is left open; Lowering implements   *)
(* this.                                                                   *)
(***************************************************************************)
EXTENDS Integers, SequencesExt

CONSTANTS
    Interned, \* names read from the source text
    Builtins  \* the registry of a new session

VARIABLES
    names,     \* by GlobalId
    committed, \* id and loops of each function of the module, by FunctionId
    counter,   \* the loop id the next form starts from
    open,      \* a form is being lowered
    result     \* what became of the last form

store == <<names, committed, counter, open, result>>

Init ==
    /\ names = Builtins
    /\ committed = <<>>
    /\ counter = 0
    /\ open = FALSE
    /\ result = "none"

\* A name is registered once, and at the end.
NamesGrow ==
    \/ names' = names
    \/ \E n \in Interned \ Range(names) : names' = Append(names, n)

Begin ==
    /\ ~open /\ open'
    /\ result' = "lowering"
    /\ NamesGrow
    /\ UNCHANGED <<committed, counter>>

Work ==
    /\ open /\ open'
    /\ NamesGrow
    /\ UNCHANGED <<committed, counter, result>>

\* The functions of the form go to the end, each to the place its id says, and
\* their loops have ids that no form had before.
Commit ==
    /\ open /\ ~open'
    /\ result' = "committed"
    /\ IsPrefix(committed, committed')
    /\ counter' >= counter
    /\ \A i \in (Len(committed) + 1)..Len(committed') :
          /\ committed'[i].id = i - 1
          /\ committed'[i].loops \subseteq counter..(counter' - 1)
          /\ \A j \in (Len(committed) + 1)..(i - 1) :
                committed'[i].loops \cap committed'[j].loops = {}
    /\ UNCHANGED names

\* A form is refused while it is lowered or at its head, never after.
Refuse ==
    /\ ~open'
    /\ result' = "failed"
    /\ UNCHANGED <<names, committed, counter>>

Next == Begin \/ Work \/ Commit \/ Refuse

Spec == Init /\ [][Next]_store
=============================================================================
