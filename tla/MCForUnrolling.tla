--------------------------- MODULE MCForUnrolling ---------------------------
(* Instances of ForUnrolling for TLC. *)
EXTENDS ForUnrolling

\* Every range of words there is.
AllBounds == Word \X Word \X Word

\* Ranges that stop, or step, at the extremes, and some small ones.
EdgeBounds == {<<s, e, p>> \in AllBounds :
                 {s, e} \cap {MinWord, MaxWord, 0} # {} /\ p \in {MinWord, -1, 0, 1, 3, MaxWord}}
=============================================================================
