-------------------------- MODULE MCMacroExpansion --------------------------
(* Instances of MacroExpansion for TLC. *)
EXTENDS MacroExpansion, TLC

CONSTANTS m, n
=============================================================================
