----------------------------- MODULE MCLowering -----------------------------
(* Instances of Lowering for TLC: names as model values. *)
EXTENDS Lowering

CONSTANTS a, b, g

MCBuiltins == <<b>>
=============================================================================
