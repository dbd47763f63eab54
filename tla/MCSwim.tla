------------------------------- MODULE MCSwim -------------------------------
(* Instances of Swim for TLC.                                                *)
EXTENDS Swim, TLC

CONSTANTS a, b, c

Symmetry == Permutations(Addr)

=============================================================================
