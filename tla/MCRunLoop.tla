------------------------------ MODULE MCRunLoop ------------------------------
(* Instances of RunLoop for TLC.                                              *)
EXTENDS RunLoop, TLC

CONSTANTS a, b, c, k1, k2, k3

\* Nodes that do not probe are alike, and so are cookies.
Symmetry == Permutations(Addr \ Probers) \cup Permutations(Cookies)

=============================================================================
