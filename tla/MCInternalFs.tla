---------------------------- MODULE MCInternalFs ----------------------------
(***************************************************************************)
(* InternalFs on small instances.                                          *)
(***************************************************************************)
EXTENDS InternalFs

CONSTANTS n1, n2, c1, c2

Symmetry == Permutations({n1, n2}) \cup Permutations({c1, c2})
=============================================================================
