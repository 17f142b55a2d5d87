----------------------------- MODULE MCSyncedFs -----------------------------
(***************************************************************************)
(* SyncedFs on small instances.                                            *)
(***************************************************************************)
EXTENDS SyncedFs

CONSTANTS n1, n2, c1, c2, c3

Symmetry == Permutations(Name) \cup Permutations(Content)

\* One secret, and one version of it in each session as long as any is left to write.
OneAtATime ==
  /\ \A f \in File : secret[f].id = 1 /\ secret[f].type = Text
  /\ Len(secret) <= sessions
  /\ Len(secret) >= sessions - 1 \/ Len(secret) = MaxFile

\* Both moves with two files, or all three files with one move at most.
FewMovesOfManyFiles == moves + Len(secret) <= MaxFile + 1
=============================================================================
