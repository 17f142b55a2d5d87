---------------------------- MODULE MCMigration ----------------------------
(* One container, two instances of Secrez on it, a FIDO2 key and a recovery *)
(* code.                                                                   *)
EXTENDS Migration, TLC

CONSTANTS a, b, w1, w2, fido, code

Instances == Permutations(Procs)

MCMine == [pw |-> w1, it |-> 1]
=============================================================================
