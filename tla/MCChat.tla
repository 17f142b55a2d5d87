------------------------------- MODULE MCChat -------------------------------
(* A user with two loops, and another account on the same computer.        *)
EXTENDS Chat, TLC

CONSTANTS user, l1, l2, other, myself, them

MCAccountOf == user :> myself @@ l1 :> myself @@ l2 :> myself @@ other :> them
=============================================================================
