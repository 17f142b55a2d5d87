------------------------------- MODULE MCHub -------------------------------
(* A small hub: two users, one of whom signs twice.                        *)
EXTENDS Hub, TLC

CONSTANTS k1, k2, p1, p2, p3, i1, i2, i3

MCKeyOf == p1 :> k1 @@ p2 :> k1 @@ p3 :> k2
MCWhen == p1 :> 0 @@ p2 :> 1 @@ p3 :> 0
=============================================================================
