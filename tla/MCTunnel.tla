------------------------------ MODULE MCTunnel ------------------------------
(***************************************************************************)
(* Tunnel on small instances.                                              *)
(***************************************************************************)
EXTENDS Tunnel

CONSTANTS k1, k2, k3
=============================================================================
