--------------------------- MODULE MCTunnelAgent ---------------------------
(***************************************************************************)
(* TunnelAgent on a small instance.                                        *)
(***************************************************************************)
EXTENDS TunnelAgent

CONSTANTS s1, s2, s3, r1, r2, u1
=============================================================================
