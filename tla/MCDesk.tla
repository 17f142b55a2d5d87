------------------------------- MODULE MCDesk -------------------------------
(* Two names, a key, a url; a plain file, a backup of two items, a file that *)
(* cannot be decrypted; four datasets, two secrets in one of them, which may *)
(* miss one of them when it is loaded, and one more on another computer.     *)
EXTENDS Desk, TLC

CONSTANTS n1, n2, k1, k2, u1, l1, plain, backup, sealed, i1, i2, t1, older, d1, d2, d3, s1, s2, s3

\* An alias and a contact, written by an earlier session.
MCBefore ==
    {[kind |-> "alias", name |-> n1, holds |-> [key |-> l1, url |-> None], id |-> 1],
     [kind |-> "contact", name |-> n1, holds |-> [key |-> k1, url |-> u1], id |-> 2]}

MCItems == [x \in {backup} |-> {i1, i2}]

\* Two more datasets, of earlier sessions.
MCNamed == (2 :> d1) @@ (3 :> d2)

MCHolds == (2 :> {s1, s2})
=============================================================================
