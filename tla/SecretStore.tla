---------------------------- MODULE SecretStore ----------------------------
(***************************************************************************)
(* What Secrez promises about the encrypted files, whatever happens to the *)
(* trees: "Secrez never lose secrets" (README.md).  A file is written once *)
(* and never changed.  It may go from one dataset to the other, and it is  *)
(* deleted only from the trash, or by the command that has just written it *)
(* and could not complete (draft).                                         *)
(***************************************************************************)
EXTENDS Naturals

VARIABLES count,   \* how many files were ever written: they are 1..count
          stored,  \* stored[d]: the files in dataset d
          draft    \* the file a command may still take back, or 0

Datasets == {"main", "trash"}

vars == <<count, stored, draft>>

Init == count = 0 /\ stored = [d \in Datasets |-> {}] /\ draft = 0

\* A new file appears; the command that wrote it may take it back, or not.
Put(d) ==
  /\ count' = count + 1
  /\ stored' = [stored EXCEPT ![d] = @ \cup {count + 1}]
  /\ draft' \in {0, count + 1}

Settle == draft' = 0 /\ UNCHANGED <<count, stored>>

TakeBack(d) ==
  /\ stored' = [stored EXCEPT ![d] = @ \ {draft}]
  /\ draft' = 0
  /\ UNCHANGED count

Carry(f, from, to) ==
  /\ f \in stored[from]
  /\ stored' = [stored EXCEPT ![from] = @ \ {f}, ![to] = @ \cup {f}]
  /\ UNCHANGED <<count, draft>>

Erase(f) ==
  /\ stored' = [stored EXCEPT !["trash"] = @ \ {f}]
  /\ UNCHANGED <<count, draft>>

Next ==
  \/ \E d \in Datasets : Put(d) \/ TakeBack(d)
  \/ Settle
  \/ \E f \in 1..count : \/ Erase(f)
                         \/ \E from, to \in Datasets : Carry(f, from, to)

Spec == Init /\ [][Next]_vars
=============================================================================
