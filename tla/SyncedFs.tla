------------------------------ MODULE SyncedFs ------------------------------
(***************************************************************************)
(* Two computers that share one account through a Git repository           *)
(* (README.md, "Secrez never lose secrets").  The user works on one of     *)
(* them at a time, which is the InternalFs this module extends; away is    *)
(* what is on the disk of the other.  Between two sessions the user may    *)
(* change computer, or pull and push until both folders are the same.      *)
(***************************************************************************)
EXTENDS InternalFs

CONSTANTS MaxSwitches, MaxPulls

ASSUME SyncAssumption == {MaxSwitches, MaxPulls} \subseteq Nat

VARIABLES away,   \* the disk of the computer that is not in use
          base,   \* both disks when they were last the same
          erased, \* history: the files deleted from a trash, or taken back by a command
          switches, pulls

syncVars == <<vars, away, base, erased, switches, pulls>>

Here == [disk |-> disk, index |-> index]

InitSync ==
  /\ Init
  /\ away = Here /\ base = Here /\ erased = {}
  /\ switches = 0 /\ pulls = 0

\* What git makes of a set of files that never change: what one side added or
\* deleted since they were the same.
Merge(b, ours, theirs) == (ours \cap theirs) \cup (ours \ b) \cup (theirs \ b)

Merged == [disk  |-> [d \in Dataset |-> Merge(base.disk[d], disk[d], away.disk[d])],
           index |-> [d \in Dataset |-> Merge(base.index[d], index[d], away.index[d])]]

Switch ==
  /\ ~on /\ switches < MaxSwitches
  /\ switches' = switches + 1
  /\ away' = Here
  /\ disk' = away.disk /\ index' = away.index
  /\ UNCHANGED <<secret, clock, on, memory, todo, sessions, moves, failures, base, erased, pulls>>

PullAndPush ==
  /\ ~on /\ pulls < MaxPulls
  /\ pulls' = pulls + 1
  /\ disk' = Merged.disk /\ index' = Merged.index
  /\ away' = Merged /\ base' = Merged
  /\ UNCHANGED <<secret, clock, on, memory, todo, sessions, moves, failures, erased, switches>>

\* The files a step deletes: from the trash, by a command there or by the burial of a
\* load (trashToBeDeleted), and the one a command takes back.
Erases == {f \in disk["trash"] \cup (disk["main"] \cap {draft}) :
             \A d \in Dataset : f \notin disk'[d]}

NextSync ==
  \/ Next /\ erased' = erased \cup Erases /\ UNCHANGED <<away, base, switches, pulls>>
  \/ Switch
  \/ PullAndPush

SyncSpec == InitSync /\ [][NextSync]_syncVars

-----------------------------------------------------------------------------
(* Properties.                                                               *)

OnDisks == UNION {disk[d] \cup away.disk[d] : d \in Dataset}

\* README.md, "In any case, all the contents are kept": as long as the user only adds
\* and edits, every content ever written on either computer is in a file on the disk of
\* one of them, whatever they merge and whatever the loads that follow recover and bury.
NothingLost ==
  moves = 0 => \A f \in File : \E g \in OnDisks : secret[g].content = secret[f].content

\* Whatever the user does, a version that is on neither computer was deleted while it
\* was in the trash of one of them, by a command there or by a load that buried it a
\* second time, or was taken back by the command that wrote it.  No command and no load
\* deletes a version of main, and no merge one that neither computer has deleted.
LostOnlyFromTrash == File \subseteq OnDisks \cup erased
=============================================================================
