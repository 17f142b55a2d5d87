----------------------------- MODULE InternalFs -----------------------------
(***************************************************************************)
(* The encrypted file system of one computer: Tree and InternalFs of       *)
(* packages/fs, driven by the commands that change it (mkdir, touch, edit, *)
(* paste, mv, rm).                                                         *)
(*                                                                         *)
(* What survives a crash is on disk: the secret files and the index files  *)
(* of each dataset.  Everything else lives in memory and is rebuilt by the *)
(* load that starts the next session.  A command changes the tree in       *)
(* memory at once and the disk one file at a time, so todo holds what the  *)
(* running command, or load, has still to do; a crash may come between any *)
(* two of these steps.                                                     *)
(***************************************************************************)
EXTENDS SecretTree

CONSTANTS MaxFile,      \* how many files the commands may write
          MaxSessions,  \* how many sessions have commands and crashes
          MaxRestarts,  \* how many starts without any may follow
          MaxFailures,  \* how many writes of an index may fail
          MaxMoves,     \* how many nodes the commands may move or delete
          Active,       \* the datasets in which users create and edit secrets
          Habits        \* what users and computers may do; see the ASSUME

ASSUME BoundsAssumption ==
  /\ {MaxFile, MaxSessions, MaxRestarts, MaxFailures, MaxMoves} \subseteq Nat
  /\ Active \subseteq {"main", "trash"}
  /\ Habits \subseteq {"crash",      \* the program may be killed at any step
                       "nest",       \* mv of a folder into itself
                       "below",      \* mv to a path that goes through a file
                       "overwrite",  \* mv onto a file of the other dataset
                       "span",       \* mv --find --span into the other dataset
                       "ghost"}      \* rm of a node below a folder of the trash whose
                                     \* name is taken at the root of the trash

VARIABLES disk,      \* disk[d]: the secret files in the folder of dataset d
          index,     \* index[d]: its index files, each with its timestamp
          clock,     \* the timestamp of the last index that was written
          on,        \* the program is running
          tree,      \* tree[d]: the tree in memory
          mine,      \* mine[d]: the timestamp of previousRootEntry, or 0
          muted,     \* the datasets whose doNotSave is set
          doomed,    \* doomed[d]: the file of each node of toBeDeleted
          draft,     \* the file the command deletes if it cannot index it, or 0
          todo,      \* the steps the running command has left
          sessions, moves, failures

disks  == <<secret, disk, index, clock>>
memory == <<tree, mine, muted, doomed, draft>>
vars   == <<secret, disk, index, clock, on, tree, mine, muted, doomed, draft, todo,
            sessions, moves, failures>>

Dataset == {"main", "trash"}
Other(d) == IF d = "main" THEN "trash" ELSE "main"

\* After the sessions with commands the program is only started and stopped.
Retired == sessions > MaxSessions

Idle     == on /\ todo = <<>>
Doing(k) == on /\ todo # <<>> /\ Head(todo).do = k
Rest     == Tail(todo)

\* The steps that only a load has.
LoadSteps == {"load", "recover", "unlist", "gather", "prune", "bury", "ready"}
Loading   == \E i \in 1..Len(todo) : todo[i].do \in LoadSteps

Save(d) == <<[do |-> "save", ds |-> d]>>

Init ==
  /\ secret = <<>>
  /\ disk  = [d \in Dataset |-> {}]
  /\ index = [d \in Dataset |-> {}]
  /\ clock = 0
  /\ on = FALSE
  /\ tree = [d \in Dataset |-> {}]
  /\ mine = [d \in Dataset |-> 0]
  /\ muted = {}
  /\ doomed = [d \in Dataset |-> {}]
  /\ draft = 0
  /\ todo = <<>>
  /\ sessions = 0
  /\ moves = 0
  /\ failures = 0

-----------------------------------------------------------------------------
(* Tree.save().  The index that this session wrote last is deleted, then the *)
(* new one is written.                                                       *)

Unsaved ==
  /\ Doing("save") /\ Head(todo).ds \in muted
  /\ todo' = Rest /\ draft' = 0
  /\ UNCHANGED <<disks, on, tree, mine, muted, doomed, sessions, moves, failures>>

UnlinkIndex ==
  /\ Doing("save") /\ Head(todo).ds \notin muted
  /\ LET d == Head(todo).ds IN
       /\ index' = [index EXCEPT ![d] = {x \in @ : x.ts # mine[d]}]
       /\ mine'  = [mine EXCEPT ![d] = 0]
  /\ todo' = <<[Head(todo) EXCEPT !.do = "write"]>> \o Rest
  /\ UNCHANGED <<secret, disk, clock, on, tree, muted, doomed, draft, sessions, moves, failures>>

WriteIndex ==
  /\ Doing("write")
  /\ LET d == Head(todo).ds IN
       /\ clock' = clock + 1
       /\ index' = [index EXCEPT ![d] = @ \cup {[ts |-> clock + 1, tree |-> tree[d]]}]
       /\ mine'  = [mine EXCEPT ![d] = clock + 1]
  /\ todo' = Rest /\ draft' = 0
  /\ UNCHANGED <<secret, disk, on, tree, muted, doomed, sessions, moves, failures>>

\* Mutant: the newest file goes, whoever wrote it.
WriteFailsMutant ==
  /\ Doing("write") /\ ~Loading
  /\ failures < MaxFailures
  /\ disk' = [disk EXCEPT ![Head(todo).ds] = @ \ {Len(secret)}]
  /\ todo' = <<>> /\ draft' = 0
  /\ failures' = failures + 1
  /\ UNCHANGED <<secret, index, clock, on, tree, mine, muted, doomed, sessions, moves>>

\* The disk refuses the index and the exception ends the command.  add() and
\* update() then delete the file they had written, and leave the node in memory.
\* (When it is a load that fails, the program does not start: that is Stop.)
WriteFails ==
  /\ Doing("write") /\ ~Loading
  /\ failures < MaxFailures
  /\ disk' = [disk EXCEPT ![Head(todo).ds] = @ \ {draft}]
  /\ todo' = <<>> /\ draft' = 0
  /\ failures' = failures + 1
  /\ UNCHANGED <<secret, index, clock, on, tree, mine, muted, doomed, sessions, moves>>

-----------------------------------------------------------------------------
(* Commands that write one file and save.                                    *)

\* saveEntry(): a new version of the secret id appears in the folder of d.
Write(d, id, type, n, c) ==
  /\ secret' = Append(secret, [id |-> id, type |-> type, name |-> n, content |-> c])
  /\ disk'   = [disk EXCEPT ![d] = @ \cup {Len(secret) + 1}]

Room == ~Retired /\ Len(secret) < MaxFile

\* InternalFs.make() with Tree.add(): the path must be free.  A make that misses
\* several folders is as many of these steps.
Add(d, q, n, type, c) ==
  /\ Idle /\ Room
  /\ Called(tree[d], q, n) = {}
  /\ (c = Empty) = (type = Dir)
  /\ LET f == Len(secret) + 1 IN
       /\ Write(d, f, type, n, c)
       /\ tree' = [tree EXCEPT ![d] = Graft(@, q, f, f)]
       /\ todo' = Save(d) /\ draft' = f
  /\ UNCHANGED <<index, clock, on, mine, muted, doomed, sessions, moves, failures>>

\* A new content for a file: edit calls Tree.update(), which undoes the write of a
\* file it cannot index (undoes), paste calls InternalFs.change(), which does not.
Edit(d, p, c, undoes) ==
  /\ Idle /\ Room
  /\ c # NodeContent(tree[d], p)
  /\ LET f == Len(secret) + 1 IN
       /\ Write(d, Last(p), Text, NodeName(tree[d], p), c)
       /\ tree' = [tree EXCEPT ![d] = AddVersion(@, p, f)]
       /\ todo' = Save(d) /\ draft' = IF undoes THEN f ELSE 0
  /\ UNCHANGED <<index, clock, on, mine, muted, doomed, sessions, moves, failures>>

-----------------------------------------------------------------------------
(* Mv.mv(), which rm uses too, calls InternalFs.change() on one node after     *)
(* another while saving is disabled, then enables it and saves.                *)

\* The command takes one node more: its first one, or the next of its list.  A
\* list of several nodes needs a target folder, so none of them gets a new name.
Taking(from, to, goal, alone) ==
  /\ ~Retired /\ moves < MaxMoves /\ moves' = moves + 1
  /\ \/ Idle /\ muted' = muted \cup {from, to}
     \/ /\ Doing("mv") /\ Head(todo).more /\ ~alone
        /\ <<Head(todo).from, Head(todo).to, Head(todo).goal>> = <<from, to, goal>>
        /\ UNCHANGED muted

\* What is left to do then.  inner says that the node has taken others along, which
\* the list may name too.
Then(steps, from, to, goal, alone, inner) ==
  todo' = steps \o <<[do |-> "mv", from |-> from, to |-> to, goal |-> goal, more |-> ~alone,
                      taken |-> inner \/ (~Idle /\ Head(todo).taken)]>>

\* Mutant: the new file is that of a new secret.
MayRenameMutant(d, p, n) ==
  /\ n \in Name \cup {NodeName(tree[d], p)}
  /\ IF n = NodeName(tree[d], p)
       THEN UNCHANGED <<secret, disk>>
       ELSE Room /\ Write(d, Len(secret) + 1, Text, n, NodeContent(tree[d], p))

\* A node that changes its name gets a new file, in the dataset it comes from.
MayRename(d, p, n) ==
  /\ n \in Name \cup {NodeName(tree[d], p)}
  /\ IF n = NodeName(tree[d], p)
       THEN UNCHANGED <<secret, disk>>
       ELSE /\ Room
            /\ Write(d, Last(p), secret[Newest(Versions(tree[d], p))].type, n,
                     NodeContent(tree[d], p))

Renamed(d, p, n) == IF n = NodeName(tree[d], p) THEN tree[d]
                                                ELSE AddVersion(tree[d], p, Len(secret) + 1)

\* The target q exists (or the move is Refused), and n is free in it: n is the name the
\* node has, the number that makes it free when it is taken, or the name asked for.
MoveWithin(d, p, q, n) ==
  LET same  == Id(q) = Id(Front(p))
      alone == n # NodeName(tree[d], p) /\ (same \/ Called(tree[d], q, NodeName(tree[d], p)) = {})
  IN
  /\ Taking(d, d, q, alone)
  /\ Called(tree[d], q, n) = {}
  /\ IsPrefix(p, q) => "nest" \in Habits
  /\ MayRename(d, p, n)
  /\ tree' = [tree EXCEPT ![d] = IF same THEN Renamed(d, p, n)
                                         ELSE Relocate(Renamed(d, p, n), q, p)]
  /\ Then(<<>>, d, d, q, alone, FALSE)
  /\ UNCHANGED <<index, clock, on, mine, doomed, draft, sessions, failures>>

\* The same with a target in the other dataset.  The code moves the files before it
\* changes the tree, which nobody looks at before the command is over.  The old parent is
\* looked for by its id, which another folder (holder) may have too; a node with a new
\* name has already left its own, unless both are roots.
MoveAcross(from, p, q, n, holder) ==
  LET to    == Other(from)
      alone == n # NodeName(tree[from], p) /\ Called(tree[to], q, NodeName(tree[from], p)) = {}
      t     == Renamed(from, p, n)
      left  == IF n # NodeName(tree[from], p) /\ Id(Front(p)) # Id(q) THEN Uproot(t, p) ELSE t
  IN
  /\ Taking(from, to, q, alone)
  /\ Called(tree[to], q, n) = {}
  /\ Id(holder) = Id(Front(p))
  /\ MayRename(from, p, n)
  /\ tree' = [tree EXCEPT ![from] = Uproot(left, Append(holder, Last(p))),
                          ![to]   = Plant(@, q, p, Subtree(t, p))]
  /\ Then(<<[do |-> "shift", from |-> from, moving |-> Subtree(t, p)]>>,
          from, to, q, alone, Cardinality(Nodes(Subtree(t, p))) > 1)
  /\ UNCHANGED <<index, clock, on, mine, doomed, draft, sessions, failures>>

\* Onto a file that exists in the other dataset: change() finds no target folder and
\* keeps the parent the node has, but moves the files to the other dataset.
MoveOnto(from, p, n, holder) ==
  LET t == Renamed(from, p, n) IN
  /\ "overwrite" \in Habits
  /\ Taking(from, Other(from), <<>>, TRUE)
  /\ n # NodeName(tree[from], p)
  /\ Called(tree[from], Front(p), n) = {}
  /\ Id(holder) = Id(Front(p))
  /\ MayRename(from, p, n)
  /\ tree' = [tree EXCEPT ![from] = IF holder = Front(p) THEN t
                                    ELSE Uproot(t, Append(holder, Last(p)))]
  /\ Then(<<[do |-> "shift", from |-> from, moving |-> Subtree(t, p)]>>,
          from, Other(from), <<>>, TRUE, FALSE)
  /\ UNCHANGED <<index, clock, on, mine, doomed, draft, sessions, failures>>

\* To a path that goes through a file: the file is taken for the target folder, and
\* refuses the node only after the node has left its parent.  The exception ends the
\* command, and leaves saving disabled.
MoveBelow(from, to, p, n) ==
  LET t == Renamed(from, p, n) IN
  /\ "below" \in Habits /\ Idle /\ ~Retired /\ moves < MaxMoves
  /\ MayRename(from, p, n)
  /\ moves' = moves + 1
  /\ muted' = muted \cup {from, to}
  /\ tree'  = [tree EXCEPT ![from] = Uproot(@, p)]
  /\ todo'  = IF from = to \/ n # NodeName(tree[from], p) THEN <<>>
              ELSE <<[do |-> "shift", from |-> from, moving |-> Subtree(t, p)]>>
  /\ UNCHANGED <<index, clock, on, mine, doomed, draft, sessions, failures>>

\* rm in the trash deletes the files.  A node below a folder whose name is taken at
\* the root of the trash is first moved there, and stays there without its files.
Destroy(p, n) ==
  LET t     == Renamed("trash", p, n)
      ghost == n # NodeName(tree["trash"], p)
  IN
  /\ Taking("trash", "trash", <<>>, FALSE)
  /\ ghost <=> Len(p) > 1 /\ Called(tree["trash"], <<>>, NodeName(tree["trash"], p)) # {}
  /\ ghost => "ghost" \in Habits /\ Called(tree["trash"], <<>>, n) = {}
  /\ MayRename("trash", p, n)
  /\ tree' = [tree EXCEPT !["trash"] = IF ghost THEN Relocate(t, <<>>, p) ELSE Uproot(t, p)]
  /\ Then(<<[do |-> "destroy", moving |-> Subtree(t, p)]>>,
          "trash", "trash", <<>>, FALSE, FALSE)
  /\ UNCHANGED <<index, clock, on, mine, doomed, draft, sessions, failures>>

\* moveOrUnlink(): one file after another, a folder's own files before those below;
\* a file that is not there is passed over.
NextFile(e) ==
  /\ e \in Head(todo).moving
  /\ \A x \in Head(todo).moving : IsPrefix(x.at, e.at) => x.at = e.at
  /\ LET left == Head(todo).moving \ {e}
     IN  todo' = IF left = {} THEN Rest ELSE <<[Head(todo) EXCEPT !.moving = left]>> \o Rest

\* Mutant: fs.copy() in the place of fs.move().
ShiftMutantCopy(f, from, to) ==
  disk' = IF f \in disk[from] THEN [disk EXCEPT ![to] = @ \cup {f}] ELSE disk

Shift(f, from, to) ==
  disk' = IF f \in disk[from] THEN [disk EXCEPT ![from] = @ \ {f}, ![to] = @ \cup {f}]
                              ELSE disk

\* Mutant: a file that is not there is waited for.
ShiftFileMutant(e) ==
  /\ Doing("shift") /\ NextFile(e)
  /\ e.file \in disk[Head(todo).from]
  /\ Shift(e.file, Head(todo).from, Other(Head(todo).from))
  /\ UNCHANGED <<secret, index, clock, on, memory, sessions, moves, failures>>

ShiftFile(e) ==
  /\ Doing("shift") /\ NextFile(e)
  /\ Shift(e.file, Head(todo).from, Other(Head(todo).from))
  /\ UNCHANGED <<secret, index, clock, on, memory, sessions, moves, failures>>

DestroyFile(e) ==
  /\ Doing("destroy") /\ NextFile(e)
  /\ disk' = [disk EXCEPT !["trash"] = @ \ {e.file}]
  /\ UNCHANGED <<secret, index, clock, on, memory, sessions, moves, failures>>

\* Mutant: only the dataset the nodes come from is saved.
MvDoneMutant ==
  /\ Doing("mv")
  /\ LET from == Head(todo).from
         to   == Head(todo).to
         Enable(d) == <<[do |-> "unmute", ds |-> d]>>
     IN  todo' = Enable(from) \o Save(from) \o (IF to = from THEN <<>> ELSE Enable(to))
  /\ UNCHANGED <<disks, on, memory, sessions, moves, failures>>

\* The end of the list.
MvDone ==
  /\ Doing("mv")
  /\ LET from == Head(todo).from
         to   == Head(todo).to
         Finish(d) == <<[do |-> "unmute", ds |-> d]>> \o Save(d)
     IN  todo' = Finish(from) \o (IF to = from THEN <<>> ELSE Finish(to))
  /\ UNCHANGED <<disks, on, memory, sessions, moves, failures>>

Unmute ==
  /\ Doing("unmute")
  /\ muted' = muted \ {Head(todo).ds}
  /\ todo'  = Rest
  /\ UNCHANGED <<disks, on, tree, mine, doomed, draft, sessions, moves, failures>>

\* The next node of the list has left the dataset with its folder: its path is not
\* found there any more, and the exception leaves saving disabled.  (The throw that
\* needs nothing unusual comes with the first node: Refused.)
MvThrows ==
  /\ "span" \in Habits
  /\ Doing("mv") /\ Head(todo).taken
  /\ todo' = <<>>
  /\ UNCHANGED <<disks, on, memory, sessions, moves, failures>>

-----------------------------------------------------------------------------
(* Starting and stopping.                                                    *)

\* InternalFs.init(): the main dataset is loaded, then the trash, and what each
\* load wants to get rid of is buried.
Start ==
  /\ ~on /\ sessions < MaxSessions + MaxRestarts
  /\ on' = TRUE
  /\ sessions' = sessions + 1
  /\ todo' = <<[do |-> "load", ds |-> "main"], [do |-> "load", ds |-> "trash"],
               [do |-> "bury", ds |-> "trash"], [do |-> "bury", ds |-> "main"],
               [do |-> "ready"]>>
  /\ UNCHANGED <<disks, memory, moves, failures>>

\* The user quits, or the program is killed.  Only the disk stays.
Stop ==
  /\ on /\ (todo # <<>> => "crash" \in Habits /\ ~Retired)
  /\ on' = FALSE
  /\ tree'   = [d \in Dataset |-> {}]
  /\ mine'   = [d \in Dataset |-> 0]
  /\ muted'  = {}
  /\ doomed' = [d \in Dataset |-> {}]
  /\ draft'  = 0
  /\ todo'   = <<>>
  /\ UNCHANGED <<disks, sessions, moves, failures>>

-----------------------------------------------------------------------------
(* Tree.load().                                                              *)

LastIndex(d) == CHOOSE x \in index[d] : \A y \in index[d] : y.ts <= x.ts
Older(d)     == index[d] \ {LastIndex(d)}

\* Where the older indexes say that the files lost are, olds[x] being the tree that
\* index x becomes: spot[f] is the path of names of a node with the id of f in the
\* newest that has f, from[f].  Of the files with the same path the last one
\* written there stays, and the others are not looked for any more: they are in no
\* set of the result.
Located(olds, lost) ==
  LET Having(f) == {x \in DOMAIN olds : f \in Files(olds[x])}
      found     == {f \in lost : Having(f) # {}}
      from      == [f \in found |-> CHOOSE x \in Having(f) : \A y \in Having(f) : y.ts <= x.ts]
      Spots(f)  == {NamePath(olds[from[f]], p) :
                      p \in {q \in Nodes(olds[from[f]]) : Last(q) = secret[f].id}}
      Later(g, f) == from[g].ts < from[f].ts \/ (from[g] = from[f] /\ g < f)
  IN  {[paths |-> {[path |-> spot[f], file |-> f] :
                     f \in {g \in found : \A h \in found : spot[h] = spot[g] => ~Later(h, g)}},
        rest  |-> lost \ found] :
          spot \in {s \in [found -> UNION {Spots(f) : f \in found}] :
                      \A f \in found : s[f] \in Spots(f)}}

\* The trees the older indexes of d can become.
Olds(d) ==
  LET Can(x) == Loaded(x.tree, disk[d])
  IN  {o \in [Older(d) -> UNION {Can(x) : x \in Older(d)}] : \A x \in Older(d) : o[x] \in Can(x)}

Recover(d, paths, rest, done) ==
  <<[do |-> "recover", ds |-> d, paths |-> paths, rest |-> rest, done |-> done]>>

\* Of the indexes found on disk only the newest two are kept.
Prune(d) ==
  LET old == {x \in index[d] : Cardinality({y \in index[d] : y.ts > x.ts}) >= 2}
  IN  <<[do |-> "prune", ds |-> d, old |-> {x.ts : x \in old}]>>

LoadEmpty(d) ==
  /\ Doing("load") /\ Head(todo).ds = d
  /\ disk[d] = {}
  /\ todo' = Rest
  /\ UNCHANGED <<disks, on, memory, sessions, moves, failures>>

\* Without an index all the secrets go to a new folder.
LoadWithoutIndex(d) ==
  /\ Doing("load") /\ Head(todo).ds = d
  /\ disk[d] # {} /\ index[d] = {}
  /\ todo' = <<[do |-> "unlist", ds |-> d, rest |-> disk[d]]>> \o Save(d) \o Rest
  /\ UNCHANGED <<disks, on, memory, sessions, moves, failures>>

\* The newest index gives the tree; the older ones are asked for what it has not.
LoadIndex(d) ==
  /\ Doing("load") /\ Head(todo).ds = d
  /\ disk[d] # {} /\ index[d] # {}
  /\ \E t \in Loaded(LastIndex(d).tree, disk[d]) :
       /\ tree' = [tree EXCEPT ![d] = t]
       /\ \/ disk[d] \subseteq Files(t) /\ todo' = Prune(d) \o Rest
          \/ /\ ~(disk[d] \subseteq Files(t))
             /\ \E olds \in Olds(d) : \E l \in Located(olds, disk[d] \ Files(t)) :
                  todo' = Recover(d, l.paths, l.rest, FALSE) \o Prune(d) \o Rest
  /\ UNCHANGED <<disks, on, mine, muted, doomed, draft, sessions, moves, failures>>

\* addAsChildOrVersion(): the file of r goes below the folder that the rest of its
\* path leads to, or below the root.  If the first child with its name is its own
\* node the file is doomed, and a version of that node if its content is new;
\* otherwise it becomes a node, in place of the one with its id.
RecoverOne(r) ==
  LET d    == Head(todo).ds
      s    == secret[r.file]
      home == {p \in Lookup(tree[d], Front(r.path)) : IsDir(tree[d], p)}
      todoOf(done) == Recover(d, Head(todo).paths \ {r}, Head(todo).rest, done) \o Rest
  IN
  /\ Doing("recover")
  /\ r \in Head(todo).paths
  /\ \A x \in Head(todo).paths : IsPrefix(x.path, r.path) => x = r
  /\ \E q \in IF home = {} THEN {<<>>} ELSE home :
       LET same == Called(tree[d], q, s.name)
           node == Append(q, s.id)
           news == s.type = Text /\ s.content # NodeContent(tree[d], node)
       IN
       \/ /\ node \in same
          /\ doomed' = [doomed EXCEPT ![d] = @ \cup {r.file}]
          /\ tree' = IF news THEN [tree EXCEPT ![d] = AddVersion(@, node, r.file)] ELSE tree
          /\ todo' = todoOf(Head(todo).done \/ news)
       \/ /\ same # {node}
          /\ tree' = [tree EXCEPT ![d] = Graft(@, q, s.id, r.file)]
          /\ todo' = todoOf(TRUE)
          /\ UNCHANGED doomed
  /\ UNCHANGED <<disks, on, mine, muted, draft, sessions, moves, failures>>

Recovered ==
  /\ Doing("recover") /\ Head(todo).paths = {}
  /\ LET d == Head(todo).ds
         rest == Head(todo).rest
     IN  todo' = (IF rest = {} THEN <<>> ELSE <<[do |-> "unlist", ds |-> d, rest |-> rest]>>)
                 \o (IF rest = {} /\ ~Head(todo).done THEN <<>> ELSE Save(d)) \o Rest
  /\ UNCHANGED <<disks, on, memory, sessions, moves, failures>>

\* recoverUnlisted(): a new folder, saved, then all the files in it, saved again.
Unlist ==
  /\ Doing("unlist")
  /\ LET d == Head(todo).ds
         f == Len(secret) + 1
     IN  /\ Write(d, f, Dir, RecName(f), Empty)
         /\ tree' = [tree EXCEPT ![d] = Graft(@, <<>>, f, f)]
         /\ todo' = Save(d) \o <<[do |-> "gather", ds |-> d, rest |-> Head(todo).rest, rec |-> f]>>
                    \o Save(d) \o Rest
  /\ UNCHANGED <<index, clock, on, mine, muted, doomed, draft, sessions, moves, failures>>

\* The files come newest first and each one makes a node: of the versions of one
\* secret the oldest stays.
Gather ==
  /\ Doing("gather")
  /\ LET rest == Head(todo).rest
         last == {f \in rest : \A g \in rest : secret[g].id = secret[f].id => f <= g}
     IN  tree' = [tree EXCEPT ![Head(todo).ds] = @ \cup
                    {[at |-> <<Head(todo).rec, secret[f].id>>, file |-> f] : f \in last}]
  /\ todo' = Rest
  /\ UNCHANGED <<disks, on, mine, muted, doomed, draft, sessions, moves, failures>>

\* The old indexes are deleted one by one.
PruneIndex ==
  /\ Doing("prune")
  /\ LET d   == Head(todo).ds
         old == Head(todo).old
     IN  IF old = {}
           THEN todo' = Rest /\ UNCHANGED index
           ELSE /\ index' = [index EXCEPT ![d] = {x \in @ : x.ts # Newest(old)}]
                /\ todo'  = <<[Head(todo) EXCEPT !.old = @ \ {Newest(old)}]>> \o Rest
  /\ UNCHANGED <<secret, disk, clock, on, memory, sessions, moves, failures>>

-----------------------------------------------------------------------------
(* trashToBeDeleted(): the doomed nodes go to the root of the trash, and those *)
(* of the trash itself are deleted.                                            *)

\* Mutant: what is buried is deleted, in any dataset.
BuryMutant(f) ==
  /\ Doing("bury")
  /\ LET d == Head(todo).ds IN
       /\ f \in doomed[d]
       /\ doomed' = [doomed EXCEPT ![d] = @ \ {f}]
       /\ disk' = [disk EXCEPT ![d] = @ \ {f}]
       /\ todo' = IF doomed'[d] = {} THEN Save(d) \o Save("trash") \o Rest ELSE todo
  /\ UNCHANGED <<secret, tree, index, clock, on, mine, muted, draft, sessions, moves, failures>>

Bury(f) ==
  /\ Doing("bury")
  /\ LET d == Head(todo).ds IN
       /\ f \in doomed[d]
       /\ doomed' = [doomed EXCEPT ![d] = @ \ {f}]
       /\ IF d = "trash"
            THEN /\ disk' = [disk EXCEPT ![d] = @ \ {f}]
                 /\ UNCHANGED tree
            ELSE /\ Shift(f, d, "trash")
                 /\ tree' = [tree EXCEPT !["trash"] = Graft(@, <<>>, secret[f].id, f)]
       /\ todo' = IF doomed'[d] = {} THEN Save(d) \o Save("trash") \o Rest ELSE todo
  /\ UNCHANGED <<secret, index, clock, on, mine, muted, draft, sessions, moves, failures>>

NothingToBury ==
  /\ Doing("bury") /\ doomed[Head(todo).ds] = {}
  /\ todo' = Rest
  /\ UNCHANGED <<disks, on, memory, sessions, moves, failures>>

Ready ==
  /\ Doing("ready")
  /\ todo' = Rest
  /\ UNCHANGED <<disks, on, memory, sessions, moves, failures>>

-----------------------------------------------------------------------------
Create ==
  \E d \in Active :
    \/ \E q \in Folders(tree[d]), n \in Name :
         \/ Add(d, q, n, Dir, Empty)
         \/ \E c \in Content : Add(d, q, n, Text, c)
    \/ \E p \in Texts(tree[d]), c \in Content, undoes \in BOOLEAN : Edit(d, p, c, undoes)

\* A node that users can name, in d, with the name a move asks for.
Movable(d)    == {p \in Nodes(tree[d]) : Reachable(tree[d], p)}
Names(d, p)   == Name \cup {NodeName(tree[d], p)}
Holders(d, p) == {h \in Nodes(tree[d]) \cup {<<>>} : Id(h) = Id(Front(p))}

Move ==
  \E d \in Dataset : \E p \in Movable(d) : \E n \in Names(d, p) :
    \/ \E q \in Folders(tree[d]) : MoveWithin(d, p, q, n)
    \/ \E q \in Folders(tree[Other(d)]), h \in Holders(d, p) : MoveAcross(d, p, q, n, h)
    \/ \E h \in Holders(d, p) : Texts(tree[Other(d)]) # {} /\ MoveOnto(d, p, n, h)
    \/ \E to \in Dataset : Texts(tree[to]) # {} /\ MoveBelow(d, to, p, n)
    \/ d = "trash" /\ Destroy(p, n)

\* To a path with a folder that does not exist: change() refuses the first node before
\* it touches anything, and the exception leaves saving disabled in both datasets.
Refused(from, to) ==
  /\ Idle /\ ~Retired /\ moves < MaxMoves
  /\ Movable(from) # {}
  /\ muted' = muted \cup {from, to}
  /\ moves' = moves + 1
  /\ UNCHANGED <<disks, on, tree, mine, doomed, draft, todo, sessions, failures>>

Moving == IF Doing("shift") \/ Doing("destroy") THEN Head(todo).moving ELSE {}

FileStep == \E e \in Moving : ShiftFile(e) \/ DestroyFile(e)

SaveStep == Unsaved \/ UnlinkIndex \/ WriteIndex

RecoverStep ==
  /\ Doing("recover")
  /\ Recovered \/ \E r \in Head(todo).paths : RecoverOne(r)

BuryStep ==
  /\ Doing("bury")
  /\ NothingToBury \/ \E f \in doomed[Head(todo).ds] : Bury(f)

LoadStep ==
  \/ \E d \in Dataset : LoadEmpty(d) \/ LoadWithoutIndex(d) \/ LoadIndex(d)
  \/ RecoverStep \/ Unlist \/ Gather \/ PruneIndex \/ BuryStep \/ Ready

\* What the running command does by itself.
Step == SaveStep \/ FileStep \/ LoadStep \/ MvDone \/ Unmute

Goes ==
  \/ Start \/ Create \/ Move \/ Step \/ MvThrows \/ WriteFails
  \/ \E from, to \in Dataset : Refused(from, to)

Next == Goes \/ Stop

Spec == Init /\ [][Next]_vars

\* No session ends while a refused mv has left the saving disabled.
CarefulSpec == Init /\ [][Goes \/ (Stop /\ muted = {})]_vars

\* Every file operation ends, so a command that runs goes on.
FairSpec == Spec /\ WF_vars(Step)

-----------------------------------------------------------------------------
(* Properties.                                                               *)

Steps ==
  [do : {"save", "write", "unmute", "load", "bury"}, ds : Dataset]
    \cup [do : {"shift"}, from : Dataset, moving : Trees]
    \cup [do : {"destroy"}, moving : Trees]
    \cup [do : {"mv"}, from : Dataset, to : Dataset, goal : Path \cup {<<>>},
          more : BOOLEAN, taken : BOOLEAN]
    \cup [do : {"recover"}, ds : Dataset, rest : SUBSET File, done : BOOLEAN,
          paths : SUBSET [path : Seq(AnyName), file : File]]
    \cup [do : {"unlist"}, ds : Dataset, rest : SUBSET File]
    \cup [do : {"gather"}, ds : Dataset, rest : SUBSET File, rec : File]
    \cup [do : {"prune"}, ds : Dataset, old : SUBSET Nat]
    \cup [do : {"ready"}]

\* Every part of the state has the kind of value the code gives it.
TypeOK ==
  /\ secret \in Seq(Secrets)
  /\ disk  \in [Dataset -> SUBSET File]
  /\ index \in [Dataset -> SUBSET [ts : 1..clock, tree : Trees]]
  /\ clock \in Nat
  /\ on \in BOOLEAN
  /\ tree  \in [Dataset -> Trees]
  /\ mine  \in [Dataset -> 0..clock]
  /\ muted \subseteq Dataset
  /\ doomed \in [Dataset -> SUBSET File]
  /\ draft \in File \cup {0}
  /\ todo \in Seq(Steps)
  /\ sessions \in 0..(MaxSessions + MaxRestarts)
  /\ moves \in 0..MaxMoves
  /\ failures \in 0..MaxFailures

\* A file is in the folder of one dataset at most, whatever the moves, crashes and
\* recoveries that handled it (fs.move() in moveOrUnlink()).
OneHome == disk["main"] \cap disk["trash"] = {}

OneSecret(t) == \A e \in t : e.at # <<>> /\ Last(e.at) = secret[e.file].id

\* The versions a node has, in memory and in every index on disk, are versions of
\* one secret, the one its id names: no move, recovery or reload mixes two secrets
\* that have the same name (Node.move(), addAsChildOrVersion()).
VersionsOfOneSecret ==
  \A d \in Dataset : /\ OneSecret(tree[d])
                     /\ \A x \in index[d] : OneSecret(x.tree)

\* The newest index is the tree in memory.
Saved(d) ==
  /\ index[d] = {} => tree[d] = {}
  /\ index[d] # {} => LastIndex(d).tree = tree[d]

\* When no command runs, memory and disk have the same files, and the newest index of a
\* dataset says where each of them is (the two calls of save() that end a command), unless
\* a refused mv has left the saving of that dataset disabled: quitting now and starting
\* again shows the same secrets.  The next mv that ends well saves what was not saved.  (Of
\* CarefulSpec: what a session leaves unsaved the next load finds on disk in no index, and
\* puts into a recovery folder.)
SavedWhenIdle ==
  Idle => \A d \in Dataset : Files(tree[d]) = disk[d] /\ (d \in muted \/ Saved(d))

JustLoaded == Doing("ready")

\* Every version in the tree has its file in the folder of the dataset, so that it
\* is still there when the dataset is loaded again.
AllOnDisk == JustLoaded => \A d \in Dataset : Files(tree[d]) \subseteq disk[d]

Store == INSTANCE SecretStore WITH count <- Len(secret), stored <- disk

\* What the file system promises about the encrypted files themselves, whatever the
\* crashes, failures and recoveries (moveOrUnlink(), unsaveEntry(), load()).
NeverLosesAFile == Store!Spec

\* A command, and a load, ends.
AlwaysEnds == [](on => <>(~on \/ todo = <<>>))
=============================================================================
