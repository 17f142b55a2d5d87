----------------------------- MODULE SecretTree -----------------------------
(***************************************************************************)
(* The trees of Secrez (packages/fs/src/Node.js) as values.                *)
(*                                                                         *)
(* Every secret is a set of versions, and every version is one immutable   *)
(* encrypted file whose name carries its id, its timestamp, its type and   *)
(* the secret's name.  Files are numbered by their timestamps: file f is   *)
(* the f-th that was ever written, so a larger number is a newer version.  *)
(*                                                                         *)
(* A tree is a set of placements: [at |-> p, file |-> f] says that f is a  *)
(* version of the node whose ancestors' ids and own id are p.  A node is a *)
(* path that some placement has; the root is the empty path.  A Phantom in *)
(* a path is a folder that lost all its own versions, which the code then  *)
(* takes for a root (it has a root's id and no name).                      *)
(***************************************************************************)
EXTENDS Naturals, Sequences, SequencesExt, FiniteSets

CONSTANTS Name,      \* the names users give to their secrets
          Content    \* the contents of text files

VARIABLE secret      \* secret[f] is what the name and the body of file f encrypt

Dir     == "dir"
Text    == "text"
Empty   == "empty"   \* the content of a folder's file
Phantom == 0

File == DOMAIN secret

\* The folder a load makes for what it cannot place; the date in its name makes
\* it differ from the names of all the others.
RecName(f) == <<"recovered", f>>

AnyName == Name \cup {RecName(f) : f \in File}

Secrets == [id : Nat, type : {Dir, Text}, name : AnyName,
            content : Content \cup {Empty}]

Path  == Seq(Nat) \ {<<>>}
Trees == SUBSET [at : Path, file : File]

-----------------------------------------------------------------------------
(* Reading a tree *)

Files(t)       == {e.file : e \in t}
Nodes(t)       == {e.at : e \in t}
Versions(t, p) == {e.file : e \in {x \in t : x.at = p}}
Newest(F)      == CHOOSE f \in F : \A g \in F : g <= f

Id(p)              == IF p = <<>> THEN Phantom ELSE Last(p)
NodeName(t, p)     == secret[Newest(Versions(t, p))].name
NodeContent(t, p)  == secret[Newest(Versions(t, p))].content

IsDir(t, p)  == p = <<>> \/ (p \in Nodes(t) /\ secret[Newest(Versions(t, p))].type = Dir)
IsText(t, p) == p \in Nodes(t) /\ secret[Newest(Versions(t, p))].type = Text

\* The subtree rooted at p, and the rest of the tree.
Subtree(t, p) == {e \in t : IsPrefix(p, e.at)}
Uproot(t, p)  == t \ Subtree(t, p)

\* What a path of names can lead to: getName() of a phantom is undefined, so
\* nothing below a phantom has a path.
Reachable(t, p) == \A i \in 1..Len(p) : SubSeq(p, 1, i) \in Nodes(t)
Folders(t)      == {p \in Nodes(t) \cup {<<>>} : Reachable(t, p) /\ IsDir(t, p)}
Texts(t)        == {p \in Nodes(t) : Reachable(t, p) /\ IsText(t, p)}

\* The children of q called n.  The code takes the first it meets.
Called(t, q, n) == {p \in Nodes(t) : /\ Len(p) = Len(q) + 1
                                     /\ IsPrefix(q, p)
                                     /\ NodeName(t, p) = n}

\* The nodes a path of names may lead to.
Lookup(t, names) ==
  {p \in Nodes(t) \cup {<<>>} :
     /\ Len(p) = Len(names)
     /\ Reachable(t, p)
     /\ \A i \in 1..Len(p) : NodeName(t, SubSeq(p, 1, i)) = names[i]}

\* getPath() climbs until it meets the id of the root, which a phantom has too.
NamePath(t, p) ==
  LET roots == {i \in 1..Len(p) : p[i] = Phantom}
      k     == IF roots = {} THEN 0 ELSE Newest(roots)
  IN  [i \in 1..(Len(p) - k) |-> NodeName(t, SubSeq(p, 1, k + i))]

-----------------------------------------------------------------------------
(* Changing a tree.  children is a map from ids, so a node put where a node *)
(* with its id already is replaces it and all that was below it.            *)

AddVersion(t, p, f) == t \cup {[at |-> p, file |-> f]}

\* Mutant: a file joins the child of q that has its name, whatever its id.
GraftMutant(t, q, id, f) ==
  IF f \in File /\ Called(t, q, secret[f].name) # {}
    THEN AddVersion(t, CHOOSE p \in Called(t, q, secret[f].name) : TRUE, f)
    ELSE AddVersion(Uproot(t, Append(q, id)), Append(q, id), f)

Graft(t, q, id, f) == AddVersion(Uproot(t, Append(q, id)), Append(q, id), f)

\* Mutants: q takes the place of the node, and what was below the node becomes the
\* node's own.
PlantMutantBare(t, q, p, sub) ==
  t \cup {[at |-> q \o SubSeq(e.at, Len(p) + 1, Len(e.at)), file |-> e.file] : e \in sub}
PlantMutantFlat(t, q, p, sub) ==
  Uproot(t, Append(q, Last(p))) \cup {[at |-> Append(q, Last(p)), file |-> e.file] : e \in sub}

\* sub, the subtree at p, becomes a child of q.
Plant(t, q, p, sub) ==
  LET r == Append(q, Last(p))
  IN  Uproot(t, r) \cup
        {[at |-> r \o SubSeq(e.at, Len(p) + 1, Len(e.at)), file |-> e.file] : e \in sub}

\* A folder moved below itself leaves its parent and hangs from itself: the
\* root does not lead to it any more.
Relocate(t, q, p) == IF IsPrefix(p, q) THEN Uproot(t, p)
                                       ELSE Plant(Uproot(t, p), q, p, Subtree(t, p))

-----------------------------------------------------------------------------
(* Reading an index: the tree it describes, restricted to the files that    *)
(* are still on disk.                                                       *)

\* The nodes on the way from below the root to p.
Ancestry(p) == {SubSeq(p, 1, i) : i \in 1..Len(p)}

\* The folders of t, and those that lost all their versions: phantoms.
FoldersOf(t)   == (UNION {Ancestry(e.at) \ {e.at} : e \in t})
                    \cup {e.at : e \in {x \in t : secret[x.file].type = Dir}}
Live(t, files) == {e \in t : e.file \in files}
Gone(t, files) == FoldersOf(t) \ Nodes(Live(t, files))

\* The path p when the folders in gone are phantoms.
Haunted(p, gone) == [i \in 1..Len(p) |-> IF SubSeq(p, 1, i) \in gone THEN Phantom ELSE p[i]]

\* Phantoms under the same parent have the same id: of each such group one stays,
\* the one that comes last.
Survivors(gone) ==
  {S \in SUBSET gone :
     /\ \A p \in gone : \E q \in S : Haunted(q, gone) = Haunted(p, gone)
     /\ \A p, q \in S : Haunted(p, gone) = Haunted(q, gone) => p = q}

Restored(live, gone, lost) ==
  {[at |-> Haunted(e.at, gone), file |-> e.file] :
     e \in {x \in live : Ancestry(x.at) \cap lost = {}}}

\* The trees that an index t can become.  A text file without versions is not
\* made.  A phantom that was saved computed the length of its own abbreviations, so
\* the files below it may not be found again: cut has the phantoms that lose them.
Loaded(t, files) ==
  LET gone == Gone(t, files) IN
  {Restored(Live(t, files), gone, cut \cup (gone \ stays)) :
     stays \in Survivors(gone), cut \in SUBSET {p \in FoldersOf(t) : Last(p) = Phantom}}
=============================================================================
