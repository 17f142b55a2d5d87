------------------------- MODULE InternalFs_proofs -------------------------
(***************************************************************************)
(* What holds of InternalFs for every value of its constants.              *)
(***************************************************************************)
EXTENDS InternalFs, TLAPS, SequenceTheorems, WellFoundedInduction

-----------------------------------------------------------------------------
(* The newest of some files, and the last of some indexes, exist.            *)

\* A bounded set of numbers that is not empty has a greatest one.
LEMMA NewestIn ==
  ASSUME NEW n \in Nat, NEW F \in SUBSET (0..n), F # {}
  PROVE  Newest(F) \in F /\ \A g \in F : g <= Newest(F)
<1> DEFINE T == {n - f : f \in F}
<1>0. \A f \in F : f \in Nat /\ f <= n /\ n - f \in Nat
  OBVIOUS
<1>1. T \subseteq Nat /\ T # {}
  BY <1>0
<1>2. PICK x \in T : \A y \in T : ~(<<y, x>> \in OpToRel(<, Nat))
  BY <1>1, WFMin, NatLessThanWellFounded, Zenon
<1>3. \A y \in T : ~(y < x)
  BY <1>1, <1>2 DEF OpToRel
<1>4. PICK f \in F : x = n - f
  OBVIOUS
<1>5. ASSUME NEW g \in F PROVE g <= f
  <2>1. n - g \in T
    OBVIOUS
  <2> QED
    BY <2>1, <1>0, <1>3, <1>4
<1> QED
  BY <1>5 DEF Newest

-----------------------------------------------------------------------------
(* Trees.                                                                    *)

Placed(F) == SUBSET [at : Path, file : F]

LEMMA AppendPath ==
  ASSUME NEW q \in Seq(Nat), NEW id \in Nat
  PROVE  Append(q, id) \in Path
BY AppendProperties DEF Path

LEMMA LastOfPath ==
  ASSUME NEW p \in Path
  PROVE  Last(p) \in Nat
BY LenProperties, EmptySeq DEF Path, Last

LEMMA FolderPath ==
  ASSUME NEW F, NEW t \in Placed(F), NEW q \in Folders(t)
  PROVE  q \in Seq(Nat)
<1>1. q \in Nodes(t) \cup {<<>>}
  BY DEF Folders
<1>2. \A e \in t : e.at \in Seq(Nat)
  BY DEF Placed, Path
<1> QED
  BY <1>1, <1>2, EmptySeq DEF Nodes

LEMMA GraftPlaced ==
  ASSUME NEW F, NEW t \in Placed(F), NEW q \in Seq(Nat), NEW id \in Nat, NEW f \in F
  PROVE  Graft(t, q, id, f) \in Placed(F)
<1> DEFINE r == Append(q, id)
<1>1. r \in Path
  BY AppendPath
<1>2. [at |-> r, file |-> f] \in [at : Path, file : F]
  BY <1>1
<1>3. Uproot(t, r) \subseteq t
  BY DEF Uproot
<1>4. t \subseteq [at : Path, file : F]
  BY DEF Placed
<1> QED
  BY <1>2, <1>3, <1>4 DEF Graft, AddVersion, Placed

LEMMA PlantPlaced ==
  ASSUME NEW F, NEW t \in Placed(F), NEW q \in Seq(Nat), NEW p \in Path,
         NEW sub \in Placed(F)
  PROVE  Plant(t, q, p, sub) \in Placed(F)
<1> DEFINE r == Append(q, Last(p))
           Below(e) == SubSeq(e.at, Len(p) + 1, Len(e.at))
<1>1. r \in Seq(Nat) /\ Len(r) = Len(q) + 1
  BY LastOfPath, AppendProperties
<1>2. ASSUME NEW e \in sub PROVE r \o Below(e) \in Path
  <2>1. e.at \in Seq(Nat) /\ Len(p) \in Nat /\ Len(q) \in Nat
    BY LenProperties DEF Placed, Path
  <2>2. Below(e) \in Seq(Nat)
    BY <2>1, SubSeqProperties, ElementOfSeq, LenProperties
  <2>3. r \o Below(e) \in Seq(Nat) /\ Len(r \o Below(e)) = Len(r) + Len(Below(e))
    BY <1>1, <2>2, ConcatProperties
  <2>4. Len(Below(e)) \in Nat
    BY <2>2, LenProperties
  <2> HIDE DEF r, Below
  <2>5. Len(r \o Below(e)) # 0
    BY <1>1, <2>1, <2>3, <2>4
  <2> QED
    BY <2>3, <2>5, EmptySeq DEF Path
<1>3. ASSUME NEW e \in sub PROVE [at |-> r \o Below(e), file |-> e.file] \in [at : Path, file : F]
  <2>1. e.file \in F
    BY DEF Placed
  <2>2. r \o Below(e) \in Path
    BY <1>2
  <2> HIDE DEF r, Below
  <2> QED
    BY <2>1, <2>2
<1>4. {[at |-> r \o Below(e), file |-> e.file] : e \in sub} \subseteq [at : Path, file : F]
  BY <1>3, Zenon
<1>5. Uproot(t, r) \subseteq [at : Path, file : F]
  BY DEF Placed, Uproot
<1>6. Plant(t, q, p, sub) = Uproot(t, r) \cup {[at |-> r \o Below(e), file |-> e.file] : e \in sub}
  BY Zenon DEF Plant
<1> QED
  BY <1>4, <1>5, <1>6, Zenon DEF Placed

LEMMA AddVersionPlaced ==
  ASSUME NEW F, NEW t \in Placed(F), NEW p \in Path, NEW f \in F
  PROVE  AddVersion(t, p, f) \in Placed(F)
BY DEF AddVersion, Placed

LEMMA RelocatePlaced ==
  ASSUME NEW F, NEW t \in Placed(F), NEW q \in Seq(Nat), NEW p \in Path
  PROVE  Relocate(t, q, p) \in Placed(F)
<1>1. Uproot(t, p) \in Placed(F) /\ Subtree(t, p) \in Placed(F)
  BY DEF Uproot, Subtree, Placed
<1> QED
  BY <1>1, PlantPlaced DEF Relocate

\* A folder that has lost its versions hides the rest of its path: every other node
\* on the way to a node of a tree that was read from an index is a node of it.
Rooted(t) ==
  \A p \in Nodes(t) : \A i \in 1..Len(p) : p[i] = Phantom \/ SubSeq(p, 1, i) \in Nodes(t)

LEMMA HauntedPath ==
  ASSUME NEW p \in Path, NEW gone
  PROVE  /\ Haunted(p, gone) \in Path
         /\ Len(Haunted(p, gone)) = Len(p)
         /\ \A i \in 1..Len(p) :
              Haunted(p, gone)[i] = IF SubSeq(p, 1, i) \in gone THEN Phantom ELSE p[i]
<1> DEFINE e(i) == IF SubSeq(p, 1, i) \in gone THEN Phantom ELSE p[i]
<1>1. p \in Seq(Nat) /\ p # <<>> /\ Len(p) \in Nat /\ Len(p) # 0
  BY EmptySeq, LenProperties DEF Path
<1>2. \A i \in 1..Len(p) : e(i) \in Nat
  BY <1>1, ElementOfSeq DEF Phantom
<1> HIDE DEF e
<1>3. [i \in 1..Len(p) |-> e(i)] \in Seq(Nat)
  BY <1>1, <1>2
<1>4. Len([i \in 1..Len(p) |-> e(i)]) = Len(p)
  BY <1>1
<1>5. Haunted(p, gone) = [i \in 1..Len(p) |-> e(i)]
  BY DEF Haunted, e
<1>6. Haunted(p, gone) \in Path
  BY <1>1, <1>3, <1>4, <1>5, EmptySeq DEF Path
<1> QED
  BY <1>4, <1>5, <1>6 DEF e

\* The ancestors of a node, and what becomes of them.
LEMMA PrefixPath ==
  ASSUME NEW p \in Path, NEW i \in 1..Len(p), NEW gone
  PROVE  /\ SubSeq(p, 1, i) \in Path
         /\ Ancestry(SubSeq(p, 1, i)) \subseteq Ancestry(p)
         /\ Haunted(SubSeq(p, 1, i), gone) = SubSeq(Haunted(p, gone), 1, i)
<1> DEFINE a == SubSeq(p, 1, i)
           h == Haunted(p, gone)
<1>1. p \in Seq(Nat) /\ Len(p) \in Nat /\ i \in Nat /\ 1 <= i /\ i <= Len(p)
  BY LenProperties DEF Path
<1>2. a \in Seq(Nat) /\ Len(a) = i /\ \A j \in 1..i : a[j] = p[j]
  <2>1. \A j \in 1..i : p[j] \in Nat
    BY <1>1, ElementOfSeq
  <2> QED
    BY <1>1, <2>1, SubSeqProperties
<1>3. a \in Path
  BY <1>1, <1>2, EmptySeq DEF Path
<1>4. \A j \in 1..i : SubSeq(a, 1, j) = SubSeq(p, 1, j)
  BY <1>1, SubSeqOfSubSeq
<1> HIDE DEF a
<1>5. ASSUME NEW x \in Ancestry(a) PROVE x \in Ancestry(p)
  <2>1. PICK j \in 1..Len(a) : x = SubSeq(a, 1, j)
    BY Zenon DEF Ancestry
  <2>2. j \in 1..Len(p) /\ x = SubSeq(p, 1, j)
    BY <1>1, <1>2, <1>4, <2>1
  <2> QED
    BY <2>2, Zenon DEF Ancestry
<1>6. h \in Seq(Nat) /\ Len(h) = Len(p)
  BY HauntedPath DEF Path
<1>7. SubSeq(h, 1, i) \in Seq(Nat) /\ Len(SubSeq(h, 1, i)) = i
      /\ \A j \in 1..i : SubSeq(h, 1, i)[j] = h[j]
  <2>1. \A j \in 1..i : h[j] \in Nat
    BY <1>1, <1>6, ElementOfSeq
  <2> HIDE DEF h
  <2> QED
    BY <1>1, <2>1, SubSeqProperties
<1>8. ASSUME NEW j \in 1..i PROVE Haunted(a, gone)[j] = h[j]
  <2>1. j \in 1..Len(a) /\ j \in 1..Len(p) /\ a[j] = p[j] /\ SubSeq(a, 1, j) = SubSeq(p, 1, j)
    BY <1>1, <1>2, <1>4
  <2>2. Haunted(a, gone)[j] = IF SubSeq(a, 1, j) \in gone THEN Phantom ELSE a[j]
    BY <1>3, <2>1, HauntedPath
  <2>3. h[j] = IF SubSeq(p, 1, j) \in gone THEN Phantom ELSE p[j]
    BY <2>1, HauntedPath
  <2>4. CASE SubSeq(p, 1, j) \in gone
    BY <2>1, <2>2, <2>3, <2>4
  <2>5. CASE SubSeq(p, 1, j) \notin gone
    BY <2>1, <2>2, <2>3, <2>5
  <2> QED
    BY <2>4, <2>5
<1>9. Haunted(a, gone) \in Seq(Nat) /\ Len(Haunted(a, gone)) = i
  BY <1>2, <1>3, HauntedPath DEF Path
<1>10. Haunted(a, gone) = SubSeq(h, 1, i)
  BY <1>7, <1>8, <1>9, SeqEqual
<1> QED
  BY <1>3, <1>5, <1>10 DEF a

LEMMA LoadedPlaced ==
  ASSUME NEW F, NEW t \in Placed(F), NEW files, NEW u \in Loaded(t, files)
  PROVE  u \in Placed(F) /\ Rooted(u)
<1> DEFINE live == Live(t, files)
           gone == Gone(t, files)
<1>1. PICK stays \in SUBSET gone, cut \in SUBSET FoldersOf(t) :
             u = Restored(live, gone, cut \cup (gone \ stays))
  <2>1. \E stays \in Survivors(gone), cut \in SUBSET {p \in FoldersOf(t) : Last(p) = Phantom} :
             u = Restored(live, gone, cut \cup (gone \ stays))
    BY DEF Loaded
  <2> HIDE DEF live, gone
  <2>2. Survivors(gone) \subseteq SUBSET gone
    BY DEF Survivors
  <2> QED
    BY <2>1, <2>2
<1> DEFINE lost == cut \cup (gone \ stays)
           kept == {x \in live : Ancestry(x.at) \cap lost = {}}
<1>2. kept \subseteq t /\ t \subseteq [at : Path, file : F]
  BY DEF Live, Placed
<1>3. u = {[at |-> Haunted(e.at, gone), file |-> e.file] : e \in kept}
  BY <1>1, Zenon DEF Restored
<1>4. ASSUME NEW e \in kept
      PROVE [at |-> Haunted(e.at, gone), file |-> e.file] \in [at : Path, file : F]
  BY <1>2, HauntedPath
<1>5. u \in Placed(F)
  BY <1>3, <1>4, Zenon DEF Placed
<1>6. Rooted(u)
  <2> SUFFICES ASSUME NEW p \in Nodes(u), NEW i \in 1..Len(p), p[i] # Phantom
               PROVE  SubSeq(p, 1, i) \in Nodes(u)
    BY DEF Rooted
  <2>1. PICK e \in kept : p = Haunted(e.at, gone)
    BY <1>3 DEF Nodes
  <2> DEFINE a == SubSeq(e.at, 1, i)
  <2>2. e.at \in Path /\ Len(p) = Len(e.at) /\ i \in 1..Len(e.at)
    BY <1>2, <2>1, HauntedPath
  <2>3. a \notin gone /\ a \in Ancestry(e.at)
    BY <2>1, <2>2, HauntedPath DEF Ancestry
  <2>4. /\ a \in Path /\ Ancestry(a) \subseteq Ancestry(e.at)
        /\ Haunted(a, gone) = SubSeq(p, 1, i)
    BY <2>1, <2>2, PrefixPath
  <2>5. a \in Nodes(live)
    <3>1. CASE a = e.at
      BY <3>1 DEF Nodes
    <3>2. CASE a # e.at
      <4>1. a \in FoldersOf(t)
        BY <3>2, <2>3, <1>2 DEF FoldersOf
      <4> QED
        BY <4>1, <2>3 DEF Gone
    <3> QED
      BY <3>1, <3>2
  <2>6. PICK x \in live : x.at = a
    BY <2>5 DEF Nodes
  <2>7. x \in kept
    BY <2>4, <2>6
  <2> DEFINE y == [at |-> Haunted(x.at, gone), file |-> x.file]
  <2>8. y \in u /\ y.at = SubSeq(p, 1, i)
    BY <1>3, <2>4, <2>6, <2>7
  <2> QED
    BY <2>8, Zenon DEF Nodes
<1> QED
  BY <1>5, <1>6

-----------------------------------------------------------------------------
(* What the nodes of a tree say.                                             *)

LEMMA SecretOf ==
  ASSUME secret \in Seq(Secrets), NEW f \in File
  PROVE  secret[f] \in Secrets /\ secret[f].id \in Nat
<1>1. f \in 1..Len(secret)
  BY LenProperties DEF File
<1>2. secret[f] \in Secrets
  BY <1>1, ElementOfSeq
<1> QED
  BY <1>2 DEF Secrets

\* A node has a newest version.
LEMMA NewestVersion ==
  ASSUME secret \in Seq(Secrets), NEW t \in Trees, NEW p \in Nodes(t)
  PROVE  /\ Newest(Versions(t, p)) \in File
         /\ secret[Newest(Versions(t, p))] \in Secrets
<1>1. Len(secret) \in Nat /\ File = 1..Len(secret)
  BY LenProperties DEF File
<1>2. Versions(t, p) \in SUBSET (0..Len(secret)) /\ Versions(t, p) # {}
  BY <1>1 DEF Versions, Nodes, Trees
<1>3. Newest(Versions(t, p)) \in Versions(t, p)
  BY <1>1, <1>2, NewestIn
<1>4. Newest(Versions(t, p)) \in File
  BY <1>3 DEF Versions, Trees
<1> QED
  BY <1>1, <1>4, ElementOfSeq

LEMMA NodeSays ==
  ASSUME secret \in Seq(Secrets), NEW t \in Trees, NEW p \in Nodes(t)
  PROVE  /\ NodeName(t, p) \in AnyName
         /\ NodeContent(t, p) \in Content \cup {Empty}
         /\ secret[Newest(Versions(t, p))].type \in {Dir, Text}
<1>1. secret[Newest(Versions(t, p))] \in Secrets
  BY NewestVersion
<1> QED
  BY <1>1 DEF NodeName, NodeContent, Secrets

LEMMA NamePathType ==
  ASSUME secret \in Seq(Secrets), NEW t \in Trees, Rooted(t), NEW p \in Nodes(t)
  PROVE  NamePath(t, p) \in Seq(AnyName)
<1> DEFINE roots == {i \in 1..Len(p) : p[i] = Phantom}
           k     == IF roots = {} THEN 0 ELSE Newest(roots)
           name(i) == NodeName(t, SubSeq(p, 1, k + i))
<1>1. p \in Path /\ Len(p) \in Nat
  BY LenProperties DEF Nodes, Trees, Path
<1>2. roots # {} => Newest(roots) \in roots /\ \A i \in roots : i <= Newest(roots)
  <2>1. roots \in SUBSET (0..Len(p))
    BY <1>1
  <2> QED
    BY <1>1, <2>1, NewestIn
<1>3. k \in 0..Len(p) /\ \A i \in roots : i <= k
  BY <1>1, <1>2
<1> HIDE DEF k
<1>4. ASSUME NEW i \in 1..(Len(p) - k) PROVE name(i) \in AnyName
  <2>1. k + i \in 1..Len(p) /\ ~(k + i <= k)
    BY <1>1, <1>3
  <2>2. p[k + i] # Phantom
    BY <1>3, <2>1
  <2>3. SubSeq(p, 1, k + i) \in Nodes(t)
    BY <2>1, <2>2 DEF Rooted
  <2> QED
    BY <2>3, NodeSays
<1>5. Len(p) - k \in Nat
  BY <1>1, <1>3
<1> HIDE DEF name
<1>6. [i \in 1..(Len(p) - k) |-> name(i)] \in Seq(AnyName)
  BY <1>4, <1>5
<1>7. NamePath(t, p) = [i \in 1..(Len(p) - k) |-> name(i)]
  BY Zenon DEF NamePath, k, name
<1> QED
  BY <1>6, <1>7

-----------------------------------------------------------------------------
(* Reading the indexes of a dataset.                                         *)

Indexes == SUBSET [ts : 1..clock, tree : Trees]

\* Of some indexes one is the last.
LEMMA LastOf ==
  ASSUME clock \in Nat, NEW I \in Indexes, I # {}
  PROVE  \E x \in I : \A y \in I : y.ts <= x.ts
<1> DEFINE T == {x.ts : x \in I}
<1>1. T \in SUBSET (0..clock) /\ T # {}
  BY DEF Indexes
<1>2. Newest(T) \in T /\ \A g \in T : g <= Newest(T)
  BY <1>1, NewestIn
<1> HIDE DEF T
<1>3. PICK x \in I : x.ts = Newest(T)
  BY <1>2 DEF T
<1> QED
  BY <1>2, <1>3 DEF T

LEMMA LastIndexType ==
  ASSUME clock \in Nat, index \in [Dataset -> Indexes], NEW d \in Dataset, index[d] # {}
  PROVE  LastIndex(d) \in index[d] /\ LastIndex(d).tree \in Trees
<1>1. index[d] \in Indexes
  OBVIOUS
<1>2. \E x \in index[d] : \A y \in index[d] : y.ts <= x.ts
  BY <1>1, LastOf
<1>3. LastIndex(d) \in index[d]
  BY <1>2, Zenon DEF LastIndex
<1> QED
  BY <1>1, <1>3 DEF Indexes

LEMMA LoadedType ==
  ASSUME NEW t \in Trees, NEW files, NEW u \in Loaded(t, files)
  PROVE  u \in Trees /\ Rooted(u)
<1>1. Trees = Placed(File)
  BY DEF Trees, Placed
<1> QED
  BY <1>1, LoadedPlaced

LEMMA OldsType ==
  ASSUME clock \in Nat, index \in [Dataset -> Indexes], NEW d \in Dataset, NEW olds \in Olds(d)
  PROVE  /\ DOMAIN olds \in Indexes
         /\ \A x \in DOMAIN olds : olds[x] \in Trees /\ Rooted(olds[x])
<1>1. DOMAIN olds = Older(d) /\ \A x \in Older(d) : olds[x] \in Loaded(x.tree, disk[d])
  BY DEF Olds
<1>2. Older(d) \in Indexes
  BY DEF Older, Indexes
<1>3. \A x \in Older(d) : x.tree \in Trees
  BY <1>2 DEF Indexes
<1> QED
  BY <1>1, <1>2, <1>3, LoadedType

Spot == [path : Seq(AnyName), file : File]

LEMMA LocatedType ==
  ASSUME secret \in Seq(Secrets), clock \in Nat,
         NEW olds, DOMAIN olds \in Indexes,
         \A x \in DOMAIN olds : olds[x] \in Trees /\ Rooted(olds[x]),
         NEW lost \in SUBSET File, NEW l \in Located(olds, lost)
  PROVE  l.paths \subseteq Spot /\ l.rest \subseteq File
<1> DEFINE Having(f) == {x \in DOMAIN olds : f \in Files(olds[x])}
           found     == {f \in lost : Having(f) # {}}
           from      == [f \in found |-> CHOOSE x \in Having(f) : \A y \in Having(f) : y.ts <= x.ts]
           Spots(f)  == {NamePath(olds[from[f]], p) :
                           p \in {q \in Nodes(olds[from[f]]) : Last(q) = secret[f].id}}
           Later(g, f) == from[g].ts < from[f].ts \/ (from[g] = from[f] /\ g < f)
           Whole     == {s \in [found -> UNION {Spots(f) : f \in found}] :
                           \A f \in found : s[f] \in Spots(f)}
           Paths(s)  == {[path |-> s[f], file |-> f] :
                           f \in {g \in found : \A h \in found : s[h] = s[g] => ~Later(h, g)}}
<1>1. Located(olds, lost) = {[paths |-> Paths(s), rest |-> lost \ found] : s \in Whole}
  BY Zenon DEF Located
<1>2. PICK s \in Whole : l = [paths |-> Paths(s), rest |-> lost \ found]
  <2> HIDE DEF Whole, Paths, found
  <2> QED
    BY <1>1
<1>3. ASSUME NEW f \in found PROVE from[f] \in DOMAIN olds
  <2>1. Having(f) \in Indexes /\ Having(f) # {}
    BY DEF Indexes
  <2>2. \E x \in Having(f) : \A y \in Having(f) : y.ts <= x.ts
    <3> HIDE DEF Having
    <3> QED
      BY <2>1, LastOf
  <2>3. from[f] \in Having(f)
    BY <2>2, Zenon
  <2> QED
    BY <2>3
<1>4. ASSUME NEW f \in found, NEW x \in Spots(f) PROVE x \in Seq(AnyName)
  <2> HIDE DEF from, found
  <2>1. olds[from[f]] \in Trees /\ Rooted(olds[from[f]])
    BY <1>3
  <2> QED
    BY <2>1, NamePathType
<1>5. \A f \in found : s[f] \in Seq(AnyName)
  BY <1>4, Zenon
<1>6. Paths(s) \subseteq Spot
  <2>1. found \subseteq File
    OBVIOUS
  <2> HIDE DEF found, from
  <2> QED
    BY <1>5, <2>1 DEF Spot
<1> HIDE DEF Paths, found
<1>7. l.paths = Paths(s) /\ l.rest = lost \ found
  BY <1>2
<1> QED
  BY <1>6, <1>7

-----------------------------------------------------------------------------
(* The steps of a command.                                                   *)

\* Steps, for any files F, trees T and names N.
StepsOver(F, T, N) ==
  [do : {"save", "write", "unmute", "load", "bury"}, ds : Dataset]
    \cup [do : {"shift"}, from : Dataset, moving : T]
    \cup [do : {"destroy"}, moving : T]
    \cup [do : {"mv"}, from : Dataset, to : Dataset, goal : Path \cup {<<>>},
          more : BOOLEAN, taken : BOOLEAN]
    \cup [do : {"recover"}, ds : Dataset, rest : SUBSET F, done : BOOLEAN,
          paths : SUBSET [path : Seq(N), file : F]]
    \cup [do : {"unlist"}, ds : Dataset, rest : SUBSET F]
    \cup [do : {"gather"}, ds : Dataset, rest : SUBSET F, rec : F]
    \cup [do : {"prune"}, ds : Dataset, old : SUBSET Nat]
    \cup [do : {"ready"}]

LEMMA StepsAreSteps ==
  /\ Steps  = StepsOver(File, Trees, AnyName)
  /\ Steps' = StepsOver(File', Trees', AnyName')
BY Zenon DEF Steps, StepsOver

LEMMA StepKinds ==
  ASSUME NEW F, NEW T, NEW N, NEW d \in Dataset
  PROVE  /\ \A k \in {"save", "write", "unmute", "load", "bury"} :
              [do |-> k, ds |-> d] \in StepsOver(F, T, N)
         /\ \A m \in T : [do |-> "shift", from |-> d, moving |-> m] \in StepsOver(F, T, N)
         /\ \A m \in T : [do |-> "destroy", moving |-> m] \in StepsOver(F, T, N)
         /\ \A R \in SUBSET F : [do |-> "unlist", ds |-> d, rest |-> R] \in StepsOver(F, T, N)
         /\ \A R \in SUBSET F, f \in F :
              [do |-> "gather", ds |-> d, rest |-> R, rec |-> f] \in StepsOver(F, T, N)
         /\ \A I \in SUBSET Nat : [do |-> "prune", ds |-> d, old |-> I] \in StepsOver(F, T, N)
         /\ [do |-> "ready"] \in StepsOver(F, T, N)
BY DEF StepsOver

LEMMA MvKind ==
  ASSUME NEW F, NEW T, NEW N, NEW from \in Dataset, NEW to \in Dataset,
         NEW goal \in Path \cup {<<>>}, NEW more \in BOOLEAN, NEW taken \in BOOLEAN
  PROVE  [do |-> "mv", from |-> from, to |-> to, goal |-> goal, more |-> more, taken |-> taken]
           \in StepsOver(F, T, N)
BY DEF StepsOver

LEMMA RecoverKind ==
  ASSUME NEW F, NEW T, NEW N, NEW d \in Dataset, NEW R \in SUBSET F, NEW done \in BOOLEAN,
         NEW P \in SUBSET [path : Seq(N), file : F]
  PROVE  [do |-> "recover", ds |-> d, paths |-> P, rest |-> R, done |-> done] \in StepsOver(F, T, N)
BY DEF StepsOver

\* What a step has, by its kind.
LEMMA StepFields ==
  ASSUME NEW s \in Steps
  PROVE  /\ s.do \in {"save", "write", "unmute", "load", "bury"} => s.ds \in Dataset
         /\ s.do = "save" => [s EXCEPT !.do = "write"] \in Steps
         /\ s.do = "shift" => /\ s.from \in Dataset /\ s.moving \in Trees
                              /\ \A m \in Trees : [s EXCEPT !.moving = m] \in Steps
         /\ s.do = "destroy" => /\ s.moving \in Trees
                                /\ \A m \in Trees : [s EXCEPT !.moving = m] \in Steps
         /\ s.do = "mv" => s.from \in Dataset /\ s.to \in Dataset /\ s.goal \in Path \cup {<<>>}
         /\ s.do = "unlist" => s.ds \in Dataset /\ s.rest \in SUBSET File
         /\ s.do = "gather" => s.ds \in Dataset /\ s.rest \in SUBSET File /\ s.rec \in File
         /\ s.do = "prune" => /\ s.ds \in Dataset /\ s.old \in SUBSET Nat
                              /\ \A I \in SUBSET Nat : [s EXCEPT !.old = I] \in Steps
         /\ s.do = "recover" => s.ds \in Dataset /\ s.rest \in SUBSET File /\ s.paths \subseteq Spot
BY DEF Steps, Spot

LEMMA StepTruths ==
  ASSUME NEW s \in Steps
  PROVE  /\ s.do = "mv" => s.more \in BOOLEAN /\ s.taken \in BOOLEAN
         /\ s.do = "recover" => s.done \in BOOLEAN
BY DEF Steps

LEMMA TodoType ==
  ASSUME todo \in Seq(Steps), todo # <<>>
  PROVE  Head(todo) \in Steps /\ Rest \in Seq(Steps)
BY HeadTailProperties DEF Rest

-----------------------------------------------------------------------------
(* Writing a file keeps all that was typed by the files before.              *)

Grown ==
  /\ secret' \in Seq(Secrets')
  /\ disk' \in [Dataset -> SUBSET (File')]
  /\ File \subseteq File' /\ AnyName \subseteq AnyName'
  /\ Trees \subseteq Trees' /\ Steps \subseteq Steps'

LEMMA GrownFacts ==
  ASSUME File \subseteq File'
  PROVE  AnyName \subseteq AnyName' /\ Secrets \subseteq Secrets'
         /\ Trees \subseteq Trees' /\ Steps \subseteq Steps'
<1>1. AnyName \subseteq AnyName'
  BY DEF AnyName, RecName
<1>2. Secrets \subseteq Secrets'
  BY <1>1 DEF Secrets
<1>3. Trees \subseteq Trees'
  BY DEF Trees
<1>4. Seq(AnyName) \subseteq Seq(AnyName')
  BY <1>1, SeqMonotonic
<1>5. Steps \subseteq Steps'
  BY <1>3, <1>4 DEF Steps
<1> QED
  BY <1>1, <1>2, <1>3, <1>5

LEMMA GrownByNothing ==
  ASSUME TypeOK, UNCHANGED secret, disk' \in [Dataset -> SUBSET File]
  PROVE  Grown
<1>1. File' = File
  BY DEF File
<1>2. Secrets' = Secrets
  BY DEF Secrets, AnyName, RecName, File
<1> QED
  BY <1>1, <1>2, GrownFacts DEF Grown, TypeOK

LEMMA GrownByFile ==
  ASSUME TypeOK, NEW d \in Dataset, NEW id \in Nat, NEW type \in {Dir, Text},
         NEW n \in AnyName \cup {RecName(Len(secret) + 1)},
         NEW c \in Content \cup {Empty}, Write(d, id, type, n, c)
  PROVE  Grown /\ Len(secret) + 1 \in File'
<1> DEFINE f == Len(secret) + 1
           x == [id |-> id, type |-> type, name |-> n, content |-> c]
<1>1. secret' = Append(secret, x) /\ disk' = [disk EXCEPT ![d] = @ \cup {f}]
  BY DEF Write
<1>2. secret \in Seq(Secrets) /\ disk \in [Dataset -> SUBSET File]
  BY DEF TypeOK
<1>3. Len(secret) \in Nat /\ File = 1..Len(secret)
  BY <1>2, LenProperties DEF File
<1>4. Append(secret, x) \in Seq(Secrets \cup {x})
  BY <1>2, SeqMonotonic, AppendProperties
<1>5. Len(secret') = f
  BY <1>1, <1>2, SeqMonotonic, AppendProperties
<1>6. File' = 1..f
  BY <1>1, <1>4, <1>5, LenProperties DEF File
<1>7. File \subseteq File' /\ f \in File'
  BY <1>3, <1>6
<1>8. AnyName \subseteq AnyName' /\ Secrets \subseteq Secrets'
      /\ Trees \subseteq Trees' /\ Steps \subseteq Steps'
  BY <1>7, GrownFacts
<1>9. x \in Secrets'
  <2>1. n \in AnyName'
    BY <1>7, <1>8 DEF AnyName, RecName
  <2> QED
    BY <2>1 DEF Secrets
<1>10. secret' \in Seq(Secrets')
  BY <1>1, <1>4, <1>8, <1>9, SeqMonotonic
<1>11. disk' \in [Dataset -> SUBSET (File')]
  BY <1>1, <1>2, <1>7
<1> QED
  BY <1>7, <1>8, <1>10, <1>11 DEF Grown

\* What is left to type when nothing but trees, indexes and steps change.
LEMMA TypeStep ==
  ASSUME TypeOK, Grown,
         clock' \in Nat, clock <= clock',
         index' \in [Dataset -> SUBSET [ts : 1..clock', tree : Trees']],
         tree' \in [Dataset -> Trees'],
         mine' \in [Dataset -> 0..clock'], muted' \subseteq Dataset,
         doomed' \in [Dataset -> SUBSET (File')],
         draft' \in File' \cup {0},
         todo' \in Seq(Steps'),
         on' \in BOOLEAN,
         sessions' \in 0..(MaxSessions + MaxRestarts), moves' \in 0..MaxMoves,
         failures' \in 0..MaxFailures
  PROVE  TypeOK'
BY DEF TypeOK, Grown

\* What does not change keeps its type.
LEMMA Kept ==
  ASSUME TypeOK, Grown
  PROVE  /\ UNCHANGED <<index, clock>> => index' \in [Dataset -> SUBSET [ts : 1..clock', tree : Trees']]
         /\ UNCHANGED tree => tree' \in [Dataset -> Trees']
         /\ UNCHANGED doomed => doomed' \in [Dataset -> SUBSET (File')]
         /\ UNCHANGED <<clock, mine>> => mine' \in [Dataset -> 0..clock']
         /\ UNCHANGED clock => clock' \in Nat /\ clock <= clock'
         /\ UNCHANGED draft \/ draft' = 0 => draft' \in File' \cup {0}
         /\ UNCHANGED muted => muted' \subseteq Dataset
         /\ UNCHANGED on => on' \in BOOLEAN
         /\ UNCHANGED sessions => sessions' \in 0..(MaxSessions + MaxRestarts)
         /\ UNCHANGED moves => moves' \in 0..MaxMoves
         /\ UNCHANGED failures => failures' \in 0..MaxFailures
         /\ todo \in Seq(Steps') /\ (todo # <<>> => Rest \in Seq(Steps'))
         /\ UNCHANGED todo => todo' \in Seq(Steps')
<1>1. todo \in Seq(Steps)
  BY DEF TypeOK
<1>2. Seq(Steps) \subseteq Seq(Steps')
  BY SeqMonotonic DEF Grown
<1>3. todo # <<>> => Rest \in Seq(Steps)
  BY <1>1, TodoType
<1> QED
  BY <1>1, <1>2, <1>3 DEF TypeOK, Grown

-----------------------------------------------------------------------------
(* TypeOK is inductive.  First the steps that every command ends with.       *)

LEMMA SaveTypes ==
  ASSUME TypeOK, Unsaved \/ UnlinkIndex \/ WriteIndex \/ WriteFails
  PROVE  TypeOK'
<1> USE DEF disks, memory
<1>0. todo # <<>> => Head(todo) \in Steps
  BY TodoType DEF TypeOK
<1>1. CASE Unsaved
  <2>1. Grown
    BY <1>1, GrownByNothing DEF Unsaved, TypeOK
  <2> QED
    BY <1>1, <2>1, Kept, TypeStep DEF Unsaved, Doing
<1>2. CASE UnlinkIndex
  <2>1. Grown
    BY <1>2, GrownByNothing DEF UnlinkIndex, TypeOK
  <2>2. todo' \in Seq(Steps')
    <3>1. [Head(todo) EXCEPT !.do = "write"] \in Steps'
      BY <1>0, <1>2, <2>1, StepFields DEF UnlinkIndex, Doing, Grown
    <3> QED
      BY <1>2, <2>1, <3>1, Kept, ConcatProperties DEF UnlinkIndex, Doing
  <2> DEFINE d == Head(todo).ds
  <2>0. d \in Dataset
    BY <1>0, <1>2, StepFields DEF UnlinkIndex, Doing
  <2>3. index' \in [Dataset -> SUBSET [ts : 1..clock', tree : Trees']]
    <3>1. index' = [index EXCEPT ![d] = {x \in @ : x.ts # mine[d]}] /\ clock' = clock
      BY <1>2 DEF UnlinkIndex
    <3>2. index \in [Dataset -> SUBSET [ts : 1..clock, tree : Trees]] /\ Trees \subseteq Trees'
      BY <2>1 DEF TypeOK, Grown
    <3> HIDE DEF d
    <3>3. [index EXCEPT ![d] = {x \in @ : x.ts # mine[d]}]
             \in [Dataset -> SUBSET [ts : 1..clock, tree : Trees']]
      BY <2>0, <3>2
    <3> QED
      BY <3>1, <3>3
  <2>4. mine' \in [Dataset -> 0..clock']
    <3>1. mine' = [mine EXCEPT ![d] = 0] /\ clock' = clock
      BY <1>2 DEF UnlinkIndex
    <3>2. mine \in [Dataset -> 0..clock] /\ clock \in Nat
      BY DEF TypeOK
    <3> HIDE DEF d
    <3>3. [mine EXCEPT ![d] = 0] \in [Dataset -> 0..clock]
      BY <2>0, <3>2
    <3> QED
      BY <3>1, <3>3
  <2> QED
    BY <1>2, <2>1, <2>2, <2>3, <2>4, Kept, TypeStep DEF UnlinkIndex
<1>3. CASE WriteIndex
  <2>1. Grown
    BY <1>3, GrownByNothing DEF WriteIndex, TypeOK
  <2>2. Head(todo).ds \in Dataset
    BY <1>0, <1>3, StepFields DEF WriteIndex, Doing
  <2>3. index' \in [Dataset -> SUBSET [ts : 1..clock', tree : Trees']]
    <3>1. [ts |-> clock + 1, tree |-> tree[Head(todo).ds]] \in [ts : 1..clock', tree : Trees']
      BY <1>3, <2>1, <2>2 DEF WriteIndex, TypeOK, Grown
    <3>2. [ts : 1..clock, tree : Trees] \subseteq [ts : 1..clock', tree : Trees']
      BY <1>3, <2>1 DEF WriteIndex, TypeOK, Grown
    <3> QED
      BY <1>3, <3>1, <3>2 DEF WriteIndex, TypeOK
  <2>4. mine' \in [Dataset -> 0..clock'] /\ clock' \in Nat /\ clock <= clock'
    <3>1. mine' = [mine EXCEPT ![Head(todo).ds] = clock + 1] /\ clock' = clock + 1
      BY <1>3 DEF WriteIndex
    <3>2. mine \in [Dataset -> 0..clock] /\ clock \in Nat
      BY DEF TypeOK
    <3>3. [mine EXCEPT ![Head(todo).ds] = clock + 1] \in [Dataset -> 0..(clock + 1)]
      BY <2>2, <3>2
    <3> QED
      BY <3>1, <3>2, <3>3
  <2> QED
    BY <1>3, <2>1, <2>3, <2>4, Kept, TypeStep DEF WriteIndex, Doing
<1>4. CASE WriteFails
  <2>1. Grown
    <3>1. disk' \in [Dataset -> SUBSET File]
      BY <1>4 DEF WriteFails, TypeOK
    <3> QED
      BY <1>4, <3>1, GrownByNothing DEF WriteFails
  <2>2. todo' \in Seq(Steps')
    BY <1>4, EmptySeq DEF WriteFails
  <2>3. failures' \in 0..MaxFailures
    BY <1>4, BoundsAssumption DEF WriteFails, TypeOK
  <2> QED
    BY <1>4, <2>1, <2>2, <2>3, Kept, TypeStep DEF WriteFails
<1> QED
  BY <1>1, <1>2, <1>3, <1>4

LEMMA SaveStepsType ==
  ASSUME Grown, NEW d \in Dataset
  PROVE  Save(d) \in Seq(Steps')
<1>1. [do |-> "save", ds |-> d] \in Steps'
  BY StepsAreSteps, StepKinds
<1> QED
  BY <1>1 DEF Save

LEMMA CreateTypes ==
  ASSUME TypeOK, Create
  PROVE  TypeOK'
<1>1. ASSUME NEW d \in Dataset, NEW q \in Folders(tree[d]), NEW n \in Name,
             NEW type \in {Dir, Text}, NEW c \in Content \cup {Empty}, Add(d, q, n, type, c)
      PROVE  TypeOK'
  <2> DEFINE f == Len(secret) + 1
  <2>1. f \in Nat
    BY LenProperties DEF TypeOK
  <2>2. Grown /\ f \in File'
    BY <1>1, <2>1, GrownByFile DEF Add, AnyName
  <2>3. q \in Seq(Nat) /\ tree[d] \in Trees /\ tree \in [Dataset -> Trees]
    <3>1. tree[d] \in Trees /\ tree \in [Dataset -> Trees]
      BY DEF TypeOK
    <3>2. tree[d] \in Placed(File)
      BY <3>1 DEF Trees, Placed
    <3> QED
      BY <3>1, <3>2, FolderPath
  <2>4. Graft(tree[d], q, f, f) \in Trees'
    <3>1. tree[d] \in Placed(File')
      BY <2>2, <2>3 DEF Trees, Placed, Grown
    <3> QED
      BY <2>1, <2>2, <2>3, <3>1, GraftPlaced DEF Trees, Placed
  <2>5. tree' \in [Dataset -> Trees']
    BY <1>1, <2>2, <2>3, <2>4 DEF Add, Grown
  <2>6. todo' \in Seq(Steps')
    BY <1>1, <2>2, SaveStepsType DEF Add
  <2> QED
    BY <1>1, <2>2, <2>5, <2>6, Kept, TypeStep DEF Add
<1>2. ASSUME NEW d \in Dataset, NEW p \in Texts(tree[d]), NEW c \in Content,
             NEW undoes \in BOOLEAN, Edit(d, p, c, undoes)
      PROVE  TypeOK'
  <2> DEFINE f == Len(secret) + 1
  <2>1. /\ p \in Nodes(tree[d]) /\ tree[d] \in Trees /\ tree \in [Dataset -> Trees]
        /\ secret \in Seq(Secrets)
    BY DEF Texts, TypeOK
  <2>2. p \in Path /\ Last(p) \in Nat
    BY <2>1, LastOfPath DEF Nodes, Trees
  <2>3. NodeName(tree[d], p) \in AnyName
    BY <2>1, NodeSays
  <2>4. Grown /\ f \in File'
    BY <1>2, <2>2, <2>3, GrownByFile DEF Edit
  <2>5. AddVersion(tree[d], p, f) \in Trees'
    BY <2>1, <2>2, <2>4 DEF AddVersion, Trees, Grown
  <2>6. tree' \in [Dataset -> Trees']
    BY <1>2, <2>1, <2>4, <2>5 DEF Edit, Grown
  <2>7. todo' \in Seq(Steps')
    BY <1>2, <2>4, SaveStepsType DEF Edit
  <2> QED
    BY <1>2, <2>4, <2>6, <2>7, Kept, TypeStep DEF Edit
<1>3. Active \subseteq Dataset
  BY BoundsAssumption DEF Dataset
<1> QED
  BY <1>1, <1>2, <1>3 DEF Create

-----------------------------------------------------------------------------
(* The moves.                                                                *)

LEMMA TakingType ==
  ASSUME TypeOK, NEW from \in Dataset, NEW to \in Dataset, NEW goal, NEW alone,
         Taking(from, to, goal, alone)
  PROVE  muted' \subseteq Dataset /\ moves' \in 0..MaxMoves
<1>1. moves \in Nat /\ MaxMoves \in Nat /\ moves < MaxMoves /\ moves' = moves + 1
  BY BoundsAssumption DEF Taking, TypeOK
<1>2. muted' = muted \cup {from, to} \/ muted' = muted
  BY DEF Taking
<1>3. muted \subseteq Dataset
  BY DEF TypeOK
<1>4. muted' \subseteq Dataset
  BY <1>2, <1>3
<1>5. moves' \in 0..MaxMoves
  BY <1>1
<1> QED
  BY <1>4, <1>5

LEMMA ThenType ==
  ASSUME Grown, NEW from \in Dataset, NEW to \in Dataset, NEW goal \in Seq(Nat),
         NEW alone, NEW inner, NEW steps \in Seq(Steps'),
         Then(steps, from, to, goal, alone, inner)
  PROVE  todo' \in Seq(Steps')
<1> DEFINE more == ~alone
           taken == inner \/ (~Idle /\ Head(todo).taken)
           mv == [do |-> "mv", from |-> from, to |-> to, goal |-> goal, more |-> more, taken |-> taken]
<1>1. more \in BOOLEAN /\ taken \in BOOLEAN
  BY Zenon
<1>2. goal \in Path \cup {<<>>}
  BY DEF Path
<1> HIDE DEF more, taken
<1>3. mv \in Steps'
  BY <1>1, <1>2, MvKind, StepsAreSteps
<1>4. todo' = steps \o <<mv>>
  BY Zenon DEF Then, more, taken
<1> HIDE DEF mv
<1> QED
  BY <1>3, <1>4, ConcatProperties

LEMMA MayRenameType ==
  ASSUME TypeOK, NEW d \in Dataset, NEW p \in Nodes(tree[d]), NEW n, MayRename(d, p, n)
  PROVE  Grown /\ Renamed(d, p, n) \in Trees'
<1>1. /\ tree[d] \in Trees /\ secret \in Seq(Secrets)
      /\ disk \in [Dataset -> SUBSET File]
  BY DEF TypeOK
<1>2. p \in Path /\ Last(p) \in Nat
  BY <1>1, LastOfPath DEF Nodes, Trees
<1>3. CASE n = NodeName(tree[d], p)
  <2>1. Grown
    BY <1>1, <1>3, GrownByNothing DEF MayRename
  <2> QED
    BY <1>1, <1>3, <2>1 DEF Renamed, Grown
<1>4. CASE n # NodeName(tree[d], p)
  <2>1. n \in AnyName
    BY <1>4 DEF MayRename, AnyName
  <2>2. Write(d, Last(p), secret[Newest(Versions(tree[d], p))].type, n, NodeContent(tree[d], p))
    BY <1>4 DEF MayRename
  <2>3. /\ secret[Newest(Versions(tree[d], p))].type \in {Dir, Text}
        /\ NodeContent(tree[d], p) \in Content \cup {Empty}
    BY <1>1, NodeSays
  <2>4. Grown /\ Len(secret) + 1 \in File'
    BY <1>2, <2>1, <2>2, <2>3, GrownByFile
  <2>5. AddVersion(tree[d], p, Len(secret) + 1) \in Trees'
    BY <1>1, <1>2, <2>4 DEF AddVersion, Trees, Grown
  <2> QED
    BY <1>4, <2>4, <2>5 DEF Renamed
<1> QED
  BY <1>3, <1>4

\* What the moves make of a tree is a tree.
LEMMA MovedTrees ==
  ASSUME TypeOK, Grown, NEW d \in Dataset, NEW t \in Trees', NEW q \in Seq(Nat), NEW p \in Path
  PROVE  /\ Relocate(t, q, p) \in Trees'
         /\ \A x : Uproot(t, x) \in Trees' /\ Subtree(t, x) \in Trees'
         /\ \A sub \in Trees' : Plant(tree[d], q, p, sub) \in Trees'
<1>1. Trees' = Placed(File')
  BY DEF Trees, Placed
<1>2. tree[d] \in Trees'
  BY DEF Grown, TypeOK
<1> QED
  BY <1>1, <1>2, RelocatePlaced, PlantPlaced DEF Uproot, Subtree, Placed

LEMMA ShiftStep ==
  ASSUME NEW from \in Dataset, NEW m \in Trees'
  PROVE  /\ <<[do |-> "shift", from |-> from, moving |-> m]>> \in Seq(Steps')
         /\ <<[do |-> "destroy", moving |-> m]>> \in Seq(Steps')
<1>1. /\ [do |-> "shift", from |-> from, moving |-> m] \in Steps'
      /\ [do |-> "destroy", moving |-> m] \in Steps'
  BY StepKinds, StepsAreSteps
<1> QED
  BY <1>1

LEMMA MoveTypes ==
  ASSUME TypeOK, Move
  PROVE  TypeOK'
<1> SUFFICES ASSUME NEW d \in Dataset, NEW p \in Movable(d), NEW n \in Names(d, p),
                    \/ \E q \in Folders(tree[d]) : MoveWithin(d, p, q, n)
                    \/ \E q \in Folders(tree[Other(d)]), h \in Holders(d, p) : MoveAcross(d, p, q, n, h)
                    \/ \E h \in Holders(d, p) : MoveOnto(d, p, n, h)
                    \/ \E to \in Dataset : MoveBelow(d, to, p, n)
                    \/ d = "trash" /\ Destroy(p, n)
             PROVE  TypeOK'
  BY Zenon DEF Move
<1> DEFINE t == Renamed(d, p, n)
<1>1. /\ Other(d) \in Dataset /\ p \in Nodes(tree[d])
      /\ tree \in [Dataset -> Trees] /\ <<>> \in Seq(Nat)
  BY EmptySeq DEF Other, Dataset, Movable, TypeOK
<1>2. p \in Path
  BY <1>1 DEF Nodes, Trees
<1>3. ASSUME NEW x \in Dataset, NEW q \in Folders(tree[x]) PROVE q \in Seq(Nat)
  BY <1>1, FolderPath DEF Trees, Placed
<1>4. ASSUME MayRename(d, p, n)
      PROVE  /\ Grown /\ t \in Trees' /\ tree \in [Dataset -> Trees']
             /\ \A x : Uproot(t, x) \in Trees' /\ Subtree(t, x) \in Trees'
  <2>1. Grown /\ t \in Trees'
    BY <1>1, <1>4, MayRenameType
  <2> HIDE DEF t
  <2> QED
    BY <1>1, <1>2, <2>1, MovedTrees DEF Grown
<1> HIDE DEF t
<1>5. ASSUME NEW q \in Folders(tree[d]), MoveWithin(d, p, q, n) PROVE TypeOK'
  <2> DEFINE same  == Id(q) = Id(Front(p))
             alone == n # NodeName(tree[d], p) /\ (same \/ Called(tree[d], q, NodeName(tree[d], p)) = {})
  <2>1. /\ MayRename(d, p, n) /\ Taking(d, d, q, alone) /\ Then(<<>>, d, d, q, alone, FALSE)
        /\ tree' = [tree EXCEPT ![d] = IF same THEN t ELSE Relocate(t, q, p)]
        /\ UNCHANGED <<index, clock, on, mine, doomed, draft, sessions, failures>>
    BY <1>5, Zenon DEF MoveWithin, t
  <2> HIDE DEF same, alone
  <2>2. q \in Seq(Nat) /\ Grown /\ t \in Trees' /\ tree \in [Dataset -> Trees']
    BY <1>3, <1>4, <2>1
  <2>3. Relocate(t, q, p) \in Trees'
    BY <1>2, <2>2, MovedTrees
  <2>4. tree' \in [Dataset -> Trees']
    BY <2>1, <2>2, <2>3
  <2>5. todo' \in Seq(Steps')
    BY <2>1, <2>2, ThenType, EmptySeq
  <2>6. muted' \subseteq Dataset /\ moves' \in 0..MaxMoves
    BY <2>1, TakingType
  <2> QED
    BY <2>1, <2>2, <2>4, <2>5, <2>6, Kept, TypeStep
<1>6. ASSUME NEW q \in Folders(tree[Other(d)]), NEW h, MoveAcross(d, p, q, n, h) PROVE TypeOK'
  <2> DEFINE to    == Other(d)
             alone == n # NodeName(tree[d], p) /\ Called(tree[to], q, NodeName(tree[d], p)) = {}
             left  == IF n # NodeName(tree[d], p) /\ Id(Front(p)) # Id(q) THEN Uproot(t, p) ELSE t
             shift == <<[do |-> "shift", from |-> d, moving |-> Subtree(t, p)]>>
             inner == Cardinality(Nodes(Subtree(t, p))) > 1
  <2>1. /\ MayRename(d, p, n) /\ Taking(d, to, q, alone) /\ Then(shift, d, to, q, alone, inner)
        /\ tree' = [tree EXCEPT ![d] = Uproot(left, Append(h, Last(p))),
                                ![to] = Plant(@, q, p, Subtree(t, p))]
        /\ UNCHANGED <<index, clock, on, mine, doomed, draft, sessions, failures>>
    BY <1>6, Zenon DEF MoveAcross, t
  <2>2. /\ q \in Seq(Nat) /\ Grown /\ t \in Trees' /\ tree \in [Dataset -> Trees']
        /\ Subtree(t, p) \in Trees'
    BY <1>1, <1>3, <1>4, <2>1
  <2>3. left \in Trees'
    BY <1>4, <2>1, <2>2
  <2>4. shift \in Seq(Steps')
    BY <2>2, ShiftStep
  <2> HIDE DEF alone, left, shift, inner
  <2>5. Uproot(left, Append(h, Last(p))) \in Trees'
    BY <1>1, <1>2, <2>2, <2>3, MovedTrees
  <2>6. Plant(tree[to], q, p, Subtree(t, p)) \in Trees'
    BY <1>1, <1>2, <2>2, MovedTrees
  <2>7. tree' \in [Dataset -> Trees']
    <3>1. to # d /\ to \in Dataset
      BY DEF Other, Dataset
    <3> HIDE DEF to
    <3> QED
      BY <2>1, <2>2, <2>5, <2>6, <3>1
  <2>8. todo' \in Seq(Steps')
    BY <1>1, <2>1, <2>2, <2>4, ThenType
  <2>9. muted' \subseteq Dataset /\ moves' \in 0..MaxMoves
    BY <1>1, <2>1, TakingType
  <2> QED
    BY <2>1, <2>2, <2>7, <2>8, <2>9, Kept, TypeStep
<1>7. ASSUME NEW h, MoveOnto(d, p, n, h) PROVE TypeOK'
  <2> DEFINE shift == <<[do |-> "shift", from |-> d, moving |-> Subtree(t, p)]>>
  <2>1. /\ MayRename(d, p, n) /\ Taking(d, Other(d), <<>>, TRUE)
        /\ Then(shift, d, Other(d), <<>>, TRUE, FALSE)
        /\ tree' = [tree EXCEPT ![d] = IF h = Front(p) THEN t ELSE Uproot(t, Append(h, Last(p)))]
        /\ UNCHANGED <<index, clock, on, mine, doomed, draft, sessions, failures>>
    BY <1>7, Zenon DEF MoveOnto, t
  <2>2. /\ Grown /\ t \in Trees' /\ tree \in [Dataset -> Trees']
        /\ Subtree(t, p) \in Trees' /\ Uproot(t, Append(h, Last(p))) \in Trees'
    BY <1>4, <2>1
  <2>3. shift \in Seq(Steps')
    BY <2>2, ShiftStep
  <2> HIDE DEF shift
  <2>4. tree' \in [Dataset -> Trees']
    BY <2>1, <2>2
  <2>5. todo' \in Seq(Steps')
    BY <1>1, <2>1, <2>2, <2>3, ThenType
  <2>6. muted' \subseteq Dataset /\ moves' \in 0..MaxMoves
    BY <1>1, <2>1, TakingType
  <2> QED
    BY <2>1, <2>2, <2>4, <2>5, <2>6, Kept, TypeStep
<1>8. ASSUME NEW to \in Dataset, MoveBelow(d, to, p, n) PROVE TypeOK'
  <2>1. MayRename(d, p, n)
    BY <1>8 DEF MoveBelow
  <2>2. /\ Grown /\ t \in Trees' /\ tree \in [Dataset -> Trees'] /\ Subtree(t, p) \in Trees'
        /\ \A x \in Trees' : Uproot(x, p) \in Trees'
    <3>1. \A x \in Trees' : Uproot(x, p) \in Trees'
      BY DEF Uproot, Trees
    <3> QED
      BY <1>2, <1>4, <2>1, <3>1
  <2>3. tree' \in [Dataset -> Trees']
    <3>1. tree' = [tree EXCEPT ![d] = Uproot(@, p)]
      BY <1>8 DEF MoveBelow
    <3> QED
      BY <2>2, <3>1
  <2>4. todo' \in Seq(Steps')
    <3>1. todo' = <<>> \/ todo' = <<[do |-> "shift", from |-> d, moving |-> Subtree(t, p)]>>
      BY <1>8 DEF MoveBelow, t
    <3> QED
      BY <2>2, <3>1, ShiftStep, EmptySeq
  <2>5. muted' \subseteq Dataset /\ moves' \in 0..MaxMoves
    <3>1. muted' = muted \cup {d, to} /\ moves < MaxMoves /\ moves' = moves + 1
      BY <1>8 DEF MoveBelow
    <3> QED
      BY <3>1, BoundsAssumption DEF TypeOK
  <2>6. UNCHANGED <<index, clock, on, mine, doomed, draft, sessions, failures>>
    BY <1>8 DEF MoveBelow
  <2> QED
    BY <2>2, <2>3, <2>4, <2>5, <2>6, Kept, TypeStep
<1>9. ASSUME d = "trash", Destroy(p, n) PROVE TypeOK'
  <2> DEFINE destroy == <<[do |-> "destroy", moving |-> Subtree(t, p)]>>
  <2>1. /\ MayRename(d, p, n) /\ Taking(d, d, <<>>, FALSE)
        /\ Then(destroy, d, d, <<>>, FALSE, FALSE)
        /\ \/ tree' = [tree EXCEPT ![d] = Relocate(t, <<>>, p)]
           \/ tree' = [tree EXCEPT ![d] = Uproot(t, p)]
        /\ UNCHANGED <<index, clock, on, mine, doomed, draft, sessions, failures>>
    BY <1>9 DEF Destroy, t
  <2>2. /\ Grown /\ t \in Trees' /\ tree \in [Dataset -> Trees']
        /\ Subtree(t, p) \in Trees' /\ Uproot(t, p) \in Trees'
    BY <1>4, <2>1
  <2>3. Relocate(t, <<>>, p) \in Trees'
    BY <1>1, <1>2, <2>2, MovedTrees
  <2>4. destroy \in Seq(Steps')
    BY <2>2, ShiftStep
  <2> HIDE DEF destroy
  <2>5. tree' \in [Dataset -> Trees']
    BY <2>1, <2>2, <2>3
  <2>6. todo' \in Seq(Steps')
    BY <1>1, <2>1, <2>2, <2>4, ThenType
  <2>7. muted' \subseteq Dataset /\ moves' \in 0..MaxMoves
    BY <1>1, <2>1, TakingType
  <2> QED
    BY <2>1, <2>2, <2>5, <2>6, <2>7, Kept, TypeStep
<1> QED
  BY <1>5, <1>6, <1>7, <1>8, <1>9

LEMMA FileTypes ==
  ASSUME TypeOK, FileStep \/ MvDone \/ Unmute \/ MvThrows
  PROVE  TypeOK'
<1>0. todo # <<>> => Head(todo) \in Steps
  BY TodoType DEF TypeOK
<1>1. ASSUME NEW e, NextFile(e), Doing("shift") \/ Doing("destroy"), Grown
      PROVE  todo' \in Seq(Steps')
  <2> DEFINE left == Head(todo).moving \ {e}
  <2>1. todo # <<>> /\ Head(todo).do \in {"shift", "destroy"}
    BY <1>1 DEF Doing
  <2>2. Rest \in Seq(Steps')
    BY <1>1, <2>1, Kept
  <2>3. left \in Trees
    BY <1>0, <2>1, StepFields DEF Trees
  <2>4. todo' = Rest \/ todo' = <<[Head(todo) EXCEPT !.moving = left]>> \o Rest
    BY <1>1 DEF NextFile
  <2> HIDE DEF left
  <2>5. [Head(todo) EXCEPT !.moving = left] \in Steps'
    BY <1>0, <1>1, <2>1, <2>3, StepFields DEF Grown
  <2> QED
    BY <2>2, <2>4, <2>5, ConcatProperties
<1>2. ASSUME NEW e, ShiftFile(e) PROVE TypeOK'
  <2>1. /\ Head(todo).from \in Dataset /\ Other(Head(todo).from) \in Dataset
        /\ e.file \in File
    <3>1. e \in Head(todo).moving /\ Head(todo).from \in Dataset /\ Head(todo).moving \in Trees
      BY <1>0, <1>2, StepFields DEF ShiftFile, NextFile, Doing
    <3> QED
      BY <3>1 DEF Trees, Other, Dataset
  <2>2. disk' \in [Dataset -> SUBSET File]
    BY <1>2, <2>1 DEF ShiftFile, Shift, TypeOK
  <2>3. Grown
    BY <1>2, <2>2, GrownByNothing DEF ShiftFile
  <2>4. todo' \in Seq(Steps')
    BY <1>1, <1>2, <2>3 DEF ShiftFile
  <2> QED
    BY <1>2, <2>3, <2>4, Kept, TypeStep DEF ShiftFile, memory
<1>3. ASSUME NEW e, DestroyFile(e) PROVE TypeOK'
  <2>1. disk' \in [Dataset -> SUBSET File]
    BY <1>3 DEF DestroyFile, TypeOK
  <2>2. Grown
    BY <1>3, <2>1, GrownByNothing DEF DestroyFile
  <2>3. todo' \in Seq(Steps')
    BY <1>1, <1>3, <2>2 DEF DestroyFile
  <2> QED
    BY <1>3, <2>2, <2>3, Kept, TypeStep DEF DestroyFile, memory
<1>4. CASE MvDone
  <2>1. Grown
    BY <1>4, GrownByNothing DEF MvDone, TypeOK, disks
  <2>2. Head(todo).from \in Dataset /\ Head(todo).to \in Dataset
    BY <1>0, <1>4, StepFields DEF MvDone, Doing
  <2> DEFINE Finish(d) == <<[do |-> "unmute", ds |-> d]>> \o Save(d)
  <2>3. ASSUME NEW d \in Dataset PROVE Finish(d) \in Seq(Steps')
    <3>1. [do |-> "unmute", ds |-> d] \in Steps'
      BY StepKinds, StepsAreSteps
    <3>2. Save(d) \in Seq(Steps')
      BY <2>1, SaveStepsType
    <3> QED
      BY <3>1, <3>2, ConcatProperties
  <2>4. todo' = Finish(Head(todo).from) \o
                  (IF Head(todo).to = Head(todo).from THEN <<>> ELSE Finish(Head(todo).to))
    BY <1>4 DEF MvDone
  <2> HIDE DEF Finish
  <2>5. todo' \in Seq(Steps')
    BY <2>2, <2>3, <2>4, ConcatProperties, EmptySeq
  <2> QED
    BY <1>4, <2>1, <2>5, Kept, TypeStep DEF MvDone, disks, memory
<1>5. CASE Unmute
  <2>1. Grown
    BY <1>5, GrownByNothing DEF Unmute, TypeOK, disks
  <2>2. muted' \subseteq Dataset
    BY <1>5 DEF Unmute, TypeOK
  <2> QED
    BY <1>5, <2>1, <2>2, Kept, TypeStep DEF Unmute, Doing, disks
<1>6. CASE MvThrows
  <2>1. Grown
    BY <1>6, GrownByNothing DEF MvThrows, TypeOK, disks
  <2> QED
    BY <1>6, <2>1, Kept, TypeStep, EmptySeq DEF MvThrows, disks, memory
<1> QED
  BY <1>2, <1>3, <1>4, <1>5, <1>6 DEF FileStep

LEMMA SessionTypes ==
  ASSUME TypeOK, Start \/ Stop
  PROVE  TypeOK'
<1>1. CASE Start
  <2>1. Grown
    BY <1>1, GrownByNothing DEF Start, TypeOK, disks
  <2>2. todo' \in Seq(Steps')
    <3>1. "main" \in Dataset /\ "trash" \in Dataset
      BY DEF Dataset
    <3>2. \A d \in Dataset, k \in {"load", "bury"} : [do |-> k, ds |-> d] \in Steps'
      BY StepKinds, StepsAreSteps
    <3>3. [do |-> "ready"] \in Steps'
      BY <3>1, StepKinds, StepsAreSteps
    <3> DEFINE a == [do |-> "load", ds |-> "main"]
               b == [do |-> "load", ds |-> "trash"]
               c == [do |-> "bury", ds |-> "trash"]
               e == [do |-> "bury", ds |-> "main"]
               f == [do |-> "ready"]
    <3>4. a \in Steps' /\ b \in Steps' /\ c \in Steps' /\ e \in Steps' /\ f \in Steps'
      BY <3>1, <3>2, <3>3
    <3>5. todo' = <<a, b, c, e, f>>
      BY <1>1 DEF Start
    <3> HIDE DEF a, b, c, e, f
    <3> QED
      BY <3>4, <3>5
  <2>3. sessions' \in 0..(MaxSessions + MaxRestarts)
    <3>1. sessions \in Nat /\ MaxSessions \in Nat /\ MaxRestarts \in Nat
      BY BoundsAssumption DEF TypeOK
    <3> QED
      BY <1>1, <3>1 DEF Start
  <2>4. on' \in BOOLEAN
    BY <1>1 DEF Start
  <2> QED
    BY <1>1, <2>1, <2>2, <2>3, <2>4, Kept, TypeStep DEF Start, disks, memory
<1>2. CASE Stop
  <2>1. Grown
    BY <1>2, GrownByNothing DEF Stop, TypeOK, disks
  <2>2. /\ tree' \in [Dataset -> Trees'] /\ mine' \in [Dataset -> 0..clock']
        /\ doomed' \in [Dataset -> SUBSET (File')] /\ muted' \subseteq Dataset
        /\ on' \in BOOLEAN
    <3>1. {} \in Trees' /\ clock' \in Nat
      BY <1>2 DEF Trees, Stop, disks, TypeOK
    <3>2. tree' = [d \in Dataset |-> {}] /\ mine' = [d \in Dataset |-> 0]
          /\ doomed' = [d \in Dataset |-> {}] /\ muted' = {} /\ on' = FALSE
      BY <1>2 DEF Stop
    <3>3. tree' \in [Dataset -> Trees']
      BY <3>1, <3>2
    <3>4. mine' \in [Dataset -> 0..clock']
      BY <3>1, <3>2
    <3>5. doomed' \in [Dataset -> SUBSET (File')]
      BY <3>2
    <3> QED
      BY <3>2, <3>3, <3>4, <3>5
  <2> QED
    BY <1>2, <2>1, <2>2, Kept, TypeStep, EmptySeq DEF Stop, disks
<1> QED
  BY <1>1, <1>2

-----------------------------------------------------------------------------
(* The loads.                                                                *)

LEMMA PruneType ==
  ASSUME TypeOK, Grown, NEW d \in Dataset
  PROVE  Prune(d) \in Seq(Steps')
<1> DEFINE old == {x \in index[d] : Cardinality({y \in index[d] : y.ts > x.ts}) >= 2}
           I == {x.ts : x \in old}
<1>1. index[d] \subseteq [ts : 1..clock, tree : Trees] /\ clock \in Nat
  BY DEF TypeOK
<1>2. old \subseteq index[d]
  OBVIOUS
<1>3. I \in SUBSET Nat
  <2> HIDE DEF old
  <2> QED
    BY <1>1, <1>2
<1>4. Prune(d) = <<[do |-> "prune", ds |-> d, old |-> I]>>
  BY Zenon DEF Prune
<1> HIDE DEF I
<1>5. [do |-> "prune", ds |-> d, old |-> I] \in Steps'
  BY <1>3, StepKinds, StepsAreSteps
<1> QED
  BY <1>4, <1>5

LEMMA RecoverType ==
  ASSUME Grown, NEW d \in Dataset, NEW P \in SUBSET Spot, NEW R \in SUBSET File,
         NEW done \in BOOLEAN
  PROVE  Recover(d, P, R, done) \in Seq(Steps')
<1>1. R \in SUBSET File' /\ Seq(AnyName) \subseteq Seq(AnyName')
  BY SeqMonotonic DEF Grown
<1>2. P \in SUBSET [path : Seq(AnyName'), file : File']
  BY <1>1 DEF Spot, Grown
<1>3. [do |-> "recover", ds |-> d, paths |-> P, rest |-> R, done |-> done] \in Steps'
  BY <1>1, <1>2, RecoverKind, StepsAreSteps
<1> QED
  BY <1>3 DEF Recover

LEMMA UnlistType ==
  ASSUME Grown, NEW d \in Dataset, NEW R \in SUBSET File
  PROVE  <<[do |-> "unlist", ds |-> d, rest |-> R]>> \in Seq(Steps')
<1>1. [do |-> "unlist", ds |-> d, rest |-> R] \in Steps'
  BY StepKinds, StepsAreSteps DEF Grown
<1> QED
  BY <1>1

LEMMA LoadTypes ==
  ASSUME TypeOK, NEW d \in Dataset, LoadEmpty(d) \/ LoadWithoutIndex(d) \/ LoadIndex(d)
  PROVE  TypeOK'
<1>1. todo # <<>> /\ UNCHANGED <<secret, disk, index, clock>>
  BY DEF LoadEmpty, LoadWithoutIndex, LoadIndex, Doing, disks
<1>2. Grown
  BY <1>1, GrownByNothing DEF TypeOK
<1>3. Rest \in Seq(Steps')
  BY <1>1, <1>2, Kept
<1>4. CASE LoadEmpty(d)
  BY <1>2, <1>3, <1>4, Kept, TypeStep DEF LoadEmpty, disks, memory
<1>5. CASE LoadWithoutIndex(d)
  <2>1. disk[d] \in SUBSET File
    BY DEF TypeOK
  <2>2. <<[do |-> "unlist", ds |-> d, rest |-> disk[d]]>> \in Seq(Steps') /\ Save(d) \in Seq(Steps')
    BY <1>2, <2>1, UnlistType, SaveStepsType
  <2>3. todo' \in Seq(Steps')
    BY <1>3, <1>5, <2>2, ConcatProperties DEF LoadWithoutIndex
  <2> QED
    BY <1>2, <1>5, <2>3, Kept, TypeStep DEF LoadWithoutIndex, disks, memory
<1>6. CASE LoadIndex(d)
  <2>1. PICK t \in Loaded(LastIndex(d).tree, disk[d]) :
          /\ tree' = [tree EXCEPT ![d] = t]
          /\ \/ todo' = Prune(d) \o Rest
             \/ \E olds \in Olds(d) : \E l \in Located(olds, disk[d] \ Files(t)) :
                  todo' = Recover(d, l.paths, l.rest, FALSE) \o Prune(d) \o Rest
    BY <1>6 DEF LoadIndex
  <2>2. /\ secret \in Seq(Secrets) /\ clock \in Nat /\ index \in [Dataset -> Indexes]
        /\ tree \in [Dataset -> Trees] /\ disk[d] \in SUBSET File
    BY DEF TypeOK, Indexes
  <2>3. t \in Trees'
    <3>1. LastIndex(d).tree \in Trees
      BY <1>6, <2>2, LastIndexType DEF LoadIndex
    <3> QED
      BY <1>2, <3>1, LoadedType DEF Grown
  <2>4. tree' \in [Dataset -> Trees']
    BY <1>2, <2>1, <2>2, <2>3 DEF Grown
  <2>5. Prune(d) \in Seq(Steps')
    BY <1>2, PruneType
  <2>6. ASSUME NEW olds \in Olds(d), NEW l \in Located(olds, disk[d] \ Files(t))
        PROVE  Recover(d, l.paths, l.rest, FALSE) \in Seq(Steps')
    <3>1. /\ DOMAIN olds \in Indexes
          /\ \A x \in DOMAIN olds : olds[x] \in Trees /\ Rooted(olds[x])
      BY <2>2, OldsType
    <3>2. l.paths \subseteq Spot /\ l.rest \subseteq File
      <4>1. disk[d] \ Files(t) \in SUBSET File
        BY <2>2
      <4> QED
        BY <2>2, <3>1, <4>1, LocatedType
    <3> QED
      BY <1>2, <3>2, RecoverType
  <2>7. todo' \in Seq(Steps')
    BY <1>3, <2>1, <2>5, <2>6, ConcatProperties
  <2> QED
    BY <1>1, <1>2, <1>6, <2>4, <2>7, Kept, TypeStep DEF LoadIndex
<1> QED
  BY <1>4, <1>5, <1>6

\* A tree of a dataset gets a node from a file.
LEMMA TreeGrafted ==
  ASSUME TypeOK, Grown, NEW d \in Dataset, NEW q \in Seq(Nat), NEW id \in Nat, NEW f \in File',
         tree' = [tree EXCEPT ![d] = Graft(@, q, id, f)]
  PROVE  tree' \in [Dataset -> Trees']
<1>1. tree \in [Dataset -> Trees'] /\ Trees' = Placed(File')
  BY DEF TypeOK, Grown, Trees, Placed
<1>2. Graft(tree[d], q, id, f) \in Trees'
  BY <1>1, GraftPlaced
<1> QED
  BY <1>1, <1>2

LEMMA RecoverOneTypes ==
  ASSUME TypeOK, NEW r, RecoverOne(r)
  PROVE  TypeOK'
<1> DEFINE d    == Head(todo).ds
           s    == secret[r.file]
           home == {p \in Lookup(tree[d], Front(r.path)) : IsDir(tree[d], p)}
           more(done) == Recover(d, Head(todo).paths \ {r}, Head(todo).rest, done) \o Rest
           news(q) == s.type = Text /\ s.content # NodeContent(tree[d], Append(q, s.id))
<1>1. /\ todo # <<>> /\ Head(todo).do = "recover" /\ Head(todo) \in Steps
      /\ r \in Head(todo).paths
      /\ UNCHANGED <<secret, disk, index, clock, on, mine, muted, draft, sessions, moves, failures>>
  BY TodoType DEF RecoverOne, Doing, TypeOK, disks
<1>2. PICK q \in IF home = {} THEN {<<>>} ELSE home :
        \/ /\ doomed' = [doomed EXCEPT ![d] = @ \cup {r.file}]
           /\ tree' = tree \/ tree' = [tree EXCEPT ![d] = AddVersion(@, Append(q, s.id), r.file)]
           /\ todo' = more(Head(todo).done \/ news(q))
        \/ /\ tree' = [tree EXCEPT ![d] = Graft(@, q, s.id, r.file)]
           /\ todo' = more(TRUE)
           /\ UNCHANGED doomed
  <2> SUFFICES \E q \in IF home = {} THEN {<<>>} ELSE home :
        \/ /\ doomed' = [doomed EXCEPT ![d] = @ \cup {r.file}]
           /\ tree' = IF news(q) THEN [tree EXCEPT ![d] = AddVersion(@, Append(q, s.id), r.file)] ELSE tree
           /\ todo' = more(Head(todo).done \/ news(q))
        \/ /\ tree' = [tree EXCEPT ![d] = Graft(@, q, s.id, r.file)]
           /\ todo' = more(TRUE)
           /\ UNCHANGED doomed
    OBVIOUS
  <2> QED
    BY Zenon DEF RecoverOne
<1>3. /\ d \in Dataset /\ Head(todo).rest \in SUBSET File
      /\ Head(todo).paths \subseteq Spot /\ r.file \in File
  BY <1>1, StepFields DEF Spot
<1>4. Head(todo).done \in BOOLEAN
  BY <1>1, StepTruths
<1>5. Grown
  BY <1>1, GrownByNothing DEF TypeOK
<1>6. Rest \in Seq(Steps')
  BY <1>1, <1>5, Kept
<1>7. s.id \in Nat
  BY <1>3, SecretOf DEF TypeOK
<1>8. q \in Seq(Nat)
  <2>1. tree[d] \in Trees
    BY <1>3 DEF TypeOK
  <2>2. home \subseteq Nodes(tree[d]) \cup {<<>>}
    BY DEF Lookup
  <2>3. Nodes(tree[d]) \subseteq Seq(Nat)
    BY <2>1 DEF Nodes, Trees, Path
  <2> HIDE DEF home
  <2> QED
    BY <1>2, <2>2, <2>3, EmptySeq
<1>9. ASSUME NEW done \in BOOLEAN PROVE more(done) \in Seq(Steps')
  <2>1. Head(todo).paths \ {r} \in SUBSET Spot
    BY <1>3
  <2>2. Recover(d, Head(todo).paths \ {r}, Head(todo).rest, done) \in Seq(Steps')
    BY <1>3, <1>5, <2>1, RecoverType
  <2> QED
    BY <1>6, <2>2, ConcatProperties
<1>10. (Head(todo).done \/ news(q)) \in BOOLEAN
  BY Zenon
<1> HIDE DEF more, news, home
<1>11. todo' \in Seq(Steps')
  BY <1>2, <1>9, <1>10, Zenon
<1>12. doomed' \in [Dataset -> SUBSET (File')]
  <2>1. doomed \in [Dataset -> SUBSET (File')] /\ r.file \in File'
    BY <1>3, <1>5 DEF TypeOK, Grown
  <2> HIDE DEF d
  <2>2. [doomed EXCEPT ![d] = @ \cup {r.file}] \in [Dataset -> SUBSET (File')]
    BY <1>3, <2>1
  <2> QED
    BY <1>2, <2>1, <2>2, Zenon
<1>13. tree' \in [Dataset -> Trees']
  <2>1. tree \in [Dataset -> Trees'] /\ r.file \in File'
    BY <1>3, <1>5 DEF TypeOK, Grown
  <2>2. AddVersion(tree[d], Append(q, s.id), r.file) \in Trees'
    <3>1. Append(q, s.id) \in Path
      BY <1>7, <1>8, AppendPath
    <3>2. tree[d] \in Placed(File') /\ Trees' = Placed(File')
      BY <1>3, <2>1 DEF Trees, Placed
    <3> QED
      BY <2>1, <3>1, <3>2, AddVersionPlaced
  <2>3. CASE tree' = [tree EXCEPT ![d] = AddVersion(@, Append(q, s.id), r.file)]
    BY <1>3, <2>1, <2>2, <2>3
  <2>4. CASE tree' = [tree EXCEPT ![d] = Graft(@, q, s.id, r.file)]
    BY <1>3, <1>5, <1>7, <1>8, <2>1, <2>4, TreeGrafted
  <2> HIDE DEF d, s
  <2> QED
    BY <1>2, <2>1, <2>3, <2>4, Zenon
<1> QED
  BY <1>1, <1>5, <1>11, <1>12, <1>13, Kept, TypeStep

LEMMA RecoverTypes ==
  ASSUME TypeOK, Recovered \/ Unlist \/ Gather \/ PruneIndex
  PROVE  TypeOK'
<1> DEFINE d == Head(todo).ds
<1>1. todo # <<>> /\ Head(todo) \in Steps /\ d \in Dataset
  BY TodoType, StepFields DEF Recovered, Unlist, Gather, PruneIndex, Doing, TypeOK
<1>2. CASE Recovered
  <2>1. Grown
    BY <1>2, GrownByNothing DEF Recovered, TypeOK, disks
  <2>2. Rest \in Seq(Steps')
    BY <1>1, <2>1, Kept
  <2>3. /\ <<[do |-> "unlist", ds |-> d, rest |-> Head(todo).rest]>> \in Seq(Steps')
        /\ Save(d) \in Seq(Steps')
    <3>1. Head(todo).rest \in SUBSET File
      BY <1>1, <1>2, StepFields DEF Recovered, Doing
    <3> QED
      BY <1>1, <2>1, <3>1, UnlistType, SaveStepsType
  <2> DEFINE a == IF Head(todo).rest = {} THEN <<>>
                  ELSE <<[do |-> "unlist", ds |-> d, rest |-> Head(todo).rest]>>
             b == IF Head(todo).rest = {} /\ ~Head(todo).done THEN <<>> ELSE Save(d)
  <2>4. a \in Seq(Steps') /\ b \in Seq(Steps')
    BY <2>3, EmptySeq, Zenon
  <2>5. todo' = a \o b \o Rest
    BY <1>2, Zenon DEF Recovered
  <2> HIDE DEF a, b
  <2>6. todo' \in Seq(Steps')
    BY <2>2, <2>4, <2>5, ConcatProperties
  <2> QED
    BY <1>2, <2>1, <2>6, Kept, TypeStep DEF Recovered, disks, memory
<1>3. CASE Unlist
  <2> DEFINE f == Len(secret) + 1
  <2>1. /\ Write(d, f, Dir, RecName(f), Empty)
        /\ tree' = [tree EXCEPT ![d] = Graft(@, <<>>, f, f)]
        /\ todo' = Save(d) \o <<[do |-> "gather", ds |-> d, rest |-> Head(todo).rest, rec |-> f]>>
                    \o Save(d) \o Rest
        /\ UNCHANGED <<index, clock, on, mine, muted, doomed, draft, sessions, moves, failures>>
    BY <1>3 DEF Unlist
  <2>2. f \in Nat
    BY LenProperties DEF TypeOK
  <2>3. Grown /\ f \in File'
    BY <1>1, <2>1, <2>2, GrownByFile
  <2>4. tree' \in [Dataset -> Trees']
    BY <1>1, <2>1, <2>2, <2>3, TreeGrafted, EmptySeq
  <2>5. Rest \in Seq(Steps') /\ Save(d) \in Seq(Steps')
    BY <1>1, <2>3, Kept, SaveStepsType
  <2>6. [do |-> "gather", ds |-> d, rest |-> Head(todo).rest, rec |-> f] \in Steps'
    <3>1. Head(todo).rest \in SUBSET File'
      BY <1>1, <1>3, <2>3, StepFields DEF Unlist, Doing, Grown
    <3> QED
      BY <1>1, <2>3, <3>1, StepKinds, StepsAreSteps
  <2> DEFINE g == [do |-> "gather", ds |-> d, rest |-> Head(todo).rest, rec |-> f]
  <2>7. todo' \in Seq(Steps')
    <3>1. todo' = Save(d) \o <<g>> \o Save(d) \o Rest
      BY <2>1
    <3>2. <<g>> \in Seq(Steps')
      BY <2>6
    <3> HIDE DEF g, d
    <3> QED
      BY <2>5, <3>1, <3>2, ConcatProperties
  <2> QED
    BY <2>1, <2>3, <2>4, <2>7, Kept, TypeStep
<1>4. CASE Gather
  <2>1. Grown
    BY <1>4, GrownByNothing DEF Gather, TypeOK, disks
  <2>2. Rest \in Seq(Steps')
    BY <1>1, <2>1, Kept
  <2>3. Head(todo).rest \subseteq File /\ Head(todo).rec \in Nat
    <3>1. Head(todo).rest \subseteq File /\ Head(todo).rec \in File
      BY <1>1, <1>4, StepFields DEF Gather, Doing
    <3> QED
      BY <3>1, LenProperties DEF TypeOK, File
  <2>4. PICK last \in SUBSET Head(todo).rest :
           tree' = [tree EXCEPT ![d] = @ \cup
                      {[at |-> <<Head(todo).rec, secret[f].id>>, file |-> f] : f \in last}]
    BY <1>4 DEF Gather
  <2> DEFINE new == {[at |-> <<Head(todo).rec, secret[f].id>>, file |-> f] : f \in last}
  <2>5. new \in Trees'
    <3>1. ASSUME NEW f \in last
          PROVE  [at |-> <<Head(todo).rec, secret[f].id>>, file |-> f] \in [at : Path, file : File']
      <4>1. f \in File /\ f \in File'
        BY <2>1, <2>3 DEF Grown
      <4>2. secret[f].id \in Nat
        BY <4>1, SecretOf DEF TypeOK
      <4>3. <<Head(todo).rec, secret[f].id>> \in Path
        BY <2>3, <4>2 DEF Path
      <4> QED
        BY <4>1, <4>3
    <3> QED
      BY <3>1 DEF Trees
  <2>6. tree' \in [Dataset -> Trees']
    <3>1. tree \in [Dataset -> Trees']
      BY <2>1 DEF TypeOK, Grown
    <3>2. tree[d] \cup new \in Trees'
      BY <1>1, <2>5, <3>1 DEF Trees
    <3>3. tree' = [tree EXCEPT ![d] = @ \cup new]
      BY <2>4
    <3> HIDE DEF new, d
    <3> QED
      BY <1>1, <3>1, <3>2, <3>3
  <2> QED
    BY <1>4, <2>1, <2>2, <2>6, Kept, TypeStep DEF Gather, disks
<1>5. CASE PruneIndex
  <2>1. Grown
    BY <1>5, GrownByNothing DEF PruneIndex, TypeOK
  <2>2. Rest \in Seq(Steps')
    BY <1>1, <2>1, Kept
  <2> DEFINE old == Head(todo).old
             I == old \ {Newest(old)}
  <2>3. /\ todo' = Rest \/ todo' = <<[Head(todo) EXCEPT !.old = I]>> \o Rest
        /\ index' = index \/ index' = [index EXCEPT ![d] = {x \in @ : x.ts # Newest(old)}]
        /\ UNCHANGED <<secret, disk, clock, on, tree, mine, muted, doomed, draft, sessions, moves, failures>>
    BY <1>5 DEF PruneIndex, memory
  <2>4. I \in SUBSET Nat
    BY <1>1, <1>5, StepFields DEF PruneIndex, Doing
  <2> HIDE DEF I
  <2>5. [Head(todo) EXCEPT !.old = I] \in Steps'
    BY <1>1, <1>5, <2>1, <2>4, StepFields DEF PruneIndex, Doing, Grown
  <2>6. todo' \in Seq(Steps')
    BY <2>2, <2>3, <2>5, ConcatProperties
  <2>7. index' \in [Dataset -> SUBSET [ts : 1..clock', tree : Trees']]
    <3>1. index \in [Dataset -> SUBSET [ts : 1..clock, tree : Trees']]
      BY <2>1 DEF TypeOK, Grown
    <3> HIDE DEF d, old
    <3>2. [index EXCEPT ![d] = {x \in @ : x.ts # Newest(old)}]
            \in [Dataset -> SUBSET [ts : 1..clock, tree : Trees']]
      BY <1>1, <3>1
    <3>3. index' \in [Dataset -> SUBSET [ts : 1..clock, tree : Trees']]
      BY <2>3, <3>1, <3>2, Zenon
    <3> QED
      BY <2>3, <3>3
  <2> QED
    BY <2>1, <2>3, <2>6, <2>7, Kept, TypeStep
<1> QED
  BY <1>2, <1>3, <1>4, <1>5

LEMMA BuryTypes ==
  ASSUME TypeOK, (\E f : Bury(f)) \/ NothingToBury \/ Ready
  PROVE  TypeOK'
<1>1. CASE NothingToBury \/ Ready
  <2>1. Grown
    BY <1>1, GrownByNothing DEF NothingToBury, Ready, TypeOK, disks
  <2> QED
    BY <1>1, <2>1, Kept, TypeStep DEF NothingToBury, Ready, Doing, disks, memory
<1>2. ASSUME NEW f, Bury(f) PROVE TypeOK'
  <2> DEFINE d == Head(todo).ds
  <2>1. todo # <<>> /\ d \in Dataset /\ "trash" \in Dataset /\ f \in doomed[d] /\ f \in File
    BY <1>2, TodoType, StepFields DEF Bury, Doing, TypeOK, Dataset
  <2>2. /\ doomed' = [doomed EXCEPT ![d] = @ \ {f}]
        /\ \/ disk' = [disk EXCEPT ![d] = @ \ {f}] /\ UNCHANGED tree
           \/ /\ Shift(f, d, "trash")
              /\ tree' = [tree EXCEPT !["trash"] = Graft(@, <<>>, secret[f].id, f)]
        /\ todo' = Save(d) \o Save("trash") \o Rest \/ UNCHANGED todo
        /\ UNCHANGED <<secret, index, clock, on, mine, muted, draft, sessions, moves, failures>>
    BY <1>2 DEF Bury
  <2>3. Grown
    <3>1. disk \in [Dataset -> SUBSET File]
      BY DEF TypeOK
    <3>2. Shift(f, d, "trash") => disk' \in [Dataset -> SUBSET File]
      BY <2>1, <3>1 DEF Shift
    <3>3. [disk EXCEPT ![d] = @ \ {f}] \in [Dataset -> SUBSET File]
      BY <2>1, <3>1
    <3> HIDE DEF d
    <3>4. disk' \in [Dataset -> SUBSET File]
      BY <2>2, <3>2, <3>3, Zenon
    <3> QED
      BY <2>2, <3>4, GrownByNothing
  <2>4. secret[f].id \in Nat /\ f \in File'
    BY <2>1, <2>3, SecretOf DEF TypeOK, Grown
  <2>5. tree' \in [Dataset -> Trees']
    <3>1. CASE UNCHANGED tree
      BY <2>3, <3>1, Kept
    <3>2. CASE tree' = [tree EXCEPT !["trash"] = Graft(@, <<>>, secret[f].id, f)]
      BY <2>1, <2>3, <2>4, <3>2, TreeGrafted, EmptySeq
    <3> HIDE DEF d
    <3> QED
      BY <2>2, <3>1, <3>2, Zenon
  <2>6. doomed' \in [Dataset -> SUBSET (File')]
    <3>1. doomed \in [Dataset -> SUBSET (File')]
      BY <2>3 DEF TypeOK, Grown
    <3> HIDE DEF d
    <3> QED
      BY <2>1, <2>2, <3>1
  <2>7. todo' \in Seq(Steps')
    <3>1. Rest \in Seq(Steps') /\ todo \in Seq(Steps')
      BY <2>1, <2>3, Kept
    <3>2. Save(d) \in Seq(Steps') /\ Save("trash") \in Seq(Steps')
      BY <2>1, <2>3, SaveStepsType
    <3>3. Save(d) \o Save("trash") \o Rest \in Seq(Steps')
      BY <3>1, <3>2, ConcatProperties
    <3> HIDE DEF d
    <3> QED
      BY <2>2, <3>1, <3>3, Zenon
  <2> QED
    BY <2>2, <2>3, <2>5, <2>6, <2>7, Kept, TypeStep
<1> QED
  BY <1>1, <1>2

LEMMA TypeInit == Init => TypeOK
<1> SUFFICES ASSUME Init PROVE TypeOK
  OBVIOUS
<1>1. secret \in Seq(Secrets) /\ todo \in Seq(Steps)
  BY EmptySeq DEF Init
<1>2. \A S : {} \in SUBSET S
  OBVIOUS
<1>3. /\ disk \in [Dataset -> SUBSET File] /\ doomed \in [Dataset -> SUBSET File]
      /\ index \in [Dataset -> SUBSET [ts : 1..clock, tree : Trees]]
      /\ tree \in [Dataset -> Trees]
  BY <1>2 DEF Init, Trees
<1>4. mine \in [Dataset -> 0..clock]
  BY DEF Init
<1>5. /\ clock \in Nat /\ on \in BOOLEAN /\ muted \subseteq Dataset
      /\ sessions \in 0..(MaxSessions + MaxRestarts)
      /\ moves \in 0..MaxMoves /\ failures \in 0..MaxFailures
      /\ draft \in File \cup {0}
  <2>1. MaxSessions \in Nat /\ MaxRestarts \in Nat /\ MaxMoves \in Nat /\ MaxFailures \in Nat
    BY BoundsAssumption
  <2>2. \A n \in Nat : 0 \in 0..n
    OBVIOUS
  <2>3. MaxSessions + MaxRestarts \in Nat
    BY <2>1
  <2>4. clock = 0 /\ on = FALSE /\ muted = {} /\ sessions = 0 /\ moves = 0 /\ failures = 0
        /\ draft = 0
    BY DEF Init
  <2>5. sessions \in 0..(MaxSessions + MaxRestarts) /\ moves \in 0..MaxMoves
        /\ failures \in 0..MaxFailures
    BY <2>1, <2>2, <2>3, <2>4
  <2>6. clock \in Nat
    BY <2>4
  <2>7. on \in BOOLEAN
    BY <2>4
  <2>8. muted \subseteq Dataset
    BY <2>4
  <2>9. draft \in File \cup {0}
    BY <2>4
  <2> QED
    BY <2>5, <2>6, <2>7, <2>8, <2>9
<1> QED
  BY <1>1, <1>3, <1>4, <1>5 DEF TypeOK

LEMMA RefusedTypes ==
  ASSUME TypeOK, NEW from \in Dataset, NEW to \in Dataset, Refused(from, to)
  PROVE  TypeOK'
<1>1. Grown
  BY GrownByNothing DEF Refused, TypeOK, disks
<1>2. muted' \subseteq Dataset /\ moves' \in 0..MaxMoves
  BY BoundsAssumption DEF Refused, TypeOK
<1> QED
  BY <1>1, <1>2, Kept, TypeStep DEF Refused, disks

LEMMA TypeNext == TypeOK /\ [Next]_vars => TypeOK'
<1> SUFFICES ASSUME TypeOK, [Next]_vars PROVE TypeOK'
  OBVIOUS
<1>1. CASE Start \/ Stop
  BY <1>1, SessionTypes
<1>2. CASE Create
  BY <1>2, CreateTypes
<1>3. CASE Move
  BY <1>3, MoveTypes
<1>4. CASE SaveStep \/ WriteFails
  BY <1>4, SaveTypes DEF SaveStep
<1>5. CASE FileStep \/ MvDone \/ Unmute \/ MvThrows
  BY <1>5, FileTypes
<1>6. CASE LoadStep
  BY <1>6, LoadTypes, RecoverOneTypes, RecoverTypes, BuryTypes DEF LoadStep, RecoverStep, BuryStep
<1>7. CASE UNCHANGED vars
  <2>1. Grown
    BY <1>7, GrownByNothing DEF vars, TypeOK
  <2> QED
    BY <1>7, <2>1, Kept, TypeStep DEF vars
<1>8. CASE \E from, to \in Dataset : Refused(from, to)
  BY <1>8, RefusedTypes
<1> QED
  BY <1>1, <1>2, <1>3, <1>4, <1>5, <1>6, <1>7, <1>8 DEF Next, Goes, Step

\* In every state that the file system can reach, whatever the numbers of files,
\* names, sessions, crashes and failures, each part of the state has its type: a
\* tree and an index name only files that were written, and every step that is
\* left to do is one of a command or of a load.
THEOREM TypeCorrect == Spec => []TypeOK
BY TypeInit, TypeNext, PTL DEF Spec

=============================================================================
