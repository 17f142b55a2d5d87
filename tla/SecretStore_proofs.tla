------------------------- MODULE SecretStore_proofs -------------------------
(***************************************************************************)
(* InternalFs implements SecretStore for every value of its constants, and *)
(* what follows: a file is in the folder of one dataset at most.  Then: no *)
(* step of InternalFs gives a node a version of another secret; and the    *)
(* same of two computers that share an account (SyncedFs), and that they   *)
(* only lose what one of them deletes.  Last, in ordinary use everything   *)
(* is saved whenever no command runs.                                      *)
(***************************************************************************)
EXTENDS InternalFs_proofs, SyncedFs, FiniteSetTheorems

-----------------------------------------------------------------------------
(* The draft.                                                                *)

\* A file that the command may still take back is one that its own save, the only
\* thing left to do, has not indexed yet.
DraftOK == draft # 0 => on /\ Len(todo) = 1 /\ todo[1].do \in {"save", "write"}

\* When nothing, or something else than a save, is the next thing to do, there is
\* no draft; nor is there one while the program is off, or loads.
LEMMA NoDraft ==
  ASSUME DraftOK, TypeOK
  PROVE  /\ Idle \/ ~on => draft = 0
         /\ \A k \in {"mv", "shift", "destroy", "unmute", "load", "recover", "unlist",
                      "gather", "prune", "bury", "ready"} : Doing(k) => draft = 0
<1>1. Idle => draft = 0
  BY DEF DraftOK, Idle
<1>2. ASSUME NEW k \in {"mv", "shift", "destroy", "unmute", "load", "recover", "unlist",
                        "gather", "prune", "bury", "ready"}, Doing(k)
      PROVE  draft = 0
  BY <1>2 DEF DraftOK, Doing
<1> QED
  BY <1>1, <1>2 DEF DraftOK

\* A command that moves or deletes starts when there is nothing to do, or at the end
\* of a node, and writes one file at most.
LEMMA MoveWrites ==
  ASSUME Move
  PROVE  /\ \E d \in Dataset : \E p, n : MayRename(d, p, n)
         /\ Idle \/ Doing("mv")
         /\ draft' = draft /\ clock' = clock
<1> DEFINE K(d, p, n) ==
      \/ \E q \in Folders(tree[d]) : MoveWithin(d, p, q, n)
      \/ \E q \in Folders(tree[Other(d)]), h \in Holders(d, p) : MoveAcross(d, p, q, n, h)
      \/ \E h \in Holders(d, p) : Texts(tree[Other(d)]) # {} /\ MoveOnto(d, p, n, h)
      \/ \E to \in Dataset : Texts(tree[to]) # {} /\ MoveBelow(d, to, p, n)
      \/ d = "trash" /\ Destroy(p, n)
<1>1. PICK d \in Dataset : \E p \in Movable(d) : \E n \in Names(d, p) : K(d, p, n)
  BY Zenon DEF Move
<1>2. PICK p \in Movable(d) : \E n \in Names(d, p) : K(d, p, n)
  BY <1>1, Zenon
<1>3. PICK n \in Names(d, p) : K(d, p, n)
  BY <1>2, Zenon
<1>4. ASSUME NEW e, NEW to, NEW goal, NEW alone, Taking(e, to, goal, alone)
      PROVE  Idle \/ Doing("mv")
  BY <1>4, Zenon DEF Taking
<1> DEFINE Goal == MayRename(d, p, n) /\ (Idle \/ Doing("mv")) /\ draft' = draft /\ clock' = clock
<1>5. ASSUME NEW q, MoveWithin(d, p, q, n) PROVE Goal
  BY <1>4, <1>5, Zenon DEF MoveWithin
<1>6. ASSUME NEW q, NEW h, MoveAcross(d, p, q, n, h) PROVE Goal
  BY <1>4, <1>6, Zenon DEF MoveAcross
<1>7. ASSUME NEW h, MoveOnto(d, p, n, h) PROVE Goal
  BY <1>4, <1>7, Zenon DEF MoveOnto
<1>8. ASSUME NEW to, MoveBelow(d, to, p, n) PROVE Goal
  BY <1>8, Zenon DEF MoveBelow
<1>9. ASSUME d = "trash", Destroy(p, n) PROVE Goal
  BY <1>4, <1>9, Zenon DEF Destroy
<1>10. Goal
  BY <1>3, <1>5, <1>6, <1>7, <1>8, <1>9, Zenon
<1> QED
  BY <1>10

LEMMA MovesNoDraft ==
  ASSUME DraftOK, TypeOK, Move
  PROVE  draft = 0 /\ draft' = 0
BY MoveWrites, NoDraft

\* Nor has a step of a command, or of a load, that is not a save a draft.
LEMMA StepsNoDraft ==
  ASSUME DraftOK, TypeOK, FileStep \/ LoadStep \/ MvDone \/ Unmute \/ MvThrows
  PROVE  draft = 0 /\ draft' = 0
<1>1. CASE FileStep
  <2>1. draft' = draft /\ (Doing("shift") \/ Doing("destroy"))
    BY <1>1 DEF FileStep, ShiftFile, DestroyFile, memory
  <2> QED
    BY <2>1, NoDraft
<1>2. CASE MvDone \/ Unmute \/ MvThrows
  <2>1. draft' = draft /\ (Doing("mv") \/ Doing("unmute"))
    BY <1>2 DEF MvDone, Unmute, MvThrows, memory
  <2> QED
    BY <2>1, NoDraft
<1>3. CASE LoadStep
  <2>1. CASE \E d \in Dataset : LoadEmpty(d) \/ LoadWithoutIndex(d) \/ LoadIndex(d)
    <3>1. draft' = draft /\ Doing("load")
      BY <2>1 DEF LoadEmpty, LoadWithoutIndex, LoadIndex, memory
    <3> QED
      BY <3>1, NoDraft
  <2>2. CASE Doing("recover") /\ \E r \in Head(todo).paths : RecoverOne(r)
    <3>1. draft' = draft
      BY <2>2 DEF RecoverOne
    <3> QED
      BY <3>1, <2>2, NoDraft
  <2>3. CASE Recovered \/ Unlist \/ Gather \/ PruneIndex \/ NothingToBury \/ Ready
    <3>1. /\ draft' = draft
          /\ \E k \in {"recover", "unlist", "gather", "prune", "bury", "ready"} : Doing(k)
      BY <2>3 DEF Recovered, Unlist, Gather, PruneIndex, NothingToBury, Ready, memory
    <3> QED
      BY <3>1, NoDraft
  <2>4. CASE Doing("bury") /\ \E f \in doomed[Head(todo).ds] : Bury(f)
    <3>1. draft' = draft
      BY <2>4 DEF Bury
    <3> QED
      BY <3>1, <2>4, NoDraft
  <2> QED
    BY <1>3, <2>1, <2>2, <2>3, <2>4 DEF LoadStep, RecoverStep, BuryStep
<1> QED
  BY <1>1, <1>2, <1>3

LEMMA DraftInit == Init => DraftOK
BY DEF Init, DraftOK

LEMMA DraftNext == TypeOK /\ DraftOK /\ [Next]_vars => DraftOK'
<1> SUFFICES ASSUME TypeOK, DraftOK, [Next]_vars PROVE DraftOK'
  OBVIOUS
<1>1. CASE Start
  <2>1. draft = 0 /\ draft' = draft
    BY <1>1, NoDraft DEF Start, memory
  <2> QED
    BY <2>1 DEF DraftOK
<1>2. CASE Stop \/ WriteFails \/ Unsaved \/ WriteIndex
  <2>1. draft' = 0
    BY <1>2 DEF Stop, WriteFails, Unsaved, WriteIndex
  <2> QED
    BY <2>1 DEF DraftOK
<1>3. CASE UnlinkIndex
  <2>1. todo # <<>> /\ todo' = <<[Head(todo) EXCEPT !.do = "write"]>> \o Tail(todo)
        /\ on' = on /\ draft' = draft
    BY <1>3 DEF UnlinkIndex, Doing, Rest
  <2>2. Len(todo) = 1 => Len(todo') = 1 /\ todo'[1].do = "write"
    <3>1. todo \in Seq(Steps) /\ Head(todo) \in Steps
      BY <2>1 DEF TypeOK
    <3>2. [Head(todo) EXCEPT !.do = "write"].do = "write"
      BY <1>3, <3>1 DEF UnlinkIndex, Doing, Steps
    <3> HIDE DEF Steps
    <3>3. ASSUME Len(todo) = 1 PROVE Len(Tail(todo)) = 0 /\ Tail(todo) \in Seq(Steps)
      BY <2>1, <3>1, <3>3, HeadTailProperties
    <3>4. Len(todo) = 1 => Tail(todo) = <<>>
      BY <3>3, EmptySeq
    <3> DEFINE e == [Head(todo) EXCEPT !.do = "write"]
    <3>5. e.do = "write" /\ todo' = <<e>> \o Tail(todo)
      BY <2>1, <3>2
    <3> HIDE DEF e
    <3>6. <<e>> \o <<>> = <<e>>
      OBVIOUS
    <3>7. Len(<<e>>) = 1 /\ <<e>>[1] = e
      OBVIOUS
    <3> QED
      BY <3>4, <3>5, <3>6, <3>7, Zenon
  <2> QED
    BY <2>1, <2>2 DEF DraftOK
<1>4. CASE Create
  <2>1. \E d \in Dataset : todo' = Save(d)
    BY <1>4, BoundsAssumption DEF Create, Add, Edit, Dataset
  <2>2. on /\ on' = on
    BY <1>4 DEF Create, Add, Edit, Idle
  <2>3. Len(todo') = 1 /\ todo'[1].do = "save"
    BY <2>1 DEF Save
  <2> QED
    BY <2>2, <2>3 DEF DraftOK
<1>5. CASE Move
  BY <1>5, MovesNoDraft DEF DraftOK
<1>6. CASE FileStep \/ LoadStep \/ MvDone \/ Unmute \/ MvThrows
  BY <1>6, StepsNoDraft DEF DraftOK
<1>7. CASE UNCHANGED vars
  BY <1>7 DEF vars, DraftOK
<1>8. CASE \E from, to \in Dataset : Refused(from, to)
  <2>1. UNCHANGED <<on, draft, todo>>
    BY <1>8 DEF Refused
  <2> QED
    BY <2>1 DEF DraftOK
<1> QED
  BY <1>1, <1>2, <1>3, <1>4, <1>5, <1>6, <1>7, <1>8 DEF Next, Goes, Step, SaveStep

-----------------------------------------------------------------------------
(* Every step is one of SecretStore, or none.                                *)

LEMMA StoreInit == Init => Store!Init
BY DEF Init, Store!Init, Store!Datasets, Dataset

\* The file that saveEntry() writes is a new one.
LEMMA PutStep ==
  ASSUME TypeOK, NEW d \in Dataset, NEW id, NEW type, NEW n, NEW c,
         Write(d, id, type, n, c), draft' \in {0, Len(secret) + 1}
  PROVE  Store!Next
<1>1. Len(secret') = Len(secret) + 1
  <2>1. \A s, x : s \in Seq(Secrets) => Len(Append(s, x)) = Len(s) + 1
    OBVIOUS
  <2> QED
    BY <2>1, Zenon DEF TypeOK, Write
<1>2. Store!Put(d)
  BY <1>1 DEF Write, Store!Put
<1> QED
  BY <1>2 DEF Store!Next, Store!Datasets, Dataset

\* fs.move() of a file in moveOrUnlink().
LEMMA CarryStep ==
  ASSUME TypeOK, NEW f, NEW from \in Dataset, NEW to \in Dataset, Shift(f, from, to),
         UNCHANGED <<secret, draft>>
  PROVE  [Store!Next]_Store!vars
<1>1. CASE f \in disk[from]
  <2>1. f \in 1..Len(secret)
    BY <1>1 DEF TypeOK, File
  <2>2. Store!Carry(f, from, to)
    BY <1>1 DEF Shift, Store!Carry
  <2> QED
    BY <2>1, <2>2 DEF Store!Next, Store!Datasets, Dataset
<1>2. CASE f \notin disk[from]
  BY <1>2 DEF Shift, Store!vars
<1> QED
  BY <1>1, <1>2

\* fs.unlink() of a file of the trash.
LEMMA EraseStep ==
  ASSUME TypeOK, NEW f, disk' = [disk EXCEPT !["trash"] = @ \ {f}], UNCHANGED <<secret, draft>>
  PROVE  [Store!Next]_Store!vars
<1>1. CASE f \in disk["trash"]
  <2>1. f \in 1..Len(secret)
    BY <1>1 DEF TypeOK, File, Dataset
  <2>2. Store!Erase(f)
    BY DEF Store!Erase
  <2> QED
    BY <2>1, <2>2 DEF Store!Next
<1>2. CASE f \notin disk["trash"]
  <2>1. disk["trash"] \ {f} = disk["trash"]
    BY <1>2
  <2>2. disk' = disk
    BY <2>1 DEF TypeOK
  <2> QED
    BY <2>2 DEF Store!vars
<1> QED
  BY <1>1, <1>2

\* The dataset that the step under way is about.
LEMMA StepDataset ==
  ASSUME TypeOK
  PROVE  /\ \A k \in {"save", "write", "unmute", "load", "bury", "unlist", "gather"} :
              Doing(k) => Head(todo).ds \in Dataset
         /\ Doing("shift") => Head(todo).from \in Dataset
<1>1. ASSUME NEW k, Doing(k) PROVE Head(todo) \in Steps /\ Head(todo).do = k
  <2>1. todo # <<>> /\ Head(todo).do = k
    BY <1>1 DEF Doing
  <2>2. todo \in Seq(Steps)
    BY DEF TypeOK
  <2> QED
    BY <2>1, <2>2, TodoType
<1> QED
  BY <1>1, StepFields

LEMMA Untouched ==
  ASSUME UNCHANGED <<secret, disk>>, draft' = draft \/ draft' = 0
  PROVE  [Store!Next]_Store!vars
<1>1. CASE draft' = draft
  BY <1>1 DEF Store!vars
<1>2. CASE draft' = 0
  BY <1>2 DEF Store!Next, Store!Settle
<1> QED
  BY <1>1, <1>2

LEMMA StoreStep ==
  ASSUME TypeOK, DraftOK, [Next]_vars
  PROVE  [Store!Next]_Store!vars
<1>1. CASE Start \/ Stop
  BY <1>1, Untouched DEF Start, Stop, disks, memory
<1>2. CASE Create
  <2>1. ASSUME NEW d \in Dataset, NEW q, NEW n, NEW type, NEW c, Add(d, q, n, type, c)
        PROVE  Store!Next
    BY <2>1, PutStep DEF Add
  <2>2. ASSUME NEW d \in Dataset, NEW p, NEW c, NEW undoes, Edit(d, p, c, undoes)
        PROVE  Store!Next
    BY <2>2, PutStep DEF Edit
  <2>3. Active \subseteq Dataset
    BY BoundsAssumption DEF Dataset
  <2> QED
    BY <1>2, <2>1, <2>2, <2>3, Zenon DEF Create
<1>3. CASE Move
  <2>1. draft = 0 /\ draft' = 0
    BY <1>3, MovesNoDraft
  <2>2. PICK d \in Dataset : \E p, n : MayRename(d, p, n)
    BY <1>3, MoveWrites, Zenon
  <2>3. PICK p, n : MayRename(d, p, n)
    BY <2>2, Zenon
  <2>4. CASE UNCHANGED <<secret, disk>>
    BY <2>1, <2>4, Untouched
  <2>5. CASE Write(d, Last(p), secret[Newest(Versions(tree[d], p))].type, n,
                   NodeContent(tree[d], p))
    BY <2>1, <2>5, PutStep
  <2> QED
    BY <2>3, <2>4, <2>5, Zenon DEF MayRename
<1>4. CASE Unsaved \/ UnlinkIndex \/ WriteIndex
  BY <1>4, Untouched, Zenon DEF Unsaved, UnlinkIndex, WriteIndex, disks
<1>5. CASE WriteFails
  <2>1. Head(todo).ds \in Dataset
    <3>1. Doing("write")
      BY <1>5 DEF WriteFails
    <3> QED
      BY <3>1, StepDataset
  <2>2. Store!TakeBack(Head(todo).ds)
    BY <1>5 DEF WriteFails, Store!TakeBack
  <2> QED
    BY <2>1, <2>2 DEF Store!Next, Store!Datasets, Dataset
<1>6. CASE FileStep
  <2>1. ASSUME NEW e, ShiftFile(e) PROVE [Store!Next]_Store!vars
    <3>1. Head(todo).from \in Dataset
      <4>1. Doing("shift")
        BY <2>1 DEF ShiftFile
      <4> QED
        BY <4>1, StepDataset
    <3>2. Other(Head(todo).from) \in Dataset
      BY DEF Other, Dataset
    <3> QED
      BY <2>1, <3>1, <3>2, CarryStep DEF ShiftFile, memory
  <2>2. ASSUME NEW e, DestroyFile(e) PROVE [Store!Next]_Store!vars
    BY <2>2, EraseStep DEF DestroyFile, memory
  <2> QED
    BY <1>6, <2>1, <2>2, Zenon DEF FileStep
<1>7. CASE MvDone \/ Unmute \/ MvThrows
  BY <1>7, Untouched, Zenon DEF MvDone, Unmute, MvThrows, disks, memory
<1>8. CASE LoadStep
  <2>1. CASE \E d \in Dataset : LoadEmpty(d) \/ LoadWithoutIndex(d) \/ LoadIndex(d)
    BY <2>1, Untouched, Zenon DEF LoadEmpty, LoadWithoutIndex, LoadIndex, disks, memory
  <2>2. CASE Doing("recover") /\ \E r \in Head(todo).paths : RecoverOne(r)
    BY <2>2, Untouched, Zenon DEF RecoverOne, disks
  <2>3. CASE Recovered \/ Gather \/ PruneIndex \/ NothingToBury \/ Ready
    BY <2>3, Untouched, Zenon DEF Recovered, Gather, PruneIndex, NothingToBury, Ready, disks,
                                  memory
  <2>4. CASE Unlist
    <3>1. Head(todo).ds \in Dataset
      <4>1. Doing("unlist")
        BY <2>4 DEF Unlist
      <4> QED
        BY <4>1, StepDataset
    <3>2. draft = 0 /\ draft' = 0
      BY <1>8, StepsNoDraft
    <3> QED
      BY <2>4, <3>1, <3>2, PutStep DEF Unlist
  <2>5. CASE Doing("bury") /\ \E f \in doomed[Head(todo).ds] : Bury(f)
    <3>1. PICK f : Bury(f)
      BY <2>5, Zenon
    <3>2. UNCHANGED <<secret, draft>>
      BY <3>1 DEF Bury
    <3>3. CASE Head(todo).ds = "trash"
      <4>1. disk' = [disk EXCEPT !["trash"] = @ \ {f}]
        BY <3>1, <3>3 DEF Bury
      <4> QED
        BY <3>2, <4>1, EraseStep
    <3>4. CASE Head(todo).ds # "trash"
      <4>1. Shift(f, Head(todo).ds, "trash")
        BY <3>1, <3>4 DEF Bury
      <4>2. Head(todo).ds \in Dataset /\ "trash" \in Dataset
        BY <2>5, StepDataset DEF Dataset
      <4> QED
        BY <3>2, <4>1, <4>2, CarryStep
    <3> QED
      BY <3>3, <3>4
  <2> QED
    BY <1>8, <2>1, <2>2, <2>3, <2>4, <2>5, Zenon DEF LoadStep, RecoverStep, BuryStep
<1>9. CASE UNCHANGED vars
  BY <1>9, Untouched DEF vars
<1>10. CASE \E from, to \in Dataset : Refused(from, to)
  BY <1>10, Untouched DEF Refused, disks
<1> QED
  BY <1>1, <1>2, <1>3, <1>4, <1>5, <1>6, <1>7, <1>8, <1>9, <1>10 DEF Next, Goes, Step, SaveStep

\* InternalFs implements SecretStore: whatever the commands, crashes, restarts and
\* failing writes, an encrypted file is written once, is carried from one dataset to
\* the other, and is deleted only from the trash, or by the command that has just
\* written it and could not index it.
THEOREM StoreRefined == Spec => NeverLosesAFile
<1>1. Init => TypeOK /\ DraftOK /\ Store!Init
  BY TypeInit, DraftInit, StoreInit
<1>2. TypeOK /\ DraftOK /\ [Next]_vars => TypeOK' /\ DraftOK' /\ [Store!Next]_Store!vars
  BY TypeNext, DraftNext, StoreStep
<1> QED
  BY <1>1, <1>2, PTL DEF Spec, NeverLosesAFile, Store!Spec

-----------------------------------------------------------------------------
(* One home.                                                                 *)

LEMMA OneHomeStep ==
  ASSUME TypeOK, OneHome, [Store!Next]_Store!vars
  PROVE  OneHome'
<1>1. disk \in [Dataset -> SUBSET File] /\ File = 1..Len(secret) /\ Len(secret) \in Nat
  BY DEF TypeOK, File
<1>2. CASE UNCHANGED Store!vars
  BY <1>2 DEF Store!vars, OneHome
<1>3. CASE Store!Settle
  BY <1>3 DEF Store!Settle, OneHome
<1>4. ASSUME NEW d \in Store!Datasets, Store!Put(d) PROVE OneHome'
  <2>1. Len(secret) + 1 \notin disk["main"] \cup disk["trash"]
    BY <1>1 DEF Dataset
  <2> QED
    BY <1>1, <1>4, <2>1 DEF Store!Put, Store!Datasets, OneHome, Dataset
<1>5. ASSUME NEW d \in Store!Datasets, Store!TakeBack(d) PROVE OneHome'
  BY <1>1, <1>5 DEF Store!TakeBack, Store!Datasets, OneHome, Dataset
<1>6. ASSUME NEW f, Store!Erase(f) PROVE OneHome'
  BY <1>1, <1>6 DEF Store!Erase, OneHome, Dataset
<1>7. ASSUME NEW f, NEW from \in Store!Datasets, NEW to \in Store!Datasets,
             Store!Carry(f, from, to)
      PROVE  OneHome'
  BY <1>1, <1>7 DEF Store!Carry, Store!Datasets, OneHome, Dataset
<1> QED
  BY <1>2, <1>3, <1>4, <1>5, <1>6, <1>7, Zenon DEF Store!Next

\* An encrypted file is never in the folders of both datasets, whatever was moved,
\* recovered or buried, and wherever the program was killed in between.
THEOREM OneHomeCorrect == Spec => []OneHome
<1>1. Init => TypeOK /\ DraftOK /\ OneHome
  BY TypeInit, DraftInit DEF Init, OneHome, Dataset
<1>2. TypeOK /\ DraftOK /\ OneHome /\ [Next]_vars => TypeOK' /\ DraftOK' /\ OneHome'
  BY TypeNext, DraftNext, StoreStep, OneHomeStep
<1> QED
  BY <1>1, <1>2, PTL DEF Spec

-----------------------------------------------------------------------------
(* What the operations on trees do to the ids.                               *)

\* In t, s being the secrets that were written, the last id of a path is that of
\* the secrets of its versions.
Named(t, s) == \A e \in t : e.at # <<>> /\ Last(e.at) = s[e.file].id

LEMMA PartNamed ==
  ASSUME NEW s, NEW t, Named(t, s)
  PROVE  /\ \A u \in SUBSET t : Named(u, s)
         /\ \A p : Named(Uproot(t, p), s) /\ Named(Subtree(t, p), s)
BY DEF Named, Uproot, Subtree

LEMMA VersionNamed ==
  ASSUME NEW s, NEW t, Named(t, s), NEW p, NEW f, p # <<>>, Last(p) = s[f].id
  PROVE  Named(AddVersion(t, p, f), s)
BY DEF Named, AddVersion

LEMMA AppendLast ==
  ASSUME NEW q \in Seq(Nat), NEW id \in Nat
  PROVE  Append(q, id) # <<>> /\ Last(Append(q, id)) = id
<1>1. Append(q, id) \in Seq(Nat) /\ Len(Append(q, id)) = Len(q) + 1 /\ Len(q) \in Nat
      /\ Append(q, id)[Len(q) + 1] = id
  BY AppendProperties, LenProperties
<1> QED
  BY <1>1, EmptySeq DEF Last

LEMMA GraftNamed ==
  ASSUME NEW s, NEW t, Named(t, s), NEW q \in Seq(Nat), NEW id \in Nat, NEW f, id = s[f].id
  PROVE  Named(Graft(t, q, id, f), s)
BY PartNamed, VersionNamed, AppendLast DEF Graft

\* A node keeps its id, and so do the nodes below it, where the subtree goes.
LEMMA PlantNamed ==
  ASSUME NEW s, NEW t, Named(t, s), NEW q \in Seq(Nat), NEW p \in Path,
         NEW sub, Named(sub, s), \A e \in sub : e.at \in Path /\ IsPrefix(p, e.at)
  PROVE  Named(Plant(t, q, p, sub), s)
<1> DEFINE r == Append(q, Last(p))
           Below(e) == SubSeq(e.at, Len(p) + 1, Len(e.at))
<1>1. r \in Seq(Nat) /\ r # <<>> /\ Last(r) = Last(p) /\ Len(p) \in Nat /\ Len(p) > 0
      /\ Len(r) \in Nat
  <2>1. Len(p) \in Nat /\ Len(p) # 0
    BY LenProperties, EmptySeq DEF Path
  <2> QED
    BY <2>1, LastOfPath, AppendLast, AppendProperties, LenProperties
<1>2. ASSUME NEW e \in sub PROVE r \o Below(e) # <<>> /\ Last(r \o Below(e)) = Last(e.at)
  <2>1. e.at \in Seq(Nat) /\ Len(e.at) \in Nat /\ Len(p) <= Len(e.at)
        /\ SubSeq(e.at, 1, Len(p)) = p /\ e.at # <<>>
    <3>1. e.at \in Seq(Nat) /\ e.at # <<>> /\ Len(e.at) \in Nat /\ IsPrefix(p, e.at)
      BY LenProperties DEF Path
    <3>2. Len(p) <= Len(e.at) /\ SubSeq(p, 1, Len(p)) = SubSeq(e.at, 1, Len(p))
      BY <3>1 DEF IsPrefix
    <3>3. SubSeq(p, 1, Len(p)) = p
      BY SubSeqFull DEF Path
    <3> QED
      BY <3>1, <3>2, <3>3
  <2>2. /\ Below(e) \in Seq(Nat)
        /\ Len(Below(e)) = IF Len(p) + 1 <= Len(e.at) THEN Len(e.at) - Len(p) ELSE 0
        /\ \A i \in 1..(Len(e.at) - Len(p)) : Below(e)[i] = e.at[Len(p) + i]
    <3>1. ASSUME NEW i \in (Len(p) + 1)..Len(e.at) PROVE e.at[i] \in Nat
      <4>1. i \in 1..Len(e.at)
        BY <1>1, <2>1
      <4> QED
        BY <2>1, <4>1, ElementOfSeq
    <3> DEFINE m == Len(p) + 1
               k == Len(e.at)
    <3>2. m \in Int /\ k \in Int /\ \A i \in m..k : e.at[i] \in Nat
      BY <1>1, <2>1, <3>1
    <3> HIDE DEF m, k
    <3>3. /\ SubSeq(e.at, m, k) \in Seq(Nat)
          /\ Len(SubSeq(e.at, m, k)) = IF m <= k THEN k - m + 1 ELSE 0
          /\ \A i \in 1..(k - m + 1) : SubSeq(e.at, m, k)[i] = e.at[m + i - 1]
      BY <3>2, SubSeqProperties
    <3>4. Below(e) = SubSeq(e.at, m, k)
      BY DEF m, k
    <3> HIDE DEF Below
    <3>5. k - m + 1 = k - Len(p) /\ \A i \in 1..(k - Len(p)) : m + i - 1 = Len(p) + i
      BY <1>1, <2>1 DEF m, k
    <3> QED
      BY <3>3, <3>4, <3>5 DEF m, k
  <2> DEFINE b == Below(e)
  <2>3. /\ r \o b \in Seq(Nat) /\ Len(r \o b) = Len(r) + Len(b)
        /\ \A i \in 1..(Len(r) + Len(b)) : (r \o b)[i] = IF i <= Len(r) THEN r[i] ELSE b[i - Len(r)]
    <3> HIDE DEF r, Below
    <3> QED
      BY <1>1, <2>2, ConcatProperties
  <2> HIDE DEF r, Below, b
  <2>4. Len(r) > 0 /\ Len(b) \in Nat
    BY <1>1, <2>2, LenProperties, EmptySeq DEF b
  <2>5. r \o b # <<>>
    BY <1>1, <2>3, <2>4, EmptySeq
  <2>6. Last(r \o b) = (r \o b)[Len(r) + Len(b)]
    BY <2>3 DEF Last
  <2>7. CASE Len(p) = Len(e.at)
    <3>1. Len(b) = 0
      BY <1>1, <2>1, <2>2, <2>7 DEF b
    <3>2. (r \o b)[Len(r)] = r[Len(r)]
      BY <1>1, <2>3, <2>4, <3>1
    <3>3. Last(r \o b) = Last(r)
      BY <1>1, <2>6, <3>1, <3>2 DEF Last
    <3>4. e.at = p
      BY <2>1, <2>7, SubSeqFull
    <3> QED
      BY <1>1, <2>5, <3>3, <3>4 DEF b
  <2>8. CASE Len(p) # Len(e.at)
    <3>1. Len(b) = Len(e.at) - Len(p) /\ Len(b) > 0
      BY <1>1, <2>1, <2>2, <2>8 DEF b
    <3>2. (r \o b)[Len(r) + Len(b)] = b[Len(b)]
      BY <1>1, <2>3, <2>4, <3>1
    <3>3. b[Len(b)] = e.at[Len(e.at)]
      <4>1. Len(b) \in 1..(Len(e.at) - Len(p)) /\ Len(p) + Len(b) = Len(e.at)
        BY <1>1, <2>1, <2>4, <3>1
      <4> QED
        BY <2>2, <4>1 DEF b
    <3> QED
      BY <2>5, <2>6, <3>2, <3>3 DEF b, Last
  <2> QED
    BY <2>7, <2>8
<1>3. ASSUME NEW e \in sub
      PROVE  LET x == [at |-> r \o Below(e), file |-> e.file]
             IN  x.at # <<>> /\ Last(x.at) = s[x.file].id
  <2>1. Last(e.at) = s[e.file].id
    BY DEF Named
  <2> HIDE DEF r, Below
  <2> QED
    BY <1>2, <2>1
<1>4. Named({[at |-> r \o Below(e), file |-> e.file] : e \in sub}, s)
  <2> HIDE DEF r, Below
  <2> QED
    BY <1>3 DEF Named
<1>5. Plant(t, q, p, sub) = Uproot(t, r) \cup {[at |-> r \o Below(e), file |-> e.file] : e \in sub}
  BY Zenon DEF Plant
<1>6. Named(Uproot(t, r), s)
  BY PartNamed
<1> QED
  BY <1>4, <1>5, <1>6 DEF Named

LEMMA RelocateNamed ==
  ASSUME NEW s, NEW t, Named(t, s), NEW q \in Seq(Nat), NEW p \in Path, 
         \A e \in t : e.at \in Path
  PROVE  Named(Relocate(t, q, p), s)
<1>1. Named(Uproot(t, p), s) /\ Named(Subtree(t, p), s)
  BY PartNamed
<1>2. \A e \in Subtree(t, p) : e.at \in Path /\ IsPrefix(p, e.at)
  BY DEF Subtree
<1> QED
  BY <1>1, <1>2, PlantNamed DEF Relocate

\* A node that a load takes from an index has versions left: it is no phantom.
LEMMA LoadedNamed ==
  ASSUME NEW F, NEW t \in Placed(F), NEW files, Named(t, secret), NEW u \in Loaded(t, files)
  PROVE  Named(u, secret)
<1> DEFINE live == Live(t, files)
           gone == Gone(t, files)
<1>1. PICK lost : u = Restored(live, gone, lost)
  <2>1. \E stays \in Survivors(gone), cut \in SUBSET {p \in FoldersOf(t) : Last(p) = Phantom} :
             u = Restored(live, gone, cut \cup (gone \ stays))
    BY DEF Loaded
  <2> HIDE DEF live, gone
  <2> QED
    BY <2>1, Zenon
<1>2. PICK kept \in SUBSET live : u = {[at |-> Haunted(e.at, gone), file |-> e.file] : e \in kept}
  <2>1. u = {[at |-> Haunted(e.at, gone), file |-> e.file] :
               e \in {x \in live : Ancestry(x.at) \cap lost = {}}}
    BY <1>1, Zenon DEF Restored
  <2> HIDE DEF live, gone
  <2> QED
    BY <2>1
<1>3. ASSUME NEW e \in live
      PROVE  Haunted(e.at, gone) # <<>> /\ Last(Haunted(e.at, gone)) = secret[e.file].id
  <2>1. e \in t /\ e.at \in Path
    BY DEF Live, Placed
  <2>2. e.at \notin gone
    BY DEF Gone, Nodes
  <2>3. e.at \in Seq(Nat) /\ Len(e.at) \in Nat /\ Len(e.at) # 0
        /\ SubSeq(e.at, 1, Len(e.at)) = e.at
    BY <2>1, LenProperties, EmptySeq, SubSeqFull DEF Path
  <2>4. /\ Haunted(e.at, gone) \in Path
        /\ Len(Haunted(e.at, gone)) = Len(e.at)
        /\ Haunted(e.at, gone)[Len(e.at)] = e.at[Len(e.at)]
    <3> HIDE DEF gone
    <3>1. Len(e.at) \in 1..Len(e.at)
      BY <2>3
    <3>2. /\ Haunted(e.at, gone) \in Path
          /\ Len(Haunted(e.at, gone)) = Len(e.at)
          /\ Haunted(e.at, gone)[Len(e.at)] =
               IF SubSeq(e.at, 1, Len(e.at)) \in gone THEN Phantom ELSE e.at[Len(e.at)]
      BY <2>1, <3>1, HauntedPath
    <3> QED
      BY <2>2, <2>3, <3>2
  <2>5. Last(e.at) = secret[e.file].id
    BY <2>1 DEF Named
  <2> HIDE DEF gone
  <2> QED
    BY <2>3, <2>4, <2>5 DEF Last, Path
<1> HIDE DEF live, gone
<1> QED
  BY <1>2, <1>3 DEF Named

-----------------------------------------------------------------------------
(* Steps.                                                                    *)

\* The secrets that were written stay as they are.
Extended == File \subseteq File' /\ \A f \in File : secret'[f] = secret[f]

LEMMA NothingWritten ==
  ASSUME UNCHANGED secret
  PROVE  Extended
BY DEF Extended, File

LEMMA OneWritten ==
  ASSUME TypeOK, NEW d \in Dataset, NEW id, NEW type, NEW n, NEW c, Write(d, id, type, n, c)
  PROVE  Extended /\ secret'[Len(secret) + 1].id = id
<1> DEFINE x == [id |-> id, type |-> type, name |-> n, content |-> c]
<1>1. secret' = Append(secret, x)
  BY DEF Write
<1>2. secret \in Seq(Secrets \cup {x})
  BY SeqMonotonic DEF TypeOK
<1> HIDE DEF x
<1>3. /\ Len(secret) \in Nat /\ Len(Append(secret, x)) = Len(secret) + 1
      /\ \A i \in 1..Len(secret) : Append(secret, x)[i] = secret[i]
      /\ Append(secret, x)[Len(secret) + 1] = x
      /\ DOMAIN secret = 1..Len(secret) /\ DOMAIN Append(secret, x) = 1..(Len(secret) + 1)
  BY <1>2, AppendProperties, LenProperties
<1>4. Extended
  BY <1>1, <1>3 DEF Extended, File
<1>5. x.id = id
  BY DEF x
<1> QED
  BY <1>1, <1>3, <1>4, <1>5

LEMMA NamedKept ==
  ASSUME Extended, NEW t \in Trees, Named(t, secret)
  PROVE  Named(t, secret')
BY DEF Extended, Named, Trees

LEMMA TreesNamed ==
  ASSUME TypeOK, VersionsOfOneSecret, Extended, NEW d \in Dataset
  PROVE  /\ tree[d] \in Trees /\ Named(tree[d], secret) /\ Named(tree[d], secret')
         /\ \A x \in index[d] : x.tree \in Trees /\ Named(x.tree, secret) /\ Named(x.tree, secret')
<1>1. /\ tree[d] \in Trees /\ Named(tree[d], secret)
      /\ \A x \in index[d] : x.tree \in Trees /\ Named(x.tree, secret)
  BY DEF TypeOK, VersionsOfOneSecret, OneSecret, Named
<1> QED
  BY <1>1, NamedKept

\* The indexes are the ones there were, or fewer.
LEMMA VersionsStep ==
  ASSUME TypeOK, VersionsOfOneSecret, Extended,
         \A d \in Dataset : index'[d] \subseteq index[d],
         \A d \in Dataset : Named(tree'[d], secret')
  PROVE  VersionsOfOneSecret'
<1>1. \A d \in Dataset : \A x \in index'[d] : Named(x.tree, secret')
  BY TreesNamed
<1> QED
  BY <1>1 DEF VersionsOfOneSecret, OneSecret, Named

\* One tree becomes t, the other stays.
LEMMA TreeStep ==
  ASSUME TypeOK, VersionsOfOneSecret, Extended, UNCHANGED index,
         NEW d \in Dataset, NEW t, Named(t, secret'), tree' = [tree EXCEPT ![d] = t]
  PROVE  VersionsOfOneSecret'
<1>1. \A e \in Dataset : tree'[e] = IF e = d THEN t ELSE tree[e]
  BY DEF TypeOK
<1>2. \A e \in Dataset : Named(tree'[e], secret')
  BY <1>1, TreesNamed
<1> QED
  BY <1>2, VersionsStep

\* No tree changes.
LEMMA SameTrees ==
  ASSUME TypeOK, VersionsOfOneSecret, UNCHANGED <<secret, tree>>,
         \A d \in Dataset : index'[d] \subseteq index[d]
  PROVE  VersionsOfOneSecret'
<1>1. Extended
  BY NothingWritten
<1> QED
  BY <1>1, TreesNamed, VersionsStep

LEMMA RenamedNamed ==
  ASSUME TypeOK, VersionsOfOneSecret, NEW d \in Dataset, NEW p \in Nodes(tree[d]), NEW n,
         MayRename(d, p, n)
  PROVE  Extended /\ Named(Renamed(d, p, n), secret')
<1>1. p # <<>>
  BY DEF TypeOK, Nodes, Trees, Path
<1>2. CASE n = NodeName(tree[d], p)
  <2>1. Extended
    BY <1>2, NothingWritten DEF MayRename
  <2> QED
    BY <1>2, <2>1, TreesNamed DEF Renamed
<1>3. CASE n # NodeName(tree[d], p)
  <2>1. Write(d, Last(p), secret[Newest(Versions(tree[d], p))].type, n, NodeContent(tree[d], p))
    BY <1>3 DEF MayRename
  <2>2. Extended /\ secret'[Len(secret) + 1].id = Last(p)
    BY <2>1, OneWritten
  <2>3. Named(tree[d], secret')
    BY <2>2, TreesNamed
  <2> QED
    BY <1>1, <1>3, <2>2, <2>3, VersionNamed DEF Renamed
<1> QED
  BY <1>2, <1>3

LEMMA CreateVersions ==
  ASSUME TypeOK, VersionsOfOneSecret, Create
  PROVE  VersionsOfOneSecret'
<1> DEFINE f == Len(secret) + 1
<1>1. f \in Nat
  BY LenProperties DEF TypeOK
<1>2. ASSUME NEW d \in Dataset, NEW q \in Folders(tree[d]), NEW n, NEW type, NEW c,
             Add(d, q, n, type, c)
      PROVE  VersionsOfOneSecret'
  <2>1. Extended /\ secret'[f].id = f
    BY <1>2, OneWritten DEF Add
  <2>2. q \in Seq(Nat) /\ Named(tree[d], secret')
    <3>1. tree[d] \in Placed(File)
      BY DEF TypeOK, Trees, Placed
    <3> QED
      BY <2>1, <3>1, FolderPath, TreesNamed
  <2>3. Named(Graft(tree[d], q, f, f), secret')
    BY <1>1, <2>1, <2>2, GraftNamed
  <2> QED
    BY <1>2, <2>1, <2>3, TreeStep DEF Add
<1>3. ASSUME NEW d \in Dataset, NEW p \in Texts(tree[d]), NEW c, NEW undoes, Edit(d, p, c, undoes)
      PROVE  VersionsOfOneSecret'
  <2>1. Extended /\ secret'[f].id = Last(p)
    BY <1>3, OneWritten DEF Edit
  <2>2. p # <<>> /\ Named(tree[d], secret')
    BY <2>1, TreesNamed DEF TypeOK, Texts, Nodes, Trees, Path
  <2>3. Named(AddVersion(tree[d], p, f), secret')
    BY <2>1, <2>2, VersionNamed
  <2> QED
    BY <1>3, <2>1, <2>3, TreeStep DEF Edit
<1>4. Active \subseteq Dataset
  BY BoundsAssumption DEF Dataset
<1> QED
  BY <1>2, <1>3, <1>4, Zenon DEF Create

LEMMA MoveVersions ==
  ASSUME TypeOK, VersionsOfOneSecret, Move
  PROVE  VersionsOfOneSecret'
<1> SUFFICES ASSUME NEW d \in Dataset, NEW p \in Movable(d), NEW n \in Names(d, p),
                    \/ \E q \in Folders(tree[d]) : MoveWithin(d, p, q, n)
                    \/ \E q \in Folders(tree[Other(d)]), h \in Holders(d, p) : MoveAcross(d, p, q, n, h)
                    \/ \E h \in Holders(d, p) : MoveOnto(d, p, n, h)
                    \/ \E to \in Dataset : MoveBelow(d, to, p, n)
                    \/ d = "trash" /\ Destroy(p, n)
             PROVE  VersionsOfOneSecret'
  BY Zenon DEF Move
<1> DEFINE t == Renamed(d, p, n)
<1>1. /\ Other(d) \in Dataset /\ p \in Nodes(tree[d]) /\ <<>> \in Seq(Nat)
      /\ tree \in [Dataset -> Trees]
  BY EmptySeq DEF Other, Dataset, Movable, TypeOK
<1>2. p \in Path
  BY <1>1 DEF Nodes, Trees
<1>3. ASSUME NEW x \in Dataset, NEW q \in Folders(tree[x]) PROVE q \in Seq(Nat)
  BY <1>1, FolderPath DEF Trees, Placed
<1>4. ASSUME MayRename(d, p, n)
      PROVE  /\ Extended /\ Named(t, secret') /\ t \in Trees'
             /\ \A x : Named(Uproot(t, x), secret') /\ Named(Subtree(t, x), secret')
             /\ \A e \in t : e.at \in Path
  <2>1. Extended /\ Named(t, secret') /\ t \in Trees'
    BY <1>1, <1>4, RenamedNamed, MayRenameType
  <2> HIDE DEF t
  <2> QED
    BY <2>1, PartNamed DEF Trees
<1> HIDE DEF t
<1>5. ASSUME NEW q \in Folders(tree[d]), MoveWithin(d, p, q, n) PROVE VersionsOfOneSecret'
  <2> DEFINE same == Id(q) = Id(Front(p))
  <2>1. /\ MayRename(d, p, n)
        /\ tree' = [tree EXCEPT ![d] = IF same THEN t ELSE Relocate(t, q, p)]
        /\ UNCHANGED index
    BY <1>5, Zenon DEF MoveWithin, t
  <2> HIDE DEF same
  <2>2. Named(Relocate(t, q, p), secret')
    BY <1>2, <1>3, <1>4, <2>1, RelocateNamed
  <2>3. Named(IF same THEN t ELSE Relocate(t, q, p), secret')
    BY <1>4, <2>1, <2>2, Zenon
  <2> QED
    BY <1>4, <2>1, <2>3, TreeStep
<1>6. ASSUME NEW q \in Folders(tree[Other(d)]), NEW h, MoveAcross(d, p, q, n, h)
      PROVE  VersionsOfOneSecret'
  <2> DEFINE to   == Other(d)
             left == IF n # NodeName(tree[d], p) /\ Id(Front(p)) # Id(q) THEN Uproot(t, p) ELSE t
  <2>1. /\ MayRename(d, p, n)
        /\ tree' = [tree EXCEPT ![d] = Uproot(left, Append(h, Last(p))),
                                ![to] = Plant(@, q, p, Subtree(t, p))]
        /\ UNCHANGED index
    BY <1>6, Zenon DEF MoveAcross, t
  <2>2. Extended /\ Named(Subtree(t, p), secret') /\ q \in Seq(Nat)
        /\ \A e \in Subtree(t, p) : e.at \in Path /\ IsPrefix(p, e.at)
    <3>1. \A e \in Subtree(t, p) : e \in t /\ IsPrefix(p, e.at)
      BY DEF Subtree
    <3> QED
      BY <1>1, <1>3, <1>4, <2>1, <3>1
  <2>3. Named(left, secret')
    BY <1>4, <2>1, Zenon
  <2> HIDE DEF left
  <2>4. Named(Uproot(left, Append(h, Last(p))), secret')
    BY <2>3, PartNamed
  <2>5. Named(Plant(tree[to], q, p, Subtree(t, p)), secret')
    <3>1. Named(tree[to], secret')
      BY <1>1, <2>2, TreesNamed
    <3> QED
      BY <1>2, <2>2, <3>1, PlantNamed
  <2>6. \A e \in Dataset : Named(tree'[e], secret')
    <3>1. to # d /\ \A e \in Dataset : e = to \/ e = d
      BY DEF Other, Dataset
    <3>2. tree'[to] = Plant(tree[to], q, p, Subtree(t, p))
          /\ tree'[d] = Uproot(left, Append(h, Last(p)))
      <4> HIDE DEF to
      <4> QED
        BY <1>1, <2>1, <3>1 DEF to
    <3> QED
      BY <2>4, <2>5, <3>1, <3>2
  <2> QED
    BY <2>1, <2>2, <2>6, VersionsStep
<1>7. ASSUME NEW h, MoveOnto(d, p, n, h) PROVE VersionsOfOneSecret'
  <2> DEFINE u == IF h = Front(p) THEN t ELSE Uproot(t, Append(h, Last(p)))
  <2>1. MayRename(d, p, n) /\ tree' = [tree EXCEPT ![d] = u] /\ UNCHANGED index
    BY <1>7, Zenon DEF MoveOnto, t
  <2>2. Extended /\ Named(u, secret')
    BY <1>4, <2>1, Zenon
  <2> HIDE DEF u
  <2> QED
    BY <2>1, <2>2, TreeStep
<1>8. ASSUME NEW to \in Dataset, MoveBelow(d, to, p, n) PROVE VersionsOfOneSecret'
  <2>1. MayRename(d, p, n) /\ tree' = [tree EXCEPT ![d] = Uproot(@, p)] /\ UNCHANGED index
    BY <1>8 DEF MoveBelow
  <2>2. Extended /\ Named(tree[d], secret')
    BY <1>4, <2>1, TreesNamed
  <2>3. Named(Uproot(tree[d], p), secret')
    BY <2>2, PartNamed
  <2> QED
    BY <2>1, <2>2, <2>3, TreeStep
<1>9. ASSUME d = "trash", Destroy(p, n) PROVE VersionsOfOneSecret'
  <2>1. /\ MayRename(d, p, n) /\ UNCHANGED index
        /\ \/ tree' = [tree EXCEPT ![d] = Relocate(t, <<>>, p)]
           \/ tree' = [tree EXCEPT ![d] = Uproot(t, p)]
    BY <1>9 DEF Destroy, t
  <2>2. Extended /\ Named(Uproot(t, p), secret')
    BY <1>4, <2>1
  <2>3. Named(Relocate(t, <<>>, p), secret')
    BY <1>1, <1>2, <1>4, <2>1, RelocateNamed
  <2> QED
    BY <2>1, <2>2, <2>3, TreeStep
<1> QED
  BY <1>5, <1>6, <1>7, <1>8, <1>9

\* An index is written as the tree is.
LEMMA SaveVersions ==
  ASSUME TypeOK, VersionsOfOneSecret, SaveStep \/ WriteFails
  PROVE  VersionsOfOneSecret'
<1>1. CASE Unsaved \/ WriteFails
  <2>1. UNCHANGED <<secret, tree, index>>
    BY <1>1 DEF Unsaved, WriteFails, disks
  <2> QED
    BY <2>1, SameTrees
<1>2. CASE UnlinkIndex
  <2>1. UNCHANGED <<secret, tree>> /\ Doing("save")
        /\ index' = [index EXCEPT ![Head(todo).ds] = {x \in @ : x.ts # mine[Head(todo).ds]}]
    BY <1>2 DEF UnlinkIndex
  <2>2. \A d \in Dataset : index'[d] \subseteq index[d]
    BY <2>1 DEF TypeOK
  <2> QED
    BY <2>1, <2>2, SameTrees
<1>3. CASE WriteIndex
  <2> DEFINE d == Head(todo).ds
             x == [ts |-> clock + 1, tree |-> tree[d]]
  <2>1. UNCHANGED <<secret, tree>> /\ index' = [index EXCEPT ![d] = @ \cup {x}]
    BY <1>3 DEF WriteIndex
  <2>2. Extended
    BY <2>1, NothingWritten
  <2>3. \A e \in Dataset : Named(tree[e], secret)
    BY <2>2, TreesNamed
  <2>4. \A e \in Dataset : index'[e] \subseteq index[e] \cup (IF e = d THEN {x} ELSE {})
    <3> HIDE DEF x, d
    <3> QED
      BY <2>1 DEF TypeOK
  <2>5. ASSUME NEW e \in Dataset, NEW y \in index'[e] PROVE Named(y.tree, secret)
    <3>1. CASE y \in index[e]
      BY <2>2, <3>1, TreesNamed
    <3>2. CASE y \notin index[e]
      <4>1. e = d /\ y = x
        BY <2>4, <3>2, Zenon
      <4>2. y.tree = tree[e]
        BY <4>1
      <4> QED
        BY <2>3, <4>2
    <3> QED
      BY <3>1, <3>2
  <2> QED
    BY <2>1, <2>3, <2>5 DEF VersionsOfOneSecret, OneSecret, Named
<1> QED
  BY <1>1, <1>2, <1>3 DEF SaveStep

LEMMA LoadVersions ==
  ASSUME TypeOK, VersionsOfOneSecret, NEW d \in Dataset,
         LoadEmpty(d) \/ LoadWithoutIndex(d) \/ LoadIndex(d)
  PROVE  VersionsOfOneSecret'
<1>1. CASE LoadEmpty(d) \/ LoadWithoutIndex(d)
  BY <1>1, SameTrees DEF LoadEmpty, LoadWithoutIndex, disks, memory
<1>2. CASE LoadIndex(d)
  <2>1. /\ index[d] # {} /\ UNCHANGED <<secret, index>>
        /\ \E t \in Loaded(LastIndex(d).tree, disk[d]) : tree' = [tree EXCEPT ![d] = t]
    BY <1>2 DEF LoadIndex, disks
  <2>2. PICK t \in Loaded(LastIndex(d).tree, disk[d]) : tree' = [tree EXCEPT ![d] = t]
    BY <2>1
  <2>3. LastIndex(d) \in index[d] /\ LastIndex(d).tree \in Trees
    <3>1. clock \in Nat /\ index \in [Dataset -> Indexes]
      BY DEF TypeOK, Indexes
    <3> QED
      BY <2>1, <3>1, LastIndexType
  <2>4. Extended /\ Named(LastIndex(d).tree, secret)
    BY <2>1, <2>3, NothingWritten, TreesNamed
  <2>5. Named(t, secret)
    <3>1. LastIndex(d).tree \in Placed(File)
      BY <2>3 DEF Trees, Placed
    <3> QED
      BY <2>4, <3>1, LoadedNamed
  <2> QED
    BY <2>1, <2>2, <2>4, <2>5, TreeStep
<1> QED
  BY <1>1, <1>2

\* A file that is recovered goes to a node with the id of its secret.
LEMMA RecoverOneVersions ==
  ASSUME TypeOK, VersionsOfOneSecret, NEW r, RecoverOne(r)
  PROVE  VersionsOfOneSecret'
<1> DEFINE d    == Head(todo).ds
           s    == secret[r.file]
           home == {p \in Lookup(tree[d], Front(r.path)) : IsDir(tree[d], p)}
           news(q) == s.type = Text /\ s.content # NodeContent(tree[d], Append(q, s.id))
<1>1. /\ todo # <<>> /\ Head(todo).do = "recover" /\ Head(todo) \in Steps
      /\ r \in Head(todo).paths /\ UNCHANGED <<secret, index>>
  BY TodoType DEF RecoverOne, Doing, TypeOK, disks
<1>2. PICK q \in IF home = {} THEN {<<>>} ELSE home :
        \/ tree' = tree
        \/ tree' = [tree EXCEPT ![d] = AddVersion(@, Append(q, s.id), r.file)]
        \/ tree' = [tree EXCEPT ![d] = Graft(@, q, s.id, r.file)]
  <2> SUFFICES \E q \in IF home = {} THEN {<<>>} ELSE home :
        \/ tree' = IF news(q) THEN [tree EXCEPT ![d] = AddVersion(@, Append(q, s.id), r.file)] ELSE tree
        \/ tree' = [tree EXCEPT ![d] = Graft(@, q, s.id, r.file)]
    OBVIOUS
  <2> QED
    BY Zenon DEF RecoverOne
<1>3. d \in Dataset /\ r.file \in File
  BY <1>1, StepFields DEF Spot
<1>4. s.id \in Nat
  BY <1>3, SecretOf DEF TypeOK
<1>5. q \in Seq(Nat)
  <2>1. tree[d] \in Trees
    BY <1>3 DEF TypeOK
  <2>2. home \subseteq Nodes(tree[d]) \cup {<<>>}
    BY DEF Lookup
  <2>3. Nodes(tree[d]) \subseteq Seq(Nat)
    BY <2>1 DEF Nodes, Trees, Path
  <2> HIDE DEF home
  <2> QED
    BY <1>2, <2>2, <2>3, EmptySeq
<1> HIDE DEF home
<1>6. Extended /\ Named(tree[d], secret)
  BY <1>1, <1>3, NothingWritten, TreesNamed
<1>7. /\ Named(AddVersion(tree[d], Append(q, s.id), r.file), secret)
      /\ Named(Graft(tree[d], q, s.id, r.file), secret)
  BY <1>4, <1>5, <1>6, AppendLast, VersionNamed, GraftNamed
<1> HIDE DEF d, s
<1>8. CASE tree' = tree
  BY <1>1, <1>8, SameTrees
<1>9. CASE tree' = [tree EXCEPT ![d] = AddVersion(@, Append(q, s.id), r.file)]
  BY <1>1, <1>3, <1>6, <1>7, <1>9, TreeStep
<1>10. CASE tree' = [tree EXCEPT ![d] = Graft(@, q, s.id, r.file)]
  BY <1>1, <1>3, <1>6, <1>7, <1>10, TreeStep
<1> QED
  BY <1>2, <1>8, <1>9, <1>10

LEMMA RecoverVersions ==
  ASSUME TypeOK, VersionsOfOneSecret,
         Recovered \/ Unlist \/ Gather \/ PruneIndex \/ NothingToBury \/ Ready
  PROVE  VersionsOfOneSecret'
<1> DEFINE d == Head(todo).ds
<1>1. CASE Recovered \/ NothingToBury \/ Ready
  <2>1. UNCHANGED <<secret, tree, index>>
    BY <1>1 DEF Recovered, NothingToBury, Ready, disks, memory
  <2> QED
    BY <2>1, SameTrees
<1>2. CASE Unlist
  <2> DEFINE f == Len(secret) + 1
  <2>1. /\ d \in Dataset /\ f \in Nat
        /\ Write(d, f, Dir, RecName(f), Empty)
        /\ tree' = [tree EXCEPT ![d] = Graft(@, <<>>, f, f)]
        /\ UNCHANGED index
    <3>1. todo # <<>> /\ Head(todo) \in Steps /\ Head(todo).do = "unlist"
      BY <1>2, TodoType DEF Unlist, Doing, TypeOK
    <3>2. d \in Dataset
      BY <3>1, StepFields
    <3>3. f \in Nat
      BY LenProperties DEF TypeOK
    <3> QED
      BY <1>2, <3>2, <3>3 DEF Unlist
  <2>2. Extended /\ secret'[f].id = f
    BY <2>1, OneWritten
  <2>3. Named(Graft(tree[d], <<>>, f, f), secret')
    BY <2>1, <2>2, TreesNamed, GraftNamed, EmptySeq
  <2> HIDE DEF d, f
  <2> QED
    BY <2>1, <2>2, <2>3, TreeStep
<1>3. CASE Gather
  <2>1. /\ todo # <<>> /\ Head(todo) \in Steps /\ Head(todo).do = "gather"
        /\ UNCHANGED <<secret, index>>
    BY <1>3, TodoType DEF Gather, Doing, TypeOK, disks
  <2>2. PICK last \in SUBSET Head(todo).rest :
           tree' = [tree EXCEPT ![d] = @ \cup
                      {[at |-> <<Head(todo).rec, secret[f].id>>, file |-> f] : f \in last}]
    BY <1>3 DEF Gather
  <2>3. d \in Dataset /\ Extended /\ Named(tree[d], secret)
    BY <2>1, StepFields, NothingWritten, TreesNamed
  <2> DEFINE new == {[at |-> <<Head(todo).rec, secret[f].id>>, file |-> f] : f \in last}
  <2>4. Named(tree[d] \cup new, secret)
    <3>1. \A f \in last : <<Head(todo).rec, secret[f].id>> # <<>>
             /\ Last(<<Head(todo).rec, secret[f].id>>) = secret[f].id
      BY DEF Last
    <3> QED
      BY <2>3, <3>1 DEF Named
  <2>5. tree' = [tree EXCEPT ![d] = @ \cup new]
    BY <2>2
  <2> HIDE DEF new, d
  <2> QED
    BY <2>1, <2>3, <2>4, <2>5, TreeStep
<1>4. CASE PruneIndex
  <2>1. UNCHANGED <<secret, tree>>
        /\ \/ index' = index
           \/ index' = [index EXCEPT ![d] = {x \in @ : x.ts # Newest(Head(todo).old)}]
    BY <1>4 DEF PruneIndex, memory
  <2>2. \A e \in Dataset : index'[e] \subseteq index[e]
    <3> HIDE DEF d
    <3> QED
      BY <2>1 DEF TypeOK
  <2> QED
    BY <2>1, <2>2, SameTrees
<1> QED
  BY <1>1, <1>2, <1>3, <1>4

LEMMA BuryVersions ==
  ASSUME TypeOK, VersionsOfOneSecret, Doing("bury"), NEW f \in doomed[Head(todo).ds], Bury(f)
  PROVE  VersionsOfOneSecret'
<1>1. UNCHANGED <<secret, index>>
      /\ \/ tree' = tree
         \/ tree' = [tree EXCEPT !["trash"] = Graft(@, <<>>, secret[f].id, f)]
  BY DEF Bury
<1>2. f \in File /\ "trash" \in Dataset
  <2>1. todo # <<>> /\ Head(todo) \in Steps /\ Head(todo).do = "bury"
    BY TodoType DEF Doing, TypeOK
  <2>2. Head(todo).ds \in Dataset
    BY <2>1, StepFields
  <2>3. doomed[Head(todo).ds] \in SUBSET File
    BY <2>2 DEF TypeOK
  <2> QED
    BY <2>3 DEF Dataset
<1>3. secret[f].id \in Nat
  BY <1>2, SecretOf DEF TypeOK
<1>4. Extended /\ Named(tree["trash"], secret)
  BY <1>1, <1>2, NothingWritten, TreesNamed
<1>5. Named(Graft(tree["trash"], <<>>, secret[f].id, f), secret)
  BY <1>3, <1>4, GraftNamed, EmptySeq
<1>6. CASE tree' = tree
  BY <1>1, <1>6, SameTrees
<1>7. CASE tree' = [tree EXCEPT !["trash"] = Graft(@, <<>>, secret[f].id, f)]
  BY <1>1, <1>2, <1>4, <1>5, <1>7, TreeStep
<1> QED
  BY <1>1, <1>6, <1>7

LEMMA VersionsInit == Init => VersionsOfOneSecret
BY DEF Init, VersionsOfOneSecret, OneSecret

LEMMA VersionsNext == TypeOK /\ VersionsOfOneSecret /\ [Next]_vars => VersionsOfOneSecret'
<1> SUFFICES ASSUME TypeOK, VersionsOfOneSecret, [Next]_vars PROVE VersionsOfOneSecret'
  OBVIOUS
<1>1. CASE Start
  BY <1>1, SameTrees DEF Start, disks, memory
<1>2. CASE Stop
  <2>1. UNCHANGED <<secret, index>> /\ \A d \in Dataset : tree'[d] = {}
    BY <1>2 DEF Stop, disks
  <2>2. \A d \in Dataset : Named(tree'[d], secret')
    BY <2>1 DEF Named
  <2> QED
    BY <2>1, <2>2, NothingWritten, VersionsStep
<1>3. CASE Create
  BY <1>3, CreateVersions
<1>4. CASE Move
  BY <1>4, MoveVersions
<1>5. CASE SaveStep \/ WriteFails
  BY <1>5, SaveVersions
<1>6. CASE FileStep \/ MvDone \/ Unmute \/ MvThrows
  <2>1. UNCHANGED <<secret, tree, index>>
    BY <1>6 DEF FileStep, ShiftFile, DestroyFile, MvDone, Unmute, MvThrows, disks, memory
  <2> QED
    BY <2>1, SameTrees
<1>7. CASE LoadStep
  BY <1>7, LoadVersions, RecoverOneVersions, RecoverVersions, BuryVersions, Zenon DEF LoadStep, RecoverStep, BuryStep
<1>8. CASE UNCHANGED vars
  BY <1>8, SameTrees DEF vars
<1>9. CASE \E from, to \in Dataset : Refused(from, to)
  BY <1>9, SameTrees DEF Refused, disks
<1> QED
  BY <1>1, <1>2, <1>3, <1>4, <1>5, <1>6, <1>7, <1>8, <1>9 DEF Next, Goes, Step

\* Whatever is created, edited, moved, renamed, recovered or reloaded, and wherever
\* the program was killed, the versions that a node has, in memory and in every
\* index on disk, are versions of the secret with its id: two secrets with the same
\* name never become one.
THEOREM VersionsCorrect == Spec => []VersionsOfOneSecret
<1>1. Init => TypeOK /\ VersionsOfOneSecret
  BY TypeInit, VersionsInit
<1>2. TypeOK /\ VersionsOfOneSecret /\ [Next]_vars => TypeOK' /\ VersionsOfOneSecret'
  BY TypeNext, VersionsNext
<1> QED
  BY <1>1, <1>2, PTL DEF Spec

-----------------------------------------------------------------------------
(* Two computers: the types.                                                 *)

LEMMA RenameExtends ==
  ASSUME TypeOK, NEW d \in Dataset, NEW p, NEW n, MayRename(d, p, n)
  PROVE  Extended
<1>1. CASE n = NodeName(tree[d], p)
  BY <1>1, NothingWritten DEF MayRename
<1>2. CASE n # NodeName(tree[d], p)
  BY <1>2, OneWritten DEF MayRename
<1> QED
  BY <1>1, <1>2

\* A step keeps the secrets that were written, and the clock does not go back.
LEMMA NextExtends ==
  ASSUME TypeOK, [Next]_vars
  PROVE  Extended /\ clock' \in Nat /\ clock <= clock'
<1>0. clock \in Nat
  BY DEF TypeOK
<1>1. CASE Create
  <2>1. clock' = clock
    BY <1>1 DEF Create, Add, Edit
  <2>2. \E d \in Dataset : \E id, type, n, c : Write(d, id, type, n, c)
    BY <1>1, BoundsAssumption DEF Create, Add, Edit, Dataset
  <2> QED
    BY <1>0, <2>1, <2>2, OneWritten
<1>2. CASE Move
  BY <1>0, <1>2, MoveWrites, RenameExtends
<1>3. CASE WriteIndex
  BY <1>0, <1>3, NothingWritten DEF WriteIndex
<1>4. CASE Unlist
  <2>1. clock' = clock
    BY <1>4 DEF Unlist
  <2>2. Head(todo).ds \in Dataset
    BY <1>4, StepDataset DEF Unlist
  <2>3. \E d \in Dataset : \E id, type, n, c : Write(d, id, type, n, c)
    BY <1>4, <2>2, Zenon DEF Unlist
  <2> QED
    BY <1>0, <2>1, <2>3, OneWritten
<1>5. CASE Start \/ Stop \/ Unsaved \/ UnlinkIndex \/ WriteFails \/ FileStep \/ MvDone \/ Unmute
             \/ MvThrows
  <2>1. UNCHANGED <<secret, clock>>
    BY <1>5 DEF Start, Stop, Unsaved, UnlinkIndex, WriteFails, FileStep, ShiftFile, DestroyFile,
                MvDone, Unmute, MvThrows, disks
  <2> QED
    BY <1>0, <2>1, NothingWritten
<1>6. CASE LoadStep /\ ~Unlist
  <2>1. UNCHANGED <<secret, clock>>
    BY <1>6 DEF LoadStep, LoadEmpty, LoadWithoutIndex, LoadIndex, RecoverStep, Recovered, RecoverOne,
                Gather, PruneIndex, BuryStep, NothingToBury, Bury, Ready, disks
  <2> QED
    BY <1>0, <2>1, NothingWritten
<1>7. CASE UNCHANGED vars
  BY <1>0, <1>7, NothingWritten DEF vars
<1>8. CASE \E from, to \in Dataset : Refused(from, to)
  <2>1. UNCHANGED <<secret, clock>>
    BY <1>8 DEF Refused, disks
  <2> QED
    BY <1>0, <2>1, NothingWritten
<1> QED
  BY <1>1, <1>2, <1>3, <1>4, <1>5, <1>6, <1>7, <1>8 DEF Next, Goes, Step, SaveStep

\* What is on the disk of a computer.
FolderOK(c) ==
  /\ c.disk \in [Dataset -> SUBSET File]
  /\ c.index \in [Dataset -> Indexes]

SyncTypes == TypeOK /\ DraftOK /\ FolderOK(away) /\ FolderOK(base)

LEMMA HereOK ==
  ASSUME TypeOK
  PROVE  FolderOK(Here)
BY DEF TypeOK, FolderOK, Here, Indexes

LEMMA MergedOK ==
  ASSUME SyncTypes
  PROVE  FolderOK(Merged)
<1>1. ASSUME NEW d \in Dataset
      PROVE  /\ Merge(base.disk[d], disk[d], away.disk[d]) \subseteq File
             /\ Merge(base.index[d], index[d], away.index[d]) \in Indexes
  BY DEF SyncTypes, TypeOK, FolderOK, Merge, Indexes
<1> QED
  BY <1>1 DEF FolderOK, Merged

\* The disk of the computer in use is another one: the types do not change.
LEMMA TypesMoved ==
  ASSUME TypeOK, DraftOK, NEW c, FolderOK(c), disk' = c.disk, index' = c.index,
         UNCHANGED <<secret, clock, on, memory, todo, sessions, moves, failures>>
  PROVE  TypeOK' /\ DraftOK'
<1>1. File' = File
  BY DEF File
<1>2. disk' \in [Dataset -> SUBSET File]
  BY DEF FolderOK
<1>3. Grown
  BY <1>2, GrownByNothing
<1>4. /\ UNCHANGED <<clock, tree, mine, muted, doomed, draft, todo, on, sessions, moves, failures>>
      /\ Trees' = Trees
  BY <1>1 DEF memory, Trees
<1>5. index' \in [Dataset -> SUBSET [ts : 1..clock', tree : Trees']]
  BY <1>4 DEF FolderOK, Indexes
<1>6. TypeOK'
  BY <1>3, <1>4, <1>5, Kept, TypeStep
<1> QED
  BY <1>4, <1>6 DEF DraftOK

LEMMA FolderKept ==
  ASSUME Extended, clock \in Nat, clock' \in Nat, clock <= clock', NEW c, FolderOK(c)
  PROVE  /\ c.disk \in [Dataset -> SUBSET (File')]
         /\ c.index \in [Dataset -> SUBSET [ts : 1..clock', tree : Trees']]
<1>1. File \subseteq File' /\ Trees \subseteq Trees'
  BY GrownFacts DEF Extended
<1>2. [ts : 1..clock, tree : Trees] \subseteq [ts : 1..clock', tree : Trees']
  BY <1>1
<1> QED
  BY <1>1, <1>2 DEF FolderOK, Indexes

LEMMA SyncTypesNext == SyncTypes /\ [NextSync]_syncVars => SyncTypes'
<1> SUFFICES ASSUME SyncTypes, [NextSync]_syncVars PROVE SyncTypes'
  OBVIOUS
<1>0. TypeOK /\ DraftOK /\ clock \in Nat
  BY DEF SyncTypes, TypeOK
<1>1. CASE [Next]_vars /\ UNCHANGED <<away, base>>
  <2>1. TypeOK' /\ DraftOK'
    BY <1>0, <1>1, TypeNext, DraftNext
  <2>2. Extended /\ clock' \in Nat /\ clock <= clock'
    BY <1>0, <1>1, NextExtends
  <2>3. FolderOK(away)' /\ FolderOK(base)'
    BY <1>0, <1>1, <2>2, FolderKept DEF SyncTypes, FolderOK, Indexes
  <2> QED
    BY <2>1, <2>3 DEF SyncTypes
<1>2. CASE Switch \/ PullAndPush
  <2>1. PICK c \in {away, Merged} : disk' = c.disk /\ index' = c.index
    BY <1>2 DEF Switch, PullAndPush
  <2>2. UNCHANGED <<secret, clock, on, memory, todo, sessions, moves, failures>>
    BY <1>2 DEF Switch, PullAndPush
  <2>3. FolderOK(away) /\ FolderOK(base) /\ FolderOK(Here) /\ FolderOK(Merged)
    BY <1>0, HereOK, MergedOK DEF SyncTypes
  <2>4. TypeOK' /\ DraftOK'
    BY <1>0, <2>1, <2>2, <2>3, TypesMoved
  <2>5. away' \in {Here, Merged} /\ base' \in {base, Merged}
    BY <1>2 DEF Switch, PullAndPush
  <2>6. FolderOK(away') /\ FolderOK(base')
    BY <2>3, <2>5
  <2>7. FolderOK(away)' /\ FolderOK(base)'
    BY <2>2, <2>6 DEF FolderOK, Indexes, Trees, File
  <2> QED
    BY <2>4, <2>7 DEF SyncTypes
<1> QED
  BY <1>1, <1>2 DEF NextSync, syncVars

LEMMA SyncTypesInit == InitSync => SyncTypes
BY TypeInit, DraftInit, HereOK DEF InitSync, SyncTypes

-----------------------------------------------------------------------------
(* Two computers: where the files are.                                       *)

\* f is in one of the folders D.
Holds(D, f) == \E d \in Dataset : f \in D[d]

Apart(D) == D["main"] \cap D["trash"] = {}

\* Nothing is in two datasets of a computer, or was when both were the same; what is
\* on both was there then, and what was there then is still on both but for what one
\* of them deleted.
HomesInv ==
  /\ OneHome /\ Apart(away.disk) /\ Apart(base.disk)
  /\ \A f \in File : Holds(disk, f) /\ Holds(away.disk, f) => Holds(base.disk, f)
  /\ \A f \in File \ erased : Holds(base.disk, f) => Holds(disk, f) /\ Holds(away.disk, f)
  /\ LostOnlyFromTrash

LEMMA DatasetTwo == Dataset = {"main", "trash"} /\ "main" # "trash"
BY DEF Dataset

LEMMA LostMeans == LostOnlyFromTrash <=>
                     \A f \in File \ erased : Holds(disk, f) \/ Holds(away.disk, f)
BY DEF LostOnlyFromTrash, OnDisks, Holds

\* What a step of one computer does to its folders.
LEMMA StoreSays ==
  ASSUME TypeOK, [Store!Next]_Store!vars
  PROVE  /\ \A f \in File' \ File : f = Len(secret) + 1 /\ Holds(disk', f)
         /\ \A f \in File : Holds(disk', f) => Holds(disk, f)
         /\ \A f \in File : Holds(disk, f) => Holds(disk', f) \/ f \in Erases
<1>0. /\ disk \in [Dataset -> SUBSET File] /\ Len(secret) \in Nat
      /\ File = 1..Len(secret) /\ File' = 1..Len(secret')
  BY DEF TypeOK, File
<1> DEFINE Goal == /\ \A f \in File' \ File : f = Len(secret) + 1 /\ Holds(disk', f)
                   /\ \A f \in File : Holds(disk', f) => Holds(disk, f)
                   /\ \A f \in File : Holds(disk, f) => Holds(disk', f) \/ f \in Erases
<1>1. CASE UNCHANGED <<secret, disk>>
  BY <1>0, <1>1
<1>2. ASSUME Len(secret') = Len(secret), NEW d \in Dataset, NEW f,
             d = "trash" \/ f = draft, disk' = [disk EXCEPT ![d] = @ \ {f}]
      PROVE  Goal
  <2>1. \A g \in File : Holds(disk', g) => Holds(disk, g)
    BY <1>0, <1>2 DEF Holds
  <2>2. \A g \in File : Holds(disk, g) /\ ~Holds(disk', g) => g = f /\ g \in disk[d]
    BY <1>0, <1>2 DEF Holds
  <2>3. \A g \in File : Holds(disk, g) /\ ~Holds(disk', g) => g \in Erases
    BY <1>0, <1>2, <2>2, DatasetTwo DEF Erases, Holds
  <2> QED
    BY <1>0, <1>2, <2>1, <2>3
<1>3. ASSUME NEW d \in Dataset, Store!Put(d) PROVE Goal
  <2>1. Len(secret') = Len(secret) + 1 /\ disk' = [disk EXCEPT ![d] = @ \cup {Len(secret) + 1}]
    BY <1>3 DEF Store!Put
  <2>2. \A f : Holds(disk', f) <=> Holds(disk, f) \/ f = Len(secret) + 1
    BY <1>0, <2>1 DEF Holds
  <2>3. /\ \A f \in File' : f \in File \/ f = Len(secret) + 1
        /\ \A f \in File : f # Len(secret) + 1
    BY <1>0, <2>1
  <2> QED
    BY <2>2, <2>3, Zenon
<1>4. ASSUME NEW d \in Dataset, Store!TakeBack(d) PROVE Goal
  BY <1>2, <1>4 DEF Store!TakeBack
<1>5. ASSUME NEW f, Store!Erase(f) PROVE Goal
  BY <1>2, <1>5, DatasetTwo DEF Store!Erase
<1>6. ASSUME NEW f, NEW from \in Dataset, NEW to \in Dataset, Store!Carry(f, from, to)
      PROVE  Goal
  <2>1. /\ Len(secret') = Len(secret) /\ f \in disk[from]
        /\ disk' = [disk EXCEPT ![from] = @ \ {f}, ![to] = @ \cup {f}]
    BY <1>6 DEF Store!Carry
  <2>2. \A g : Holds(disk', g) <=> Holds(disk, g)
    BY <1>0, <2>1 DEF Holds
  <2> QED
    BY <1>0, <2>1, <2>2
<1>7. CASE Store!Settle
  BY <1>1, <1>7, <1>0 DEF Store!Settle
<1>8. CASE UNCHANGED Store!vars
  BY <1>0, <1>8 DEF Store!vars
<1> QED
  BY <1>3, <1>4, <1>5, <1>6, <1>7, <1>8 DEF Store!Next, Store!Datasets, Dataset

\* Merging what two computers have of a file, each in one dataset at most.
LEMMA MergeHolds ==
  ASSUME NEW b, NEW o, NEW t, NEW m, NEW f, Apart(b), Apart(o), Apart(t),
         \A d \in Dataset : m[d] = Merge(b[d], o[d], t[d])
  PROVE  /\ Holds(m, f) => Holds(o, f) \/ Holds(t, f)
         /\ Holds(o, f) /\ Holds(t, f) => Holds(m, f)
         /\ (Holds(o, f) \/ Holds(t, f)) /\ ~Holds(b, f) => Holds(m, f)
         /\ (Holds(o, f) /\ Holds(t, f) => Holds(b, f)) => f \notin m["main"] \cap m["trash"]
<1>1. \A d \in Dataset : f \in m[d] <=> \/ f \in o[d] /\ f \in t[d]
                                        \/ f \in o[d] /\ f \notin b[d]
                                        \/ f \in t[d] /\ f \notin b[d]
  BY DEF Merge
<1>2. \A D \in {b, o, t} : ~(f \in D["main"] /\ f \in D["trash"])
  BY DEF Apart
<1> QED
  BY <1>1, <1>2, DatasetTwo DEF Holds

LEMMA HomesNext == SyncTypes /\ HomesInv /\ [NextSync]_syncVars => HomesInv'
<1> SUFFICES ASSUME SyncTypes, HomesInv, [NextSync]_syncVars PROVE HomesInv'
  OBVIOUS
<1>0. /\ TypeOK /\ DraftOK /\ File = 1..Len(secret) /\ Len(secret) \in Nat
      /\ \A d \in Dataset : away.disk[d] \subseteq File /\ base.disk[d] \subseteq File
  BY DEF SyncTypes, TypeOK, FolderOK, File
<1>a. \A f \in File \ erased : Holds(disk, f) \/ Holds(away.disk, f)
  BY LostMeans DEF HomesInv
<1>1. CASE Next /\ erased' = erased \cup Erases /\ UNCHANGED <<away, base>>
  <2>1. [Store!Next]_Store!vars
    BY <1>0, <1>1, StoreStep
  <2>2. OneHome'
    BY <1>0, <2>1, OneHomeStep DEF HomesInv
  <2>3. /\ \A f \in File' \ File : f = Len(secret) + 1 /\ Holds(disk', f)
        /\ \A f \in File : Holds(disk', f) => Holds(disk, f)
        /\ \A f \in File : Holds(disk, f) => Holds(disk', f) \/ f \in Erases
    BY <1>0, <2>1, StoreSays
  <2>4. \A f \in File' \ File : ~Holds(away.disk, f) /\ ~Holds(base.disk, f)
    BY <1>0 DEF Holds
  <2>5. \A f \in File' : Holds(disk', f) /\ Holds(away.disk, f) => Holds(base.disk, f)
    BY <2>3, <2>4 DEF HomesInv
  <2>6. \A f \in File' \ erased' : Holds(base.disk, f) => Holds(disk', f) /\ Holds(away.disk, f)
    BY <1>1, <2>3, <2>4 DEF HomesInv
  <2>7. \A f \in File' \ erased' : Holds(disk', f) \/ Holds(away.disk, f)
    BY <1>1, <1>a, <2>3
  <2>8. LostOnlyFromTrash'
    BY <1>1, <2>7 DEF LostOnlyFromTrash, OnDisks, Holds
  <2>9. UNCHANGED <<away, base>>
    BY <1>1
  <2>10. /\ \A f \in File' : Holds(disk', f) /\ Holds(away'.disk, f) => Holds(base'.disk, f)
         /\ \A f \in File' \ erased' : Holds(base'.disk, f) => Holds(disk', f) /\ Holds(away'.disk, f)
         /\ Apart(away'.disk) /\ Apart(base'.disk)
    BY <2>5, <2>6, <2>9 DEF HomesInv
  <2> QED
    BY <2>2, <2>8, <2>10 DEF HomesInv, Holds, Apart
<1>2. CASE Switch
  <2>1. /\ disk' = away.disk /\ away'.disk = disk /\ UNCHANGED <<secret, base, erased>>
    BY <1>2 DEF Switch, Here
  <2>2. OneHome' /\ Apart(away'.disk) /\ Apart(base'.disk)
    BY <2>1 DEF HomesInv, OneHome, Apart
  <2>3. /\ \A f \in File : Holds(disk', f) /\ Holds(away'.disk, f) => Holds(base'.disk, f)
        /\ \A f \in File \ erased : Holds(base'.disk, f) => Holds(disk', f) /\ Holds(away'.disk, f)
    BY <2>1 DEF HomesInv
  <2>4. \A f \in File \ erased : Holds(disk', f) \/ Holds(away'.disk, f)
    BY <2>1, <1>a
  <2>5. LostOnlyFromTrash'
    BY <2>1, <2>4 DEF LostOnlyFromTrash, OnDisks, Holds, File
  <2> QED
    BY <2>1, <2>2, <2>3, <2>5 DEF HomesInv, Holds, Apart, File
<1>3. CASE PullAndPush
  <2> DEFINE m == Merged.disk
  <2>1. /\ disk' = m /\ away'.disk = m /\ base'.disk = m /\ UNCHANGED <<secret, erased>>
    BY <1>3 DEF PullAndPush
  <2>2. \A d \in Dataset : m[d] = Merge(base.disk[d], disk[d], away.disk[d])
    BY DEF Merged
  <2>3. Apart(disk) /\ Apart(away.disk) /\ Apart(base.disk)
    BY DEF HomesInv, OneHome, Apart
  <2> HIDE DEF m
  <2>4. ASSUME NEW f
        PROVE  /\ Holds(m, f) => Holds(disk, f) \/ Holds(away.disk, f)
               /\ Holds(disk, f) /\ Holds(away.disk, f) => Holds(m, f)
               /\ (Holds(disk, f) \/ Holds(away.disk, f)) /\ ~Holds(base.disk, f) => Holds(m, f)
               /\ (Holds(disk, f) /\ Holds(away.disk, f) => Holds(base.disk, f))
                    => f \notin m["main"] \cap m["trash"]
    BY <2>2, <2>3, MergeHolds
  <2>5. \A f \in File \ erased : Holds(m, f)
    BY <1>a, <2>4 DEF HomesInv
  <2>6. \A f : Holds(m, f) => f \in File
    BY <1>0, <2>4 DEF Holds, TypeOK
  <2>7. Apart(m)
    <3> SUFFICES ASSUME NEW f \in m["main"] \cap m["trash"] PROVE FALSE
      BY DEF Apart
    <3>1. f \in File
      BY <2>6, DatasetTwo DEF Holds
    <3> QED
      BY <3>1, <2>4 DEF HomesInv
  <2>8. LostOnlyFromTrash'
    BY <2>1, <2>5 DEF LostOnlyFromTrash, OnDisks, Holds, File
  <2> QED
    BY <2>1, <2>7, <2>8 DEF HomesInv, OneHome, Apart, Holds
<1>4. CASE UNCHANGED syncVars
  <2>1. UNCHANGED <<secret, disk, away, base, erased>>
    BY <1>4 DEF syncVars, vars
  <2> QED
    BY <2>1 DEF HomesInv, OneHome, Apart, Holds, LostOnlyFromTrash, OnDisks, File
<1> QED
  BY <1>1, <1>2, <1>3, <1>4 DEF NextSync

LEMMA HomesInit == InitSync => HomesInv
<1> SUFFICES ASSUME InitSync PROVE HomesInv
  OBVIOUS
<1>1. \A d \in Dataset : disk[d] = {} /\ away.disk[d] = {} /\ base.disk[d] = {}
  BY DEF InitSync, Init, Here
<1>2. File = {}
  BY DEF InitSync, Init, File
<1> QED
  BY <1>1, <1>2, DatasetTwo DEF HomesInv, OneHome, Apart, Holds, LostOnlyFromTrash

\* On two computers that add, edit, move and delete, are killed, and are merged by git
\* at any time, a file that is on neither was deleted while it was in the trash of one of
\* them (by a command, or by the trashToBeDeleted of a load that buried it again), or was
\* taken back by the command that wrote it: no merge loses one by itself.
THEOREM MergesLoseNothing == SyncSpec => []LostOnlyFromTrash
<1>1. HomesInv => LostOnlyFromTrash
  BY DEF HomesInv
<1> QED
  BY <1>1, SyncTypesInit, SyncTypesNext, HomesInit, HomesNext, PTL DEF SyncSpec

\* Nor is a file ever in both datasets of a computer, whichever of them the other
\* computer had moved it to.
THEOREM OneHomeMerged == SyncSpec => []OneHome
<1>1. HomesInv => OneHome
  BY DEF HomesInv
<1> QED
  BY <1>1, SyncTypesInit, SyncTypesNext, HomesInit, HomesNext, PTL DEF SyncSpec

-----------------------------------------------------------------------------
(* Two computers: the versions.                                              *)

\* The indexes that the other computer has do not mix two secrets either.
AwayNamed == \A d \in Dataset : \A x \in away.index[d] : OneSecret(x.tree)

LEMMA AwayNext ==
  SyncTypes /\ VersionsOfOneSecret /\ AwayNamed /\ [NextSync]_syncVars
    => VersionsOfOneSecret' /\ AwayNamed'
<1> SUFFICES ASSUME SyncTypes, VersionsOfOneSecret, AwayNamed, [NextSync]_syncVars
             PROVE  VersionsOfOneSecret' /\ AwayNamed'
  OBVIOUS
<1>0. TypeOK /\ \A d \in Dataset : \A x \in away.index[d] : x.tree \in Trees
  BY DEF SyncTypes, FolderOK, Indexes
<1>1. CASE [Next]_vars /\ UNCHANGED away
  <2>1. Extended
    BY <1>0, <1>1, NextExtends
  <2>2. \A d \in Dataset : \A x \in away.index[d] : Named(x.tree, secret')
    BY <1>0, <2>1, NamedKept DEF AwayNamed, OneSecret, Named
  <2> QED
    BY <1>0, <1>1, <2>2, VersionsNext DEF AwayNamed, OneSecret, Named
<1>2. CASE Switch
  <2>1. index' = away.index /\ away'.index = index /\ UNCHANGED <<secret, tree>>
    BY <1>2 DEF Switch, Here, memory
  <2> QED
    BY <2>1 DEF VersionsOfOneSecret, AwayNamed, OneSecret
<1>3. CASE PullAndPush
  <2>1. index' = Merged.index /\ away'.index = Merged.index /\ UNCHANGED <<secret, tree>>
    BY <1>3 DEF PullAndPush, memory
  <2>2. \A d \in Dataset : Merged.index[d] \subseteq index[d] \cup away.index[d]
    BY DEF Merged, Merge
  <2> QED
    BY <2>1, <2>2 DEF VersionsOfOneSecret, AwayNamed, OneSecret
<1>4. CASE UNCHANGED syncVars
  BY <1>4, <1>1 DEF syncVars
<1> QED
  BY <1>1, <1>2, <1>3, <1>4 DEF NextSync

\* On two computers too, whatever indexes git brings together, no load gives a node a
\* version of another secret.
THEOREM VersionsMerged == SyncSpec => []VersionsOfOneSecret
<1>1. InitSync => VersionsOfOneSecret /\ AwayNamed
  BY VersionsInit DEF InitSync, Here, AwayNamed, VersionsOfOneSecret
<1> QED
  BY <1>1, SyncTypesInit, SyncTypesNext, AwayNext, PTL DEF SyncSpec

-----------------------------------------------------------------------------
(* Ordinary use: what the disk and the memory have at each point of a command. *)

\* No crash, no failed write and none of the odd commands.
Ordinary == Habits = {} /\ MaxFailures = 0

\* The nodes N have all their ancestors.
Closed(N) == \A x \in N : Ancestry(x) \subseteq N

\* A secret is at one place in the trees T, of both datasets.
OnePlace(T) ==
  \A d, e \in Dataset : \A x \in Nodes(T[d]), y \in Nodes(T[e]) : Last(x) = Last(y) => d = e /\ x = y

Sound(T) == OnePlace(T) /\ \A d \in Dataset : Closed(Nodes(T[d]))

\* An id is the number of the first file that has it.
Numbered == \A f \in File : secret[f].id \in File

OneIndexEach == \A d \in Dataset : \A x, y \in index[d] : x.ts = y.ts => x = y

\* What a load would make of dataset d: its newest index.
LastTree(d) == IF index[d] = {} THEN {} ELSE LastIndex(d).tree

Clean(d) == tree[d] = LastTree(d)
Even(d)  == Files(tree[d]) = disk[d]

\* A refused mv leaves datasets with their saving disabled, until the next mv ends.
Settled(d) == Clean(d) \/ d \in muted

\* The indexes are as the folders, and the next load finds nothing to recover.
Resting ==
  /\ Sound([d \in Dataset |-> LastTree(d)])
  /\ \A d \in Dataset : Files(LastTree(d)) = disk[d]

\* The steps of a load, of a save and of a move.
Load(d)   == [do |-> "load", ds |-> d]
Buries(d) == [do |-> "bury", ds |-> d]
ReadyStep == [do |-> "ready"]
Opens(d)  == [do |-> "unmute", ds |-> d]
Saves(d)  == [do |-> "save", ds |-> d]
Writes(d) == [do |-> "write", ds |-> d]

Prunes(d, old)    == [do |-> "prune", ds |-> d, old |-> old]
Shifts(d, moving) == [do |-> "shift", from |-> d, moving |-> moving]
Destroys(moving)  == [do |-> "destroy", moving |-> moving]

\* What is pruned is never the newest index.
Spares(d, old) == index[d] # {} /\ old \subseteq 1..clock /\ LastIndex(d).ts \notin old

Loads ==
  /\ on /\ muted = {} /\ Resting
  /\ \/ /\ todo = <<Load("main"), Load("trash"), Buries("trash"), Buries("main"), ReadyStep>>
        /\ tree["main"] = {} /\ tree["trash"] = {}
     \/ /\ \/ todo = <<Load("trash"), Buries("trash"), Buries("main"), ReadyStep>>
           \/ \E old : /\ todo = <<Prunes("main", old), Load("trash"), Buries("trash"), Buries("main"),
                                   ReadyStep>>
                       /\ Spares("main", old)
        /\ Clean("main") /\ tree["trash"] = {}
     \/ /\ \/ todo = <<Buries("trash"), Buries("main"), ReadyStep>>
           \/ \E old : /\ todo = <<Prunes("trash", old), Buries("trash"), Buries("main"), ReadyStep>>
                       /\ Spares("trash", old)
           \/ todo = <<Buries("main"), ReadyStep>>
           \/ todo = <<ReadyStep>>
           \/ todo = <<>>
        /\ Clean("main") /\ Clean("trash")

\* The saves that end a command: of d, and of the other dataset before or after it.
SavesLast(d) ==
  /\ Even("main") /\ Even("trash")
  /\ \/ /\ todo \in {<<Saves(d)>>, <<Writes(d)>>, <<Opens(d), Saves(d)>>}
        /\ Settled(Other(d))
     \/ todo \in {<<Saves(Other(d)), Opens(d), Saves(d)>>, <<Writes(Other(d)), Opens(d), Saves(d)>>,
                  <<Opens(Other(d)), Saves(Other(d)), Opens(d), Saves(d)>>}

Mv(m, from, to) ==
  /\ m.do = "mv" /\ m.from = from /\ m.to = to
  /\ \A e \in Dataset \ {from, to} : Settled(e)

Listed ==
  /\ Even("main") /\ Even("trash")
  /\ \E m, from, to : todo = <<m>> /\ from \in Dataset /\ to \in Dataset /\ Mv(m, from, to)

\* The files that are still to be moved to the other dataset, or deleted.
Shifting ==
  \E moving, m, d :
    /\ todo = <<Shifts(d, moving), m>> /\ d \in Dataset /\ Mv(m, d, Other(d))
    /\ Files(tree[d]) = disk[d] \ Files(moving)
    /\ Files(tree[Other(d)]) = disk[Other(d)] \cup Files(moving)
    /\ Files(moving) \subseteq disk[d] \cup disk[Other(d)]

Destroying ==
  \E moving, m :
    /\ todo = <<Destroys(moving), m>> /\ Mv(m, "trash", "trash")
    /\ Even("main") /\ Files(tree["trash"]) = disk["trash"] \ Files(moving)

\* Between two commands.
Paused == todo = <<>> /\ Even("main") /\ Even("trash") /\ Settled("main") /\ Settled("trash")

Works ==
  /\ on /\ Sound(tree)
  /\ (\E d \in Dataset : SavesLast(d)) \/ Listed \/ Shifting \/ Destroying \/ Paused

Off == ~on /\ muted = {} /\ tree["main"] = {} /\ tree["trash"] = {} /\ Resting

SavedInv ==
  /\ Numbered /\ OneIndexEach
  /\ doomed["main"] = {} /\ doomed["trash"] = {}
  /\ Off \/ Loads \/ Works

-----------------------------------------------------------------------------
(* Paths and their ancestors.                                                *)

\* A path is a sequence that is not empty.
LEMMA PathOf ==
  ASSUME NEW p \in Path
  PROVE  p \in Seq(Nat) /\ p # <<>> /\ Len(p) \in Nat /\ Len(p) >= 1
BY LenProperties, EmptySeq DEF Path

\* The ancestors of an ancestor are ancestors too.
LEMMA AncestorsOf ==
  ASSUME NEW p \in Path, NEW a \in Ancestry(p)
  PROVE  a \in Path /\ Ancestry(a) \subseteq Ancestry(p) /\ Len(a) <= Len(p)
<1>1. PICK i \in 1..Len(p) : a = SubSeq(p, 1, i)
  BY DEF Ancestry
<1>2. a \in Path /\ Ancestry(a) \subseteq Ancestry(p)
  BY <1>1, PrefixPath
<1>3. Len(p) \in Nat /\ p \in Seq(Nat)
  BY PathOf
<1>4. \A j \in 1..i : p[j] \in Nat
  BY <1>3, ElementOfSeq
<1>5. Len(a) = i
  BY <1>1, <1>3, <1>4, SubSeqProperties
<1> QED
  BY <1>2, <1>3, <1>5

\* A path is its own ancestor.
LEMMA OwnAncestor ==
  ASSUME NEW p \in Path
  PROVE  p \in Ancestry(p)
BY PathOf, SubSeqFull DEF Ancestry

\* IsPrefix() of paths says which are ancestors.
LEMMA PrefixIsAncestor ==
  ASSUME NEW p \in Path, NEW x \in Path
  PROVE  IsPrefix(p, x) <=> p \in Ancestry(x)
<1>1. p \in Seq(Nat) /\ x \in Seq(Nat) /\ Len(p) \in Nat /\ Len(x) \in Nat /\ Len(p) >= 1
  BY PathOf
<1>2. SubSeq(p, 1, Len(p)) = p
  BY <1>1, SubSeqFull
<1>3. ASSUME IsPrefix(p, x) PROVE p \in Ancestry(x)
  <2>1. Len(p) \in 1..Len(x) /\ p = SubSeq(x, 1, Len(p))
    BY <1>1, <1>2, <1>3 DEF IsPrefix
  <2> QED
    BY <2>1, Zenon DEF Ancestry
<1>4. ASSUME p \in Ancestry(x) PROVE IsPrefix(p, x)
  <2>1. PICK i \in 1..Len(x) : p = SubSeq(x, 1, i)
    BY <1>4 DEF Ancestry
  <2>2. \A j \in 1..i : x[j] \in Nat
    BY <1>1, ElementOfSeq
  <2>3. Len(p) = i
    BY <1>1, <2>1, <2>2, SubSeqProperties
  <2> QED
    BY <1>1, <1>2, <2>1, <2>3 DEF IsPrefix
<1> QED
  BY <1>3, <1>4

\* The ancestors of a child are those of its parent and itself.
LEMMA AncestorsOfChild ==
  ASSUME NEW q \in Seq(Nat), NEW id \in Nat
  PROVE  /\ q = <<>> => Ancestry(Append(q, id)) = {Append(q, id)}
         /\ q # <<>> => q \in Path /\ Ancestry(Append(q, id)) = {Append(q, id)} \cup Ancestry(q)
<1> DEFINE r == Append(q, id)
<1>1. r \in Seq(Nat) /\ Len(r) = Len(q) + 1 /\ Len(q) \in Nat /\ r[Len(q) + 1] = id
      /\ \A i \in 1..Len(q) : r[i] = q[i]
  BY AppendProperties, LenProperties
<1>2. SubSeq(r, 1, Len(r)) = r
  BY <1>1, SubSeqFull
<1>3. ASSUME NEW i \in 1..Len(q) PROVE SubSeq(r, 1, i) = SubSeq(q, 1, i)
  <2>1. \A j \in 1..i : r[j] \in Nat /\ q[j] \in Nat /\ r[j] = q[j]
    <3>1. \A j \in 1..i : j \in 1..Len(q) /\ j \in 1..Len(r)
      BY <1>1
    <3> HIDE DEF r
    <3> QED
      BY <1>1, <3>1, ElementOfSeq
  <2>2. i \in Int /\ 1 \in Int /\ 1 <= i
    BY <1>1
  <2> HIDE DEF r
  <2>3. /\ SubSeq(r, 1, i) \in Seq(Nat) /\ Len(SubSeq(r, 1, i)) = i
        /\ \A j \in 1..i : SubSeq(r, 1, i)[j] = r[j]
    BY <2>1, <2>2, SubSeqProperties
  <2>4. /\ SubSeq(q, 1, i) \in Seq(Nat) /\ Len(SubSeq(q, 1, i)) = i
        /\ \A j \in 1..i : SubSeq(q, 1, i)[j] = q[j]
    BY <2>1, <2>2, SubSeqProperties
  <2> QED
    BY <2>1, <2>3, <2>4, SeqEqual
<1> HIDE DEF r
<1>4. 1..Len(r) = {Len(r)} \cup 1..Len(q)
  BY <1>1
<1>5. Ancestry(r) = {SubSeq(r, 1, i) : i \in 1..Len(r)}
  BY DEF Ancestry
<1>6. Ancestry(r) = {r} \cup {SubSeq(q, 1, i) : i \in 1..Len(q)}
  BY <1>2, <1>3, <1>4, <1>5
<1>7. CASE q = <<>>
  <2>1. Len(q) = 0
    BY <1>7
  <2>2. 1..Len(q) = {}
    BY <2>1
  <2> QED
    BY <1>6, <1>7, <2>2 DEF r
<1>8. CASE q # <<>>
  BY <1>6, <1>8 DEF r, Path, Ancestry
<1> QED
  BY <1>7, <1>8

\* Where x, which is p or below it, goes when p becomes a child of q.
Rehung(q, p, x) == Append(q, Last(p)) \o SubSeq(x, Len(p) + 1, Len(x))

\* Rehanging p under q replaces the parent and keeps what is below.
LEMMA RehungIs ==
  ASSUME NEW q \in Seq(Nat), NEW p \in Path, NEW x \in Path, p \in Ancestry(x)
  PROVE  /\ Rehung(q, p, x) \in Path
         /\ Len(Rehung(q, p, x)) = Len(q) + 1 + (Len(x) - Len(p))
         /\ Len(p) <= Len(x)
         /\ \A i \in 1..Len(q) : Rehung(q, p, x)[i] = q[i]
         /\ Rehung(q, p, x)[Len(q) + 1] = x[Len(p)]
         /\ \A i \in 1..(Len(x) - Len(p)) : Rehung(q, p, x)[Len(q) + 1 + i] = x[Len(p) + i]
<1> DEFINE r == Append(q, Last(p))
           b == SubSeq(x, Len(p) + 1, Len(x))
           n == Len(q)
           m == Len(p)
           k == Len(x)
<1>1. p \in Seq(Nat) /\ x \in Seq(Nat) /\ m \in Nat /\ k \in Nat /\ m >= 1 /\ n \in Nat
      /\ Last(p) \in Nat
  BY PathOf, LastOfPath, LenProperties
<1>2. m <= k /\ p = SubSeq(x, 1, m)
  <2>1. IsPrefix(p, x) /\ SubSeq(p, 1, m) = p
    BY <1>1, PrefixIsAncestor, SubSeqFull
  <2> QED
    BY <2>1 DEF IsPrefix
<1>3. p[m] = x[m]
  <2>1. \A j \in 1..m : x[j] \in Nat
    BY <1>1, <1>2, ElementOfSeq
  <2>2. \A j \in 1..m : SubSeq(x, 1, m)[j] = x[j]
    BY <1>1, <2>1, SubSeqProperties
  <2> QED
    BY <1>1, <1>2, <2>2
<1>4. r \in Seq(Nat) /\ Len(r) = n + 1 /\ r[n + 1] = p[m] /\ \A i \in 1..n : r[i] = q[i]
  <2>1. Last(p) = p[m]
    BY DEF Last
  <2> QED
    BY <1>1, <2>1, AppendProperties
<1>5. b \in Seq(Nat) /\ Len(b) = k - m /\ \A i \in 1..(k - m) : b[i] = x[m + i]
  <2>1. \A i \in (m + 1)..k : x[i] \in Nat
    <3>1. \A i \in (m + 1)..k : i \in 1..k
      BY <1>1
    <3> QED
      BY <1>1, <3>1, ElementOfSeq
  <2> DEFINE a == m + 1
  <2>2. a \in Int /\ k \in Int
    BY <1>1
  <2>3. \A i \in a..k : x[i] \in Nat
    BY <2>1
  <2> HIDE DEF a, m, k
  <2>4. /\ SubSeq(x, a, k) \in Seq(Nat)
        /\ Len(SubSeq(x, a, k)) = IF a <= k THEN k - a + 1 ELSE 0
        /\ \A i \in 1..(k - a + 1) : SubSeq(x, a, k)[i] = x[a + i - 1]
    BY <2>2, <2>3, SubSeqProperties
  <2>5. k - a + 1 = k - m /\ (IF a <= k THEN k - a + 1 ELSE 0) = k - m
        /\ \A i \in 1..(k - m) : a + i - 1 = m + i
    BY <1>1, <1>2 DEF a
  <2>6. b = SubSeq(x, a, k)
    BY DEF b, a, m, k
  <2> HIDE DEF b
  <2> QED
    BY <2>4, <2>5, <2>6
<1> HIDE DEF r, b, m, k, n
<1>6. /\ r \o b \in Seq(Nat) /\ Len(r \o b) = n + 1 + (k - m)
      /\ \A i \in 1..(n + 1 + (k - m)) : (r \o b)[i] = IF i <= n + 1 THEN r[i] ELSE b[i - (n + 1)]
  <2>1. /\ r \o b \in Seq(Nat) /\ Len(r \o b) = Len(r) + Len(b)
        /\ \A i \in 1..(Len(r) + Len(b)) : (r \o b)[i] = IF i <= Len(r) THEN r[i] ELSE b[i - Len(r)]
    BY <1>4, <1>5, ConcatProperties
  <2> QED
    BY <1>4, <1>5, <2>1
<1>7. n + 1 + (k - m) \in Nat /\ n + 1 + (k - m) >= 1
  BY <1>1, <1>2
<1>8. r \o b \in Path
  <2>1. Len(r \o b) # 0
    BY <1>6, <1>7
  <2> QED
    BY <1>6, <2>1, EmptySeq DEF Path
<1>9. \A i \in 1..n : (r \o b)[i] = q[i]
  BY <1>1, <1>2, <1>4, <1>6
<1>10. (r \o b)[n + 1] = x[m]
  BY <1>1, <1>2, <1>3, <1>4, <1>6
<1>11. \A i \in 1..(k - m) : (r \o b)[n + 1 + i] = x[m + i]
  <2> SUFFICES ASSUME NEW i \in 1..(k - m) PROVE (r \o b)[n + 1 + i] = x[m + i]
    OBVIOUS
  <2> DEFINE j == n + 1 + i
  <2>1. j \in 1..(n + 1 + (k - m)) /\ ~(j <= n + 1) /\ j - (n + 1) = i
    BY <1>1, <1>2
  <2> HIDE DEF j
  <2>2. (r \o b)[j] = b[i]
    BY <1>6, <2>1
  <2> QED
    BY <1>5, <2>2 DEF j
<1>12. Rehung(q, p, x) = r \o b
  BY DEF Rehung, r, b
<1> QED
  BY <1>2, <1>6, <1>8, <1>9, <1>10, <1>11, <1>12 DEF m, k, n

\* It keeps its id, and its ancestors up to p go with it.
LEMMA RehungPath ==
  ASSUME NEW q \in Seq(Nat), NEW p \in Path, NEW x \in Path, p \in Ancestry(x)
  PROVE  /\ Rehung(q, p, x) \in Path
         /\ Last(Rehung(q, p, x)) = Last(x)
         /\ \A a \in Ancestry(Rehung(q, p, x)) :
              \/ q # <<>> /\ a \in Ancestry(q)
              \/ \E z \in Ancestry(x) : p \in Ancestry(z) /\ a = Rehung(q, p, z)
<1> DEFINE y == Rehung(q, p, x)
           n == Len(q)
           m == Len(p)
           k == Len(x)
<1>1. p \in Seq(Nat) /\ x \in Seq(Nat) /\ m \in Nat /\ k \in Nat /\ m >= 1 /\ n \in Nat
  BY PathOf, LenProperties
<1>2. /\ y \in Path /\ Len(y) = n + 1 + (k - m) /\ m <= k
      /\ \A i \in 1..n : y[i] = q[i]
      /\ y[n + 1] = x[m]
      /\ \A i \in 1..(k - m) : y[n + 1 + i] = x[m + i]
  BY RehungIs
<1>3. Last(y) = Last(x)
  <2>1. CASE k = m
    BY <1>1, <1>2, <2>1 DEF Last
  <2>2. CASE k # m
    <3>1. k - m \in 1..(k - m)
      BY <1>1, <1>2, <2>2
    <3>2. y[n + 1 + (k - m)] = x[m + (k - m)]
      BY <1>2, <3>1
    <3>3. m + (k - m) = k
      BY <1>1
    <3> QED
      BY <1>2, <3>2, <3>3 DEF Last
  <2> QED
    BY <2>1, <2>2
<1>4. p = SubSeq(x, 1, m)
  <2>1. IsPrefix(p, x) /\ SubSeq(p, 1, m) = p
    BY <1>1, PrefixIsAncestor, SubSeqFull
  <2> QED
    BY <2>1 DEF IsPrefix
<1>5. ASSUME NEW a \in Ancestry(y)
      PROVE  \/ q # <<>> /\ a \in Ancestry(q)
             \/ \E z \in Ancestry(x) : p \in Ancestry(z) /\ a = Rehung(q, p, z)
  <2>1. PICK i \in 1..Len(y) : a = SubSeq(y, 1, i)
    BY DEF Ancestry
  <2>2. y \in Seq(Nat) /\ Len(y) \in Nat
    BY <1>2, PathOf
  <2> HIDE DEF y, n, m, k
  <2>3. a \in Seq(Nat) /\ Len(a) = i /\ \A j \in 1..i : a[j] = y[j]
    <3>1. \A j \in 1..i : y[j] \in Nat
      BY <2>2, ElementOfSeq
    <3>2. i \in Int /\ 1 <= i
      BY <2>2
    <3> QED
      BY <2>1, <3>1, <3>2, SubSeqProperties
  <2>4. CASE i <= n
    <3>1. i \in 1..n /\ i \in Int
      BY <1>1, <2>2, <2>4
    <3>2. \A j \in 1..i : q[j] \in Nat
      <4>1. \A j \in 1..i : j \in 1..Len(q)
        BY <1>1, <3>1 DEF n
      <4> QED
        BY <4>1, ElementOfSeq
    <3>3. SubSeq(q, 1, i) \in Seq(Nat) /\ Len(SubSeq(q, 1, i)) = i
          /\ \A j \in 1..i : SubSeq(q, 1, i)[j] = q[j]
      BY <3>1, <3>2, SubSeqProperties
    <3>4. \A j \in 1..i : j \in 1..n
      BY <1>1, <3>1
    <3>5. a = SubSeq(q, 1, i)
      BY <1>2, <2>3, <3>3, <3>4, SeqEqual
    <3>6. q # <<>>
      BY <3>1, <1>1, EmptySeq DEF n
    <3> QED
      BY <3>1, <3>5, <3>6 DEF Ancestry, n
  <2>5. CASE ~(i <= n)
    <3> DEFINE l == m + (i - (n + 1))
               z == SubSeq(x, 1, l)
    <3>1. l \in 1..k /\ m \in 1..l /\ l \in Nat /\ i \in Nat /\ i = n + 1 + (l - m)
      BY <1>1, <1>2, <2>2, <2>5
    <3> HIDE DEF l
    <3>2. z \in Path /\ z \in Ancestry(x)
      BY <3>1, PrefixPath DEF Ancestry, k
    <3>3. z \in Seq(Nat) /\ Len(z) = l /\ \A j \in 1..l : z[j] = x[j]
      <4>1. \A j \in 1..l : x[j] \in Nat
        <5>1. \A j \in 1..l : j \in 1..Len(x)
          BY <1>1, <3>1 DEF k
        <5> QED
          BY <1>1, <5>1, ElementOfSeq
      <4>2. l \in Int /\ 1 <= l
        BY <3>1
      <4> QED
        BY <4>1, <4>2, SubSeqProperties
    <3>4. p \in Ancestry(z)
      <4>1. SubSeq(z, 1, m) = SubSeq(x, 1, m)
        <5>1. 1 \in 1..Len(x) /\ l \in 1..Len(x) /\ 1 \in 1..(l - 1 + 1) /\ m \in 1..(l - 1 + 1)
              /\ 1 + 1 - 1 = 1 /\ 1 + m - 1 = m
          BY <1>1, <3>1 DEF k
        <5> QED
          BY <1>1, <5>1, SubSeqOfSubSeq
      <4> QED
        BY <1>4, <3>1, <3>3, <4>1, Zenon DEF Ancestry
    <3> HIDE DEF z
    <3>5. /\ Rehung(q, p, z) \in Path /\ Len(Rehung(q, p, z)) = i
          /\ \A j \in 1..n : Rehung(q, p, z)[j] = q[j]
          /\ Rehung(q, p, z)[n + 1] = z[m]
          /\ \A j \in 1..(l - m) : Rehung(q, p, z)[n + 1 + j] = z[m + j]
      BY <3>1, <3>2, <3>3, <3>4, RehungIs DEF n, m
    <3>6. ASSUME NEW j \in 1..i PROVE Rehung(q, p, z)[j] = a[j]
      <4>0. a[j] = y[j]
        BY <2>3
      <4>1. CASE j <= n
        BY <1>1, <1>2, <3>5, <4>0, <4>1
      <4>2. CASE j = n + 1
        BY <1>1, <1>2, <3>1, <3>3, <3>5, <4>0, <4>2
      <4>3. CASE j > n + 1
        <5> DEFINE h == j - (n + 1)
        <5>1. h \in 1..(l - m) /\ h \in 1..(k - m) /\ j = n + 1 + h /\ m + h \in 1..l
          BY <1>1, <3>1, <4>3
        <5> HIDE DEF h
        <5>2. y[j] = x[m + h]
          BY <1>2, <5>1
        <5>3. Rehung(q, p, z)[j] = z[m + h]
          BY <3>5, <5>1
        <5> QED
          BY <3>3, <4>0, <5>1, <5>2, <5>3
      <4> QED
        BY <1>1, <3>1, <4>1, <4>2, <4>3
    <3>7. Rehung(q, p, z) = a
      <4>1. Rehung(q, p, z) \in Seq(Nat)
        BY <3>5, PathOf
      <4> QED
        BY <2>3, <3>5, <3>6, <4>1, SeqEqual
    <3> QED
      BY <3>2, <3>4, <3>7
  <2> QED
    BY <2>4, <2>5
<1> QED
  BY <1>2, <1>3, <1>5

-----------------------------------------------------------------------------
(* What the operators on trees do to nodes and files.                        *)

\* The nodes of a tree are paths.
LEMMA NodesArePaths ==
  ASSUME NEW F, NEW t \in Placed(F)
  PROVE  Nodes(t) \subseteq Path
BY DEF Placed, Nodes

\* Uprooting p takes the nodes at p and below it, and no other.
LEMMA UprootNodes ==
  ASSUME NEW F, NEW t \in Placed(F), NEW p \in Path
  PROVE  /\ Uproot(t, p) = {e \in t : p \notin Ancestry(e.at)}
         /\ Subtree(t, p) = {e \in t : p \in Ancestry(e.at)}
         /\ Nodes(Uproot(t, p)) = {x \in Nodes(t) : p \notin Ancestry(x)}
         /\ Nodes(Subtree(t, p)) = {x \in Nodes(t) : p \in Ancestry(x)}
         /\ Uproot(t, p) \in Placed(F) /\ Subtree(t, p) \in Placed(F)
<1>1. \A e \in t : e.at \in Path
  BY DEF Placed
<1>2. \A e \in t : IsPrefix(p, e.at) <=> p \in Ancestry(e.at)
  BY <1>1, PrefixIsAncestor
<1>3. Subtree(t, p) = {e \in t : p \in Ancestry(e.at)}
  BY <1>2 DEF Subtree
<1>4. Uproot(t, p) = {e \in t : p \notin Ancestry(e.at)}
  BY <1>3 DEF Uproot
<1>5. Nodes(Uproot(t, p)) = {x \in Nodes(t) : p \notin Ancestry(x)}
  BY <1>4, Zenon DEF Nodes
<1>6. Nodes(Subtree(t, p)) = {x \in Nodes(t) : p \in Ancestry(x)}
  BY <1>3, Zenon DEF Nodes
<1>7. Uproot(t, p) \in Placed(F) /\ Subtree(t, p) \in Placed(F)
  BY <1>3, <1>4 DEF Placed
<1> QED
  BY <1>3, <1>4, <1>5, <1>6, <1>7

\* Where there is no node there is nothing to take away.
LEMMA UprootNothing ==
  ASSUME NEW F, NEW t \in Placed(F), NEW p \in Path, Closed(Nodes(t)), p \notin Nodes(t)
  PROVE  Uproot(t, p) = t
<1>1. \A e \in t : p \notin Ancestry(e.at)
  BY DEF Closed, Nodes
<1>2. Uproot(t, p) = {e \in t : p \notin Ancestry(e.at)}
  BY UprootNodes
<1> QED
  BY <1>1, <1>2

\* A version more is its file more, at its node.
LEMMA VersionNodes ==
  ASSUME NEW t, NEW p, NEW f
  PROVE  /\ Nodes(AddVersion(t, p, f)) = Nodes(t) \cup {p}
         /\ Files(AddVersion(t, p, f)) = Files(t) \cup {f}
<1> DEFINE e == [at |-> p, file |-> f]
<1>1. e.at = p /\ e.file = f /\ AddVersion(t, p, f) = t \cup {e}
  BY DEF AddVersion
<1> HIDE DEF e
<1> QED
  BY <1>1 DEF Nodes, Files

\* Grafting onto a place where the tree has nothing adds what is grafted.
LEMMA GraftNew ==
  ASSUME NEW F, NEW t \in Placed(F), NEW q \in Seq(Nat), NEW id \in Nat, NEW f,
         Closed(Nodes(t)), Append(q, id) \notin Nodes(t)
  PROVE  /\ Nodes(Graft(t, q, id, f)) = Nodes(t) \cup {Append(q, id)}
         /\ Files(Graft(t, q, id, f)) = Files(t) \cup {f}
<1>1. Append(q, id) \in Path
  BY AppendPath
<1>2. Uproot(t, Append(q, id)) = t
  BY <1>1, UprootNothing
<1> DEFINE r == Append(q, id)
<1>3. Graft(t, q, id, f) = AddVersion(t, r, f)
  BY <1>2 DEF Graft
<1> HIDE DEF r
<1>4. /\ Nodes(AddVersion(t, r, f)) = Nodes(t) \cup {r}
      /\ Files(AddVersion(t, r, f)) = Files(t) \cup {f}
  BY VersionNodes
<1> QED
  BY <1>3, <1>4 DEF r

\* Planting under a folder without that node adds the nodes, with their new paths.
LEMMA PlantNew ==
  ASSUME NEW F, NEW t \in Placed(F), NEW q \in Seq(Nat), NEW p \in Path, NEW sub,
         Closed(Nodes(t)), Append(q, Last(p)) \notin Nodes(t)
  PROVE  /\ Nodes(Plant(t, q, p, sub)) = Nodes(t) \cup {Rehung(q, p, x) : x \in Nodes(sub)}
         /\ Files(Plant(t, q, p, sub)) = Files(t) \cup Files(sub)
<1> DEFINE r == Append(q, Last(p))
           new == {[at |-> Rehung(q, p, e.at), file |-> e.file] : e \in sub}
<1>1. r \in Path
  BY LastOfPath, AppendPath
<1>2. Uproot(t, r) = t
  BY <1>1, UprootNothing
<1>3. Plant(t, q, p, sub) = t \cup new
  BY <1>2, Zenon DEF Plant, Rehung
<1>4. Nodes(t \cup new) = Nodes(t) \cup Nodes(new) /\ Files(t \cup new) = Files(t) \cup Files(new)
  BY DEF Nodes, Files
<1>5. Nodes(new) = {Rehung(q, p, x) : x \in Nodes(sub)} /\ Files(new) = Files(sub)
  <2>1. Nodes(new) = {e.at : e \in new} /\ Files(new) = {e.file : e \in new}
    BY Zenon DEF Nodes, Files
  <2> DEFINE New(e) == [at |-> Rehung(q, p, e.at), file |-> e.file]
  <2>a. \A e : New(e).at = Rehung(q, p, e.at) /\ New(e).file = e.file
    OBVIOUS
  <2>b. new = {New(e) : e \in sub}
    OBVIOUS
  <2> HIDE DEF New, new
  <2>2. {e.at : e \in new} = {Rehung(q, p, e.at) : e \in sub}
    BY <2>a, <2>b
  <2>3. {e.file : e \in new} = {e.file : e \in sub}
    BY <2>a, <2>b
  <2>4. {Rehung(q, p, x) : x \in Nodes(sub)} = {Rehung(q, p, e.at) : e \in sub}
    BY DEF Nodes
  <2> QED
    BY <2>1, <2>2, <2>3, <2>4, Zenon DEF Files
<1> QED
  BY <1>3, <1>4, <1>5, Zenon

-----------------------------------------------------------------------------
(* The nodes of both datasets, when a command changes them.                  *)

\* Sound only speaks of the nodes.
LEMMA SameNodes ==
  ASSUME NEW T, NEW U, Sound(T), \A d \in Dataset : Nodes(U[d]) = Nodes(T[d])
  PROVE  Sound(U)
BY DEF Sound, OnePlace

\* The trees U are the trees T without what dataset `from` has at p and below.
Cut(T, U, from, p) ==
  \A d \in Dataset :
    /\ Nodes(T[d]) \subseteq Path
    /\ Nodes(U[d]) = {x \in Nodes(T[d]) : ~(d = from /\ p \in Ancestry(x))}

\* Taking a node with all that is below leaves the trees sound.
LEMMA Removed ==
  ASSUME NEW T, NEW U, NEW from, NEW p, Sound(T), Cut(T, U, from, p)
  PROVE  Sound(U)
<1>1. ASSUME NEW d \in Dataset, NEW x \in Nodes(U[d]), NEW a \in Ancestry(x)
      PROVE  a \in Nodes(U[d])
  <2>1. a \in Nodes(T[d]) /\ Ancestry(a) \subseteq Ancestry(x)
    BY AncestorsOf DEF Sound, Closed, Cut
  <2> QED
    BY <2>1 DEF Cut
<1>2. OnePlace(U)
  BY DEF Sound, OnePlace, Cut
<1> QED
  BY <1>1, <1>2 DEF Sound, Closed

\* A child with a new id under a node of the tree leaves the trees sound.
LEMMA ChildAdded ==
  ASSUME NEW T, NEW U, Sound(T), \A d \in Dataset : Nodes(T[d]) \subseteq Path,
         NEW c \in Dataset, NEW q \in Seq(Nat), NEW id \in Nat,
         q = <<>> \/ q \in Nodes(T[c]),
         \A e \in Dataset : \A x \in Nodes(T[e]) : Last(x) # id,
         \A e \in Dataset : Nodes(U[e]) = Nodes(T[e]) \cup (IF e = c THEN {Append(q, id)} ELSE {})
  PROVE  Sound(U)
<1>1. Last(Append(q, id)) = id
  BY AppendLast
<1>2. OnePlace(U)
  <2> DEFINE r == Append(q, id)
  <2>1. Last(r) = id
    BY <1>1
  <2>2. \A e \in Dataset : \A x \in Nodes(U[e]) : x \in Nodes(T[e]) \/ (e = c /\ x = r)
    OBVIOUS
  <2> HIDE DEF r
  <2> QED
    BY <2>1, <2>2 DEF Sound, OnePlace
<1>3. ASSUME NEW e \in Dataset, NEW x \in Nodes(U[e]), NEW a \in Ancestry(x)
      PROVE  a \in Nodes(U[e])
  <2>1. CASE x \in Nodes(T[e])
    BY <2>1 DEF Sound, Closed
  <2>2. CASE x \notin Nodes(T[e])
    <3>1. e = c /\ x = Append(q, id)
      BY <2>2
    <3>2. a = x \/ (q # <<>> /\ a \in Ancestry(q))
      BY <3>1, AncestorsOfChild
    <3> QED
      BY <3>1, <3>2 DEF Sound, Closed
  <2> QED
    BY <2>1, <2>2
<1>4. \A e \in Dataset : Closed(Nodes(U[e]))
  BY <1>3 DEF Closed
<1> QED
  BY <1>2, <1>4 DEF Sound

\* The nodes of d, when p with all below it leaves from and hangs from q in to.
NodesMoved(T, from, to, p, q, d) ==
  {x \in Nodes(T[d]) : ~(d = from /\ p \in Ancestry(x))} \cup
  {Rehung(q, p, x) : x \in {z \in Nodes(T[from]) : d = to /\ p \in Ancestry(z)}}

\* A node with all below it becomes a child of q, here or in the other dataset.
LEMMA Moved ==
  ASSUME NEW T, NEW U, Sound(T), \A d \in Dataset : Nodes(T[d]) \subseteq Path,
         NEW from \in Dataset, NEW to \in Dataset, NEW p \in Nodes(T[from]), NEW q \in Seq(Nat),
         q # <<>> => q \in Nodes(T[to]) /\ ~(from = to /\ p \in Ancestry(q)),
         \A d \in Dataset : Nodes(U[d]) = NodesMoved(T, from, to, p, q, d)
  PROVE  Sound(U)
<1> USE DEF NodesMoved
<1>1. p \in Path
  OBVIOUS
<1>2. ASSUME NEW x \in Nodes(T[from]), p \in Ancestry(x)
      PROVE  /\ Last(Rehung(q, p, x)) = Last(x)
             /\ \A a \in Ancestry(Rehung(q, p, x)) :
                  \/ q # <<>> /\ a \in Ancestry(q)
                  \/ \E z \in Ancestry(x) : p \in Ancestry(z) /\ a = Rehung(q, p, z)
  BY <1>1, <1>2, RehungPath
<1>3. ASSUME NEW d \in Dataset, NEW y \in Nodes(U[d]), NEW a \in Ancestry(y)
      PROVE  a \in Nodes(U[d])
  <2>1. CASE y \in Nodes(T[d]) /\ ~(d = from /\ p \in Ancestry(y))
    <3>1. a \in Nodes(T[d]) /\ Ancestry(a) \subseteq Ancestry(y)
      BY <2>1, AncestorsOf DEF Sound, Closed
    <3> QED
      BY <2>1, <3>1
  <2>2. CASE d = to /\ \E x \in Nodes(T[from]) : p \in Ancestry(x) /\ y = Rehung(q, p, x)
    <3>1. PICK x \in Nodes(T[from]) : p \in Ancestry(x) /\ y = Rehung(q, p, x)
      BY <2>2
    <3>2. CASE q # <<>> /\ a \in Ancestry(q)
      <4>1. a \in Nodes(T[d]) /\ Ancestry(a) \subseteq Ancestry(q)
        BY <2>2, <3>2, AncestorsOf DEF Sound, Closed
      <4> QED
        BY <2>2, <3>2, <4>1
    <3>3. CASE \E z \in Ancestry(x) : p \in Ancestry(z) /\ a = Rehung(q, p, z)
      <4>1. \A z \in Ancestry(x) : z \in Nodes(T[from])
        BY DEF Sound, Closed
      <4> QED
        BY <2>2, <3>3, <4>1
    <3> QED
      BY <1>2, <3>1, <3>2, <3>3
  <2> QED
    BY <2>1, <2>2
<1>4. ASSUME NEW d \in Dataset, NEW y \in Nodes(U[d])
      PROVE  \E e \in Dataset : \E x \in Nodes(T[e]) :
                /\ Last(x) = Last(y)
                /\ <<d, y>> = IF e = from /\ p \in Ancestry(x) THEN <<to, Rehung(q, p, x)>> ELSE <<e, x>>
  <2>1. CASE y \in Nodes(T[d]) /\ ~(d = from /\ p \in Ancestry(y))
    BY <2>1
  <2>2. CASE d = to /\ \E x \in Nodes(T[from]) : p \in Ancestry(x) /\ y = Rehung(q, p, x)
    BY <1>2, <2>2
  <2> QED
    BY <2>1, <2>2
<1>5. OnePlace(U)
  <2> SUFFICES ASSUME NEW d1 \in Dataset, NEW d2 \in Dataset,
                      NEW y1 \in Nodes(U[d1]), NEW y2 \in Nodes(U[d2]), Last(y1) = Last(y2)
               PROVE  d1 = d2 /\ y1 = y2
    BY DEF OnePlace
  <2> DEFINE To(e, x) == IF e = from /\ p \in Ancestry(x) THEN <<to, Rehung(q, p, x)>> ELSE <<e, x>>
  <2>1. PICK e1 \in Dataset : \E x \in Nodes(T[e1]) : Last(x) = Last(y1) /\ <<d1, y1>> = To(e1, x)
    BY <1>4
  <2>2. PICK e2 \in Dataset : \E x \in Nodes(T[e2]) : Last(x) = Last(y2) /\ <<d2, y2>> = To(e2, x)
    BY <1>4
  <2>3. PICK x1 \in Nodes(T[e1]) : Last(x1) = Last(y1) /\ <<d1, y1>> = To(e1, x1)
    BY <2>1
  <2>4. PICK x2 \in Nodes(T[e2]) : Last(x2) = Last(y2) /\ <<d2, y2>> = To(e2, x2)
    BY <2>2
  <2>5. e1 = e2 /\ x1 = x2
    BY <2>3, <2>4 DEF Sound, OnePlace
  <2> HIDE DEF To
  <2>6. <<d1, y1>> = <<d2, y2>>
    BY <2>3, <2>4, <2>5
  <2> QED
    BY <2>6
<1> QED
  BY <1>3, <1>5 DEF Sound, Closed

\* A file is a version of one node.
LEMMA FilesApart ==
  ASSUME NEW T, NEW s, Sound(T), \A d \in Dataset : Named(T[d], s),
         NEW d \in Dataset, NEW e \in Dataset, NEW x \in T[d], NEW y \in T[e], x.file = y.file
  PROVE  d = e /\ x.at = y.at
<1>1. x.at \in Nodes(T[d]) /\ y.at \in Nodes(T[e]) /\ Last(x.at) = Last(y.at)
  BY DEF Named, Nodes
<1> QED
  BY <1>1 DEF Sound, OnePlace

\* Where a secret is at one place, uprooting takes the files of what it uproots.
LEMMA UprootFiles ==
  ASSUME NEW T, NEW s, Sound(T), \A d \in Dataset : Named(T[d], s),
         NEW d \in Dataset, NEW p
  PROVE  /\ Files(Uproot(T[d], p)) = Files(T[d]) \ Files(Subtree(T[d], p))
         /\ Files(Subtree(T[d], p)) \subseteq Files(T[d])
<1>1. Subtree(T[d], p) \subseteq T[d] /\ Uproot(T[d], p) = T[d] \ Subtree(T[d], p)
  BY DEF Subtree, Uproot
<1>2. \A x, y \in T[d] : x.file = y.file => x.at = y.at
  BY FilesApart
<1>3. \A x \in T[d] : x \in Subtree(T[d], p) <=> IsPrefix(p, x.at)
  BY DEF Subtree
<1> QED
  BY <1>1, <1>2, <1>3 DEF Files

-----------------------------------------------------------------------------
(* The steps that are left, as short sequences.                              *)

\* Heads and tails of short sequences.
LEMMA Tuples ==
  ASSUME NEW a, NEW b, NEW c, NEW d, NEW e
  PROVE  /\ Head(<<a>>) = a /\ Head(<<a, b>>) = a /\ Head(<<a, b, c>>) = a
         /\ Head(<<a, b, c, d>>) = a /\ Head(<<a, b, c, d, e>>) = a
         /\ Tail(<<a>>) = <<>> /\ Tail(<<a, b>>) = <<b>> /\ Tail(<<a, b, c>>) = <<b, c>>
         /\ Tail(<<a, b, c, d>>) = <<b, c, d>> /\ Tail(<<a, b, c, d, e>>) = <<b, c, d, e>>
         /\ <<a>> # <<>> /\ <<a, b>> # <<>> /\ <<a, b, c>> # <<>>
         /\ <<a, b, c, d>> # <<>> /\ <<a, b, c, d, e>> # <<>>
<1>1. /\ Head(<<a>>) = a /\ Head(<<a, b>>) = a /\ Head(<<a, b, c>>) = a
      /\ Head(<<a, b, c, d>>) = a /\ Head(<<a, b, c, d, e>>) = a
  OBVIOUS
<1>2. Tail(<<a>>) = <<>> /\ Tail(<<a, b>>) = <<b>>
  OBVIOUS
<1>3. Tail(<<a, b, c>>) = <<b, c>> /\ Tail(<<a, b, c, d>>) = <<b, c, d>>
  OBVIOUS
<1>4. Tail(<<a, b, c, d, e>>) = <<b, c, d, e>>
  OBVIOUS
<1>5. /\ <<a>> # <<>> /\ <<a, b>> # <<>> /\ <<a, b, c>> # <<>>
      /\ <<a, b, c, d>> # <<>> /\ <<a, b, c, d, e>> # <<>>
  OBVIOUS
<1> QED
  BY <1>1, <1>2, <1>3, <1>4, <1>5

LEMMA FirstThen ==
  ASSUME NEW S, NEW u \in Seq(S), u # <<>>
  PROVE  <<Head(u)>> \o Tail(u) = u
<1> DEFINE x == Head(u)
           s == Tail(u)
<1>0. x \in S /\ s \in Seq(S) /\ Head(u) = x /\ Tail(u) = s
  BY HeadTailProperties
<1> HIDE DEF x, s
<1>1. Len(u) = Len(s) + 1 /\ \A i \in 1..Len(s) : u[i + 1] = s[i]
  BY <1>0, HeadTailProperties, LenProperties
<1>2. u[1] = x
  BY <1>0
<1>3. <<x>> \in Seq(S) /\ Len(<<x>>) = 1 /\ <<x>>[1] = x /\ Len(s) \in Nat
  BY <1>0, LenProperties
<1> DEFINE v == <<x>>
<1>4. /\ v \o s \in Seq(S) /\ Len(v \o s) = Len(v) + Len(s)
      /\ \A i \in 1..(Len(v) + Len(s)) : (v \o s)[i] = IF i <= Len(v) THEN v[i] ELSE s[i - Len(v)]
  BY <1>0, <1>3, ConcatProperties
<1>5. v \in Seq(S) /\ Len(v) = 1 /\ v[1] = x
  BY <1>3
<1> HIDE DEF v
<1>6. ASSUME NEW i \in 1..Len(u) PROVE (v \o s)[i] = u[i]
  <2>1. i \in 1..(Len(v) + Len(s))
    BY <1>1, <1>5
  <2>2. CASE i = 1
    BY <1>2, <1>3, <1>4, <1>5, <2>1, <2>2
  <2>3. CASE i # 1
    <3> DEFINE j == i - 1
    <3>1. j \in 1..Len(s) /\ i = j + 1 /\ ~(i <= 1)
      BY <1>1, <1>3, <2>3
    <3> HIDE DEF j
    <3>2. (v \o s)[i] = s[i - 1]
      BY <1>4, <1>5, <2>1, <3>1
    <3>3. i - 1 = j
      BY <3>1
    <3> QED
      BY <1>1, <3>1, <3>2, <3>3
  <2> QED
    BY <2>2, <2>3
<1>7. v \o s = u
  BY <1>1, <1>3, <1>4, <1>5, <1>6, SeqEqual
<1> QED
  BY <1>7 DEF v, x, s

LEMMA JoinedThree ==
  ASSUME NEW a, NEW b, NEW c, NEW d
  PROVE  <<a>> \o <<b, c, d>> = <<a, b, c, d>>
<1> DEFINE S == {a, b, c, d}
<1>1. a \in S /\ b \in S /\ c \in S /\ d \in S
  OBVIOUS
<1> HIDE DEF S
<1>2. <<a, b, c, d>> \in Seq(S)
  BY <1>1
<1>3. <<Head(<<a, b, c, d>>)>> \o Tail(<<a, b, c, d>>) = <<a, b, c, d>>
  BY <1>2, Tuples, FirstThen
<1> QED
  BY <1>3, Tuples

LEMMA JoinedFour ==
  ASSUME NEW a, NEW b, NEW c, NEW d, NEW e
  PROVE  <<a>> \o <<b, c, d, e>> = <<a, b, c, d, e>>
<1> DEFINE S == {a, b, c, d, e}
<1>1. a \in S /\ b \in S /\ c \in S /\ d \in S /\ e \in S
  OBVIOUS
<1> HIDE DEF S
<1>2. <<a, b, c, d, e>> \in Seq(S)
  BY <1>1
<1>3. <<Head(<<a, b, c, d, e>>)>> \o Tail(<<a, b, c, d, e>>) = <<a, b, c, d, e>>
  BY <1>2, Tuples, FirstThen
<1> QED
  BY <1>3, Tuples

LEMMA Joined ==
  ASSUME NEW a, NEW b, NEW c
  PROVE  /\ <<>> \o <<a>> = <<a>>
         /\ <<a>> \o <<>> = <<a>>
         /\ <<a>> \o <<b>> = <<a, b>>
         /\ <<a>> \o <<b, c>> = <<a, b, c>>
         /\ (<<a>> \o <<b>>) \o <<>> = <<a, b>>
<1> DEFINE S == {a, b, c}
<1>1. a \in S /\ b \in S /\ c \in S
  OBVIOUS
<1> HIDE DEF S
<1>2. <<>> \in Seq(S) /\ <<a>> \in Seq(S) /\ <<a, b>> \in Seq(S) /\ <<a, b, c>> \in Seq(S)
  BY <1>1
<1>3. <<>> \o <<a>> = <<a>> /\ <<a>> \o <<>> = <<a>> /\ <<a, b>> \o <<>> = <<a, b>>
  BY <1>2, ConcatEmptySeq
<1>4. <<a>> \o <<b>> = <<a, b>>
  <2>1. <<Head(<<a, b>>)>> \o Tail(<<a, b>>) = <<a, b>>
    BY <1>2, Tuples, FirstThen
  <2> QED
    BY <2>1, Tuples
<1>5. <<a>> \o <<b, c>> = <<a, b, c>>
  <2>1. <<Head(<<a, b, c>>)>> \o Tail(<<a, b, c>>) = <<a, b, c>>
    BY <1>2, Tuples, FirstThen
  <2> QED
    BY <2>1, Tuples
<1> QED
  BY <1>3, <1>4, <1>5

LEMMA JoinedPairs ==
  ASSUME NEW a, NEW b, NEW c, NEW d
  PROVE  (<<a>> \o <<b>>) \o (<<c>> \o <<d>>) = <<a, b, c, d>>
<1> DEFINE S == {a, b, c, d}
<1>1. a \in S /\ b \in S /\ c \in S /\ d \in S
  OBVIOUS
<1> HIDE DEF S
<1>2. <<a>> \in Seq(S) /\ <<b>> \in Seq(S) /\ <<c, d>> \in Seq(S)
  BY <1>1
<1>3. (<<a>> \o <<b>>) \o <<c, d>> = <<a>> \o (<<b>> \o <<c, d>>)
  BY <1>2, ConcatAssociative
<1>4. <<c>> \o <<d>> = <<c, d>> /\ <<b>> \o <<c, d>> = <<b, c, d>>
  BY Joined
<1>5. <<a>> \o <<b, c, d>> = <<a, b, c, d>>
  BY JoinedThree
<1> QED
  BY <1>3, <1>4, <1>5

-----------------------------------------------------------------------------
(* The newest index.                                                         *)

\* The newest index is one of the indexes of the dataset.
LEMMA LastIndexIs ==
  ASSUME TypeOK, NEW d \in Dataset, index[d] # {}
  PROVE  /\ LastIndex(d) \in index[d] /\ LastIndex(d).tree \in Trees
         /\ \A y \in index[d] : y.ts <= LastIndex(d).ts
         /\ \A y \in index[d] : y.ts \in 1..clock
<1>1. clock \in Nat /\ index[d] \subseteq [ts : 1..clock, tree : Trees]
  BY DEF TypeOK
<1>2. LastIndex(d) \in index[d] /\ LastIndex(d).tree \in Trees
  <2>1. clock \in Nat /\ index \in [Dataset -> Indexes]
    BY DEF TypeOK, Indexes
  <2> QED
    BY <2>1, LastIndexType
<1>3. \E x \in index[d] : \A y \in index[d] : y.ts <= x.ts
  <2>1. index[d] \in Indexes
    BY <1>1 DEF Indexes
  <2> QED
    BY <1>1, <2>1, LastOf, Zenon
<1>4. \A y \in index[d] : y.ts <= LastIndex(d).ts
  BY <1>3, Zenon DEF LastIndex
<1> QED
  BY <1>1, <1>2, <1>4

\* A dataset whose indexes stay keeps its newest one.
LEMMA LastKept ==
  ASSUME NEW d \in Dataset, index'[d] = index[d]
  PROVE  LastTree(d)' = LastTree(d) /\ LastIndex(d)' = LastIndex(d)
BY DEF LastTree, LastIndex

\* The index that was just written is the newest.
LEMMA LastWritten ==
  ASSUME TypeOK, NEW d \in Dataset,
         index'[d] = index[d] \cup {[ts |-> clock + 1, tree |-> tree[d]]}
  PROVE  LastTree(d)' = tree[d]
<1> DEFINE z == [ts |-> clock + 1, tree |-> tree[d]]
<1>1. clock \in Nat /\ \A y \in index[d] : y.ts \in 1..clock
  BY DEF TypeOK
<1>2. z.ts = clock + 1 /\ z.tree = tree[d] /\ index'[d] = index[d] \cup {z}
  OBVIOUS
<1> HIDE DEF z
<1>3. \A y \in index'[d] : y = z \/ y.ts < z.ts
  BY <1>1, <1>2
<1>4. z \in index'[d] /\ \A y \in index'[d] : y.ts <= z.ts
  BY <1>1, <1>2
<1>5. \A x \in index'[d] : (\A y \in index'[d] : y.ts <= x.ts) => x = z
  <2> SUFFICES ASSUME NEW x \in index'[d], \A y \in index'[d] : y.ts <= x.ts, x # z PROVE FALSE
    OBVIOUS
  <2>1. x \in index[d] /\ z.ts <= x.ts
    BY <1>2, <1>4
  <2> QED
    BY <1>1, <1>2, <2>1
<1>6. (CHOOSE x \in index'[d] : \A y \in index'[d] : y.ts <= x.ts) = z
  BY <1>4, <1>5, Zenon
<1>7. LastIndex(d)' = z
  BY <1>6 DEF LastIndex
<1> QED
  BY <1>2, <1>4, <1>7 DEF LastTree

\* To delete another index changes nothing.
LEMMA LastPruned ==
  ASSUME TypeOK, NEW d \in Dataset, OneIndexEach, index[d] # {}, NEW n, n # LastIndex(d).ts,
         index'[d] = {x \in index[d] : x.ts # n}
  PROVE  LastIndex(d)' = LastIndex(d) /\ LastTree(d)' = LastTree(d) /\ index'[d] # {}
<1> DEFINE z == LastIndex(d)
<1>1. /\ z \in index[d] /\ \A y \in index[d] : y.ts <= z.ts
      /\ \A y \in index[d] : y.ts \in 1..clock
  BY LastIndexIs
<1>2. clock \in Nat
  BY DEF TypeOK
<1> HIDE DEF z
<1>3. z \in index'[d] /\ index'[d] \subseteq index[d]
  BY <1>1 DEF z
<1>4. \A x \in index'[d] : (\A y \in index'[d] : y.ts <= x.ts) => x = z
  <2> SUFFICES ASSUME NEW x \in index'[d], \A y \in index'[d] : y.ts <= x.ts PROVE x = z
    OBVIOUS
  <2>1. x.ts <= z.ts /\ z.ts <= x.ts /\ x.ts \in Nat /\ z.ts \in Nat /\ x \in index[d]
    BY <1>1, <1>2, <1>3
  <2>2. x.ts = z.ts
    BY <2>1
  <2> QED
    BY <1>1, <2>1, <2>2 DEF OneIndexEach
<1>5. \A y \in index'[d] : y.ts <= z.ts
  BY <1>1, <1>3
<1>6. (CHOOSE x \in index'[d] : \A y \in index'[d] : y.ts <= x.ts) = z
  BY <1>3, <1>4, <1>5, Zenon
<1>7. LastIndex(d)' = z
  BY <1>6 DEF LastIndex
<1> QED
  BY <1>3, <1>7 DEF LastTree, z

\* What is pruned has two newer ones.
LEMMA PruneSpares ==
  ASSUME TypeOK, NEW d \in Dataset, index[d] # {}
  PROVE  \E old : Prune(d) = <<Prunes(d, old)>> /\ Spares(d, old)
<1> DEFINE z   == LastIndex(d)
           two == {x \in index[d] : Cardinality({y \in index[d] : y.ts > x.ts}) >= 2}
           old == {x.ts : x \in two}
<1>1. /\ z \in index[d] /\ \A y \in index[d] : y.ts <= z.ts
      /\ \A y \in index[d] : y.ts \in 1..clock
  BY LastIndexIs
<1>2. clock \in Nat
  BY DEF TypeOK
<1> HIDE DEF z
<1>3. ASSUME NEW x \in index[d], x.ts = z.ts
      PROVE  ~(Cardinality({y \in index[d] : y.ts > x.ts}) >= 2)
  <2>1. {y \in index[d] : y.ts > x.ts} = {}
    BY <1>1, <1>2, <1>3
  <2>2. Cardinality({y \in index[d] : y.ts > x.ts}) = 0
    BY <2>1, FS_EmptySet
  <2> QED
    BY <2>2
<1>4. \A x \in two : x \in index[d] /\ x.ts # z.ts
  BY <1>3
<1>5. Prune(d) = <<Prunes(d, old)>>
  BY DEF Prune, Prunes
<1> HIDE DEF two
<1>6. Spares(d, old)
  BY <1>1, <1>4 DEF Spares, z
<1> QED
  BY <1>5, <1>6

-----------------------------------------------------------------------------
(* Ids, folders and loads, when nothing is missing.                          *)

\* No node has the id of a phantom.
LEMMA NoPhantom ==
  ASSUME secret \in Seq(Secrets), Numbered, NEW t \in Trees, Named(t, secret), NEW x \in Nodes(t)
  PROVE  x \in Path /\ Last(x) \in File /\ Last(x) # Phantom
<1>1. PICK e \in t : x = e.at
  BY DEF Nodes
<1>2. e.file \in File /\ e.at \in Path
  BY DEF Trees
<1>3. Last(x) = secret[e.file].id
  BY <1>1 DEF Named
<1>4. File = 1..Len(secret) /\ Len(secret) \in Nat
  BY LenProperties DEF File
<1> QED
  BY <1>1, <1>2, <1>3, <1>4 DEF Numbered, Phantom

\* A path is its parent and its last name.
LEMMA FrontOf ==
  ASSUME NEW p \in Path
  PROVE  /\ Append(Front(p), Last(p)) = p
         /\ Front(p) \in Seq(Nat)
         /\ Front(p) # <<>> => Front(p) \in Path /\ Front(p) \in Ancestry(p)
<1> DEFINE n == Len(p)
           f == SubSeq(p, 1, n - 1)
<1>1. p \in Seq(Nat) /\ n \in Nat /\ n >= 1 /\ Last(p) \in Nat /\ Last(p) = p[n]
  BY PathOf, LastOfPath DEF Last
<1>2. \A j \in 1..(n - 1) : p[j] \in Nat
  <2>1. \A j \in 1..(n - 1) : j \in 1..n
    BY <1>1
  <2> QED
    BY <1>1, <2>1, ElementOfSeq
<1>3. f \in Seq(Nat) /\ Len(f) = n - 1 /\ \A j \in 1..(n - 1) : f[j] = p[j]
  <2>1. /\ f \in Seq(Nat)
        /\ Len(f) = IF 1 <= n - 1 THEN (n - 1) - 1 + 1 ELSE 0
        /\ \A j \in 1..((n - 1) - 1 + 1) : f[j] = p[1 + j - 1]
    <3>1. 1 \in Int /\ n - 1 \in Int
      BY <1>1
    <3> QED
      BY <1>1, <1>2, <3>1, SubSeqProperties
  <2>2. (n - 1) - 1 + 1 = n - 1 /\ (~(1 <= n - 1) => n - 1 = 0)
    <3>1. \A k \in Nat : k >= 1 => (k - 1) - 1 + 1 = k - 1 /\ (~(1 <= k - 1) => k - 1 = 0)
      OBVIOUS
    <3>2. n \in Nat /\ n >= 1
      BY <1>1
    <3> QED
      BY <3>1, <3>2, Zenon
  <2>3. \A j \in 1..(n - 1) : 1 + j - 1 = j
    OBVIOUS
  <2>4. \A j \in 1..(n - 1) : f[j] = p[j]
    BY <2>1, <2>2, <2>3
  <2> QED
    BY <2>1, <2>2, <2>4
<1>4. Front(p) = f
  BY DEF Front
<1> HIDE DEF f
<1>5. Append(f, Last(p)) = p
  <2> DEFINE g == Append(f, Last(p))
  <2>1. /\ g \in Seq(Nat) /\ Len(g) = n /\ g[n] = p[n]
        /\ \A j \in 1..(n - 1) : g[j] = f[j]
    <3>1. /\ g \in Seq(Nat) /\ Len(g) = Len(f) + 1
          /\ \A j \in 1..Len(f) : g[j] = f[j]
          /\ g[Len(f) + 1] = Last(p)
      BY <1>1, <1>3, AppendProperties
    <3>2. Len(f) + 1 = n
      BY <1>1, <1>3
    <3> QED
      BY <1>1, <1>3, <3>1, <3>2
  <2> HIDE DEF g
  <2>2. ASSUME NEW j \in 1..n PROVE g[j] = p[j]
    <3>1. j = n \/ j \in 1..(n - 1)
      BY <1>1
    <3> QED
      BY <1>3, <2>1, <3>1
  <2>3. g = p
    BY <1>1, <2>1, <2>2, SeqEqual DEF n
  <2> QED
    BY <2>3 DEF g
<1>6. ASSUME f # <<>> PROVE f \in Path /\ f \in Ancestry(p)
  <2>1. f \in Path
    BY <1>3, <1>6 DEF Path
  <2>2. Len(f) >= 1
    BY <2>1, PathOf
  <2>3. n - 1 \in 1..n
    BY <1>1, <1>3, <2>2
  <2> QED
    BY <2>1, <2>3 DEF Ancestry, f, n
<1> QED
  BY <1>3, <1>4, <1>5, <1>6

\* The parent of a node is found by its id.
LEMMA HolderIs ==
  ASSUME TypeOK, VersionsOfOneSecret, Numbered, Sound(tree),
         NEW d \in Dataset, NEW p \in Nodes(tree[d]), NEW h \in Holders(d, p)
  PROVE  h = Front(p) /\ Append(h, Last(p)) = p
<1>1. tree[d] \in Trees /\ Named(tree[d], secret) /\ secret \in Seq(Secrets)
  BY DEF TypeOK, VersionsOfOneSecret, OneSecret, Named
<1>2. p \in Path
  BY <1>1, NoPhantom
<1>3. h \in Nodes(tree[d]) \cup {<<>>} /\ Id(h) = Id(Front(p))
  BY DEF Holders
<1>4. Front(p) # <<>> => Front(p) \in Nodes(tree[d])
  BY <1>2, FrontOf DEF Sound, Closed
<1>5. \A x \in Nodes(tree[d]) : x # <<>> /\ Last(x) # Phantom
  BY <1>1, NoPhantom DEF Path
<1>6. h = Front(p)
  <2>1. CASE Front(p) = <<>>
    BY <1>3, <1>5, <2>1 DEF Id
  <2>2. CASE Front(p) # <<>>
    <3>1. h # <<>> /\ h \in Nodes(tree[d]) /\ Last(h) = Last(Front(p))
      BY <1>3, <1>4, <1>5, <2>2 DEF Id
    <3> QED
      BY <1>4, <2>2, <3>1 DEF Sound, OnePlace
  <2> QED
    BY <2>1, <2>2
<1> QED
  BY <1>2, <1>6, FrontOf

\* Without a ghost a path stays what it is.
LEMMA HauntedNothing ==
  ASSUME NEW p \in Path
  PROVE  Haunted(p, {}) = p
<1>1. p \in Seq(Nat)
  BY PathOf
<1>2. /\ Haunted(p, {}) \in Path
      /\ Len(Haunted(p, {})) = Len(p)
      /\ \A i \in 1..Len(p) : Haunted(p, {})[i] = p[i]
  BY HauntedPath
<1>3. Haunted(p, {}) \in Seq(Nat)
  BY <1>2, PathOf
<1> QED
  BY <1>1, <1>2, <1>3, SeqEqual

\* An index whose files are all there becomes the tree that was saved.
LEMMA LoadedWhole ==
  ASSUME secret \in Seq(Secrets), Numbered, NEW t \in Trees, Named(t, secret),
         Closed(Nodes(t)), NEW files, Files(t) \subseteq files, NEW u \in Loaded(t, files)
  PROVE  u = t
<1>1. \A e \in t : e.at \in Nodes(t) /\ e.file \in Files(t) /\ e = [at |-> e.at, file |-> e.file]
  BY DEF Nodes, Files, Trees
<1>2. Live(t, files) = t
  BY <1>1 DEF Live
<1>3. FoldersOf(t) \subseteq Nodes(t)
  <2>1. \A e \in t : Ancestry(e.at) \subseteq Nodes(t)
    BY <1>1 DEF Closed
  <2> QED
    BY <1>1, <2>1 DEF FoldersOf
<1>4. Gone(t, files) = {}
  BY <1>2, <1>3 DEF Gone
<1>5. {p \in FoldersOf(t) : Last(p) = Phantom} = {}
  BY <1>3, NoPhantom
<1>6. u = Restored(t, {}, {})
  <2>1. PICK stays \in Survivors({}), cut \in SUBSET {} :
            u = Restored(t, {}, cut \cup ({} \ stays))
    BY <1>2, <1>4, <1>5 DEF Loaded
  <2>2. cut \cup ({} \ stays) = {}
    OBVIOUS
  <2> QED
    BY <2>1, <2>2
<1>7. {x \in t : Ancestry(x.at) \cap {} = {}} = t
  OBVIOUS
<1>8. \A e \in t : [at |-> Haunted(e.at, {}), file |-> e.file] = e
  BY <1>1, HauntedNothing DEF Trees
<1>9. u = {[at |-> Haunted(e.at, {}), file |-> e.file] : e \in t}
  BY <1>6, <1>7, Zenon DEF Restored
<1> QED
  BY <1>8, <1>9

-----------------------------------------------------------------------------
(* Which part of the invariant holds when a step is taken.                   *)

\* What may be next while the program loads.
LEMMA LoadKinds ==
  ASSUME Loads
  PROVE  on /\ (todo = <<>> \/ (todo # <<>> /\ Head(todo).do \in {"load", "prune", "bury", "ready"}))
<1>1. /\ \A d : Load(d).do = "load" /\ Buries(d).do = "bury"
      /\ \A d, old : Prunes(d, old).do = "prune"
      /\ ReadyStep.do = "ready"
  BY DEF Load, Buries, Prunes, ReadyStep
<1> QED
  BY <1>1, Tuples DEF Loads

\* What may be next while a command runs.
LEMMA WorkKinds ==
  ASSUME Works
  PROVE  /\ on
         /\ \/ /\ todo # <<>>
               /\ \/ (\E d \in Dataset : SavesLast(d)) /\ Head(todo).do \in {"save", "write", "unmute"}
                  \/ Listed /\ Head(todo).do = "mv"
                  \/ Shifting /\ Head(todo).do = "shift"
                  \/ Destroying /\ Head(todo).do = "destroy"
            \/ Paused /\ todo = <<>>
<1>1. CASE \E d \in Dataset : SavesLast(d)
  <2>1. \A d : Saves(d).do = "save" /\ Writes(d).do = "write" /\ Opens(d).do = "unmute"
    BY DEF Saves, Writes, Opens
  <2>2. PICK d \in Dataset : SavesLast(d)
    BY <1>1
  <2>3. todo # <<>> /\ Head(todo).do \in {"save", "write", "unmute"}
    BY <2>1, <2>2, Tuples DEF SavesLast
  <2> QED
    BY <1>1, <2>3 DEF Works
<1>2. CASE Listed
  BY <1>2, Tuples DEF Listed, Mv, Works
<1>3. CASE Shifting
  <2>1. PICK moving, m, d : todo = <<Shifts(d, moving), m>>
    BY <1>3 DEF Shifting
  <2>2. Shifts(d, moving).do = "shift"
    BY DEF Shifts
  <2> QED
    BY <1>3, <2>1, <2>2, Tuples DEF Works
<1>4. CASE Destroying
  <2>1. PICK moving, m : todo = <<Destroys(moving), m>>
    BY <1>4 DEF Destroying
  <2>2. Destroys(moving).do = "destroy"
    BY DEF Destroys
  <2> QED
    BY <1>4, <2>1, <2>2, Tuples DEF Works
<1>5. CASE Paused
  BY <1>5 DEF Paused, Works
<1> QED
  BY <1>1, <1>2, <1>3, <1>4, <1>5 DEF Works

\* Which part of the invariant holds, by what is next: a recovery, for one, never is.
LEMMA Underway ==
  ASSUME SavedInv
  PROVE  /\ ~on => Off
         /\ Idle => Loads \/ (Works /\ Paused)
         /\ \A k \in {"load", "prune", "bury", "ready"} : Doing(k) => Loads
         /\ \A k \in {"save", "write", "unmute"} :
              Doing(k) => Works /\ \E d \in Dataset : SavesLast(d)
         /\ Doing("mv") => Works /\ Listed
         /\ Doing("shift") => Works /\ Shifting
         /\ Doing("destroy") => Works /\ Destroying
         /\ ~Doing("recover") /\ ~Doing("unlist") /\ ~Doing("gather")
<1>1. Off \/ Loads \/ Works
  BY DEF SavedInv
<1>2. CASE Off
  BY <1>2 DEF Off, Idle, Doing
<1>3. CASE Loads
  BY <1>3, LoadKinds DEF Idle, Doing
<1>4. CASE Works
  BY <1>4, WorkKinds DEF Idle, Doing
<1> QED
  BY <1>1, <1>2, <1>3, <1>4

\* Between two commands.
LEMMA AtRest ==
  ASSUME SavedInv, Idle
  PROVE  /\ Sound(tree) /\ Even("main") /\ Even("trash")
         /\ Settled("main") /\ Settled("trash")
         /\ muted = {} => Resting
<1>1. CASE Loads
  <2>1. Clean("main") /\ Clean("trash") /\ Resting
    BY <1>1, Tuples DEF Loads, Idle
  <2>2. Even("main") /\ Even("trash")
    BY <2>1, DatasetTwo DEF Clean, Even, Resting
  <2>3. Sound(tree)
    <3>1. \A d \in Dataset : tree[d] = LastTree(d)
      BY <2>1, DatasetTwo DEF Clean
    <3>2. \A d \in Dataset : Nodes(tree[d]) = Nodes([e \in Dataset |-> LastTree(e)][d])
      BY <3>1
    <3> QED
      BY <2>1, <3>2, SameNodes DEF Resting
  <2> QED
    BY <2>1, <2>2, <2>3 DEF Settled
<1>2. CASE Works /\ Paused
  <2>1. ASSUME muted = {} PROVE Resting
    <3>1. \A d \in Dataset : tree[d] = LastTree(d)
      BY <1>2, <2>1, DatasetTwo DEF Paused, Settled, Clean
    <3>2. \A d \in Dataset : Nodes([e \in Dataset |-> LastTree(e)][d]) = Nodes(tree[d])
      BY <3>1
    <3>3. Sound([e \in Dataset |-> LastTree(e)])
      BY <1>2, <3>2, SameNodes DEF Works
    <3> QED
      BY <1>2, <3>1, <3>3, DatasetTwo DEF Paused, Even, Resting
  <2> QED
    BY <1>2, <2>1 DEF Works, Paused
<1> QED
  BY <1>1, <1>2, Underway

\* The invariant says that everything is saved when no command runs.
LEMMA SavedThen ==
  ASSUME SavedInv
  PROVE  SavedWhenIdle
<1>1. ASSUME Idle, NEW d \in Dataset PROVE Files(tree[d]) = disk[d] /\ (d \in muted \/ Saved(d))
  BY <1>1, AtRest, DatasetTwo DEF Settled, Clean, Even, LastTree, Saved
<1> QED
  BY <1>1 DEF SavedWhenIdle

-----------------------------------------------------------------------------
(* What most steps leave alone.                                              *)

\* Steps that leave the disks and the newest indexes alone keep them in agreement.
LEMMA RestingKept ==
  ASSUME Resting, UNCHANGED disk, \A d \in Dataset : LastTree(d)' = LastTree(d)
  PROVE  Resting'
<1>1. [d \in Dataset |-> LastTree(d)]' = [d \in Dataset |-> LastTree(d)]
  OBVIOUS
<1>2. Sound([d \in Dataset |-> LastTree(d)])' = Sound([d \in Dataset |-> LastTree(d)])
  BY <1>1 DEF Sound, OnePlace
<1> QED
  BY <1>2 DEF Resting

\* A step that adds no secret and no index keeps the numbering.
LEMMA NothingAdded ==
  ASSUME SavedInv, UNCHANGED <<secret, doomed>>, \A d \in Dataset : index'[d] \subseteq index[d],
         Off' \/ Loads' \/ Works'
  PROVE  SavedInv'
<1>1. Numbered'
  BY DEF SavedInv, Numbered, File
<1>2. OneIndexEach'
  BY DEF SavedInv, OneIndexEach
<1> QED
  BY <1>1, <1>2 DEF SavedInv

\* A step that writes one file keeps the numbering.
LEMMA FileAdded ==
  ASSUME TypeOK, SavedInv, UNCHANGED <<doomed, index>>,
         NEW d \in Dataset, NEW id \in 1..(Len(secret) + 1), NEW type, NEW n, NEW c,
         Write(d, id, type, n, c), Works'
  PROVE  SavedInv'
<1>1. File = 1..Len(secret) /\ Len(secret) \in Nat
  BY LenProperties DEF TypeOK, File
<1>2. Extended /\ secret'[Len(secret) + 1].id = id
  BY OneWritten
<1>3. File' = 1..(Len(secret) + 1)
  <2>1. secret' = Append(secret, [id |-> id, type |-> type, name |-> n, content |-> c])
    BY DEF Write
  <2> DEFINE r == [id |-> id, type |-> type, name |-> n, content |-> c]
             S == Secrets \cup {r}
  <2>2. secret \in Seq(S) /\ r \in S
    BY DEF TypeOK
  <2> HIDE DEF r, S
  <2>3. Append(secret, r) \in Seq(S) /\ Len(Append(secret, r)) = Len(secret) + 1
    BY <2>2, AppendProperties
  <2>4. DOMAIN Append(secret, r) = 1..(Len(secret) + 1)
    BY <2>3, LenProperties
  <2> QED
    BY <2>1, <2>4 DEF r, File
<1>4. \A f \in File' : f \in File \/ f = Len(secret) + 1
  BY <1>1, <1>3
<1>5. Numbered'
  BY <1>1, <1>2, <1>3, <1>4 DEF SavedInv, Numbered, Extended
<1>6. OneIndexEach'
  BY DEF SavedInv, OneIndexEach
<1> QED
  BY <1>5, <1>6 DEF SavedInv

-----------------------------------------------------------------------------
(* The program is started and stopped.                                       *)

\* Starting and stopping the program keep the invariant.
LEMMA SessionSaved ==
  ASSUME Ordinary, SavedInv, Start \/ (Stop /\ muted = {})
  PROVE  SavedInv'
<1>1. ASSUME Start PROVE SavedInv'
  <2>1. Off /\ UNCHANGED <<disks, memory>> /\ on'
    BY <1>1, Underway DEF Start
  <2>2. todo' = <<Load("main"), Load("trash"), Buries("trash"), Buries("main"), ReadyStep>>
    BY <1>1 DEF Start, Load, Buries, ReadyStep
  <2>3. Resting'
    BY <2>1, RestingKept DEF Off, disks, LastTree, LastIndex
  <2>4. Loads'
    BY <2>1, <2>2, <2>3 DEF Loads, Off, memory
  <2> QED
    BY <2>1, <2>4, NothingAdded DEF disks, memory
<1>2. ASSUME Stop, muted = {} PROVE SavedInv'
  <2>1. Idle
    BY <1>2 DEF Stop, Ordinary, Idle
  <2>2. Resting'
    BY <1>2, <2>1, AtRest, RestingKept DEF Stop, disks, LastTree, LastIndex
  <2>3. Off'
    BY <1>2, <2>2, DatasetTwo DEF Off, Stop
  <2>4. Numbered' /\ OneIndexEach'
    BY <1>2 DEF Stop, disks, SavedInv, Numbered, OneIndexEach, File
  <2>5. doomed'["main"] = {} /\ doomed'["trash"] = {}
    BY <1>2, DatasetTwo DEF Stop
  <2> QED
    BY <2>3, <2>4, <2>5 DEF SavedInv
<1> QED
  BY <1>1, <1>2

-----------------------------------------------------------------------------
(* A load.                                                                   *)

AfterMain  == <<Load("trash"), Buries("trash"), Buries("main"), ReadyStep>>
AfterTrash == <<Buries("trash"), Buries("main"), ReadyStep>>

\* What the steps that are left consist of.
LEMMA StepFacts ==
  /\ \A d : Load(d).do = "load" /\ Load(d).ds = d /\ Buries(d).do = "bury" /\ Buries(d).ds = d
  /\ \A d, old : Prunes(d, old).do = "prune" /\ Prunes(d, old).ds = d /\ Prunes(d, old).old = old
  /\ ReadyStep.do = "ready"
  /\ \A d : Saves(d).do = "save" /\ Saves(d).ds = d /\ Writes(d).do = "write" /\ Writes(d).ds = d
  /\ \A d : Opens(d).do = "unmute" /\ Opens(d).ds = d
  /\ \A d, m : Shifts(d, m).do = "shift" /\ Shifts(d, m).from = d /\ Shifts(d, m).moving = m
  /\ \A m : Destroys(m).do = "destroy" /\ Destroys(m).moving = m
BY DEF Load, Buries, Prunes, ReadyStep, Saves, Writes, Opens, Shifts, Destroys

\* Where a load is, by its next step.
LEMMA LoadAt ==
  ASSUME Loads, todo # <<>>
  PROVE  /\ Head(todo).do = "load" =>
              \/ /\ Head(todo).ds = "main" /\ Rest = AfterMain
                 /\ tree["main"] = {} /\ tree["trash"] = {}
              \/ /\ Head(todo).ds = "trash" /\ Rest = AfterTrash
                 /\ Clean("main") /\ tree["trash"] = {}
         /\ Head(todo).do = "prune" =>
              \E old : \/ /\ Head(todo) = Prunes("main", old) /\ Spares("main", old)
                          /\ Rest = AfterMain /\ Clean("main") /\ tree["trash"] = {}
                       \/ /\ Head(todo) = Prunes("trash", old) /\ Spares("trash", old)
                          /\ Rest = AfterTrash /\ Clean("main") /\ Clean("trash")
         /\ Head(todo).do \in {"bury", "ready"} =>
              /\ Clean("main") /\ Clean("trash")
              /\ Rest \in {<<Buries("main"), ReadyStep>>, <<ReadyStep>>, <<>>}
<1>2. CASE /\ todo = <<Load("main"), Load("trash"), Buries("trash"), Buries("main"), ReadyStep>>
           /\ tree["main"] = {} /\ tree["trash"] = {}
  <2>1. Head(todo) = Load("main") /\ Rest = AfterMain
    BY <1>2, Tuples DEF AfterMain, Rest
  <2> QED
    BY <1>2, <2>1, StepFacts
<1>3. CASE todo = AfterMain /\ Clean("main") /\ tree["trash"] = {}
  <2>1. Head(todo) = Load("trash") /\ Rest = AfterTrash
    BY <1>3, Tuples DEF AfterMain, AfterTrash, Rest
  <2> QED
    BY <1>3, <2>1, StepFacts
<1>4. ASSUME NEW old,
             todo = <<Prunes("main", old), Load("trash"), Buries("trash"), Buries("main"), ReadyStep>>,
             Spares("main", old), Clean("main"), tree["trash"] = {}
      PROVE  /\ Head(todo) = Prunes("main", old) /\ Rest = AfterMain
             /\ Head(todo).do = "prune"
  BY <1>4, StepFacts, Tuples DEF AfterMain, Rest
<1>5. ASSUME NEW old,
             todo = <<Prunes("trash", old), Buries("trash"), Buries("main"), ReadyStep>>,
             Spares("trash", old), Clean("main"), Clean("trash")
      PROVE  /\ Head(todo) = Prunes("trash", old) /\ Rest = AfterTrash
             /\ Head(todo).do = "prune"
  BY <1>5, StepFacts, Tuples DEF AfterTrash, Rest
<1>6. CASE /\ todo \in {AfterTrash, <<Buries("main"), ReadyStep>>, <<ReadyStep>>}
           /\ Clean("main") /\ Clean("trash")
  <2>1. /\ Head(todo) \in {Buries("trash"), Buries("main"), ReadyStep}
        /\ Rest \in {<<Buries("main"), ReadyStep>>, <<ReadyStep>>, <<>>}
    <3>1. CASE todo = AfterTrash
      BY <3>1, Tuples DEF AfterTrash, Rest
    <3>2. CASE todo = <<Buries("main"), ReadyStep>>
      BY <3>2, Tuples DEF Rest
    <3>3. CASE todo = <<ReadyStep>>
      BY <3>3, Tuples DEF Rest
    <3> QED
      BY <1>6, <3>1, <3>2, <3>3
  <2>2. Head(todo).do \in {"bury", "ready"}
    BY <2>1, StepFacts
  <2> QED
    BY <1>6, <2>1, <2>2
<1>7. \/ /\ todo = <<Load("main"), Load("trash"), Buries("trash"), Buries("main"), ReadyStep>>
         /\ tree["main"] = {} /\ tree["trash"] = {}
      \/ todo = AfterMain /\ Clean("main") /\ tree["trash"] = {}
      \/ \E old :
           /\ todo = <<Prunes("main", old), Load("trash"), Buries("trash"), Buries("main"), ReadyStep>>
           /\ Spares("main", old) /\ Clean("main") /\ tree["trash"] = {}
      \/ \E old : /\ todo = <<Prunes("trash", old), Buries("trash"), Buries("main"), ReadyStep>>
                  /\ Spares("trash", old) /\ Clean("main") /\ Clean("trash")
      \/ /\ todo \in {AfterTrash, <<Buries("main"), ReadyStep>>, <<ReadyStep>>}
         /\ Clean("main") /\ Clean("trash")
  BY DEF Loads, AfterMain, AfterTrash
<1>8. CASE \E old :
           /\ todo = <<Prunes("main", old), Load("trash"), Buries("trash"), Buries("main"), ReadyStep>>
           /\ Spares("main", old) /\ Clean("main") /\ tree["trash"] = {}
  BY <1>4, <1>8
<1>9. CASE \E old : /\ todo = <<Prunes("trash", old), Buries("trash"), Buries("main"), ReadyStep>>
                  /\ Spares("trash", old) /\ Clean("main") /\ Clean("trash")
  BY <1>5, <1>9
<1> QED
  BY <1>2, <1>3, <1>6, <1>7, <1>8, <1>9

\* A load reads the tree that was saved, and has at most old indexes to delete.
LEMMA LoadReads ==
  ASSUME TypeOK, VersionsOfOneSecret, Numbered, Resting, NEW d \in Dataset, tree[d] = {},
         LoadEmpty(d) \/ LoadWithoutIndex(d) \/ LoadIndex(d)
  PROVE  /\ tree'[d] = LastTree(d) /\ tree'[Other(d)] = tree[Other(d)]
         /\ UNCHANGED <<disks, on, mine, muted, doomed>>
         /\ \/ todo' = Rest
            \/ \E old : todo' = <<Prunes(d, old)>> \o Rest /\ Spares(d, old)
<1>1. Files(LastTree(d)) = disk[d] /\ Closed(Nodes(LastTree(d)))
  BY DEF Resting, Sound
<1>2. Other(d) # d
  BY DEF Other, Dataset
<1>3. CASE LoadEmpty(d)
  <2>1. LastTree(d) = {}
    BY <1>1, <1>3 DEF LoadEmpty, Files
  <2> QED
    BY <1>3, <2>1 DEF LoadEmpty, memory
<1>4. CASE LoadWithoutIndex(d)
  <2>1. Files({}) = {}
    BY DEF Files
  <2> QED
    BY <1>1, <1>4, <2>1 DEF LoadWithoutIndex, LastTree
<1>5. CASE LoadIndex(d)
  <2>1. index[d] # {} /\ LastTree(d) = LastIndex(d).tree
    BY <1>5 DEF LoadIndex, LastTree
  <2>2. LastTree(d) \in Trees /\ Named(LastTree(d), secret)
    BY <2>1, LastIndexIs DEF VersionsOfOneSecret, OneSecret, Named
  <2>3. PICK t \in Loaded(LastTree(d), disk[d]) :
          /\ tree' = [tree EXCEPT ![d] = t]
          /\ \/ todo' = Prune(d) \o Rest
             \/ ~(disk[d] \subseteq Files(t))
    BY <1>5, <2>1 DEF LoadIndex
  <2>4. t = LastTree(d)
    BY <1>1, <2>2, LoadedWhole DEF TypeOK
  <2>5. todo' = Prune(d) \o Rest
    BY <1>1, <2>3, <2>4
  <2>6. tree'[d] = LastTree(d) /\ tree'[Other(d)] = tree[Other(d)]
    BY <1>2, <2>3, <2>4 DEF TypeOK, Other, Dataset
  <2> QED
    BY <1>5, <2>1, <2>5, <2>6, PruneSpares DEF LoadIndex
<1> QED
  BY <1>3, <1>4, <1>5

\* Loading a dataset: the tree is the newest index, and there is nothing to recover.
LEMMA LoadSaved ==
  ASSUME TypeOK, VersionsOfOneSecret, SavedInv, NEW d \in Dataset,
         LoadEmpty(d) \/ LoadWithoutIndex(d) \/ LoadIndex(d)
  PROVE  SavedInv'
<1>1. Doing("load") /\ Head(todo).ds = d
  BY DEF LoadEmpty, LoadWithoutIndex, LoadIndex
<1>2. Loads /\ todo # <<>> /\ Numbered
  BY <1>1, Underway DEF Doing, SavedInv
<1>3. \/ d = "main" /\ Rest = AfterMain /\ tree["main"] = {} /\ tree["trash"] = {}
      \/ d = "trash" /\ Rest = AfterTrash /\ Clean("main") /\ tree["trash"] = {}
  BY <1>1, <1>2, LoadAt DEF Doing
<1>4. /\ tree'[d] = LastTree(d) /\ tree'[Other(d)] = tree[Other(d)]
      /\ UNCHANGED <<disks, on, mine, muted, doomed>>
      /\ \/ todo' = Rest
         \/ \E old : todo' = <<Prunes(d, old)>> \o Rest /\ Spares(d, old)
  BY <1>2, <1>3, LoadReads DEF Loads
<1>5. Resting'
  BY <1>2, <1>4, RestingKept DEF Loads, disks, LastTree, LastIndex
<1>6. LastTree(d)' = LastTree(d) /\ LastTree(Other(d))' = LastTree(Other(d))
  BY <1>4 DEF disks, LastTree, LastIndex
<1>7. \A old : Spares(d, old) => Spares(d, old)'
  BY <1>4 DEF disks, Spares, LastIndex
<1>8. on' /\ muted' = {}
  BY <1>2, <1>4 DEF Loads
<1>9. CASE d = "main"
  <2>1. Clean("main")' /\ tree'["trash"] = {}
    BY <1>3, <1>4, <1>6, <1>9 DEF Clean, Other
  <2>2. ASSUME todo' = Rest PROVE Loads'
    <3>1. todo' = <<Load("trash"), Buries("trash"), Buries("main"), ReadyStep>>
      BY <1>3, <1>9, <2>2 DEF AfterMain
    <3> QED
      BY <1>5, <1>8, <2>1, <3>1 DEF Loads
  <2>3. ASSUME NEW old, todo' = <<Prunes(d, old)>> \o Rest, Spares(d, old) PROVE Loads'
    <3>1. todo' = <<Prunes("main", old), Load("trash"), Buries("trash"), Buries("main"), ReadyStep>>
      <4>1. todo' = <<Prunes("main", old)>> \o AfterMain
        BY <1>3, <1>9, <2>3
      <4> QED
        BY <4>1, JoinedFour, Zenon DEF AfterMain
    <3>2. Spares("main", old)'
      BY <1>7, <1>9, <2>3
    <3> QED
      BY <1>2, <1>4, <1>5, <2>1, <3>1, <3>2 DEF Loads
  <2> QED
    BY <1>4, <2>2, <2>3, NothingAdded DEF disks
<1>10. CASE d = "trash"
  <2>1. Clean("main")' /\ Clean("trash")'
    BY <1>3, <1>4, <1>6, <1>10 DEF Clean, Other
  <2>2. ASSUME todo' = Rest PROVE Loads'
    <3>1. todo' = <<Buries("trash"), Buries("main"), ReadyStep>>
      BY <1>3, <1>10, <2>2 DEF AfterTrash
    <3> QED
      BY <1>5, <1>8, <2>1, <3>1 DEF Loads
  <2>3. ASSUME NEW old, todo' = <<Prunes(d, old)>> \o Rest, Spares(d, old) PROVE Loads'
    <3>1. todo' = <<Prunes("trash", old), Buries("trash"), Buries("main"), ReadyStep>>
      <4>1. todo' = <<Prunes("trash", old)>> \o AfterTrash
        BY <1>3, <1>10, <2>3
      <4> QED
        BY <4>1, JoinedThree, Zenon DEF AfterTrash
    <3>2. Spares("trash", old)'
      BY <1>7, <1>10, <2>3
    <3> QED
      BY <1>2, <1>4, <1>5, <2>1, <3>1, <3>2 DEF Loads
  <2> QED
    BY <1>4, <2>2, <2>3, NothingAdded DEF disks
<1> QED
  BY <1>3, <1>9, <1>10

\* The newest index stays, and with it what a load reads.
LEMMA PruneSaved ==
  ASSUME TypeOK, SavedInv, PruneIndex
  PROVE  SavedInv'
<1>1. Loads /\ todo # <<>> /\ Head(todo).do = "prune"
  BY Underway DEF PruneIndex, Doing
<1>2. PICK d, old :
        /\ d \in Dataset
        /\ Head(todo) = Prunes(d, old) /\ Spares(d, old) /\ Clean("main")
        /\ \/ d = "main" /\ Rest = AfterMain /\ tree["trash"] = {}
           \/ d = "trash" /\ Rest = AfterTrash /\ Clean("trash")
  BY <1>1, LoadAt, DatasetTwo
<1>3. Head(todo).ds = d /\ Head(todo).old = old
  BY <1>2, StepFacts
<1>4. /\ on' /\ muted' = {} /\ UNCHANGED <<disk, tree, secret, doomed>>
  BY <1>1 DEF Loads, PruneIndex, memory
<1>5. /\ \A e \in Dataset : LastTree(e)' = LastTree(e) /\ index'[e] \subseteq index[e]
      /\ \/ todo' = Rest
         \/ \E new : todo' = <<Prunes(d, new)>> \o Rest /\ Spares(d, new)'
  <2>1. CASE old = {}
    <3>1. UNCHANGED index /\ todo' = Rest
      BY <1>3, <2>1 DEF PruneIndex
    <3> QED
      BY <3>1 DEF LastTree, LastIndex
  <2>2. CASE old # {}
    <3> DEFINE n == Newest(old)
    <3>1. n \in old
      <4>1. clock \in Nat /\ old \in SUBSET (0..clock)
        BY <1>2 DEF TypeOK, Spares
      <4> QED
        BY <2>2, <4>1, NewestIn
    <3>2. /\ index' = [index EXCEPT ![d] = {x \in @ : x.ts # n}]
          /\ todo'  = <<[Head(todo) EXCEPT !.old = @ \ {n}]>> \o Rest
      BY <1>3, <2>2 DEF PruneIndex
    <3> HIDE DEF n
    <3>3. n # LastIndex(d).ts /\ index[d] # {} /\ OneIndexEach
      BY <1>2, <3>1 DEF Spares, SavedInv
    <3>4. index'[d] = {x \in index[d] : x.ts # n} /\ \A e \in Dataset \ {d} : index'[e] = index[e]
      BY <1>2, <3>2 DEF TypeOK
    <3>5. LastIndex(d)' = LastIndex(d) /\ LastTree(d)' = LastTree(d) /\ index'[d] # {}
      BY <1>2, <3>3, <3>4, LastPruned
    <3>6. [Head(todo) EXCEPT !.old = @ \ {n}] = Prunes(d, old \ {n})
      BY <1>2 DEF Prunes
    <3>7. Spares(d, old \ {n})'
      BY <1>2, <3>5 DEF Spares, PruneIndex
    <3>8. \A e \in Dataset : LastTree(e)' = LastTree(e) /\ index'[e] \subseteq index[e]
      BY <3>4, <3>5, LastKept
    <3> QED
      BY <3>2, <3>6, <3>7, <3>8
  <2> QED
    BY <2>1, <2>2
<1>6. Resting'
  BY <1>1, <1>4, <1>5, RestingKept DEF Loads
<1>7. Clean("main")' /\ (Clean("trash") => Clean("trash")') /\ tree' = tree
  BY <1>2, <1>4, <1>5, DatasetTwo DEF Clean
<1>8. ASSUME d = "main", Rest = AfterMain, tree["trash"] = {} PROVE Loads'
  <2>1. Clean("main")' /\ tree'["trash"] = {}
    BY <1>7, <1>8
  <2>2. CASE todo' = Rest
    <3>1. todo' = <<Load("trash"), Buries("trash"), Buries("main"), ReadyStep>>
      BY <1>8, <2>2 DEF AfterMain
    <3> QED
      BY <1>4, <1>6, <2>1, <3>1 DEF Loads
  <2>3. ASSUME NEW new, todo' = <<Prunes(d, new)>> \o Rest, Spares(d, new)' PROVE Loads'
    <3>1. todo' = <<Prunes("main", new), Load("trash"), Buries("trash"), Buries("main"), ReadyStep>>
      <4>1. todo' = <<Prunes("main", new)>> \o AfterMain
        BY <1>8, <2>3
      <4> QED
        BY <4>1, JoinedFour, Zenon DEF AfterMain
    <3>2. Spares("main", new)'
      BY <1>8, <2>3
    <3> QED
      BY <1>4, <1>6, <2>1, <3>1, <3>2 DEF Loads
  <2> QED
    BY <1>5, <2>2, <2>3
<1>9. ASSUME d = "trash", Rest = AfterTrash, Clean("trash") PROVE Loads'
  <2>1. Clean("main")' /\ Clean("trash")'
    BY <1>7, <1>9
  <2>2. CASE todo' = Rest
    <3>1. todo' = <<Buries("trash"), Buries("main"), ReadyStep>>
      BY <1>9, <2>2 DEF AfterTrash
    <3> QED
      BY <1>4, <1>6, <2>1, <3>1 DEF Loads
  <2>3. ASSUME NEW new, todo' = <<Prunes(d, new)>> \o Rest, Spares(d, new)' PROVE Loads'
    <3>1. todo' = <<Prunes("trash", new), Buries("trash"), Buries("main"), ReadyStep>>
      <4>1. todo' = <<Prunes("trash", new)>> \o AfterTrash
        BY <1>9, <2>3
      <4> QED
        BY <4>1, JoinedThree, Zenon DEF AfterTrash
    <3>2. Spares("trash", new)'
      BY <1>9, <2>3
    <3> QED
      BY <1>4, <1>6, <2>1, <3>1, <3>2 DEF Loads
  <2> QED
    BY <1>5, <2>2, <2>3
<1>10. Loads'
  BY <1>2, <1>8, <1>9
<1> QED
  BY <1>4, <1>5, <1>10, NothingAdded

\* Nothing is doomed, so nothing is buried.
LEMMA BurySaved ==
  ASSUME SavedInv, BuryStep \/ Ready
  PROVE  SavedInv'
<1>1. Loads /\ todo # <<>> /\ Head(todo).do \in {"bury", "ready"}
  BY Underway DEF BuryStep, Ready, Doing
<1>2. UNCHANGED <<disks, on, memory>> /\ todo' = Rest
  <2>1. ASSUME NEW f, Bury(f), Doing("bury") PROVE FALSE
    <3>1. f \in doomed[Head(todo).ds]
      BY <2>1 DEF Bury
    <3>2. todo = <<Buries("trash"), Buries("main"), ReadyStep>> \/ todo = <<Buries("main"), ReadyStep>>
          \/ Head(todo).do # "bury"
      BY <1>1, StepFacts, Tuples DEF Loads
    <3>3. Head(todo).ds \in {"main", "trash"}
      BY <2>1, <3>2, StepFacts, Tuples DEF Doing
    <3> QED
      BY <3>1, <3>3 DEF SavedInv
  <2>2. CASE BuryStep
    BY <2>1, <2>2 DEF BuryStep, NothingToBury
  <2> QED
    BY <2>2 DEF Ready
<1>3. /\ Clean("main") /\ Clean("trash")
      /\ Rest \in {<<Buries("main"), ReadyStep>>, <<ReadyStep>>, <<>>}
  BY <1>1, LoadAt
<1>4. Clean("main")' /\ Clean("trash")' /\ on' /\ muted' = {}
  BY <1>1, <1>2, <1>3 DEF Loads, Clean, LastTree, LastIndex, disks, memory
<1>5. Resting'
  BY <1>1, <1>2, RestingKept DEF Loads, disks, LastTree, LastIndex
<1>6. todo' \in {<<Buries("main"), ReadyStep>>, <<ReadyStep>>, <<>>}
  BY <1>2, <1>3
<1>7. Loads'
  BY <1>4, <1>5, <1>6 DEF Loads
<1> QED
  BY <1>2, <1>7, NothingAdded DEF disks, memory

-----------------------------------------------------------------------------
(* A save, and the end of a move.                                            *)

\* Where the saves at the end of a command are, by their next step.
LEMMA SaveAt ==
  ASSUME NEW d \in Dataset, SavesLast(d)
  PROVE  /\ Head(todo).do = "save" =>
              \/ Head(todo) = Saves(d) /\ Rest = <<>> /\ Settled(Other(d))
              \/ Head(todo) = Saves(Other(d)) /\ Rest = <<Opens(d), Saves(d)>>
         /\ Head(todo).do = "write" =>
              \/ Head(todo) = Writes(d) /\ Rest = <<>> /\ Settled(Other(d))
              \/ Head(todo) = Writes(Other(d)) /\ Rest = <<Opens(d), Saves(d)>>
         /\ Head(todo).do = "unmute" =>
              \/ Head(todo) = Opens(d) /\ Rest = <<Saves(d)>> /\ Settled(Other(d))
              \/ Head(todo) = Opens(Other(d)) /\ Rest = <<Saves(Other(d)), Opens(d), Saves(d)>>
<1>1. CASE todo = <<Saves(d)>> /\ Settled(Other(d))
  BY <1>1, StepFacts, Tuples DEF Rest
<1>2. CASE todo = <<Writes(d)>> /\ Settled(Other(d))
  BY <1>2, StepFacts, Tuples DEF Rest
<1>3. CASE todo = <<Opens(d), Saves(d)>> /\ Settled(Other(d))
  BY <1>3, StepFacts, Tuples DEF Rest
<1>4. CASE todo = <<Saves(Other(d)), Opens(d), Saves(d)>>
  BY <1>4, StepFacts, Tuples DEF Rest
<1>5. CASE todo = <<Writes(Other(d)), Opens(d), Saves(d)>>
  BY <1>5, StepFacts, Tuples DEF Rest
<1>6. CASE todo = <<Opens(Other(d)), Saves(Other(d)), Opens(d), Saves(d)>>
  BY <1>6, StepFacts, Tuples DEF Rest
<1> QED
  BY <1>1, <1>2, <1>3, <1>4, <1>5, <1>6 DEF SavesLast

\* Where the trees and the folders stay, they agree as they did.
LEMMA EvenKept ==
  ASSUME UNCHANGED <<tree, disk>>
  PROVE  /\ Even("main")' = Even("main") /\ Even("trash")' = Even("trash")
         /\ Sound(tree)' = Sound(tree)
BY DEF Even, Sound, OnePlace

\* What is settled stays so while its tree and its newest index stay.
LEMMA SettledKept ==
  ASSUME NEW e, tree'[e] = tree[e], LastTree(e)' = LastTree(e), muted \subseteq muted', Settled(e)
  PROVE  Settled(e)'
BY DEF Settled, Clean

\* Where the indexes stay the newest ones stay.
LEMMA LastStays ==
  ASSUME UNCHANGED index
  PROVE  \A e : LastTree(e)' = LastTree(e)
BY DEF LastTree, LastIndex

\* The save of a dataset that is muted is skipped, and the dataset stays muted.
LEMMA UnsavedSaved ==
  ASSUME SavedInv, Unsaved
  PROVE  SavedInv'
<1>1. Doing("save") /\ Works
  BY Underway DEF Unsaved
<1>2. PICK d \in Dataset : SavesLast(d)
  BY <1>1, Underway
<1>3. Other(d) # d /\ Other(d) \in Dataset /\ Dataset = {d, Other(d)}
  BY DEF Other, Dataset
<1>4. /\ UNCHANGED <<disks, on, tree, muted, doomed>>
      /\ Head(todo).ds \in muted /\ todo' = Rest
  BY DEF Unsaved
<1>5. Even("main")' /\ Even("trash")' /\ Sound(tree)' /\ on'
  BY <1>1, <1>2, <1>4, EvenKept DEF Works, SavesLast, disks
<1>6. \A e : LastTree(e)' = LastTree(e)
  BY <1>4, LastStays DEF disks
<1>7. ASSUME Head(todo) = Saves(d), Rest = <<>>, Settled(Other(d)) PROVE Works'
  <2>1. Settled(d)'
    BY <1>4, <1>7, StepFacts DEF Settled
  <2>2. Settled(Other(d))'
    BY <1>4, <1>6, <1>7, SettledKept
  <2>3. \A e \in Dataset : Settled(e)'
    BY <1>3, <2>1, <2>2
  <2>4. Paused'
    BY <1>4, <1>5, <1>7, <2>3, DatasetTwo DEF Paused
  <2> QED
    BY <1>5, <2>4 DEF Works
<1>8. ASSUME Head(todo) = Saves(Other(d)), Rest = <<Opens(d), Saves(d)>> PROVE Works'
  <2>1. Settled(Other(d))'
    BY <1>4, <1>8, StepFacts DEF Settled
  <2>2. SavesLast(d)'
    BY <1>4, <1>5, <1>8, <2>1 DEF SavesLast
  <2> QED
    BY <1>5, <2>2 DEF Works
<1>9. Works'
  BY <1>1, <1>2, <1>7, <1>8, SaveAt DEF Doing
<1> QED
  BY <1>4, <1>9, NothingAdded DEF disks

\* The save's unlinking finds nothing doomed.
LEMMA UnlinkSaved ==
  ASSUME TypeOK, SavedInv, UnlinkIndex
  PROVE  SavedInv'
<1>1. Doing("save") /\ Works
  BY Underway DEF UnlinkIndex
<1>2. PICK d \in Dataset : SavesLast(d)
  BY <1>1, Underway
<1> DEFINE s == Head(todo)
<1>3. Other(d) # d /\ Other(d) \in Dataset
  BY DEF Other, Dataset
<1>4. \/ s = Saves(d) /\ Rest = <<>> /\ Settled(Other(d))
      \/ s = Saves(Other(d)) /\ Rest = <<Opens(d), Saves(d)>>
  BY <1>1, <1>2, SaveAt DEF Doing
<1>5. /\ UNCHANGED <<secret, disk, on, tree, muted, doomed>>
      /\ todo' = <<[s EXCEPT !.do = "write"]>> \o Rest
      /\ index' = [index EXCEPT ![s.ds] = {x \in @ : x.ts # mine[s.ds]}]
  BY DEF UnlinkIndex
<1>6. s.ds \in Dataset
  BY <1>3, <1>4, StepFacts
<1> HIDE DEF s
<1>7. /\ \A e \in Dataset : index'[e] \subseteq index[e]
      /\ \A e \in Dataset \ {s.ds} : index'[e] = index[e]
  BY <1>5, <1>6 DEF TypeOK
<1>8. \A e \in Dataset : [Saves(e) EXCEPT !.do = "write"] = Writes(e)
  BY DEF Saves, Writes
<1>9. Even("main")' /\ Even("trash")' /\ Sound(tree)' /\ on'
  BY <1>1, <1>2, <1>5, EvenKept DEF SavesLast, Works
<1>10. ASSUME s = Saves(d), Rest = <<>>, Settled(Other(d)) PROVE Works'
  <2>1. todo' = <<Writes(d)>>
    BY <1>5, <1>8, <1>10, Joined
  <2>2. Settled(Other(d))'
    <3>1. Other(d) \in Dataset \ {s.ds}
      BY <1>3, <1>10, StepFacts
    <3>2. LastTree(Other(d))' = LastTree(Other(d))
      BY <1>7, <3>1, LastKept
    <3> QED
      BY <1>5, <1>10, <3>2, SettledKept
  <2>3. SavesLast(d)'
    BY <1>5, <1>9, <1>10, <2>1, <2>2 DEF SavesLast
  <2> QED
    BY <1>9, <2>3 DEF Works
<1>11. ASSUME s = Saves(Other(d)), Rest = <<Opens(d), Saves(d)>> PROVE Works'
  <2>1. todo' = <<Writes(Other(d)), Opens(d), Saves(d)>>
    <3>1. todo' = <<Writes(Other(d))>> \o <<Opens(d), Saves(d)>>
      BY <1>3, <1>5, <1>8, <1>11
    <3> QED
      BY <3>1, Joined
  <2>2. SavesLast(d)'
    BY <1>5, <1>9, <1>11, <2>1 DEF SavesLast
  <2> QED
    BY <1>9, <2>2 DEF Works
<1>12. Works'
  BY <1>4, <1>10, <1>11
<1> QED
  BY <1>5, <1>7, <1>12, NothingAdded

\* Writing an index makes the dataset clean; that of the last save makes the disks agree.
LEMMA WriteSaved ==
  ASSUME TypeOK, SavedInv, WriteIndex
  PROVE  SavedInv'
<1>1. Doing("write") /\ Works
  BY Underway DEF WriteIndex
<1>2. PICK d \in Dataset : SavesLast(d)
  BY <1>1, Underway
<1> DEFINE s == Head(todo)
<1>3. Other(d) # d /\ Other(d) \in Dataset /\ Dataset = {d, Other(d)}
  BY DEF Other, Dataset
<1>4. \/ s = Writes(d) /\ Rest = <<>> /\ Settled(Other(d))
      \/ s = Writes(Other(d)) /\ Rest = <<Opens(d), Saves(d)>>
  BY <1>1, <1>2, SaveAt DEF Doing
<1>5. /\ UNCHANGED <<secret, disk, on, tree, muted, doomed>>
      /\ todo' = Rest
      /\ index' = [index EXCEPT ![s.ds] = @ \cup {[ts |-> clock + 1, tree |-> tree[s.ds]]}]
  BY DEF WriteIndex
<1>6. PICK c \in Dataset : s.ds = c
  BY <1>3, <1>4, StepFacts
<1> HIDE DEF s
<1>7. /\ index'[c] = index[c] \cup {[ts |-> clock + 1, tree |-> tree[c]]}
      /\ \A e \in Dataset \ {c} : index'[e] = index[e]
  BY <1>5, <1>6 DEF TypeOK
<1>8. LastTree(c)' = tree[c] /\ \A e \in Dataset \ {c} : LastTree(e)' = LastTree(e)
  <2>1. LastTree(c)' = tree[c]
    BY <1>6, <1>7, LastWritten
  <2>2. \A e \in Dataset \ {c} : LastTree(e)' = LastTree(e)
    BY <1>7, LastKept
  <2> QED
    BY <2>1, <2>2
<1>9. Even("main") /\ Even("trash") /\ Sound(tree) /\ on' /\ Even("main")' /\ Even("trash")' /\ Sound(tree)'
  BY <1>1, <1>2, <1>5, EvenKept DEF SavesLast, Works
<1>10. Numbered' /\ OneIndexEach' /\ doomed'["main"] = {} /\ doomed'["trash"] = {}
  <2>1. Numbered' /\ doomed'["main"] = {} /\ doomed'["trash"] = {}
    BY <1>5 DEF SavedInv, Numbered, File
  <2>2. clock \in Nat /\ \A e \in Dataset : \A x \in index[e] : x.ts \in 1..clock
    BY DEF TypeOK
  <2> DEFINE z == [ts |-> clock + 1, tree |-> tree[c]]
  <2>3. z.ts = clock + 1 /\ index'[c] = index[c] \cup {z}
    BY <1>7
  <2> HIDE DEF z
  <2>4. ASSUME NEW e \in Dataset, NEW x \in index'[e], NEW y \in index'[e], x.ts = y.ts
        PROVE  x = y
    <3>1. CASE e = c
      <4>1. \A w \in index[e] : w.ts # z.ts
        BY <2>2, <2>3
      <4>2. x \in index[e] \/ x = z
        BY <2>3, <3>1
      <4>3. y \in index[e] \/ y = z
        BY <2>3, <3>1
      <4> QED
        BY <2>4, <4>1, <4>2, <4>3 DEF SavedInv, OneIndexEach
    <3>2. CASE e # c
      BY <1>7, <2>4, <3>2 DEF SavedInv, OneIndexEach
    <3> QED
      BY <3>1, <3>2
  <2> QED
    BY <2>1, <2>4 DEF OneIndexEach
<1>11. ASSUME s = Writes(d), Rest = <<>>, Settled(Other(d)) PROVE Works'
  <2>1. c = d
    BY <1>6, <1>11, StepFacts
  <2>2. Settled(d)'
    BY <1>5, <1>8, <2>1 DEF Settled, Clean
  <2>3. Settled(Other(d))'
    <3>1. LastTree(Other(d))' = LastTree(Other(d))
      BY <1>3, <1>8, <2>1
    <3> QED
      BY <1>5, <1>11, <3>1, SettledKept
  <2>4. \A e \in Dataset : Settled(e)'
    BY <1>3, <2>2, <2>3
  <2>5. Paused'
    BY <1>5, <1>9, <1>11, <2>4, DatasetTwo DEF Paused
  <2> QED
    BY <1>9, <2>5 DEF Works
<1>12. ASSUME s = Writes(Other(d)), Rest = <<Opens(d), Saves(d)>> PROVE Works'
  <2>1. c = Other(d)
    BY <1>6, <1>12, StepFacts
  <2>2. Settled(Other(d))'
    BY <1>5, <1>8, <2>1 DEF Settled, Clean
  <2>3. SavesLast(d)'
    BY <1>5, <1>9, <1>12, <2>2 DEF SavesLast
  <2> QED
    BY <1>9, <2>3 DEF Works
<1>13. Works'
  BY <1>4, <1>11, <1>12
<1> QED
  BY <1>10, <1>13 DEF SavedInv

\* Both datasets of a move are saved, if it has two.
LEMMA MvDoneSaved ==
  ASSUME SavedInv, MvDone
  PROVE  SavedInv'
<1>1. Works /\ Listed
  BY Underway DEF MvDone
<1>2. PICK m, from, to : todo = <<m>> /\ from \in Dataset /\ to \in Dataset /\ Mv(m, from, to)
  BY <1>1 DEF Listed
<1>3. Head(todo).from = from /\ Head(todo).to = to
  BY <1>2, Tuples DEF Mv
<1>4. UNCHANGED <<disks, on, memory>>
  BY DEF MvDone
<1>5. Even("main")' /\ Even("trash")' /\ Sound(tree)' /\ on'
  BY <1>1, <1>2, <1>4, EvenKept DEF Works, Listed, disks, memory
<1>6. todo' = (<<Opens(from)>> \o <<Saves(from)>>) \o
              (IF to = from THEN <<>> ELSE <<Opens(to)>> \o <<Saves(to)>>)
  BY <1>3 DEF MvDone, Opens, Saves, Save
<1>7. CASE to = from
  <2>1. todo' = <<Opens(from), Saves(from)>>
    <3>1. todo' = (<<Opens(from)>> \o <<Saves(from)>>) \o <<>>
      BY <1>6, <1>7
    <3> QED
      BY <3>1, Joined
  <2>2. Settled(Other(from))'
    <3>1. Other(from) \in Dataset \ {from, to}
      BY <1>7 DEF Other, Dataset
    <3>2. Settled(Other(from))
      BY <1>2, <3>1 DEF Mv
    <3> QED
      BY <1>4, <3>2, LastStays, SettledKept DEF disks, memory
  <2>3. SavesLast(from)'
    BY <1>5, <1>7, <2>1, <2>2 DEF SavesLast
  <2> QED
    BY <1>2, <1>4, <1>5, <2>3, NothingAdded DEF Works, disks, memory
<1>8. CASE to # from
  <2>1. from = Other(to) /\ {from, to} = Dataset
    BY <1>2, <1>8 DEF Other, Dataset
  <2>2. todo' = <<Opens(Other(to)), Saves(Other(to)), Opens(to), Saves(to)>>
    <3>1. todo' = (<<Opens(from)>> \o <<Saves(from)>>) \o (<<Opens(to)>> \o <<Saves(to)>>)
      BY <1>6, <1>8
    <3>2. todo' = <<Opens(from), Saves(from), Opens(to), Saves(to)>>
      BY <3>1, JoinedPairs
    <3> QED
      BY <2>1, <3>2
  <2>3. SavesLast(to)'
    BY <1>5, <2>1, <2>2 DEF SavesLast
  <2> QED
    BY <1>2, <1>4, <1>5, <2>3, NothingAdded DEF Works, disks, memory
<1> QED
  BY <1>7, <1>8

\* Opening a dataset again leaves its save next.
LEMMA UnmuteSaved ==
  ASSUME SavedInv, Unmute
  PROVE  SavedInv'
<1>1. Doing("unmute") /\ Works
  BY Underway DEF Unmute
<1>2. PICK d \in Dataset : SavesLast(d)
  BY <1>1, Underway
<1>3. Other(d) # d /\ Dataset = {d, Other(d)}
  BY DEF Other, Dataset
<1>4. /\ UNCHANGED <<disks, on, tree, doomed>>
      /\ todo' = Rest /\ muted' = muted \ {Head(todo).ds}
  BY DEF Unmute
<1>5. Even("main")' /\ Even("trash")' /\ Sound(tree)' /\ on'
  BY <1>1, <1>2, <1>4, EvenKept DEF Works, SavesLast, disks
<1>6. \A e : LastTree(e)' = LastTree(e)
  BY <1>4, LastStays DEF disks
<1>7. ASSUME Head(todo) = Opens(d), Rest = <<Saves(d)>>, Settled(Other(d)) PROVE Works'
  <2>1. Settled(Other(d))'
    BY <1>3, <1>4, <1>6, <1>7, StepFacts DEF Settled, Clean
  <2>2. SavesLast(d)'
    BY <1>4, <1>5, <1>7, <2>1 DEF SavesLast
  <2> QED
    BY <1>5, <2>2 DEF Works
<1>8. ASSUME Head(todo) = Opens(Other(d)), Rest = <<Saves(Other(d)), Opens(d), Saves(d)>>
      PROVE  Works'
  <2>1. SavesLast(d)'
    BY <1>4, <1>5, <1>8 DEF SavesLast
  <2> QED
    BY <1>5, <2>1 DEF Works
<1>9. Works'
  BY <1>1, <1>2, <1>7, <1>8, SaveAt DEF Doing
<1> QED
  BY <1>4, <1>9, NothingAdded DEF disks

-----------------------------------------------------------------------------
(* The files of a move.                                                      *)

\* A move that is under way stays so while the trees and the indexes stay.
LEMMA MvKept ==
  ASSUME NEW m, NEW from \in Dataset, NEW to \in Dataset, Mv(m, from, to), UNCHANGED <<tree, index, muted>>
  PROVE  Mv(m, from, to)'
BY DEF Mv, Settled, Clean, LastTree, LastIndex

\* One file of moving has gone.
LEMMA OneGone ==
  ASSUME NEW moving, NEW e \in moving
  PROVE  /\ Files(moving) = Files(moving \ {e}) \cup {e.file}
         /\ moving \ {e} = {} => Files(moving) = {e.file}
BY DEF Files

\* Moving the files to the other dataset gives each folder what its tree already has.
LEMMA ShiftSaved ==
  ASSUME TypeOK, SavedInv, NEW e, ShiftFile(e)
  PROVE  SavedInv'
<1>1. Works /\ Shifting
  BY Underway DEF ShiftFile
<1>2. PICK moving, m, d :
        /\ todo = <<Shifts(d, moving), m>> /\ d \in Dataset /\ Mv(m, d, Other(d))
        /\ Files(tree[d]) = disk[d] \ Files(moving)
        /\ Files(tree[Other(d)]) = disk[Other(d)] \cup Files(moving)
        /\ Files(moving) \subseteq disk[d] \cup disk[Other(d)]
  BY <1>1 DEF Shifting
<1> DEFINE o == Other(d)
           left == moving \ {e}
<1>3. o # d /\ o \in Dataset /\ Dataset = {d, o}
  BY <1>2 DEF Other, Dataset
<1>4. Head(todo) = Shifts(d, moving) /\ Rest = <<m>>
  BY <1>2, Tuples DEF Rest
<1>5. /\ e \in moving
      /\ todo' = IF left = {} THEN <<m>> ELSE <<[Shifts(d, moving) EXCEPT !.moving = left]>> \o <<m>>
      /\ disk' = IF e.file \in disk[d]
                   THEN [disk EXCEPT ![d] = @ \ {e.file}, ![o] = @ \cup {e.file}] ELSE disk
      /\ UNCHANGED <<secret, index, on, tree, muted, doomed>>
  <2>1. Head(todo).moving = moving /\ Head(todo).from = d
    BY <1>4, StepFacts
  <2>2. e \in moving
    BY <2>1 DEF ShiftFile, NextFile
  <2>3. todo' = IF left = {} THEN <<m>> ELSE <<[Shifts(d, moving) EXCEPT !.moving = left]>> \o <<m>>
    BY <1>4, <2>1, Zenon DEF ShiftFile, NextFile
  <2>4. disk' = IF e.file \in disk[d]
                  THEN [disk EXCEPT ![d] = @ \ {e.file}, ![o] = @ \cup {e.file}] ELSE disk
    BY <2>1, Zenon DEF ShiftFile, Shift
  <2> QED
    BY <2>2, <2>3, <2>4 DEF ShiftFile, memory
<1>6. /\ Files(moving) = Files(left) \cup {e.file}
      /\ left = {} => Files(moving) = {e.file}
  BY <1>5, OneGone
<1>7. disk'[d] = disk[d] \ {e.file} /\ disk'[o] = disk[o] \cup {e.file}
  <2>1. e.file \in disk[d] \cup disk[o]
    BY <1>2, <1>6
  <2> QED
    BY <1>2, <1>3, <1>5, <2>1 DEF TypeOK
<1> HIDE DEF left
<1>8. Mv(m, d, o)'
  BY <1>2, <1>3, <1>5, MvKept
<1>9. Sound(tree)' /\ on'
  BY <1>1, <1>5 DEF Works, Sound, OnePlace
<1>10. CASE left = {}
  <2>1. Files(tree'[d]) = disk'[d] /\ Files(tree'[o]) = disk'[o]
    BY <1>2, <1>5, <1>6, <1>7, <1>10
  <2>2. Even("main")' /\ Even("trash")'
    BY <1>3, <2>1, DatasetTwo DEF Even
  <2>3. todo' = <<m>>
    BY <1>5, <1>10
  <2>4. Listed'
    BY <1>2, <1>3, <1>8, <2>2, <2>3 DEF Listed
  <2> QED
    BY <1>5, <1>9, <2>4, NothingAdded DEF Works
<1>11. CASE left # {}
  <2>1. [Shifts(d, moving) EXCEPT !.moving = left] = Shifts(d, left)
    BY DEF Shifts
  <2>2. todo' = <<Shifts(d, left), m>>
    BY <1>5, <1>11, <2>1, Joined
  <2>3. /\ Files(tree'[d]) = disk'[d] \ Files(left)
        /\ Files(tree'[o]) = disk'[o] \cup Files(left)
        /\ Files(left) \subseteq disk'[d] \cup disk'[o]
    BY <1>2, <1>5, <1>6, <1>7
  <2>4. Shifting'
    BY <1>2, <1>8, <2>2, <2>3 DEF Shifting
  <2> QED
    BY <1>5, <1>9, <2>4, NothingAdded DEF Works
<1> QED
  BY <1>10, <1>11

\* Deleting the files leaves the trash with what its tree still has.
LEMMA DestroySaved ==
  ASSUME TypeOK, SavedInv, NEW e, DestroyFile(e)
  PROVE  SavedInv'
<1>1. Works /\ Destroying
  BY Underway DEF DestroyFile
<1>2. PICK moving, m :
        /\ todo = <<Destroys(moving), m>> /\ Mv(m, "trash", "trash")
        /\ Even("main") /\ Files(tree["trash"]) = disk["trash"] \ Files(moving)
  BY <1>1 DEF Destroying
<1> DEFINE left == moving \ {e}
<1>3. Head(todo) = Destroys(moving) /\ Rest = <<m>>
  BY <1>2, Tuples DEF Rest
<1>4. /\ e \in moving
      /\ todo' = IF left = {} THEN <<m>> ELSE <<[Destroys(moving) EXCEPT !.moving = left]>> \o <<m>>
      /\ disk' = [disk EXCEPT !["trash"] = @ \ {e.file}]
      /\ UNCHANGED <<secret, index, on, tree, muted, doomed>>
  <2>1. Head(todo).moving = moving
    BY <1>3, StepFacts
  <2>2. e \in moving
    BY <2>1 DEF DestroyFile, NextFile
  <2>3. todo' = IF left = {} THEN <<m>> ELSE <<[Destroys(moving) EXCEPT !.moving = left]>> \o <<m>>
    BY <1>3, <2>1, Zenon DEF DestroyFile, NextFile
  <2> QED
    BY <2>2, <2>3 DEF DestroyFile, memory
<1>5. /\ Files(moving) = Files(left) \cup {e.file}
      /\ left = {} => Files(moving) = {e.file}
  BY <1>4, OneGone
<1>6. disk'["trash"] = disk["trash"] \ {e.file} /\ disk'["main"] = disk["main"]
  BY <1>4, DatasetTwo DEF TypeOK
<1> HIDE DEF left
<1>7. Mv(m, "trash", "trash")' /\ Even("main")'
  BY <1>2, <1>4, <1>6, DatasetTwo, MvKept DEF Even
<1>8. Sound(tree)' /\ on'
  BY <1>1, <1>4 DEF Works, Sound, OnePlace
<1>9. CASE left = {}
  <2>1. Even("trash")'
    BY <1>2, <1>4, <1>5, <1>6, <1>9 DEF Even
  <2>2. todo' = <<m>>
    BY <1>4, <1>9
  <2>3. Listed'
    BY <1>7, <2>1, <2>2, DatasetTwo DEF Listed
  <2> QED
    BY <1>4, <1>8, <2>3, NothingAdded DEF Works
<1>10. CASE left # {}
  <2>1. [Destroys(moving) EXCEPT !.moving = left] = Destroys(left)
    BY DEF Destroys
  <2>2. todo' = <<Destroys(left), m>>
    BY <1>4, <1>10, <2>1, Joined
  <2>3. Files(tree'["trash"]) = disk'["trash"] \ Files(left)
    BY <1>2, <1>4, <1>5, <1>6
  <2>4. Destroying'
    BY <1>7, <2>2, <2>3 DEF Destroying
  <2> QED
    BY <1>4, <1>8, <2>4, NothingAdded DEF Works
<1> QED
  BY <1>9, <1>10

-----------------------------------------------------------------------------
(* Commands that write one file.                                             *)

\* What the earlier theorems say of the trees.
LEMMA Known ==
  ASSUME TypeOK, VersionsOfOneSecret, NEW d \in Dataset
  PROVE  /\ tree[d] \in Placed(File) /\ tree[d] \in Trees /\ Named(tree[d], secret)
         /\ Nodes(tree[d]) \subseteq Path
         /\ secret \in Seq(Secrets) /\ File = 1..Len(secret) /\ Len(secret) \in Nat
<1>1. tree[d] \in Trees /\ Named(tree[d], secret) /\ secret \in Seq(Secrets)
  BY DEF TypeOK, VersionsOfOneSecret, OneSecret, Named
<1>2. tree[d] \in Placed(File)
  BY <1>1 DEF Trees, Placed
<1>3. File = 1..Len(secret) /\ Len(secret) \in Nat
  BY <1>1, LenProperties DEF File
<1> QED
  BY <1>1, <1>2, <1>3, NodesArePaths

\* A new version in one dataset is followed by the save of that dataset.
LEMMA OneSaved ==
  ASSUME SavedInv, Idle, NEW d \in Dataset, UNCHANGED <<index, on, muted>>, todo' = Save(d),
         Sound(tree'), Files(tree'[d]) = disk'[d],
         tree'[Other(d)] = tree[Other(d)], disk'[Other(d)] = disk[Other(d)]
  PROVE  Works'
<1>1. Settled("main") /\ Settled("trash") /\ Even("main") /\ Even("trash")
  BY AtRest
<1>2. Dataset = {d, Other(d)}
  BY DEF Dataset, Other
<1>3. Even("main")' /\ Even("trash")'
  <2>1. \A e \in Dataset : Files(tree'[e]) = disk'[e]
    BY <1>1, <1>2, DatasetTwo DEF Even
  <2> QED
    BY <2>1, DatasetTwo DEF Even
<1>4. Settled(Other(d))'
  <2>1. Settled(Other(d))
    BY <1>1, <1>2, DatasetTwo
  <2> QED
    BY <2>1, LastStays, SettledKept
<1>5. todo' = <<Saves(d)>>
  BY DEF Save, Saves
<1>6. SavesLast(d)'
  BY <1>1, <1>3, <1>4, <1>5 DEF SavesLast
<1>7. on' /\ Sound(tree)'
  BY DEF Idle, Sound, OnePlace
<1> QED
  BY <1>6, <1>7 DEF Works

\* A written file is in the folder of its dataset, and the other folder stays.
LEMMA WrittenDisk ==
  ASSUME TypeOK, NEW d \in Dataset, NEW id, NEW type, NEW n, NEW c, Write(d, id, type, n, c)
  PROVE  /\ disk'[d] = disk[d] \cup {Len(secret) + 1}
         /\ disk'[Other(d)] = disk[Other(d)]
         /\ Other(d) # d /\ Other(d) \in Dataset /\ Dataset = {d, Other(d)}
BY DEF TypeOK, Write, Other, Dataset

\* Adding a secret keeps the invariant.
LEMMA AddSaved ==
  ASSUME TypeOK, VersionsOfOneSecret, SavedInv, NEW d \in Dataset,
         NEW q \in Folders(tree[d]), NEW n, NEW type, NEW c, Add(d, q, n, type, c)
  PROVE  SavedInv'
<1> DEFINE f == Len(secret) + 1
           r == Append(q, f)
<1>1. /\ Idle /\ Write(d, f, type, n, c) /\ todo' = Save(d)
      /\ tree' = [tree EXCEPT ![d] = Graft(@, q, f, f)]
      /\ UNCHANGED <<index, on, muted, doomed>>
  BY DEF Add
<1>2. /\ tree[d] \in Placed(File) /\ File = 1..Len(secret) /\ Len(secret) \in Nat
      /\ \A e \in Dataset : Nodes(tree[e]) \subseteq Path
  BY Known
<1>3. f \in Nat /\ f \notin File /\ f \in 1..f
  BY <1>2
<1>4. q \in Seq(Nat) /\ (q = <<>> \/ q \in Nodes(tree[d]))
  BY <1>2, FolderPath DEF Folders
<1>5. \A e \in Dataset : \A x \in Nodes(tree[e]) : Last(x) \in File
  BY Known, NoPhantom DEF SavedInv
<1>6. Sound(tree) /\ Even("main") /\ Even("trash")
  BY <1>1, AtRest
<1>7. disk'[d] = disk[d] \cup {f} /\ disk'[Other(d)] = disk[Other(d)]
      /\ Other(d) # d /\ Other(d) \in Dataset /\ Dataset = {d, Other(d)}
  BY <1>1, WrittenDisk
<1>8. tree'[d] = Graft(tree[d], q, f, f) /\ tree'[Other(d)] = tree[Other(d)]
  BY <1>1, <1>7 DEF TypeOK
<1> HIDE DEF f
<1>9. r \notin Nodes(tree[d])
  BY <1>3, <1>4, <1>5, AppendLast
<1>10. Nodes(tree'[d]) = Nodes(tree[d]) \cup {r} /\ Files(tree'[d]) = Files(tree[d]) \cup {f}
  BY <1>2, <1>3, <1>4, <1>6, <1>8, <1>9, GraftNew DEF Sound
<1>11. Sound(tree')
  <2>1. \A e \in Dataset : Nodes(tree'[e]) = Nodes(tree[e]) \cup (IF e = d THEN {Append(q, f)} ELSE {})
    BY <1>7, <1>8, <1>10
  <2>2. \A e \in Dataset : \A x \in Nodes(tree[e]) : Last(x) # f
    BY <1>3, <1>5
  <2> QED
    BY <1>2, <1>3, <1>4, <1>6, <2>1, <2>2, ChildAdded
<1>12. Files(tree'[d]) = disk'[d]
  BY <1>6, <1>7, <1>10, DatasetTwo DEF Even
<1>13. Works'
  BY <1>1, <1>7, <1>8, <1>11, <1>12, OneSaved
<1> QED
  BY <1>1, <1>3, <1>13, FileAdded DEF f

\* Adding a version keeps the invariant.
LEMMA EditSaved ==
  ASSUME TypeOK, VersionsOfOneSecret, SavedInv, NEW d \in Dataset,
         NEW p \in Texts(tree[d]), NEW c, NEW undoes, Edit(d, p, c, undoes)
  PROVE  SavedInv'
<1> DEFINE f == Len(secret) + 1
<1>1. /\ Idle /\ Write(d, Last(p), Text, NodeName(tree[d], p), c) /\ todo' = Save(d)
      /\ tree' = [tree EXCEPT ![d] = AddVersion(@, p, f)]
      /\ UNCHANGED <<index, on, muted, doomed>>
  BY DEF Edit
<1>2. p \in Nodes(tree[d])
  BY DEF Texts
<1>3. Last(p) \in 1..f
  <2>1. File = 1..Len(secret) /\ Len(secret) \in Nat /\ Last(p) \in File
    BY <1>2, Known, NoPhantom DEF SavedInv
  <2> QED
    BY <2>1
<1>4. Sound(tree) /\ Even("main") /\ Even("trash")
  BY <1>1, AtRest
<1>5. disk'[d] = disk[d] \cup {f} /\ disk'[Other(d)] = disk[Other(d)]
      /\ Other(d) # d /\ Other(d) \in Dataset /\ Dataset = {d, Other(d)}
  BY <1>1, WrittenDisk
<1>6. tree'[d] = AddVersion(tree[d], p, f) /\ tree'[Other(d)] = tree[Other(d)]
  BY <1>1, <1>5 DEF TypeOK
<1> HIDE DEF f
<1>7. Nodes(tree'[d]) = Nodes(tree[d]) /\ Files(tree'[d]) = Files(tree[d]) \cup {f}
  BY <1>2, <1>6, VersionNodes
<1>8. Sound(tree')
  <2>1. \A e \in Dataset : Nodes(tree'[e]) = Nodes(tree[e])
    BY <1>5, <1>6, <1>7
  <2> QED
    BY <1>4, <2>1, SameNodes
<1>9. Files(tree'[d]) = disk'[d]
  BY <1>4, <1>5, <1>7, DatasetTwo DEF Even
<1>10. Works'
  BY <1>1, <1>5, <1>6, <1>8, <1>9, OneSaved
<1> QED
  BY <1>1, <1>3, <1>10, FileAdded DEF f

\* Both kinds of creation keep the invariant.
LEMMA CreateSaved ==
  ASSUME TypeOK, VersionsOfOneSecret, SavedInv, Create
  PROVE  SavedInv'
<1>1. \A d \in Active : d \in Dataset
  BY BoundsAssumption DEF Dataset
<1> QED
  BY <1>1, AddSaved, EditSaved DEF Create

-----------------------------------------------------------------------------
(* Moves.                                                                    *)

\* The command takes its first node at rest, and the others with nothing of the
\* other dataset left to save.
LEMMA MoveReady ==
  ASSUME SavedInv, NEW from \in Dataset, NEW to \in Dataset, NEW goal, NEW alone,
         Taking(from, to, goal, alone)
  PROVE  /\ on /\ Sound(tree) /\ Even("main") /\ Even("trash")
         /\ muted \subseteq muted' /\ \A e \in Dataset \ {from, to} : Settled(e)
<1>1. CASE Idle /\ muted' = muted \cup {from, to}
  BY <1>1, AtRest, DatasetTwo DEF Idle
<1>2. CASE /\ Doing("mv") /\ UNCHANGED muted
           /\ <<Head(todo).from, Head(todo).to, Head(todo).goal>> = <<from, to, goal>>
  <2>1. Works /\ Listed
    BY <1>2, Underway
  <2>2. PICK m, a, b : todo = <<m>> /\ Mv(m, a, b)
    BY <2>1 DEF Listed
  <2>3. a = from /\ b = to
    BY <1>2, <2>2, Tuples DEF Mv
  <2> QED
    BY <1>2, <2>1, <2>2, <2>3 DEF Works, Listed, Mv
<1> QED
  BY <1>1, <1>2 DEF Taking

\* What a move leaves to be done: the files, then the move itself.
LEMMA ThenGoesOn ==
  ASSUME NEW steps, NEW from, NEW to, NEW goal, NEW alone, NEW inner,
         Then(steps, from, to, goal, alone, inner)
  PROVE  \E m : m.do = "mv" /\ m.from = from /\ m.to = to /\ todo' = steps \o <<m>>
<1> DEFINE m == [do |-> "mv", from |-> from, to |-> to, goal |-> goal, more |-> ~alone,
                 taken |-> inner \/ (~Idle /\ Head(todo).taken)]
<1>1. m.do = "mv" /\ m.from = from /\ m.to = to
  OBVIOUS
<1>2. todo' = steps \o <<m>>
  BY DEF Then
<1> QED
  BY <1>1, <1>2

\* A new name is a new version of the same node.
LEMMA RenameKeeps ==
  ASSUME TypeOK, VersionsOfOneSecret, SavedInv, Even("main"), Even("trash"), Sound(tree),
         NEW d \in Dataset, NEW p \in Nodes(tree[d]), NEW n, MayRename(d, p, n)
  PROVE  /\ Nodes(Renamed(d, p, n)) = Nodes(tree[d])
         /\ Files(Renamed(d, p, n)) = disk'[d] /\ disk'[Other(d)] = disk[Other(d)]
         /\ Renamed(d, p, n) \in Placed(File') /\ Named(Renamed(d, p, n), secret')
         /\ tree[Other(d)] \in Placed(File') /\ Named(tree[Other(d)], secret')
         /\ UNCHANGED <<doomed, index>> /\ Works' => SavedInv'
<1>1. Other(d) # d /\ Other(d) \in Dataset /\ Dataset = {d, Other(d)}
  BY DEF Other, Dataset
<1>2. Renamed(d, p, n) \in Placed(File') /\ Named(Renamed(d, p, n), secret') /\ Extended
  BY MayRenameType, RenamedNamed DEF Trees, Placed
<1>3. tree[Other(d)] \in Placed(File') /\ Named(tree[Other(d)], secret')
  <2>1. tree[Other(d)] \in Trees /\ Named(tree[Other(d)], secret')
    BY <1>1, <1>2, TreesNamed
  <2> QED
    BY <1>2, <2>1 DEF Extended, Trees, Placed
<1>4. Files(tree[d]) = disk[d]
  BY DatasetTwo DEF Even
<1>5. CASE n = NodeName(tree[d], p)
  <2>1. UNCHANGED <<secret, disk>> /\ Renamed(d, p, n) = tree[d]
    BY <1>5 DEF MayRename, Renamed
  <2>2. UNCHANGED <<doomed, index>> /\ Works' => SavedInv'
    BY <2>1, NothingAdded
  <2> QED
    BY <1>2, <1>3, <1>4, <2>1, <2>2
<1>6. CASE n # NodeName(tree[d], p)
  <2> DEFINE f == Len(secret) + 1
             k == secret[Newest(Versions(tree[d], p))].type
             c == NodeContent(tree[d], p)
  <2>1. Write(d, Last(p), k, n, c) /\ Renamed(d, p, n) = AddVersion(tree[d], p, f)
    BY <1>6 DEF MayRename, Renamed
  <2>2. disk'[d] = disk[d] \cup {f} /\ disk'[Other(d)] = disk[Other(d)]
    BY <2>1, WrittenDisk
  <2>3. Last(p) \in 1..f
    <3>1. File = 1..Len(secret) /\ Len(secret) \in Nat /\ Last(p) \in File
      BY Known, NoPhantom DEF SavedInv
    <3> QED
      BY <3>1
  <2> HIDE DEF k, c
  <2>4. UNCHANGED <<doomed, index>> /\ Works' => SavedInv'
    BY <2>1, <2>3, FileAdded
  <2> HIDE DEF f
  <2>5. Nodes(Renamed(d, p, n)) = Nodes(tree[d]) /\ Files(Renamed(d, p, n)) = disk'[d]
    <3>1. /\ Nodes(AddVersion(tree[d], p, f)) = Nodes(tree[d]) \cup {p}
          /\ Files(AddVersion(tree[d], p, f)) = Files(tree[d]) \cup {f}
      BY VersionNodes
    <3> DEFINE t == AddVersion(tree[d], p, f)
    <3>2. Renamed(d, p, n) = t
      BY <2>1
    <3> HIDE DEF t
    <3>3. Nodes(t) = Nodes(tree[d]) /\ Files(t) = disk'[d]
      BY <1>4, <2>2, <3>1 DEF t
    <3> QED
      BY <3>2, <3>3
  <2> QED
    BY <1>2, <1>3, <2>2, <2>4, <2>5
<1> QED
  BY <1>5, <1>6

\* The trees U are T where p, with all below it, has left its parent and hangs from
\* q, which is not below it.
Hangs(T, U, from, to, p, q) ==
  /\ q # <<>> => q \in Nodes(T[to]) /\ ~(from = to /\ p \in Ancestry(q))
  /\ U[to] = Plant(IF from = to THEN Uproot(T[from], p) ELSE T[to], q, p, Subtree(T[from], p))
  /\ from # to => U[from] = Uproot(T[from], p)
  /\ \A d \in Dataset \ {from, to} : U[d] = T[d]

\* The trees T are of files in F, and s says what these are.
Spoken(T, F, s) == \A d \in Dataset : T[d] \in Placed(F) /\ Named(T[d], s)

\* The files go with the nodes.
Carries(T, U, from, to, p) ==
  /\ Files(U[from]) = Files(T[from]) \ Files(Subtree(T[from], p))
  /\ Files(U[to]) = Files(T[to]) \cup Files(Subtree(T[from], p))

\* A move leaves every secret at one place, with all its ancestors, and takes its files along.
LEMMA Hung ==
  ASSUME NEW T, NEW F, NEW s, Spoken(T, F, s), Sound(T),
         NEW from \in Dataset, NEW to \in Dataset, NEW p \in Nodes(T[from]), NEW q \in Seq(Nat),
         NEW U, Hangs(T, U, from, to, p, q)
  PROVE  /\ Sound(U)
         /\ from = to => Files(U[to]) = Files(T[to])
         /\ from # to => Carries(T, U, from, to, p)
<1> DEFINE S == Subtree(T[from], p)
           R == Uproot(T[from], p)
           B == IF from = to THEN R ELSE T[to]
<1> USE DEF Hangs, Carries, Spoken
<1>1. \A d \in Dataset : Nodes(T[d]) \subseteq Path
  BY NodesArePaths
<1>2. /\ Nodes(R) = {x \in Nodes(T[from]) : p \notin Ancestry(x)}
      /\ Nodes(S) = {x \in Nodes(T[from]) : p \in Ancestry(x)}
      /\ R \in Placed(F)
  BY <1>1, UprootNodes
<1>3. Files(R) = Files(T[from]) \ Files(S) /\ Files(S) \subseteq Files(T[from])
  BY UprootFiles
<1> HIDE DEF S, R
<1>4. Closed(Nodes(B))
  <2>1. ASSUME NEW x \in Nodes(R), NEW a \in Ancestry(x) PROVE a \in Nodes(R)
    <3>1. a \in Nodes(T[from])
      BY <1>2, <2>1 DEF Sound, Closed
    <3>2. Ancestry(a) \subseteq Ancestry(x)
      BY <1>1, <1>2, <2>1, AncestorsOf
    <3> QED
      BY <1>2, <2>1, <3>1, <3>2
  <2> QED
    BY <2>1 DEF Sound, Closed
<1>5. Append(q, Last(p)) \notin Nodes(B)
  <2> SUFFICES ASSUME Append(q, Last(p)) \in Nodes(B) PROVE FALSE
    OBVIOUS
  <2>1. Last(p) \in Nat
    BY <1>1, LastOfPath
  <2>2. Last(Append(q, Last(p))) = Last(p)
    BY <2>1, AppendLast
  <2>3. Append(q, Last(p)) \in Nodes(T[to])
    BY <1>2
  <2>4. to = from /\ Append(q, Last(p)) = p
    BY <2>2, <2>3 DEF Sound, OnePlace
  <2>5. p \in Ancestry(p)
    BY <1>1, OwnAncestor
  <2> QED
    BY <1>2, <2>4, <2>5
<1>6. B \in Placed(F)
  BY <1>2
<1>7. /\ Nodes(U[to]) = Nodes(B) \cup {Rehung(q, p, x) : x \in Nodes(S)}
      /\ Files(U[to]) = Files(B) \cup Files(S)
  <2>1. U[to] = Plant(B, q, p, S)
    BY DEF S, R
  <2> HIDE DEF B
  <2> QED
    BY <1>1, <1>4, <1>5, <1>6, <2>1, PlantNew
<1>8. ASSUME NEW d \in Dataset PROVE Nodes(U[d]) = NodesMoved(T, from, to, p, q, d)
  <2>1. CASE d = to
    <3>1. {z \in Nodes(T[from]) : d = to /\ p \in Ancestry(z)} = Nodes(S)
      BY <1>2, <2>1
    <3>2. {x \in Nodes(T[d]) : ~(d = from /\ p \in Ancestry(x))} = Nodes(B)
      BY <1>2, <2>1
    <3> QED
      BY <1>7, <2>1, <3>1, <3>2 DEF NodesMoved
  <2>2. CASE d # to /\ d = from
    <3>1. U[d] = R
      BY <2>2 DEF R
    <3> QED
      BY <1>2, <2>2, <3>1 DEF NodesMoved
  <2>3. CASE d # to /\ d # from
    BY <2>3 DEF NodesMoved
  <2> QED
    BY <2>1, <2>2, <2>3
<1>9. Sound(U)
  BY <1>1, <1>8, Moved
<1>10. CASE from = to
  BY <1>3, <1>7, <1>9, <1>10
<1>11. CASE from # to
  BY <1>3, <1>7, <1>9, <1>11 DEF R, S
<1> QED
  BY <1>10, <1>11

\* The target of a move: the root, or a node that the move does not take along.
LEMMA TargetIs ==
  ASSUME TypeOK, VersionsOfOneSecret, NEW d \in Dataset, NEW q \in Folders(tree[d])
  PROVE  q \in Seq(Nat) /\ (q # <<>> => q \in Nodes(tree[d]) /\ q \in Path)
BY Known, FolderPath DEF Folders

\* A move inside one dataset keeps the invariant.
LEMMA WithinSaved ==
  ASSUME Ordinary, TypeOK, VersionsOfOneSecret, SavedInv, NEW d \in Dataset,
         NEW p \in Nodes(tree[d]), NEW q \in Folders(tree[d]), NEW n, MoveWithin(d, p, q, n)
  PROVE  SavedInv'
<1> DEFINE t == Renamed(d, p, n)
           o == Other(d)
           T == [tree EXCEPT ![d] = t]
<1> DEFINE same == Id(q) = Id(Front(p))
<1>1. PICK alone :
        /\ Taking(d, d, q, alone) /\ MayRename(d, p, n) /\ Then(<<>>, d, d, q, alone, FALSE)
        /\ tree' = [tree EXCEPT ![d] = IF same THEN t ELSE Relocate(t, q, p)]
        /\ UNCHANGED <<index, on, doomed>>
        /\ ~IsPrefix(p, q)
  BY DEF MoveWithin, Ordinary
<1>2. /\ on /\ Sound(tree) /\ Even("main") /\ Even("trash")
      /\ muted \subseteq muted' /\ \A e \in Dataset \ {d, d} : Settled(e)
  BY <1>1, MoveReady
<1>3. o # d /\ o \in Dataset /\ Dataset = {d, o}
  BY DEF Other, Dataset
<1>4. /\ Nodes(t) = Nodes(tree[d]) /\ Files(t) = disk'[d] /\ disk'[o] = disk[o]
      /\ t \in Placed(File') /\ Named(t, secret')
      /\ tree[o] \in Placed(File') /\ Named(tree[o], secret')
      /\ UNCHANGED <<doomed, index>> /\ Works' => SavedInv'
  BY <1>1, <1>2, RenameKeeps
<1>5. q \in Seq(Nat) /\ (q # <<>> => q \in Nodes(tree[d]) /\ q \in Path) /\ p \in Path
  BY TargetIs, Known
<1> HIDE DEF t, same
<1>6. T[d] = t /\ T[o] = tree[o]
  BY <1>3 DEF TypeOK
<1>7. Sound(T) /\ Spoken(T, File', secret')
  <2>1. \A e \in Dataset : Nodes(T[e]) = Nodes(tree[e])
    BY <1>3, <1>4, <1>6
  <2>2. Sound(T)
    BY <1>2, <2>1, SameNodes
  <2> QED
    BY <1>3, <1>4, <1>6, <2>2 DEF Spoken
<1>8. tree'[o] = tree[o] /\ tree'[d] = IF same THEN t ELSE Relocate(t, q, p)
  BY <1>1, <1>3 DEF TypeOK
<1> HIDE DEF T
<1>9. Sound(tree') /\ Files(tree'[d]) = disk'[d]
  <2>1. CASE same
    <3>1. \A e \in Dataset : Nodes(tree'[e]) = Nodes(T[e])
      BY <1>3, <1>6, <1>8, <2>1
    <3>2. Sound(tree')
      BY <1>7, <3>1, SameNodes
    <3> QED
      BY <1>4, <1>8, <2>1, <3>2
  <2>2. CASE ~same
    <3>1. tree'[d] = Plant(IF d = d THEN Uproot(T[d], p) ELSE T[d], q, p, Subtree(T[d], p))
      BY <1>1, <1>6, <1>8, <2>2 DEF Relocate
    <3>2. q # <<>> => q \in Nodes(T[d]) /\ ~(d = d /\ p \in Ancestry(q))
      BY <1>1, <1>4, <1>5, <1>6, PrefixIsAncestor
    <3>3. p \in Nodes(T[d]) /\ \A e \in Dataset \ {d, d} : tree'[e] = T[e]
      BY <1>3, <1>4, <1>6, <1>8
    <3>4. Hangs(T, tree', d, d, p, q)
      BY <3>1, <3>2, <3>3 DEF Hangs
    <3>5. Sound(tree') /\ Files(tree'[d]) = Files(T[d])
      BY <1>5, <1>7, <3>3, <3>4, Hung
    <3> QED
      BY <1>4, <1>6, <3>5
  <2> QED
    BY <2>1, <2>2
<1>10. Even("main")' /\ Even("trash")'
  <2>1. \A e \in Dataset : Files(tree'[e]) = disk'[e]
    BY <1>2, <1>3, <1>4, <1>8, <1>9, DatasetTwo DEF Even
  <2> QED
    BY <2>1, DatasetTwo DEF Even
<1>11. Listed'
  <2>1. PICK m : m.do = "mv" /\ m.from = d /\ m.to = d /\ todo' = <<>> \o <<m>>
    BY <1>1, ThenGoesOn
  <2>2. todo' = <<m>>
    BY <2>1, Joined
  <2>3. \A e \in Dataset \ {d, d} : Settled(e)'
    BY <1>1, <1>2, <1>3, <1>8, LastStays, SettledKept
  <2>4. Mv(m, d, d)'
    BY <2>1, <2>3 DEF Mv
  <2> QED
    BY <1>10, <2>2, <2>4 DEF Listed
<1>12. Works'
  BY <1>1, <1>2, <1>9, <1>11 DEF Works, Sound, OnePlace
<1> QED
  BY <1>1, <1>4, <1>12

\* Uprooting twice is uprooting once.
LEMMA UprootTwice ==
  ASSUME NEW t, NEW p
  PROVE  Uproot(Uproot(t, p), p) = Uproot(t, p)
BY DEF Uproot, Subtree

\* A move to the other dataset keeps the invariant.
LEMMA AcrossSaved ==
  ASSUME TypeOK, VersionsOfOneSecret, SavedInv, NEW d \in Dataset,
         NEW p \in Nodes(tree[d]), NEW q \in Folders(tree[Other(d)]), NEW n,
         NEW h \in Holders(d, p), MoveAcross(d, p, q, n, h)
  PROVE  SavedInv'
<1> DEFINE t == Renamed(d, p, n)
           o == Other(d)
           T == [tree EXCEPT ![d] = t]
           S == Subtree(t, p)
           alone == /\ n # NodeName(tree[d], p)
                    /\ Called(tree[o], q, NodeName(tree[d], p)) = {}
           left  == IF n # NodeName(tree[d], p) /\ Id(Front(p)) # Id(q) THEN Uproot(t, p) ELSE t
           inner == Cardinality(Nodes(S)) > 1
<1>1. /\ left \in {Uproot(t, p), t}
      /\ Taking(d, o, q, alone) /\ MayRename(d, p, n)
      /\ Then(<<Shifts(d, S)>>, d, o, q, alone, inner)
      /\ tree' = [tree EXCEPT ![d] = Uproot(left, Append(h, Last(p))), ![o] = Plant(@, q, p, S)]
      /\ UNCHANGED <<index, on, doomed>>
  BY DEF MoveAcross, Shifts
<1> HIDE DEF alone, left, inner
<1>2. o # d /\ o \in Dataset /\ Dataset = {d, o}
  BY DEF Other, Dataset
<1>3. /\ on /\ Sound(tree) /\ Even("main") /\ Even("trash")
  BY <1>1, <1>2, MoveReady
<1>4. /\ Nodes(t) = Nodes(tree[d]) /\ Files(t) = disk'[d] /\ disk'[o] = disk[o]
      /\ t \in Placed(File') /\ Named(t, secret')
      /\ tree[o] \in Placed(File') /\ Named(tree[o], secret')
      /\ UNCHANGED <<doomed, index>> /\ Works' => SavedInv'
  BY <1>1, <1>3, RenameKeeps
<1>5. q \in Seq(Nat) /\ (q # <<>> => q \in Nodes(tree[o]))
  BY <1>2, TargetIs
<1>6. Append(h, Last(p)) = p
  BY <1>3, HolderIs DEF SavedInv
<1> HIDE DEF t
<1>7. T[d] = t /\ T[o] = tree[o]
  BY <1>2 DEF TypeOK
<1>8. Sound(T) /\ Spoken(T, File', secret')
  <2>1. \A e \in Dataset : Nodes(T[e]) = Nodes(tree[e])
    BY <1>2, <1>4, <1>7
  <2>2. Sound(T)
    BY <1>3, <2>1, SameNodes
  <2> QED
    BY <1>2, <1>4, <1>7, <2>2 DEF Spoken
<1>9. tree'[d] = Uproot(T[d], p) /\ tree'[o] = Plant(T[o], q, p, S)
  <2>1. tree'[d] = Uproot(left, p) /\ tree'[o] = Plant(tree[o], q, p, S)
    BY <1>1, <1>2, <1>6 DEF TypeOK
  <2>2. Uproot(left, p) = Uproot(t, p)
    BY <1>1, UprootTwice
  <2> QED
    BY <1>7, <2>1, <2>2
<1> HIDE DEF T
<1>10. /\ Sound(tree')
       /\ Files(tree'[d]) = Files(T[d]) \ Files(Subtree(T[d], p))
       /\ Files(tree'[o]) = Files(T[o]) \cup Files(Subtree(T[d], p))
  <2>1. tree'[o] = Plant(IF d = o THEN Uproot(T[d], p) ELSE T[o], q, p, Subtree(T[d], p))
    BY <1>2, <1>7, <1>9
  <2>2. q # <<>> => q \in Nodes(T[o]) /\ ~(d = o /\ p \in Ancestry(q))
    BY <1>2, <1>5, <1>7
  <2>3. p \in Nodes(T[d]) /\ \A e \in Dataset \ {d, o} : tree'[e] = T[e]
    BY <1>2, <1>4, <1>7
  <2>4. Hangs(T, tree', d, o, p, q)
    BY <1>9, <2>1, <2>2, <2>3 DEF Hangs
  <2>5. Sound(tree') /\ (d # o => Carries(T, tree', d, o, p))
    BY <1>2, <1>5, <1>8, <2>3, <2>4, Hung
  <2> QED
    BY <1>2, <2>5 DEF Carries
<1>11. Files(Subtree(T[d], p)) \subseteq Files(T[d])
  BY <1>8, UprootFiles DEF Spoken
<1>12. /\ Files(tree'[d]) = disk'[d] \ Files(S)
       /\ Files(tree'[o]) = disk'[o] \cup Files(S)
       /\ Files(S) \subseteq disk'[d] \cup disk'[o]
  <2>1. Files(T[d]) = disk'[d] /\ Files(T[o]) = disk'[o]
    BY <1>2, <1>3, <1>4, <1>7, DatasetTwo DEF Even
  <2> QED
    BY <1>7, <1>10, <1>11, <2>1
<1> HIDE DEF S
<1>13. PICK moving : moving = S
  OBVIOUS
<1>14. Shifting'
  <2>1. PICK m : m.do = "mv" /\ m.from = d /\ m.to = o /\ todo' = <<Shifts(d, moving)>> \o <<m>>
    BY <1>1, <1>13, ThenGoesOn
  <2>2. todo' = <<Shifts(d, moving), m>>
    BY <2>1, Joined
  <2>3. Mv(m, d, Other(d))'
    BY <1>2, <1>3, <2>1 DEF Mv
  <2> QED
    BY <1>12, <1>13, <2>2, <2>3 DEF Shifting
<1>15. Works'
  BY <1>1, <1>3, <1>10, <1>14 DEF Works, Sound, OnePlace
<1> QED
  BY <1>1, <1>4, <1>15

\* What is deleted has all its files in the trash.
LEMMA DeleteSaved ==
  ASSUME Ordinary, TypeOK, VersionsOfOneSecret, SavedInv,
         NEW p \in Nodes(tree["trash"]), NEW n, Destroy(p, n)
  PROVE  SavedInv'
<1> DEFINE S == Subtree(tree["trash"], p)
<1>1. /\ n = NodeName(tree["trash"], p)
      /\ Taking("trash", "trash", <<>>, FALSE) /\ MayRename("trash", p, n)
      /\ UNCHANGED <<index, on, doomed>>
  BY DEF Destroy, Ordinary
<1>2. UNCHANGED <<secret, disk>> /\ Renamed("trash", p, n) = tree["trash"]
  BY <1>1 DEF MayRename, Renamed
<1>3. /\ tree' = [tree EXCEPT !["trash"] = Uproot(tree["trash"], p)]
      /\ Then(<<Destroys(S)>>, "trash", "trash", <<>>, FALSE, FALSE)
  BY <1>1, <1>2 DEF Destroy, Destroys
<1>4. /\ on /\ Sound(tree) /\ Even("main") /\ Even("trash")
      /\ muted \subseteq muted' /\ \A e \in Dataset \ {"trash", "trash"} : Settled(e)
  BY <1>1, DatasetTwo, MoveReady
<1>5. tree'["trash"] = Uproot(tree["trash"], p) /\ tree'["main"] = tree["main"]
  BY <1>3, DatasetTwo DEF TypeOK
<1>6. \A d \in Dataset : /\ tree[d] \in Placed(File) /\ Named(tree[d], secret)
                         /\ Nodes(tree[d]) \subseteq Path
  BY Known
<1>7. Sound(tree')
  <2>1. Nodes(tree'["trash"]) = {x \in Nodes(tree["trash"]) : p \notin Ancestry(x)}
    BY <1>5, <1>6, DatasetTwo, UprootNodes
  <2>2. Cut(tree, tree', "trash", p)
    BY <1>5, <1>6, <2>1, DatasetTwo DEF Cut
  <2>3. PICK T : T = tree'
    OBVIOUS
  <2>4. Sound(T)
    BY <1>4, <2>2, <2>3, Removed
  <2> QED
    BY <2>3, <2>4 DEF Sound, OnePlace
<1>8. Files(tree'["trash"]) = disk'["trash"] \ Files(S)
  <2>1. Files(Uproot(tree["trash"], p)) = Files(tree["trash"]) \ Files(S)
    BY <1>4, <1>6, DatasetTwo, UprootFiles
  <2> QED
    BY <1>2, <1>4, <1>5, <2>1 DEF Even
<1>9. Even("main")'
  BY <1>2, <1>4, <1>5 DEF Even
<1> HIDE DEF S
<1>10. PICK moving : moving = S
  OBVIOUS
<1>11. Destroying'
  <2>1. PICK m : /\ m.do = "mv" /\ m.from = "trash" /\ m.to = "trash"
                 /\ todo' = <<Destroys(moving)>> \o <<m>>
    BY <1>3, <1>10, ThenGoesOn
  <2>2. todo' = <<Destroys(moving), m>>
    BY <2>1, Joined
  <2>3. \A e \in Dataset \ {"trash", "trash"} : Settled(e)'
    BY <1>1, <1>4, <1>5, DatasetTwo, LastStays, SettledKept
  <2>4. Mv(m, "trash", "trash")'
    BY <2>1, <2>3 DEF Mv
  <2> QED
    BY <1>8, <1>9, <1>10, <2>2, <2>4 DEF Destroying
<1>12. Works'
  BY <1>1, <1>4, <1>7, <1>11 DEF Works, Sound, OnePlace
<1> QED
  BY <1>1, <1>2, <1>12, NothingAdded

\* Every move keeps the invariant.
LEMMA MoveSaved ==
  ASSUME Ordinary, TypeOK, VersionsOfOneSecret, SavedInv, Move
  PROVE  SavedInv'
<1>1. PICK d \in Dataset : \E p \in Movable(d) : \E n \in Names(d, p) :
        \/ \E q \in Folders(tree[d]) : MoveWithin(d, p, q, n)
        \/ \E q \in Folders(tree[Other(d)]), h \in Holders(d, p) : MoveAcross(d, p, q, n, h)
        \/ \E h \in Holders(d, p) : MoveOnto(d, p, n, h)
        \/ \E to \in Dataset : MoveBelow(d, to, p, n)
        \/ d = "trash" /\ Destroy(p, n)
  BY DEF Move
<1>2. PICK p \in Movable(d) : \E n \in Names(d, p) :
        \/ \E q \in Folders(tree[d]) : MoveWithin(d, p, q, n)
        \/ \E q \in Folders(tree[Other(d)]), h \in Holders(d, p) : MoveAcross(d, p, q, n, h)
        \/ \E h \in Holders(d, p) : MoveOnto(d, p, n, h)
        \/ \E to \in Dataset : MoveBelow(d, to, p, n)
        \/ d = "trash" /\ Destroy(p, n)
  BY <1>1
<1>3. PICK n \in Names(d, p) :
        \/ \E q \in Folders(tree[d]) : MoveWithin(d, p, q, n)
        \/ \E q \in Folders(tree[Other(d)]), h \in Holders(d, p) : MoveAcross(d, p, q, n, h)
        \/ \E h \in Holders(d, p) : MoveOnto(d, p, n, h)
        \/ \E to \in Dataset : MoveBelow(d, to, p, n)
        \/ d = "trash" /\ Destroy(p, n)
  BY <1>2
<1>4. p \in Nodes(tree[d])
  BY DEF Movable
<1>5. \A h : ~MoveOnto(d, p, n, h)
  BY DEF MoveOnto, Ordinary
<1>6. \A to : ~MoveBelow(d, to, p, n)
  BY DEF MoveBelow, Ordinary
<1> QED
  BY <1>3, <1>4, <1>5, <1>6, WithinSaved, AcrossSaved, DeleteSaved

\* A refused move changes nothing but what is saved from now on.
LEMMA RefusedSaved ==
  ASSUME SavedInv, NEW from, NEW to, Refused(from, to)
  PROVE  SavedInv'
<1>1. /\ Idle /\ UNCHANGED <<disks, on, tree, doomed, todo>> /\ muted \subseteq muted'
  BY DEF Refused
<1>2. Sound(tree)' /\ Even("main")' /\ Even("trash")'
  BY <1>1, AtRest, EvenKept DEF disks
<1>3. Settled("main")' /\ Settled("trash")'
  BY <1>1, AtRest, LastStays, SettledKept DEF disks
<1>4. on' /\ todo' = <<>>
  BY <1>1 DEF Idle
<1>5. Works'
  BY <1>2, <1>3, <1>4 DEF Works, Paused
<1> QED
  BY <1>1, <1>5, NothingAdded DEF disks

\* The invariant holds at first.
LEMMA SavedInit == Init => SavedInv
<1> SUFFICES ASSUME Init PROVE SavedInv
  OBVIOUS
<1>1. \A d \in Dataset : index[d] = {} /\ disk[d] = {} /\ tree[d] = {} /\ doomed[d] = {}
  BY DEF Init
<1>2. \A d \in Dataset : LastTree(d) = {}
  BY <1>1 DEF LastTree
<1>3. Files({}) = {} /\ Nodes({}) = {}
  BY DEF Files, Nodes
<1>4. Resting
  BY <1>1, <1>2, <1>3 DEF Resting, Sound, OnePlace, Closed
<1>5. Off
  BY <1>1, <1>4, DatasetTwo DEF Init, Off
<1>6. Numbered /\ OneIndexEach
  <2>1. File = {}
    BY LenProperties, EmptySeq DEF Init, File
  <2> QED
    BY <1>1, <2>1 DEF Numbered, OneIndexEach
<1> QED
  BY <1>1, <1>5, <1>6, DatasetTwo DEF SavedInv

\* Every step keeps the invariant.
LEMMA SavedNext ==
  ASSUME Ordinary, TypeOK, VersionsOfOneSecret, SavedInv, [Goes \/ (Stop /\ muted = {})]_vars
  PROVE  SavedInv'
<1>1. CASE Start \/ (Stop /\ muted = {})
  BY <1>1, SessionSaved
<1>2. CASE Create
  BY <1>2, CreateSaved
<1>3. CASE Move
  BY <1>3, MoveSaved
<1>4. CASE SaveStep
  BY <1>4, UnsavedSaved, UnlinkSaved, WriteSaved DEF SaveStep
<1>5. CASE FileStep
  BY <1>5, ShiftSaved, DestroySaved DEF FileStep
<1>6. CASE LoadStep
  <2>1. ~RecoverStep /\ ~Unlist /\ ~Gather
    BY Underway DEF RecoverStep, Unlist, Gather
  <2> QED
    BY <1>6, <2>1, LoadSaved, PruneSaved, BurySaved DEF LoadStep
<1>7. CASE MvDone \/ Unmute
  BY <1>7, MvDoneSaved, UnmuteSaved
<1>8. ~MvThrows /\ ~WriteFails
  BY DEF MvThrows, WriteFails, Ordinary, TypeOK
<1>9. CASE UNCHANGED vars
  <2>1. UNCHANGED <<disks, on, memory, todo>>
    BY <1>9 DEF vars, disks, memory
  <2>2. UNCHANGED <<secret, index, doomed, disk, tree, muted>>
    BY <2>1 DEF disks, memory
  <2>3. \A d : /\ LastIndex(d)' = LastIndex(d) /\ LastTree(d)' = LastTree(d)
              /\ Clean(d)' = Clean(d) /\ Even(d)' = Even(d)
    BY <2>2 DEF LastIndex, LastTree, Clean, Even
  <2>4. \A d, old : Spares(d, old)' = Spares(d, old)
    BY <2>1, <2>2, <2>3 DEF Spares, disks
  <2>5. Sound(tree)' = Sound(tree)
    BY <2>2 DEF Sound, OnePlace
  <2>6. Resting' = Resting
    BY <2>2 DEF Resting, Sound, OnePlace, LastTree, LastIndex
  <2>7. Off => Off'
    BY <2>1, <2>2, <2>6 DEF Off
  <2>8. Loads => Loads'
    BY <2>1, <2>2, <2>3, <2>4, <2>6 DEF Loads
  <2>9. \A m, from, to : Mv(m, from, to) => Mv(m, from, to)'
    BY <2>2, <2>3 DEF Mv, Settled
  <2>10. \A d : SavesLast(d) => SavesLast(d)'
    BY <2>1, <2>2, <2>3 DEF SavesLast, Settled
  <2>11. Listed => Listed'
    BY <2>1, <2>3, <2>9 DEF Listed
  <2>12. Shifting => Shifting'
    BY <2>1, <2>2, <2>9 DEF Shifting
  <2>13. Destroying => Destroying'
    BY <2>1, <2>2, <2>3, <2>9 DEF Destroying
  <2>14. Paused => Paused'
    BY <2>1, <2>2, <2>3 DEF Paused, Settled
  <2>15. Works => Works'
    BY <2>1, <2>5, <2>10, <2>11, <2>12, <2>13, <2>14 DEF Works
  <2>16. (Off \/ Loads \/ Works)'
    BY <2>7, <2>8, <2>15 DEF SavedInv
  <2> QED
    BY <2>2, <2>16, NothingAdded
<1>10. CASE \E from, to \in Dataset : Refused(from, to)
  BY <1>10, RefusedSaved
<1> QED
  BY <1>1, <1>2, <1>3, <1>4, <1>5, <1>6, <1>7, <1>8, <1>9, <1>10 DEF Goes, Step

\* Without a crash, a failed write or one of the odd commands, and when no session is
\* left while saving is disabled, memory and disk have the same files whenever no command
\* runs, and the newest index of each dataset that a refused mv has not muted is its tree,
\* however long the sessions and whatever the commands.
THEOREM AlwaysSaved ==
  ASSUME Ordinary
  PROVE  CarefulSpec => []SavedWhenIdle
<1>1. Init => SavedInv
  BY SavedInit
<1>2. TypeOK /\ VersionsOfOneSecret /\ SavedInv /\ [Goes \/ (Stop /\ muted = {})]_vars => SavedInv'
  BY SavedNext
<1>3. SavedInv => SavedWhenIdle
  BY SavedThen
<1>4. CarefulSpec => Spec
  <2>1. [Goes \/ (Stop /\ muted = {})]_vars => [Next]_vars
    BY DEF Next
  <2> QED
    BY <2>1, PTL DEF CarefulSpec, Spec
<1>5. Spec => []TypeOK /\ []VersionsOfOneSecret
  BY TypeCorrect, VersionsCorrect, PTL
<1> QED
  BY <1>1, <1>2, <1>3, <1>4, <1>5, PTL DEF CarefulSpec
=============================================================================
