------------------------------ MODULE Datasets ------------------------------
(***************************************************************************)
(* The datasets of a container: one folder each, data, data.1 (the trash), *)
(* data.2 and so on, and the commands ds and use that create, name, empty, *)
(* remove and mount them (packages/secrez, InternalFs and Tree of          *)
(* packages/fs, ConfigUtils of packages/core).  What is in a tree is       *)
(* modelled by InternalFs; here a secret is in a folder or in another.     *)
(* A command is cut where a crash would tell its steps apart.              *)
(***************************************************************************)
EXTENDS Integers, FiniteSets

CONSTANTS
    DsNames,    \* the names of datasets, without regard to case
    Secrets,    \* what they hold
    MaxIndex,   \* bound: the last index, below 10 (the folders are sorted as strings)
    Named,      \* the datasets of earlier sessions and their names
    Holds,      \* and what they held
    Stray,      \* those one load may leave out of its tree (Tree.js:131)
    NoName      \* of a folder without a NAME file; the answer undefined

Indexes == 0..MaxIndex

ASSUME DatasetsAssumption ==
    /\ MaxIndex \in 2..9
    /\ DOMAIN Named \subseteq 2..MaxIndex
    /\ \A i \in DOMAIN Named : Named[i] \in DsNames
    /\ \A i, j \in DOMAIN Named : Named[i] = Named[j] => i = j
    /\ DOMAIN Holds \subseteq {0, 1} \cup DOMAIN Named
    /\ \A i \in DOMAIN Holds : Holds[i] \subseteq Secrets
    /\ Stray \subseteq Secrets
    /\ NoName \notin DsNames

VARIABLES
    folders,    \* the folders there are
    label,      \* the name in the newest NAME file of a folder
    held,       \* the secrets in a folder
    trees,      \* InternalFs.trees that are loaded
    known,      \* the secrets in each
    called,     \* Tree.name of each
    cache,      \* InternalFs.treeCache
    active,     \* InternalFs.treeIndex
    chore       \* what the running command has left to do

dsVars == <<folders, label, held, trees, known, called, cache, active, chore>>

\* list: what ds -d has still to move.
NoChore == [do |-> "none", of |-> 0, name |-> NoName, list |-> {}]

Nowhere == [i \in Indexes |-> {}]

DatasetsInit ==
    /\ folders = {0, 1} \cup DOMAIN Named
    /\ label = [i \in Indexes |-> IF i \in DOMAIN Named THEN Named[i] ELSE NoName]
    /\ held = [i \in Indexes |-> IF i \in DOMAIN Holds THEN Holds[i] ELSE {}]
    /\ trees = {} /\ known = Nowhere /\ called = [i \in Indexes |-> NoName] /\ cache = called
    /\ active = 0 /\ chore = NoChore

-----------------------------------------------------------------------------
(* ConfigUtils and InternalFs                                              *)

\* setAndGetDataset: a folder that is missing is made after the last one only;
\* otherwise "Wrong data index" is thrown.
HasPath(i) == i \in folders \/ (i - 1 \in folders /\ \A j \in folders : j < i)

\* The indexes getDatasetsInfo goes through, besides 0 and 1: as many as there
\* are folders.
Counted == 2..(Cardinality(folders) - 1)

\* The name of a tree that is loaded, the one in the cache, or the one on disk.
NameOf(i) ==
    IF i \in trees THEN called[i]
    ELSE IF cache[i] # NoName THEN cache[i]
    ELSE label[i]

\* getDatasetsInfo throws for an index without a folder or without a name.
Found(i) == i \in folders /\ NameOf(i) # NoName

\* What it caches: the names of trees that are not loaded, up to the first it
\* does not find.
Look ==
    [i \in Indexes |-> IF i \in Counted \ trees /\ \A j \in 2..i : Found(j)
                         THEN NameOf(i) ELSE cache[i]]

Listable == \A i \in Counted : Found(i)

\* As Listed, of the trees that are loaded.
ListedMutantLoaded(name) == {i \in Counted \cap trees : called[i] = name}

Listed(name) == {i \in Counted : NameOf(i) = name}

\* What a tree may have when it is loaded: of two lost files with one path it has one,
\* and the other stays in the folder until the next load.
Loads(i) == {held[i] \ missed : missed \in SUBSET (held[i] \cap Stray)}

\* mountTree: the tree is loaded, with the name on disk.  What is to be deleted in
\* it goes to the trash: without one it throws, the first time.
Mounts(i) == i \in trees \cup {1} \/ 1 \in trees

Mount(i) ==
    /\ folders' = folders \cup {i}
    /\ trees' = trees \cup {i}
    /\ \E L \in Loads(i) : known' = IF i \in trees THEN known ELSE [known EXCEPT ![i] = L]
    /\ called' = IF i \in trees THEN called ELSE [called EXCEPT ![i] = label[i]]

-----------------------------------------------------------------------------
(* The commands                                                            *)

\* The command throws, once it has looked at the datasets, or has no more to do.
Looks ==
    /\ cache' = Look
    /\ UNCHANGED <<folders, label, held, trees, known, called, active, chore>>

\* ds -c, and use -c of a name there is not: the index after the last one of the
\* list; the dataset becomes active, and then is given its name.
CreateDataset(name) ==
    LET i == IF Cardinality(folders) < 2 THEN 2 ELSE Cardinality(folders) IN
    /\ i \in Indexes
    /\ cache' = Look
    /\ IF Listable /\ Listed(name) = {} /\ HasPath(i)
         THEN /\ Mount(i)
              /\ IF Mounts(i)
                   THEN active' = i /\ chore' = [NoChore EXCEPT !.do = "name", !.of = i, !.name = name]
                   ELSE UNCHANGED <<active, chore>>
         ELSE UNCHANGED <<folders, trees, known, called, active, chore>>
    /\ UNCHANGED <<label, held>>

\* nameDataset: one more NAME file, unless the name is the same.
NameDataset ==
    LET i == chore.of IN
    /\ chore.do = "name"
    /\ label' = [label EXCEPT ![i] = IF chore.name # called[i] THEN chore.name ELSE @]
    /\ called' = [called EXCEPT ![i] = chore.name]
    /\ chore' = NoChore
    /\ UNCHANGED <<folders, held, trees, known, cache, active>>

\* use: main, the trash, or the first with the name.
UseDataset(i) ==
    /\ i \in {0, 1} \/ \E name \in DsNames : i \in Listed(name)
    /\ cache' = Look
    /\ IF Listable /\ i # active /\ (i \in trees \/ HasPath(i))
         THEN Mount(i) /\ active' = IF Mounts(i) THEN i ELSE active
         ELSE UNCHANGED <<folders, trees, known, called, active>>
    /\ UNCHANGED <<label, held, chore>>

\* ds -r: of a tree that is not loaded it throws.
RenameDataset(i, name) ==
    /\ i \in Counted /\ i \in trees
    /\ Listable /\ Listed(name) = {}
    /\ label' = [label EXCEPT ![i] = name]
    /\ called' = [called EXCEPT ![i] = name]
    /\ cache' = [Look EXCEPT ![i] = name]
    /\ UNCHANGED <<folders, held, trees, known, active, chore>>

\* ds -d: the list of its files loads it; then they are moved, those of the trash to
\* where they are.
DeleteDataset(i) ==
    /\ i \in {0, 1} \cup Counted
    /\ i # active /\ Listable
    /\ i \in trees \/ HasPath(i)
    /\ Mount(i)
    /\ cache' = Look
    /\ chore' = IF Mounts(i) THEN [NoChore EXCEPT !.do = "empty", !.of = i,
                                                  !.list = IF i = 1 THEN {} ELSE known'[i]]
                ELSE NoChore
    /\ UNCHANGED <<label, held, active>>

\* One of the list goes to the trash; without a trash mv throws, and the command is
\* over.
MoveToTrash(s) ==
    LET i == chore.of
        Moved(f) == [f EXCEPT ![i] = @ \ {s}, ![1] = @ \cup {s}] IN
    /\ chore.do = "empty" /\ s \in chore.list
    /\ IF 1 \in folders
         THEN /\ held' = Moved(held) /\ known' = Moved(known)
              /\ chore' = [chore EXCEPT !.list = @ \ {s}]
         ELSE chore' = NoChore /\ UNCHANGED <<held, known>>
    /\ UNCHANGED <<folders, label, trees, called, cache, active>>

\* As Emptied, before the last file.
EmptiedMutantFirst == Cardinality(chore.list) <= 1

\* The loop over the list is over.  What else is in the folder is not looked at.
Emptied == chore.list = {}

\* deleteDataset: the folder, with what it has; the first one is not removed.
RemoveFolder ==
    LET i == chore.of IN
    /\ chore.do = "empty" /\ Emptied
    /\ chore' = NoChore
    /\ IF i = 0
         THEN UNCHANGED <<folders, held, label, trees, known, called, cache>>
         ELSE /\ folders' = folders \ {i}
              /\ held' = [held EXCEPT ![i] = {}]
              /\ label' = [label EXCEPT ![i] = NoName]
              /\ trees' = trees \ {i}
              /\ known' = [known EXCEPT ![i] = {}]
              /\ called' = [called EXCEPT ![i] = NoName]
              /\ cache' = [cache EXCEPT ![i] = NoName]
    /\ UNCHANGED active

\* mv throws for one of the files, or the NAME file cannot be written.
ChoreThrows ==
    /\ chore # NoChore
    /\ chore' = NoChore
    /\ UNCHANGED <<folders, label, held, trees, known, called, cache, active>>

\* git brings a secret of another computer to the folder of a dataset whose tree is
\* loaded and does not see it.  (One that comes earlier is in Holds; main is not removed,
\* and the trash goes with all it has.)
PullSecret(i, s) ==
    /\ i \in trees \ {0, 1} /\ \A j \in folders : s \notin held[j]
    /\ held' = [held EXCEPT ![i] = @ \cup {s}]
    /\ UNCHANGED <<folders, label, trees, known, called, cache, active, chore>>

DatasetCommand ==
    \/ Looks
    \/ \E name \in DsNames : CreateDataset(name)
    \/ \E i \in Indexes : UseDataset(i) \/ DeleteDataset(i)
    \/ \E i \in Indexes, name \in DsNames : RenameDataset(i, name)

DatasetStep == NameDataset \/ RemoveFolder \/ \E s \in Secrets : MoveToTrash(s)

-----------------------------------------------------------------------------
\* InternalFs: a tree of main and one of the trash, whose folder is made if it
\* can be; otherwise no session starts.
OpenDatasets ==
    /\ HasPath(1)
    /\ folders' = folders \cup {1}
    /\ trees' = {0, 1}
    /\ \E L0 \in Loads(0), L1 \in Loads(1) : known' = [known EXCEPT ![0] = L0, ![1] = L1]
    /\ UNCHANGED <<label, held, called, cache, active, chore>>

CloseDatasets ==
    /\ trees' = {} /\ known' = Nowhere /\ called' = [i \in Indexes |-> NoName] /\ cache' = called'
    /\ active' = 0 /\ chore' = NoChore
    /\ UNCHANGED <<folders, label, held>>

DatasetsTypeOK ==
    /\ folders \subseteq Indexes /\ trees \subseteq folders
    /\ {label, called, cache} \subseteq [Indexes -> DsNames \cup {NoName}]
    /\ {held, known} \subseteq [Indexes -> SUBSET Secrets]
    /\ active \in Indexes
    /\ chore \in [do : {"none", "name", "empty"}, of : Indexes, name : DsNames \cup {NoName},
                  list : SUBSET Secrets]

-----------------------------------------------------------------------------
\* Between commands a dataset has one name in memory, in the cache and on disk,
\* so that it is found under it in this session and in the next, and no two
\* have the same; also when one was removed and another made with its index.
\* Unless the trash was removed: the last dataset is then not in the list.
NamesAgree ==
    1 \in folders /\ chore = NoChore =>
      /\ \A i \in trees \ {0, 1} : called[i] = label[i]
      /\ \A i \in Counted \cap folders : NameOf(i) = label[i]
      /\ \A i, j \in folders : i # j /\ label[i] = label[j] => label[i] = NoName

\* Whatever is created, removed, interrupted or throws, a secret in a dataset is in
\* one dataset afterwards; but the trash goes with what it has, and with another
\* dataset goes what its tree does not list: all that is listed was moved before.
SecretsStay ==
    [][\A i \in folders \ {1} : \A s \in held[i] :
         \/ \E j \in folders' : s \in held'[j]
         \/ i \in trees /\ s \notin known[i]]_dsVars

\* "ds -l lists all datasets", by their names, while there is a trash.
ListsAll == chore = NoChore /\ 1 \in folders => folders \ {0, 1} = Counted /\ Listable
=============================================================================
