----------------------------- MODULE Desk_proofs -----------------------------
(***************************************************************************)
(* The session at the prompt, for any names, keys, documents, datasets and *)
(* numbers of commands: the books, the tags and the datasets agree with    *)
(* the disk, no document is lost, what was copied is gone.                 *)
(***************************************************************************)
EXTENDS Desk, TLAPS, FiniteSetTheorems

-----------------------------------------------------------------------------
(* The invariants                                                          *)

\* Nothing is running in a session that is over, or waits at the prompt.
Calm ==
  /\ prompt \in {"off", "asking", "calling", "busy", "lost"}
  /\ up = (prompt # "off")
  /\ prompt # "busy" => job = NoJob /\ todo = <<>> /\ chore = NoChore

\* An entry is in a file of its name; as long as the name is ours there is one file
\* of it at most, and in a session none but that of the entry.
BooksInv ==
  \A k \in Kinds, n \in Names :
    /\ Has(k, n) => Entry(k, n) \in Filed(k, n)
    /\ Ours(k, n) => \A f, g \in Filed(k, n) : f = g
    /\ up /\ Ours(k, n) => Filed(k, n) \subseteq {Entry(k, n)}

\* The contacts in the files, and the one that is about to be written, by the last
\* step of a command.
Contacted == {f \in files : f.kind = "contact"}

KeysInv ==
  foreign = {} =>
    /\ \A f, g \in Contacted : f.name # g.name => Distinct(f.holds, g.holds)
    /\ \A j \in DOMAIN todo : todo[j].do = "create" =>
         /\ j = Len(todo)
         /\ todo[j].kind = "contact" =>
              \A g \in Contacted : g.name # todo[j].name => Distinct(todo[j].holds, g.holds)

\* The tags are being saved, and the file before is deleted.
Saving == job.cmd = "tagged"

HasTop(S) == S = {} \/ \E f \in S : \A g \in S \ {f} : g.ts < f.ts

IsAFcn(f) == f = [x \in DOMAIN f |-> f[x]]

TagsInv ==
  /\ HasTop(tagFiles) /\ HasTop(tagFiles \ previous)
  /\ IsAFcn(tags) /\ \A f \in tagFiles : IsAFcn(f.holds)
  /\ ~cut /\ ~(Saving /\ previous # {}) => OnDisk = due
  /\ ~cut /\ ~Saving => previous \subseteq tagFiles
  /\ ~cut /\ ~changed /\ ~Saving /\ up => tags = due

\* Main and the trash have no name; what is not there has none; the names in memory
\* and in the cache are those on disk; no two are the same, and none is the name that
\* a new dataset is about to get.
NamesHold ==
  /\ 0 \in folders
  /\ ~up => trees = {}
  /\ \A i \in {0, 1} : label[i] = NoName /\ called[i] = NoName
  /\ \A i \in Indexes \ folders : label[i] = NoName
  /\ \A i \in trees : called[i] = label[i]
  /\ \A i \in Indexes \ trees : cache[i] \in {NoName, label[i]}
  /\ 1 \in folders => \A i, j \in folders : i # j /\ label[i] = label[j] => label[i] = NoName

NameComing ==
  chore.do = "name" =>
    /\ chore.of \in trees \ {0, 1}
    /\ 1 \in folders => \A j \in folders : label[j] # chore.name

\* What the tree of the dataset that is deleted still has is in the list.
Listing ==
  chore.do = "empty" =>
    /\ chore.of \in trees
    /\ chore.of # 1 => known[chore.of] \subseteq chore.list

DatasetsInv == NamesHold /\ NameComing /\ Listing

\* The files of an import that are to be removed are secrets, if they could be read;
\* and the items of a backup are secrets or are still to come.
Jobs == [cmd : {"none", "import", "expand", "tag", "tagged", "copy"},
         files : SUBSET (Docs \cup UNION {Items[x] : x \in Backups}), moved : SUBSET Docs,
         move : BOOLEAN, simulate : BOOLEAN, tag : BOOLEAN, of : {None} \cup Backups \cup Copies]

FilesInv ==
  /\ NothingVanishes
  /\ job.cmd = "import" => job.moved \ Sealed \subseteq stored
  /\ job.cmd = "expand" /\ job.move /\ ~job.simulate =>
       job.of \in Backups /\ Items[job.of] \ Pathless \subseteq stored \cup job.files
  /\ job.cmd \in {"tag", "tagged"} /\ job.move =>
       job.of \in Backups /\ Items[job.of] \ Pathless \subseteq stored

\* As long as no two copies cross, the last one is the only one that is not over, and
\* what is in the clipboard is the last text of the user, or its own; it then has the
\* last text of the user to put back.
Texts == {OldText, NewText} \cup (Copies \X Fields)

Holding(c) ==
  LET q == copies[c] IN
  /\ q.stage = "reading" => clip = own
  /\ q.stage = "writing" => clip = own /\ q.before = own
  /\ q.stage = "sleeping" => clip = own \/ (clip = Text(c) /\ q.before = own)
  /\ q.stage = "restoring" => q.before = own

CopiesAre == copies \in [Copies -> [stage : {"none", "reading", "writing", "sleeping", "restoring", "over"},
                                    fields : {0} \cup Fields, at : {0} \cup Fields,
                                    before : Texts]]

BoardInv ==
  /\ ~crossed => Live \subseteq {counter}
  /\ ~left /\ ~crossed => IF Live = {} THEN clip = own ELSE Holding(counter)
-----------------------------------------------------------------------------
(* What runs                                                               *)

\* A command begins at the prompt, or in an alias, and is alone.
LEMMA BeginsAlone ==
  ASSUME Calm, Begins
  PROVE  /\ up /\ prompt \in {"asking", "calling"} /\ prompt' = "busy"
         /\ job = NoJob /\ todo = <<>> /\ chore = NoChore
BY DEF Calm, Begins, Exec

LEMMA CommandsCalm ==
  ASSUME Calm, CommandBegins
  PROVE  Calm'
<1>1. Begins
  BY DEF CommandBegins, BooksCommand, DsCommand, ImportFiles, Expand, Tag, TagThrows, Copy
<1>2. up' = up
  <2>1. CASE BooksCommand \/ DsCommand
    BY <2>1 DEF BooksCommand, DsCommand, bookVars
  <2>2. CASE \E xs \in SUBSET Docs, move, simulate \in BOOLEAN : ImportFiles(xs, move, simulate)
    BY <2>2 DEF ImportFiles, kept, bookVars
  <2>3. CASE \E x \in Backups, move, simulate, tag \in BOOLEAN : Expand(x, move, simulate, tag)
    BY <2>3 DEF Expand, kept, bookVars
  <2>4. CASE \E t \in TagNames, nodes \in SUBSET stored : Tag(t, nodes)
    BY <2>4 DEF Tag, bookVars
  <2>5. CASE TagThrows
    BY <2>5 DEF TagThrows, kept, bookVars
  <2>6. CASE \E fields \in Fields, wait \in BOOLEAN : Copy(fields, wait)
    BY <2>6 DEF Copy, kept, bookVars
  <2> QED
    BY <2>1, <2>2, <2>3, <2>4, <2>5, <2>6 DEF CommandBegins
<1> QED
  BY <1>1, <1>2, BeginsAlone DEF Calm

\* The steps of a command, and what it waits for.
LEMMA WorksCalm ==
  ASSUME Calm, Works
  PROVE  Calm'
<1>1. CASE BooksStep
  <2>1. up' = up /\ UNCHANGED <<prompt, job, chore>> /\ todo # <<>>
    BY <1>1 DEF BooksStep, DoStep, Create, Puts, RemoveEntry, dsVars, console
  <2> QED
    BY <2>1 DEF Calm
<1>2. CASE DsStep
  <2>1. UNCHANGED <<up, todo, prompt, job>> /\ chore # NoChore
    BY <1>2 DEF DsStep, DatasetStep, NameDataset, RemoveFolder, MoveToTrash, bookVars, console, NoChore
  <2> QED
    BY <2>1 DEF Calm
<1>3. ASSUME NEW x \in Docs, ImportFile(x) \/ Unlink(x)
      PROVE  Calm'
  <2>1. UNCHANGED <<up, todo, chore, prompt>> /\ job # NoJob
    BY <1>3 DEF ImportFile, Unlink, kept, bookVars, dsVars, console, NoJob
  <2> QED
    BY <2>1 DEF Calm
<1>4. ASSUME NEW x \in Backups, NEW i \in Items[x], ExpandItem(i)
      PROVE  Calm'
  <2>1. UNCHANGED <<up, todo, chore, prompt>> /\ job # NoJob
    BY <1>4 DEF ExpandItem, bookVars, dsVars, console, NoJob
  <2> QED
    BY <2>1 DEF Calm
<1>5. CASE ImportEnds \/ ExpandEnds
  <2>1. UNCHANGED <<up, todo, chore, prompt>> /\ job # NoJob
    BY <1>5 DEF ImportEnds, ExpandEnds, kept, bookVars, dsVars, console, NoJob
  <2> QED
    BY <2>1 DEF Calm
<1>6. CASE SaveTags \/ TagsSaved
  <2>1. UNCHANGED <<up, todo, chore, prompt>> /\ job # NoJob
    <3>1. CASE SaveTags
      BY <3>1 DEF SaveTags, bookVars, dsVars, console, NoJob
    <3>2. CASE TagsSaved
      BY <3>2 DEF TagsSaved, bookVars, dsVars, console, NoJob
    <3> QED
      BY <1>6, <3>1, <3>2
  <2> QED
    BY <2>1 DEF Calm
<1>7. CASE CopyEnds
  <2>1. UNCHANGED <<up, todo, chore, prompt>> /\ job # NoJob
    BY <1>7 DEF CopyEnds, kept, bookVars, dsVars, console, NoJob
  <2> QED
    BY <2>1 DEF Calm
<1>8. CASE Ends
  <2>1. UNCHANGED <<up, todo, chore, job>> /\ prompt' \in {"calling", "asking"} /\ prompt = "busy"
    BY <1>8 DEF Ends, Run, kept, bookVars, dsVars
  <2> QED
    BY <1>8, <2>1 DEF Calm, Ends
<1>9. CASE GiveUp
  <2>1. UNCHANGED <<up, todo, chore, job>> /\ prompt' \in {"calling", "asking"} /\ prompt = "calling"
    BY <1>9 DEF GiveUp, Run, kept, bookVars, dsVars
  <2> QED
    BY <2>1 DEF Calm
<1>10. CASE SkipEmpty
  <2>1. UNCHANGED <<up, todo, chore, job>> /\ prompt' = "lost" /\ prompt = "calling"
    BY <1>10 DEF SkipEmpty, kept, bookVars, dsVars
  <2> QED
    BY <2>1 DEF Calm
<1> QED
  BY <1>1, <1>2, <1>3, <1>4, <1>5, <1>6, <1>7, <1>8, <1>9, <1>10 DEF Works

LEMMA CalmStep ==
  ASSUME Calm, [DeskNext]_deskVars
  PROVE  Calm'
<1>1. CASE StartSession
  <2>1. up' = TRUE /\ prompt' = "asking" /\ UNCHANGED <<job, todo, chore>> /\ prompt = "off"
    BY <1>1 DEF StartSession, Load, OpenDatasets, Calm
  <2> QED
    BY <2>1 DEF Calm
<1>2. ASSUME NEW ahead \in 1..2, NEW last \in {"command", "missing", "empty"}, CallAlias(ahead, last)
      PROVE  Calm'
  <2>1. prompt = "asking" /\ prompt' = "calling" /\ UNCHANGED <<up, todo, chore, job>>
    BY <1>2 DEF CallAlias, kept, bookVars, dsVars
  <2> QED
    BY <2>1 DEF Calm
<1>3. CASE ImportThrows \/ TagsNotSaved
  <2>1. UNCHANGED <<up, todo, chore, prompt>> /\ job # NoJob
    BY <1>3 DEF ImportThrows, TagsNotSaved, kept, bookVars, dsVars, console, NoJob
  <2> QED
    BY <2>1 DEF Calm
<1>4. CASE DsThrows
  <2>1. UNCHANGED <<up, todo, prompt, job>> /\ chore # NoChore
    BY <1>4 DEF DsThrows, ChoreThrows, bookVars, console
  <2> QED
    BY <2>1 DEF Calm
<1>5. ASSUME \/ \E c \in Copies : WriteAndWait(c)
             \/ UserCopies
             \/ \E i \in Indexes, s \in Secrets : PullFile(i, s)
      PROVE  Calm'
  <2>1. UNCHANGED <<up, todo, chore, job, prompt>>
    BY <1>5 DEF WriteAndWait, UserCopies, PullFile, PullSecret, kept, bookVars, dsVars, console
  <2> QED
    BY <2>1 DEF Calm
<1>6. CASE Quit \/ CrashSession
  <2>1. up' = FALSE /\ prompt' = "off" /\ job' = NoJob /\ todo' = <<>> /\ chore' = NoChore
    BY <1>6 DEF Quit, CrashSession, EndOfSession, CloseBooks, CloseDatasets
  <2> QED
    BY <2>1 DEF Calm
<1>7. CASE PullEntry
  <2>1. UNCHANGED <<up, todo, chore, job, prompt>>
    BY <1>7 DEF PullEntry, Pull, dsVars, console
  <2> QED
    BY <2>1 DEF Calm
<1>8. CASE UNCHANGED deskVars
  <2>1. UNCHANGED <<up, todo, chore, job, prompt>>
    BY <1>8 DEF deskVars, kept, bookVars, dsVars, console
  <2> QED
    BY <2>1 DEF Calm
<1>9. CASE BlankLine
  <2>1. UNCHANGED <<up, todo, chore, job>> /\ prompt' = "lost" /\ prompt = "asking"
    BY <1>9 DEF BlankLine, kept, bookVars, dsVars
  <2> QED
    BY <2>1 DEF Calm
<1> QED
  BY <1>1, <1>2, <1>3, <1>4, <1>5, <1>6, <1>7, <1>8, <1>9, CommandsCalm, WorksCalm DEF DeskNext

LEMMA AlwaysCalm == DeskSpec => []Calm
<1>1. DeskInit => Calm
  BY DEF DeskInit, BooksInit, DatasetsInit, Calm
<1> QED
  BY <1>1, CalmStep, PTL DEF DeskSpec

-----------------------------------------------------------------------------
(* The books                                                               *)

\* What a step of the session does to the books.
BooksDo ==
  \/ UNCHANGED bookVars
  \/ Load /\ todo = <<>>
  \/ up /\ (AliasCommand \/ ContactsCommand) /\ UNCHANGED <<book, files, written, foreign, up>>
  \/ up /\ DoStep
  \/ CloseBooks
  \/ \E k \in Kinds, n \in Names, holds \in Holdings : Pull(k, n, holds)

LEMMA BooksSteps ==
  ASSUME Calm, [DeskNext]_deskVars
  PROVE  BooksDo
<1>1. CASE StartSession
  BY <1>1 DEF StartSession, Calm, BooksDo
<1>2. ASSUME NEW ahead \in 1..2, NEW last \in {"command", "missing", "empty"}, CallAlias(ahead, last)
      PROVE  BooksDo
  BY <1>2 DEF CallAlias, kept, BooksDo
<1>3. CASE CommandBegins
  <2>1. CASE BooksCommand
    <3>1. up /\ todo = <<>>
      BY <2>1, BeginsAlone DEF BooksCommand
    <3> QED
      BY <2>1, <3>1 DEF BooksCommand, BooksDo, bookVars
  <2>2. CASE ~BooksCommand
    <3>1. UNCHANGED bookVars
      BY <1>3, <2>2 DEF CommandBegins, DsCommand, ImportFiles, Expand, Tag, TagThrows, Copy, kept
    <3> QED
      BY <3>1 DEF BooksDo
  <2> QED
    BY <2>1, <2>2
<1>4. CASE Works
  <2>1. CASE BooksStep
    <3>1. up
      BY <2>1 DEF BooksStep, DoStep, Calm
    <3> QED
      BY <2>1, <3>1 DEF BooksStep, BooksDo
  <2>2. CASE ~BooksStep
    <3>1. CASE SaveTags \/ TagsSaved \/ DsStep
      BY <3>1 DEF DsStep, SaveTags, TagsSaved, BooksDo
    <3>2. CASE ~(SaveTags \/ TagsSaved \/ DsStep)
      BY <1>4, <2>2, <3>2 DEF Works, ImportFile, Unlink, ExpandItem, ImportEnds, ExpandEnds, CopyEnds,
                              Ends, GiveUp, SkipEmpty, kept, BooksDo
    <3> QED
      BY <3>1, <3>2
  <2> QED
    BY <2>1, <2>2
<1>5. CASE ImportThrows \/ TagsNotSaved \/ DsThrows
  BY <1>5 DEF ImportThrows, TagsNotSaved, DsThrows, kept, BooksDo
<1>6. ASSUME \/ \E c \in Copies : WriteAndWait(c)
             \/ UserCopies
             \/ \E i \in Indexes, s \in Secrets : PullFile(i, s)
      PROVE  BooksDo
  BY <1>6 DEF WriteAndWait, UserCopies, PullFile, kept, BooksDo
<1>7. CASE Quit \/ CrashSession
  BY <1>7 DEF Quit, CrashSession, EndOfSession, BooksDo
<1>8. CASE PullEntry
  BY <1>8 DEF PullEntry, BooksDo, Kinds, Holdings
<1>9. CASE UNCHANGED deskVars
  BY <1>9 DEF deskVars, kept, BooksDo
<1>10. CASE BlankLine
  BY <1>10 DEF BlankLine, kept, BooksDo
<1> QED
  BY <1>1, <1>2, <1>3, <1>4, <1>5, <1>6, <1>7, <1>8, <1>9, <1>10 DEF DeskNext

\* The entry of a name is a file of the folder that has it.
LEMMA EntryFiled ==
  ASSUME BooksTypeOK, NEW k \in Kinds, NEW n \in Names, Has(k, n)
  PROVE  Entry(k, n) \in Files /\ Entry(k, n).holds \in Holdings
BY DEF BooksTypeOK, Has, Entry, Files

LEMMA StepType ==
  ASSUME NEW do \in {"remove", "create"}, NEW k \in Kinds, NEW n \in Names, NEW holds \in Holdings
  PROVE  Step(do, k, n, holds) \in Steps
BY DEF Step, Steps

LEMMA NothingHeld == Nothing \in Holdings
BY DEF Nothing, Holdings

\* The steps of a command.
LEMMA CommandSteps ==
  ASSUME BooksTypeOK, AliasCommand \/ ContactsCommand
  PROVE  todo' \in Seq(Steps) /\ Len(todo') <= 2
<1> DEFINE One(s) == <<s>>
           Two(s, t) == <<s, t>>
<1>1. \A s \in Steps : One(s) \in Seq(Steps) /\ Len(One(s)) = 1
  OBVIOUS
<1>2. \A s, t \in Steps : Two(s, t) \in Seq(Steps) /\ Len(Two(s, t)) = 2
  OBVIOUS
<1>3. ASSUME NEW n \in Names, NEW line \in Lines, AddAlias(n, line)
      PROVE  todo' \in Seq(Steps) /\ Len(todo') <= 2
  <2>1. [key |-> line, url |-> None] \in Holdings
    BY DEF Holdings
  <2> QED
    BY <1>1, <1>3, <2>1, StepType DEF AddAlias, Kinds
<1>4. ASSUME NEW k \in Kinds, NEW n \in Names, Delete(k, n)
      PROVE  todo' \in Seq(Steps) /\ Len(todo') <= 2
  BY <1>1, <1>4, NothingHeld, StepType DEF Delete
<1>5. ASSUME NEW k \in Kinds, NEW n \in Names, NEW m \in Names, NEW holds, Rename(k, n, m, holds),
             Has(k, n) => holds \in Holdings
      PROVE  todo' \in Seq(Steps) /\ Len(todo') <= 2
  BY <1>2, <1>5, NothingHeld, StepType DEF Rename
<1>6. ASSUME NEW n \in Names, NEW key \in Keys, NEW url \in Urls \cup {None}, AddContact(n, key, url)
      PROVE  todo' \in Seq(Steps) /\ Len(todo') <= 2
  <2>1. [key |-> key, url |-> url] \in Holdings
    BY DEF Holdings
  <2> QED
    BY <1>1, <1>6, <2>1, StepType DEF AddContact, Kinds
<1>7. ASSUME NEW n \in Names, NEW key \in Keys \cup {None}, NEW url \in Urls \cup {None},
             UpdateContact(n, key, url)
      PROVE  todo' \in Seq(Steps) /\ Len(todo') <= 2
  <2> DEFINE is == IF key # None THEN key ELSE Entry("contact", n).holds.key
  <2>1. Entry("contact", n).holds \in Holdings
    BY <1>7, EntryFiled DEF UpdateContact, Kinds
  <2>2. [key |-> is, url |-> url] \in Holdings
    BY <2>1 DEF Holdings
  <2>3. todo' = Two(Step("remove", "contact", n, Nothing), Step("create", "contact", n, [key |-> is, url |-> url]))
    BY <1>7 DEF UpdateContact
  <2> QED
    BY <1>2, <2>2, <2>3, NothingHeld, StepType DEF Kinds
<1>8. CASE AliasCommand
  BY <1>3, <1>4, <1>5, <1>8, EntryFiled DEF AliasCommand, RenameAlias, Kinds
<1>9. CASE ContactsCommand
  BY <1>4, <1>5, <1>6, <1>7, <1>9, NothingHeld DEF ContactsCommand, RenameContact, Kinds
<1> QED
  BY <1>8, <1>9

LEMMA NoSteps == <<>> \in Seq(Steps) /\ Len(<<>>) <= 2 /\ DOMAIN <<>> = {}
OBVIOUS

\* A step of a command, or one that throws.
LEMMA StepsLeft ==
  ASSUME BooksTypeOK, DoStep
  PROVE  /\ Head(todo) \in Steps
         /\ todo' \in {<<>>, Tail(todo)}
         /\ todo' \in Seq(Steps) /\ Len(todo') <= 2
         /\ \A j \in DOMAIN todo' : j + 1 \in DOMAIN todo /\ todo'[j] = todo[j + 1]
         /\ todo' # <<>> => Len(todo') = Len(todo) - 1
<1>1. todo \in Seq(Steps) /\ todo # <<>> /\ Len(todo) <= 2
  BY DEF BooksTypeOK, DoStep
<1>2. todo' \in {<<>>, Tail(todo)}
  BY DEF DoStep, Create, Puts, RemoveEntry
<1>3. /\ Tail(todo) \in Seq(Steps) /\ Len(Tail(todo)) = Len(todo) - 1
      /\ Head(todo) \in Steps
      /\ \A j \in DOMAIN Tail(todo) : j + 1 \in DOMAIN todo /\ Tail(todo)[j] = todo[j + 1]
  BY <1>1
<1>4. Len(todo) \in Nat
  BY <1>1
<1>5. CASE todo' = <<>>
  BY <1>3, <1>5, NoSteps, Zenon
<1>6. CASE todo' = Tail(todo)
  <2>1. Len(Tail(todo)) <= 2
    BY <1>1, <1>3, <1>4
  <2> QED
    BY <1>3, <1>6, <2>1, Zenon
<1> QED
  BY <1>2, <1>5, <1>6

\* The type of the books.
LEMMA BooksTypes ==
  ASSUME BooksTypeOK, BooksDo
  PROVE  BooksTypeOK'
<1>1. CASE UNCHANGED bookVars
  BY <1>1 DEF BooksTypeOK, bookVars
<1>2. CASE Load
  <2>1. book' \in [Kinds -> [Names -> Files \cup {None}]]
    BY <1>2 DEF Load, BooksTypeOK
  <2> QED
    BY <1>2, <2>1 DEF Load, BooksTypeOK
<1>3. CASE (AliasCommand \/ ContactsCommand) /\ UNCHANGED <<book, files, written, foreign, up>>
  BY <1>3, CommandSteps DEF BooksTypeOK
<1>4. CASE DoStep
  <2> DEFINE s == Head(todo)
             f == [kind |-> s.kind, name |-> s.name, holds |-> s.holds, id |-> written + 1]
  <2>1. s \in Steps /\ todo' \in Seq(Steps) /\ Len(todo') <= 2
    BY <1>4, StepsLeft
  <2>2. UNCHANGED <<foreign, up>>
    BY <1>4 DEF DoStep, Create, Puts, RemoveEntry
  <2>3. CASE s.do = "create" /\ ~Has(s.kind, s.name)
    <3>1. written' = written + 1 /\ written < MaxFiles /\ files' = files \cup {f}
          /\ book' = [book EXCEPT ![s.kind][s.name] = f]
      BY <1>4, <2>3 DEF DoStep, Create, Puts
    <3>2. written + 1 \in 1..MaxFiles /\ written + 1 \in 0..MaxFiles
      BY <3>1, BooksAssumption DEF BooksTypeOK
    <3>3. f \in Files
      BY <2>1, <3>2 DEF Steps, Files
    <3>4. book' \in [Kinds -> [Names -> Files \cup {None}]]
      BY <2>1, <3>1, <3>3 DEF BooksTypeOK, Steps
    <3> QED
      BY <2>1, <2>2, <3>1, <3>2, <3>3, <3>4 DEF BooksTypeOK
  <2>4. CASE s.do = "create" /\ Has(s.kind, s.name)
    BY <1>4, <2>1, <2>4 DEF DoStep, Create, BooksTypeOK
  <2>5. CASE s.do # "create"
    <3>1. files' \subseteq files /\ written' = written /\ book' = [book EXCEPT ![s.kind][s.name] = None]
      BY <1>4, <2>5 DEF DoStep, RemoveEntry
    <3>2. book' \in [Kinds -> [Names -> Files \cup {None}]]
      BY <2>1, <3>1 DEF BooksTypeOK, Steps
    <3> QED
      BY <2>1, <2>2, <3>1, <3>2 DEF BooksTypeOK
  <2> QED
    BY <2>3, <2>4, <2>5
<1>5. CASE CloseBooks
  BY <1>5, NoSteps DEF CloseBooks, Empty, BooksTypeOK
<1>6. ASSUME NEW k \in Kinds, NEW n \in Names, NEW holds \in Holdings, Pull(k, n, holds)
      PROVE  BooksTypeOK'
  <2> DEFINE f == [kind |-> k, name |-> n, holds |-> holds, id |-> written + 1]
  <2>1. written + 1 \in 1..MaxFiles /\ written + 1 \in 0..MaxFiles
    BY <1>6, BooksAssumption DEF Pull, BooksTypeOK
  <2>2. f \in Files
    BY <2>1 DEF Files
  <2> QED
    BY <1>6, <2>1, <2>2 DEF Pull, BooksTypeOK
<1> QED
  BY <1>1, <1>2, <1>3, <1>4, <1>5, <1>6 DEF BooksDo

\* What a step of a command does to the files and to the entries of each name.
LEMMA StepDone ==
  ASSUME BooksTypeOK, DoStep
  PROVE  LET s == Head(todo) IN
         /\ s.kind \in Kinds /\ s.name \in Names
         /\ UNCHANGED <<foreign, up>>
         /\ \/ UNCHANGED <<book, files>>
            \/ /\ s.do = "create" /\ ~Has(s.kind, s.name)
               /\ \E f \in Files : /\ f.kind = s.kind /\ f.name = s.name /\ f.holds = s.holds
                                   /\ files' = files \cup {f}
                                   /\ book' = [book EXCEPT ![s.kind][s.name] = f]
            \/ /\ files' = files \ {Entry(s.kind, s.name)}
               /\ book' = [book EXCEPT ![s.kind][s.name] = None]
<1> DEFINE s == Head(todo)
           f == [kind |-> s.kind, name |-> s.name, holds |-> s.holds, id |-> written + 1]
<1>1. s \in Steps
  BY StepsLeft
<1>2. UNCHANGED <<foreign, up>>
  BY DEF DoStep, Create, Puts, RemoveEntry
<1>3. CASE s.do = "create" /\ Has(s.kind, s.name)
  BY <1>1, <1>2, <1>3 DEF DoStep, Create, Steps
<1>4. CASE s.do = "create" /\ ~Has(s.kind, s.name)
  <2>1. written < MaxFiles /\ files' = files \cup {f} /\ book' = [book EXCEPT ![s.kind][s.name] = f]
    BY <1>4 DEF DoStep, Create, Puts
  <2>2. written + 1 \in 1..MaxFiles
    BY <2>1, BooksAssumption DEF BooksTypeOK
  <2>3. f \in Files
    BY <1>1, <2>2 DEF Steps, Files
  <2>4. f.kind = s.kind /\ f.name = s.name /\ f.holds = s.holds
    OBVIOUS
  <2> HIDE DEF f
  <2> QED
    BY <1>1, <1>2, <1>4, <2>1, <2>3, <2>4 DEF Steps
<1>5. CASE s.do # "create"
  BY <1>1, <1>2, <1>5 DEF DoStep, RemoveEntry, Steps
<1> QED
  BY <1>3, <1>4, <1>5

LEMMA BooksStepKept ==
  ASSUME BooksTypeOK, BooksInv, up, DoStep
  PROVE  BooksInv'
<1> DEFINE s == Head(todo)
<1>1. s.kind \in Kinds /\ s.name \in Names /\ UNCHANGED <<foreign, up>>
  BY StepDone
<1> HIDE DEF s
<1> SUFFICES ASSUME NEW k \in Kinds, NEW n \in Names
             PROVE  /\ Has(k, n)' => Entry(k, n)' \in Filed(k, n)'
                    /\ Ours(k, n)' => \A f, g \in Filed(k, n)' : f = g
                    /\ up' /\ Ours(k, n)' => Filed(k, n)' \subseteq {Entry(k, n)'}
  BY DEF BooksInv
<1>2. Ours(k, n)' <=> Ours(k, n)
  BY <1>1 DEF Ours
<1>3. /\ Has(k, n) => Entry(k, n) \in Filed(k, n)
      /\ Ours(k, n) => Filed(k, n) \subseteq {Entry(k, n)}
  BY DEF BooksInv
<1>4. None \notin files /\ None \notin Files
  BY BeforeAssumption DEF BooksTypeOK
<1>5. CASE UNCHANGED <<book, files>>
  BY <1>1, <1>2, <1>3, <1>5 DEF Has, Entry, Filed
<1>6. ASSUME NEW f \in Files, f.kind = s.kind, f.name = s.name, files' = files \cup {f},
             book' = [book EXCEPT ![s.kind][s.name] = f], ~Has(s.kind, s.name)
      PROVE  /\ Has(k, n)' => Entry(k, n)' \in Filed(k, n)'
             /\ Ours(k, n)' => Filed(k, n)' \subseteq {Entry(k, n)'}
  <2>1. CASE k = s.kind /\ n = s.name
    <3>1. Entry(k, n)' = f /\ Filed(k, n)' = Filed(k, n) \cup {f}
      BY <1>1, <1>6, <2>1 DEF BooksTypeOK, Entry, Filed
    <3>2. Ours(k, n) => Filed(k, n) = {}
      BY <1>3, <1>4, <1>6, <2>1 DEF Has, Filed
    <3> QED
      BY <1>2, <3>1, <3>2
  <2>2. CASE ~(k = s.kind /\ n = s.name)
    <3>1. Entry(k, n)' = Entry(k, n)
      BY <1>1, <1>6, <2>2 DEF BooksTypeOK, Entry
    <3>2. Filed(k, n)' = Filed(k, n)
      BY <1>6, <2>2 DEF Filed
    <3> QED
      BY <1>2, <1>3, <3>1, <3>2 DEF Has
  <2> QED
    BY <2>1, <2>2
<1>7. ASSUME files' = files \ {Entry(s.kind, s.name)}, book' = [book EXCEPT ![s.kind][s.name] = None]
      PROVE  /\ Has(k, n)' => Entry(k, n)' \in Filed(k, n)'
             /\ Ours(k, n)' => Filed(k, n)' \subseteq {Entry(k, n)'}
  <2>1. CASE k = s.kind /\ n = s.name
    <3>1. Entry(k, n)' = None /\ Filed(k, n)' = Filed(k, n) \ {Entry(k, n)}
      BY <1>1, <1>7, <2>1 DEF BooksTypeOK, Entry, Filed
    <3> QED
      BY <1>2, <1>3, <3>1 DEF Has
  <2>2. CASE ~(k = s.kind /\ n = s.name)
    <3>1. Entry(k, n)' = Entry(k, n)
      BY <1>1, <1>7, <2>2 DEF BooksTypeOK, Entry
    <3>2. Entry(s.kind, s.name) \notin Filed(k, n)
      <4>1. CASE Has(s.kind, s.name)
        <5>1. Entry(s.kind, s.name).kind = s.kind /\ Entry(s.kind, s.name).name = s.name
          BY <1>1, <4>1 DEF BooksInv, Filed
        <5> QED
          BY <2>2, <5>1 DEF Filed
      <4>2. CASE ~Has(s.kind, s.name)
        BY <1>4, <4>2 DEF Has, Filed
      <4> QED
        BY <4>1, <4>2
    <3>3. Filed(k, n)' = Filed(k, n)
      BY <1>7, <3>2 DEF Filed
    <3> QED
      BY <1>2, <1>3, <3>1, <3>3 DEF Has
  <2> QED
    BY <2>1, <2>2
<1>8. /\ Has(k, n)' => Entry(k, n)' \in Filed(k, n)'
      /\ Ours(k, n)' => Filed(k, n)' \subseteq {Entry(k, n)'}
  BY <1>5, <1>6, <1>7, StepDone DEF s
<1> QED
  BY <1>8

LEMMA BooksKept ==
  ASSUME BooksTypeOK, BooksInv, BooksDo
  PROVE  BooksInv'
<1>1. CASE UNCHANGED <<book, files, foreign, up>>
  BY <1>1 DEF BooksInv, Has, Entry, Filed, Ours
<1>2. CASE Load
  <2> SUFFICES ASSUME NEW k \in Kinds, NEW n \in Names
               PROVE  /\ Has(k, n)' => Entry(k, n)' \in Filed(k, n)'
                      /\ Ours(k, n)' => \A f, g \in Filed(k, n)' : f = g
                      /\ up' /\ Ours(k, n)' => Filed(k, n)' \subseteq {Entry(k, n)'}
    BY DEF BooksInv
  <2>1. Filed(k, n)' = Filed(k, n) /\ (Ours(k, n)' <=> Ours(k, n))
    BY <1>2 DEF Load, Filed, Ours
  <2>2. IF Filed(k, n) = {} THEN book'[k][n] = None ELSE book'[k][n] \in Filed(k, n)
    BY <1>2 DEF Load
  <2>3. Ours(k, n) => \A f, g \in Filed(k, n) : f = g
    BY DEF BooksInv
  <2> QED
    BY <2>1, <2>2, <2>3 DEF Has, Entry
<1>3. CASE CloseBooks
  <2>1. \A k \in Kinds, n \in Names : book'[k][n] = None
    BY <1>3 DEF CloseBooks, Empty
  <2> QED
    BY <1>3, <2>1 DEF CloseBooks, BooksInv, Has, Entry, Filed, Ours
<1>4. ASSUME NEW k \in Kinds, NEW n \in Names, NEW holds \in Holdings, Pull(k, n, holds)
      PROVE  BooksInv'
  <2> DEFINE f == [kind |-> k, name |-> n, holds |-> holds, id |-> written + 1]
  <2>1. files' = files \cup {f} /\ foreign' = foreign \cup {f} /\ UNCHANGED <<book, up>>
    BY <1>4 DEF Pull
  <2>2. f.kind = k /\ f.name = n
    OBVIOUS
  <2> HIDE DEF f
  <2>3. ~Ours(k, n)'
    BY <2>1, <2>2 DEF Ours
  <2>4. Filed(k, n) \subseteq Filed(k, n)'
    BY <2>1 DEF Filed
  <2>5. \A i \in Kinds, m \in Names : i # k \/ m # n => /\ Filed(i, m)' = Filed(i, m)
                                                        /\ Ours(i, m)' => Ours(i, m)
    BY <2>1, <2>2 DEF Filed, Ours
  <2>6. \A i \in Kinds, m \in Names : Entry(i, m)' = Entry(i, m)
    BY <2>1 DEF Entry
  <2> QED
    BY <2>1, <2>3, <2>4, <2>5, <2>6 DEF BooksInv, Has
<1> QED
  BY <1>1, <1>2, <1>3, <1>4, BooksStepKept DEF BooksDo, bookVars

\* A contact that may be written, unless another holds its public key or its url.
Fits(n, holds) == \A g \in Contacted : g.name # n => Distinct(holds, g.holds)

\* What a command that writes a contact has checked, it has checked of the files.
LEMMA CheckedFits ==
  ASSUME BooksTypeOK, BooksInv, up, foreign = {}, NEW n \in Names, NEW key, NEW url,
         ~AlreadyExists(n, key, url)
  PROVE  Fits(n, [key |-> key, url |-> url])
<1> SUFFICES ASSUME NEW g \in Contacted, g.name # n
             PROVE  Distinct([key |-> key, url |-> url], g.holds)
  BY DEF Fits
<1>1. g \in Files /\ g.kind = "contact" /\ g.name \in Names /\ g \in Filed("contact", g.name)
  BY DEF BooksTypeOK, Contacted, Files, Filed
<1>2. Entry("contact", g.name) = g
  BY <1>1 DEF BooksInv, Ours, Kinds
<1>3. g.name \in Contacts
  BY <1>1, <1>2, BeforeAssumption DEF Contacts, Has
<1> QED
  BY <1>2, <1>3 DEF AlreadyExists, Distinct

LEMMA NothingFits == \A n : Fits(n, Nothing)
BY DEF Fits, Nothing, Distinct

\* The contacts a command is going to write fit.
LEMMA CommandFits ==
  ASSUME BooksTypeOK, BooksInv, up, foreign = {}, AliasCommand \/ ContactsCommand,
         NEW j \in DOMAIN todo', todo'[j].do = "create"
  PROVE  j = Len(todo') /\ (todo'[j].kind = "contact" => Fits(todo'[j].name, todo'[j].holds))
<1> DEFINE r(k, n) == Step("remove", k, n, Nothing)
           w(k, n, h) == Step("create", k, n, h)
           Goal == j = Len(todo') /\ (todo'[j].kind = "contact" => Fits(todo'[j].name, todo'[j].holds))
<1>1. \A k, n, h : w(k, n, h).do = "create" /\ w(k, n, h).kind = k /\ w(k, n, h).name = n /\ w(k, n, h).holds = h
  BY DEF Step
<1>2. \A k, n : r(k, n).do = "remove"
  BY DEF Step
<1> HIDE DEF r, w
<1>3. ASSUME NEW s, todo' = <<s>>
      PROVE  j = Len(todo') /\ todo'[j] = s
  BY <1>3
<1>4. ASSUME NEW s, NEW t, todo' = <<s, t>>, s.do # "create"
      PROVE  j = Len(todo') /\ todo'[j] = t
  BY <1>4
<1>5. ASSUME NEW n \in Names, NEW line \in Lines, AddAlias(n, line)
      PROVE  Goal
  BY <1>1, <1>3, <1>5 DEF AddAlias, w
<1>6. ASSUME NEW k \in Kinds, NEW n \in Names, Delete(k, n)
      PROVE  Goal
  BY <1>2, <1>3, <1>6 DEF Delete, r
<1>7. ASSUME NEW k \in Kinds, NEW n \in Names, NEW m \in Names, NEW holds, Rename(k, n, m, holds),
             k = "contact" => holds = Nothing
      PROVE  Goal
  <2>1. todo' = <<r(k, n), w(k, m, holds)>>
    BY <1>7 DEF Rename, r, w
  <2> QED
    BY <1>1, <1>2, <1>4, <1>7, <2>1, NothingFits
<1>8. ASSUME NEW n \in Names, NEW key \in Keys, NEW url \in Urls \cup {None}, AddContact(n, key, url)
      PROVE  Goal
  <2>1. todo' = <<w("contact", n, [key |-> key, url |-> url])>> /\ ~AlreadyExists(n, key, url)
    BY <1>8 DEF AddContact, w
  <2>2. Fits(n, [key |-> key, url |-> url])
    BY <2>1, CheckedFits
  <2> QED
    BY <1>1, <1>3, <2>1, <2>2
<1>9. ASSUME NEW n \in Names, NEW key \in Keys \cup {None}, NEW url \in Urls \cup {None},
             UpdateContact(n, key, url)
      PROVE  Goal
  <2> DEFINE is == IF key # None THEN key ELSE Entry("contact", n).holds.key
  <2>1. /\ todo' = <<r("contact", n), w("contact", n, [key |-> is, url |-> url])>>
        /\ ~AlreadyExists(n, is, url)
    BY <1>9 DEF UpdateContact, r, w
  <2> HIDE DEF is
  <2>2. Fits(n, [key |-> is, url |-> url])
    BY <2>1, CheckedFits
  <2> QED
    BY <1>1, <1>2, <1>4, <2>1, <2>2
<1>10. CASE AliasCommand
  BY <1>5, <1>6, <1>7, <1>10 DEF AliasCommand, RenameAlias, Kinds
<1>11. CASE ContactsCommand
  BY <1>6, <1>7, <1>8, <1>9, <1>11 DEF ContactsCommand, RenameContact, Kinds
<1> QED
  BY <1>10, <1>11

LEMMA KeysStepKept ==
  ASSUME BooksTypeOK, KeysInv, DoStep, foreign = {}
  PROVE  KeysInv'
<1> DEFINE s == Head(todo)
<1>1. todo # <<>> /\ todo \in Seq(Steps) /\ 1 \in DOMAIN todo /\ s = todo[1]
  BY DEF DoStep, BooksTypeOK
<1>2. \A j \in DOMAIN todo' : j + 1 \in DOMAIN todo /\ todo'[j] = todo[j + 1]
  BY StepsLeft
<1>3. s.kind \in Kinds /\ foreign' = {}
  BY StepDone
<1>4. /\ s.do = "create" /\ s.kind = "contact" => Fits(s.name, s.holds)
      /\ \A j \in DOMAIN todo' : todo'[j].do = "create" /\ todo'[j].kind = "contact" =>
            Fits(todo'[j].name, todo'[j].holds)
  BY <1>1, <1>2 DEF KeysInv, Fits
<1>5. \A j \in DOMAIN todo' : todo'[j].do = "create" => j = Len(todo')
  <2> SUFFICES ASSUME NEW j \in DOMAIN todo', todo'[j].do = "create"
               PROVE  j = Len(todo')
    OBVIOUS
  <2>1. j + 1 = Len(todo)
    BY <1>2 DEF KeysInv
  <2>2. todo' \in Seq(Steps) /\ todo' # <<>> /\ j \in Nat
    BY StepsLeft
  <2> QED
    BY <1>1, <2>1, <2>2, StepsLeft
<1> HIDE DEF s
<1>6. CASE files' \subseteq files
  <2>1. Contacted' \subseteq Contacted
    BY <1>6 DEF Contacted
  <2> QED
    BY <1>3, <1>4, <1>5, <2>1 DEF KeysInv, Fits
<1>7. ASSUME NEW f \in Files, s.do = "create", f.kind = s.kind, f.name = s.name, f.holds = s.holds,
             files' = files \cup {f}
      PROVE  KeysInv'
  <2>1. CASE s.kind # "contact"
    <3>1. Contacted' = Contacted
      BY <1>7, <2>1 DEF Contacted
    <3> QED
      BY <1>3, <1>4, <1>5, <3>1 DEF KeysInv, Fits
  <2>2. CASE s.kind = "contact"
    <3>1. Contacted' = Contacted \cup {f}
      BY <1>7, <2>2 DEF Contacted
    <3>2. \A g \in Contacted : g.name # f.name => Distinct(f.holds, g.holds) /\ Distinct(g.holds, f.holds)
      BY <1>4, <1>7, <2>2 DEF Fits, Distinct
    <3>3. DOMAIN todo' = {}
      <4>1. Len(todo) = 1
        BY <1>1, <1>7 DEF KeysInv, s
      <4>2. \A j \in DOMAIN todo' : FALSE
        BY <1>1, <1>2, <4>1, StepsLeft
      <4> QED
        BY <4>2
    <3> QED
      BY <1>3, <3>1, <3>2, <3>3 DEF KeysInv
  <2> QED
    BY <2>1, <2>2
<1> QED
  BY <1>6, <1>7, StepDone DEF s

LEMMA KeysKept ==
  ASSUME BooksTypeOK, BooksInv, KeysInv, BooksDo
  PROVE  KeysInv'
<1>1. CASE UNCHANGED bookVars
  BY <1>1 DEF bookVars, KeysInv, Contacted
<1>2. CASE Load
  BY <1>2 DEF Load, KeysInv, Contacted
<1>3. CASE up /\ (AliasCommand \/ ContactsCommand) /\ UNCHANGED <<book, files, written, foreign, up>>
  <2>1. Contacted' = Contacted
    BY <1>3 DEF Contacted
  <2>2. foreign = {} => \A j \in DOMAIN todo' : todo'[j].do = "create" =>
          j = Len(todo') /\ (todo'[j].kind = "contact" => Fits(todo'[j].name, todo'[j].holds))
    BY <1>3, CommandFits
  <2> QED
    BY <1>3, <2>1, <2>2 DEF KeysInv, Fits
<1>4. CASE DoStep
  <2>1. CASE foreign = {}
    BY <1>4, <2>1, KeysStepKept
  <2>2. CASE foreign # {}
    BY <1>4, <2>2, StepDone DEF KeysInv
  <2> QED
    BY <2>1, <2>2
<1>5. CASE CloseBooks
  BY <1>5, NoSteps DEF CloseBooks, KeysInv, Contacted
<1>6. ASSUME NEW k \in Kinds, NEW n \in Names, NEW holds \in Holdings, Pull(k, n, holds)
      PROVE  KeysInv'
  BY <1>6 DEF Pull, KeysInv
<1> QED
  BY <1>1, <1>2, <1>3, <1>4, <1>5, <1>6 DEF BooksDo

LEMMA BooksBegin ==
  ASSUME DeskInit
  PROVE  BooksTypeOK /\ BooksInv /\ KeysInv
<1>1. BooksInit
  BY DEF DeskInit
<1>2. Cardinality(Before) \in 0..MaxFiles
  BY FS_CardinalityType, BeforeAssumption, BooksAssumption
<1>3. BooksTypeOK
  BY <1>1, <1>2, NoSteps, BeforeAssumption DEF BooksInit, BooksTypeOK, Empty
<1>4. BooksInv
  <2>1. \A k \in Kinds, n \in Names : ~Has(k, n)
    BY <1>1 DEF BooksInit, Empty, Has, Entry
  <2>2. \A f, g \in files : f.kind = g.kind /\ f.name = g.name => f = g
    BY <1>1, BeforeAssumption DEF BooksInit
  <2>3. ~up
    BY <1>1 DEF BooksInit
  <2> QED
    BY <2>1, <2>2, <2>3 DEF BooksInv, Filed
<1>5. KeysInv
  <2>1. \A f, g \in Contacted : f # g => Distinct(f.holds, g.holds)
    BY <1>1, BeforeAssumption DEF BooksInit, Contacted
  <2> QED
    BY <1>1, <2>1, NoSteps DEF BooksInit, KeysInv
<1> QED
  BY <1>3, <1>4, <1>5

LEMMA BooksAlways == DeskSpec => [](Calm /\ BooksTypeOK /\ BooksInv /\ KeysInv)
<1>1. Calm /\ BooksTypeOK /\ BooksInv /\ KeysInv /\ [DeskNext]_deskVars
        => (BooksTypeOK /\ BooksInv /\ KeysInv)'
  BY BooksSteps, BooksTypes, BooksKept, KeysKept
<1> QED
  BY <1>1, BooksBegin, AlwaysCalm, PTL DEF DeskSpec

\* Between the commands of a session the aliases and the contacts in memory are what
\* the folders have, whatever command a session before was cut in: DataCache removes
\* the file of an entry with the entry, and no name has two files of ours.
THEOREM BooksAndFolders == DeskSpec => []BooksAgree
<1>1. BooksInv => BooksAgree
  <2> SUFFICES ASSUME BooksInv, up, NEW k \in Kinds, NEW n \in Names
               PROVE  /\ Has(k, n) => Entry(k, n) \in files
                      /\ Ours(k, n) => Filed(k, n) \subseteq {Entry(k, n)}
    BY DEF BooksAgree
  <2> QED
    BY DEF BooksInv, Filed
<1> QED
  BY <1>1, BooksAlways, PTL

\* Through any sequence of commands no public key and no url belongs to two contacts,
\* also when one is updated by removing it and writing it again.
THEOREM NoKeyTwice == DeskSpec => []OneKeyEach
<1>1. BooksInv /\ KeysInv => OneKeyEach
  <2> SUFFICES ASSUME BooksInv, KeysInv, foreign = {}, NEW n \in Contacts, NEW m \in Contacts, n # m
               PROVE  Distinct(Entry("contact", n).holds, Entry("contact", m).holds)
    BY DEF OneKeyEach
  <2>1. Entry("contact", n) \in Filed("contact", n) /\ Entry("contact", m) \in Filed("contact", m)
    BY DEF BooksInv, Contacts, Kinds
  <2> QED
    BY <2>1 DEF KeysInv, Filed, Contacted
<1> QED
  BY <1>1, BooksAlways, PTL

-----------------------------------------------------------------------------
(* The tags                                                                *)

\* What a step of the session does to the tags, and to the save that is running.
TagsDo ==
  \/ UNCHANGED <<tagVars, up>> /\ (Saving' <=> Saving)
  \/ LoadTags /\ ~up /\ ~Saving /\ ~Saving'
  \/ /\ \E t \in TagNames : \E nodes : AddTag(t, nodes) \/ RemoveTag(t, nodes)
     /\ ~Saving /\ ~Saving' /\ up' = up
  \/ UnsaveTags /\ ~Saving /\ Saving' /\ up' = up
  \/ WriteTags /\ Saving /\ ~Saving' /\ up' = up
  \/ WriteTagsFails /\ Saving /\ ~Saving' /\ up' = up
  \/ ForgetTags(Saving) /\ ~Saving' /\ ~up'

LEMMA TagsBegins ==
  ASSUME Calm, CommandBegins
  PROVE  TagsDo
<1>1. ~Saving /\ up' = up /\ Begins
  <2>1. Begins
    BY DEF CommandBegins, BooksCommand, DsCommand, ImportFiles, Expand, Tag, TagThrows, Copy
  <2>2. up /\ prompt' = "busy" /\ Calm'
    BY <2>1, BeginsAlone, CommandsCalm
  <2> QED
    BY <2>1, <2>2, BeginsAlone DEF Saving, NoJob, Calm
<1>2. ASSUME NEW t \in TagNames, NEW nodes \in SUBSET stored, Tag(t, nodes)
      PROVE  TagsDo
  BY <1>1, <1>2 DEF Tag, NoJob, Saving, TagsDo
<1>3. CASE TagThrows
  BY <1>1, <1>3 DEF TagThrows, kept, Saving, TagsDo
<1>4. CASE BooksCommand \/ DsCommand
  BY <1>1, <1>4 DEF BooksCommand, DsCommand, kept, Saving, TagsDo
<1>5. ASSUME NEW xs \in SUBSET Docs, NEW move \in BOOLEAN, NEW simulate \in BOOLEAN,
             ImportFiles(xs, move, simulate)
      PROVE  TagsDo
  BY <1>1, <1>5 DEF ImportFiles, NoJob, kept, Saving, TagsDo
<1>6. ASSUME NEW x \in Backups, NEW move \in BOOLEAN, NEW simulate \in BOOLEAN, NEW tag \in BOOLEAN,
             Expand(x, move, simulate, tag)
      PROVE  TagsDo
  BY <1>1, <1>6 DEF Expand, kept, Saving, TagsDo
<1>7. ASSUME NEW fields \in Fields, NEW wait \in BOOLEAN, Copy(fields, wait)
      PROVE  TagsDo
  BY <1>1, <1>7 DEF Copy, NoJob, kept, Saving, TagsDo
<1> QED
  BY <1>2, <1>3, <1>4, <1>5, <1>6, <1>7 DEF CommandBegins

LEMMA TagsWork ==
  ASSUME Calm, Works, job \in Jobs
  PROVE  TagsDo
<1>1. CASE BooksStep
  <2>1. up' = up
    BY <1>1 DEF BooksStep, DoStep, Create, Puts, RemoveEntry
  <2> QED
    BY <1>1, <2>1 DEF BooksStep, Saving, TagsDo
<1>2. CASE DsStep
  BY <1>2 DEF DsStep, bookVars, Saving, TagsDo
<1>3. ASSUME NEW x \in Docs, ImportFile(x) \/ Unlink(x)
      PROVE  TagsDo
  <2>1. ~Saving /\ ~Saving' /\ UNCHANGED kept
    BY <1>3 DEF ImportFile, Unlink, Saving, Jobs
  <2> QED
    BY <2>1 DEF kept, bookVars, TagsDo
<1>4. ASSUME NEW x \in Backups, NEW i \in Items[x], ExpandItem(i)
      PROVE  TagsDo
  <2>1. ~Saving /\ ~Saving' /\ up' = up
    BY <1>4 DEF ExpandItem, bookVars, Saving, Jobs
  <2>2. UNCHANGED tagVars \/ \E t \in TagNames : AddTag(t, {i})
    BY <1>4 DEF ExpandItem
  <2> QED
    BY <2>1, <2>2 DEF TagsDo
<1>5. CASE ImportEnds \/ ExpandEnds
  <2>1. ~Saving /\ ~Saving' /\ UNCHANGED kept
    BY <1>5 DEF ImportEnds, ExpandEnds, NoJob, Saving, Jobs
  <2> QED
    BY <2>1 DEF kept, bookVars, TagsDo
<1>6. CASE SaveTags
  <2>1. ~Saving /\ up' = up
    BY <1>6 DEF SaveTags, bookVars, Saving
  <2>2. CASE changed
    BY <1>6, <2>1, <2>2 DEF SaveTags, Saving, Jobs, TagsDo
  <2>3. CASE ~changed
    BY <1>6, <2>1, <2>3 DEF SaveTags, NoJob, Saving, TagsDo
  <2> QED
    BY <2>2, <2>3
<1>7. CASE TagsSaved
  <2>1. Saving /\ ~Saving' /\ up' = up /\ WriteTags
    BY <1>7 DEF TagsSaved, bookVars, NoJob, Saving
  <2> QED
    BY <2>1 DEF TagsDo
<1>8. CASE CopyEnds
  <2>1. ~Saving /\ ~Saving' /\ UNCHANGED kept
    BY <1>8 DEF CopyEnds, NoJob, Saving
  <2> QED
    BY <2>1 DEF kept, bookVars, TagsDo
<1>9. CASE Ends \/ GiveUp \/ SkipEmpty
  BY <1>9 DEF Ends, GiveUp, SkipEmpty, kept, bookVars, Saving, TagsDo
<1> QED
  BY <1>1, <1>2, <1>3, <1>4, <1>5, <1>6, <1>7, <1>8, <1>9 DEF Works

LEMMA TagsSteps ==
  ASSUME Calm, job \in Jobs, [DeskNext]_deskVars
  PROVE  TagsDo
<1>1. CASE StartSession
  <2>1. prompt = "off" /\ job = NoJob /\ job' = job /\ LoadTags /\ ~up
    BY <1>1 DEF StartSession, Calm
  <2> QED
    BY <2>1 DEF NoJob, Saving, TagsDo
<1>2. ASSUME NEW ahead \in 1..2, NEW last \in {"command", "missing", "empty"}, CallAlias(ahead, last)
      PROVE  TagsDo
  BY <1>2 DEF CallAlias, kept, bookVars, Saving, TagsDo
<1>3. CASE ImportThrows
  BY <1>3 DEF ImportThrows, kept, bookVars, NoJob, Saving, TagsDo
<1>4. CASE TagsNotSaved
  BY <1>4 DEF TagsNotSaved, bookVars, NoJob, Saving, TagsDo
<1>5. CASE DsThrows
  BY <1>5 DEF DsThrows, bookVars, Saving, TagsDo
<1>6. ASSUME \/ \E c \in Copies : WriteAndWait(c)
             \/ UserCopies
             \/ \E i \in Indexes, s \in Secrets : PullFile(i, s)
      PROVE  TagsDo
  BY <1>6 DEF WriteAndWait, UserCopies, PullFile, kept, bookVars, Saving, TagsDo
<1>7. CASE Quit \/ CrashSession
  BY <1>7 DEF Quit, CrashSession, EndOfSession, CloseBooks, NoJob, Saving, TagsDo
<1>8. CASE PullEntry
  BY <1>8 DEF PullEntry, Pull, Saving, TagsDo
<1>9. CASE UNCHANGED deskVars
  BY <1>9 DEF deskVars, kept, bookVars, Saving, TagsDo
<1>10. CASE BlankLine
  BY <1>10 DEF BlankLine, kept, bookVars, Saving, TagsDo
<1> QED
  BY <1>1, <1>2, <1>3, <1>4, <1>5, <1>6, <1>7, <1>8, <1>9, <1>10, TagsBegins, TagsWork DEF DeskNext

\* The newest file, of which there is one if there is a file.
LEMMA TopIsNewest ==
  ASSUME NEW f \in tagFiles, \A g \in tagFiles \ {f} : g.ts < f.ts, \A g \in tagFiles : g.ts \in Nat
  PROVE  Newest = f /\ OnDisk = f.holds
<1>1. \A g \in tagFiles : g.ts <= f.ts
  OBVIOUS
<1>2. \A h \in tagFiles : (\A g \in tagFiles : g.ts <= h.ts) => h = f
  OBVIOUS
<1>3. Newest = f
  BY <1>1, <1>2 DEF Newest
<1> QED
  BY <1>3 DEF OnDisk

\* Another way to say that there is a file.
LEMMA NewestOf ==
  ASSUME HasTop(tagFiles), \A g \in tagFiles : g.ts \in Nat, tagFiles # {}
  PROVE  Newest \in tagFiles /\ \A g \in tagFiles \ {Newest} : g.ts < Newest.ts
<1>1. PICK f \in tagFiles : \A g \in tagFiles \ {f} : g.ts < f.ts
  BY DEF HasTop
<1> QED
  BY <1>1, TopIsNewest

LEMMA DiskIsFcn ==
  ASSUME TagsInv, TagsTypeOK
  PROVE  IsAFcn(OnDisk) /\ DOMAIN OnDisk \subseteq TagNames
<1>1. CASE tagFiles = {}
  BY <1>1 DEF OnDisk, NoTags, IsAFcn
<1>2. CASE tagFiles # {}
  BY <1>2, NewestOf DEF OnDisk, TagsInv, TagsTypeOK
<1> QED
  BY <1>1, <1>2

LEMMA TagsKeptBy ==
  ASSUME TagsTypeOK, TagsInv, TagsDo
  PROVE  (TagsTypeOK /\ TagsInv)'
<1>1. CASE UNCHANGED <<tagVars, up>> /\ (Saving' <=> Saving)
  BY <1>1 DEF tagVars, TagsTypeOK, TagsInv, OnDisk, Newest
<1>2. CASE LoadTags /\ ~up /\ ~Saving /\ ~Saving'
  <2>1. /\ tags' = OnDisk /\ ~changed' /\ previous' = {} /\ changed' \in BOOLEAN
        /\ tagFiles' = tagFiles /\ due' = due /\ cut' = cut
    BY <1>2 DEF LoadTags
  <2>2. TagsTypeOK'
    BY <2>1, DiskIsFcn DEF TagsTypeOK
  <2>3. HasTop(tagFiles)' /\ HasTop(tagFiles \ previous)'
    BY <2>1 DEF TagsInv, HasTop
  <2>4. OnDisk' = OnDisk
    BY <2>1 DEF OnDisk, Newest
  <2> QED
    BY <1>2, <2>1, <2>2, <2>3, <2>4, DiskIsFcn DEF TagsInv
<1>3. ASSUME NEW t \in TagNames, NEW nodes, AddTag(t, nodes), ~Saving, ~Saving', up' = up
      PROVE  (TagsTypeOK /\ TagsInv)'
  <2>1. /\ DOMAIN tags' = DOMAIN tags \cup {t} /\ IsAFcn(tags') /\ changed' = TRUE
        /\ UNCHANGED <<previous, tagFiles, due, cut>> /\ OnDisk' = OnDisk
    BY <1>3 DEF AddTag, IsAFcn, OnDisk, Newest
  <2>2. TagsTypeOK'
    BY <1>3, <2>1 DEF TagsTypeOK, TagsInv
  <2> QED
    BY <1>3, <2>1, <2>2 DEF TagsInv
<1>4. ASSUME NEW t \in TagNames, NEW nodes, RemoveTag(t, nodes), ~Saving, ~Saving', up' = up
      PROVE  (TagsTypeOK /\ TagsInv)'
  <2>1. DOMAIN tags' = DOMAIN tags /\ IsAFcn(tags')
    BY <1>4 DEF RemoveTag, IsAFcn
  <2>2. UNCHANGED <<previous, tagFiles, due, cut>> /\ OnDisk' = OnDisk
    BY <1>4 DEF RemoveTag, OnDisk, Newest
  <2>3. changed' \in BOOLEAN /\ (changed => changed')
    BY <1>4 DEF RemoveTag, TagsTypeOK
  <2>4. ~changed' => tags' = tags
    <3> SUFFICES ASSUME ~changed'
                 PROVE  tags' = tags
      OBVIOUS
    <3>1. tags[t] \ nodes = tags[t]
      BY <1>4 DEF RemoveTag
    <3> QED
      BY <1>4, <3>1 DEF RemoveTag, TagsInv, IsAFcn
  <2>5. TagsTypeOK'
    BY <1>4, <2>1, <2>2, <2>3 DEF TagsTypeOK, TagsInv
  <2> QED
    BY <1>4, <2>1, <2>2, <2>3, <2>4, <2>5 DEF TagsInv
<1>5. CASE UnsaveTags /\ ~Saving /\ Saving' /\ up' = up
  <2>1. /\ changed' = FALSE /\ tagFiles' = tagFiles \ previous
        /\ UNCHANGED <<tags, previous, due, cut>>
    BY <1>5 DEF UnsaveTags
  <2>2. tagFiles' \ previous' = tagFiles'
    BY <2>1
  <2>3. previous' = {} => OnDisk' = OnDisk
    BY <2>1 DEF OnDisk, Newest
  <2>4. TagsTypeOK'
    BY <2>1 DEF TagsTypeOK
  <2> QED
    BY <1>5, <2>1, <2>2, <2>3, <2>4 DEF TagsInv
<1>6. CASE WriteTags /\ Saving /\ ~Saving' /\ up' = up
  <2> DEFINE f == [ts |-> IF tagFiles = {} THEN 1 ELSE Newest.ts + 1, holds |-> tags]
  <2>1. /\ tagFiles' = tagFiles \cup {f} /\ previous' = {f} /\ due' = tags
        /\ UNCHANGED <<tags, changed, cut>>
    BY <1>6 DEF WriteTags
  <2>2. f.holds = tags /\ f.ts = IF tagFiles = {} THEN 1 ELSE Newest.ts + 1
    OBVIOUS
  <2> HIDE DEF f
  <2>3. f.ts \in Nat \ {0} /\ \A g \in tagFiles : g.ts < f.ts
    BY <2>2, NewestOf DEF TagsInv, TagsTypeOK
  <2>4. f \notin tagFiles /\ tagFiles' \ previous' = tagFiles
    BY <2>1, <2>3
  <2>5. TagsTypeOK'
    BY <2>1, <2>2, <2>3 DEF TagsTypeOK
  <2>6. HasTop(tagFiles)' /\ HasTop(tagFiles \ previous)'
    BY <2>1, <2>3, <2>4 DEF TagsInv, HasTop
  <2>7. OnDisk' = tags
    <3>1. \A g \in tagFiles' : g.ts \in Nat
      BY <2>5 DEF TagsTypeOK
    <3>2. \A g \in tagFiles' : g.ts <= f.ts
      BY <2>1, <2>3, <3>1 DEF TagsTypeOK
    <3>3. \A h \in tagFiles' : (\A g \in tagFiles' : g.ts <= h.ts) => h = f
      BY <2>1, <2>3, <3>1
    <3>4. Newest' = f
      BY <2>1, <3>2, <3>3 DEF Newest
    <3> QED
      BY <2>1, <2>2, <3>4 DEF OnDisk
  <2> QED
    BY <1>6, <2>1, <2>2, <2>5, <2>6, <2>7 DEF TagsInv
<1>7. CASE WriteTagsFails /\ Saving /\ ~Saving' /\ up' = up
  <2>1. cut' = TRUE /\ UNCHANGED <<tags, changed, previous, tagFiles, due>>
    BY <1>7 DEF WriteTagsFails
  <2> QED
    BY <2>1 DEF TagsInv, TagsTypeOK
<1>8. CASE ForgetTags(Saving) /\ ~Saving' /\ ~up'
  <2>1. /\ cut' = (cut \/ (Saving /\ previous # {})) /\ tags' = NoTags /\ changed' = FALSE
        /\ previous' = {} /\ tagFiles' = tagFiles /\ due' = due /\ OnDisk' = OnDisk
    BY <1>8 DEF ForgetTags, OnDisk, Newest
  <2>2. DOMAIN tags' = {} /\ IsAFcn(tags')
    BY <2>1 DEF NoTags, IsAFcn
  <2>3. TagsTypeOK'
    BY <2>1, <2>2 DEF TagsTypeOK
  <2>4. HasTop(tagFiles)' /\ HasTop(tagFiles \ previous)'
    BY <2>1 DEF TagsInv, HasTop
  <2> QED
    BY <1>8, <2>1, <2>2, <2>3, <2>4 DEF TagsInv
<1> QED
  BY <1>1, <1>2, <1>3, <1>4, <1>5, <1>6, <1>7, <1>8 DEF TagsDo

-----------------------------------------------------------------------------
(* The documents                                                           *)

\* What a step of the session does to the documents, and to what it does with them.
FilesDo ==
  \/ UNCHANGED <<local, stored, job>>
  \/ job' = NoJob /\ UNCHANGED <<local, stored>>
  \/ /\ job' \in Jobs /\ UNCHANGED <<local, stored>>
     /\ job'.cmd = "import" => job'.moved = {}
     /\ job'.cmd = "expand" => job'.of \in Backups /\ job'.files = Items[job'.of]
     /\ job'.cmd \in {"tag", "tagged"} => ~job'.move
  \/ \E x \in Docs : ImportFile(x) \/ Unlink(x)
  \/ \E x \in Backups : \E i \in Items[x] : ExpandItem(i)
  \/ ExpandEnds \/ SaveTags \/ TagsSaved

LEMMA NoJobTyped == NoJob \in Jobs
BY DEF NoJob, Jobs

LEMMA FilesBegin ==
  ASSUME Calm, CommandBegins
  PROVE  FilesDo
<1>1. CASE BooksCommand \/ DsCommand
  BY <1>1 DEF BooksCommand, DsCommand, disk, FilesDo
<1>2. ASSUME NEW xs \in SUBSET Docs, NEW move \in BOOLEAN, NEW simulate \in BOOLEAN,
             ImportFiles(xs, move, simulate)
      PROVE  FilesDo
  BY <1>2 DEF ImportFiles, disk, NoJob, Jobs, FilesDo
<1>3. ASSUME NEW x \in Backups, NEW move \in BOOLEAN, NEW simulate \in BOOLEAN, NEW tag \in BOOLEAN,
             Expand(x, move, simulate, tag)
      PROVE  FilesDo
  <2>1. Items[x] \in SUBSET (Docs \cup UNION {Items[y] : y \in Backups})
    OBVIOUS
  <2>2. job' \in Jobs /\ job'.cmd = "expand" /\ job'.of = x /\ job'.files = Items[x]
    BY <1>3, <2>1 DEF Expand, Jobs
  <2> QED
    BY <1>3, <2>2 DEF Expand, disk, FilesDo
<1>4. ASSUME NEW t \in TagNames, NEW nodes \in SUBSET stored, Tag(t, nodes)
      PROVE  FilesDo
  BY <1>4 DEF Tag, disk, NoJob, Jobs, FilesDo
<1>5. CASE TagThrows
  BY <1>5 DEF TagThrows, disk, FilesDo
<1>6. ASSUME NEW fields \in Fields, NEW wait \in BOOLEAN, Copy(fields, wait)
      PROVE  FilesDo
  BY <1>6 DEF Copy, disk, NoJob, Jobs, FilesDo
<1> QED
  BY <1>1, <1>2, <1>3, <1>4, <1>5, <1>6 DEF CommandBegins

LEMMA FilesSteps ==
  ASSUME Calm, [DeskNext]_deskVars
  PROVE  FilesDo
<1>1. CASE StartSession
  BY <1>1 DEF StartSession, disk, FilesDo
<1>2. CASE \E ahead \in 1..2, last \in {"command", "missing", "empty"} : CallAlias(ahead, last)
  BY <1>2 DEF CallAlias, disk, FilesDo
<1>3. CASE Works
  <2>1. CASE BooksStep \/ DsStep
    BY <2>1 DEF BooksStep, DsStep, disk, FilesDo
  <2>2. CASE ImportEnds \/ CopyEnds \/ Ends \/ GiveUp \/ SkipEmpty
    BY <2>2 DEF ImportEnds, CopyEnds, Ends, GiveUp, SkipEmpty, disk, FilesDo
  <2> QED
    BY <1>3, <2>1, <2>2 DEF Works, FilesDo
<1>4. CASE ImportThrows \/ TagsNotSaved \/ DsThrows
  BY <1>4 DEF ImportThrows, TagsNotSaved, DsThrows, disk, FilesDo
<1>5. CASE (\E c \in Copies : WriteAndWait(c)) \/ UserCopies \/ \E i \in Indexes, s \in Secrets : PullFile(i, s)
  BY <1>5 DEF WriteAndWait, UserCopies, PullFile, disk, FilesDo
<1>6. CASE Quit \/ CrashSession
  BY <1>6 DEF Quit, CrashSession, EndOfSession, disk, FilesDo
<1>7. CASE PullEntry \/ BlankLine
  BY <1>7 DEF PullEntry, BlankLine, disk, FilesDo
<1>8. CASE UNCHANGED deskVars
  BY <1>8 DEF deskVars, disk, FilesDo
<1> QED
  BY <1>1, <1>2, <1>3, <1>4, <1>5, <1>6, <1>7, <1>8, FilesBegin DEF DeskNext

\* A backup whose items are all secrets may go.
LEMMA BackupMayGo ==
  ASSUME NothingVanishes, stored' = stored,
         local' \in {local, local \ {job.of}},
         local' = local \/ (job.of \in Backups /\ Items[job.of] \ Pathless \subseteq stored)
  PROVE  NothingVanishes'
BY DEF NothingVanishes

LEMMA FilesKept ==
  ASSUME job \in Jobs, FilesInv, FilesDo
  PROVE  job' \in Jobs /\ FilesInv'
<1>1. CASE UNCHANGED <<local, stored, job>>
  BY <1>1 DEF FilesInv, NothingVanishes
<1>2. CASE job' = NoJob /\ UNCHANGED <<local, stored>>
  BY <1>2, NoJobTyped DEF NoJob, FilesInv, NothingVanishes
<1>3. CASE /\ job' \in Jobs /\ UNCHANGED <<local, stored>>
           /\ job'.cmd = "import" => job'.moved = {}
           /\ job'.cmd = "expand" => job'.of \in Backups /\ job'.files = Items[job'.of]
           /\ job'.cmd \in {"tag", "tagged"} => ~job'.move
  BY <1>3 DEF FilesInv, NothingVanishes
<1>4. ASSUME NEW x \in Docs, ImportFile(x)
      PROVE  job' \in Jobs /\ FilesInv'
  <2>1. /\ job' = [job EXCEPT !.files = @ \ {x}, !.moved = @ \cup (IF job.move THEN {x} ELSE {})]
        /\ job.cmd = "import" /\ local' = local /\ stored \subseteq stored'
        /\ x \notin Sealed => x \in stored'
    BY <1>4 DEF ImportFile, Readable
  <2>2. job' \in Jobs /\ job'.cmd = "import" /\ job'.moved \subseteq job.moved \cup {x}
    BY <2>1 DEF Jobs
  <2>3. job'.moved \ Sealed \subseteq stored'
    BY <2>1, <2>2 DEF FilesInv
  <2> QED
    BY <2>1, <2>2, <2>3 DEF FilesInv, NothingVanishes
<1>5. ASSUME NEW x \in Docs, Unlink(x)
      PROVE  job' \in Jobs /\ FilesInv'
  <2>1. /\ job' = [job EXCEPT !.moved = @ \ {x}] /\ job.cmd = "import" /\ x \in job.moved
        /\ local' = local \ {x} /\ stored' = stored
    BY <1>5 DEF Unlink, disk
  <2>2. job' \in Jobs /\ job'.cmd = "import" /\ job'.moved \subseteq job.moved
    BY <2>1 DEF Jobs
  <2>3. x \in Sealed \/ x \in stored
    BY <2>1 DEF FilesInv
  <2> QED
    BY <2>1, <2>2, <2>3 DEF FilesInv, NothingVanishes
<1>6. ASSUME NEW x \in Backups, NEW i \in Items[x], ExpandItem(i)
      PROVE  job' \in Jobs /\ FilesInv'
  <2>1. /\ job' = [job EXCEPT !.files = @ \ {i}] /\ job.cmd = "expand" /\ local' = local
        /\ stored \subseteq stored' /\ (job.simulate \/ i \in Pathless \/ i \in stored')
    BY <1>6 DEF ExpandItem
  <2>2. /\ job' \in Jobs /\ job'.cmd = "expand" /\ job'.files = job.files \ {i}
        /\ job'.move = job.move /\ job'.simulate = job.simulate /\ job'.of = job.of
    BY <2>1 DEF Jobs
  <2> QED
    BY <2>1, <2>2 DEF FilesInv, NothingVanishes
<1>7. CASE ExpandEnds
  <2>1. job.cmd = "expand" /\ job.files = {} /\ stored' = stored
    BY <1>7 DEF ExpandEnds
  <2>2. job.move /\ ~job.simulate => job.of \in Backups /\ Items[job.of] \ Pathless \subseteq stored
    BY <2>1 DEF FilesInv
  <2>3. local' \in {local, local \ {job.of}} /\ (local' = local \/ (job.move /\ ~job.simulate))
    BY <1>7 DEF ExpandEnds, MovedOff, Jobs
  <2>4. NothingVanishes'
    BY <2>1, <2>2, <2>3, BackupMayGo DEF FilesInv
  <2>5. CASE job' = NoJob
    BY <2>4, <2>5, NoJobTyped DEF NoJob, FilesInv
  <2>6. CASE job' = [job EXCEPT !.cmd = "tag"] /\ ~job.simulate
    <3>1. /\ job' \in Jobs /\ job'.cmd = "tag" /\ job'.move = job.move
          /\ job'.simulate = job.simulate /\ job'.of = job.of
      BY <2>6 DEF Jobs
    <3> QED
      BY <2>1, <2>2, <2>4, <2>6, <3>1 DEF FilesInv
  <2> QED
    BY <1>7, <2>5, <2>6 DEF ExpandEnds
<1>8. ASSUME job.cmd \in {"tag", "tagged"}, stored' = stored,
             \/ local' = local /\ job' = [job EXCEPT !.cmd = "tagged"]
             \/ local' = MovedOff(TRUE) /\ job' = NoJob
      PROVE  job' \in Jobs /\ FilesInv'
  <2>1. CASE local' = local /\ job' = [job EXCEPT !.cmd = "tagged"]
    <3>1. /\ job' \in Jobs /\ job'.cmd = "tagged" /\ job'.move = job.move
          /\ job'.simulate = job.simulate /\ job'.of = job.of
      BY <2>1 DEF Jobs
    <3> QED
      BY <1>8, <2>1, <3>1 DEF FilesInv, NothingVanishes
  <2>2. CASE local' = MovedOff(TRUE) /\ job' = NoJob
    <3>1. local' \in {local, local \ {job.of}} /\ (local' = local \/ job.move)
      BY <2>2 DEF MovedOff, Jobs
    <3>2. NothingVanishes'
      BY <1>8, <3>1, BackupMayGo DEF FilesInv
    <3> QED
      BY <2>2, <3>2, NoJobTyped DEF NoJob, FilesInv
  <2> QED
    BY <1>8, <2>1, <2>2
<1>9. CASE SaveTags \/ TagsSaved
  BY <1>8, <1>9 DEF SaveTags, TagsSaved
<1> QED
  BY <1>1, <1>2, <1>3, <1>4, <1>5, <1>6, <1>7, <1>9 DEF FilesDo

LEMMA FilesStart ==
  ASSUME DeskInit
  PROVE  job \in Jobs /\ FilesInv
<1>1. job = NoJob /\ local = Docs
  BY DEF DeskInit
<1> QED
  BY <1>1, NoJobTyped DEF NoJob, FilesInv, NothingVanishes

LEMMA FilesAlways == DeskSpec => [](Calm /\ job \in Jobs /\ FilesInv)
<1>1. Calm /\ job \in Jobs /\ FilesInv /\ [DeskNext]_deskVars => (job \in Jobs /\ FilesInv)'
  BY FilesSteps, FilesKept
<1>2. DeskInit => job \in Jobs /\ FilesInv
  BY FilesStart
<1> QED
  BY <1>1, <1>2, AlwaysCalm, PTL DEF DeskSpec

\* Whatever fails and wherever the session ends, a document is on the local disk until
\* it, or all the items of the backup it is, are among the secrets; except for a
\* file import could not decrypt and an item with no path.
THEOREM NoDocumentLost == DeskSpec => []NothingVanishes
<1>1. FilesInv => NothingVanishes
  BY DEF FilesInv
<1> QED
  BY <1>1, FilesAlways, PTL

-----------------------------------------------------------------------------
(* The tags, again: what is saved                                          *)

LEMMA TagsStart ==
  ASSUME DeskInit
  PROVE  TagsTypeOK /\ TagsInv
<1>1. /\ tags = NoTags /\ changed = FALSE /\ previous = {} /\ tagFiles = {} /\ due = NoTags
      /\ cut = FALSE /\ OnDisk = NoTags
  BY DEF DeskInit, TagsInit, OnDisk
<1>2. IsAFcn(NoTags) /\ DOMAIN NoTags = {}
  BY DEF NoTags, IsAFcn
<1> QED
  BY <1>1, <1>2 DEF TagsTypeOK, TagsInv, HasTop

LEMMA TagsAlways == DeskSpec => [](Calm /\ TagsTypeOK /\ TagsInv)
<1>1. Calm /\ job \in Jobs /\ TagsTypeOK /\ TagsInv /\ [DeskNext]_deskVars => (TagsTypeOK /\ TagsInv)'
  BY TagsSteps, TagsKeptBy
<1>2. DeskInit => TagsTypeOK /\ TagsInv
  BY TagsStart
<1> QED
  BY <1>1, <1>2, FilesAlways, PTL DEF DeskSpec

\* At the prompt the tags in memory and in the newest file are those of the last save,
\* in this session and in those that follow it, unless a save was cut or there is
\* something left to save.
THEOREM TagsAsSaved == DeskSpec => []TagsKept
<1>1. Calm /\ TagsInv => TagsKept
  <2> SUFFICES ASSUME Calm, TagsInv, prompt = "asking", ~changed, ~cut
               PROVE  tags = due /\ OnDisk = due
    BY DEF TagsKept
  <2>1. up /\ job = NoJob
    BY DEF Calm
  <2>2. ~Saving
    BY <2>1 DEF NoJob, Saving
  <2> QED
    BY <2>1, <2>2 DEF TagsInv
<1> QED
  BY <1>1, TagsAlways, PTL

-----------------------------------------------------------------------------
(* The datasets                                                            *)

\* What a step of the session does to the datasets.
DatasetsDo ==
  \/ UNCHANGED <<dsVars, up>>
  \/ OpenDatasets /\ ~up /\ up' /\ chore = NoChore
  \/ DatasetCommand /\ chore = NoChore /\ up /\ up'
  \/ DatasetStep /\ up' = up
  \/ ChoreThrows /\ up' = up
  \/ (\E i \in Indexes, s \in Secrets : PullSecret(i, s)) /\ up' = up
  \/ CloseDatasets /\ ~up'

LEMMA DatasetsSteps ==
  ASSUME Calm, [DeskNext]_deskVars
  PROVE  DatasetsDo
<1>1. CASE StartSession
  <2>1. ~up /\ up' /\ chore = NoChore /\ OpenDatasets
    BY <1>1 DEF StartSession, Load, Calm
  <2> QED
    BY <2>1 DEF DatasetsDo
<1>2. ASSUME NEW ahead \in 1..2, NEW last \in {"command", "missing", "empty"}, CallAlias(ahead, last)
      PROVE  DatasetsDo
  BY <1>2 DEF CallAlias, kept, bookVars, DatasetsDo
<1>3. CASE CommandBegins
  <2>1. CASE DsCommand
    <3>1. up /\ chore = NoChore /\ DatasetCommand /\ up' = up
      BY <2>1, BeginsAlone DEF DsCommand, bookVars
    <3> QED
      BY <3>1 DEF DatasetsDo
  <2>2. CASE BooksCommand \/ \E t \in TagNames, nodes \in SUBSET stored : Tag(t, nodes)
    BY <2>2 DEF BooksCommand, Tag, bookVars, DatasetsDo
  <2>3. CASE ~(DsCommand \/ BooksCommand \/ \E t \in TagNames, nodes \in SUBSET stored : Tag(t, nodes))
    <3>1. UNCHANGED kept
      BY <1>3, <2>3 DEF CommandBegins, ImportFiles, Expand, TagThrows, Copy
    <3> QED
      BY <3>1 DEF kept, bookVars, DatasetsDo
  <2> QED
    BY <2>1, <2>2, <2>3
<1>4. CASE Works
  <2>1. CASE BooksStep
    BY <2>1 DEF BooksStep, DoStep, Create, RemoveEntry, DatasetsDo
  <2>2. CASE DsStep
    BY <2>2 DEF DsStep, bookVars, DatasetsDo
  <2>3. CASE SaveTags \/ TagsSaved
    BY <2>3 DEF SaveTags, TagsSaved, bookVars, DatasetsDo
  <2>4. CASE \E x \in Backups : \E i \in Items[x] : ExpandItem(i)
    BY <2>4 DEF ExpandItem, bookVars, DatasetsDo
  <2>5. CASE (\E x \in Docs : ImportFile(x) \/ Unlink(x)) \/ ImportEnds \/ ExpandEnds \/ CopyEnds
             \/ Ends \/ GiveUp \/ SkipEmpty
    <3>1. UNCHANGED kept
      BY <2>5 DEF ImportFile, Unlink, ImportEnds, ExpandEnds, CopyEnds, Ends, GiveUp, SkipEmpty
    <3> QED
      BY <3>1 DEF kept, bookVars, DatasetsDo
  <2> QED
    BY <1>4, <2>1, <2>2, <2>3, <2>4, <2>5 DEF Works
<1>5. CASE ImportThrows
  BY <1>5 DEF ImportThrows, kept, bookVars, DatasetsDo
<1>6. CASE TagsNotSaved \/ DsThrows
  BY <1>6 DEF TagsNotSaved, DsThrows, bookVars, DatasetsDo
<1>7. CASE (\E c \in Copies : WriteAndWait(c)) \/ UserCopies \/ BlankLine
  <2>1. UNCHANGED kept
    BY <1>7 DEF WriteAndWait, UserCopies, BlankLine
  <2> QED
    BY <2>1 DEF kept, bookVars, DatasetsDo
<1>8. CASE Quit \/ CrashSession
  BY <1>8 DEF Quit, CrashSession, EndOfSession, CloseBooks, DatasetsDo
<1>9. CASE PullEntry
  BY <1>9 DEF PullEntry, Pull, DatasetsDo
<1>10. CASE UNCHANGED deskVars
  BY <1>10 DEF deskVars, kept, bookVars, DatasetsDo
<1>11. CASE \E i \in Indexes, s \in Secrets : PullFile(i, s)
  BY <1>11 DEF PullFile, bookVars, DatasetsDo
<1> QED
  BY <1>1, <1>2, <1>3, <1>4, <1>5, <1>6, <1>7, <1>8, <1>9, <1>10, <1>11 DEF DeskNext

\* The indexes that are counted are indexes, and a list is one of all the datasets
\* but main and the trash, if there is a trash.
LEMMA CountedIndexes ==
  ASSUME DatasetsTypeOK
  PROVE  /\ IsFiniteSet(folders) /\ Cardinality(folders) \in Nat /\ Cardinality(folders) <= MaxIndex + 1
         /\ Counted \subseteq Indexes /\ MaxIndex \in Nat
<1>1. MaxIndex \in Nat
  BY DatasetsAssumption
<1>2. IsFiniteSet(Indexes) /\ Cardinality(Indexes) = MaxIndex + 1
  BY <1>1, FS_Interval DEF Indexes
<1>3. /\ IsFiniteSet(folders) /\ Cardinality(folders) \in Nat
      /\ Cardinality(folders) <= Cardinality(Indexes)
  BY <1>2, FS_Subset, FS_CardinalityType DEF DatasetsTypeOK
<1> QED
  BY <1>1, <1>2, <1>3 DEF Counted, Indexes

LEMMA ListOfAll ==
  ASSUME DatasetsTypeOK, {0, 1} \subseteq folders, Listable
  PROVE  folders = 0..(Cardinality(folders) - 1) /\ Counted = folders \ {0, 1}
<1> DEFINE n == Cardinality(folders)
           first == 0..(n - 1)
<1>1. n \in Nat /\ IsFiniteSet(folders)
  BY CountedIndexes
<1>2. Counted \subseteq folders
  BY DEF Listable, Found
<1>3. first \subseteq folders
  <2> SUFFICES ASSUME NEW i \in first
               PROVE  i \in folders
    OBVIOUS
  <2>1. i \in {0, 1} \/ i \in Counted
    BY <1>1 DEF Counted
  <2> QED
    BY <1>2, <2>1
<1>4. IsFiniteSet(first) /\ Cardinality(first) = n
  <2>1. n > 0
    BY <1>1, FS_EmptySet
  <2> QED
    BY <1>1, <2>1, FS_Interval
<1>5. first = folders
  BY <1>1, <1>3, <1>4, FS_Subset
<1>6. Counted = first \ {0, 1}
  BY <1>1 DEF Counted
<1> QED
  BY <1>5, <1>6

LEMMA IndexesAre == 0 \in Indexes /\ 1 \in Indexes /\ Indexes \subseteq Nat
BY DatasetsAssumption DEF Indexes

LEMMA NameIsLabel ==
  ASSUME DatasetsTypeOK, NamesHold, NEW i \in Indexes
  PROVE  NameOf(i) = label[i]
BY DEF NamesHold, NameOf

\* What is cached is what is on disk.
LEMMA LookIsLabel ==
  ASSUME DatasetsTypeOK, NamesHold
  PROVE  /\ Look \in [Indexes -> DsNames \cup {NoName}]
         /\ \A i \in Indexes \ trees : Look[i] \in {NoName, label[i]}
BY NameIsLabel DEF Look, NamesHold, DatasetsTypeOK

\* A name that is not in the list is not on disk, if there is a trash.
LEMMA NameIsFree ==
  ASSUME DatasetsTypeOK, NamesHold, 1 \in folders, Listable, NEW name \in DsNames, Listed(name) = {}
  PROVE  \A j \in folders : label[j] # name
<1>1. Counted = folders \ {0, 1}
  BY ListOfAll DEF NamesHold
<1>2. \A j \in Counted : label[j] # name
  BY CountedIndexes, NameIsLabel DEF Listed
<1> QED
  BY <1>1, <1>2, DatasetsAssumption DEF NamesHold

\* A tree is loaded under the name on disk, and a folder is made where no name is left.
LEMMA MountKept ==
  ASSUME DatasetsTypeOK, NamesHold, NEW i \in Indexes, i \in trees \/ HasPath(i), Mount(i),
         UNCHANGED label, cache' = Look, up'
  PROVE  /\ folders' \subseteq Indexes /\ trees' \subseteq folders'
         /\ {label', called', cache'} \subseteq [Indexes -> DsNames \cup {NoName}]
         /\ known' \in [Indexes -> SUBSET Secrets]
         /\ i \in trees'
         /\ NamesHold'
<1>1. folders' = folders \cup {i} /\ trees' = trees \cup {i}
  BY DEF Mount
<1>2. called' \in [Indexes -> DsNames \cup {NoName}]
  BY DEF Mount, DatasetsTypeOK
<1>3. \A j \in trees' : called'[j] = label[j]
  BY <1>1 DEF Mount, DatasetsTypeOK, NamesHold
<1>4. \A j \in {0, 1} : called'[j] = NoName
  BY IndexesAre DEF Mount, DatasetsTypeOK, NamesHold
<1>5. 1 \in folders' => \A j, k \in folders' : j # k /\ label[j] = label[k] => label[j] = NoName
  <2>1. CASE 1 \in folders
    BY <1>1, <2>1 DEF NamesHold
  <2>2. CASE 1 \notin folders /\ i = 1
    <3>1. \A j \in folders : j < 1
      BY <2>2 DEF HasPath, DatasetsTypeOK
    <3>2. folders \subseteq {0}
      BY <3>1, IndexesAre DEF DatasetsTypeOK
    <3> QED
      BY <1>1, <2>2, <3>2 DEF NamesHold
  <2>3. CASE 1 \notin folders /\ i # 1
    BY <1>1, <2>3
  <2> QED
    BY <2>1, <2>2, <2>3
<1>6. known' \in [Indexes -> SUBSET Secrets]
  <2>1. PICK L \in Loads(i) : known' = IF i \in trees THEN known ELSE [known EXCEPT ![i] = L]
    BY DEF Mount
  <2>2. L \subseteq held[i]
    BY DEF Loads
  <2> QED
    BY <2>1, <2>2 DEF DatasetsTypeOK
<1> QED
  BY <1>1, <1>2, <1>3, <1>4, <1>5, <1>6, LookIsLabel DEF DatasetsTypeOK, NamesHold

\* What a command leaves to do.
LEMMA ChoreTypes ==
  /\ NoChore \in [do : {"none", "name", "empty"}, of : Indexes, name : DsNames \cup {NoName},
                  list : SUBSET Secrets]
  /\ NoChore.do = "none"
BY IndexesAre DEF NoChore

LEMMA CommandKept ==
  ASSUME DatasetsTypeOK, NamesHold, chore = NoChore, up, up', DatasetCommand
  PROVE  (DatasetsTypeOK /\ DatasetsInv)'
<1> DEFINE ChoreType == [do : {"none", "name", "empty"}, of : Indexes, name : DsNames \cup {NoName},
                         list : SUBSET Secrets]
           Goal == (DatasetsTypeOK /\ DatasetsInv)'
<1>1. CASE Looks
  BY <1>1, LookIsLabel, ChoreTypes DEF Looks, DatasetsTypeOK, DatasetsInv, NamesHold, NameComing, Listing
<1>2. ASSUME NEW name \in DsNames, CreateDataset(name)
      PROVE  Goal
  <2> DEFINE i == IF Cardinality(folders) < 2 THEN 2 ELSE Cardinality(folders)
             ok == Listable /\ Listed(name) = {} /\ HasPath(i)
  <2>1. i \in Indexes /\ i >= 2 /\ cache' = Look /\ UNCHANGED <<label, held>>
    BY <1>2, CountedIndexes DEF CreateDataset
  <2>2. CASE ~ok
    <3>1. UNCHANGED <<folders, trees, known, called, active, chore>>
      BY <1>2, <2>2 DEF CreateDataset
    <3> QED
      BY <2>1, <3>1, LookIsLabel, ChoreTypes DEF DatasetsTypeOK, DatasetsInv, NamesHold, NameComing, Listing
  <2>3. CASE ok
    <3>1. /\ Mount(i)
          /\ \/ active' = i /\ chore' = [NoChore EXCEPT !.do = "name", !.of = i, !.name = name]
             \/ UNCHANGED <<active, chore>>
      BY <1>2, <2>3 DEF CreateDataset
    <3>2. i \notin folders => label[i] = NoName
      BY <2>1 DEF NamesHold
    <3>3. 1 \in folders => \A j \in folders : label[j] # name
      BY <2>3, NameIsFree
    <3>4. folders' = folders \cup {i} /\ i \in trees'
      BY <3>1 DEF Mount
    <3> HIDE DEF i
    <3>5. /\ folders' \subseteq Indexes /\ trees' \subseteq folders'
          /\ {label', called', cache'} \subseteq [Indexes -> DsNames \cup {NoName}]
          /\ known' \in [Indexes -> SUBSET Secrets] /\ i \in trees'
          /\ NamesHold'
      BY <2>1, <2>3, <3>1, MountKept
    <3>6. 1 \in folders' => \A j \in folders' : label'[j] # name
      BY <2>1, <3>2, <3>3, <3>4, DatasetsAssumption
    <3>9. \/ chore'.do = "name" /\ chore'.of = i /\ chore'.name = name
          \/ chore'.do = "none"
      BY <3>1, ChoreTypes DEF NoChore
    <3>7. NameComing' /\ Listing'
      BY <2>1, <3>4, <3>6, <3>9, DatasetsAssumption DEF NameComing, Listing, Indexes
    <3>8. active' \in Indexes /\ chore' \in ChoreType /\ held' \in [Indexes -> SUBSET Secrets]
      BY <2>1, <3>1, ChoreTypes DEF DatasetsTypeOK, NoChore
    <3> QED
      BY <3>5, <3>7, <3>8 DEF DatasetsTypeOK, DatasetsInv
  <2> QED
    BY <2>2, <2>3
<1>3. ASSUME NEW i \in Indexes, UseDataset(i)
      PROVE  Goal
  <2>1. cache' = Look /\ UNCHANGED <<label, held, chore>>
    BY <1>3 DEF UseDataset
  <2>2. CASE UNCHANGED <<folders, trees, known, called, active>>
    BY <2>1, <2>2, LookIsLabel, ChoreTypes DEF DatasetsTypeOK, DatasetsInv, NamesHold, NameComing, Listing
  <2>3. CASE Mount(i) /\ (i \in trees \/ HasPath(i)) /\ active' \in {i, active}
    <3>1. /\ folders' \subseteq Indexes /\ trees' \subseteq folders'
          /\ {label', called', cache'} \subseteq [Indexes -> DsNames \cup {NoName}]
          /\ known' \in [Indexes -> SUBSET Secrets] /\ i \in trees'
          /\ NamesHold'
      BY <2>1, <2>3, MountKept
    <3> QED
      BY <2>1, <2>3, <3>1, ChoreTypes DEF DatasetsTypeOK, DatasetsInv, NameComing, Listing
  <2> QED
    BY <1>3, <2>2, <2>3 DEF UseDataset
<1>4. ASSUME NEW i \in Indexes, DeleteDataset(i)
      PROVE  Goal
  <2>1. cache' = Look /\ UNCHANGED <<label, held, active>> /\ Mount(i) /\ (i \in trees \/ HasPath(i))
    BY <1>4 DEF DeleteDataset
  <2>2. \/ chore' = NoChore
        \/ chore' = [NoChore EXCEPT !.do = "empty", !.of = i, !.list = IF i = 1 THEN {} ELSE known'[i]]
    BY <1>4 DEF DeleteDataset
  <2>3. /\ folders' \subseteq Indexes /\ trees' \subseteq folders'
        /\ {label', called', cache'} \subseteq [Indexes -> DsNames \cup {NoName}]
        /\ known' \in [Indexes -> SUBSET Secrets] /\ i \in trees'
        /\ NamesHold'
    BY <2>1, MountKept
  <2>4. known'[i] \in SUBSET Secrets
    BY <2>3
  <2>5. chore' \in ChoreType /\ chore'.do # "name" /\ Listing'
    BY <2>2, <2>3, <2>4, ChoreTypes DEF NoChore, Listing
  <2> QED
    BY <2>1, <2>3, <2>5 DEF DatasetsTypeOK, DatasetsInv, NameComing
<1>5. ASSUME NEW i \in Indexes, NEW name \in DsNames, RenameDataset(i, name)
      PROVE  Goal
  <2>1. /\ i \in Counted /\ i \in trees /\ Listable /\ Listed(name) = {}
        /\ label' = [label EXCEPT ![i] = name] /\ called' = [called EXCEPT ![i] = name]
        /\ cache' = [Look EXCEPT ![i] = name]
        /\ UNCHANGED <<folders, held, trees, known, active, chore>>
    BY <1>5 DEF RenameDataset
  <2>2. i \notin {0, 1} /\ i \in folders
    BY <2>1, CountedIndexes DEF Counted, DatasetsTypeOK
  <2>3. 1 \in folders => \A j \in folders : label[j] # name
    BY <2>1, NameIsFree
  <2>4. {label', called', cache'} \subseteq [Indexes -> DsNames \cup {NoName}]
    BY <2>1, LookIsLabel DEF DatasetsTypeOK
  <2>5. \A j \in Indexes : label'[j] = IF j = i THEN name ELSE label[j]
    BY <2>1 DEF DatasetsTypeOK
  <2>6. \A j \in Indexes : called'[j] = IF j = i THEN name ELSE called[j]
    BY <2>1 DEF DatasetsTypeOK
  <2>7. \A j \in Indexes \ trees' : cache'[j] \in {NoName, label'[j]}
    BY <2>1, <2>5, LookIsLabel
  <2>8. 1 \in folders' => \A j, k \in folders' : j # k /\ label'[j] = label'[k] => label'[j] = NoName
    BY <2>1, <2>3, <2>5 DEF DatasetsTypeOK, NamesHold
  <2>9. NamesHold'
    BY <2>1, <2>2, <2>5, <2>6, <2>7, <2>8, IndexesAre DEF DatasetsTypeOK, NamesHold
  <2> QED
    BY <2>1, <2>4, <2>9, ChoreTypes DEF DatasetsTypeOK, DatasetsInv, NameComing, Listing
<1> QED
  BY <1>1, <1>2, <1>3, <1>4, <1>5 DEF DatasetCommand

LEMMA ChoreKept ==
  ASSUME DatasetsTypeOK, DatasetsInv, up' = up, DatasetStep
  PROVE  (DatasetsTypeOK /\ DatasetsInv)'
<1> DEFINE i == chore.of
<1>1. i \in Indexes /\ chore.name \in DsNames \cup {NoName}
  BY DEF DatasetsTypeOK
<1>2. CASE NameDataset
  <2>1. /\ chore.do = "name" /\ UNCHANGED <<folders, held, trees, known, cache, active>> /\ chore' = NoChore
        /\ called' = [called EXCEPT ![i] = chore.name]
        /\ label' = [label EXCEPT ![i] = IF chore.name # called[i] THEN chore.name ELSE @]
    BY <1>2 DEF NameDataset
  <2>2. i \in trees \ {0, 1} /\ called[i] = label[i]
    BY <2>1 DEF DatasetsInv, NamesHold, NameComing, Listing
  <2> HIDE DEF i
  <2>3. \A j \in Indexes : label'[j] = IF j = i THEN chore.name ELSE label[j]
    BY <1>1, <2>1, <2>2 DEF DatasetsTypeOK
  <2>4. \A j \in Indexes : called'[j] = IF j = i THEN chore.name ELSE called[j]
    BY <1>1, <2>1 DEF DatasetsTypeOK
  <2>5. {label', called', cache'} \subseteq [Indexes -> DsNames \cup {NoName}]
    BY <1>1, <2>1 DEF DatasetsTypeOK
  <2>6. 1 \in folders' => \A j, k \in folders' : j # k /\ label'[j] = label'[k] => label'[j] = NoName
    BY <2>1, <2>3 DEF DatasetsTypeOK, DatasetsInv, NamesHold, NameComing, Listing
  <2>7. NamesHold'
    BY <2>1, <2>2, <2>3, <2>4, <2>6, IndexesAre DEF DatasetsTypeOK, DatasetsInv, NamesHold
  <2> QED
    BY <2>1, <2>5, <2>7, ChoreTypes DEF DatasetsTypeOK, DatasetsInv, NameComing, Listing
<1>3. CASE RemoveFolder /\ i = 0
  <2>1. UNCHANGED <<folders, held, label, trees, known, called, cache, active>> /\ chore' = NoChore
    BY <1>3 DEF RemoveFolder
  <2> QED
    BY <2>1, ChoreTypes DEF DatasetsTypeOK, DatasetsInv, NamesHold, NameComing, Listing
<1>4. CASE RemoveFolder /\ i # 0
  <2>1. /\ folders' = folders \ {i} /\ trees' = trees \ {i} /\ chore' = NoChore /\ active' = active
        /\ held' = [held EXCEPT ![i] = {}] /\ known' = [known EXCEPT ![i] = {}]
        /\ label' = [label EXCEPT ![i] = NoName]
        /\ called' = [called EXCEPT ![i] = NoName] /\ cache' = [cache EXCEPT ![i] = NoName]
    BY <1>4 DEF RemoveFolder
  <2> HIDE DEF i
  <2>2. /\ \A j \in Indexes : label'[j] = IF j = i THEN NoName ELSE label[j]
        /\ \A j \in Indexes : called'[j] = IF j = i THEN NoName ELSE called[j]
        /\ \A j \in Indexes : cache'[j] = IF j = i THEN NoName ELSE cache[j]
    BY <1>1, <2>1 DEF DatasetsTypeOK
  <2>3. NamesHold'
    <3>1. 0 \in folders' /\ (~up' => trees' = {})
      BY <1>4, <2>1 DEF DatasetsInv, NamesHold
    <3>2. \A j \in {0, 1} : label'[j] = NoName /\ called'[j] = NoName
      BY <2>2, IndexesAre DEF DatasetsInv, NamesHold
    <3>3. \A j \in Indexes \ folders' : label'[j] = NoName
      BY <2>1, <2>2 DEF DatasetsInv, NamesHold
    <3>4. \A j \in trees' : called'[j] = label'[j]
      BY <2>1, <2>2 DEF DatasetsTypeOK, DatasetsInv, NamesHold
    <3>5. \A j \in Indexes \ trees' : cache'[j] \in {NoName, label'[j]}
      BY <2>1, <2>2 DEF DatasetsInv, NamesHold
    <3>6. 1 \in folders' => \A j, k \in folders' : j # k /\ label'[j] = label'[k] => label'[j] = NoName
      BY <2>1, <2>2 DEF DatasetsTypeOK, DatasetsInv, NamesHold
    <3> QED
      BY <3>1, <3>2, <3>3, <3>4, <3>5, <3>6 DEF NamesHold
  <2> QED
    BY <1>1, <2>1, <2>3, ChoreTypes DEF DatasetsTypeOK, DatasetsInv, NameComing, Listing
<1>5. ASSUME NEW s \in Secrets, MoveToTrash(s)
      PROVE  (DatasetsTypeOK /\ DatasetsInv)'
  <2>1. UNCHANGED <<folders, label, trees, called, cache, active>> /\ chore.do = "empty"
    BY <1>5 DEF MoveToTrash
  <2>2. CASE 1 \notin folders
    <3>1. UNCHANGED <<held, known>> /\ chore' = NoChore
      BY <1>5, <2>2 DEF MoveToTrash
    <3> QED
      BY <2>1, <3>1, ChoreTypes DEF DatasetsTypeOK, DatasetsInv, NamesHold, NameComing, Listing
  <2>3. CASE 1 \in folders
    <3>1. /\ held' = [held EXCEPT ![i] = @ \ {s}, ![1] = @ \cup {s}]
          /\ known' = [known EXCEPT ![i] = @ \ {s}, ![1] = @ \cup {s}]
          /\ chore' = [chore EXCEPT !.list = @ \ {s}]
      BY <1>5, <2>3 DEF MoveToTrash
    <3>2. {held', known'} \subseteq [Indexes -> SUBSET Secrets]
      BY <1>1, <3>1, IndexesAre DEF DatasetsTypeOK
    <3>3. chore'.do = "empty" /\ chore'.of = i /\ chore'.list = chore.list \ {s}
      BY <2>1, <3>1 DEF DatasetsTypeOK
    <3>4. i # 1 => known'[i] = known[i] \ {s}
      BY <1>1, <3>1, IndexesAre DEF DatasetsTypeOK
    <3>5. Listing'
      BY <2>1, <3>3, <3>4 DEF DatasetsInv, Listing
    <3>6. chore' \in [do : {"none", "name", "empty"}, of : Indexes, name : DsNames \cup {NoName},
                     list : SUBSET Secrets]
      BY <3>1 DEF DatasetsTypeOK
    <3>7. NamesHold' /\ NameComing'
      BY <1>5, <2>1, <3>3 DEF DatasetsTypeOK, DatasetsInv, NamesHold, NameComing, DatasetStep
    <3> QED
      BY <2>1, <3>2, <3>5, <3>6, <3>7 DEF DatasetsTypeOK, DatasetsInv
  <2> QED
    BY <2>2, <2>3
<1> QED
  BY <1>2, <1>3, <1>4, <1>5 DEF DatasetStep

LEMMA DatasetsKept ==
  ASSUME DatasetsTypeOK, DatasetsInv, DatasetsDo
  PROVE  (DatasetsTypeOK /\ DatasetsInv)'
<1>1. CASE UNCHANGED <<dsVars, up>>
  BY <1>1 DEF dsVars, DatasetsTypeOK, DatasetsInv, NamesHold, NameComing, Listing
<1>2. CASE OpenDatasets /\ ~up /\ up' /\ chore = NoChore
  <2>1. /\ HasPath(1) /\ folders' = folders \cup {1} /\ trees' = {0, 1} /\ trees = {}
        /\ UNCHANGED <<label, held, called, cache, active, chore>>
    BY <1>2 DEF OpenDatasets, DatasetsInv, NamesHold
  <2>4. known' \in [Indexes -> SUBSET Secrets]
    <3>1. PICK L0 \in Loads(0), L1 \in Loads(1) : known' = [known EXCEPT ![0] = L0, ![1] = L1]
      BY <1>2 DEF OpenDatasets
    <3>2. L0 \subseteq held[0] /\ L1 \subseteq held[1]
      BY DEF Loads
    <3> QED
      BY <3>1, <3>2, IndexesAre DEF DatasetsTypeOK
  <2>2. 1 \in folders \/ folders = {0}
    <3>1. 1 \notin folders => \A j \in folders : j < 1
      BY <2>1 DEF HasPath
    <3>2. 1 \notin folders => folders \subseteq {0}
      BY <3>1, IndexesAre DEF DatasetsTypeOK
    <3> QED
      BY <3>2 DEF DatasetsInv, NamesHold
  <2>3. NamesHold'
    <3>1. 0 \in folders' /\ (~up' => trees' = {})
      BY <1>2, <2>1 DEF DatasetsInv, NamesHold
    <3>2. \A j \in trees' : called'[j] = label'[j]
      BY <2>1 DEF DatasetsInv, NamesHold
    <3>3. \A j, k \in folders' : j # k /\ label'[j] = label'[k] => label'[j] = NoName
      BY <2>1, <2>2 DEF DatasetsInv, NamesHold
    <3> QED
      BY <1>2, <2>1, <3>1, <3>2, <3>3 DEF DatasetsInv, NamesHold
  <2> QED
    BY <1>2, <2>1, <2>3, <2>4, IndexesAre, ChoreTypes DEF DatasetsTypeOK, DatasetsInv, NamesHold, NameComing, Listing
<1>3. CASE DatasetCommand /\ chore = NoChore /\ up /\ up'
  BY <1>3, CommandKept DEF DatasetsInv
<1>4. CASE DatasetStep /\ up' = up
  BY <1>4, ChoreKept
<1>7. ASSUME NEW i \in Indexes, NEW s \in Secrets, PullSecret(i, s), up' = up
      PROVE  (DatasetsTypeOK /\ DatasetsInv)'
  <2>1. /\ held' = [held EXCEPT ![i] = @ \cup {s}]
        /\ UNCHANGED <<folders, label, trees, known, called, cache, active, chore>>
    BY <1>7 DEF PullSecret
  <2>2. held' \in [Indexes -> SUBSET Secrets]
    BY <2>1 DEF DatasetsTypeOK
  <2> QED
    BY <1>7, <2>1, <2>2 DEF DatasetsTypeOK, DatasetsInv, NamesHold, NameComing, Listing
<1>5. CASE ChoreThrows /\ up' = up
  BY <1>5, ChoreTypes DEF ChoreThrows, DatasetsTypeOK, DatasetsInv, NamesHold, NameComing, Listing
<1>6. CASE CloseDatasets /\ ~up'
  <2>1. /\ trees' = {} /\ known' = Nowhere /\ called' = [j \in Indexes |-> NoName] /\ cache' = called'
        /\ active' = 0 /\ chore' = NoChore /\ UNCHANGED <<folders, label, held>>
    BY <1>6 DEF CloseDatasets
  <2>2. NamesHold'
    BY <2>1, IndexesAre DEF DatasetsInv, NamesHold
  <2> QED
    BY <2>1, <2>2, IndexesAre, ChoreTypes DEF DatasetsTypeOK, DatasetsInv, NameComing, Listing, Nowhere
<1> QED
  BY <1>1, <1>2, <1>3, <1>4, <1>5, <1>6, <1>7 DEF DatasetsDo

LEMMA DatasetsStart ==
  ASSUME DeskInit
  PROVE  DatasetsTypeOK /\ DatasetsInv
<1>1. DatasetsInit /\ up = FALSE
  BY DEF DeskInit, BooksInit
<1>2. DOMAIN Named \subseteq Indexes /\ DOMAIN Named \cap {0, 1} = {} /\ MaxIndex \in 2..9
  BY DatasetsAssumption DEF Indexes
<1>3. folders \subseteq Indexes /\ 0 \in folders /\ 1 \in folders
  BY <1>1, <1>2, IndexesAre DEF DatasetsInit
<1>4. \A i \in Indexes : label[i] = IF i \in DOMAIN Named THEN Named[i] ELSE NoName
  BY <1>1 DEF DatasetsInit
<1>5. label \in [Indexes -> DsNames \cup {NoName}]
  BY <1>1, DatasetsAssumption DEF DatasetsInit
<1>6. held \in [Indexes -> SUBSET Secrets]
  BY <1>1, DatasetsAssumption DEF DatasetsInit
<1>7. \A i, j \in folders : i # j /\ label[i] = label[j] => label[i] = NoName
  BY <1>3, <1>4, DatasetsAssumption
<1>8. /\ trees = {} /\ known = Nowhere /\ called = [i \in Indexes |-> NoName] /\ cache = called /\ active = 0 /\ chore = NoChore
      /\ folders = {0, 1} \cup DOMAIN Named
  BY <1>1 DEF DatasetsInit
<1>9. NamesHold
  BY <1>2, <1>3, <1>4, <1>7, <1>8, IndexesAre DEF NamesHold
<1> QED
  BY <1>3, <1>5, <1>6, <1>8, <1>9, IndexesAre, ChoreTypes DEF DatasetsTypeOK, DatasetsInv, NameComing, Listing, Nowhere

LEMMA DatasetsAlways == DeskSpec => [](DatasetsTypeOK /\ DatasetsInv)
<1>1. Calm /\ DatasetsTypeOK /\ DatasetsInv /\ [DeskNext]_deskVars => (DatasetsTypeOK /\ DatasetsInv)'
  BY DatasetsSteps, DatasetsKept
<1>2. DeskInit => DatasetsTypeOK /\ DatasetsInv
  BY DatasetsStart
<1> QED
  BY <1>1, <1>2, AlwaysCalm, PTL DEF DeskSpec

\* Between commands a dataset has one name, in memory, in the cache and on disk, and
\* no two have the same, whatever was created, renamed or removed in whatever session;
\* as long as there is a trash.
THEOREM OneNameEach == DeskSpec => []NamesAgree
<1>1. DatasetsTypeOK /\ DatasetsInv => NamesAgree
  BY CountedIndexes, NameIsLabel DEF DatasetsTypeOK, DatasetsInv, NamesHold, NamesAgree
<1> QED
  BY <1>1, DatasetsAlways, PTL

\* A secret that is in a dataset is in one afterwards, whatever the step is; the trash
\* is removed with what it has, and another dataset with what its tree does not list,
\* but with nothing of what it lists: that is in the list of ds -d until it is moved.
THEOREM NoSecretDropped == DeskSpec => SecretsStay
<1> DEFINE Stay == \A i \in folders \ {1} : \A s \in held[i] :
                     \/ \E j \in folders' : s \in held'[j]
                     \/ i \in trees /\ s \notin known[i]
<1>1. ASSUME DatasetsTypeOK, DatasetsInv, DatasetsDo
      PROVE  Stay
  <2>1. ASSUME \A j \in folders : held[j] \subseteq held'[j], folders \subseteq folders'
        PROVE  Stay
    BY <2>1
  <2>2. CASE RemoveFolder
    <3> DEFINE i == chore.of
    <3>1. CASE i = 0
      BY <2>1, <2>2, <3>1 DEF RemoveFolder
    <3>2. CASE i # 0
      <4>1. /\ folders' = folders \ {i} /\ held' = [held EXCEPT ![i] = {}]
            /\ i = 1 \/ (i \in trees /\ known[i] = {})
        BY <1>1, <2>2, <3>2 DEF RemoveFolder, Emptied, DatasetsInv, Listing
      <4> HIDE DEF i
      <4>2. \A j \in folders \ {1} : (j \in trees /\ known[j] = {}) \/ (j \in folders' /\ held'[j] = held[j])
        BY <1>1, <4>1 DEF DatasetsTypeOK
      <4> QED
        BY <4>2
    <3> QED
      BY <3>1, <3>2
  <2>3. ASSUME NEW s \in Secrets, MoveToTrash(s)
        PROVE  Stay
    <3> DEFINE i == chore.of
    <3>1. folders' = folders
      BY <2>3 DEF MoveToTrash
    <3>2. CASE 1 \in folders
      <4> DEFINE h == [held EXCEPT ![i] = held[i] \ {s}]
      <4>1. held' = [h EXCEPT ![1] = h[1] \cup {s}]
        BY <2>3, <3>2 DEF MoveToTrash
      <4>2. held \in [Indexes -> SUBSET Secrets] /\ folders \subseteq Indexes /\ 1 \in Indexes
        BY <1>1, IndexesAre DEF DatasetsTypeOK
      <4> HIDE DEF i
      <4>3. DOMAIN h = Indexes /\ \A j \in Indexes : h[j] = held[j] \/ h[j] = held[j] \ {s}
        BY <4>2
      <4> HIDE DEF h
      <4>4. s \in held'[1] /\ \A j \in Indexes \ {1} : held'[j] = h[j]
        BY <4>1, <4>2, <4>3
      <4>5. \A j \in folders \ {1} : held[j] \subseteq held'[j] \cup {s}
        BY <4>2, <4>3, <4>4
      <4> QED
        BY <3>1, <3>2, <4>4, <4>5
    <3>3. CASE 1 \notin folders
      BY <2>1, <2>3, <3>3 DEF MoveToTrash
    <3> QED
      BY <3>2, <3>3
  <2>4. CASE UNCHANGED <<dsVars, up>> \/ OpenDatasets \/ ChoreThrows \/ CloseDatasets \/ NameDataset
    BY <2>1, <2>4 DEF dsVars, OpenDatasets, ChoreThrows, CloseDatasets, NameDataset
  <2>5. CASE DatasetCommand
    BY <2>1, <2>5 DEF DatasetCommand, Looks, CreateDataset, UseDataset, DeleteDataset, RenameDataset, Mount
  <2>6. ASSUME NEW k \in Indexes, NEW s \in Secrets, PullSecret(k, s)
        PROVE  Stay
    <3>1. folders' = folders /\ held' = [held EXCEPT ![k] = @ \cup {s}]
      BY <2>6 DEF PullSecret
    <3>2. \A j \in folders : held[j] \subseteq held'[j]
      BY <1>1, <3>1 DEF DatasetsTypeOK
    <3> QED
      BY <2>1, <3>1, <3>2
  <2> QED
    BY <1>1, <2>2, <2>3, <2>4, <2>5, <2>6 DEF DatasetsDo, DatasetStep
<1>2. ASSUME DatasetsTypeOK, DatasetsInv, Calm, [DeskNext]_deskVars
      PROVE  [Stay]_dsVars
  BY <1>1, <1>2, DatasetsSteps
<1>3. DatasetsTypeOK /\ DatasetsInv /\ Calm /\ [DeskNext]_deskVars => [Stay]_dsVars
  BY <1>2
<1> QED
  BY <1>3, DatasetsAlways, AlwaysCalm, PTL DEF DeskSpec, SecretsStay

-----------------------------------------------------------------------------
(* The clipboard                                                           *)

\* What a step of the session does to it.
BoardDo ==
  \/ UNCHANGED <<board, left>>
  \/ UNCHANGED left
       /\ \/ \E fields \in Fields, wait \in BOOLEAN : Copy(fields, wait)
          \/ \E c \in Copies : WriteAndWait(c)
          \/ UserCopies
  \/ EndOfSession

LEMMA BoardSteps ==
  ASSUME [DeskNext]_deskVars
  PROVE  BoardDo
<1>1. CASE StartSession \/ BlankLine \/ \E ahead \in 1..2, last \in {"command", "missing", "empty"} : CallAlias(ahead, last)
  BY <1>1 DEF StartSession, BlankLine, CallAlias, BoardDo
<1>2. CASE CommandBegins
  <2>1. CASE \/ BooksCommand \/ DsCommand
             \/ \E xs \in SUBSET Docs, move, simulate \in BOOLEAN : ImportFiles(xs, move, simulate)
             \/ \E x \in Backups, move, simulate, tag \in BOOLEAN : Expand(x, move, simulate, tag)
             \/ \E t \in TagNames, nodes \in SUBSET stored : Tag(t, nodes)
             \/ TagThrows
    BY <2>1 DEF BooksCommand, DsCommand, ImportFiles, Expand, Tag, TagThrows, disk, BoardDo
  <2>2. CASE \E fields \in Fields, wait \in BOOLEAN : Copy(fields, wait)
    BY <2>2 DEF Copy, disk, BoardDo
  <2> QED
    BY <1>2, <2>1, <2>2 DEF CommandBegins
<1>3. CASE Works
  BY <1>3 DEF Works, BooksStep, DsStep, ImportFile, Unlink, ExpandItem, ImportEnds, ExpandEnds, SaveTags,
              TagsSaved, CopyEnds, Ends, GiveUp, SkipEmpty, BoardDo
<1>4. CASE ImportThrows \/ TagsNotSaved \/ DsThrows \/ PullEntry
  BY <1>4 DEF ImportThrows, TagsNotSaved, DsThrows, PullEntry, disk, BoardDo
<1>5. CASE UserCopies \/ \E c \in Copies : WriteAndWait(c)
  BY <1>5 DEF WriteAndWait, UserCopies, disk, BoardDo
<1>6. CASE \E i \in Indexes, s \in Secrets : PullFile(i, s)
  BY <1>6 DEF PullFile, BoardDo
<1>7. CASE Quit \/ CrashSession
  BY <1>7 DEF Quit, CrashSession, BoardDo
<1>8. CASE UNCHANGED deskVars
  BY <1>8 DEF deskVars, disk, BoardDo
<1> QED
  BY <1>1, <1>2, <1>3, <1>4, <1>5, <1>6, <1>7, <1>8 DEF DeskNext

\* The types of the clipboard and of the copies.
BoardTypes ==
  /\ CopiesAre /\ \A c \in Copies : copies[c].stage # "none" => copies[c].at \in Fields
  /\ clip \in Texts /\ own \in {OldText, NewText}
  /\ counter \in 0..MaxCopies
  /\ crossed \in BOOLEAN /\ left \in BOOLEAN

\* The next field of a copy, or its end.
LEMMA NextFieldOf ==
  ASSUME BoardTypes, NEW c \in Copies
  PROVE  \/ /\ counter = c /\ NextField(c).stage = "reading"
            /\ NextField(c) = [copies[c] EXCEPT !.stage = "reading", !.at = @ + 1]
            /\ copies[c].at + 1 \in Fields
         \/ NextField(c) = [copies[c] EXCEPT !.stage = "over"] /\ NextField(c).stage = "over"
BY DEF NextField, BoardTypes, CopiesAre, Fields

\* The copies after one has gone on.
LEMMA OneCopy ==
  ASSUME CopiesAre, NEW c \in Copies, NEW q, copies' = [copies EXCEPT ![c] = q]
  PROVE  /\ copies'[c] = q /\ \A d \in Copies \ {c} : copies'[d] = copies[d]
         /\ Live' = (Live \ {c}) \cup (IF q.stage \in {"none", "over"} THEN {} ELSE {c})
<1>1. copies'[c] = q /\ \A d \in Copies \ {c} : copies'[d] = copies[d]
  BY DEF CopiesAre
<1> QED
  BY <1>1 DEF Live

LEMMA CopyBegins ==
  ASSUME BoardTypes, BoardInv, left' = left,
         NEW fields \in Fields, NEW wait \in BOOLEAN, Copy(fields, wait)
  PROVE  (BoardTypes /\ BoardInv)'
<1> DEFINE c == counter + 1
           q == [NoCopy EXCEPT !.stage = "reading", !.fields = fields, !.at = 1]
<1>1. /\ c \in Copies /\ counter' = c /\ copies' = [copies EXCEPT ![c] = q]
      /\ crossed' = (crossed \/ Live # {}) /\ clip' = clip /\ own' = own
  BY DEF Copy
<1>2. q.stage = "reading" /\ q.at \in Fields
      /\ q \in [stage : {"none", "reading", "writing", "sleeping", "restoring", "over"},
                fields : {0} \cup Fields, at : {0} \cup Fields, before : Texts]
  <2> DEFINE Halves == {0} \cup Fields
  <2>1. OldText \in Texts /\ 0 \in Halves /\ 1 \in Halves /\ fields \in Halves /\ 1 \in Fields
    BY DEF Fields, Texts
  <2> HIDE DEF Halves
  <2>2. q.stage = "reading" /\ q.at = 1
        /\ q \in [stage : {"none", "reading", "writing", "sleeping", "restoring", "over"},
                  fields : Halves, at : Halves, before : Texts]
    BY <2>1 DEF NoCopy
  <2> QED
    BY <2>1, <2>2 DEF Halves
<1>3. c \in 0..MaxCopies
  BY <1>1, DeskAssumption DEF Copies
<1> HIDE DEF c, q
<1>4. Live' = (Live \ {c}) \cup {c} /\ copies'[c] = q /\ \A d \in Copies \ {c} : copies'[d] = copies[d]
  BY <1>1, <1>2, OneCopy DEF BoardTypes
<1>5. BoardTypes'
  BY <1>1, <1>2, <1>3, <1>4 DEF BoardTypes, CopiesAre
<1>6. ~crossed' => ~crossed /\ Live' = {c} /\ (~left => clip = own)
  BY <1>1, <1>4 DEF BoardInv
<1>7. ~left /\ ~crossed' => Holding(counter)'
  <2>1. copies'[counter'] = q
    BY <1>1, <1>4
  <2> QED
    BY <1>1, <1>2, <1>6, <2>1 DEF Holding
<1>8. (~crossed => Live \subseteq {counter})'
  BY <1>1, <1>6
<1>9. (~left /\ ~crossed => Live # {} /\ Holding(counter))'
  BY <1>6, <1>7
<1> QED
  BY <1>5, <1>8, <1>9 DEF BoardInv

LEMMA CopyGoesOn ==
  ASSUME BoardTypes, BoardInv, left' = left,
         NEW c \in Copies, WriteAndWait(c)
  PROVE  (BoardTypes /\ BoardInv)'
<1> DEFINE q == copies[c]
           Copying == [stage : {"none", "reading", "writing", "sleeping", "restoring", "over"},
                       fields : {0} \cup Fields, at : {0} \cup Fields,
                       before : Texts]
<1>1. UNCHANGED <<own, counter, crossed>>
  BY DEF WriteAndWait
<1>2. q \in Copying /\ q.stage \in {"reading", "writing", "sleeping", "restoring"} /\ q.at \in Fields
  BY DEF WriteAndWait, BoardTypes, CopiesAre
<1>3. c \in Live /\ (~crossed => counter = c /\ Live = {c})
  BY <1>2 DEF Live, BoardInv
<1>4. ~left /\ ~crossed => Holding(c)
  BY <1>3 DEF BoardInv
<1>5. ASSUME NEW r \in Copying, copies' = [copies EXCEPT ![c] = r], r.stage # "none", r.at \in Fields,
             clip' \in Texts,
             ~left /\ ~crossed =>
               IF r.stage = "over" THEN clip' = own
               ELSE /\ r.stage = "reading" => clip' = own
                    /\ r.stage = "writing" => clip' = own /\ r.before = own
                    /\ r.stage = "sleeping" => clip' = own \/ (clip' = <<c, r.at>> /\ r.before = own)
                    /\ r.stage = "restoring" => r.before = own
      PROVE  (BoardTypes /\ BoardInv)'
  <2>1. /\ Live' = (Live \ {c}) \cup (IF r.stage = "over" THEN {} ELSE {c})
        /\ copies'[c] = r /\ \A d \in Copies \ {c} : copies'[d] = copies[d]
    BY <1>5, OneCopy DEF BoardTypes
  <2>2. BoardTypes'
    BY <1>1, <1>5, <2>1 DEF BoardTypes, CopiesAre
  <2>3. ~crossed => Live' = (IF r.stage = "over" THEN {} ELSE {c})
    BY <1>3, <2>1
  <2>4. ~left /\ ~crossed /\ r.stage # "over" => Holding(c)'
    BY <1>1, <1>5, <2>1 DEF Holding, Text
  <2>5. (~crossed => Live \subseteq {counter})'
    BY <1>1, <1>3, <2>3
  <2>6. (~left /\ ~crossed => IF Live = {} THEN clip = own ELSE Holding(counter))'
    <3>1. CASE ~left /\ ~crossed /\ r.stage = "over"
      BY <1>1, <1>5, <2>3, <3>1
    <3>2. CASE ~left /\ ~crossed /\ r.stage # "over"
      <4>1. Live' = {c} /\ counter' = c /\ Holding(c)'
        BY <1>1, <1>3, <2>3, <2>4, <3>2
      <4> QED
        BY <4>1 DEF Holding
    <3> QED
      BY <1>1, <3>1, <3>2
  <2> QED
    BY <2>2, <2>5, <2>6 DEF BoardInv
<1>6. CASE q.stage = "reading"
  <2> DEFINE r == [q EXCEPT !.stage = "writing", !.before = clip]
  <2>1. copies' = [copies EXCEPT ![c] = r] /\ clip' = clip
    BY <1>2, <1>6 DEF WriteAndWait, Copying
  <2>2. r \in Copying /\ r.stage = "writing" /\ r.at \in Fields /\ r.before = clip
    BY <1>2 DEF BoardTypes
  <2>3. ~left /\ ~crossed => clip = own
    BY <1>4, <1>6 DEF Holding
  <2> HIDE DEF r
  <2> QED
    BY <1>5, <2>1, <2>2, <2>3 DEF BoardTypes
<1>7. CASE q.stage = "writing" /\ counter = c
  <2> DEFINE r == [q EXCEPT !.stage = "sleeping"]
  <2>1. copies' = [copies EXCEPT ![c] = r] /\ clip' = <<c, q.at>>
    BY <1>7 DEF WriteAndWait, Text
  <2>2. r \in Copying /\ r.stage = "sleeping" /\ r.at = q.at /\ r.before = q.before
    BY <1>2
  <2>3. ~left /\ ~crossed => q.before = own
    BY <1>4, <1>7 DEF Holding
  <2>4. clip' \in Texts
    BY <1>2, <2>1 DEF Texts
  <2> HIDE DEF r
  <2> QED
    BY <1>2, <1>5, <2>1, <2>2, <2>3, <2>4
<1>8. ASSUME copies' = [copies EXCEPT ![c] = NextField(c)], clip' \in Texts,
             ~left /\ ~crossed => clip' = own
      PROVE  (BoardTypes /\ BoardInv)'
  <2> DEFINE r == NextField(c)
  <2>1. r \in Copying /\ r.stage \in {"reading", "over"} /\ r.at \in Fields
    BY <1>2, NextFieldOf
  <2> HIDE DEF r
  <2> QED
    BY <1>5, <1>8, <2>1 DEF r
<1>9. CASE q.stage = "writing" /\ counter # c
  BY <1>3, <1>8, <1>9 DEF WriteAndWait, BoardTypes
<1>10. CASE q.stage = "sleeping" /\ ~StillThere(c)
  BY <1>3, <1>4, <1>8, <1>10 DEF WriteAndWait, StillThere, Holding, BoardTypes
<1>11. CASE q.stage = "sleeping" /\ StillThere(c)
  <2> DEFINE r == [q EXCEPT !.stage = "restoring"]
  <2>1. copies' = [copies EXCEPT ![c] = r] /\ clip' = clip
    BY <1>11 DEF WriteAndWait
  <2>2. r \in Copying /\ r.stage = "restoring" /\ r.at = q.at /\ r.before = q.before
    BY <1>2
  <2>3. own # <<c, q.at>>
    BY DEF BoardTypes, OldText, NewText, Copies
  <2>4. ~left /\ ~crossed => q.before = own
    BY <1>4, <1>11, <2>3 DEF StillThere, Holding, Text
  <2> HIDE DEF r
  <2> QED
    BY <1>2, <1>5, <2>1, <2>2, <2>4 DEF BoardTypes
<1>12. CASE q.stage = "restoring"
  <2>1. copies' = [copies EXCEPT ![c] = NextField(c)] /\ clip' = q.before
    BY <1>12 DEF WriteAndWait
  <2> QED
    BY <1>2, <1>4, <1>8, <1>12, <2>1 DEF Holding
<1> QED
  BY <1>2, <1>6, <1>7, <1>9, <1>10, <1>11, <1>12

LEMMA BoardKept ==
  ASSUME BoardTypes, BoardInv, BoardDo
  PROVE  (BoardTypes /\ BoardInv)'
<1>1. CASE UNCHANGED <<board, left>>
  <2>1. Live' = Live /\ Holding(counter)' = Holding(counter)
    BY <1>1 DEF board, Live, Holding, Text
  <2>2. BoardTypes'
    BY <1>1 DEF board, BoardTypes, CopiesAre
  <2> QED
    BY <1>1, <2>1, <2>2 DEF board, BoardInv
<1>3. ASSUME left' = left, UserCopies
      PROVE  (BoardTypes /\ BoardInv)'
  <2>1. /\ own' = NewText /\ clip' = NewText /\ UNCHANGED <<copies, counter>> /\ Live # {}
        /\ crossed' = (crossed \/ \E c \in Copies : copies[c].stage \in {"writing", "restoring"})
    BY <1>3 DEF UserCopies
  <2>2. Live' = Live
    BY <2>1 DEF Live
  <2>3. BoardTypes'
    BY <1>3, <2>1 DEF BoardTypes, CopiesAre, Texts
  <2>4. ~left /\ ~crossed' => Holding(counter)'
    <3>1. ~crossed' => Live = {counter} /\ copies[counter].stage \notin {"writing", "restoring"}
      BY <2>1 DEF BoardInv, Live
    <3> QED
      BY <2>1, <3>1 DEF Holding
  <2>5. crossed \in BOOLEAN /\ (crossed => crossed')
    BY <2>1 DEF BoardTypes
  <2>6. (~crossed => Live \subseteq {counter})'
    BY <2>1, <2>2, <2>5 DEF BoardInv
  <2> QED
    BY <1>3, <2>1, <2>2, <2>3, <2>4, <2>6 DEF BoardInv
<1>4. CASE EndOfSession
  <2>1. /\ left' = (left \/ Live # {})
        /\ copies' = [c \in Copies |-> IF c \in Live THEN [copies[c] EXCEPT !.stage = "over"] ELSE copies[c]]
        /\ UNCHANGED <<clip, own, counter, crossed>>
    BY <1>4 DEF EndOfSession
  <2>2. \A c \in Copies : /\ copies'[c].stage \in {"none", "over"}
                          /\ copies'[c].stage # "none" => copies'[c].at \in Fields
    BY <2>1 DEF Live, BoardTypes, CopiesAre
  <2>3. Live' = {}
    BY <2>2 DEF Live
  <2>4. CopiesAre'
    BY <2>1 DEF BoardTypes, CopiesAre
  <2>5. BoardTypes'
    BY <2>1, <2>2, <2>4 DEF BoardTypes
  <2>6. ~left' => ~left /\ Live = {}
    BY <2>1 DEF BoardTypes
  <2>7. ~left' => (~crossed => clip' = own')
    BY <2>1, <2>6 DEF BoardInv
  <2> QED
    BY <2>1, <2>3, <2>5, <2>7 DEF BoardInv
<1> QED
  BY <1>1, <1>3, <1>4, CopyBegins, CopyGoesOn DEF BoardDo

LEMMA BoardStart ==
  ASSUME DeskInit
  PROVE  BoardTypes /\ BoardInv
<1>1. /\ clip = OldText /\ own = OldText /\ copies = [c \in Copies |-> NoCopy] /\ counter = 0
      /\ crossed = FALSE /\ left = FALSE
  BY DEF DeskInit
<1>2. CopiesAre /\ \A c \in Copies : copies[c].stage = "none"
  <2> DEFINE Halves == {0} \cup Fields
  <2>1. OldText \in Texts /\ 0 \in Halves
    BY DEF Texts
  <2> HIDE DEF Halves
  <2>2. NoCopy.stage = "none"
        /\ NoCopy \in [stage : {"none", "reading", "writing", "sleeping", "restoring", "over"},
                       fields : Halves, at : Halves, before : Texts]
    BY <2>1 DEF NoCopy
  <2> QED
    BY <1>1, <2>2 DEF CopiesAre, Halves
<1>3. Live = {} /\ counter \in 0..MaxCopies
  BY <1>1, <1>2, DeskAssumption DEF Live
<1> QED
  BY <1>1, <1>2, <1>3 DEF BoardTypes, BoardInv, Texts

LEMMA BoardAlways == DeskSpec => [](BoardTypes /\ BoardInv)
<1>1. BoardTypes /\ BoardInv /\ [DeskNext]_deskVars => (BoardTypes /\ BoardInv)'
  BY BoardSteps, BoardKept
<1> QED
  BY <1>1, BoardStart, PTL DEF DeskSpec

\* When no copy is left the clipboard has the last text the user put there, wherever
\* he copies and wherever copies begin: what he copied while a copy slept is not
\* overwritten.  Unless two copies cross, he copies just between a look at the clipboard
\* and the write it decided, or a session ends before a copy.
THEOREM NothingLeftBehind == DeskSpec => []SecretsLeave
<1>1. BoardTypes /\ BoardInv => SecretsLeave
  BY DEF BoardTypes, BoardInv, SecretsLeave
<1> QED
  BY <1>1, BoardAlways, PTL

-----------------------------------------------------------------------------
(* The types of the rest                                                   *)

DeskRest ==
  /\ prompt \in {"off", "asking", "calling", "busy", "lost"}
  /\ chain \in [ahead : 0..2, last : {"command", "missing", "empty"}]
  /\ quiet \in BOOLEAN /\ muted \in BOOLEAN
  /\ local \subseteq Docs
  /\ calls \in 0..MaxCalls /\ trouble \in 0..MaxTrouble

LEMMA NoChainTyped == NoChain \in [ahead : 0..2, last : {"command", "missing", "empty"}]
BY DEF NoChain

LEMMA RestBegins ==
  ASSUME DeskRest, Begins
  PROVE  /\ prompt' = "busy" /\ quiet' \in BOOLEAN /\ calls' \in 0..MaxCalls
         /\ chain' \in [ahead : 0..2, last : {"command", "missing", "empty"}]
<1>1. CASE prompt = "asking"
  BY <1>1, DeskAssumption DEF DeskRest, Begins, Exec
<1>2. CASE prompt # "asking"
  <2>1. chain.ahead > 0 /\ chain' = [chain EXCEPT !.ahead = @ - 1] /\ quiet' = (chain.ahead > 1) /\ calls' = calls
    BY <1>2 DEF Begins, Exec
  <2>2. chain.ahead \in 1..2 /\ chain.last \in {"command", "missing", "empty"}
    BY <2>1 DEF DeskRest
  <2>3. chain' \in [ahead : 0..2, last : {"command", "missing", "empty"}]
    BY <2>1, <2>2 DEF DeskRest
  <2> QED
    BY <2>1, <2>3 DEF Begins, DeskRest
<1> QED
  BY <1>1, <1>2

LEMMA RestKept ==
  ASSUME DeskRest, job \in Jobs, [DeskNext]_deskVars
  PROVE  DeskRest'
<1>1. CASE StartSession
  BY <1>1, NoChainTyped DEF StartSession, DeskRest, disk
<1>2. ASSUME NEW ahead \in 1..2, NEW last \in {"command", "missing", "empty"}, CallAlias(ahead, last)
      PROVE  DeskRest'
  BY <1>2, DeskAssumption DEF CallAlias, DeskRest, disk
<1>3. CASE CommandBegins
  <2>1. Begins /\ local' = local /\ trouble' = trouble /\ muted' \in BOOLEAN
    BY <1>3 DEF CommandBegins, BooksCommand, DsCommand, ImportFiles, Expand, Tag, TagThrows, Copy, disk, DeskRest
  <2> QED
    BY <2>1, RestBegins DEF DeskRest
<1>4. CASE Works
  <2>1. CASE BooksStep \/ DsStep \/ ImportEnds \/ SaveTags \/ TagsSaved \/ CopyEnds
    BY <2>1 DEF BooksStep, DsStep, ImportEnds, SaveTags, TagsSaved, CopyEnds, MovedOff, disk, console, DeskRest
  <2>2. CASE ExpandEnds
    <3>1. muted' \in BOOLEAN
      BY <2>2 DEF ExpandEnds, DeskRest, Jobs
    <3>2. local' \subseteq local /\ UNCHANGED <<console, trouble>>
      BY <2>2 DEF ExpandEnds, MovedOff
    <3> QED
      BY <3>1, <3>2 DEF console, DeskRest
  <2>3. CASE \/ \E x \in Docs : ImportFile(x) \/ Unlink(x)
             \/ \E x \in Backups : \E i \in Items[x] : ExpandItem(i)
    BY <2>3 DEF ImportFile, Unlink, ExpandItem, console, DeskRest
  <2>4. CASE Ends \/ GiveUp \/ SkipEmpty
    BY <2>4, NoChainTyped DEF Ends, GiveUp, SkipEmpty, Run, disk, DeskRest
  <2> QED
    BY <1>4, <2>1, <2>2, <2>3, <2>4 DEF Works
<1>5. CASE ImportThrows \/ TagsNotSaved \/ DsThrows \/ PullEntry
  BY <1>5, DeskAssumption DEF ImportThrows, TagsNotSaved, DsThrows, PullEntry, console, disk, DeskRest
<1>6. CASE (\E c \in Copies : WriteAndWait(c)) \/ UserCopies \/ BlankLine
  BY <1>6 DEF WriteAndWait, UserCopies, BlankLine, console, disk, DeskRest
<1>9. CASE \E i \in Indexes, s \in Secrets : PullFile(i, s)
  BY <1>9, DeskAssumption DEF PullFile, console, disk, DeskRest
<1>7. CASE Quit \/ CrashSession
  <2>1. /\ prompt' = "off" /\ chain' = NoChain /\ quiet' = FALSE
        /\ UNCHANGED <<calls, muted, local>>
        /\ trouble' = trouble \/ (trouble < MaxTrouble /\ trouble' = trouble + 1)
    BY <1>7 DEF Quit, CrashSession, EndOfSession, disk
  <2>2. trouble' \in 0..MaxTrouble
    BY <2>1, DeskAssumption DEF DeskRest
  <2> QED
    BY <2>1, <2>2, NoChainTyped DEF DeskRest
<1>8. CASE UNCHANGED deskVars
  BY <1>8 DEF deskVars, console, disk, DeskRest
<1> QED
  BY <1>1, <1>2, <1>3, <1>4, <1>5, <1>6, <1>7, <1>8, <1>9 DEF DeskNext

LEMMA RestAlways == DeskSpec => []DeskRest
<1>1. DeskInit => DeskRest
  <2> SUFFICES ASSUME DeskInit PROVE DeskRest
    OBVIOUS
  <2>1. /\ prompt = "off" /\ chain = NoChain /\ quiet = FALSE /\ muted = FALSE /\ local = Docs
        /\ calls = 0 /\ trouble = 0
    BY DEF DeskInit
  <2>2. 0 \in 0..MaxCalls /\ 0 \in 0..MaxTrouble
    BY DeskAssumption
  <2> QED
    BY <2>1, <2>2, NoChainTyped DEF DeskRest
<1>2. DeskRest /\ job \in Jobs /\ [DeskNext]_deskVars => DeskRest'
  BY RestKept
<1> QED
  BY <1>1, <1>2, FilesAlways, PTL DEF DeskSpec

\* The books, the tags, the datasets, the prompt, the clipboard and the disk have
\* their types, for any constants.
THEOREM DeskTypes == DeskSpec => []DeskTypeOK
<1>1. BooksTypeOK /\ TagsTypeOK /\ DatasetsTypeOK /\ BoardTypes /\ DeskRest => DeskTypeOK
  BY DEF BoardTypes, DeskRest, DeskTypeOK, Texts
<1> QED
  BY <1>1, BooksAlways, TagsAlways, DatasetsAlways, BoardAlways, RestAlways, PTL
=============================================================================
