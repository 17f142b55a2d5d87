------------------------------- MODULE Books -------------------------------
(***************************************************************************)
(* The aliases and the contacts: DataCache (packages/fs), the two managers *)
(* and the commands alias and contacts (packages/secrez).  A book is kept  *)
(* in memory and in a folder of the container, one file for each name; the *)
(* name of a file is the name encrypted, which is different each time.     *)
(* A command checks the memory, then does its steps on file and memory one *)
(* after the other; the session can end between two of them.               *)
(* The container may be synchronised: files of another computer come in.   *)
(***************************************************************************)
EXTENDS Integers, Sequences, FiniteSets

CONSTANTS
    Names,      \* of aliases and contacts
    Keys,       \* the public keys of contacts
    Urls,       \* their urls on the hub
    Lines,      \* the command lines of aliases
    Before,     \* the entries written by earlier sessions
    MaxFiles,   \* bound: the files ever written
    None        \* no entry, no key, no url

ASSUME BooksAssumption == MaxFiles \in Nat /\ None \notin Keys \cup Urls \cup Lines

Kinds == {"alias", "contact"}

\* What an entry holds: a command line, or a public key and an url.
Holdings == [key : Keys \cup Lines \cup {None}, url : Urls \cup {None}]

VARIABLES
    book,       \* DataCache.cache: the file an entry was loaded from or saved to
    files,      \* the files in the folders cache/alias and cache/contact
    written,    \* how many files were written so far
    foreign,    \* the files that came from another computer
    todo,       \* the steps the running command has left
    up          \* a session is running

bookVars == <<book, files, written, foreign, todo, up>>

Files == [kind : Kinds, name : Names, holds : Holdings, id : 1..MaxFiles]

\* What two contacts hold: neither their public keys nor their urls are the same.
Distinct(g, h) ==
    /\ g.key = h.key => g.key = None
    /\ g.url = h.url => g.url = None

\* What BooksAgree and OneKeyEach say of the earlier sessions: one file for each name,
\* no public key and no url twice.
ASSUME BeforeAssumption ==
    /\ Before \subseteq Files /\ IsFiniteSet(Before) /\ Cardinality(Before) <= MaxFiles
    /\ None \notin Files
    /\ \A f, g \in Before : f.kind = g.kind /\ f # g =>
         /\ f.name # g.name
         /\ f.kind = "contact" => Distinct(f.holds, g.holds)

Steps == [do : {"remove", "create"}, kind : Kinds, name : Names, holds : Holdings]

Empty == [k \in Kinds |-> [n \in Names |-> None]]

Nothing == [key |-> None, url |-> None]

BooksInit ==
    /\ book = Empty /\ files = Before /\ written = Cardinality(Before) /\ foreign = {} /\ todo = <<>>
    /\ up = FALSE

Entry(k, n) == book[k][n]

Has(k, n) == Entry(k, n) # None

Contacts == {n \in Names : Has("contact", n)}

Filed(k, n) == {f \in files : f.kind = k /\ f.name = n}

Step(do, k, n, holds) == [do |-> do, kind |-> k, name |-> n, holds |-> holds]

-----------------------------------------------------------------------------
(* DataCache                                                               *)

\* load(key): the files in the order the folder gives them, the last one of a
\* name over the others.
Load ==
    /\ book' \in {b \in [Kinds -> [Names -> files \cup {None}]] :
                    \A k \in Kinds, n \in Names :
                      IF Filed(k, n) = {} THEN b[k][n] = None ELSE b[k][n] \in Filed(k, n)}
    /\ up' = TRUE
    /\ UNCHANGED <<files, written, foreign, todo>>

\* puts(key, data) with save: the file has a new name, so no other is replaced.
Puts(s) ==
    LET f == [kind |-> s.kind, name |-> s.name, holds |-> s.holds, id |-> written + 1] IN
    /\ written < MaxFiles
    /\ written' = written + 1
    /\ files' = files \cup {f}
    /\ book' = [book EXCEPT ![s.kind][s.name] = f]

\* create of a manager: it throws for a name that is there.
Create(s) ==
    IF Has(s.kind, s.name)
      THEN /\ todo' = <<>>
           /\ UNCHANGED <<book, files, written, foreign, up>>
      ELSE /\ Puts(s)
           /\ todo' = Tail(todo)
           /\ UNCHANGED <<foreign, up>>

\* As RemoveEntry, with the file left in the folder.
RemoveEntryMutantLeaves(s) ==
    /\ book' = [book EXCEPT ![s.kind][s.name] = None]
    /\ todo' = Tail(todo)
    /\ UNCHANGED <<files, written, foreign, up>>

\* remove(key, value): the file the entry came from, and the entry.
RemoveEntry(s) ==
    /\ files' = files \ {Entry(s.kind, s.name)}
    /\ book' = [book EXCEPT ![s.kind][s.name] = None]
    /\ todo' = Tail(todo)
    /\ UNCHANGED <<written, foreign, up>>

DoStep ==
    /\ todo # <<>>
    /\ LET s == Head(todo) IN
         IF s.do = "create" THEN Create(s) ELSE RemoveEntry(s)

-----------------------------------------------------------------------------
(* The commands                                                            *)

AddAlias(n, line) ==
    /\ ~Has("alias", n)
    /\ todo' = <<Step("create", "alias", n, [key |-> line, url |-> None])>>

\* As AlreadyExists, of the same name only.
AlreadyExistsMutantOwn(n, key, url) ==
    n \in Contacts /\ key # None /\ Entry("contact", n).holds.key # key

\* checkIfAlreadyExists(name, publicKey, url)
AlreadyExists(n, key, url) ==
    \E m \in Contacts :
      LET h == Entry("contact", m).holds IN
      IF m # n THEN (key # None /\ h.key = key) \/ (url # None /\ h.url = url)
               ELSE key # None /\ h.key # key

AddContact(n, key, url) ==
    /\ ~Has("contact", n)
    /\ ~AlreadyExists(n, key, url)
    /\ todo' = <<Step("create", "contact", n, [key |-> key, url |-> url])>>

\* update: the key it has when none is given; it removes, then creates.
UpdateContact(n, given, url) ==
    LET key == IF given # None THEN given ELSE Entry("contact", n).holds.key IN
    /\ Has("contact", n)
    /\ ~AlreadyExists(n, key, url)
    /\ todo' = <<Step("remove", "contact", n, Nothing),
                 Step("create", "contact", n, [key |-> key, url |-> url])>>

\* Both remove the entry, then create one under the new name.
Rename(k, n, m, holds) ==
    /\ Has(k, n) /\ ~Has(k, m)
    /\ todo' = <<Step("remove", k, n, Nothing), Step("create", k, m, holds)>>

RenameAlias(n, m) == Rename("alias", n, m, Entry("alias", n).holds)

\* It passes on a content that create() does not look at: the contact is there,
\* without its public key and its url.
RenameContact(n, m) == Rename("contact", n, m, Nothing)

Delete(k, n) ==
    /\ Has(k, n)
    /\ todo' = <<Step("remove", k, n, Nothing)>>

AliasCommand ==
    \/ \E n \in Names, line \in Lines : AddAlias(n, line)
    \/ \E n, m \in Names : RenameAlias(n, m)
    \/ \E n \in Names : Delete("alias", n)

ContactsCommand ==
    \/ \E n \in Names, key \in Keys, url \in Urls \cup {None} : AddContact(n, key, url)
    \/ \E n \in Names, key \in Keys \cup {None}, url \in Urls \cup {None} :
         UpdateContact(n, key, url)
    \/ \E n, m \in Names : RenameContact(n, m)
    \/ \E n \in Names : Delete("contact", n)

\* A pull brings in an entry written elsewhere.
Pull(k, n, holds) ==
    LET f == [kind |-> k, name |-> n, holds |-> holds, id |-> written + 1] IN
    /\ written < MaxFiles
    /\ written' = written + 1
    /\ files' = files \cup {f}
    /\ foreign' = foreign \cup {f}
    /\ UNCHANGED <<book, todo, up>>

\* The session ends, wherever it is.
CloseBooks ==
    /\ book' = Empty /\ todo' = <<>> /\ up' = FALSE
    /\ UNCHANGED <<files, written, foreign>>

-----------------------------------------------------------------------------
BooksTypeOK ==
    /\ book \in [Kinds -> [Names -> Files \cup {None}]]
    /\ files \subseteq Files /\ foreign \subseteq Files
    /\ written \in 0..MaxFiles
    /\ todo \in Seq(Steps) /\ Len(todo) <= 2
    /\ up \in BOOLEAN

\* No other computer ever wrote an entry of this name.
Ours(k, n) == \A f \in foreign : f.kind # k \/ f.name # n

\* Between commands, also of a session that follows a crash in one, the memory is what the
\* folder has: every entry is in a file, and no file holds an older entry of the
\* name, or one that was removed, unless another computer wrote one too.
BooksAgree ==
    up /\ todo = <<>> => \A k \in Kinds, n \in Names :
      /\ Has(k, n) => Entry(k, n) \in files
      /\ Ours(k, n) => Filed(k, n) \subseteq {Entry(k, n)}

\* No public key and no url belongs to two contacts, through any sequence of
\* commands, unless another computer gave it to one.
OneKeyEach ==
    foreign = {} => \A n, m \in Contacts :
      n # m => Distinct(Entry("contact", n).holds, Entry("contact", m).holds)
=============================================================================
