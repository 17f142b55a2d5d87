-------------------------------- MODULE Desk --------------------------------
(***************************************************************************)
(* A session of secrez at its prompt (packages/secrez): lines and aliases  *)
(* become commands, which run one at a time; import moves files from the   *)
(* local disk into the tree, copy keeps a text in the clipboard for a      *)
(* while.  The books are those of Books, the tags those of Tags, the       *)
(* datasets those of Datasets.                                             *)
(* The tree is here only the secrets it has on disk and its flag doNotSave *)
(* (InternalFs models it); the user does what he likes with the clipboard  *)
(* and ends the session when he likes.                                     *)
(***************************************************************************)
EXTENDS Books, Tags, Datasets

CONSTANTS
    Docs,       \* the files on the local disk
    Sealed,     \* those encrypted with a key this account does not have
    Backups,    \* those that import -e can expand
    Items,      \* the items of a backup
    Pathless,   \* the items with no path
    Older,      \* the secrets of earlier sessions
    MaxCalls,   \* bound: the commands called, by a line or by an alias
    MaxCopies,  \* bound: the copies to the clipboard
    MaxTrouble  \* bound: writes that fail, pulls, and sessions that crash

ASSUME DeskAssumption ==
    /\ Sealed \subseteq Docs /\ Backups \subseteq Docs
    /\ DOMAIN Items = Backups
    /\ {MaxCalls, MaxCopies, MaxTrouble} \subseteq Nat

Copies == 1..MaxCopies
Fields == 1..2

VARIABLES
    prompt,     \* "off", "asking", "calling" a command of an alias, "busy", or
                \* "lost": nothing runs and nothing asks
    chain,      \* the commands the alias has left, and what the last one is
    quiet,      \* disableRun
    job,        \* the import, the copy or the save of the tags that is running
    muted,      \* doNotSave
    local,      \* the files on the local disk
    stored,     \* the documents and items that are secrets
    clip,       \* the clipboard: a text of the user, or a field of a copy
    own,        \* the last text the user put there
    copies,     \* the copies, by number
    counter,    \* Copy.counter
    crossed,    \* a copy began while another was not over, or the user copied just
                \* as one was about to write
    left,       \* a session ended before a copy did
    calls, trouble

console == <<prompt, chain, quiet, calls>>
disk    == <<local, stored>>
board   == <<clip, own, copies, counter, crossed>>
kept    == <<bookVars, tagVars, dsVars>>
deskVars == <<kept, console, job, muted, disk, board, left, trouble>>

\* The texts of the user: the one he has when he copies from secrez, and a newer one
\* (the bound of UserCopies).
OldText == <<0, 0>>
NewText == <<0, 1>>

NoJob == [cmd |-> "none", files |-> {}, moved |-> {}, move |-> FALSE, simulate |-> FALSE,
          tag |-> FALSE, of |-> None]

NoChain == [ahead |-> 0, last |-> "command"]

NoCopy == [stage |-> "none", fields |-> 0, at |-> 0, before |-> OldText]

Live == {c \in Copies : copies[c].stage \notin {"none", "over"}}

DeskInit ==
    /\ BooksInit /\ TagsInit /\ DatasetsInit
    /\ prompt = "off" /\ chain = NoChain /\ quiet = FALSE
    /\ job = NoJob /\ muted = FALSE
    /\ local = Docs /\ stored = Older
    /\ clip = OldText /\ own = OldText /\ copies = [c \in Copies |-> NoCopy] /\ counter = 0
    /\ crossed = FALSE /\ left = FALSE
    /\ calls = 0 /\ trouble = 0

-----------------------------------------------------------------------------
(* The prompt                                                              *)

\* preRun: the books are loaded after the login; the tree starts enabled.
StartSession ==
    /\ ~up
    /\ Load /\ LoadTags /\ OpenDatasets
    /\ prompt' = "asking" /\ chain' = NoChain /\ quiet' = FALSE
    /\ muted' = FALSE
    /\ UNCHANGED <<job, disk, board, left, calls, trouble>>

\* run(): it asks for a line, unless an alias disabled it.
Run(disabled) == prompt' = IF disabled THEN "calling" ELSE "asking"

\* A line that is an alias, of one or two commands; the last may miss a parameter the
\* line has not, or, when the alias ends in "&&", be empty.
CallAlias(ahead, last) ==
    /\ prompt = "asking" /\ calls + ahead <= MaxCalls
    /\ last = "empty" => ahead > 1
    /\ \E n \in Names : Has("alias", n)
    /\ calls' = calls + ahead
    /\ prompt' = "calling"
    /\ chain' = [ahead |-> ahead, last |-> last]
    /\ UNCHANGED <<kept, quiet, job, muted, disk, board, left, trouble>>

\* A blank line is looked up as an alias too, and the whole map is found: the exception
\* that follows is caught where nothing asks again.
BlankLine ==
    /\ prompt = "asking"
    /\ prompt' = "lost"
    /\ UNCHANGED <<kept, chain, quiet, calls, job, muted, disk, board, left, trouble>>

\* As GiveUp, with the prompt left disabled.
GiveUpMutantQuiet ==
    /\ prompt = "calling" /\ chain.last = "missing"
    /\ chain' = NoChain
    /\ Run(quiet)
    /\ UNCHANGED <<kept, quiet, job, muted, disk, board, left, calls, trouble>>

\* From the command that misses a parameter on, none is executed.
GiveUp ==
    /\ prompt = "calling" /\ chain.last = "missing"
    /\ quiet' = FALSE
    /\ chain' = NoChain
    /\ Run(quiet')
    /\ UNCHANGED <<kept, job, muted, disk, board, left, calls, trouble>>

\* exec() skips an empty command, and with the last one the prompt that it would run.
SkipEmpty ==
    /\ prompt = "calling" /\ chain = [ahead |-> 1, last |-> "empty"]
    /\ quiet' = FALSE
    /\ chain' = NoChain
    /\ prompt' = "lost"
    /\ UNCHANGED <<kept, job, muted, disk, board, left, calls, trouble>>

\* A command typed, or the next one of an alias: only the last of an alias
\* leaves the prompt enabled.
Exec ==
    \/ /\ prompt = "asking" /\ calls < MaxCalls
       /\ calls' = calls + 1
       /\ UNCHANGED <<chain, quiet>>
    \/ /\ prompt = "calling" /\ chain.ahead > 0
       /\ chain.last # "command" => chain.ahead > 1
       /\ chain' = [chain EXCEPT !.ahead = @ - 1]
       /\ quiet' = (chain.ahead > 1)
       /\ UNCHANGED calls

Begins == Exec /\ prompt' = "busy"

\* A command of the books checks, or throws and is over.
BooksCommand ==
    /\ Begins
    /\ AliasCommand \/ ContactsCommand \/ todo' = <<>>
    /\ UNCHANGED <<book, files, written, foreign, up, tagVars, dsVars, job, muted, disk, board, left, trouble>>

BooksStep ==
    /\ DoStep
    /\ UNCHANGED <<tagVars, dsVars, console, job, muted, disk, board, left, trouble>>

\* ds and use.
DsCommand ==
    /\ Begins
    /\ DatasetCommand
    /\ UNCHANGED <<bookVars, tagVars, job, muted, disk, board, left, trouble>>

DsStep ==
    /\ DatasetStep
    /\ UNCHANGED <<bookVars, tagVars, console, job, muted, disk, board, left, trouble>>

DsThrows ==
    /\ trouble < MaxTrouble
    /\ trouble' = trouble + 1
    /\ ChoreThrows
    /\ UNCHANGED <<bookVars, tagVars, console, job, muted, disk, board, left>>

\* Any command ends with prompt.run().
Ends ==
    /\ prompt = "busy" /\ todo = <<>> /\ job = NoJob /\ chore = NoChore
    /\ Run(quiet)
    /\ UNCHANGED <<kept, chain, quiet, calls, job, muted, disk, board, left, trouble>>

-----------------------------------------------------------------------------
(* import                                                                  *)

\* The tree is not to be saved while the files come in.
ImportFiles(xs, move, simulate) ==
    /\ Begins
    /\ xs \subseteq local /\ xs # {}
    /\ job' = [NoJob EXCEPT !.cmd = "import", !.files = IF simulate THEN {} ELSE xs,
                            !.move = move]
    /\ muted' = TRUE
    /\ UNCHANGED <<kept, disk, board, left, trouble>>

\* decryptFile: of files encrypted for this account.
Readable(x) == x \notin Sealed

\* A file that has to move is noted before it is known to be readable.
ImportFile(x) ==
    /\ job.cmd = "import" /\ x \in job.files
    /\ job' = [job EXCEPT !.files = @ \ {x}, !.moved = @ \cup (IF job.move THEN {x} ELSE {})]
    /\ stored' = IF Readable(x) THEN stored \cup {x} ELSE stored
    /\ UNCHANGED <<kept, console, muted, local, board, left, trouble>>

Unlink(x) ==
    /\ job.cmd = "import" /\ job.files = {} /\ x \in job.moved
    /\ job' = [job EXCEPT !.moved = @ \ {x}]
    /\ local' = local \ {x}
    /\ UNCHANGED <<kept, console, muted, stored, board, left, trouble>>

ImportEnds ==
    /\ job.cmd = "import" /\ job.files = {} /\ job.moved = {}
    /\ job' = NoJob
    /\ muted' = FALSE
    /\ UNCHANGED <<kept, console, disk, board, left, trouble>>

Expand(x, move, simulate, tag) ==
    /\ Begins
    /\ x \in Backups \cap local
    /\ job' = [cmd |-> "expand", files |-> Items[x], moved |-> {}, move |-> move,
               simulate |-> simulate, tag |-> tag, of |-> x]
    /\ muted' = TRUE
    /\ UNCHANGED <<kept, disk, board, left, trouble>>

\* With -t its tags are saved as tags; saving is disabled by now.
ExpandItem(i) ==
    LET made == ~job.simulate /\ i \notin Pathless IN
    /\ job.cmd = "expand" /\ i \in job.files
    /\ job' = [job EXCEPT !.files = @ \ {i}]
    /\ stored' = IF made THEN stored \cup {i} ELSE stored
    /\ IF made /\ job.tag THEN \E t \in TagNames : AddTag(t, {i}) ELSE UNCHANGED tagVars
    /\ UNCHANGED <<bookVars, dsVars, console, muted, local, board, left, trouble>>

\* The file a backup was in goes with --move, the last of all.
MovedOff(done) == IF job.move /\ done THEN local \ {job.of} ELSE local

\* A simulation does not enable saving again; with -t the tags are saved next.
ExpandEnds ==
    /\ job.cmd = "expand" /\ job.files = {}
    /\ muted' = (muted /\ job.simulate)
    /\ IF job.tag /\ ~job.simulate
         THEN job' = [job EXCEPT !.cmd = "tag"] /\ UNCHANGED local
         ELSE job' = NoJob /\ local' = MovedOff(~job.simulate)
    /\ UNCHANGED <<kept, console, stored, board, left, trouble>>

\* As ImportThrows, with the files that have to move removed all the same.
ImportThrowsMutantMoves ==
    /\ job.cmd \in {"import", "expand"} /\ job.files # {} /\ trouble < MaxTrouble
    /\ trouble' = trouble + 1
    /\ job' = NoJob
    /\ local' = IF job.move THEN local \ job.files ELSE local
    /\ UNCHANGED <<kept, console, muted, stored, board, left>>

\* make() throws: the exception ends the command where it is.
ImportThrows ==
    /\ job.cmd \in {"import", "expand"} /\ job.files # {} /\ trouble < MaxTrouble
    /\ trouble' = trouble + 1
    /\ job' = NoJob
    /\ UNCHANGED <<kept, console, muted, disk, board, left>>

-----------------------------------------------------------------------------
(* tag                                                                     *)

\* Saving is disabled for a while, so that the tags are saved once; if it was
\* disabled before, it is not enabled and nothing is saved.
Tag(t, nodes) ==
    /\ Begins
    /\ nodes \subseteq stored /\ nodes # {}
    /\ AddTag(t, nodes) \/ RemoveTag(t, nodes)
    /\ job' = IF muted THEN NoJob ELSE [NoJob EXCEPT !.cmd = "tag"]
    /\ UNCHANGED <<bookVars, dsVars, muted, disk, board, left, trouble>>

\* --remove is declared a flag, where tag() takes a list: from the prompt it throws for
\* any tag, as it does for one there is not, and saving stays disabled.
TagThrows ==
    /\ Begins
    /\ stored # {}
    /\ muted' = TRUE
    /\ UNCHANGED <<kept, job, disk, board, left, trouble>>

SaveTags ==
    /\ job.cmd = "tag"
    /\ IF changed
         THEN /\ UnsaveTags
              /\ job' = [job EXCEPT !.cmd = "tagged"]
              /\ UNCHANGED local
         ELSE /\ job' = NoJob
              /\ local' = MovedOff(TRUE)
              /\ UNCHANGED tagVars
    /\ UNCHANGED <<bookVars, dsVars, console, muted, stored, board, left, trouble>>

TagsSaved ==
    /\ job.cmd = "tagged"
    /\ WriteTags
    /\ job' = NoJob
    /\ local' = MovedOff(TRUE)
    /\ UNCHANGED <<bookVars, dsVars, console, muted, stored, board, left, trouble>>

TagsNotSaved ==
    /\ job.cmd = "tagged" /\ trouble < MaxTrouble
    /\ trouble' = trouble + 1
    /\ WriteTagsFails
    /\ job' = NoJob
    /\ UNCHANGED <<bookVars, dsVars, console, muted, disk, board, left>>

-----------------------------------------------------------------------------
(* copy                                                                    *)

\* copy: the command waits for the end with --wait only.
Copy(fields, wait) ==
    LET c == counter + 1 IN
    /\ Begins
    /\ c \in Copies
    /\ counter' = c
    /\ copies' = [copies EXCEPT ![c] = [NoCopy EXCEPT !.stage = "reading", !.fields = fields, !.at = 1]]
    /\ crossed' = (crossed \/ Live # {})
    /\ job' = IF wait THEN [NoJob EXCEPT !.cmd = "copy", !.of = c] ELSE NoJob
    /\ UNCHANGED <<kept, muted, disk, clip, own, left, trouble>>

CopyEnds ==
    /\ job.cmd = "copy" /\ job.of \notin Live
    /\ job' = NoJob
    /\ UNCHANGED <<kept, console, muted, disk, board, left, trouble>>

Text(c) == <<c, copies[c].at>>

\* write(): after a field the next one, if no other copy began.
NextField(c) ==
    IF counter = c /\ copies[c].at < copies[c].fields
      THEN [copies[c] EXCEPT !.stage = "reading", !.at = @ + 1]
      ELSE [copies[c] EXCEPT !.stage = "over"]

\* As StillThere, whatever the user has copied meanwhile.
StillThereMutantBlind(c) == counter = c

\* No other copy began, and the clipboard has what this one put there.
StillThere(c) == counter = c /\ clip = Text(c)

\* writeAndWait(): it reads the clipboard, writes, sleeps, reads, writes.
WriteAndWait(c) ==
    LET q == copies[c]
        To(stage) == [q EXCEPT !.stage = stage]
    IN  /\ \/ /\ q.stage = "reading"
              /\ copies' = [copies EXCEPT ![c] = [To("writing") EXCEPT !.before = clip]]
              /\ UNCHANGED clip
           \/ /\ q.stage = "writing"
              /\ copies' = [copies EXCEPT ![c] = IF counter = c THEN To("sleeping") ELSE NextField(c)]
              /\ clip' = IF counter = c THEN Text(c) ELSE clip
           \/ /\ q.stage = "sleeping"
              /\ copies' = [copies EXCEPT ![c] =
                              IF StillThere(c) THEN To("restoring") ELSE NextField(c)]
              /\ UNCHANGED clip
           \/ /\ q.stage = "restoring"
              /\ clip' = q.before
              /\ copies' = [copies EXCEPT ![c] = NextField(c)]
        /\ UNCHANGED <<kept, console, job, muted, disk, own, counter, crossed, left, trouble>>

\* The user copies a new text while a copy is not over, perhaps between its look at the
\* clipboard and the write that follows.  (When none is, it is only another OldText.)
UserCopies ==
    /\ Live # {} /\ own = OldText
    /\ own' = NewText /\ clip' = NewText
    /\ crossed' = (crossed \/ \E c \in Copies : copies[c].stage \in {"writing", "restoring"})
    /\ UNCHANGED <<kept, console, job, muted, disk, copies, counter, left, trouble>>

-----------------------------------------------------------------------------
(* The end of a session                                                    *)

\* What waited in the process is gone with it.
EndOfSession ==
    /\ CloseBooks /\ ForgetTags(job.cmd = "tagged") /\ CloseDatasets
    /\ prompt' = "off" /\ chain' = NoChain /\ quiet' = FALSE
    /\ job' = NoJob
    /\ left' = (left \/ Live # {})
    /\ copies' = [c \in Copies |-> IF c \in Live THEN [copies[c] EXCEPT !.stage = "over"]
                                                 ELSE copies[c]]
    /\ UNCHANGED <<calls, muted, disk, clip, own, counter, crossed>>

\* The command quit; or the process has nothing left to do, or the user kills it.
Quit == prompt \in {"asking", "lost"} /\ EndOfSession /\ UNCHANGED trouble

CrashSession == up /\ trouble < MaxTrouble /\ trouble' = trouble + 1 /\ EndOfSession

PullEntry ==
    /\ trouble < MaxTrouble
    /\ trouble' = trouble + 1
    /\ \/ \E n \in Names, key \in Keys : Pull("contact", n, [key |-> key, url |-> None])
       \/ \E n \in Names, line \in Lines : Pull("alias", n, [key |-> line, url |-> None])
    /\ UNCHANGED <<tagVars, dsVars, console, job, muted, disk, board, left>>

PullFile(i, s) ==
    /\ trouble < MaxTrouble
    /\ trouble' = trouble + 1
    /\ PullSecret(i, s)
    /\ UNCHANGED <<bookVars, tagVars, console, job, muted, disk, board, left>>

-----------------------------------------------------------------------------
Works ==
    \/ BooksStep \/ DsStep
    \/ \E x \in Docs : ImportFile(x) \/ Unlink(x)
    \/ \E x \in Backups : \E i \in Items[x] : ExpandItem(i)
    \/ ImportEnds \/ ExpandEnds
    \/ SaveTags \/ TagsSaved
    \/ CopyEnds
    \/ Ends
    \/ GiveUp \/ SkipEmpty

CommandBegins ==
    \/ BooksCommand \/ DsCommand
    \/ \E xs \in SUBSET Docs, move, simulate \in BOOLEAN : ImportFiles(xs, move, simulate)
    \/ \E x \in Backups, move, simulate, tag \in BOOLEAN : Expand(x, move, simulate, tag)
    \/ \E t \in TagNames, nodes \in SUBSET stored : Tag(t, nodes)
    \/ TagThrows
    \/ \E fields \in Fields, wait \in BOOLEAN : Copy(fields, wait)

DeskNext ==
    \/ StartSession
    \/ \E ahead \in 1..2, last \in {"command", "missing", "empty"} : CallAlias(ahead, last)
    \/ BlankLine
    \/ CommandBegins
    \/ Works
    \/ ImportThrows \/ TagsNotSaved \/ DsThrows
    \/ \E c \in Copies : WriteAndWait(c)
    \/ UserCopies
    \/ Quit
    \/ CrashSession
    \/ PullEntry
    \/ \E i \in Indexes, s \in Secrets : PullFile(i, s)

\* A command that runs goes on; a line of an alias is executed; every timer of
\* a copy fires.
DeskFairness ==
    /\ WF_deskVars(Works)
    /\ WF_deskVars(prompt = "calling" /\ CommandBegins)
    /\ WF_deskVars(\E c \in Copies : WriteAndWait(c))

DeskSpec == DeskInit /\ [][DeskNext]_deskVars /\ DeskFairness

DeskTypeOK ==
    /\ BooksTypeOK /\ TagsTypeOK /\ DatasetsTypeOK
    /\ prompt \in {"off", "asking", "calling", "busy", "lost"}
    /\ chain \in [ahead : 0..2, last : {"command", "missing", "empty"}]
    /\ quiet \in BOOLEAN /\ muted \in BOOLEAN
    /\ local \subseteq Docs
    /\ own \in {OldText, NewText} /\ clip \in {OldText, NewText} \cup (Copies \X Fields)
    /\ counter \in 0..MaxCopies
    /\ crossed \in BOOLEAN /\ left \in BOOLEAN
    /\ calls \in 0..MaxCalls /\ trouble \in 0..MaxTrouble

\* A document is on the local disk until it is, or all of its items are, among
\* the secrets, whatever fails and wherever the session ends.  Except for a file
\* that could not be decrypted and an item with no path: import -m skips those
\* and removes the file.
NothingVanishes ==
    \A x \in Docs \ Sealed :
      \/ x \in local \cup stored
      \/ x \in Backups /\ Items[x] \ Pathless \subseteq stored

\* Between commands, in a session and in those that follow it, the tags in memory
\* and on disk are those of the last save; unless a save was cut, or there is
\* something left to save as saving is disabled.
TagsKept == prompt = "asking" /\ ~changed /\ ~cut => tags = due /\ OnDisk = due

\* When no copy is left the clipboard has the last text the user put there: what was
\* copied is gone, and nothing the user copied meanwhile was overwritten.  Unless two
\* copies cross, as the second takes the text of the first for the user's, or the user
\* copies just between a look at the clipboard and the write it decided, or a session
\* ends before its copy does.
SecretsLeave == Live = {} /\ ~crossed /\ ~left => clip = own

\* Whatever a command or an alias does, the prompt comes back, or the session ends.
\* Except for an alias that ends with an empty command.  (Nor does it after a blank
\* line.)
PromptComesBack ==
    prompt \in {"busy", "calling"} /\ chain.last # "empty" ~> prompt \in {"asking", "off"}
=============================================================================
