# A TLA+ verification of Secrez

Secrez is a manager of secrets: an encrypted file system with versions
(`packages/fs`) on top of an encrypted account (`packages/core`), a command line
(`packages/secrez`), and a way to send messages between accounts: each user runs a
courier (`packages/courier`) that a hub (`packages/hub`) publishes through a tunnel
(`packages/tunnel`).  This directory holds TLA+ models of its parts with state, the
TLC runs that check them, and theorems with proofs for TLAPS.

Paths below are relative to `src/packages/`; README.md with a line number is the
repository's own README.

## 1. Inventory

| component | state | operations | what is hard | what makes it correct |
|---|---|---|---|---|
| `fs` Node, Tree | a tree of nodes with versions in memory; one immutable encrypted file for each version; index files that describe the tree | add, update, move, save, load with recovery, recoverUnlisted, tags | several files for one operation and a crash between any two; indexes that know only a part of the files; children keyed by id | no file is lost; a version belongs to one secret; after a command, disk and memory agree |
| `fs` InternalFs | the trees of the datasets main, trash, ... | make, change, remove, trashToBeDeleted, mountTree | a move between datasets moves file after file; failures in the middle of a list of nodes; saving disabled meanwhile | a file is in one dataset |
| Git, used by hand (README.md:60-99) | the folders of two computers | pull, push | indexes of two computers mixed | "nothing will be lost anyway" |
| `hub` TunnelAgent, Client | connections, available sockets, queue of requests, grace timer | connection, close, createConnection, handleRequest, handleUpgrade, close | callbacks in any order; sockets that are destroyed and have not said so; a hand-over in a later callback; a timer that races with a connection | the limit; a socket serves one request; no request is forgotten; an offline client is removed and no other |
| `tunnel` Tunnel, TunnelCluster | pairs of sockets, retry timers, the request to the hub | open, close, the events of the sockets | 'close' and 'error' of two sockets in either order; answers that are lost; a payload that can be used once | as many pairs as allowed, each that dies replaced once, none after close |
| `hub` ClientManager, Db, utils, Validator, createServer | clients by id, ids by public key, validated payloads | tunnel/new, upgrades, newClient, removeClient, purgeOld | check-then-act across awaits; Client objects that outlive their place in the map | one id for a key, one client for an id, a payload used once, tunnels counted |
| `courier` Server, App, Db | owner, tunnel, trusted keys, messages | publish, ready, add, send, messages, incoming messages | owner and tunnel checked before an await; restarts | one owner; a message kept once it is acknowledged |
| `secrez` chat, join, send, show, leave, courier | the environment file (lastRead), the polling loops | the commands, and one more loop for each join | loops and commands write one file whole after waiting for the courier | what was read was shown; what was sent is kept |
| `core` Secrez | keys file, master key in memory | signup, signin, changePassword, shared secrets, restoreKey | a keys file overwritten in place; memory changed before the disk; several instances | the account opens with the credentials told last, or asked for since; its master key stays |
| `migrate` | the parts of the container, the backup, a new database | migrate, --reverse, --done | interrupted between any two parts, run again, an account in use in between | a complete database is left somewhere |
| `fs` DataCache, contacts, aliases | two encrypted books in memory, a file for each entry | create, update, rename, delete, load | a new random file for each save; remove before create; files of other computers | one current entry for a name; one contact for a key |
| `fs` tags | tags in memory and in one file | addTag, removeTag, saveTags, loadTags | saving disabled; two files after the first save | the tags saved last are those of the next session |
| `fs`, `core`, `secrez` datasets | a folder for each, its NAME files, the trees that are loaded, a cache of names | ds -c, -r, -d, use, mountTree, getDatasetsInfo | indexes computed from the number of folders; files moved one by one before a folder is removed | a dataset is listed, under the name it has on disk; nothing is removed with its folder |
| `secrez` prompt, import, tag, copy, quit | the prompt, the alias that runs, the clipboard, doNotSave | lines, aliases, the commands | exceptions in the middle; work that goes on after the command; aliases that stop half way | the prompt comes back; no document vanishes; the clipboard is given back |
| `core` Entry, `crypto`, `tls`, `utils`, `ExternalFs`, `FileCipher` | none of their own, or input and output | | | not modelled |

They interact as follows.  A command calls InternalFs, which calls the trees of the
datasets, which read and write the folder; Git mixes that folder with another one
behind their backs.  The courier opens a Tunnel, which asks the hub for an id and a
port and then connects to the TunnelAgent of that id; public requests reach the Client
of the id, which takes a socket from the agent; the other end of that socket is one of
the pairs of the TunnelCluster.  The chat asks the courier over HTTPS, from a command and
from its loops.  The migration replaces the container under the account, the tree and the
books when no instance runs.

`PROJECT.json` lists the hazards of this code line by line, with the properties that
cover each of them, or the reason why none does yet.

## 2. Plan

1. `SecretTree`, `InternalFs`, `SecretStore`, `SyncedFs` - the store, first because it is
   what "Secrez never lose secrets" is about.  *Done*, with proofs of type correctness,
   of the refinement of `SecretStore`, of `OneHome` and of `VersionsOfOneSecret`, on one
   computer and on two, of what a merge may lose, and of `SavedWhenIdle`.
2. `TunnelAgent` - the hub's end of a tunnel.  *Done*, with a proof of its safety
   invariants.
3. `Tunnel` - the owner's end.  *Done*, with a proof of its safety properties.
4. `Hub` - requests, ids, clients and payloads.  *Done*, with a proof of its safety
   properties.
5. `Courier` and `Chat`, its only client.  *Done*, with a proof of its safety properties.
6. `Account` - the keys file and the instances.  *Done*, with a proof of its properties.
   `Migration`, composed with it.  *Done*, with a proof of its properties.
7. `Books`, `Tags`, `Datasets` and `Desk`, the session that composes them.  *Done*, with
   a proof of its safety properties.
8. Still to do: the prefixes of file names in indexes as functions checked against a
   reference; `rm -v`; a composition of `Tunnel` with `TunnelAgent`.

## 3. Modules

### SecretTree - Node.js as values

A version is a file; files are numbered by their timestamps.  A node is the path of
ids from the root to it, a tree the set of its placements `[at, file]`.  The operators
are the methods of Node: `Graft` and `Plant` (add), `Relocate` (move), `Uproot`
(removeChild), `AddVersion`, `Lookup` (getChildFromPath), `NamePath` (getPath).
`Loaded` is what fromJSON() makes of an index when only some of its files are there:
folders without files become nodes with the id of a root (`Phantom`), two of them below
one parent replace each other, and their abbreviated file names may not resolve.

### InternalFs - Tree.js, InternalFs.js and the commands

`secret` is what the files hold, `disk` and `index` the folders, `tree`, `mine`
(previousRootEntry), `muted` (doNotSave), `doomed` (toBeDeleted) and `draft` the memory.
`todo` holds what the running command, or load, has still to do.  A crash (`Stop` with
todo not empty) may come between any two steps, and each step changes one file.

| action | code |
|---|---|
| `Add`, `Edit` | make/add, update, change with a new content |
| `MoveWithin`, `MoveAcross`, `MoveOnto`, `MoveBelow`, `Destroy` | change() as mv and rm call it: in a dataset, to the other one, onto a file, through a file, out of the trash |
| `ShiftFile`, `DestroyFile` | moveOrUnlink(), one file |
| `MvDone`, `Unmute`, `MvThrows`, `Refused` | the end of Mv.mv(), or its exception: for a node that has left already, or for a target folder that does not exist |
| `Unsaved`, `UnlinkIndex`, `WriteIndex`, `WriteFails` | save() in its two halves, and its failure with the rollback of add() and update() |
| `Start`, `LoadEmpty`, `LoadWithoutIndex`, `LoadIndex`, `RecoverOne`, `Recovered`, `Unlist`, `Gather`, `PruneIndex` | load() |
| `Bury`, `NothingToBury`, `Ready` | trashToBeDeleted() |

Where the code takes the first of several children, or of several nodes with one id,
the model takes any.  What is abstracted:

- names and contents are small sets, and encryption is the record it encrypts;
- the name of a recovery folder differs from all others (it carries a date), so the
  branch of recoverUnlisted() for a folder left over from the same second is out;
- a child with the name of a recovered entry and another type: the names of the branch
  are found by id too, so it cannot be reached;
- the numbers given to equal names while loading stay in memory;
- a write that fails during a load ends the session, which is `Stop`;
- two datasets; rm -v is not modelled, tags and further datasets are in modules of their own;
- a make that misses several folders is several `Add`.

### SecretStore - the promise

`InternalFs` hides everything but the files: a file is written once, may be taken back
by the command that has just written it (`draft`), may be carried to the other dataset,
and is erased from the trash only, by a command or by a load that buries it again.

### SyncedFs - two computers and Git

The user works on one computer at a time; `Switch` changes the one in use, `PullAndPush`
merges both folders file by file (files never change, so what one side added or deleted
since both were the same is applied to the other).  Git itself is external.  `erased` is a
history variable: what a computer deleted from its trash, or took back.  It counts what a
load deletes when it buries a file of the trash a second time (InternalFs.js:356-366), which
is the loss `fs_lost` finds: `LostOnlyFromTrash` says that there is no other one.

### TunnelAgent - TunnelAgent.js and Client.js

One action for each callback: the server's 'connection' (`Connect`, `Refuse`), a socket
that is destroyed (`Dies`) and its later 'close' event (`Closes`), the two handlers of
public requests, the callback of setTimeout that hands a socket over (`HandOver`), the
end of a request (`Completes`, http.Agent's rule of one free socket), the sender that
goes away (`Leaves`) and the grace timer (`GraceFires`).  http.Agent is external and
modelled by its options.  Only the grace timer closes a client, so when it does there is
no connection left: the server closes at once, the manager has forgotten the client, and
the check of `closed` in createConnection() is not reached.  A request that http.Agent
fails is not answered (Client.js:78-80 does nothing), which is why "failed" says nothing
of an answer.  "stuck" is a request that was given a socket after that socket had emitted
its 'close' event.

### Tunnel - Tunnel.js and TunnelCluster.js

`phase`, `tries` and `spent` are the opening (a payload is validated once by the hub, so
after a lost answer each retry is refused).  For each pair there is the remote socket, the
local socket or its retry timer, and whether `remoteClose` listens (`hears`).  `met` is a
history variable: the troubles that happened.  The timeout is a number of tries, and
`timed` says whether there is one at all: the option is kept in a variable of the module,
so a tunnel has the timeout of an earlier one when it gives none (Tunnel.js:15-17).  The
owner may close at any moment, before the hub has answered too, when the caller gave
index.js a callback and has the client already.  The ids of pairs are used again when both
sockets are gone.

### Hub - createServer.js, utils.js, Db.js, ClientManager.js, Validator.js, Client.js

A request of GET /api/v1/tunnel/new is a record with its stage, cut at its awaits; each
query of the database is one step.  A Client object has the number of the request that
made it, and stays in `objects` after it has left the map.

| action | code |
|---|---|
| `Arrive` | verifyPayload, with the payload marked as used in the same turn |
| `LookUp`, `Draw`, `Write` | getRandomId: the row of the key, ids until one is free, UPDATE or INSERT, which fails on a unique column (`Accepts`) |
| `Serve`, `OpenByPath`, `Listens` | newClient for the id, for a signed request and for GET /:id; agent.listen() |
| `GraceFires`, `Online`, `Offline` | the timer and the two events of the constructor of Client; close() and, through once('close'), removeClient(id) |
| `Purge`, `Tick` | purgeOld() at any time; the clock |

A payload is a value with its key and time.  An id that is in use is answered with
`port` None, as the code has no such field.  A server that fails to listen leaves its
request without an answer, as the promise never rejects.

### Courier and Chat - the courier and the commands that use it

`Courier` is the process: `owner` the row of the table, `option` and `auth` the two
variables the middleware keeps, `active` and `live` what the server thinks of its tunnel
and what it is.  A caller has one request at a time, whose stages are the awaits of
authMiddleware, setOwner, saveKeyValueToConfig and the handlers of /admin, /messages and
POST /.  The contact's courier is a choice: a post arrives or not, and its answer is lost
or not.  An incoming message is always taken, as isTrustedPublicKey() is not awaited
(App.js:169).

`Chat` adds the user: one command at a time (`Begin`, `InitCourier`, `Leave`, `Show` and
what follows in `GoesOn`), and `Loops`, one more for each join (`Wakes`, `Hears`, `Saves`,
`Prints` are the awaits of ChatPrompt.start and getRecentMessages).  A command keeps in
`command.snap` the lastRead it read and puts it back when preInit ends.  `dropped` is a
history variable: the messages a loop had when it failed or was killed; `shown` and
`reported` say what the user saw.  Two waits are bounds: another account is done with its
claim before the user's second request, and a kill does not come within a claim.

### Account - Secrez.js and _Secrez.js

`keys` is the file: a master key, and the credentials (password and iterations) that open
it, alone or with a factor.  Each instance has a stage, what it derived the password from
(`cred`), its conf in memory and the conf it is about to write.  `Changes` begins an
operation with what memory becomes before the write; then signAndSave truncates the file
(`Open`: it is `Torn`) and writes it (`Written`), and the command reports (`Reports`).
`SaveFails` and `Crash` may come before, between and after these, so a new file may be
there that nobody was told of.  `told` and `asked` are history: the credentials of the last
report, and those the user asked for since, whatever came of them; `due` is the instance
whose change is in the file and not reported, `master` the master key of the last file that
could be read, `stale` that a factor was changed over what the instance had not read or two
wrote at once, `raced` that two signed up at once.  `KeysOpen` says that the user can list
what to try: what was told, unless an unreported change is in the file, and what was asked.

### Migration - packages/migrate

Composed with `Account`, whose file is the last part to be replaced.  `part` says of which
version each part of the container is; `Migrate`, `SetUp`, `Backup`, `BackedUp`, the four
steps that build the new database, `Remove`, `Replace` and `ReplaceKeys` follow migrate()
and replaceDb(); `Reverse`, `Restore` and `Done` the two options; `Interrupt` may come in
any of them.  `rash` is history: something was started on what an interrupted command left.

### Books - DataCache.js and its two managers

`files` holds the folders, each file with its number (its random name); `book` the memory;
`todo` the steps (remove, create) of the command that runs.  `Load` takes any of the files
of a name, as the folder gives them in no order.  `Pull` adds a file of another computer.

### Tags - Tree.js:479-600

`tags` and `tagFiles`; `previous` is what the next save deletes, and is empty after a load
(loadTags does not set it), which is why the first save of a session leaves two files.

### Datasets - Ds.js, Use.js, InternalFs.js:373-446 and ConfigUtils.js:87-125

`folders`, `label` (the newest NAME file) and `held` are the disk; `trees`, `known` (what each
of them lists), `called` (Tree.name), `cache` (treeCache) and `active` the session.  `CreateDataset`, `UseDataset`,
`RenameDataset`, `DeleteDataset` and `Looks` (a command that throws or only lists) are the
commands; what a crash may cut off is in `chore`: `NameDataset` after ds -c,
`MoveToTrash` for each file of the list ds -d has taken from the tree, and `RemoveFolder`,
which looks at nothing else.  A tree may list less than its folder has: of the files in
`Stray` one load leaves out any (Tree.js:131), and Git brings more (`PullSecret`).  Names are
compared without regard to case, so they are values.  `HasPath` is setAndGetDataset(), which makes a folder
only after the last one; `Mounts` the trash that mountTree() needs.  With ten datasets their
folders would sort as strings, which `MaxIndex < 10` leaves out.

### Desk - the prompt and its commands

Composes `Books`, `Tags` and `Datasets` with the prompt.  `prompt`, `chain` and `quiet` are
MainPrompt.postRun and CommandPrompt.exec; `job` the command that runs, cut where it
awaits; `copies` the copies to the clipboard, which go on after their command without
--wait; `own` the last text the user put there himself, with `UserCopies` at any moment
while a copy is not over.  The tree is a set of secrets and the flag `muted` (doNotSave): `InternalFs` models it.
A backup is a set of items; which fields a secret has is a number.  Import and tag run as
their code does, exceptions included: `ImportThrows`, `TagThrows`, `TagsNotSaved`.  In a prompt
that is "lost" nothing runs and nothing asks (`BlankLine`, `SkipEmpty`).

## 4. Runs

| run | what it asks | bounds | states |
|---|---|---|---|
| `fs_clean` | `TypeOK`; after each command memory, disk and newest index agree (`SavedWhenIdle`) | 3 files, 2 sessions, 2 moves, users create in main | 238 thousand |
| `fs_faults` | `OneHome`, `VersionsOfOneSecret`, the refinement `NeverLosesAFile`, and `AlwaysEnds`, with crashes and a failed write | 2 files, 2 sessions, 2 moves, one failure | 218 thousand |
| `fs_habits` | `VersionsOfOneSecret` with the odd commands, in the trash, and a start after them | 3 files, 1 session and 1 restart, 2 moves, no crash | 156 thousand |
| `fs_shared` | two computers: `LostOnlyFromTrash` and `VersionsOfOneSecret` | 3 files of one name, 4 sessions, 1 switch, 2 merges, 2 moves (1 once there are 3 files) | 394,000 |
| `fs_lost` | README.md:97, violated: `NothingLost` | one secret with 4 versions, 7 sessions (`OneAtATime`) | |
| `agent_pool` | `Counted`, `GraceWhenOffline`, `OneUse`, `QueueKept`, `OfflineEnds` | 3 sockets, 3 requests, one of them an upgrade, limit 2 | 110 thousand |
| `tunnel_pairs` | `LostOnlyByTrouble`, `TwiceOnlyByTrouble`, `ClosedForGood`, `AllReleased`, `OpenEnds` with all troubles | 3 pairs for max_conn 2, 2 tries, with a timeout and without | 89 thousand |
| `hub_registry` | `OneUse`, `IdsKept`, `TunnelsCounted`, `OnlyItself`, `Answered` | 3 requests, 2 keys, 3 ids, 3 payloads, one id by path, 2 minutes | 793 thousand |
| `chat_messages` | `OwnerAgrees`, `ReadIsShown`, `SentIsStored`, `EventuallyShown` | 2 messages in, one of them perhaps impossible to decrypt, 2 loops, 3 commands, one trouble | 280 thousand |
| `account` | `KeysOpen`, `MasterKept`, `Recoverable` | 5 operations, 2 instances, a FIDO2 key and a recovery code, 2 troubles, 2 migrations | 2.1 million |
| `session` | `BooksAgree`, `NamesAgree`, `SecretsStay`, `OneKeyEach`, `NothingVanishes`, `SecretsLeave`, `TagsKept`, `PromptComesBack` | 2 commands, 2 copies, one new text of the user, 3 files more in the books, 4 datasets and one to create, one trouble | 437 thousand |
| `ds_lists` | secrez/src/commands/Ds.js:43, violated | 2 commands, no trouble | |

Why the bounds are enough for the interesting cases.  *Store*: two files are two secrets,
or two versions of one; three allow a folder with a file and a new version of it.  Two moves allow a refused one,
then a command that is not saved, then one that saves it.  A crash
in the first of two sessions is followed by a load that recovers, which may crash too; in
`fs_habits` the session with commands is followed by a start without any (`MaxRestarts`),
and in `fs_shared` a file edited on both computers is merged, recovered and buried, and one
that was moved to the trash and deleted there is merged with a computer that still has it.
`FewMovesOfManyFiles` keeps apart its two moves, of at most two files, and its third file.  *Agent*: three
sockets for a limit of two reach the refusal, and a limit of two lets one connection live
while the other closes; three requests fill the queue behind two sockets.  *Tunnel*: with
three ids for two pairs a dead pair and its replacement overlap; with four ids the run
passes too (not kept for its length).  Deadlock is not checked: the bounds end the behaviours.
Names and contents are model values, and permuted (SYMMETRY) in the runs of the store
that check safety only, as are the instances in `account`; `fs_faults` and the runs of the
tunnel use no symmetry.

*Hub*: three requests are two of one key that race and one that comes after, or two keys
that draw one id; a payload can be sent twice around a purge.  With `ValidFor` and `Keep`
both 0 the two windows are as close as the assumption allows.  *Chat*: two messages with
a limit of one for each answer need two polls, at one time or two; three commands are what it takes to
enter, join and have one more (send, show, leave, or a second loop); the environment may
have the courier from before, so that one is enough to chat.  *Account*: five operations reach
a second factor, its removal and a change by another instance, or two changes that both
fail and one that does not; two troubles allow a write that fails and a crash before the
next is reported; two migrations allow one that is interrupted and one more.  *Session*: two commands allow a
rename after an add, a tag after an import, two copies that cross, an alias of two commands
that stops half way or ends with an empty one, a text copied in each stage of a copy, a
dataset removed whose tree does not list all its files, a dataset made with the index of one that was removed, or used after
the trash was; entries and datasets of an earlier session are there from the start.

What the violations show, with their lines, is in `findings` of `PROJECT.json`.  `ReadIsShown`, `KeysOpen`,
`MasterKept`, `Recoverable`, `NothingVanishes`, `SecretsLeave`, `TagsKept`, `BooksAgree`
and `NamesAgree` name what the code does not promise in their comments (section 8): a message of the same
millisecond, a factor changed over what the instance has not read, two writes or two sign-ups at once, a
migration started on what an interrupted one left, a file that cannot be decrypted, two
copies that cross, a text copied between a look and a write, a save that was cut, an entry of another computer, a trash that was
removed.

The type invariants of `Hub`, `Tunnel`, `Account`, `Migration` and `Desk` (with those of
`Books`, `Tags` and `Datasets`) hold under the same configurations; the runs do not list
them, as they say less than the properties above.

What `fs_clean` leaves out.  Its specification, `CarefulSpec`, is `Spec` without the step
that ends a session while a refused mv has left the saving disabled: such a session leaves files
that are in no index.  What the next load does with them is in the other runs.  A dataset
that is muted must still have in memory what its folder has; its index may be older.

What `Habits` stands for.  Ordinary use gives `SavedWhenIdle`.  Some commands break it in
the code as it is: mv of a folder into itself takes it out of the tree; mv through a file
throws after the node has left its parent; mv onto a file of the other dataset keeps the
old parent but moves the files; mv --find --span names nodes that have left already; rm in
the trash of a node whose name is taken at the root leaves a node without files.
`fs_habits` shows that none of them mixes two secrets; that none loses a file is `StoreRefined`,
which holds for any `Habits`.

## 5. Fairness

- `InternalFs!FairSpec`: weak fairness of `Step`, what a running command does by itself.
  File operations end, and nothing else can keep an awaited call from going on.
- `TunnelAgent!FairSpec`: the 'close' event of a destroyed socket, the callback of
  setTimeout and the grace timer are delivered by Node.  Connections, requests and their
  ends are not fair.
- `Tunnel!FairSpec`: a request or a connection attempt ends one way or another, events and
  timers arrive, and the hub answers an end of this side with its own end (it is a
  `net.createServer()` without allowHalfOpen).  The hub is not assumed to end a connection
  by itself, nor the owner to close the tunnel, nor the local server to accept.

- `Hub!Fairness`: each request goes on with its next query, and the grace timers fire; that
  a server listens is not assumed.
- `Chat!Fairness`: the command in progress and the requests it waits for go on, and so does
  each loop with its own; both are callbacks of one event loop, and the courier serves what
  it has accepted.  The troubles, the user and time are not fair.
- `Desk!DeskFairness`: a command that runs goes on, a line of an alias is executed, and the
  timers of the copies fire.  The user, failures and crashes are not fair.

## 6. Proofs

Every theorem holds for all values of the constants that satisfy the assumption its module
names: `BoundsAssumption` and `SyncAssumption` (the store), `SocketAssumption` (agent),
`TunnelAssumption`, `HubAssumption`, `CourierAssumption` and `ChatAssumption`,
`AccountAssumption`, `NoneAssumption` and `MigrationAssumption`, and for the session
`BooksAssumption`, `BeforeAssumption`, `DatasetsAssumption` and `DeskAssumption`.  Names,
contents, sockets, keys, messages and credentials are arbitrary sets, and the bounds any
numbers.  What they assume of the code: `MaxConn <= Cardinality(Conn)` (a pair has its own
id); the two windows of the hub, `ValidFor <= Keep`; `User \notin Loops` (the command and
the loops are different callers); the books of an earlier session have one file for a name
and no key twice, and its datasets different names, which is what such a session leaves.

- `InternalFs_proofs!TypeCorrect`: `Spec => []TypeOK`.  `TypeOK` is inductive; the work is
  in the operators (what `Loaded`, `Plant`, `Relocate`, `Located` return) and in the steps
  that wait in `todo`, whose fields must keep their types while `secret` and `clock` grow.
- `SecretStore_proofs!StoreRefined`: `Spec => NeverLosesAFile`.  Each action is mapped to
  one of `SecretStore` or to a stutter; the rollback of a failed write needs `DraftOK`: a
  draft is a file that exists, and only while the save of its command is pending.
- `SecretStore_proofs!OneHomeCorrect`: `Spec => []OneHome`, from the types and from new
  files having numbers no folder has.
- `SecretStore_proofs!VersionsCorrect`: `Spec => []VersionsOfOneSecret`.  The inductive
  invariant speaks of the trees, of the indexes, and of the subtrees and files that wait in
  `todo`, which a later step writes into a tree.
- `SecretStore_proofs!MergesLoseNothing`, `OneHomeMerged` and `VersionsMerged`: the same
  with a second computer and merges (`SyncSpec`).  `HomesInv` says that a file has one
  home on each disk and at the last merge, that a file that is on both was in the last
  merge, and that what was there then is still on both unless it was erased (which takes in
  what a load deletes from the trash); a merge
  file by file then makes neither two homes nor a loss.  Each step on one computer is a
  step of `SecretStore`, which is what keeps the invariant.  `AwayNamed` says of the
  other computer's indexes what `VersionsOfOneSecret` says of this one's.
- `SecretStore_proofs!AlwaysSaved`: `CarefulSpec => []SavedWhenIdle` in ordinary use, which is
  `Habits = {} /\ MaxFailures = 0`: no crash, no write that fails, none of the commands
  that `Habits` stands for (section 4), each of which does break it, and no session left
  while a refused mv has disabled the saving.  The refused mv itself, and any commands
  after it, are in.  The settings of `fs_clean` satisfy
  it; names, contents, numbers of files, sessions and moves are arbitrary.  `SavedInv` says
  what memory, folders and indexes are between any two steps.  While the program is off or
  loads (`Off`, `Loads`), the newest indexes and the folders agree, so a load finds nothing
  to recover and prunes anything but the newest index.  While a command works (`Works`), it
  lists which saves are left and which dataset is still as its newest index, or muted
  (`SavesLast`, `Listed`, `Settled`), and which files a move still has to carry or delete (`Shifting`, `Destroying`).
  That alone is not inductive: taking a subtree takes exactly its files only if a secret is
  at one place in both datasets, and taking a node leaves no child behind only if trees have
  the ancestors of their nodes (`Sound`); the id of a new secret is new because ids are
  numbers of files (`Numbered`); and the newest index is one only if no two have the same
  time (`OneIndexEach`).
- `TunnelAgent_proofs`: `AgentTypes`, `CountedCorrect`, `GraceCorrect`, `OneUseCorrect` and
  `QueueCorrect`, for any sockets, requests and limit.  The inductive invariant `Inv` adds
  to the types: a removed client has no connection (`Offline`), no sequence names a socket
  or a request twice (`NoRepeats`), the places of a socket exclude each other and hold
  only sockets that are counted, but for a hand-over that comes too late (`Apart`), an open
  socket has a place (`Placed`), and the state of a request says in which queue it is
  (`Queues`).  The last two need each other: a socket is handed to the head of the queue
  because the queue holds exactly the requests that wait.  What `Append`, `Tail` and
  `RemoveFirst` do to a sequence without repetitions are lemmas.
- `Tunnel_proofs`: `TunnelTypes`, `NoneLostForGood`, `NoneTwice` and `StaysClosed`, for any
  number of pairs.  `Inv` says for each pair on its own which states of its two sockets and
  of its listener go together (`PairOK`), and that before the hub has answered there is
  none.  With that, each event but the troubles leaves the number of live pairs as it was
  or replaces the one that died, which is counted with the theorems of finite sets.
- `Hub_proofs`: `UsedOnce`, `IdsAlwaysKept`, `TunnelsAlwaysCounted` and `OnlyItsOwnTimer`,
  for any keys, ids, payloads, windows and number of requests.  `Sound` says what the
  stages mean (a request has a key once it is verified, an id once it is named; an object
  that is armed has an id).  `MapInv` ties the map to the armed objects: what the map
  has under an id is armed and has that id, and what is armed is in the map, so that
  `RemoveClient` can only take itself.  `UseInv`: a payload some request has is never too early, and is remembered, or no longer
  valid, which needs `ValidFor <= Keep`.  `IdsInv` adds to `IdsKept` what
  a request between two awaits knows of the table.  `CountInv` counts with
  the cardinality theorems of finite sets.
- `Account_proofs`: `KeysAlwaysOpen` and `MasterAlwaysKept`, for any passwords, factors and
  instances, about `AccountSpec` (the run checks them in its composition with `Migration`).
  For the first the invariant (`KeysInv`) says that what an instance has in memory, and what
  it is about to write, fits what the user may try (`Valid`) as long as memory is as the file
  (`Fits`, `Fitting`), through a report that comes late or never; for the second that there
  is one master key in the last file, in all memories and in all drafts (`OneMaster`), and
  that an instance signs up alone (`Alone`) unless two did at once.
  `AlwaysRecoverable`, `MigrationTypes`, `KeysOpenThroughout` and `MasterKeptThroughout`
  are about the composition, `MigrationSpec`: while a command of the migration works, and as
  long as keys.json is of version 1, no instance is open (`QuietInv`), which parts are new follows from its progress (`WorkInv`),
  and from the copy to its removal the container or the backup is complete (`SafeInv`).
- `Chat_proofs`: `ChatTypes`, `OneOwner`, `SentForSure` and `ReadForSure`, for any callers,
  messages and limit.  `OwnerInv` says of the claims in progress that they are all of
  the account `option` names, and that the table will not contradict it.  `SentInv` says that what is reported to the user follows what the
  courier stored.  `ReadInv` follows one timestamp through its journey: whatever is or may
  be written to the environment (the file, what a command keeps of it, what a loop asked
  for, what it was answered) skips no message that was not shown, but for those the
  comment of `ReadIsShown` names; that an answer is fair when the question was
  (`SinceIsFair`) needs the messages in the order of their timestamps (`InOrder`).
- `Desk_proofs`: for the session, `BooksAndFolders`, `NoKeyTwice`, `NoDocumentLost`,
  `TagsAsSaved`, `OneNameEach`, `NoSecretDropped`, `NothingLeftBehind` and `DeskTypes`.
  `Calm`: a command that was cut off leaves nothing that runs.  `BooksInv` and `KeysInv`
  say what remains in the folder between the removal of a file and the write of the next,
  and `KeysInv` counts the contact that is about to be written.  `TagsInv` follows the two
  files of a save.  `DatasetsInv` says what the cache of names may hold of a dataset that is
  loaded or not, that the name a new folder waits for is still free, and that what the tree of
a dataset to be removed still has is in the list (`Listing`).  `FilesInv`: a
  document that was removed is a secret or could not be read.  `BoardInv`: the clipboard
  has the last text of the user, or that of the only copy, which then has the last text of
  the user to put back (`Holding`).

Only model-checked:

- `AlwaysEnds`, `OfflineEnds`, `AllReleased`, `OpenEnds`, `Answered`, `EventuallyShown` and
  `PromptComesBack`, because fairness and ENABLED are out of the prover's reach.
- `NothingLost` and the property of `ds_lists` are violated, so there is nothing to prove;
  what is true in place of the first is `LostOnlyFromTrash`.

## 7. Not modelled

- `Entry`, `Crypto`, `TLS`, `Utils`, `FileCipher`, `ExternalFs`, `FsUtils`,
  `HeaderHostTransformer`: functions of their inputs, or input and output, with no state of
  their own.  What they encrypt is a record of the models.
- `rm -v`, files in more than two datasets (`Datasets` has their folders), numbered names, and which prefix of a file name an index
  keeps (`SecretTree` lets an abbreviated name resolve or not).
- The dialogue: completion, help, listings (`ls`, `find`, `tag --list`, `tag --show`), `ssh`, `shell`,
  `totp`, `bash` and the other commands that only read; the second prompt that
  SigintManager opens; a simulated expand, which makes the folders it needs.
- `Export` with its timer, which deletes a file that was exported for a while: one call of
  setTimeout, with no state but the file.
- `Conf` as a command: what it calls is in `Account`, its own dialogue is not.
- The search of users on the hub, and the ports the courier tries.

## 8. What the code does otherwise than its documents say

Two of these are runs (`fs_lost`, `ds_lists`).  The others are in the models as the
code has them, and the properties say which case they leave out.

- fs/src/InternalFs.js:363: what a load has buried in the trash for one file is deleted from
  there by the load of the other computer, while the tree that came from the merge still
  names it (README.md:97 "In any case, all the contents are kept").  The run `fs_lost`.
- fs/src/Tree.js:268: a recovered content may become a version of a secret while its only
  file goes to the trash, so that the version is gone from the secret at the next start
  (README.md:93).  TLC shows it for `AllOnDisk` with the bounds of `fs_lost`.
- fs/src/Tree.js:131: of two lost files with one path, one is not put back in the tree
  (README.md:87: "the system finds the extra secrets, reads their positions from the
  previous indexes and puts them back in the tree").
- hub/src/lib/TunnelAgent.js:154: an upgrade waits while the only connection idles in
  freeSockets (the comment at lines 16-17).
- tunnel/src/TunnelCluster.js:112 and :119: a local error other than a refusal loses a
  pair; a refusal after the remote has closed replaces it twice (Tunnel.js:143 "when a
  tunnel dies, open a new one", :157 "establish as many tunnels as allowed").
  `LostOnlyByTrouble` and `TwiceOnlyByTrouble` hold without them.
- tunnel/src/Tunnel.js:87: without a timeout, which bin/secrez-tunnel.js:126 does not give
  (the courier does, Server.js:42), a payload that is spent is sent again every second for
  ever and open() does not call back; `OpenEnds` is about a tunnel that has one.
- tunnel/src/Tunnel.js:183: _establish() does not look at `closed`, so a tunnel that is closed
  before the hub answers connects to it all the same.  `ClosedForGood` leaves out that one
  moment; `AllReleased` says that those connections go as well.
- hub/src/lib/ClientManager.js:27 says "if the id is already used, a random id is
  assigned"; the code answers with the same id, and with `clients[id].port`, which no code
  sets (line 37).
- courier/src/Server.js:49: onTunnelClose is registered without its object, so a tunnel
  that closes leaves tunnelActive set, and publish() answers with its url from then on.
- courier/src/Server.js:29: publish() checks tunnelActive before it awaits, so two requests
  at once would open two tunnels; the one user of `Chat` sends one at a time.
- secrez/src/commands/Courier.js:87: lastRead is the timestamp plus one, so a message of the
  same millisecond that comes later, or beyond the limit of the answer, is not asked for.
- secrez/src/commands/Import.js:191: with --move a file that cannot be decrypted is skipped
  and removed.
- secrez/src/commands/Conf.js:345: upgradeAccount() calls getAllFactors(), which is
  commented out, so the command throws; so is saveAndOverwrite(), which line 383 calls
  between the write and the report.  `Upgrade` is what the library does when called.
- core/src/Secrez.js:113: the keys file is overwritten in place, so a crash leaves it
  truncated, or new with nobody told; and after a write that fails the new password stays in
  memory (core/src/_Secrez.js:109) and goes to the file with the next change.
- core/src/Secrez.js:47: after a sign-up whose write fails Welcome goes on
  (secrez/src/Welcome.js:225), in a session whose master key is in no file.
- fs/src/InternalFs.js:400: after ds -d of a dataset that is not the last, the number of
  folders is not the last index, new Tree() throws for the removed one, and ds, use, ls and
  all paths with a dataset fail.  After ds -d trash the last dataset is not listed, and
  with a third dataset no session starts any more, as the constructor of InternalFs throws.
- secrez/src/commands/Ds.js:87: a crash between mountTree() and nameDataset() leaves a folder without a name, and
  Tree.getName() throws whenever the datasets are listed.
- secrez/src/commands/Ds.js:76: ds -r of a dataset that is not loaded throws; at :117 the
  answer of deleteDataset() is not awaited, so ds -d main reports success and the folder
  stays, emptied.
- secrez/src/commands/Ds.js:117: ds -d removes the folder with whatever it has, also a file that its
  tree does not list (lost at one path with another, or pulled meanwhile), where line 118
  says "Its content has been moved to the "trash" dataset".  `SecretsStay` leaves those out.
- secrez/src/prompts/MainPrompt.js:84: for a blank line, or "/", aliasManager.get("") gives the
  whole map, split() of its content throws, and the catch of CommandPrompt.js:254 does not ask again; for
  an alias that ends in "&&" the last command is empty, which exec() skips with the prompt
  it would have run (CommandPrompt.js:266).  `PromptComesBack` leaves those out.
- secrez/src/commands/Copy.js:194: a text the user copies between the look at the clipboard and the write
  that follows is overwritten, and the second of two copies that cross takes the text of
  the first for the user's.
- secrez/src/commands/Mv.js:94: mv to a path with a folder that does not exist throws
  (fs/src/InternalFs.js:161) after saving was disabled, which nothing enables again before the next mv
  that ends well.  If the session ends before, what it added is in no index: the next start
  puts it into a recovery folder, and of a file that was edited only its oldest version.
- secrez/src/commands/Tag.js:52: --remove is declared a flag, so at the prompt options.remove.map
  (line 151) throws for any tag, after saving was disabled; so does line 143 for a tag that
  does not exist.  Saving stays disabled; import -e --simulate does not enable it either
  (Import.js:363).  Nothing is written to an index until the session ends; the comment at
  fs/src/Tree.js:462 says that the flag is used during imports.
- secrez/src/utils/ContactManager.js:31: a renamed contact has no public key and no url.
- migrate/src/migrations/MigrateFromV1ToV2.js:261: a second run after an interrupted one
  removes the good backup and copies the half-replaced container over it.
