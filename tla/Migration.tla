----------------------------- MODULE Migration -----------------------------
(***************************************************************************)
(* secrez-migrate (packages/migrate): it copies the container, builds a    *)
(* database of the new version beside it, and replaces the parts of the    *)
(* container by those of the new one, one after the other.  It is composed *)
(* with Account: the last part is the file keys/default.json, and Secrez   *)
(* may be started, and stopped, between any two commands of the user.      *)
(* The library of the old version, which reads the old database, is outside. *)
(***************************************************************************)
EXTENDS Account, Sequences

CONSTANTS
    MaxRuns,    \* bound: how many times the user starts secrez-migrate
    Mine        \* the credentials of the old account

ASSUME MigrationAssumption == MaxRuns \in Nat /\ Mine \in Creds

\* What replaceDb replaces before the keys, in its order.
Order == <<"data", "cache", "local", "keys.json", "README">>
Parts == {Order[i] : i \in DOMAIN Order}

VARIABLES
    part,       \* the parts of the container, of the version they are
    backup,     \* the container with -pre-migration-backup in its name
    work,       \* what secrez-migrate is doing
    next,       \* the part replaceDb is at
    made,       \* the master key of the new database
    runs,       \* how many times it was started
    rash        \* it was started on what an interrupted command left

migrationVars == <<part, backup, work, next, made, runs, rash>>
allVars == <<accountVars, migrationVars>>

\* "cut" is a part copied in part, "empty" the keys.json that Secrez makes.
Versions == {"old", "new", "none", "cut", "empty"}

NoBackup == "none"
Copies == {NoBackup, "partial", "old", "mixed"}

MigrationInit ==
    /\ AccountInit
    /\ part = [x \in Parts |-> "old"]
    /\ backup = NoBackup /\ work = "idle" /\ next = 0
    /\ made = 0 /\ runs = 0 /\ rash = FALSE

AllOld == \A x \in Parts : part[x] = "old"
AllNew == (\A x \in Parts : part[x] = "new") /\ IsConf(keys) /\ keys.master = made

NothingRuns == work = "idle" /\ \A p \in Procs : At(p, "off")

Goes(from, to) == work = from /\ work' = to

\* The user starts the program again, and it finds what it needs to go on.
Begins(stage) ==
    /\ NothingRuns /\ runs < MaxRuns
    /\ runs' = runs + 1
    /\ work' = stage

-----------------------------------------------------------------------------
(* migrate                                                                 *)

\* Welcome: the old account is there, and its password opens it (it has no
\* second factor); else the program ends.
OldAccount == part["keys.json"] = "old"

Migrate ==
    /\ OldAccount
    /\ Begins("setting up")
    /\ rash' = (rash \/ ~AllOld)
    /\ UNCHANGED <<accountVars, part, backup, next, made>>

\* setUpSecrez: a new account, with the same password, in the working folder;
\* then backup() removes the copy that is there.
SetUp ==
    /\ Goes("setting up", "backing up")
    /\ Operate
    /\ made' = ops'
    /\ backup' = NoBackup
    /\ UNCHANGED <<keys, mem, trouble, userVars, seenVars, part, next, runs, rash>>

Backup ==
    /\ Goes("backing up", "copying")
    /\ backup' = "partial"
    /\ UNCHANGED <<accountVars, part, next, runs, rash, made>>

\* As BackedUp, while the copy is still being made.
BackedUpMutantUnawaited ==
    /\ Goes("copying", "migrating trees")
    /\ UNCHANGED <<accountVars, part, backup, next, runs, rash, made>>

BackedUp ==
    /\ Goes("copying", "migrating trees")
    /\ backup' = IF AllOld THEN "old" ELSE "mixed"
    /\ UNCHANGED <<accountVars, part, next, runs, rash, made>>

\* A part of the new database is made in the working folder, which the next run
\* begins by removing; the container is not touched.
Makes(from, to) ==
    /\ Goes(from, to)
    /\ UNCHANGED <<accountVars, part, backup, next, runs, rash, made>>

\* Each version of each node, encrypted for the new account.
MigrateTree == Makes("migrating trees", "migrating histories")

MigrateHistories == Makes("migrating histories", "migrating aliases")

MigrateAliases == Makes("migrating aliases", "migrating env")

\* The last one; then replaceDb.
MigrateEnv ==
    /\ Goes("migrating env", "removing")
    /\ next' = 1
    /\ UNCHANGED <<accountVars, part, backup, runs, rash, made>>

\* replace(what): remove it, then copy the new one.
Remove ==
    /\ next \in DOMAIN Order
    /\ Goes("removing", "replacing")
    /\ part' = [part EXCEPT ![Order[next]] = "none"]
    /\ UNCHANGED <<accountVars, backup, next, runs, rash, made>>

Replace ==
    /\ Goes("replacing", "removing")
    /\ part' = [part EXCEPT ![Order[next]] = "new"]
    /\ next' = next + 1
    /\ UNCHANGED <<accountVars, backup, runs, rash, made>>

\* The last one, and the program ends.
ReplaceKeys ==
    /\ next \notin DOMAIN Order
    /\ Goes("removing", "idle")
    /\ keys' = [master |-> made, key |-> Mine, factors |-> NoFactors]
    /\ told' = Mine /\ asked' = {} /\ due' = None
    /\ master' = made
    /\ next' = 0
    /\ UNCHANGED <<mem, ops, trouble, current, stale, raced, part, backup, made, runs, rash>>

-----------------------------------------------------------------------------
(* --reverse and --done                                                    *)

\* Whatever the folder with that name holds.
Reverse ==
    /\ backup # NoBackup
    /\ Begins("reversing")
    /\ rash' = (rash \/ backup # "old")
    /\ part' = [x \in Parts |-> "none"]
    /\ keys' = None /\ master' = 0
    /\ UNCHANGED <<mem, ops, trouble, userVars, current, stale, raced, backup, next, made>>

Restore ==
    /\ Goes("reversing", "idle")
    /\ part' = [x \in Parts |-> IF backup = "old" THEN "old" ELSE "cut"]
    /\ backup' = NoBackup
    /\ UNCHANGED <<accountVars, next, runs, rash, made>>

Done ==
    /\ backup # NoBackup
    /\ Begins("idle")
    /\ rash' = (rash \/ ~(AllOld \/ AllNew))
    /\ backup' = NoBackup
    /\ UNCHANGED <<accountVars, part, next, made>>

-----------------------------------------------------------------------------
\* secrez-migrate is interrupted; a part it was copying may be there in part.
Interrupt ==
    /\ work # "idle" /\ trouble < MaxTrouble
    /\ trouble' = trouble + 1
    /\ work' = "idle" /\ next' = 0
    /\ part' \in {part} \cup
          (IF work = "replacing" THEN {[part EXCEPT ![Order[next]] = "cut"]} ELSE {})
    /\ UNCHANGED <<keys, mem, ops, userVars, seenVars, backup, runs, rash, made>>

\* setSecrez creates a keys.json when there is none.
Dummy(version) == IF version = "none" THEN "empty" ELSE version

\* Before Welcome looks at it: an old one ends the program there, and one cut
\* short throws.
Start(p) ==
    /\ work = "idle"
    /\ part["keys.json"] \notin {"old", "cut"}
    /\ Launch(p)
    /\ part' = [part EXCEPT !["keys.json"] = Dummy(@)]
    /\ UNCHANGED <<backup, work, next, made, runs, rash>>

\* An instance goes on.
Secrez == (\E p \in Procs : Works(p)) /\ UNCHANGED migrationVars

Migrates ==
    \/ Migrate \/ SetUp \/ Backup \/ BackedUp
    \/ MigrateTree \/ MigrateHistories \/ MigrateAliases \/ MigrateEnv
    \/ Remove \/ Replace \/ ReplaceKeys

MigrationNext ==
    \/ Migrates
    \/ Reverse \/ Restore \/ Done
    \/ Interrupt
    \/ \E p \in Procs : Start(p)
    \/ Secrez

MigrationSpec == MigrationInit /\ [][MigrationNext]_allVars

MigrationTypeOK ==
    /\ AccountTypeOK
    /\ part \in [Parts -> Versions]
    /\ backup \in Copies
    /\ work \in {"idle", "setting up", "backing up", "copying", "migrating trees",
                 "migrating histories", "migrating aliases", "migrating env",
                 "removing", "replacing", "reversing"}
    /\ next \in 0..(Len(Order) + 1) /\ made \in 0..MaxOps
    /\ runs \in 0..MaxRuns /\ rash \in BOOLEAN

\* Whenever the migration is interrupted, one complete database is left: the old
\* one, the new one with its keys, or the copy of the old one that --reverse puts
\* back.  As long as nothing is started on what an interrupted command left:
\* migrate would copy it over the good backup, --reverse would put a partial
\* copy in place of the container, --done would remove the copy.
Recoverable ==
    ~rash /\ keys # Torn =>
        \/ AllOld
        \/ AllNew
        \/ backup = "old"

=============================================================================
