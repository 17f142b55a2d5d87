------------------------------ MODULE Account ------------------------------
(***************************************************************************)
(* The account of a container (packages/core): the file keys/default.json, *)
(* the instances of Secrez that read and write it, and what each keeps in  *)
(* memory.  The master key is in the file encrypted with the password and  *)
(* the number of iterations, or, once a second factor is registered, split *)
(* between the password and each factor.                                   *)
(* An operation is cut where it awaits; whoever calls it (Welcome, a       *)
(* command, another client of the library) is a choice.                    *)
(***************************************************************************)
EXTENDS Integers, FiniteSets

CONSTANTS
    Procs,      \* the instances of Secrez on the container
    Passwords,
    Iterations,
    Factors,    \* the authenticators
    Fido,       \* those of them of type FIDO2_KEY; the others are recovery codes
    MaxOps,     \* bound: the operations on the account
    MaxTrouble, \* bound: crashes and writes that fail
    None, Torn  \* no file; a file that is truncated, to be written or left so

ASSUME AccountAssumption ==
    /\ Fido \subseteq Factors
    /\ Iterations \subseteq Nat \ {0}
    /\ MaxOps \in Nat /\ MaxTrouble \in Nat

Creds == [pw : Passwords, it : Iterations]
Masters == 1..MaxOps

VARIABLES
    keys,       \* keys/default.json
    mem,        \* the memory of each instance
    ops,        \* how many operations so far
    trouble,    \* how much trouble so far
    told,       \* the credentials the user was told are set, by the last report
    asked,      \* those the user asked for since, or whose report has not come
    due,        \* the instance whose change of them is in the file, not reported
    current,    \* the instances that have read or written the file as it is
    master,     \* the master key of the last file that could be read; 0: none yet
    stale,      \* a factor was changed over what was not read, or two wrote at once
    raced       \* two instances signed up at once

userVars == <<told, asked, due>>
seenVars == <<current, master, stale, raced>>
accountVars == <<keys, mem, ops, trouble, userVars, seenVars>>

\* conf.data: the master key it keeps, encrypted with key, or with factors.
Conf == [master : Masters, key : Creds \cup {None}, factors : [Factors -> Creds \cup {None}]]

ASSUME NoneAssumption ==
    None # Torn /\ None \notin Creds \cup Procs /\ Conf \cap {None, Torn} = {}

IsConf(f) == f \notin {None, Torn}

\* "signup" to "removing" are a change before it opens the file, "rewriting" (of
\* the credentials) and "writing" after, "reporting" until it resolves; "astray"
\* is a session of an account that was not saved.
Stages == {"off", "out", "deriving", "half", "in", "signup", "upgrading", "saving",
           "removing", "rewriting", "writing", "reporting", "astray"}

\* cred: the password and the iterations it has; conf: _secrez.conf; draft: what
\* was read, or is to be written.
Memories == [stage : Stages, cred : Creds \cup {None}, conf : Conf \cup {None},
             draft : Conf \cup {None}]

Off == [stage |-> "off", cred |-> None, conf |-> None, draft |-> None]

AccountInit ==
    /\ keys = None /\ mem = [p \in Procs |-> Off]
    /\ ops = 0 /\ trouble = 0
    /\ told = None /\ asked = {} /\ due = None
    /\ current = {} /\ master = 0 /\ stale = FALSE /\ raced = FALSE

At(p, stage) == mem[p].stage = stage

Operate == ops < MaxOps /\ ops' = ops + 1

Registered(conf) == {f \in Factors : conf.factors[f] # None}

NoFactors == [f \in Factors |-> None]

\* As Bare, with the parts of the factors left in the file.
BareMutantKeeps(conf, cred) == [conf EXCEPT !.key = cred]

Bare(conf, cred) == [conf EXCEPT !.key = cred, !.factors = NoFactors]

-----------------------------------------------------------------------------
(* Sign up and sign in                                                     *)

Launch(p) ==
    /\ At(p, "off")
    /\ mem' = [mem EXCEPT ![p] = [@ EXCEPT !.stage = "out"]]
    /\ UNCHANGED <<keys, ops, trouble, userVars, seenVars>>

\* A new master key, to be saved without a second look at the file.
Registers(p, cred) ==
    LET conf == [master |-> ops', key |-> cred, factors |-> NoFactors] IN
    /\ At(p, "out")
    /\ Operate
    /\ mem' = [mem EXCEPT ![p] = [@ EXCEPT !.stage = "signup", !.cred = cred, !.draft = conf]]
    /\ asked' = asked \cup {cred}
    /\ raced' = (raced \/ \E q \in Procs \ {p} : At(q, "signup"))
    /\ UNCHANGED <<keys, trouble, told, due, current, master, stale>>

\* As SignUp, without a look at the file.
SignUpMutantBlind(p, cred) == Registers(p, cred)

\* There is no file yet.
SignUp(p, cred) == keys = None /\ Registers(p, cred)

\* The iterations are those given, or the ones saved; the file is read before
\* the password is derived.
SignIn(p, cred) ==
    /\ At(p, "out") /\ IsConf(keys)
    /\ Operate
    /\ mem' = [mem EXCEPT ![p] = [@ EXCEPT !.stage = "deriving", !.cred = cred, !.draft = keys]]
    /\ current' = current \cup {p}
    /\ UNCHANGED <<keys, trouble, userVars, master, stale, raced>>

\* The instance asks again after a wrong password; for a second factor it reads
\* the file again, for those there are to choose from.
SignInEnds(p) ==
    LET m == mem[p] IN
    /\ At(p, "deriving")
    /\ mem' = [mem EXCEPT ![p] =
         CASE m.draft.key = m.cred -> [m EXCEPT !.stage = "in", !.conf = m.draft, !.draft = None]
           [] m.draft.key = None /\ IsConf(keys) -> [m EXCEPT !.stage = "half", !.draft = keys]
           [] m.draft.key = None /\ ~IsConf(keys) -> Off
           [] OTHER -> [m EXCEPT !.stage = "out", !.draft = None]]
    /\ UNCHANGED <<keys, ops, trouble, userVars, seenVars>>

Offered(p) == Registered(mem[p].draft)

\* The file is read once more; f may have gone from it, or be split for another
\* password.
SharedSignIn(p, f) ==
    /\ At(p, "half") /\ IsConf(keys)
    /\ keys.factors[f] = mem[p].cred
    /\ mem' = [mem EXCEPT ![p] = [@ EXCEPT !.stage = "in", !.conf = keys, !.draft = None]]
    /\ current' = current \cup {p}
    /\ UNCHANGED <<keys, ops, trouble, userVars, master, stale, raced>>

-----------------------------------------------------------------------------
(* Changes of the account                                                  *)

\* A change begins: what the instance has in memory by now, and what it will
\* write to the file.
Changes(p, stage, cred, conf, draft) ==
    /\ At(p, "in")
    /\ Operate
    /\ mem' = [mem EXCEPT ![p] = [stage |-> stage, cred |-> cred, conf |-> conf, draft |-> draft]]
    /\ UNCHANGED <<keys, trouble, told, due, seenVars>>

\* upgradeAccount: memory changes before the file does.
Upgrade(p, cred) ==
    LET conf == Bare(mem[p].conf, cred) IN
    /\ Changes(p, "upgrading", cred, conf, conf)
    /\ asked' = asked \cup {cred}

Split(conf, f, cred) ==
    [conf EXCEPT !.key = None, !.factors = [conf.factors EXCEPT ![f] = cred]]

\* saveSharedSecrets works on the file it reads now; its part of the key is
\* encrypted with the password in memory.
SaveFactor(p, f) ==
    LET cred == mem[p].cred IN
    /\ IsConf(keys)
    /\ Changes(p, "saving", cred, mem[p].conf, Split(keys, f, cred))
    /\ UNCHANGED asked

\* removeSharedSecret works on the data in memory; when no FIDO2 key is left,
\* or all have to go, the key is the password's alone again.
Without(conf, f, all, cred) ==
    LET less == [conf EXCEPT !.factors = [conf.factors EXCEPT ![f] = None]] IN
    IF ~all /\ Registered(less) \cap Fido # {} THEN less ELSE Bare(conf, cred)

RemoveFactor(p, f, all) ==
    LET cred == mem[p].cred
        conf == Without(mem[p].conf, f, all, cred)
    IN  Changes(p, "removing", cred, conf, conf) /\ UNCHANGED asked

-----------------------------------------------------------------------------
(* signAndSave: the file is opened and truncated, then written, then the     *)
(* call resolves                                                            *)

InWrite(p) == mem[p].stage \in {"rewriting", "writing"}

\* A change of the credentials, by which the whole key is encrypted again.
Rewrites(p) == mem[p].stage \in {"signup", "upgrading"}

Open(p) ==
    /\ Rewrites(p) \/ mem[p].stage \in {"saving", "removing"}
    /\ keys' = Torn
    /\ mem' = [mem EXCEPT ![p] = [@ EXCEPT !.stage = IF Rewrites(p) THEN "rewriting" ELSE "writing"]]
    /\ asked' = IF Rewrites(p) THEN {mem[p].cred} ELSE asked
    /\ due' = IF Rewrites(p) THEN p ELSE due
    /\ stale' = (stale \/ (~Rewrites(p) /\ p \notin current) \/ \E q \in Procs \ {p} : InWrite(q))
    /\ current' = {p}
    /\ UNCHANGED <<ops, trouble, told, master, raced>>

\* What another instance wrote after the truncation may stick out of the text.
Written(p) ==
    LET m == mem[p] IN
    /\ InWrite(p)
    /\ keys' \in {m.draft} \cup (IF keys = Torn THEN {} ELSE {Torn})
    /\ master' = IF keys' = Torn THEN master ELSE m.draft.master
    /\ mem' = [mem EXCEPT ![p] = [m EXCEPT !.stage = IF @ = "rewriting" THEN "reporting" ELSE "in",
                                           !.conf = m.draft, !.draft = None]]
    /\ UNCHANGED <<ops, trouble, userVars, current, stale, raced>>

\* The change of the credentials is reported; by then another may be in the file.
Reports(p) ==
    /\ At(p, "reporting")
    /\ mem' = [mem EXCEPT ![p] = [@ EXCEPT !.stage = "in"]]
    /\ IF due = p
       THEN told' = mem[p].cred /\ asked' = asked \ {mem[p].cred} /\ due' = None
       ELSE UNCHANGED userVars
    /\ UNCHANGED <<keys, ops, trouble, seenVars>>

\* It throws, with the file untouched or truncated; memory stays as it is by now.
\* After a sign up the session goes on, with a master key that is in no file.
SaveFails(p) ==
    LET m == mem[p] IN
    /\ m.stage \in {"signup", "upgrading", "saving", "removing", "rewriting", "writing"}
    /\ trouble < MaxTrouble
    /\ trouble' = trouble + 1
    /\ mem' = [mem EXCEPT ![p] = [m EXCEPT !.stage = IF m.conf = None THEN "astray" ELSE "in",
                                           !.draft = None]]
    /\ UNCHANGED <<keys, ops, userVars, seenVars>>

Ends(p) ==
    /\ mem' = [mem EXCEPT ![p] = Off]
    /\ current' = current \ {p}
    /\ UNCHANGED <<keys, ops, userVars, master, stale, raced>>

\* The process ends, by a choice of the user.
Leave(p) ==
    /\ mem[p].stage \in {"out", "half", "in", "astray"}
    /\ Ends(p)
    /\ UNCHANGED trouble

\* Or anywhere: a file that is being written is left truncated, one that was
\* written is left unreported.
Crash(p) ==
    /\ mem[p].stage # "off" /\ trouble < MaxTrouble
    /\ trouble' = trouble + 1
    /\ Ends(p)

-----------------------------------------------------------------------------
\* Welcome: it asks until a password, and a factor if there are, open the file.
Login(p) == \E cred \in Creds : SignIn(p, cred)

SharedLogin(p) == At(p, "half") /\ \E f \in Offered(p) : SharedSignIn(p, f)

FirstLogin(p) == \E cred \in Creds : SignUp(p, cred)

\* A step of a running instance.
Works(p) ==
    \/ FirstLogin(p)
    \/ Login(p)
    \/ SignInEnds(p)
    \/ SharedLogin(p)
    \/ \E cred \in Creds : Upgrade(p, cred)
    \/ \E f \in Factors : SaveFactor(p, f)
    \/ \E f \in Factors, all \in BOOLEAN : RemoveFactor(p, f, all)
    \/ Open(p)
    \/ Written(p)
    \/ Reports(p)
    \/ SaveFails(p)
    \/ Leave(p)
    \/ Crash(p)

AccountNext == \E p \in Procs : Launch(p) \/ Works(p)

AccountSpec == AccountInit /\ [][AccountNext]_accountVars

AccountTypeOK ==
    /\ keys \in Conf \cup {None, Torn}
    /\ mem \in [Procs -> Memories]
    /\ ops \in 0..MaxOps /\ trouble \in 0..MaxTrouble
    /\ told \in Creds \cup {None} /\ asked \in SUBSET Creds /\ due \in Procs \cup {None}
    /\ current \in SUBSET Procs /\ master \in 0..MaxOps
    /\ stale \in BOOLEAN /\ raced \in BOOLEAN

\* What the user may type: what was told last, unless a change of it is in the file
\* that was not reported (a crash came first); and what was asked for since, as a
\* change that fails stays in memory and goes to the file with the next one.
Valid == asked \cup (IF due = None THEN {told} \ {None} ELSE {})

\* The file opens with what the user was told last, or asked for since, and with
\* that only: each part of the key and the whole key; with a second factor
\* registered it never opens without one.  As long as no two instances write at
\* once, and none saves or removes a factor after another has written the file.
KeysOpen ==
    IsConf(keys) /\ ~stale =>
      /\ \A f \in Registered(keys) : keys.factors[f] \in Valid
      /\ IF Registered(keys) = {} THEN keys.key \in Valid ELSE keys.key = None

\* Once there is an account its master key stays, and so do the data: what a
\* change, a failure or a crash leaves is that account, or no readable file.
MasterKept ==
    [][IsConf(keys') /\ master # 0 /\ ~raced' => keys'.master = master]_accountVars
=============================================================================
