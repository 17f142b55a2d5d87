--------------------------- MODULE Account_proofs ---------------------------
(***************************************************************************)
(* The account of a container, for every number of instances, passwords,   *)
(* iterations and factors: what the file and the memories are, that the    *)
(* file opens with the credentials the user was told, and that the master  *)
(* key stays.  And the same with secrez-migrate run and interrupted in     *)
(* between, which leaves a database that is complete.                      *)
(***************************************************************************)
EXTENDS Migration, TLAPS

-----------------------------------------------------------------------------
(* What the operations make of the data of an account                      *)

LEMMA BareConf ==
  ASSUME NEW conf \in Conf, NEW cred \in Creds
  PROVE  /\ Bare(conf, cred) \in Conf
         /\ Bare(conf, cred).master = conf.master
         /\ Bare(conf, cred).key = cred
         /\ Registered(Bare(conf, cred)) = {}
BY DEF Bare, Conf, NoFactors, Registered

LEMMA SplitConf ==
  ASSUME NEW conf \in Conf, NEW cred \in Creds, NEW f \in Factors
  PROVE  /\ Split(conf, f, cred) \in Conf
         /\ Split(conf, f, cred).master = conf.master
         /\ Split(conf, f, cred).key = None
         /\ Registered(Split(conf, f, cred)) = Registered(conf) \cup {f}
         /\ \A g \in Factors : Split(conf, f, cred).factors[g]
                                 = IF g = f THEN cred ELSE conf.factors[g]
<1>1. conf.factors \in [Factors -> Creds \cup {None}]
  BY DEF Conf
<1>2. Split(conf, f, cred).factors = [conf.factors EXCEPT ![f] = cred]
  BY DEF Split, Conf
<1>3. \A g \in Factors : Split(conf, f, cred).factors[g]
                           = IF g = f THEN cred ELSE conf.factors[g]
  BY <1>1, <1>2
<1>4. Split(conf, f, cred) \in Conf
  BY DEF Split, Conf
<1>5. Split(conf, f, cred).master = conf.master /\ Split(conf, f, cred).key = None
  BY DEF Split, Conf
<1> QED
  BY <1>3, <1>4, <1>5, NoneAssumption DEF Registered

\* One factor less, or none.
LEMMA WithoutConf ==
  ASSUME NEW conf \in Conf, NEW cred \in Creds, NEW f \in Factors, NEW all \in BOOLEAN
  PROVE  /\ Without(conf, f, all, cred) \in Conf
         /\ Without(conf, f, all, cred).master = conf.master
         /\ \/ Without(conf, f, all, cred) = Bare(conf, cred)
            \/ /\ Registered(Without(conf, f, all, cred)) # {}
               /\ Registered(conf) # {}
               /\ Without(conf, f, all, cred).key = conf.key
               /\ \A g \in Registered(Without(conf, f, all, cred)) :
                    /\ g \in Registered(conf)
                    /\ Without(conf, f, all, cred).factors[g] = conf.factors[g]
<1> DEFINE less == [conf EXCEPT !.factors = [conf.factors EXCEPT ![f] = None]]
<1>1. conf.factors \in [Factors -> Creds \cup {None}]
  BY DEF Conf
<1>2. less \in Conf /\ less.master = conf.master /\ less.key = conf.key
  BY DEF Conf
<1>3. less.factors = [conf.factors EXCEPT ![f] = None]
  BY DEF Conf
<1>4. \A g \in Registered(less) : g \in Registered(conf) /\ less.factors[g] = conf.factors[g]
  BY <1>1, <1>3 DEF Registered
<1>5. CASE ~all /\ Registered(less) \cap Fido # {}
  <2>1. Without(conf, f, all, cred) = less
    BY <1>5, Zenon DEF Without
  <2>2. Registered(less) # {} /\ Registered(conf) # {}
    BY <1>4, <1>5
  <2> QED
    BY <1>2, <1>4, <2>1, <2>2, Zenon
<1>6. CASE ~(~all /\ Registered(less) \cap Fido # {})
  <2>1. Without(conf, f, all, cred) = Bare(conf, cred)
    BY <1>6, Zenon DEF Without
  <2> QED
    BY <2>1, BareConf
<1> QED
  BY <1>5, <1>6

-----------------------------------------------------------------------------
(* What the memories are                                                   *)

\* An instance that has what it will write, one that will write the credentials, and
\* one that works on a conf.
Changing == {"signup", "upgrading", "saving", "removing", "rewriting", "writing"}

Rewriting == {"signup", "upgrading", "rewriting"}

Knowing == {"in", "upgrading", "saving", "removing", "rewriting", "writing", "reporting"}

Apart == {"off", "out", "deriving", "half", "signup"}

\* conf opens with c, without a factor.
Sole(conf, c) == conf.key = c /\ Registered(conf) = {}

MemoryOK(m) ==
  /\ m.stage \in Knowing \cup {"deriving", "half", "signup"} => m.cred \in Creds
  /\ m.stage \in {"deriving", "half"} \cup Changing => m.draft \in Conf
  /\ m.stage \in Knowing \ {"rewriting", "writing"} => m.conf \in Conf
  /\ m.stage \in Apart => m.conf = None
  /\ m.stage \in Rewriting => Sole(m.draft, m.cred) /\ m.conf \in {None, m.draft}

TypeInv == AccountTypeOK /\ \A p \in Procs : MemoryOK(mem[p])

LEMMA OffOK == Off \in Memories /\ MemoryOK(Off)
BY DEF Off, Memories, Stages, MemoryOK, Knowing, Changing, Rewriting, Apart

\* A conf is a file, and what is not is no conf.
LEMMA ConfIsFile ==
  /\ \A f \in Conf \cup {None, Torn} : IsConf(f) <=> f \in Conf
  /\ None \notin Conf /\ Torn \notin Conf
BY NoneAssumption DEF IsConf

\* Of the other variables, after a step of p.
SeenOK ==
  /\ keys' \in Conf \cup {None, Torn}
  /\ told' \in Creds \cup {None} /\ asked' \in SUBSET Creds /\ due' \in Procs \cup {None}
  /\ ops' \in 0..MaxOps /\ trouble' \in 0..MaxTrouble
  /\ current' \in SUBSET Procs /\ master' \in 0..MaxOps
  /\ stale' \in BOOLEAN /\ raced' \in BOOLEAN

\* A step of one instance, whose memory becomes m.
LEMMA OneMoves ==
  ASSUME TypeInv, NEW p \in Procs, NEW m, mem' = [mem EXCEPT ![p] = m],
         m \in Memories, MemoryOK(m), SeenOK
  PROVE  TypeInv'
<1>1. mem' \in [Procs -> Memories]
  BY DEF TypeInv, AccountTypeOK
<1>2. ASSUME NEW q \in Procs PROVE MemoryOK(mem'[q])
  BY DEF TypeInv, AccountTypeOK
<1>3. AccountTypeOK'
  BY <1>1 DEF AccountTypeOK, SeenOK
<1> QED
  BY <1>2, <1>3 DEF TypeInv

\* The new account of a sign up.
LEMMA NewConf ==
  ASSUME NEW n \in 1..MaxOps, NEW cred \in Creds, NEW conf,
         conf = [master |-> n, key |-> cred, factors |-> NoFactors]
  PROVE  conf \in Conf /\ Sole(conf, cred) /\ conf.master = n
BY DEF Conf, Masters, NoFactors, Sole, Registered

\* What each step makes of the memory of its instance: m, the stage of it, and what it
\* has of what was there.
LEMMA StageOf ==
  ASSUME TypeInv, NEW p \in Procs, NEW s \in Stages
  PROVE  /\ [mem[p] EXCEPT !.stage = s] \in Memories
         /\ [mem[p] EXCEPT !.stage = s].stage = s
         /\ [mem[p] EXCEPT !.stage = s].conf = mem[p].conf
         /\ [mem[p] EXCEPT !.stage = s].draft = mem[p].draft
         /\ [mem[p] EXCEPT !.stage = s].cred = mem[p].cred
BY DEF TypeInv, AccountTypeOK, Memories

LEMMA TypeStep == TypeInv /\ [AccountNext]_accountVars => TypeInv'
<1> SUFFICES ASSUME TypeInv, [AccountNext]_accountVars PROVE TypeInv'
  OBVIOUS
<1>t. AccountTypeOK /\ \A p \in Procs : mem[p] \in Memories /\ MemoryOK(mem[p])
  BY DEF TypeInv, AccountTypeOK
<1>1. CASE UNCHANGED accountVars
  BY <1>1 DEF TypeInv, AccountTypeOK, MemoryOK, Sole, Registered, accountVars, userVars, seenVars
\* Steps that leave all but the memory and the readers.
<1>r. ASSUME NEW p \in Procs, NEW m, mem' = [mem EXCEPT ![p] = m], m \in Memories, MemoryOK(m),
             UNCHANGED <<keys, told, asked, due, master, stale, raced>>,
             ops' \in 0..MaxOps, trouble' \in 0..MaxTrouble, current' \in SUBSET Procs
      PROVE  TypeInv'
  <2>1. SeenOK
    BY <1>r, <1>t, Zenon DEF AccountTypeOK, SeenOK
  <2> QED
    BY <1>r, <2>1, OneMoves
<1>c. /\ ops \in 0..MaxOps /\ trouble \in 0..MaxTrouble /\ current \in SUBSET Procs
      /\ MaxOps \in Nat /\ MaxTrouble \in Nat
  BY <1>t, AccountAssumption DEF AccountTypeOK
<1>o. Operate => ops' \in 0..MaxOps /\ ops' \in 1..MaxOps
  BY <1>c DEF Operate
<1>k. IsConf(keys) => keys \in Conf
  BY <1>t, ConfIsFile DEF AccountTypeOK
<1>2. ASSUME NEW p \in Procs, Launch(p) PROVE TypeInv'
  <2> DEFINE m == [mem[p] EXCEPT !.stage = "out"]
  <2>1. /\ mem' = [mem EXCEPT ![p] = m] /\ mem[p].stage = "off"
        /\ UNCHANGED <<keys, ops, trouble, told, asked, due, current, master, stale, raced>>
    BY <1>2 DEF Launch, At, userVars, seenVars
  <2>2. m \in Memories /\ m.stage = "out" /\ m.conf = mem[p].conf
    BY StageOf DEF Stages
  <2> HIDE DEF m
  <2>3. MemoryOK(m)
    BY <1>t, <2>1, <2>2 DEF MemoryOK, Knowing, Changing, Rewriting, Apart
  <2> QED
    BY <1>r, <1>c, <2>1, <2>2, <2>3
<1>3. ASSUME NEW p \in Procs, NEW cred \in Creds, SignUp(p, cred) PROVE TypeInv'
  <2> DEFINE conf == [master |-> ops', key |-> cred, factors |-> NoFactors]
             m == [mem[p] EXCEPT !.stage = "signup", !.cred = cred, !.draft = conf]
  <2>1. /\ mem' = [mem EXCEPT ![p] = m] /\ mem[p].stage = "out" /\ ops' \in 1..MaxOps /\ ops' \in 0..MaxOps
        /\ asked' = asked \cup {cred}
        /\ UNCHANGED <<keys, trouble, told, due, current, master, stale>>
    BY <1>3, <1>o DEF SignUp, Registers, At
  <2>2. raced' \in BOOLEAN
    BY <1>3, <1>t, Zenon DEF SignUp, Registers, AccountTypeOK
  <2>3. conf \in Conf /\ Sole(conf, cred)
    BY <2>1, NewConf
  <2> HIDE DEF conf
  <2>4. m \in Memories /\ m.stage = "signup" /\ m.cred = cred /\ m.draft = conf /\ m.conf = mem[p].conf
    BY <1>t, <2>3 DEF Memories, Stages
  <2> HIDE DEF m
  <2>5. MemoryOK(m)
    BY <1>t, <2>1, <2>3, <2>4 DEF MemoryOK, Knowing, Changing, Rewriting, Apart
  <2>6. SeenOK
    BY <1>t, <2>1, <2>2 DEF AccountTypeOK, SeenOK
  <2> QED
    BY <2>1, <2>4, <2>5, <2>6, OneMoves
<1>5. ASSUME NEW p \in Procs, NEW cred \in Creds, SignIn(p, cred) PROVE TypeInv'
  <2> DEFINE m == [mem[p] EXCEPT !.stage = "deriving", !.cred = cred, !.draft = keys]
  <2>1. /\ mem' = [mem EXCEPT ![p] = m] /\ mem[p].stage = "out" /\ ops' \in 0..MaxOps
        /\ current' \in SUBSET Procs /\ keys \in Conf
        /\ UNCHANGED <<keys, trouble, told, asked, due, master, stale, raced>>
    BY <1>5, <1>o, <1>c, <1>k DEF SignIn, At, userVars
  <2>2. m \in Memories /\ m.stage = "deriving" /\ m.cred = cred /\ m.draft = keys /\ m.conf = mem[p].conf
    BY <1>t, <2>1 DEF Memories, Stages
  <2> HIDE DEF m
  <2>3. MemoryOK(m)
    BY <1>t, <2>1, <2>2 DEF MemoryOK, Knowing, Changing, Rewriting, Apart
  <2> QED
    BY <1>r, <1>c, <2>1, <2>2, <2>3
<1>6. ASSUME NEW p \in Procs, SignInEnds(p) PROVE TypeInv'
  <2> DEFINE m == mem'[p]
             mIn == [mem[p] EXCEPT !.stage = "in", !.conf = mem[p].draft, !.draft = None]
             mHalf == [mem[p] EXCEPT !.stage = "half", !.draft = keys]
             mOut == [mem[p] EXCEPT !.stage = "out", !.draft = None]
  <2>1. /\ mem[p].draft \in Conf /\ mem[p].cred \in Creds /\ mem[p].conf = None
        /\ UNCHANGED <<keys, ops, trouble, told, asked, due, current, master, stale, raced>>
    BY <1>6, <1>t DEF SignInEnds, At, MemoryOK, Knowing, Changing, Apart, userVars, seenVars
  <2>2. /\ mem' = [mem EXCEPT ![p] = m]
        /\ m = mIn \/ (keys \in Conf /\ m = mHalf) \/ m = Off \/ m = mOut
    BY <1>6, <1>t, <1>k DEF SignInEnds, AccountTypeOK
  <2>3. /\ mIn \in Memories /\ mIn.stage = "in" /\ mIn.conf = mem[p].draft /\ mIn.cred = mem[p].cred
        /\ mOut \in Memories /\ mOut.stage = "out" /\ mOut.conf = None
        /\ keys \in Conf => mHalf \in Memories /\ mHalf.draft = keys
        /\ mHalf.stage = "half" /\ mHalf.conf = None /\ mHalf.cred = mem[p].cred
    BY <1>t, <2>1 DEF Memories, Stages
  <2> HIDE DEF m, mIn, mHalf, mOut
  <2>4. CASE m = Off
    BY <1>r, <1>c, <2>1, <2>2, <2>4, OffOK
  <2>5. CASE m = mIn \/ (keys \in Conf /\ m = mHalf) \/ m = mOut
    <3>1. m \in Memories /\ MemoryOK(m)
      BY <2>1, <2>3, <2>5 DEF MemoryOK, Knowing, Changing, Rewriting, Apart
    <3> QED
      BY <1>r, <1>c, <2>1, <2>2, <3>1
  <2> QED
    BY <2>2, <2>4, <2>5
<1>7. ASSUME NEW p \in Procs, NEW f, SharedSignIn(p, f) PROVE TypeInv'
  <2> DEFINE m == [mem[p] EXCEPT !.stage = "in", !.conf = keys, !.draft = None]
  <2>1. /\ mem' = [mem EXCEPT ![p] = m] /\ mem[p].stage = "half" /\ keys \in Conf
        /\ current' \in SUBSET Procs /\ mem[p].cred \in Creds
        /\ UNCHANGED <<keys, ops, trouble, told, asked, due, master, stale, raced>>
    BY <1>7, <1>t, <1>c, <1>k DEF SharedSignIn, At, userVars, MemoryOK
  <2>2. m \in Memories /\ m.stage = "in" /\ m.cred = mem[p].cred /\ m.conf = keys
    BY <1>t, <2>1 DEF Memories, Stages
  <2> HIDE DEF m
  <2>3. MemoryOK(m)
    BY <2>1, <2>2 DEF MemoryOK, Knowing, Changing, Rewriting, Apart
  <2> QED
    BY <1>r, <1>c, <2>1, <2>2, <2>3
<1>8. ASSUME NEW p \in Procs, NEW stage \in {"upgrading", "saving", "removing"}, NEW cred \in Creds,
             NEW conf \in Conf, NEW draft \in Conf, Changes(p, stage, cred, conf, draft),
             asked' \in SUBSET Creds, stage = "upgrading" => Sole(draft, cred) /\ conf = draft
      PROVE  TypeInv'
  <2> DEFINE m == [stage |-> stage, cred |-> cred, conf |-> conf, draft |-> draft]
  <2>1. /\ mem' = [mem EXCEPT ![p] = m] /\ ops' \in 0..MaxOps
        /\ UNCHANGED <<keys, trouble, told, due, current, master, stale, raced>>
    BY <1>8, <1>o DEF Changes, seenVars
  <2>2. m \in Memories /\ MemoryOK(m)
    BY <1>8 DEF Memories, Stages, MemoryOK, Knowing, Changing, Rewriting, Apart
  <2> HIDE DEF m
  <2>3. SeenOK
    BY <1>8, <1>t, <2>1 DEF AccountTypeOK, SeenOK
  <2> QED
    BY <2>1, <2>2, <2>3, OneMoves
<1>in. ASSUME NEW p \in Procs, At(p, "in") PROVE mem[p].conf \in Conf /\ mem[p].cred \in Creds
  BY <1>t, <1>in DEF At, MemoryOK, Knowing
<1>9. ASSUME NEW p \in Procs, NEW cred \in Creds, Upgrade(p, cred) PROVE TypeInv'
  <2> DEFINE conf == Bare(mem[p].conf, cred)
  <2>1. Changes(p, "upgrading", cred, conf, conf) /\ asked' = asked \cup {cred} /\ mem[p].conf \in Conf
    BY <1>9, <1>in DEF Upgrade, Changes
  <2>2. conf \in Conf /\ Sole(conf, cred)
    BY <2>1, BareConf DEF Sole
  <2>3. asked' \in SUBSET Creds
    BY <1>t, <2>1 DEF AccountTypeOK
  <2> HIDE DEF conf
  <2> QED
    BY <1>8, <2>1, <2>2, <2>3
<1>10. ASSUME NEW p \in Procs, NEW f \in Factors, SaveFactor(p, f) PROVE TypeInv'
  <2> DEFINE cred == mem[p].cred
             draft == Split(keys, f, cred)
  <2>1. /\ Changes(p, "saving", cred, mem[p].conf, draft) /\ asked' = asked
        /\ keys \in Conf /\ mem[p].conf \in Conf /\ cred \in Creds
    BY <1>10, <1>in, <1>k DEF SaveFactor, Changes
  <2>2. draft \in Conf
    BY <2>1, SplitConf
  <2>3. asked' \in SUBSET Creds
    BY <1>t, <2>1 DEF AccountTypeOK
  <2> HIDE DEF draft
  <2> QED
    BY <1>8, <2>1, <2>2, <2>3
<1>11. ASSUME NEW p \in Procs, NEW f \in Factors, NEW all \in BOOLEAN, RemoveFactor(p, f, all)
       PROVE  TypeInv'
  <2> DEFINE cred == mem[p].cred
             conf == Without(mem[p].conf, f, all, cred)
  <2>1. /\ Changes(p, "removing", cred, conf, conf) /\ asked' = asked
        /\ mem[p].conf \in Conf /\ cred \in Creds
    BY <1>11, <1>in DEF RemoveFactor, Changes
  <2>2. conf \in Conf
    BY <2>1, WithoutConf
  <2>3. asked' \in SUBSET Creds
    BY <1>t, <2>1 DEF AccountTypeOK
  <2> HIDE DEF conf
  <2> QED
    BY <1>8, <2>1, <2>2, <2>3
<1>12. ASSUME NEW p \in Procs, Open(p) PROVE TypeInv'
  <2> DEFINE s == IF Rewrites(p) THEN "rewriting" ELSE "writing"
             m == [mem[p] EXCEPT !.stage = s]
  <2>1. /\ mem' = [mem EXCEPT ![p] = m] /\ keys' = Torn /\ current' = {p}
        /\ asked' \in {asked, {mem[p].cred}} /\ due' \in {due, p}
        /\ UNCHANGED <<ops, trouble, told, master, raced>>
        /\ \/ Rewrites(p) /\ s = "rewriting" /\ mem[p].stage \in {"signup", "upgrading"}
           \/ s = "writing" /\ mem[p].stage \in {"saving", "removing"}
    BY <1>12 DEF Open, Rewrites
  <2>2. stale' \in BOOLEAN
    BY <1>12, <1>t, Zenon DEF Open, AccountTypeOK
  <2>s. s \in Stages
    BY <2>1 DEF Stages
  <2> HIDE DEF s
  <2>3. /\ m \in Memories /\ m.stage = s /\ m.cred = mem[p].cred /\ m.conf = mem[p].conf
        /\ m.draft = mem[p].draft
    BY <2>s, StageOf
  <2> HIDE DEF m
  <2>4. MemoryOK(m) /\ mem[p].cred \in Creds
    BY <1>t, <2>1, <2>3 DEF MemoryOK, Knowing, Changing, Rewriting, Apart
  <2>5. SeenOK
    BY <1>t, <2>1, <2>2, <2>4 DEF AccountTypeOK, SeenOK
  <2> QED
    BY <2>1, <2>3, <2>4, <2>5, OneMoves
<1>13. ASSUME NEW p \in Procs, Written(p) PROVE TypeInv'
  <2> DEFINE s == IF mem[p].stage = "rewriting" THEN "reporting" ELSE "in"
             m == [mem[p] EXCEPT !.stage = s, !.conf = mem[p].draft, !.draft = None]
  <2>1. /\ mem' = [mem EXCEPT ![p] = m] /\ keys' \in {mem[p].draft, Torn}
        /\ master' \in {master, mem[p].draft.master}
        /\ UNCHANGED <<ops, trouble, told, asked, due, current, stale, raced>>
        /\ mem[p].stage \in {"rewriting", "writing"}
    BY <1>13, <1>t DEF Written, InWrite, userVars, Memories
  <2>2. /\ mem[p].draft \in Conf /\ mem[p].cred \in Creds
        /\ mem[p].draft.master \in 0..MaxOps
    <3>1. mem[p].draft \in Conf /\ mem[p].cred \in Creds
      BY <1>t, <2>1 DEF MemoryOK, Knowing, Changing
    <3> QED
      BY <3>1, <1>c DEF Conf, Masters
  <2>3. /\ m \in Memories /\ m.stage = s /\ s \in {"reporting", "in"} /\ m.cred = mem[p].cred
        /\ m.conf = mem[p].draft
    BY <1>t, <2>2 DEF Memories, Stages
  <2> HIDE DEF m, s
  <2>4. MemoryOK(m)
    BY <2>2, <2>3 DEF MemoryOK, Knowing, Changing, Rewriting, Apart
  <2>5. SeenOK
    BY <1>t, <2>1, <2>2 DEF AccountTypeOK, SeenOK
  <2> QED
    BY <2>1, <2>3, <2>4, <2>5, OneMoves
<1>14. ASSUME NEW p \in Procs, Reports(p) PROVE TypeInv'
  <2> DEFINE m == [mem[p] EXCEPT !.stage = "in"]
  <2>1. /\ mem' = [mem EXCEPT ![p] = m] /\ mem[p].stage = "reporting"
        /\ told' \in {told, mem[p].cred} /\ asked' \in {asked, asked \ {mem[p].cred}}
        /\ due' \in {due, None}
        /\ UNCHANGED <<keys, ops, trouble, current, master, stale, raced>>
    BY <1>14 DEF Reports, At, userVars, seenVars
  <2>2. /\ m \in Memories /\ m.stage = "in" /\ m.cred = mem[p].cred /\ m.conf = mem[p].conf
    BY StageOf DEF Stages
  <2> HIDE DEF m
  <2>3. MemoryOK(m) /\ mem[p].cred \in Creds
    BY <1>t, <2>1, <2>2 DEF MemoryOK, Knowing, Changing, Rewriting, Apart
  <2>4. SeenOK
    BY <1>t, <2>1, <2>3 DEF AccountTypeOK, SeenOK
  <2> QED
    BY <2>1, <2>2, <2>3, <2>4, OneMoves
<1>15. ASSUME NEW p \in Procs, SaveFails(p) PROVE TypeInv'
  <2> DEFINE s == IF mem[p].conf = None THEN "astray" ELSE "in"
             m == [mem[p] EXCEPT !.stage = s, !.draft = None]
  <2>1. /\ mem' = [mem EXCEPT ![p] = m] /\ mem[p].stage \in Changing
        /\ trouble' = trouble + 1 /\ trouble < MaxTrouble
        /\ UNCHANGED <<keys, ops, told, asked, due, current, master, stale, raced>>
    BY <1>15, <1>t DEF SaveFails, Changing, userVars, seenVars, Memories
  <2>2. mem[p].cred \in Creds /\ (s = "in" => mem[p].conf \in Conf)
    BY <1>t, <2>1 DEF MemoryOK, Knowing, Changing, Memories
  <2>3. /\ m \in Memories /\ m.stage = s /\ s \in {"astray", "in"} /\ m.cred = mem[p].cred
        /\ m.conf = mem[p].conf
    BY <1>t, <2>2 DEF Memories, Stages
  <2> HIDE DEF m, s
  <2>4. MemoryOK(m)
    BY <2>2, <2>3 DEF MemoryOK, Knowing, Changing, Rewriting, Apart
  <2>5. trouble' \in 0..MaxTrouble
    BY <1>c, <2>1
  <2> QED
    BY <1>r, <1>c, <2>1, <2>3, <2>4, <2>5
<1>16. ASSUME NEW p \in Procs, Leave(p) \/ Crash(p) PROVE TypeInv'
  <2>1. /\ mem' = [mem EXCEPT ![p] = Off] /\ current' = current \ {p}
        /\ UNCHANGED <<keys, ops, told, asked, due, master, stale, raced>>
        /\ trouble' = trouble \/ (trouble < MaxTrouble /\ trouble' = trouble + 1)
    BY <1>16 DEF Leave, Crash, Ends, userVars
  <2>2. trouble' \in 0..MaxTrouble /\ current' \in SUBSET Procs
    BY <1>c, <2>1
  <2> QED
    BY <1>r, <1>c, <2>1, <2>2, OffOK
<1> QED
  BY <1>1, <1>2, <1>3, <1>5, <1>6, <1>7, <1>9, <1>10, <1>11, <1>12, <1>13, <1>14, <1>15, <1>16
  DEF AccountNext, Works, FirstLogin, Login, SharedLogin

LEMMA AccountStarts == AccountInit => TypeInv
<1> SUFFICES ASSUME AccountInit PROVE TypeInv
  OBVIOUS
<1>1. /\ mem \in [Procs -> Memories] /\ ops \in 0..MaxOps /\ trouble \in 0..MaxTrouble
      /\ master \in 0..MaxOps
  BY OffOK, AccountAssumption DEF AccountInit
<1>2. /\ keys \in Conf \cup {None, Torn} /\ told \in Creds \cup {None}
      /\ asked \in SUBSET Creds /\ due \in Procs \cup {None} /\ current \in SUBSET Procs
      /\ stale \in BOOLEAN /\ raced \in BOOLEAN
  BY DEF AccountInit
<1>3. AccountTypeOK
  BY <1>1, <1>2, Zenon DEF AccountTypeOK
<1>4. ASSUME NEW p \in Procs PROVE MemoryOK(mem[p])
  BY OffOK DEF AccountInit
<1> QED
  BY <1>3, <1>4 DEF TypeInv

\* AccountTypeOK: the file, the memories and the counters are what they should
\* be, whatever the instances do.
THEOREM AccountTypes == AccountSpec => []AccountTypeOK
BY AccountStarts, TypeStep, PTL DEF AccountSpec, TypeInv

-----------------------------------------------------------------------------
(* The file opens with what the user was told, or asked for                *)

\* conf opens with credentials of V only: each part of the key, and the whole key.
Fits(conf, V) ==
  /\ \A f \in Registered(conf) : conf.factors[f] \in V
  /\ IF Registered(conf) = {} THEN conf.key \in V ELSE conf.key = None

\* Of an instance that has the file as it is: what it read, has in memory and is about
\* to write opens with V, and so will what it encrypts with its password.
Fitting(m, V) ==
  /\ m.stage \in Knowing => m.cred \in V /\ (m.conf # None => Fits(m.conf, V))
  /\ m.stage \in {"deriving"} \cup (Changing \ {"signup"}) => Fits(m.draft, V)

\* Who writes is alone with the file.
KeysInv ==
  ~stale =>
    /\ IsConf(keys) => Fits(keys, Valid)
    /\ \A p \in current : Fitting(mem[p], Valid)
    /\ \A p \in Procs : InWrite(p) => keys = Torn /\ current = {p}

LEMMA FitsMore ==
  ASSUME NEW conf, NEW V, NEW W, V \subseteq W, Fits(conf, V)
  PROVE  Fits(conf, W)
BY DEF Fits

LEMMA FittingMore ==
  ASSUME NEW m, NEW V, NEW W, V \subseteq W, Fitting(m, V)
  PROVE  Fitting(m, W)
BY FitsMore DEF Fitting

LEMMA SoleFits ==
  ASSUME NEW conf, NEW c, Sole(conf, c), NEW V, c \in V
  PROVE  Fits(conf, V)
BY DEF Sole, Fits

LEMMA SplitFits ==
  ASSUME NEW conf \in Conf, NEW c \in Creds, NEW f \in Factors, NEW V, c \in V, Fits(conf, V)
  PROVE  Fits(Split(conf, f, c), V)
<1>1. Registered(Split(conf, f, c)) = Registered(conf) \cup {f} /\ Split(conf, f, c).key = None
  BY SplitConf
<1>2. ASSUME NEW g \in Registered(Split(conf, f, c)) PROVE Split(conf, f, c).factors[g] \in V
  <2>1. g \in Factors /\ (g = f \/ g \in Registered(conf))
    BY <1>1 DEF Registered
  <2>2. Split(conf, f, c).factors[g] = IF g = f THEN c ELSE conf.factors[g]
    BY <2>1, SplitConf
  <2> QED
    BY <2>1, <2>2 DEF Fits
<1> QED
  BY <1>1, <1>2 DEF Fits

LEMMA WithoutFits ==
  ASSUME NEW conf \in Conf, NEW c \in Creds, NEW f \in Factors, NEW all \in BOOLEAN,
         NEW V, c \in V, Fits(conf, V)
  PROVE  Fits(Without(conf, f, all, c), V)
<1>1. CASE Without(conf, f, all, c) = Bare(conf, c)
  BY <1>1, BareConf, SoleFits DEF Sole
<1>2. CASE /\ Registered(Without(conf, f, all, c)) # {}
           /\ Registered(conf) # {}
           /\ Without(conf, f, all, c).key = conf.key
           /\ \A g \in Registered(Without(conf, f, all, c)) :
                /\ g \in Registered(conf)
                /\ Without(conf, f, all, c).factors[g] = conf.factors[g]
  BY <1>2 DEF Fits
<1> QED
  BY <1>1, <1>2, WithoutConf

\* A step of one instance that leaves the file, does not write and takes nothing from
\* what the user may type.
LEMMA OneActs ==
  ASSUME KeysInv, AccountTypeOK, NEW p \in Procs, NEW m, mem' = [mem EXCEPT ![p] = m],
         keys' = keys, stale' = stale, Valid \subseteq Valid',
         current' \subseteq current \cup {p},
         p \in current' /\ ~stale => Fitting(m, Valid'),
         m.stage \notin {"rewriting", "writing"},
         \A q \in Procs : q # p /\ current = {q} => current' = {q} \/ keys # Torn
  PROVE  KeysInv'
<1> SUFFICES ASSUME ~stale
             PROVE  /\ IsConf(keys) => Fits(keys, Valid')
                    /\ \A q \in current' : Fitting(mem'[q], Valid')
                    /\ \A q \in Procs : InWrite(q)' => keys = Torn /\ current' = {q}
  BY DEF KeysInv, IsConf, Fits, Registered, Fitting
<1>1. mem'[p] = m /\ \A q \in Procs : q # p => mem'[q] = mem[q]
  BY DEF AccountTypeOK
<1>2. ASSUME NEW q \in current' PROVE Fitting(mem'[q], Valid')
  <2>1. CASE q = p
    BY <1>1, <1>2, <2>1
  <2>2. CASE q # p
    <3>1. q \in current /\ q \in Procs
      BY <2>2 DEF AccountTypeOK
    <3>2. Fitting(mem[q], Valid)
      BY <3>1 DEF KeysInv
    <3>3. mem'[q] = mem[q]
      BY <1>1, <2>2, <3>1
    <3> HIDE DEF Fitting
    <3> QED
      BY <3>2, <3>3, FittingMore
  <2> QED
    BY <2>1, <2>2
<1>3. IsConf(keys) => Fits(keys, Valid')
  BY FitsMore DEF KeysInv
<1>4. ASSUME NEW q \in Procs, InWrite(q)' PROVE keys = Torn /\ current' = {q}
  <2>1. q # p /\ InWrite(q)
    BY <1>1, <1>4 DEF InWrite
  <2> QED
    BY <2>1 DEF KeysInv
<1> QED
  BY <1>2, <1>3, <1>4

LEMMA KeysStep == TypeInv /\ KeysInv /\ [AccountNext]_accountVars => KeysInv'
<1> SUFFICES ASSUME TypeInv, KeysInv, [AccountNext]_accountVars PROVE KeysInv'
  OBVIOUS
<1>t. AccountTypeOK /\ \A p \in Procs : mem[p] \in Memories /\ MemoryOK(mem[p])
  BY DEF TypeInv, AccountTypeOK
<1>k. IsConf(keys) => keys \in Conf /\ keys # Torn
  BY <1>t, ConfIsFile DEF AccountTypeOK
<1>1. CASE UNCHANGED accountVars
  BY <1>1 DEF KeysInv, Fitting, Fits, Registered, IsConf, InWrite, Valid, accountVars, userVars, seenVars
\* Steps that leave the file and what the user was told.
<1>r. ASSUME NEW p \in Procs, NEW m, mem' = [mem EXCEPT ![p] = m],
             UNCHANGED <<keys, stale, told, asked, due, current>>,
             p \in current /\ ~stale => Fitting(m, Valid),
             m.stage \notin {"rewriting", "writing"}
      PROVE  KeysInv'
  <2>1. Valid' = Valid
    BY <1>r DEF Valid
  <2> QED
    BY <1>r, <1>t, <2>1, OneActs
<1>2. ASSUME NEW p \in Procs, Launch(p) PROVE KeysInv'
  <2> DEFINE m == [mem[p] EXCEPT !.stage = "out"]
  <2>1. mem' = [mem EXCEPT ![p] = m] /\ UNCHANGED <<keys, stale, told, asked, due, current>>
    BY <1>2 DEF Launch, userVars, seenVars
  <2>2. m.stage = "out"
    BY <1>t DEF Memories
  <2> HIDE DEF m
  <2>3. Fitting(m, Valid)
    BY <2>2 DEF Fitting, Knowing, Changing
  <2> QED
    BY <1>r, <2>1, <2>2, <2>3
<1>3. ASSUME NEW p \in Procs, NEW cred \in Creds, SignUp(p, cred) PROVE KeysInv'
  <2> DEFINE m == [mem[p] EXCEPT !.stage = "signup", !.cred = cred,
                   !.draft = [master |-> ops', key |-> cred, factors |-> NoFactors]]
  <2>1. /\ mem' = [mem EXCEPT ![p] = m] /\ UNCHANGED <<keys, stale, current>>
        /\ Valid \subseteq Valid'
    BY <1>3 DEF SignUp, Registers, Valid
  <2>2. m.stage = "signup"
    BY <1>t DEF Memories
  <2> HIDE DEF m
  <2>3. Fitting(m, Valid')
    BY <2>2 DEF Fitting, Knowing, Changing
  <2> QED
    BY <1>t, <2>1, <2>2, <2>3, OneActs
<1>5. ASSUME NEW p \in Procs, NEW cred \in Creds, SignIn(p, cred) PROVE KeysInv'
  <2> DEFINE m == [mem[p] EXCEPT !.stage = "deriving", !.cred = cred, !.draft = keys]
  <2>1. /\ mem' = [mem EXCEPT ![p] = m] /\ UNCHANGED <<keys, stale>> /\ Valid' = Valid
        /\ current' = current \cup {p} /\ IsConf(keys)
    BY <1>5 DEF SignIn, userVars, Valid
  <2>2. m.stage = "deriving" /\ m.draft = keys
    BY <1>t DEF Memories
  <2> HIDE DEF m
  <2>3. ~stale => Fitting(m, Valid')
    BY <2>1, <2>2 DEF KeysInv, Fitting, Knowing, Changing
  <2> QED
    BY <1>t, <1>k, <2>1, <2>2, <2>3, OneActs
<1>6. ASSUME NEW p \in Procs, SignInEnds(p) PROVE KeysInv'
  <2> DEFINE m == mem'[p]
             mIn == [mem[p] EXCEPT !.stage = "in", !.conf = mem[p].draft, !.draft = None]
             mHalf == [mem[p] EXCEPT !.stage = "half", !.draft = keys]
             mOut == [mem[p] EXCEPT !.stage = "out", !.draft = None]
  <2>1. mem[p].stage = "deriving" /\ mem[p].draft \in Conf /\ mem[p].cred \in Creds
    BY <1>6, <1>t DEF SignInEnds, At, MemoryOK, Knowing, Changing
  <2>2. /\ mem' = [mem EXCEPT ![p] = m] /\ UNCHANGED <<keys, told, asked, due, current, stale>>
        /\ \/ m = mIn /\ mem[p].draft.key = mem[p].cred
           \/ m = mHalf \/ m = Off \/ m = mOut
    BY <1>6, <1>t DEF SignInEnds, AccountTypeOK, userVars, seenVars
  <2>s. mIn.stage = "in" /\ mHalf.stage = "half" /\ mOut.stage = "out" /\ Off.stage = "off"
    BY <1>t DEF Memories, Off
  <2>c. mIn.conf = mem[p].draft /\ mIn.cred = mem[p].cred
    BY <1>t DEF Memories
  <2> HIDE DEF m, mIn, mHalf, mOut
  <2>3. CASE m.stage # "in"
    <3>1. m.stage \in {"half", "off", "out"}
      BY <2>2, <2>3, <2>s
    <3>2. Fitting(m, Valid)
      BY <3>1 DEF Fitting, Changing, Knowing
    <3> QED
      BY <1>r, <2>2, <3>1, <3>2
  <2>4. CASE m.stage = "in"
    <3>1. m = mIn /\ mem[p].draft.key = mem[p].cred
      BY <2>2, <2>4, <2>s
    <3>2. m.conf = mem[p].draft /\ m.cred = mem[p].cred
      BY <2>c, <3>1
    <3>3. p \in current /\ ~stale => Fits(mem[p].draft, Valid)
      BY <2>1 DEF KeysInv, Fitting
    <3>4. p \in current /\ ~stale => mem[p].cred \in Valid
      BY <2>1, <3>1, <3>3, NoneAssumption DEF Fits
    <3>5. p \in current /\ ~stale => Fitting(m, Valid)
      BY <2>4, <3>2, <3>3, <3>4 DEF Fitting, Changing
    <3> QED
      BY <1>r, <2>2, <2>4, <3>5
  <2> QED
    BY <2>3, <2>4
<1>7. ASSUME NEW p \in Procs, NEW f \in Factors, SharedSignIn(p, f) PROVE KeysInv'
  <2> DEFINE m == [mem[p] EXCEPT !.stage = "in", !.conf = keys, !.draft = None]
  <2>1. /\ keys \in Conf /\ mem[p].cred \in Creds /\ keys.factors[f] = mem[p].cred
        /\ IsConf(keys)
    BY <1>7, <1>k, <1>t DEF SharedSignIn, At, MemoryOK, Knowing
  <2>2. m.stage = "in" /\ m.conf = keys /\ m.cred = mem[p].cred
    BY <1>t DEF Memories
  <2>3. ~stale => Fits(keys, Valid) /\ mem[p].cred \in Valid
    BY <2>1, NoneAssumption DEF KeysInv, Fits, Registered
  <2>4. /\ mem' = [mem EXCEPT ![p] = m] /\ UNCHANGED <<keys, stale>> /\ Valid' = Valid
        /\ current' = current \cup {p}
    BY <1>7 DEF SharedSignIn, userVars, Valid
  <2> HIDE DEF m
  <2>5. ~stale => Fitting(m, Valid')
    BY <2>2, <2>3, <2>4 DEF Fitting, Changing
  <2> QED
    BY <1>t, <1>k, <2>1, <2>2, <2>4, <2>5, OneActs
\* A change of what is in memory begins.
<1>8. ASSUME NEW p \in Procs, NEW stage \in {"upgrading", "saving", "removing"}, NEW cred, NEW conf,
             NEW draft, Changes(p, stage, cred, conf, draft), Valid \subseteq Valid',
             ~stale /\ p \in current => cred \in Valid' /\ Fits(conf, Valid') /\ Fits(draft, Valid')
      PROVE  KeysInv'
  <2> DEFINE m == [stage |-> stage, cred |-> cred, conf |-> conf, draft |-> draft]
  <2>1. ~stale /\ p \in current => Fitting(m, Valid')
    BY <1>8 DEF Fitting
  <2>2. mem' = [mem EXCEPT ![p] = m] /\ UNCHANGED <<keys, stale, current>>
    BY <1>8 DEF Changes, seenVars
  <2>3. m.stage \notin {"rewriting", "writing"}
    OBVIOUS
  <2> HIDE DEF m
  <2> QED
    BY <1>t, <1>8, <2>1, <2>2, <2>3, OneActs
\* An instance that has the file as it is opens it with what the user may type.
<1>u. ASSUME NEW p \in Procs, At(p, "in")
      PROVE  /\ mem[p].conf \in Conf /\ mem[p].cred \in Creds
             /\ ~stale /\ p \in current => mem[p].cred \in Valid /\ Fits(mem[p].conf, Valid)
  <2>1. mem[p].conf \in Conf /\ mem[p].cred \in Creds
    BY <1>u, <1>t DEF At, MemoryOK, Knowing
  <2> QED
    BY <1>u, <2>1, ConfIsFile DEF At, KeysInv, Fitting, Knowing
<1>9. ASSUME NEW p \in Procs, NEW cred \in Creds, Upgrade(p, cred) PROVE KeysInv'
  <2> DEFINE conf == Bare(mem[p].conf, cred)
  <2>1. Changes(p, "upgrading", cred, conf, conf) /\ asked' = asked \cup {cred} /\ At(p, "in")
    BY <1>9 DEF Upgrade, Changes
  <2>2. Valid \subseteq Valid' /\ cred \in Valid'
    BY <2>1 DEF Changes, Valid
  <2>3. Fits(conf, Valid')
    BY <1>u, <2>1, <2>2, BareConf, SoleFits DEF Sole
  <2> HIDE DEF conf
  <2> QED
    BY <1>8, <2>1, <2>2, <2>3
<1>10. ASSUME NEW p \in Procs, NEW f \in Factors, SaveFactor(p, f) PROVE KeysInv'
  <2> DEFINE cred == mem[p].cred
             draft == Split(keys, f, cred)
  <2>1. /\ Changes(p, "saving", cred, mem[p].conf, draft) /\ asked' = asked /\ At(p, "in")
        /\ IsConf(keys) /\ keys \in Conf
    BY <1>10, <1>k DEF SaveFactor, Changes
  <2>2. Valid' = Valid
    BY <2>1 DEF Changes, Valid
  <2>3. ~stale /\ p \in current => Fits(draft, Valid)
    BY <1>u, <2>1, SplitFits DEF KeysInv
  <2> HIDE DEF draft
  <2> QED
    BY <1>8, <1>u, <2>1, <2>2, <2>3
<1>11. ASSUME NEW p \in Procs, NEW f \in Factors, NEW all \in BOOLEAN, RemoveFactor(p, f, all)
       PROVE  KeysInv'
  <2> DEFINE cred == mem[p].cred
             conf == Without(mem[p].conf, f, all, cred)
  <2>1. Changes(p, "removing", cred, conf, conf) /\ asked' = asked /\ At(p, "in")
    BY <1>11 DEF RemoveFactor, Changes
  <2>2. Valid' = Valid
    BY <2>1 DEF Changes, Valid
  <2>3. ~stale /\ p \in current => Fits(conf, Valid)
    BY <1>u, <2>1, WithoutFits
  <2> HIDE DEF conf
  <2> QED
    BY <1>8, <1>u, <2>1, <2>2, <2>3
\* The file is truncated, by the only instance that will write.
<1>12. ASSUME NEW p \in Procs, Open(p) PROVE KeysInv'
  <2> DEFINE s == IF Rewrites(p) THEN "rewriting" ELSE "writing"
             m == [mem[p] EXCEPT !.stage = s]
  <2>1. /\ mem' = [mem EXCEPT ![p] = m] /\ keys' = Torn /\ current' = {p}
        /\ \/ Rewrites(p) /\ s = "rewriting"
           \/ ~Rewrites(p) /\ s = "writing" /\ mem[p].stage \in {"saving", "removing"}
        /\ Rewrites(p) => Valid' = {mem[p].cred}
        /\ ~Rewrites(p) => Valid' = Valid
        /\ stale' = (stale \/ (~Rewrites(p) /\ p \notin current) \/ \E q \in Procs \ {p} : InWrite(q))
    BY <1>12, NoneAssumption DEF Open, Valid
  <2>s. s \in Stages
    BY DEF Stages
  <2> HIDE DEF s
  <2>2. m.stage = s /\ m.conf = mem[p].conf /\ m.draft = mem[p].draft /\ m.cred = mem[p].cred
    BY <2>s, StageOf
  <2> HIDE DEF m
  <2>3. CASE stale'
    BY <2>3 DEF KeysInv
  <2>4. CASE ~stale'
    <3>1. /\ ~stale /\ (Rewrites(p) \/ p \in current)
          /\ \A q \in Procs : q # p => ~InWrite(q)
      BY <2>1, <2>4, Zenon
    <3>2. mem'[p] = m /\ \A q \in Procs : q # p => mem'[q] = mem[q]
      BY <1>t, <2>1 DEF AccountTypeOK
    <3>3. Fitting(m, Valid')
      <4>1. CASE Rewrites(p)
        <5>1. Sole(mem[p].draft, mem[p].cred) /\ mem[p].conf \in {None, mem[p].draft}
          BY <1>t, <4>1 DEF MemoryOK, Rewrites, Rewriting
        <5>2. Fits(mem[p].draft, Valid') /\ mem[p].cred \in Valid'
          BY <2>1, <4>1, <5>1, SoleFits
        <5> QED
          BY <2>2, <5>1, <5>2 DEF Fitting
      <4>2. CASE ~Rewrites(p)
        <5>1. mem[p].stage \in {"saving", "removing"} /\ Fitting(mem[p], Valid)
          BY <2>1, <3>1, <4>2 DEF KeysInv
        <5>2. /\ mem[p].cred \in Valid /\ (mem[p].conf # None => Fits(mem[p].conf, Valid))
              /\ Fits(mem[p].draft, Valid)
          BY <5>1 DEF Fitting, Knowing, Changing
        <5>3. Valid' = Valid
          BY <2>1, <4>2
        <5> QED
          BY <2>2, <5>2, <5>3 DEF Fitting
      <4> QED
        BY <4>1, <4>2
    <3>4. ~IsConf(keys')
      BY <2>1 DEF IsConf
    <3>5. \A q \in Procs : InWrite(q)' => q = p
      BY <3>1, <3>2 DEF InWrite
    <3>6. \A q \in current' : Fitting(mem'[q], Valid')
      BY <2>1, <3>2, <3>3
    <3> QED
      BY <2>1, <3>4, <3>5, <3>6 DEF KeysInv, IsConf, Fitting, Fits, Registered
  <2> QED
    BY <2>3, <2>4
<1>13. ASSUME NEW p \in Procs, Written(p) PROVE KeysInv'
  <2> DEFINE s == IF mem[p].stage = "rewriting" THEN "reporting" ELSE "in"
             m == [mem[p] EXCEPT !.stage = s, !.conf = mem[p].draft, !.draft = None]
  <2>1. /\ mem' = [mem EXCEPT ![p] = m] /\ InWrite(p) /\ UNCHANGED <<current, stale>> /\ Valid' = Valid
        /\ keys' \in {mem[p].draft} \cup (IF keys = Torn THEN {} ELSE {Torn})
    BY <1>13, <1>t DEF Written, userVars, Valid, Memories
  <2>2. mem[p].draft \in Conf
    BY <1>t, <2>1 DEF MemoryOK, InWrite, Changing
  <2>3. m.stage \in {"reporting", "in"} /\ m.conf = mem[p].draft /\ m.cred = mem[p].cred
    BY <1>t DEF Memories
  <2> HIDE DEF m, s
  <2>4. CASE stale
    BY <2>1, <2>4 DEF KeysInv
  <2>5. CASE ~stale
    <3>1. keys = Torn /\ current = {p} /\ Fitting(mem[p], Valid)
      BY <2>1, <2>5 DEF KeysInv
    <3>2. keys' = mem[p].draft
      BY <2>1, <3>1
    <3>3. mem[p].cred \in Valid /\ Fits(mem[p].draft, Valid)
      BY <2>1, <3>1 DEF Fitting, InWrite, Knowing, Changing
    <3>4. Fitting(m, Valid') /\ Fits(keys', Valid')
      BY <2>1, <2>3, <3>2, <3>3 DEF Fitting, Changing
    <3>5. mem'[p] = m /\ \A q \in Procs : q # p => mem'[q] = mem[q]
      BY <1>t, <2>1 DEF AccountTypeOK
    <3>6. \A q \in Procs : ~InWrite(q)'
      <4> SUFFICES ASSUME NEW q \in Procs, InWrite(q)' PROVE FALSE
        OBVIOUS
      <4>1. q # p /\ InWrite(q)
        BY <2>3, <3>5 DEF InWrite
      <4> QED
        BY <2>5, <3>1, <4>1 DEF KeysInv
    <3>7. \A q \in current' : Fitting(mem'[q], Valid')
      BY <2>1, <3>1, <3>4, <3>5
    <3> QED
      BY <3>4, <3>6, <3>7 DEF KeysInv, Fits, Registered, Fitting
  <2> QED
    BY <2>4, <2>5
<1>14. ASSUME NEW p \in Procs, Reports(p) PROVE KeysInv'
  <2> DEFINE m == [mem[p] EXCEPT !.stage = "in"]
  <2>1. /\ mem' = [mem EXCEPT ![p] = m] /\ mem[p].stage = "reporting" /\ UNCHANGED <<keys, stale, current>>
    BY <1>14 DEF Reports, At, seenVars
  <2>2. mem[p].cred \in Creds /\ mem[p].cred # None
    BY <1>t, <2>1, NoneAssumption DEF MemoryOK, Knowing
  <2>3. Valid \subseteq Valid'
    <3>1. CASE due = p
      <4>1. told' = mem[p].cred /\ asked' = asked \ {mem[p].cred} /\ due' = None
        BY <1>14, <3>1 DEF Reports
      <4>2. Valid = asked
        BY <3>1, NoneAssumption DEF Valid
      <4>3. Valid' = (asked \ {mem[p].cred}) \cup {mem[p].cred}
        BY <2>2, <4>1 DEF Valid
      <4> QED
        BY <4>2, <4>3
    <3>2. CASE due # p
      BY <1>14, <3>2 DEF Reports, Valid, userVars
    <3> QED
      BY <3>1, <3>2
  <2>4. m.stage = "in" /\ m.conf = mem[p].conf /\ m.cred = mem[p].cred
    BY <1>t DEF Memories
  <2> HIDE DEF m
  <2>5. p \in current /\ ~stale => Fitting(m, Valid)
    BY <2>1, <2>4 DEF KeysInv, Fitting, Knowing, Changing
  <2>6. p \in current /\ ~stale => Fitting(m, Valid')
    BY <2>3, <2>5, FittingMore
  <2> QED
    BY <1>t, <2>1, <2>3, <2>4, <2>6, OneActs
<1>15. ASSUME NEW p \in Procs, SaveFails(p) PROVE KeysInv'
  <2> DEFINE s == IF mem[p].conf = None THEN "astray" ELSE "in"
             m == [mem[p] EXCEPT !.stage = s, !.draft = None]
  <2>1. /\ mem' = [mem EXCEPT ![p] = m] /\ mem[p].stage \in Changing
        /\ UNCHANGED <<keys, told, asked, due, current, stale>>
    BY <1>15, <1>t DEF SaveFails, Changing, userVars, seenVars, Memories
  <2>2. /\ m.stage = s /\ m.conf = mem[p].conf /\ m.cred = mem[p].cred
        /\ s = "astray" \/ (s = "in" /\ mem[p].conf # None)
    BY <1>t DEF Memories
  <2> HIDE DEF m, s
  <2>3. mem[p].stage = "signup" => mem[p].conf = None
    BY <1>t DEF MemoryOK, Apart
  <2>4. p \in current /\ ~stale => Fitting(m, Valid)
    <3>1. CASE s = "astray"
      BY <2>2, <3>1 DEF Fitting, Knowing, Changing
    <3>2. CASE s = "in" /\ mem[p].stage \in Knowing
      BY <2>2, <3>2 DEF KeysInv, Fitting, Changing
    <3>3. s = "in" => mem[p].stage \in Knowing
      BY <2>1, <2>2, <2>3 DEF Changing, Knowing
    <3> QED
      BY <2>2, <3>1, <3>2, <3>3
  <2> QED
    BY <1>r, <2>1, <2>2, <2>4
<1>o. \A V : Fitting(Off, V)
  BY DEF Off, Fitting, Changing, Knowing
<1>16. ASSUME NEW p \in Procs, Leave(p) \/ Crash(p) PROVE KeysInv'
  <2>1. /\ mem' = [mem EXCEPT ![p] = Off] /\ current' = current \ {p} /\ Valid' = Valid
        /\ UNCHANGED <<keys, stale>>
    BY <1>16 DEF Leave, Crash, Ends, userVars, Valid
  <2>2. Off.stage \notin {"rewriting", "writing"}
    BY DEF Off
  <2> QED
    BY <1>t, <1>o, <2>1, <2>2, OneActs
<1> QED
  BY <1>1, <1>2, <1>3, <1>5, <1>6, <1>7, <1>9, <1>10, <1>11, <1>12, <1>13, <1>14, <1>15, <1>16
  DEF AccountNext, Works, FirstLogin, Login, SharedLogin, Offered, Registered

LEMMA AccountFits == AccountInit => KeysInv
BY NoneAssumption DEF AccountInit, KeysInv, IsConf, InWrite, Off

LEMMA KeysInvOpens == KeysInv => KeysOpen
BY DEF KeysInv, KeysOpen, Fits

\* KeysOpen: the file opens with the credentials the user was told last or asked for
\* since, and with no other, wherever a write fails or a process ends.
THEOREM KeysAlwaysOpen == AccountSpec => []KeysOpen
BY AccountStarts, AccountFits, KeysInvOpens, TypeStep, KeysStep, PTL DEF AccountSpec

-----------------------------------------------------------------------------
(* The master key stays                                                    *)

Has(c, k) == c \in Conf => c.master = k

OneMaster(k) ==
  /\ Has(keys, k) /\ master \in {0, k}
  /\ \A p \in Procs : Has(mem[p].conf, k) /\ Has(mem[p].draft, k)

\* Who signs up is alone, and there is no file yet.
Alone ==
  \A p \in Procs : At(p, "signup") =>
    keys = None /\ \A q \in Procs : At(q, "signup") => q = p

\* Nobody has read a file before there was one; and unless two instances signed
\* up at once, all that is in the file and in the memories is of one master key.
MasterInv ==
  /\ keys = None => /\ master = 0
                    /\ \A p \in Procs : mem[p].conf = None /\ (mem[p].draft # None => At(p, "signup"))
  /\ keys \in Conf => keys.master = master
  /\ ~raced => Alone /\ \E k : OneMaster(k)

SameMaster == master # 0 /\ keys' \in Conf /\ ~raced' => keys'.master = master

\* What m, the memory of p after a step, has of the master key k.
Keeps(m, k) == Has(keys', k) /\ master' \in {0, k} /\ Has(m.conf, k) /\ Has(m.draft, k)

\* A step of one instance that signs up to nothing: what it has then is of the key that
\* all had, and if there was no file it is the one that signed up.
OldStep(p, m) ==
  /\ mem' = [mem EXCEPT ![p] = m]
  /\ m.stage # "signup" /\ (m.stage = "off" => m = Off)
  /\ raced' = raced
  /\ keys' = keys \/ (keys' # None /\ (keys = None => At(p, "signup")))
  /\ keys' = None => m.conf = None /\ m.draft = None /\ master' = master
  /\ keys' \in Conf => keys'.master = master'
  /\ \A k : OneMaster(k) => Keeps(m, k)

\* And one that makes a new master key.
NewStep(p, m) ==
  /\ mem' = [mem EXCEPT ![p] = m]
  /\ m.stage = "signup" /\ m.conf = None /\ Has(m.draft, ops')
  /\ keys' = keys /\ master' = master /\ keys = None
  /\ raced' = (raced \/ \E q \in Procs \ {p} : At(q, "signup"))

LEMMA OneStep ==
  ASSUME TypeInv, MasterInv, NEW p \in Procs, Launch(p) \/ Works(p)
  PROVE  \E m : OldStep(p, m) \/ NewStep(p, m)
<1>t. /\ mem[p] \in Memories /\ MemoryOK(mem[p]) /\ keys \in Conf \cup {None, Torn}
  BY DEF TypeInv, AccountTypeOK
<1>n. \A k : Has(None, k) /\ Has(Torn, k)
  BY ConfIsFile DEF Has
<1>h. \A k : OneMaster(k) =>
        /\ Has(keys, k) /\ master \in {0, k}
        /\ Has(mem[p].conf, k) /\ Has(mem[p].draft, k)
  BY DEF OneMaster
<1>d. keys = None => mem[p].conf = None /\ (mem[p].draft # None => At(p, "signup"))
  BY DEF MasterInv
<1>a. keys \in Conf => keys.master = master
  BY DEF MasterInv
\* It keeps, reads or drops what it has, and leaves the file.
<1>r. ASSUME NEW m, mem' = [mem EXCEPT ![p] = m], UNCHANGED <<keys, master, raced>>,
             m.stage # "signup", m.stage = "off" => m = Off, ~At(p, "signup") \/ m.draft = None,
             m.conf \in {mem[p].conf, keys, None} \/ (m.conf = mem[p].draft /\ ~At(p, "signup")),
             m.draft \in {mem[p].draft, keys, None}
      PROVE  \E x : OldStep(p, x) \/ NewStep(p, x)
  <2>1. keys = None => m.conf = None /\ m.draft = None
    BY <1>d, <1>r
  <2>2. \A k : OneMaster(k) => Keeps(m, k)
    BY <1>h, <1>n, <1>r DEF Keeps
  <2>3. OldStep(p, m)
    BY <1>a, <1>r, <2>1, <2>2 DEF OldStep
  <2> QED
    BY <2>3
<1>1. CASE Launch(p)
  <2> DEFINE m == [mem[p] EXCEPT !.stage = "out"]
  <2>1. m.stage = "out" /\ m.conf = mem[p].conf /\ m.draft = mem[p].draft
    BY <1>t DEF Memories
  <2>2. mem' = [mem EXCEPT ![p] = m] /\ UNCHANGED <<keys, master, raced>> /\ At(p, "off")
    BY <1>1 DEF Launch, seenVars
  <2> HIDE DEF m
  <2> QED
    BY <1>r, <2>1, <2>2 DEF At
<1>2. ASSUME NEW cred \in Creds, SignUp(p, cred) PROVE \E m : OldStep(p, m) \/ NewStep(p, m)
  <2> DEFINE conf == [master |-> ops', key |-> cred, factors |-> NoFactors]
             m == [mem[p] EXCEPT !.stage = "signup", !.cred = cred, !.draft = conf]
  <2>1. m.stage = "signup" /\ m.conf = mem[p].conf /\ m.draft = conf /\ conf.master = ops'
    BY <1>t DEF Memories
  <2>2. /\ mem' = [mem EXCEPT ![p] = m] /\ keys' = keys /\ master' = master /\ keys = None
        /\ raced' = (raced \/ \E q \in Procs \ {p} : At(q, "signup"))
    BY <1>2 DEF SignUp, Registers
  <2> HIDE DEF m, conf
  <2>3. NewStep(p, m)
    BY <1>d, <2>1, <2>2 DEF NewStep, Has
  <2> QED
    BY <2>3
<1>4. ASSUME NEW cred \in Creds, SignIn(p, cred) PROVE \E m : OldStep(p, m) \/ NewStep(p, m)
  <2> DEFINE m == [mem[p] EXCEPT !.stage = "deriving", !.cred = cred, !.draft = keys]
  <2>1. m.stage = "deriving" /\ m.conf = mem[p].conf /\ m.draft = keys
    BY <1>t DEF Memories
  <2>2. mem' = [mem EXCEPT ![p] = m] /\ UNCHANGED <<keys, master, raced>> /\ At(p, "out")
    BY <1>4 DEF SignIn
  <2> HIDE DEF m
  <2> QED
    BY <1>r, <2>1, <2>2 DEF At
<1>o. ASSUME mem' = [mem EXCEPT ![p] = Off], UNCHANGED <<keys, master, raced>>
      PROVE  \E m : OldStep(p, m) \/ NewStep(p, m)
  <2>1. Off.stage = "off" /\ Off.conf = None /\ Off.draft = None
    BY DEF Off
  <2> QED
    BY <1>r, <1>o, <2>1
<1>5. CASE SignInEnds(p)
  <2> DEFINE mIn == [mem[p] EXCEPT !.stage = "in", !.conf = mem[p].draft, !.draft = None]
             mHalf == [mem[p] EXCEPT !.stage = "half", !.draft = keys]
             mOut == [mem[p] EXCEPT !.stage = "out", !.draft = None]
             m == mem'[p]
  <2>1. /\ mem' = [mem EXCEPT ![p] = m] /\ UNCHANGED <<keys, master, raced>> /\ At(p, "deriving")
        /\ m \in {mIn, mHalf, Off, mOut}
    BY <1>5 DEF SignInEnds, TypeInv, AccountTypeOK, seenVars
  <2>2. /\ mIn.stage = "in" /\ mHalf.stage = "half" /\ mOut.stage = "out"
        /\ mIn.conf = mem[p].draft /\ mHalf.conf = mem[p].conf /\ mOut.conf = mem[p].conf
        /\ mIn.draft = None /\ mHalf.draft = keys /\ mOut.draft = None
    BY <1>t DEF Memories
  <2> HIDE DEF m, mIn, mHalf, mOut
  <2>3. CASE m = Off
    BY <1>o, <2>1, <2>3
  <2>4. CASE m \in {mIn, mHalf, mOut}
    BY <1>r, <2>1, <2>2, <2>4 DEF At
  <2> QED
    BY <2>1, <2>3, <2>4
<1>6. ASSUME NEW f, SharedSignIn(p, f) PROVE \E m : OldStep(p, m) \/ NewStep(p, m)
  <2> DEFINE m == [mem[p] EXCEPT !.stage = "in", !.conf = keys, !.draft = None]
  <2>1. m.stage = "in" /\ m.conf = keys /\ m.draft = None
    BY <1>t DEF Memories
  <2>2. mem' = [mem EXCEPT ![p] = m] /\ UNCHANGED <<keys, master, raced>>
    BY <1>6 DEF SharedSignIn
  <2> HIDE DEF m
  <2> QED
    BY <1>r, <2>1, <2>2
<1>7. ASSUME NEW stage \in {"upgrading", "saving", "removing"}, NEW cred, NEW conf, NEW draft,
             Changes(p, stage, cred, conf, draft),
             \A k : OneMaster(k) => Has(conf, k) /\ Has(draft, k)
      PROVE  \E m : OldStep(p, m) \/ NewStep(p, m)
  <2> DEFINE m == [stage |-> stage, cred |-> cred, conf |-> conf, draft |-> draft]
  <2>1. m.stage \notin {"off", "signup"} /\ m.conf = conf /\ m.draft = draft
    OBVIOUS
  <2>2. mem' = [mem EXCEPT ![p] = m] /\ UNCHANGED <<keys, master, raced>> /\ At(p, "in")
    BY <1>7 DEF Changes, seenVars
  <2>3. keys # None
    BY <1>t, <1>d, <2>2, ConfIsFile DEF At, MemoryOK, Knowing
  <2> HIDE DEF m
  <2>4. \A k : OneMaster(k) => Keeps(m, k)
    BY <1>7, <1>h, <2>1, <2>2 DEF Keeps
  <2>5. OldStep(p, m)
    BY <1>a, <2>1, <2>2, <2>3, <2>4 DEF OldStep
  <2> QED
    BY <2>5
<1>in. At(p, "in") => mem[p].conf \in Conf /\ mem[p].cred \in Creds
  BY <1>t DEF At, MemoryOK, Knowing
<1>8. ASSUME NEW cred \in Creds, Upgrade(p, cred) PROVE \E m : OldStep(p, m) \/ NewStep(p, m)
  <2>1. mem[p].conf \in Conf
    BY <1>8, <1>in DEF Upgrade, Changes
  <2>2. \A k : OneMaster(k) => Has(Bare(mem[p].conf, cred), k)
    BY <1>h, <2>1, BareConf DEF Has
  <2> QED
    BY <1>7, <1>8, <2>2 DEF Upgrade
<1>9. ASSUME NEW f \in Factors, SaveFactor(p, f) PROVE \E m : OldStep(p, m) \/ NewStep(p, m)
  <2> DEFINE cred == mem[p].cred
  <2>1. /\ Changes(p, "saving", cred, mem[p].conf, Split(keys, f, cred))
        /\ keys \in Conf /\ cred \in Creds
    BY <1>9, <1>t, <1>in, ConfIsFile DEF SaveFactor, Changes
  <2>2. \A k : OneMaster(k) => Has(mem[p].conf, k) /\ Has(Split(keys, f, cred), k)
    BY <1>h, <2>1, SplitConf DEF Has
  <2> QED
    BY <1>7, <2>1, <2>2
<1>10. ASSUME NEW f \in Factors, NEW all \in BOOLEAN, RemoveFactor(p, f, all)
       PROVE  \E m : OldStep(p, m) \/ NewStep(p, m)
  <2> DEFINE cred == mem[p].cred
             conf == Without(mem[p].conf, f, all, cred)
  <2>1. /\ Changes(p, "removing", cred, conf, conf)
        /\ mem[p].conf \in Conf /\ cred \in Creds
    BY <1>10, <1>in DEF RemoveFactor, Changes
  <2>2. conf.master = mem[p].conf.master
    BY <2>1, WithoutConf
  <2>3. \A k : OneMaster(k) => Has(conf, k)
    BY <1>h, <2>1, <2>2 DEF Has
  <2> QED
    BY <1>7, <2>1, <2>3
<1>11. CASE Open(p)
  <2> DEFINE s == IF Rewrites(p) THEN "rewriting" ELSE "writing"
             m == [mem[p] EXCEPT !.stage = s]
  <2>1. /\ mem' = [mem EXCEPT ![p] = m] /\ keys' = Torn /\ UNCHANGED <<master, raced>>
        /\ s \in {"rewriting", "writing"}
        /\ mem[p].stage \in {"signup", "upgrading", "saving", "removing"}
    BY <1>11 DEF Open, Rewrites
  <2>s. s \in Stages
    BY DEF Stages
  <2> HIDE DEF s
  <2>2. m.stage = s /\ m.conf = mem[p].conf /\ m.draft = mem[p].draft
    BY <2>s, StageOf
  <2> HIDE DEF m
  <2>3. keys' # None /\ keys' \notin Conf
    BY <2>1, ConfIsFile, NoneAssumption
  <2>4. keys = None => At(p, "signup")
    BY <1>t, <1>d, <2>1, ConfIsFile DEF MemoryOK, Changing
  <2>5. \A k : OneMaster(k) => Keeps(m, k)
    BY <1>h, <1>n, <2>1, <2>2 DEF Keeps
  <2>6. OldStep(p, m)
    BY <2>1, <2>2, <2>3, <2>4, <2>5 DEF OldStep
  <2> QED
    BY <2>6
<1>12. CASE Written(p)
  <2> DEFINE s == IF mem[p].stage = "rewriting" THEN "reporting" ELSE "in"
             m == [mem[p] EXCEPT !.stage = s, !.conf = mem[p].draft, !.draft = None]
  <2>1. /\ mem' = [mem EXCEPT ![p] = m] /\ mem[p].stage \in {"rewriting", "writing"} /\ raced' = raced
        /\ \/ keys' = Torn /\ master' = master
           \/ keys' = mem[p].draft /\ (keys' # Torn => master' = mem[p].draft.master)
    BY <1>12, <1>t DEF Written, InWrite, Memories
  <2>2. mem[p].draft \in Conf
    BY <1>t, <2>1 DEF MemoryOK, Changing
  <2>3. m.stage \in {"reporting", "in"} /\ m.conf = mem[p].draft /\ m.draft = None
    BY <1>t DEF Memories
  <2> HIDE DEF m, s
  <2>4. keys # None /\ keys' # None
    BY <1>d, <2>1, <2>2, ConfIsFile, NoneAssumption DEF At
  <2>5. keys' \in Conf => keys'.master = master'
    BY <2>1, ConfIsFile
  <2>6. \A k : OneMaster(k) => Keeps(m, k)
    BY <1>h, <1>n, <2>1, <2>2, <2>3, ConfIsFile DEF Keeps, Has
  <2>7. OldStep(p, m)
    BY <2>1, <2>3, <2>4, <2>5, <2>6 DEF OldStep
  <2> QED
    BY <2>7
<1>13. CASE Reports(p)
  <2> DEFINE m == [mem[p] EXCEPT !.stage = "in"]
  <2>1. m.stage = "in" /\ m.conf = mem[p].conf /\ m.draft = mem[p].draft
    BY <1>t DEF Memories
  <2>2. mem' = [mem EXCEPT ![p] = m] /\ UNCHANGED <<keys, master, raced>> /\ At(p, "reporting")
    BY <1>13 DEF Reports, seenVars
  <2> HIDE DEF m
  <2> QED
    BY <1>r, <2>1, <2>2 DEF At
<1>14. CASE SaveFails(p)
  <2> DEFINE s == IF mem[p].conf = None THEN "astray" ELSE "in"
             m == [mem[p] EXCEPT !.stage = s, !.draft = None]
  <2>1. m.stage \in {"astray", "in"} /\ m.conf = mem[p].conf /\ m.draft = None
    BY <1>t DEF Memories
  <2>2. mem' = [mem EXCEPT ![p] = m] /\ UNCHANGED <<keys, master, raced>>
    BY <1>14 DEF SaveFails, seenVars
  <2> HIDE DEF m, s
  <2> QED
    BY <1>r, <2>1, <2>2
<1>15. CASE Leave(p) \/ Crash(p)
  BY <1>o, <1>15 DEF Leave, Crash, Ends
<1> QED
  BY <1>1, <1>2, <1>4, <1>5, <1>6, <1>8, <1>9, <1>10, <1>11, <1>12, <1>13, <1>14, <1>15
  DEF Works, FirstLogin, Login, SharedLogin

LEMMA OldKeeps ==
  ASSUME TypeInv, MasterInv, NEW p \in Procs, NEW m, OldStep(p, m)
  PROVE  MasterInv' /\ SameMaster
<1>1. mem'[p] = m /\ \A q \in Procs : q # p => mem'[q] = mem[q]
  BY DEF OldStep, TypeInv, AccountTypeOK
<1>2. ASSUME keys' = None
      PROVE  /\ master' = 0
             /\ \A q \in Procs : mem'[q].conf = None /\ (mem'[q].draft # None => At(q, "signup")')
  BY <1>1, <1>2 DEF MasterInv, OldStep, At
<1>3. ASSUME ~raced' PROVE Alone'
  <2> SUFFICES ASSUME NEW q \in Procs, mem'[q].stage = "signup"
               PROVE  keys' = None /\ \A r \in Procs : mem'[r].stage = "signup" => r = q
    BY DEF Alone, At
  <2>1. q # p /\ At(q, "signup") /\ Alone
    BY <1>1, <1>3 DEF At, MasterInv, OldStep
  <2>2. keys = None /\ ~At(p, "signup")
    BY <2>1 DEF Alone
  <2> QED
    BY <1>1, <2>1, <2>2 DEF Alone, At, OldStep
<1>4. ASSUME ~raced' PROVE (\E k : OneMaster(k))' /\ SameMaster
  <2>1. PICK k : OneMaster(k)
    BY <1>4 DEF MasterInv, OldStep
  <2>2. Has(keys', k) /\ master' \in {0, k} /\ Has(m.conf, k) /\ Has(m.draft, k)
    BY <2>1 DEF OldStep, Keeps
  <2>3. \A q \in Procs : Has(mem'[q].conf, k) /\ Has(mem'[q].draft, k)
    BY <1>1, <2>1, <2>2 DEF OneMaster
  <2>4. master \in {0, k}
    BY <2>1 DEF OneMaster
  <2>5. OneMaster(k)'
    BY <2>2, <2>3 DEF OneMaster, Has
  <2> QED
    BY <2>2, <2>4, <2>5 DEF Has, SameMaster
<1> QED
  BY <1>2, <1>3, <1>4 DEF MasterInv, SameMaster, OldStep

LEMMA NewKeeps ==
  ASSUME TypeInv, MasterInv, NEW p \in Procs, NEW m, NewStep(p, m)
  PROVE  MasterInv' /\ SameMaster
<1>1. mem'[p] = m /\ \A q \in Procs : q # p => mem'[q] = mem[q]
  BY DEF NewStep, TypeInv, AccountTypeOK
<1>2. /\ keys' = None /\ master' = 0 /\ master = 0
      /\ \A q \in Procs : mem'[q].conf = None /\ (mem'[q].draft # None => At(q, "signup")')
  BY <1>1 DEF MasterInv, NewStep, At
<1>3. ASSUME ~raced' PROVE \A q \in Procs : q # p => ~At(q, "signup") /\ mem[q].draft = None
  <2>1. ~\E q \in Procs \ {p} : At(q, "signup")
    BY <1>3, Zenon DEF NewStep
  <2> QED
    BY <2>1 DEF MasterInv, NewStep
<1>4. ~raced' => Alone'
  BY <1>1, <1>2, <1>3 DEF Alone, At
<1>5. ASSUME ~raced' PROVE (\E k : OneMaster(k))'
  <2>1. PICK k : k = ops'
    OBVIOUS
  <2>2. Has(None, k) /\ Has(m.draft, k)
    BY <2>1, ConfIsFile DEF Has, NewStep
  <2>3. \A q \in Procs : Has(mem'[q].conf, k) /\ Has(mem'[q].draft, k)
    BY <1>1, <1>2, <1>3, <1>5, <2>2
  <2>4. OneMaster(k)'
    BY <1>2, <2>2, <2>3 DEF OneMaster, Has
  <2> QED
    BY <2>4
<1> QED
  BY <1>2, <1>4, <1>5, ConfIsFile DEF MasterInv, SameMaster

LEMMA MasterStep ==
  TypeInv /\ MasterInv /\ [AccountNext]_accountVars => MasterInv' /\ SameMaster
<1> SUFFICES ASSUME TypeInv, MasterInv, [AccountNext]_accountVars
             PROVE  MasterInv' /\ SameMaster
  OBVIOUS
<1>1. CASE UNCHANGED accountVars
  BY <1>1 DEF MasterInv, Alone, At, OneMaster, Has, SameMaster, accountVars, userVars, seenVars
<1>2. ASSUME NEW p \in Procs, Launch(p) \/ Works(p) PROVE MasterInv' /\ SameMaster
  BY <1>2, OneStep, OldKeeps, NewKeeps
<1> QED
  BY <1>1, <1>2 DEF AccountNext

LEMMA MasterStarts == AccountInit => MasterInv
<1> SUFFICES ASSUME AccountInit PROVE MasterInv
  OBVIOUS
<1>1. \A p \in Procs : mem[p].conf = None /\ mem[p].draft = None /\ ~At(p, "signup")
  BY DEF AccountInit, Off, At
<1>2. keys = None /\ master = 0 /\ None \notin Conf
  BY ConfIsFile DEF AccountInit
<1>3. OneMaster(0) /\ Alone
  BY <1>1, <1>2 DEF OneMaster, Has, Alone
<1> QED
  BY <1>1, <1>2, <1>3 DEF MasterInv

\* MasterKept: once there is an account its master key stays, whatever is
\* changed, fails or crashes, unless two instances signed up at once.
THEOREM MasterAlwaysKept == AccountSpec => MasterKept
<1>1. TypeInv /\ MasterInv /\ [AccountNext]_accountVars =>
        [IsConf(keys') /\ master # 0 /\ ~raced' => keys'.master = master]_accountVars
  <2> SUFFICES ASSUME TypeInv, MasterInv, [AccountNext]_accountVars,
                      IsConf(keys'), master # 0, ~raced'
               PROVE  keys'.master = master
    OBVIOUS
  <2>1. TypeInv'
    BY TypeStep
  <2>2. keys' \in Conf
    BY <2>1, ConfIsFile DEF TypeInv, AccountTypeOK
  <2> QED
    BY <2>2, MasterStep DEF SameMaster
<1> QED
  BY <1>1, AccountStarts, MasterStarts, TypeStep, MasterStep, PTL DEF AccountSpec, MasterKept

-----------------------------------------------------------------------------
(* The account with secrez-migrate                                         *)

\* An instance that is off has nothing in memory.
OffInv == \A p \in Procs : At(p, "off") => mem[p] = Off

LEMMA OffStep ==
  ASSUME TypeInv, MasterInv, OffInv, [AccountNext]_accountVars
  PROVE  OffInv'
<1>1. CASE UNCHANGED accountVars
  BY <1>1 DEF accountVars, OffInv, At
<1>2. ASSUME NEW p \in Procs, Launch(p) \/ Works(p) PROVE OffInv'
  <2>1. PICK m : mem' = [mem EXCEPT ![p] = m] /\ (m.stage = "off" => m = Off)
    BY <1>2, OneStep DEF OldStep, NewStep
  <2> QED
    BY <2>1 DEF OffInv, At, TypeInv, AccountTypeOK
<1> QED
  BY <1>1, <1>2 DEF AccountNext

\* Once there is a file all that is in it and in the memories stays of one master key.
Settled(k) == keys # None /\ OneMaster(k)

LEMMA SettledStep ==
  ASSUME TypeInv, MasterInv, NEW k, Settled(k), [AccountNext]_accountVars
  PROVE  Settled(k)'
<1>1. CASE UNCHANGED accountVars
  BY <1>1 DEF accountVars, seenVars, Settled, OneMaster, Has
<1>2. ASSUME NEW p \in Procs, Launch(p) \/ Works(p) PROVE Settled(k)'
  <2>1. PICK m : OldStep(p, m)
    BY <1>2, OneStep DEF NewStep, Settled
  <2>2. /\ mem' = [mem EXCEPT ![p] = m] /\ keys' # None
        /\ Has(keys', k) /\ master' \in {0, k} /\ Has(m.conf, k) /\ Has(m.draft, k)
    BY <2>1 DEF OldStep, Settled, Keeps
  <2>3. mem'[p] = m /\ \A q \in Procs : q # p => mem'[q] = mem[q]
    BY <2>2 DEF TypeInv, AccountTypeOK
  <2> QED
    BY <2>2, <2>3 DEF Settled, OneMaster, Has
<1> QED
  BY <1>1, <1>2 DEF AccountNext

\* What a step of secrez-migrate does to the account: nothing runs; it signs up in its
\* working folder, it removes the keys, or it puts its own where there are none.
Migrated ==
  /\ \A p \in Procs : mem[p] = Off
  /\ UNCHANGED <<mem, current, stale, raced>>
  /\ ops' \in 0..MaxOps /\ trouble' \in 0..MaxTrouble
  /\ \/ UNCHANGED <<keys, userVars, master>>
     \/ keys' = None /\ master' = 0 /\ UNCHANGED userVars
     \/ /\ keys = None /\ made \in Masters
        /\ told' = Mine /\ asked' = {} /\ due' = None /\ master' = made
        /\ keys' = [master |-> made, key |-> Mine, factors |-> NoFactors]

AccountInv == TypeInv /\ KeysInv /\ MasterInv /\ OffInv

LEMMA OffFits == \A V : Fitting(Off, V)
BY DEF Off, Fitting, Changing, Knowing

LEMMA MigratedKeeps ==
  ASSUME AccountInv, Migrated
  PROVE  AccountInv' /\ SameMaster
<1>t. AccountTypeOK /\ MaxOps \in Nat
  BY AccountAssumption DEF AccountInv, TypeInv
<1>1. /\ \/ UNCHANGED <<keys, told, asked, due, master>>
         \/ keys' = None /\ master' = 0 /\ UNCHANGED <<told, asked, due>>
         \/ /\ keys' \in Conf /\ keys = None /\ keys'.master = master'
            /\ Sole(keys', Mine) /\ master' \in 0..MaxOps
            /\ told' = Mine /\ asked' = {} /\ due' = None
      /\ Mine \in Creds
  <2>1. CASE /\ keys = None /\ made \in Masters
             /\ told' = Mine /\ asked' = {} /\ due' = None /\ master' = made
             /\ keys' = [master |-> made, key |-> Mine, factors |-> NoFactors]
    <3>1. made \in 1..MaxOps
      BY <2>1 DEF Masters
    <3>2. keys' \in Conf /\ Sole(keys', Mine) /\ keys'.master = made
      BY <2>1, <3>1, NewConf, MigrationAssumption
    <3>3. made \in 0..MaxOps
      BY <1>t, <3>1
    <3> QED
      BY <2>1, <3>2, <3>3, MigrationAssumption
  <2> QED
    BY <2>1, MigrationAssumption DEF Migrated, userVars
<1>2. TypeInv'
  <2>1. \A p \in Procs : MemoryOK(mem'[p])
    BY OffOK DEF Migrated
  <2>2. /\ keys' \in Conf \cup {None, Torn} /\ told' \in Creds \cup {None} /\ asked' \in SUBSET Creds
        /\ due' \in Procs \cup {None} /\ master' \in 0..MaxOps
    BY <1>1, <1>t DEF AccountTypeOK
  <2>3. AccountTypeOK'
    BY <1>t, <2>2, Zenon DEF Migrated, AccountTypeOK
  <2> QED
    BY <2>1, <2>3 DEF TypeInv
<1>3. KeysInv'
  <2>1. \A p \in Procs : Fitting(mem'[p], Valid') /\ ~InWrite(p)'
    <3>1. Off.stage = "off"
      BY DEF Off
    <3> QED
      BY <3>1, OffFits DEF Migrated, InWrite
  <2>2. ~stale' /\ IsConf(keys') => Fits(keys', Valid')
    <3>1. CASE UNCHANGED <<keys, told, asked, due, master>>
      BY <3>1 DEF Migrated, AccountInv, KeysInv, Valid, IsConf, Fits, Registered
    <3>2. CASE keys' = None
      BY <3>2 DEF IsConf
    <3>3. CASE Sole(keys', Mine) /\ told' = Mine /\ due' = None
      <4>1. Mine \in Valid'
        BY <1>1, <3>3, NoneAssumption DEF Valid
      <4> QED
        BY <3>3, <4>1, SoleFits
    <3> QED
      BY <1>1, <3>1, <3>2, <3>3
  <2>3. current' \subseteq Procs
    BY <1>t DEF AccountTypeOK, Migrated
  <2> QED
    BY <2>1, <2>2, <2>3 DEF KeysInv, IsConf, Fits, Registered, Fitting
<1>4. \A p \in Procs : /\ mem'[p].conf = None /\ mem'[p].draft = None /\ mem'[p].stage = "off"
                       /\ mem'[p] = Off
  BY DEF Migrated, Off
<1>5. OffInv' /\ Alone'
  BY <1>4 DEF OffInv, Alone, At
<1>6. /\ keys' \in Conf => keys'.master = master'
      /\ keys' = None => master' = 0
  BY <1>1, ConfIsFile DEF AccountInv, MasterInv
<1>7. \E k : OneMaster(k)'
  <2>1. PICK k : k = master'
    OBVIOUS
  <2>2. OneMaster(k)'
    BY <1>4, <1>6, <2>1, ConfIsFile DEF OneMaster, Has
  <2> QED
    BY <2>2
<1>8. MasterInv'
  BY <1>4, <1>5, <1>6, <1>7 DEF MasterInv
<1>9. SameMaster
  BY <1>1, ConfIsFile DEF SameMaster, AccountInv, MasterInv
<1> QED
  BY <1>2, <1>3, <1>5, <1>8, <1>9 DEF AccountInv

LEMMA AccountKeeps ==
  ASSUME AccountInv, [AccountNext]_accountVars
  PROVE  AccountInv' /\ SameMaster
BY TypeStep, KeysStep, MasterStep, OffStep DEF AccountInv

-----------------------------------------------------------------------------
(* What secrez-migrate leaves                                              *)

Ready == {"setting up", "backing up", "copying"}
Making == {"migrating trees", "migrating histories", "migrating aliases", "migrating env"}
Swapping == {"removing", "replacing"}

\* While it runs, and while the keys.json is the old one, there are no keys and no
\* instance runs.
Quiet == keys = None /\ \A p \in Procs : mem[p] = Off

QuietInv == work # "idle" \/ OldAccount => Quiet

\* Where it is; the parts before the one it is at are new.
WorkTypes ==
  /\ work \in Ready \cup Making \cup Swapping \cup {"idle", "reversing"}
  /\ part \in [Parts -> Versions] /\ backup \in Copies
  /\ next \in 0..6 /\ made \in 0..MaxOps
  /\ runs \in 0..MaxRuns /\ rash \in BOOLEAN

WorkAt ==
  /\ work = "removing" => next >= 1
  /\ work = "replacing" => next \in DOMAIN Order
  /\ work \in {"backing up", "copying"} \cup Making \cup Swapping => made >= 1
  /\ work \in Swapping => \A i \in DOMAIN Order : i < next => part[Order[i]] = "new"

WorkInv == WorkTypes /\ WorkAt

NewOne == (\A x \in Parts : part[x] = "new") /\ Settled(made)

\* The container is the old one until a copy of it is made; the copy stays until one
\* of the two is complete.
SafeInv ==
  ~rash =>
    /\ AllOld \/ backup = "old" \/ NewOne
    /\ work \in Ready \cup Making => AllOld
    /\ work \in Making \cup Swapping \cup {"reversing"} => backup = "old"

MigrationInv == AccountInv /\ QuietInv /\ WorkInv /\ SafeInv

LEMMA OrderIs ==
  /\ DOMAIN Order = 1..5 /\ \A x \in Parts : \E i \in 1..5 : x = Order[i]
  /\ \A i \in 1..5 : Order[i] \in Parts
  /\ \A i, j \in 1..5 : i # j => Order[i] # Order[j]
  /\ "keys.json" \in Parts
<1>1. DOMAIN Order = 1..5
  BY DEF Order
<1>2. \A i, j \in 1..5 : i # j => Order[i] # Order[j]
  BY DEF Order
<1>3. Order[4] = "keys.json"
  BY DEF Order
<1> QED
  BY <1>1, <1>2, <1>3 DEF Parts

LEMMA NothingInMemory ==
  ASSUME OffInv, NothingRuns
  PROVE  work = "idle" /\ \A p \in Procs : mem[p] = Off
BY DEF OffInv, NothingRuns

\* A step is one of an instance of Secrez, or one of secrez-migrate.
LEMMA MigrationSteps ==
  ASSUME MigrationInv, [MigrationNext]_allVars
  PROVE  [AccountNext]_accountVars \/ Migrated
<1>t. AccountTypeOK
  BY DEF MigrationInv, AccountInv, TypeInv
<1>1. ASSUME UNCHANGED accountVars PROVE [AccountNext]_accountVars
  BY <1>1
<1>2. CASE Migrate \/ Backup \/ BackedUp \/ MigrateTree \/ MigrateHistories \/ MigrateAliases
           \/ MigrateEnv \/ Remove \/ Replace \/ Restore \/ Done \/ UNCHANGED allVars
  <2>1. UNCHANGED accountVars
    BY <1>2 DEF Migrate, Backup, BackedUp, Makes, MigrateTree, MigrateHistories, MigrateAliases,
                MigrateEnv, Remove, Replace, Restore, Done, allVars
  <2> QED
    BY <2>1
<1>3. CASE SetUp
  <2>1. \A p \in Procs : mem[p] = Off
    BY <1>3 DEF SetUp, Goes, MigrationInv, QuietInv, Quiet
  <2>2. ops \in 0..MaxOps /\ ops < MaxOps /\ ops' = ops + 1
    BY <1>3, <1>t DEF SetUp, Operate, AccountTypeOK
  <2>3. ops' \in 0..MaxOps /\ ops' >= ops
    BY <2>2, AccountAssumption
  <2> QED
    BY <1>3, <1>t, <2>1, <2>3 DEF SetUp, Migrated, AccountTypeOK, seenVars
<1>4. CASE ReplaceKeys
  <2>1. Quiet /\ made \in Masters
    BY <1>4 DEF ReplaceKeys, Goes, MigrationInv, QuietInv, WorkInv, WorkTypes, WorkAt, Swapping, Masters
  <2> QED
    BY <1>4, <1>t, <2>1 DEF ReplaceKeys, Migrated, Quiet, AccountTypeOK
<1>5. CASE Reverse
  <2>1. \A p \in Procs : mem[p] = Off
    BY <1>5, NothingInMemory DEF Reverse, Begins, MigrationInv, AccountInv
  <2> QED
    BY <1>5, <1>t, <2>1 DEF Reverse, Migrated, AccountTypeOK
<1>6. CASE Interrupt
  <2>1. \A p \in Procs : mem[p] = Off
    BY <1>6 DEF Interrupt, MigrationInv, QuietInv, Quiet
  <2>2. trouble' \in 0..MaxTrouble
    BY <1>6, <1>t, AccountAssumption DEF Interrupt, AccountTypeOK
  <2> QED
    BY <1>6, <1>t, <2>1, <2>2 DEF Interrupt, Migrated, AccountTypeOK, seenVars
<1>7. CASE Secrez \/ \E p \in Procs : Start(p)
  BY <1>7 DEF Secrez, Start, AccountNext
<1> QED
  BY <1>2, <1>3, <1>4, <1>5, <1>6, <1>7 DEF MigrationNext, Migrates

LEMMA QuietStep ==
  ASSUME MigrationInv, [MigrationNext]_allVars
  PROVE  QuietInv'
<1>1. CASE Migrate
  BY <1>1 DEF Migrate, OldAccount, MigrationInv, QuietInv, Quiet, accountVars
<1>2. CASE SetUp \/ Backup \/ BackedUp \/ MigrateTree \/ MigrateHistories \/ MigrateAliases
           \/ MigrateEnv \/ Remove \/ Replace \/ Restore \/ Interrupt
  BY <1>2 DEF SetUp, Backup, BackedUp, Makes, MigrateTree, MigrateHistories, MigrateAliases,
              MigrateEnv, Remove, Replace, Restore, Interrupt, Goes, MigrationInv, QuietInv, Quiet,
              accountVars
<1>3. CASE ReplaceKeys
  <2>1. part["keys.json"] = "new" /\ part' = part /\ work' = "idle"
    <3>1. next = 6
      BY <1>3, OrderIs DEF ReplaceKeys, Goes, MigrationInv, WorkInv, WorkTypes, WorkAt
    <3> QED
      BY <1>3, <3>1, OrderIs DEF ReplaceKeys, Goes, MigrationInv, WorkInv, WorkAt, Swapping
  <2> QED
    BY <2>1 DEF QuietInv, OldAccount
<1>4. CASE Reverse
  BY <1>4, NothingInMemory DEF Reverse, Begins, MigrationInv, AccountInv, QuietInv, Quiet
<1>5. CASE Done \/ UNCHANGED allVars
  BY <1>5 DEF Done, Begins, allVars, accountVars, migrationVars, MigrationInv, QuietInv, Quiet, OldAccount
<1>6. CASE Secrez
  <2>1. PICK p \in Procs : Works(p) /\ UNCHANGED migrationVars
    BY <1>6 DEF Secrez
  <2>2. mem[p].stage # "off"
    BY <2>1 DEF Works, FirstLogin, SignUp, Registers, Login, SignIn, SignInEnds, SharedLogin,
                Upgrade, SaveFactor, RemoveFactor, Changes, Open, Rewrites, Written, InWrite,
                Reports, SaveFails, Leave, Crash, At
  <2>3. work = "idle" /\ ~OldAccount
    BY <2>2 DEF MigrationInv, QuietInv, Quiet, Off
  <2> QED
    BY <2>1, <2>3 DEF QuietInv, OldAccount, migrationVars
<1>7. ASSUME NEW p \in Procs, Start(p) PROVE QuietInv'
  <2>1. part'["keys.json"] # "old" /\ work' = "idle"
    BY <1>7, OrderIs DEF Start, Dummy, MigrationInv, WorkInv, WorkTypes
  <2> QED
    BY <2>1 DEF QuietInv, OldAccount
<1> QED
  BY <1>1, <1>2, <1>3, <1>4, <1>5, <1>6, <1>7 DEF MigrationNext, Migrates

LEMMA Begun ==
  ASSUME WorkInv, NEW stage, Begins(stage)
  PROVE  work = "idle" /\ work' = stage /\ runs' \in 0..MaxRuns
<1>1. work = "idle" /\ work' = stage /\ runs < MaxRuns /\ runs' = runs + 1 /\ runs \in 0..MaxRuns
  BY DEF Begins, NothingRuns, WorkInv, WorkTypes
<1> QED
  BY <1>1, MigrationAssumption

\* A step that leaves the part replaceDb is at.
LEMMA SameNext ==
  ASSUME WorkInv, UNCHANGED <<next, part>>, work' \in Ready \cup Making \cup {"idle", "reversing"},
         backup' \in Copies, made' \in 0..MaxOps, runs' \in 0..MaxRuns, rash' \in BOOLEAN,
         work' \in {"backing up", "copying"} \cup Making => made' >= 1
  PROVE  WorkInv'
<1>1. WorkTypes'
  BY DEF WorkInv, WorkTypes
<1>2. work' \notin Swapping
  BY DEF Ready, Making, Swapping
<1>3. WorkAt'
  BY <1>2 DEF WorkAt, Swapping
<1> QED
  BY <1>1, <1>3 DEF WorkInv

\* And one that leaves it idle, whatever it makes of the parts.
LEMMA IdleNext ==
  ASSUME WorkInv, next' \in 0..6, part' \in [Parts -> Versions], work' \in {"idle", "reversing"},
         backup' \in Copies, UNCHANGED made, runs' \in 0..MaxRuns, rash' \in BOOLEAN
  PROVE  WorkInv'
<1>1. WorkTypes'
  BY DEF WorkInv, WorkTypes
<1>2. WorkAt'
  BY DEF WorkAt, Ready, Making, Swapping
<1> QED
  BY <1>1, <1>2 DEF WorkInv

LEMMA WorkStep ==
  ASSUME MigrationInv, [MigrationNext]_allVars
  PROVE  WorkInv'
<1>w. WorkInv /\ WorkTypes /\ WorkAt
  BY DEF MigrationInv, WorkInv
<1>b. NoBackup \in Copies /\ "partial" \in Copies /\ "old" \in Copies /\ "mixed" \in Copies
  BY DEF Copies
<1>1. CASE Migrate \/ Done
  <2>1. /\ work' \in {"setting up", "idle"} /\ runs' \in 0..MaxRuns
        /\ UNCHANGED <<next, part, made>> /\ backup' \in {backup, NoBackup}
    BY <1>1, <1>w, Begun DEF Migrate, Done
  <2>2. rash' \in BOOLEAN
    BY <1>1, Zenon DEF Migrate, Done
  <2>3. work' \notin {"backing up", "copying"} \cup Making
    BY <2>1 DEF Making
  <2> QED
    BY <1>w, <1>b, <2>1, <2>2, <2>3, SameNext DEF Ready, WorkTypes
<1>2. CASE SetUp
  <2>1. ops \in 0..MaxOps /\ ops < MaxOps /\ made' = ops + 1
    BY <1>2 DEF SetUp, Operate, MigrationInv, AccountInv, TypeInv, AccountTypeOK
  <2>2. made' \in 0..MaxOps /\ made' >= 1
    BY <2>1, AccountAssumption
  <2>3. work' = "backing up" /\ backup' = NoBackup /\ UNCHANGED <<next, part, runs, rash>>
    BY <1>2 DEF SetUp, Goes
  <2> QED
    BY <1>w, <1>b, <2>2, <2>3, SameNext DEF Ready, WorkTypes
<1>3. CASE Backup \/ BackedUp \/ MigrateTree \/ MigrateHistories \/ MigrateAliases
  <2>1. /\ work \in {"backing up", "copying"} \cup Making
        /\ work' \in Ready \cup Making
        /\ backup' \in {backup, "partial", "old", "mixed"} /\ UNCHANGED <<next, part, runs, rash, made>>
    BY <1>3 DEF Backup, BackedUp, MigrateTree, MigrateHistories, MigrateAliases, Makes, Goes, Ready, Making
  <2>2. made >= 1 /\ backup' \in Copies
    BY <1>w, <1>b, <2>1 DEF WorkAt, WorkTypes
  <2> QED
    BY <1>w, <2>1, <2>2, SameNext DEF WorkTypes
<1>4. CASE MigrateEnv
  <2>1. /\ work = "migrating env" /\ work' = "removing" /\ next' = 1
        /\ UNCHANGED <<part, backup, runs, rash, made>>
    BY <1>4 DEF MigrateEnv, Goes
  <2>2. made >= 1
    BY <1>w, <2>1 DEF WorkAt, Making
  <2>3. next' \in 0..6 /\ next' >= 1 /\ \A i \in DOMAIN Order : ~(i < next')
    <3>1. next' = 1 /\ DOMAIN Order = 1..5
      BY <2>1, OrderIs, Zenon
    <3> QED
      BY <3>1
  <2>4. WorkTypes'
    <3>1. work' \in Swapping
      BY <2>1 DEF Swapping
    <3> QED
      BY <1>w, <2>1, <2>3, <3>1, Zenon DEF WorkTypes
  <2>5. WorkAt'
    BY <2>1, <2>2, <2>3 DEF WorkAt
  <2> QED
    BY <2>4, <2>5 DEF WorkInv
<1>5. CASE Remove \/ Replace
  <2> DEFINE v == IF work = "removing" THEN "none" ELSE "new"
  <2>1. /\ next \in 1..5 /\ next \in DOMAIN Order
        /\ part' = [part EXCEPT ![Order[next]] = v]
        /\ UNCHANGED <<backup, runs, rash, made>>
        /\ \/ work = "removing" /\ work' = "replacing" /\ next' = next
           \/ work = "replacing" /\ work' = "removing" /\ next' = next + 1
    BY <1>5, <1>w, OrderIs DEF Remove, Replace, Goes, WorkAt
  <2>2. v \in Versions
    BY DEF Versions
  <2>3. part' \in [Parts -> Versions]
    BY <1>w, <2>1, <2>2 DEF WorkTypes
  <2>4. \A i \in DOMAIN Order : part'[Order[i]] = IF i = next THEN v ELSE part[Order[i]]
    BY <1>w, <2>1, OrderIs DEF WorkTypes
  <2>5. work \in Swapping /\ made >= 1
    BY <1>w, <2>1 DEF Swapping, WorkAt
  <2>6. \A i \in DOMAIN Order : i < next' => part'[Order[i]] = "new"
    <3> SUFFICES ASSUME NEW i \in DOMAIN Order, i < next' PROVE part'[Order[i]] = "new"
      OBVIOUS
    <3>1. CASE i = next
      BY <2>1, <2>4, <3>1
    <3>2. CASE i # next
      <4>1. i < next
        BY <2>1, <3>2, OrderIs
      <4> QED
        BY <1>w, <2>4, <2>5, <3>2, <4>1 DEF WorkAt
    <3> QED
      BY <3>1, <3>2
  <2>7. next' \in 1..6 /\ (work' = "replacing" => next' \in DOMAIN Order) /\ work' \in Swapping
    BY <2>1 DEF Swapping
  <2>8. WorkTypes'
    BY <1>w, <2>1, <2>3, <2>7 DEF WorkTypes
  <2>9. WorkAt'
    BY <2>1, <2>5, <2>6, <2>7 DEF WorkAt
  <2> QED
    BY <2>8, <2>9 DEF WorkInv
<1>6. CASE ReplaceKeys
  BY <1>6, <1>w, IdleNext DEF ReplaceKeys, Goes, WorkTypes
<1>7. CASE Reverse
  <2>1. /\ work' = "reversing" /\ runs' \in 0..MaxRuns /\ UNCHANGED <<next, backup, made>>
        /\ part' = [x \in Parts |-> "none"]
    BY <1>7, <1>w, Begun DEF Reverse
  <2>2. rash' \in BOOLEAN
    BY <1>7, Zenon DEF Reverse
  <2>3. part' \in [Parts -> Versions]
    BY <2>1 DEF Versions
  <2> QED
    BY <1>w, <2>1, <2>2, <2>3, IdleNext DEF WorkTypes
<1>8. CASE Restore
  <2>1. part' \in [Parts -> Versions]
    BY <1>8 DEF Restore, Versions
  <2> QED
    BY <1>8, <1>w, <1>b, <2>1, IdleNext DEF Restore, Goes, WorkTypes
<1>9. CASE Interrupt
  <2>1. part' \in [Parts -> Versions]
    BY <1>9, <1>w DEF Interrupt, WorkTypes, Versions
  <2> QED
    BY <1>9, <1>w, <2>1, IdleNext DEF Interrupt, WorkTypes
<1>10. ASSUME NEW p \in Procs, Start(p) PROVE WorkInv'
  <2>1. part' \in [Parts -> Versions]
    BY <1>10, <1>w, OrderIs DEF Start, Dummy, WorkTypes, Versions
  <2> QED
    BY <1>10, <1>w, <2>1, IdleNext DEF Start, WorkTypes
<1>11. CASE Secrez \/ UNCHANGED allVars
  BY <1>11, <1>w DEF Secrez, allVars, migrationVars, WorkInv, WorkTypes, WorkAt
<1> QED
  BY <1>1, <1>2, <1>3, <1>4, <1>5, <1>6, <1>7, <1>8, <1>9, <1>10, <1>11 DEF MigrationNext, Migrates

LEMMA SafeStep ==
  ASSUME MigrationInv, [MigrationNext]_allVars
  PROVE  SafeInv'
<1>w. WorkTypes /\ WorkAt /\ SafeInv /\ QuietInv /\ TypeInv /\ OffInv /\ MasterInv
  BY DEF MigrationInv, AccountInv, WorkInv
<1>1. CASE Migrate
  BY <1>1, <1>w DEF Migrate, Begins, SafeInv, AllOld, Ready, Making, Swapping
<1>2. CASE SetUp \/ Backup
  BY <1>2, <1>w DEF SetUp, Backup, Goes, SafeInv, AllOld, Ready, Making, Swapping
<1>3. CASE BackedUp
  BY <1>3, <1>w DEF BackedUp, Goes, SafeInv, AllOld, Ready, Making, Swapping
<1>4. CASE MigrateTree \/ MigrateHistories \/ MigrateAliases \/ MigrateEnv
  BY <1>4, <1>w DEF MigrateTree, MigrateHistories, MigrateAliases, MigrateEnv, Makes, Goes, SafeInv,
                    AllOld, Ready, Making, Swapping
<1>5. CASE Remove \/ Replace \/ ReplaceKeys \/ Reverse
  <2>1. ~rash' => ~rash /\ backup' = "old"
    BY <1>5, <1>w DEF Remove, Replace, ReplaceKeys, Reverse, Goes, SafeInv, Swapping
  <2>2. work' \in Swapping \cup {"idle", "reversing"}
    BY <1>5 DEF Remove, Replace, ReplaceKeys, Reverse, Goes, Begins, Swapping
  <2> QED
    BY <2>1, <2>2 DEF SafeInv, Ready, Making, Swapping
<1>6. CASE Restore
  BY <1>6, <1>w DEF Restore, Goes, SafeInv, AllOld, Ready, Making, Swapping
<1>7. CASE Done
  <2>1. /\ \A p \in Procs : mem[p] = Off
        /\ work' = "idle" /\ UNCHANGED <<accountVars, part, made>>
        /\ ~rash' => AllOld \/ AllNew
    BY <1>7, <1>w, NothingInMemory DEF Done, Begins
  <2>2. \A k : Has(None, k)
    BY ConfIsFile DEF Has
  <2>3. ASSUME AllNew PROVE NewOne
    <3>1. keys \in Conf /\ keys.master = made
      BY <1>w, <2>3 DEF AllNew, IsConf, TypeInv, AccountTypeOK
    <3>2. master = made
      BY <1>w, <3>1 DEF MasterInv
    <3>3. \A p \in Procs : mem[p].conf = None /\ mem[p].draft = None
      BY <2>1 DEF Off
    <3>4. OneMaster(made)
      BY <2>2, <3>1, <3>2, <3>3 DEF OneMaster, Has
    <3> QED
      BY <2>3, <3>1, <3>4, ConfIsFile DEF AllNew, NewOne, Settled
  <2>4. AllOld' = AllOld /\ NewOne' = NewOne
    BY <2>1 DEF AllOld, NewOne, Settled, OneMaster, Has, accountVars, seenVars
  <2> QED
    BY <2>1, <2>3, <2>4 DEF SafeInv, Ready, Making, Swapping
<1>8. CASE Interrupt
  <2>1. work # "idle" /\ work' = "idle" /\ UNCHANGED <<backup, rash>> /\ (work = "replacing" \/ part' = part)
    BY <1>8 DEF Interrupt
  <2>2. ~rash => AllOld \/ backup = "old"
    BY <1>w, <2>1 DEF SafeInv, WorkTypes, Ready, Making, Swapping
  <2>3. ~rash /\ work = "replacing" => backup = "old"
    BY <1>w DEF SafeInv, Swapping
  <2> QED
    BY <2>1, <2>2, <2>3 DEF SafeInv, AllOld, Ready, Making, Swapping
<1>9. CASE Secrez \/ \E p \in Procs : Start(p)
  <2>1. [AccountNext]_accountVars /\ UNCHANGED <<backup, made, rash, work>>
    BY <1>9 DEF Secrez, Start, AccountNext, migrationVars
  <2>2. AllOld => AllOld'
    BY <1>9, OrderIs DEF Secrez, Start, AllOld, migrationVars
  <2>3. NewOne => NewOne'
    <3>1. Settled(made) => Settled(made)'
      BY <1>w, <2>1, SettledStep
    <3>2. (\A x \in Parts : part[x] = "new") => \A x \in Parts : part'[x] = "new"
      BY <1>9, <1>w, OrderIs DEF Secrez, Start, Dummy, WorkTypes, migrationVars
    <3> QED
      BY <3>1, <3>2 DEF NewOne
  <2> QED
    BY <1>w, <2>1, <2>2, <2>3 DEF SafeInv
<1>10. CASE UNCHANGED allVars
  BY <1>10, <1>w DEF allVars, migrationVars, accountVars, seenVars, SafeInv, AllOld, NewOne, Settled,
                     OneMaster, Has
<1> QED
  BY <1>1, <1>2, <1>3, <1>4, <1>5, <1>6, <1>7, <1>8, <1>9, <1>10 DEF MigrationNext, Migrates

LEMMA MigrationStarts == MigrationInit => MigrationInv
<1> SUFFICES ASSUME MigrationInit PROVE MigrationInv
  OBVIOUS
<1>1. AccountInit /\ keys = None /\ \A p \in Procs : mem[p] = Off
  BY DEF MigrationInit, AccountInit
<1>2. AccountInv
  BY <1>1, AccountStarts, AccountFits, MasterStarts DEF AccountInv, OffInv
<1>3. QuietInv
  BY <1>1 DEF QuietInv, Quiet
<1>4. part \in [Parts -> Versions] /\ backup \in Copies
  BY DEF MigrationInit, Versions, Copies
<1>5. WorkInv
  <2>1. work = "idle" /\ next = 0 /\ made = 0 /\ runs = 0 /\ rash = FALSE
    BY DEF MigrationInit
  <2>2. 0 \in 0..MaxOps /\ 0 \in 0..MaxRuns /\ 0 \in 0..6
    BY MigrationAssumption, AccountAssumption
  <2>3. WorkTypes
    BY <1>4, <2>1, <2>2, Zenon DEF WorkTypes
  <2>4. WorkAt
    BY <2>1 DEF WorkAt, Making, Swapping
  <2> QED
    BY <2>3, <2>4 DEF WorkInv
<1>6. SafeInv
  BY DEF MigrationInit, SafeInv, AllOld, Ready, Making, Swapping
<1> QED
  BY <1>2, <1>3, <1>5, <1>6 DEF MigrationInv

LEMMA MigrationAlways == MigrationSpec => []MigrationInv
<1>1. MigrationInv /\ [MigrationNext]_allVars => MigrationInv'
  <2> SUFFICES ASSUME MigrationInv, [MigrationNext]_allVars PROVE MigrationInv'
    OBVIOUS
  <2>1. AccountInv'
    BY MigrationSteps, AccountKeeps, MigratedKeeps DEF MigrationInv
  <2> QED
    BY <2>1, QuietStep, WorkStep, SafeStep DEF MigrationInv
<1> QED
  BY <1>1, MigrationStarts, PTL DEF MigrationSpec

\* Wherever a migration is interrupted, and whatever is run then, a complete database
\* is left: the old one, the new one with its keys, or the copy that --reverse puts
\* back; as long as nothing is started on what an interrupted command left.
THEOREM AlwaysRecoverable == MigrationSpec => []Recoverable
<1>1. MigrationInv => Recoverable
  <2> SUFFICES ASSUME MigrationInv, ~rash, keys # Torn, NewOne PROVE AllNew
    BY DEF MigrationInv, SafeInv, Recoverable
  <2>1. keys \in Conf
    BY DEF NewOne, Settled, MigrationInv, AccountInv, TypeInv, AccountTypeOK
  <2> QED
    BY <2>1, ConfIsFile DEF AllNew, NewOne, Settled, OneMaster, Has
<1> QED
  BY <1>1, MigrationAlways, PTL

\* The account, the container, its copy and the place secrez-migrate is at have their
\* types.
THEOREM MigrationTypes == MigrationSpec => []MigrationTypeOK
<1>1. MigrationInv => MigrationTypeOK
  <2>1. Len(Order) + 1 = 6
    BY DEF Order
  <2> QED
    BY <2>1 DEF MigrationInv, AccountInv, TypeInv, WorkInv, WorkTypes, MigrationTypeOK, Ready, Making, Swapping
<1> QED
  BY <1>1, MigrationAlways, PTL

\* Also with migrations between the changes, a readable keys file opens with what the
\* user was told last, or asked for since, and with a factor if one is registered.
THEOREM KeysOpenThroughout == MigrationSpec => []KeysOpen
BY MigrationAlways, KeysInvOpens, PTL DEF MigrationInv, AccountInv

\* Also with migrations between the changes, no readable keys file replaces another of a
\* different master key, not even with a truncated one in between: secrez-migrate puts
\* its keys where there are none.
THEOREM MasterKeptThroughout == MigrationSpec => MasterKept
<1>1. MigrationInv /\ MigrationInv' /\ [MigrationNext]_allVars =>
        [IsConf(keys') /\ master # 0 /\ ~raced' => keys'.master = master]_accountVars
  <2> SUFFICES ASSUME MigrationInv, MigrationInv', [MigrationNext]_allVars,
                      IsConf(keys'), master # 0, ~raced'
               PROVE  keys'.master = master
    OBVIOUS
  <2>1. keys' \in Conf
    BY ConfIsFile DEF MigrationInv, AccountInv, TypeInv, AccountTypeOK
  <2>2. SameMaster
    BY MigrationSteps, AccountKeeps, MigratedKeeps DEF MigrationInv
  <2> QED
    BY <2>1, <2>2 DEF SameMaster
<1> QED
  BY <1>1, MigrationAlways, PTL DEF MigrationSpec, MasterKept
=============================================================================
