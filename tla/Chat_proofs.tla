---------------------------- MODULE Chat_proofs ----------------------------
(***************************************************************************)
(* The courier and the chat, for every number of callers, of loops and of  *)
(* messages: who the courier obeys, what was sent, and what was read.      *)
(***************************************************************************)
EXTENDS Chat, FiniteSetTheorems, WellFoundedInduction, TLAPS

-----------------------------------------------------------------------------
(* The shape of the state.                                                   *)

Claimants == Accounts \cup {None}

Stages == {"idle", "looking", "saving", "updating", "inserting", "granted", "opening",
           "posting", "storing", "hung", "answered", "denied"}
Whats == {"none", "ready", "publish", "add", "send", "messages"}
LoopStages == {"off", "sleeping", "asking", "saving", "showing"}
Commands == {"none", "chat", "join", "send", "courier", "setup", "leave", "show"}

CallRecord == [stage : Stages, what : Whats, arg : Nat, value : Claimants,
               ok : BOOLEAN, rows : SUBSET Rows]
LoopRecord == [stage : LoopStages, value : Nat, rows : SUBSET Rows]

CourierTypeOK ==
    /\ calls \in [Callers -> CallRecord]
    /\ owner \in Claimants /\ option \in Claimants
    /\ messages \in Seq(Rows)
    /\ now \in 0..MaxNow
    /\ active \in BOOLEAN

\* The table is in the order of the time the messages were put in it.
InOrder ==
    /\ \A i \in DOMAIN messages : messages[i].ts <= now
    /\ \A i, j \in DOMAIN messages : i < j => messages[i].ts <= messages[j].ts

ChatTypeOK ==
    /\ lastRead \in Nat /\ latest \in Nat /\ commands \in Nat
    /\ command \in [name : Commands, snap : Nat]
    /\ loops \in [Loops -> LoopRecord]

-----------------------------------------------------------------------------
(* The invariants.                                                           *)

\* The claims in progress are all of the account that server.options names, and
\* the table will not contradict it.
OneClaim ==
    \A c \in Callers :
        /\ calls[c].stage \in Claiming => AccountOf[c] = option
        /\ calls[c].stage \in Claiming \ {"looking"} =>
             calls[c].value = option /\ owner \in {None, option}

OwnerInv == OwnerAgrees /\ (~raced => OneClaim)

\* In m there is a message that was sent with that number.
SentIn(m, n) == \E i \in DOMAIN m : ~m[i].from /\ m[i].n = n

\* A request to send only comes to its end, and is only said to have succeeded,
\* when the message is with the contact, and in the history.
Honest(r, d, m) ==
    /\ r.stage = "posting" => r.what = "send"
    /\ r.stage = "opening" => r.what = "publish"
    /\ r.stage = "storing" => r.what = "send" /\ r.arg \in d
    /\ r.stage = "answered" /\ r.ok /\ r.what = "send" => r.arg \in d /\ SentIn(m, r.arg)

SendsHonestly == \A c \in Callers : Honest(calls[c], delivered, messages)

SentInv == SendsHonestly /\ SentIsStored

\* Message i was printed or lost, or a loop has it, or it hides behind another one.
Told(i) ==
    \/ messages[i].n \in shown \cup dropped
    \/ \E l \in Loops : messages[i].n \in Numbers(loops[l].rows)
    \/ Shadowed(i)

\* v is a time the environment may say that everything before it was read.  It is
\* a millisecond after a message, so that the next one is no older.
Fair(v) ==
    /\ v = 0 \/ \E j \in Incoming : messages[j].ts + 1 = v
    /\ \A i \in Incoming : messages[i].ts < v => Told(i)

\* The same of an answer that a loop is about to take.
FairAnswer(rows) ==
    /\ \A r \in rows : \E j \in Incoming : messages[j].ts = r.ts
    /\ \A i \in Incoming : \A r \in rows :
          messages[i].ts <= r.ts => Told(i) \/ messages[i].n \in Numbers(rows)

\* A loop that waits, or has not begun, has no rows.
EmptyHanded ==
    \A l \in Loops : loops[l].stage \in {"off", "sleeping", "asking"} => loops[l].rows = {}

\* Whatever may be written to the environment is fair, and so is what the loops
\* asked for and what they were answered.
ReadInv ==
    /\ Fair(lastRead) /\ Fair(latest) /\ Fair(command.snap)
    /\ \A l \in Loops :
         /\ Fair(loops[l].value) /\ Fair(calls[l].arg)
         /\ calls[l].stage = "answered" => FairAnswer(calls[l].rows)

ChatInv == CourierTypeOK /\ InOrder /\ ChatTypeOK /\ OwnerInv /\ SentInv
           /\ EmptyHanded /\ ReadInv

-----------------------------------------------------------------------------
(* Facts about the rows.                                                     *)

\* Where two sets of natural numbers meet, there is a least one.
LEMMA LeastExists ==
  ASSUME NEW T, T \subseteq Nat, T # {}
  PROVE  \E x \in T : \A y \in T : x <= y
<1> DEFINE R == OpToRel(<, Nat)
<1>1. \E x \in T : \A y \in T : ~ (<<y, x>> \in R)
  BY NatLessThanWellFounded, WFMin
<1>2. \A x, y \in T : y < x => <<y, x>> \in R
  BY DEF OpToRel
<1> HIDE DEF R
<1>3. PICK x \in T : \A y \in T : ~ (<<y, x>> \in R)
  BY <1>1
<1>4. \A y \in T : ~(y < x)
  BY <1>2, <1>3
<1> QED
  BY <1>4

\* The answer of Newest: nothing for no rows, else one more than the last of them.
LEMMA NewestOf ==
  ASSUME NEW rows \in SUBSET Rows
  PROVE  /\ Newest(rows) \in Nat
         /\ rows = {} => Newest(rows) = 0
         /\ rows # {} => \E r \in rows : Newest(rows) = r.ts + 1
<1>1. CASE rows = {}
  BY <1>1 DEF Newest
<1>2. CASE rows # {}
  <2> DEFINE S == {r.ts : r \in rows}
             T == {MaxNow - t : t \in S}
  <2>1. S \subseteq 0..MaxNow /\ S # {}
    BY <1>2 DEF Rows
  <2>2. T \subseteq Nat /\ T # {}
    BY <2>1, CourierAssumption
  <2>3. PICK x \in T : \A y \in T : x <= y
    BY <2>2, LeastExists
  <2>4. PICK t \in S : x = MaxNow - t
    BY <2>3
  <2>5. \A u \in S : t >= u
    <3> HIDE DEF S
    <3>1. TAKE u \in S
    <3>2. MaxNow - u \in T
      OBVIOUS
    <3>3. MaxNow - t <= MaxNow - u
      BY <2>3, <2>4, <3>2
    <3> QED
      BY <2>1, <3>3, CourierAssumption
  <2>6. Max(S) \in S
    BY <2>5 DEF Max
  <2>7. Newest(rows) = Max(S) + 1
    BY <1>2 DEF Newest
  <2>8. Max(S) + 1 \in Nat
    <3> HIDE DEF S
    <3>1. MaxNow \in Nat
      BY CourierAssumption
    <3>2. Max(S) \in 0..MaxNow
      BY <2>1, <2>6, Zenon
    <3> QED
      BY <3>1, <3>2
  <2>9. PICK r \in rows : Max(S) = r.ts
    BY <2>6
  <2> QED
    BY <1>2, <2>7, <2>8, <2>9
<1> QED
  BY <1>1, <1>2

\* What is not among the first comes after all of them.
LEMMA FirstComeFirst ==
  ASSUME NEW n \in Nat, NEW S \in SUBSET (1..n), NEW i \in S \ First(S), NEW k \in First(S)
  PROVE  k < i
<1> DEFINE Before(x) == {j \in S : j < x}
<1>1. SUFFICES ASSUME ~(k < i) PROVE FALSE
  OBVIOUS
<1>2. k \in S /\ k \in Nat /\ i \in Nat /\ i <= k
  BY <1>1 DEF First
<1>3. Before(i) \subseteq Before(k)
  <2>1. SUFFICES ASSUME NEW j \in Before(i) PROVE j \in Before(k)
    OBVIOUS
  <2>2. j \in S /\ j \in Nat /\ j < i
    OBVIOUS
  <2> QED
    BY <1>2, <2>2
<1>4. IsFiniteSet(1..n)
  BY FS_Interval
<1>5. IsFiniteSet(Before(k))
  BY <1>4, FS_Subset
<1>6. Cardinality(Before(i)) <= Cardinality(Before(k))
  BY <1>3, <1>5, FS_Subset
<1>7. Cardinality(Before(k)) < Limit
  BY DEF First
<1>8. ~(Cardinality(Before(i)) < Limit)
  BY DEF First
<1>9. Cardinality(Before(i)) \in Nat /\ Cardinality(Before(k)) \in Nat
  BY <1>3, <1>5, FS_Subset, FS_CardinalityType
<1> QED
  BY <1>6, <1>7, <1>8, <1>9, CourierAssumption

-----------------------------------------------------------------------------
(* What the steps do to the requests.                                        *)

LEMMA FreshRecord ==
  ASSUME NEW s \in Stages, NEW what \in Whats, NEW arg \in Nat, NEW v \in Claimants,
         NEW ok, ok \in BOOLEAN
  PROVE  [stage |-> s, what |-> what, arg |-> arg, value |-> v, ok |-> ok, rows |-> {}]
           \in CallRecord
BY DEF CallRecord

LEMMA IdleRecord == Idle \in CallRecord
<1>1. None \in Claimants
  BY DEF Claimants
<1>2. "idle" \in Stages /\ "none" \in Whats /\ 0 \in Nat
  BY DEF Stages, Whats
<1>3. FALSE \in BOOLEAN
  OBVIOUS
<1> QED
  BY <1>1, <1>2, <1>3, FreshRecord, Zenon DEF Idle

LEMMA StageRecord ==
  ASSUME NEW x \in CallRecord, NEW s \in Stages
  PROVE  [x EXCEPT !.stage = s] \in CallRecord
BY DEF CallRecord

LEMMA AskedRecord ==
  ASSUME NEW x \in CallRecord, NEW s \in Stages, NEW what \in Whats, NEW arg \in Nat
  PROVE  [x EXCEPT !.stage = s, !.what = what, !.arg = arg] \in CallRecord
BY DEF CallRecord

LEMMA AnswerRecord ==
  ASSUME NEW x \in CallRecord, NEW ok, ok \in BOOLEAN, NEW rows \in SUBSET Rows
  PROVE  [x EXCEPT !.stage = "answered", !.ok = ok, !.rows = rows] \in CallRecord
<1> DEFINE y == [x EXCEPT !.ok = ok]
           z == [y EXCEPT !.rows = rows]
<1>1. y \in CallRecord
  BY DEF CallRecord
<1>2. z \in CallRecord
  BY <1>1 DEF CallRecord
<1>3. [x EXCEPT !.stage = "answered", !.ok = ok, !.rows = rows] = [z EXCEPT !.stage = "answered"]
  BY DEF CallRecord
<1> HIDE DEF z
<1>4. [z EXCEPT !.stage = "answered"] \in CallRecord
  <2>1. "answered" \in Stages
    BY DEF Stages
  <2> QED
    BY <1>2, <2>1, StageRecord, Zenon
<1> QED
  BY <1>3, <1>4

\* The request of c moves on, and is otherwise what it was.
LEMMA Staged ==
  ASSUME CourierTypeOK, NEW c \in Callers, NEW s \in Stages,
         calls' = [calls EXCEPT ![c].stage = s]
  PROVE  /\ calls' \in [Callers -> CallRecord]
         /\ \A d \in Callers \ {c} : calls'[d] = calls[d]
         /\ calls'[c].stage = s /\ calls'[c].what = calls[c].what
         /\ calls'[c].arg = calls[c].arg /\ calls'[c].value = calls[c].value
         /\ calls'[c].ok = calls[c].ok /\ calls'[c].rows = calls[c].rows
<1>1. calls' = [calls EXCEPT ![c] = [calls[c] EXCEPT !.stage = s]] /\ calls[c] \in CallRecord
  BY DEF CourierTypeOK
<1>2. [calls[c] EXCEPT !.stage = s] \in CallRecord
  BY <1>1 DEF CallRecord
<1>3. calls' \in [Callers -> CallRecord]
  BY <1>1, <1>2, Zenon DEF CourierTypeOK
<1> QED
  BY <1>1, <1>3 DEF CourierTypeOK, CallRecord

\* So it does when the account that is to be saved is read.
LEMMA Valued ==
  ASSUME CourierTypeOK, NEW c \in Callers, NEW s \in Stages, NEW v \in Claimants,
         calls' = [calls EXCEPT ![c].stage = s, ![c].value = v]
  PROVE  /\ calls' \in [Callers -> CallRecord]
         /\ \A d \in Callers \ {c} : calls'[d] = calls[d]
         /\ calls'[c].stage = s /\ calls'[c].what = calls[c].what
         /\ calls'[c].arg = calls[c].arg /\ calls'[c].value = v
         /\ calls'[c].ok = calls[c].ok /\ calls'[c].rows = calls[c].rows
<1>1. /\ calls' = [calls EXCEPT ![c] = [calls[c] EXCEPT !.stage = s, !.value = v]]
      /\ calls[c] \in CallRecord
  BY DEF CourierTypeOK
<1>2. [calls[c] EXCEPT !.stage = s, !.value = v] \in CallRecord
  BY <1>1 DEF CallRecord
<1>3. calls' \in [Callers -> CallRecord]
  BY <1>1, <1>2, Zenon DEF CourierTypeOK
<1> QED
  BY <1>1, <1>3 DEF CourierTypeOK, CallRecord

\* The request of c is answered.
LEMMA Answered ==
  ASSUME CourierTypeOK, NEW c \in Callers, NEW ok, ok \in BOOLEAN, NEW rows \in SUBSET Rows,
         Answer(c, ok, rows)
  PROVE  /\ calls' \in [Callers -> CallRecord]
         /\ \A d \in Callers \ {c} : calls'[d] = calls[d]
         /\ calls'[c].stage = "answered" /\ calls'[c].what = calls[c].what
         /\ calls'[c].arg = calls[c].arg /\ calls'[c].value = calls[c].value
         /\ calls'[c].ok = ok /\ calls'[c].rows = rows
<1>1. /\ calls' = [calls EXCEPT ![c] = [calls[c] EXCEPT !.stage = "answered", !.ok = ok,
                                                       !.rows = rows]]
      /\ calls[c] \in CallRecord
  BY DEF CourierTypeOK, Answer
<1>2. [calls[c] EXCEPT !.stage = "answered", !.ok = ok, !.rows = rows] \in CallRecord
  BY <1>1, AnswerRecord
<1>3. calls' \in [Callers -> CallRecord]
  BY <1>1, <1>2, Zenon DEF CourierTypeOK
<1> QED
  BY <1>1, <1>3 DEF CourierTypeOK, CallRecord

\* What a new request comes to: the middleware asks the table, or lets it through
\* to what it asks for, or not.
LEMMA Requested ==
  ASSUME CourierTypeOK, NEW c \in Callers, NEW what \in Whats, NEW arg \in Nat,
         Request(c, what, arg)
  PROVE  /\ calls' \in [Callers -> CallRecord]
         /\ \A d \in Callers \ {c} : calls'[d] = calls[d]
         /\ calls'[c].stage \in {"looking", "granted", "denied"}
         /\ calls'[c].stage = "looking" <=> auth = None
         /\ calls'[c].stage = "granted" => auth = AccountOf[c]
         /\ calls'[c].what = what /\ calls'[c].arg = arg /\ calls'[c].value = None
         /\ calls'[c].ok = FALSE /\ calls'[c].rows = {}
         /\ option' \in Claimants
<1> DEFINE asked(s) == [Idle EXCEPT !.stage = s, !.what = what, !.arg = arg]
<1>1. PICK s \in {"looking", "granted", "denied"} :
        /\ calls' = [calls EXCEPT ![c] = asked(s)]
        /\ s = "looking" <=> auth = None
        /\ s = "granted" => auth = AccountOf[c]
  BY DEF Request
<1>2. /\ asked(s) \in CallRecord
      /\ asked(s).stage = s /\ asked(s).what = what /\ asked(s).arg = arg
      /\ asked(s).value = None /\ asked(s).ok = FALSE /\ asked(s).rows = {}
  <2>1. asked(s) \in CallRecord
    <3>1. s \in Stages
      BY <1>1 DEF Stages
    <3> QED
      BY <3>1, IdleRecord, AskedRecord, Zenon
  <2> QED
    BY <2>1 DEF Idle
<1>3. option' \in {option, AccountOf[c]}
  BY DEF Request
<1> HIDE DEF asked
<1>4. /\ calls' \in [Callers -> CallRecord] /\ calls'[c] = asked(s)
      /\ \A d \in Callers \ {c} : calls'[d] = calls[d]
  BY <1>1, <1>2 DEF CourierTypeOK
<1>5. option' \in Claimants
  BY <1>3 DEF CourierTypeOK, Claimants, Accounts
<1> QED
  BY <1>1, <1>2, <1>4, <1>5

\* Requests that nobody waits for any more.
Clears(cs) ==
    /\ calls' = [c \in Callers |-> IF c \in cs THEN Idle ELSE calls[c]]
    /\ UNCHANGED <<db, server, raced, delivered, now>>

\* A request of the user, of a loop or of somebody else.
Asks(c, what, arg) ==
    Request(c, what, arg) /\ UNCHANGED <<db, auth, active, live, delivered, now>>

LEMMA ForgetClears ==
  ASSUME CourierTypeOK, NEW c \in Callers, Forget(c)
  PROVE  Clears({c})
BY DEF Forget, Clears, CourierTypeOK

LEMMA ClearedCalls ==
  ASSUME CourierTypeOK, NEW cs, Clears(cs)
  PROVE  /\ calls' \in [Callers -> CallRecord]
         /\ \A d \in Callers : calls'[d] = Idle \/ calls'[d] = calls[d]
<1>1. Idle \in CallRecord
  BY IdleRecord
<1> HIDE DEF CallRecord
<1> QED
  BY <1>1 DEF Clears, CourierTypeOK

\* A step is one of the courier, or a request is made, which if it is of a loop is
\* for what is after lastRead, or requests are forgotten.
Moves ==
    \/ CourierNext
    \/ \E c \in Callers, what \in Whats, arg \in Nat :
         (c \in Loops => arg = lastRead) /\ Asks(c, what, arg)
    \/ \E cs \in SUBSET Callers : Clears(cs)

LEMMA CallAsks ==
  ASSUME NEW c \in Callers, NEW what \in Whats, NEW arg \in Nat, Call(c, what, arg),
         c \in Loops => arg = lastRead
  PROVE  Moves
BY DEF Moves, Asks, Call

LEMMA Who == User \in Callers /\ Loops \subseteq Callers /\ User \notin Loops
BY ChatAssumption

LEMMA PreparedMoves ==
  ASSUME CourierTypeOK, ChatTypeOK, Prepared
  PROVE  Moves
<1>1. User \in Callers /\ User \notin Loops
  BY Who
<1>2. CASE Forget(User)
  <2>1. Clears({User}) /\ {User} \in SUBSET Callers
    BY <1>1, <1>2, ForgetClears
  <2> QED
    BY <2>1 DEF Moves
<1>3. CASE Call(User, "add", 0)
  BY <1>1, <1>3, CallAsks DEF Whats
<1>4. CASE Call(User, "send", commands)
  BY <1>1, <1>4, CallAsks DEF Whats, ChatTypeOK
<1>5. Forget(User) \/ Call(User, "add", 0) \/ Call(User, "send", commands)
  BY Zenon DEF Prepared, Ends, Joins
<1> QED
  BY <1>2, <1>3, <1>4, <1>5

LEMMA StepMoves ==
  ASSUME CourierTypeOK, ChatTypeOK, [Next]_vars
  PROVE  Moves
<1> USE Who
<1>1. ASSUME NEW c \in Callers, Forget(c) PROVE Moves
  <2>1. Clears({c}) /\ {c} \in SUBSET Callers
    BY <1>1, ForgetClears
  <2> QED
    BY <2>1 DEF Moves
<1>2. ASSUME UNCHANGED courierVars PROVE Moves
  <2>1. Clears({})
    BY <1>2 DEF Clears, courierVars, CourierTypeOK
  <2> QED
    BY <2>1 DEF Moves
<1>3. ASSUME NEW what \in {"ready", "publish", "messages"}, Call(User, what, 0) PROVE Moves
  BY <1>3, CallAsks DEF Whats
<1>4. CASE CourierNext
  BY <1>4 DEF Moves
<1>5. ASSUME NEW name \in {"chat", "join", "send"}, Begin(name) PROVE Moves
  BY <1>3, <1>5 DEF Begin
<1>6. CASE InitCourier \/ SetUpCourier \/ AskToPublish \/ Show
  <2>1. Call(User, "ready", 0) \/ Call(User, "publish", 0) \/ Call(User, "messages", 0)
    BY <1>6, Zenon DEF InitCourier, SetUpCourier, AskToPublish, Show
  <2> QED
    BY <1>3, <2>1
<1>7. CASE Prepared
  BY <1>7, PreparedMoves
<1>8. CASE NotPrepared \/ Enter \/ SendEnds \/ ShowEnds
  <2>1. Forget(User)
    BY <1>8, Zenon DEF NotPrepared, Enter, SendEnds, ShowEnds, Ends
  <2> QED
    BY <1>1, <2>1
<1>9. CASE Leave \/ LeaveEnds
  BY <1>2, <1>9, Zenon DEF Leave, LeaveEnds
<1>10. ASSUME NEW l \in Loops, Loop(l) PROVE Moves
  <2>1. CASE Hears(l)
    BY <1>1, <2>1 DEF Hears
  <2>2. CASE Saves(l) \/ Prints(l)
    BY <1>2, <2>2, Zenon DEF Saves, Prints
  <2>3. CASE Wakes(l) /\ UNCHANGED courierVars
    BY <1>2, <2>3
  <2>4. CASE Call(l, "messages", lastRead)
    BY <2>4, CallAsks DEF Whats, ChatTypeOK
  <2> QED
    BY <1>10, <2>1, <2>2, <2>3, <2>4, Zenon DEF Loop, Wakes
<1>11. ASSUME NEW o \in Others, OtherAsks(o) PROVE Moves
  <2>1. Asks(o, "ready", 0) /\ o \in Callers /\ o \notin Loops
    BY <1>11, ChatAssumption DEF OtherAsks, Asks
  <2> QED
    BY <2>1 DEF Moves, Whats
<1>12. CASE Kill
  <2> DEFINE cs == Callers \ Others
  <2>1. calls' = [c \in Callers |-> IF c \in cs THEN Idle ELSE calls[c]]
    BY <1>12 DEF Kill
  <2>2. Clears(cs)
    BY <1>12, <2>1 DEF Kill, Clears
  <2> QED
    BY <2>2 DEF Moves
<1>13. CASE UNCHANGED vars
  BY <1>2, <1>13 DEF vars
<1> QED
  BY <1>4, <1>5, <1>6, <1>7, <1>8, <1>9, <1>10, <1>11, <1>12, <1>13, Zenon
  DEF Next, GoesOn

-----------------------------------------------------------------------------
(* The types of the courier.                                                 *)

\* What the requests of the courier read and leave alone.
LEMMA RowsAreRows ==
  ASSUME CourierTypeOK
  PROVE  /\ Incoming \subseteq 1..Len(messages) /\ Len(messages) \in Nat
         /\ \A i \in DOMAIN messages : messages[i] \in Rows /\ messages[i].ts \in Nat
         /\ \A min \in Nat : Since(min) \in SUBSET Rows
         /\ Cardinality(Incoming) \in Nat
<1>1. Len(messages) \in Nat /\ DOMAIN messages = 1..Len(messages)
  BY DEF CourierTypeOK
<1>2. \A i \in DOMAIN messages : messages[i] \in Rows
  BY <1>1 DEF CourierTypeOK
<1>3. \A r \in Rows : r.ts \in Nat
  BY DEF Rows
<1>4. Incoming \subseteq 1..Len(messages)
  BY <1>1 DEF Incoming
<1>5. \A min \in Nat : Since(min) \in SUBSET Rows
  BY <1>1, <1>2, <1>4 DEF Since, First
<1>6. Cardinality(Incoming) \in Nat
  <2>1. IsFiniteSet(1..Len(messages))
    BY <1>1, FS_Interval
  <2> QED
    BY <1>4, <2>1, FS_Subset, FS_CardinalityType
<1> QED
  BY <1>1, <1>2, <1>3, <1>4, <1>5, <1>6

\* A message is put after those that are there.
LEMMA OneMore ==
  ASSUME CourierTypeOK, NEW r \in Rows, messages' = Append(messages, r)
  PROVE  /\ messages' \in Seq(Rows) /\ Len(messages') = Len(messages) + 1
         /\ DOMAIN messages' = 1..(Len(messages) + 1)
         /\ \A i \in DOMAIN messages : i \in DOMAIN messages' /\ messages'[i] = messages[i]
         /\ messages'[Len(messages) + 1] = r
<1>1. messages \in Seq(Rows)
  BY DEF CourierTypeOK
<1> QED
  BY <1>1

LEMMA RowIn ==
  ASSUME NEW f \in BOOLEAN, NEW s \in BOOLEAN, NEW t \in 0..MaxNow, NEW n \in Nat
  PROVE  [from |-> f, ts |-> t, n |-> n, spoilt |-> s] \in Rows
BY Zenon DEF Rows

\* The messages that Store and Receive put in the table.
LEMMA NewRows ==
  ASSUME CourierTypeOK
  PROVE  /\ \A c \in Callers :
              [from |-> FALSE, ts |-> now, n |-> calls[c].arg, spoilt |-> FALSE] \in Rows
         /\ \A spoilt \in BOOLEAN :
              [from |-> TRUE, ts |-> now, n |-> Cardinality(Incoming) + 1,
               spoilt |-> spoilt] \in Rows
<1>1. \A c \in Callers : calls[c].arg \in Nat
  BY DEF CourierTypeOK, CallRecord
<1>2. Cardinality(Incoming) + 1 \in Nat
  BY RowsAreRows
<1>3. now \in 0..MaxNow
  BY DEF CourierTypeOK
<1>4. TRUE \in BOOLEAN /\ FALSE \in BOOLEAN
  OBVIOUS
<1> QED
  BY <1>1, <1>2, <1>3, <1>4, RowIn, Zenon

LEMMA InOrderAfter ==
  ASSUME CourierTypeOK, InOrder, NEW r \in Rows, messages' = Append(messages, r),
         r.ts = now, now' = now
  PROVE  InOrder'
<1>1. /\ DOMAIN messages = 1..Len(messages) /\ Len(messages) \in Nat
      /\ \A i \in DOMAIN messages : messages[i].ts \in Nat
  BY RowsAreRows DEF CourierTypeOK
<1>2. \A i \in DOMAIN messages' : i \in DOMAIN messages \/ i = Len(messages) + 1
  BY <1>1, OneMore
<1>3. now \in Nat
  BY CourierAssumption DEF CourierTypeOK
<1>4. \A i \in DOMAIN messages' : messages'[i].ts <= now'
  BY <1>2, <1>3, OneMore DEF InOrder
<1>5. ASSUME NEW i \in DOMAIN messages', NEW j \in DOMAIN messages', i < j
      PROVE  messages'[i].ts <= messages'[j].ts
  <2>1. i \in DOMAIN messages
    BY <1>1, <1>2, <1>5
  <2>2. CASE j \in DOMAIN messages
    BY <1>5, <2>1, <2>2, OneMore DEF InOrder
  <2>3. CASE j = Len(messages) + 1
    BY <2>1, <2>3, OneMore DEF InOrder
  <2> QED
    BY <1>2, <2>2, <2>3
<1> QED
  BY <1>4, <1>5 DEF InOrder

\* What the requests do to the table: nothing, or one message more.
LEMMA TableStep ==
  ASSUME CourierTypeOK, Moves
  PROVE  \/ messages' = messages /\ (now' = now \/ (now < MaxNow /\ now' = now + 1))
         \/ \E r \in Rows : messages' = Append(messages, r) /\ r.ts = now /\ now' = now
<1>1. ASSUME NEW c \in Callers, Serves(c), ~Store(c)
      PROVE  messages' = messages /\ now' = now
  BY <1>1, Zenon DEF Serves, LookForOwner, LookForRow, SaveOwner, Ready, Publish, Opens, Add,
     Send, Post, GetMessages, db
<1>2. ASSUME NEW c \in Callers, Store(c)
      PROVE  \E r \in Rows : messages' = Append(messages, r) /\ r.ts = now /\ now' = now
  BY <1>2, NewRows DEF Store
<1>3. ASSUME NEW spoilt \in BOOLEAN, Receive(spoilt)
      PROVE  \E r \in Rows : messages' = Append(messages, r) /\ r.ts = now /\ now' = now
  <2> DEFINE r == [from |-> TRUE, ts |-> now, n |-> Cardinality(Incoming) + 1,
                   spoilt |-> spoilt]
  <2>1. r \in Rows
    BY NewRows
  <2>2. messages' = Append(messages, r) /\ now' = now
    BY <1>3, Zenon DEF Receive
  <2>3. r.ts = now
    BY Zenon
  <2> QED
    BY <2>1, <2>2, <2>3
<1>4. TunnelCloses \/ Restart => messages' = messages /\ now' = now
  BY DEF TunnelCloses, Restart, db
<1>5. Tick => messages' = messages /\ now < MaxNow /\ now' = now + 1
  BY DEF Tick, db
<1>6. \A c, what, arg : Asks(c, what, arg) => messages' = messages /\ now' = now
  BY DEF Asks, db
<1>7. \A cs : Clears(cs) => messages' = messages /\ now' = now
  BY DEF Clears, db
<1>8. \/ messages' = messages /\ now' = now
      \/ Tick
      \/ \E c \in Callers : Store(c)
      \/ \E spoilt \in BOOLEAN : Receive(spoilt)
  BY <1>1, <1>4, <1>6, <1>7, Zenon DEF Moves, CourierNext
<1>9. CASE Tick
  BY <1>5, <1>9
<1>10. CASE \E c \in Callers : Store(c)
  BY <1>2, <1>10
<1>11. CASE \E spoilt \in BOOLEAN : Receive(spoilt)
  <2>1. \E r \in Rows : messages' = Append(messages, r) /\ r.ts = now /\ now' = now
    BY <1>3, <1>11, Zenon
  <2> QED
    BY <2>1
<1>12. CASE messages' = messages /\ now' = now
  BY <1>12
<1> QED
  BY <1>8, <1>9, <1>10, <1>11, <1>12

\* Each step leaves the requests with the shape they have.
LEMMA CallsType ==
  ASSUME CourierTypeOK, Moves
  PROVE  calls' \in [Callers -> CallRecord]
<1>1. ASSUME NEW c \in Callers, NEW ok, ok \in BOOLEAN, NEW rows \in SUBSET Rows,
             Answer(c, ok, rows)
      PROVE  calls' \in [Callers -> CallRecord]
  BY <1>1, Answered
<1>2. ASSUME NEW c \in Callers, NEW s \in Stages, calls' = [calls EXCEPT ![c].stage = s]
      PROVE  calls' \in [Callers -> CallRecord]
  BY <1>2, Staged
<1>3. ASSUME NEW c \in Callers, Serves(c) PROVE calls' \in [Callers -> CallRecord]
  <2>1. CASE LookForOwner(c)
    <3>1. CASE owner = None
      <4>1. calls' = [calls EXCEPT ![c].stage = "saving", ![c].value = option]
        BY <2>1, <3>1 DEF LookForOwner
      <4>2. option \in Claimants /\ "saving" \in Stages
        BY DEF CourierTypeOK, Stages
      <4> QED
        BY <4>1, <4>2, Valued
    <3>2. CASE owner # None
      <4>1. PICK s \in {"hung", "granted"} : calls' = [calls EXCEPT ![c].stage = s]
        BY <2>1, <3>2 DEF LookForOwner
      <4> QED
        BY <1>2, <4>1 DEF Stages
    <3> QED
      BY <3>1, <3>2
  <2>2. CASE LookForRow(c) \/ SaveOwner(c)
    <3>1. PICK s \in {"inserting", "updating", "hung", "granted"} :
            calls' = [calls EXCEPT ![c].stage = s]
      BY <2>2 DEF LookForRow, SaveOwner
    <3> QED
      BY <1>2, <3>1 DEF Stages
  <2>3. CASE Publish(c) \/ Send(c) \/ Post(c)
    <3>1. \/ \E s \in {"opening", "posting", "storing"} : calls' = [calls EXCEPT ![c].stage = s]
          \/ Answer(c, TRUE, {}) \/ Answer(c, FALSE, {})
      BY <2>3, Zenon DEF Publish, Send, Post
    <3>2. CASE Answer(c, TRUE, {}) \/ Answer(c, FALSE, {})
      BY <1>1, <3>2, Zenon
    <3>3. CASE \E s \in {"opening", "posting", "storing"} : calls' = [calls EXCEPT ![c].stage = s]
      BY <1>2, <3>3 DEF Stages
    <3> QED
      BY <3>1, <3>2, <3>3
  <2>4. CASE Ready(c) \/ Opens(c) \/ Add(c) \/ Store(c)
    <3>1. \E ok \in BOOLEAN : Answer(c, ok, {})
      BY <2>4, Zenon DEF Ready, Opens, Add, Store, CourierTypeOK
    <3> QED
      BY <1>1, <3>1, Zenon
  <2>5. CASE GetMessages(c)
    <3>1. Since(calls[c].arg) \in SUBSET Rows
      BY RowsAreRows DEF CourierTypeOK, CallRecord
    <3>2. {} \in SUBSET Rows
      OBVIOUS
    <3> QED
      BY <1>1, <2>5, <3>1, <3>2, Zenon DEF GetMessages
  <2> QED
    BY <1>3, <2>1, <2>2, <2>3, <2>4, <2>5, Zenon DEF Serves
<1>4. CASE Restart
  <2>1. \A c \in Callers : [calls[c] EXCEPT !.stage = "denied"] \in CallRecord
    BY StageRecord DEF CourierTypeOK, Stages
  <2>2. \A c \in Callers : calls[c] \in CallRecord
    BY DEF CourierTypeOK
  <2>3. calls' = [c \in Callers |-> IF calls[c].stage \in InFlight
                                    THEN [calls[c] EXCEPT !.stage = "denied"] ELSE calls[c]]
    BY <1>4 DEF Restart
  <2> QED
    BY <2>1, <2>2, <2>3, Zenon
<1>5. CASE (\E spoilt \in BOOLEAN : Receive(spoilt)) \/ TunnelCloses \/ Tick
  <2>1. calls' = calls
    BY <1>5, Zenon DEF Receive, TunnelCloses, Tick
  <2> QED
    BY <2>1 DEF CourierTypeOK
<1>6. ASSUME NEW c \in Callers, NEW what \in Whats, NEW arg \in Nat, Asks(c, what, arg)
      PROVE  calls' \in [Callers -> CallRecord]
  BY <1>6, Requested DEF Asks
<1>7. ASSUME NEW cs, Clears(cs) PROVE calls' \in [Callers -> CallRecord]
  BY <1>7, ClearedCalls
<1> QED
  BY <1>3, <1>4, <1>5, <1>6, <1>7, Zenon DEF Moves, CourierNext

LEMMA CourierTypeNext ==
  ASSUME CourierTypeOK, InOrder, Moves
  PROVE  CourierTypeOK' /\ InOrder'
<1>1. calls' \in [Callers -> CallRecord]
  BY CallsType
<1>2. messages' \in Seq(Rows) /\ now' \in 0..MaxNow /\ InOrder'
  <2>1. CASE messages' = messages /\ (now' = now \/ (now < MaxNow /\ now' = now + 1))
    <3>1. MaxNow \in Nat
      BY CourierAssumption
    <3>2. now \in 0..MaxNow /\ messages \in Seq(Rows)
      BY DEF CourierTypeOK
    <3>3. now' \in 0..MaxNow /\ now' \in Nat /\ now <= now'
      BY <2>1, <3>1, <3>2
    <3>4. \A i \in DOMAIN messages : messages[i].ts \in Nat
      BY RowsAreRows
    <3>5. InOrder'
      BY <2>1, <3>2, <3>3, <3>4 DEF InOrder
    <3> QED
      BY <2>1, <3>2, <3>3, <3>5
  <2>2. ASSUME NEW r \in Rows, messages' = Append(messages, r), r.ts = now, now' = now
        PROVE  messages' \in Seq(Rows) /\ now' \in 0..MaxNow /\ InOrder'
    BY <2>2, OneMore, InOrderAfter DEF CourierTypeOK
  <2> QED
    BY <2>1, <2>2, TableStep
<1>3. active' \in BOOLEAN
  <2>1. active \in BOOLEAN
    BY DEF CourierTypeOK
  <2>2. active' \in {active, TRUE, FALSE}
    BY Zenon DEF Moves, CourierNext, Serves, LookForOwner, LookForRow, SaveOwner, Ready, Publish,
       Opens, Add, Send, Post, Store, GetMessages, Receive, TunnelCloses, Restart, Tick,
       Asks, Clears, server
  <2> QED
    BY <2>1, <2>2
<1>4. owner' \in Claimants /\ option' \in Claimants
  <2>1. owner \in Claimants /\ option \in Claimants /\ None \in Claimants
    BY DEF CourierTypeOK, Claimants
  <2>2. \A c \in Callers : calls[c].value \in Claimants
    BY DEF CourierTypeOK, CallRecord
  <2>3. \/ owner' = owner /\ option' = option
        \/ owner' = owner /\ option' = None
        \/ option' = option /\ \E c \in Callers : owner' = calls[c].value
        \/ owner' = owner /\ \E c \in Callers, what \in Whats, arg \in Nat : Asks(c, what, arg)
    BY Zenon DEF Moves, CourierNext, Serves, LookForOwner, LookForRow, SaveOwner, Ready, Publish,
       Opens, Add, Send, Post, Store, GetMessages, Receive, TunnelCloses, Restart, Tick,
       Asks, Clears, server, db
  <2>4. \A c \in Callers, what \in Whats, arg \in Nat : Asks(c, what, arg) => option' \in Claimants
    BY Requested DEF Asks
  <2> QED
    BY <2>1, <2>2, <2>3, <2>4
<1> QED
  BY <1>1, <1>2, <1>3, <1>4 DEF CourierTypeOK

-----------------------------------------------------------------------------
(* The owner.                                                                *)

\* A step that claims nothing and lets nobody through.
LEMMA OwnerQuiet ==
  ASSUME OwnerInv, UNCHANGED <<owner, option, auth>>, raced' = raced,
         \A c \in Callers : calls'[c].stage \in Claiming \cup {"granted"} =>
             calls'[c].stage = calls[c].stage /\ calls'[c].value = calls[c].value
  PROVE  OwnerInv'
BY DEF OwnerInv, OwnerAgrees, OneClaim, Claiming

LEMMA AccountsAreSome == \A c \in Callers : AccountOf[c] # None
BY CourierAssumption

\* The claim on its way through the awaits of the middleware and setOwner.
LEMMA ClaimStep ==
  ASSUME CourierTypeOK, OwnerInv, NEW c \in Callers,
         LookForOwner(c) \/ LookForRow(c) \/ SaveOwner(c)
  PROVE  OwnerInv'
<1>1. raced' = raced /\ option' = option
  BY DEF LookForOwner, LookForRow, SaveOwner, server
<1>2. SUFFICES ASSUME ~raced PROVE OwnerAgrees' /\ OneClaim'
  BY <1>1 DEF OwnerInv, OwnerAgrees
<1>3. /\ auth \in {None, owner}
      /\ \A d \in Callers : calls[d].stage = "granted" => AccountOf[d] = owner
      /\ OneClaim
  BY <1>2 DEF OwnerInv, OwnerAgrees
<1>4. CASE LookForOwner(c) /\ owner = None
  <2>1. calls' = [calls EXCEPT ![c].stage = "saving", ![c].value = option]
    BY <1>4 DEF LookForOwner
  <2>2. /\ calls'[c].stage = "saving" /\ calls'[c].value = option
        /\ \A d \in Callers \ {c} : calls'[d] = calls[d]
    BY <2>1, Valued DEF Stages, CourierTypeOK
  <2>3. calls[c].stage = "looking" /\ owner' = owner /\ auth' = auth
    BY <1>4 DEF LookForOwner, db
  <2> QED
    BY <1>1, <1>3, <1>4, <2>2, <2>3 DEF OwnerAgrees, OneClaim, Claiming
<1>5. CASE LookForOwner(c) /\ owner # None /\ owner # option
  <2>1. calls' = [calls EXCEPT ![c].stage = "hung"] /\ owner' = owner /\ auth' = auth
    BY <1>5 DEF LookForOwner, db
  <2>2. calls'[c].stage = "hung" /\ \A d \in Callers \ {c} : calls'[d] = calls[d]
    BY <2>1, Staged DEF Stages
  <2> QED
    BY <1>1, <1>3, <2>1, <2>2 DEF OwnerAgrees, OneClaim, Claiming
<1>6. CASE LookForOwner(c) /\ owner # None /\ owner = option
  <2>1. /\ calls' = [calls EXCEPT ![c].stage = "granted"] /\ owner' = owner
        /\ auth' = AccountOf[c] /\ calls[c].stage = "looking"
    BY <1>6 DEF LookForOwner, db
  <2>2. calls'[c].stage = "granted" /\ \A d \in Callers \ {c} : calls'[d] = calls[d]
    BY <2>1, Staged DEF Stages
  <2>3. AccountOf[c] = owner
    BY <1>3, <1>6, <2>1 DEF OneClaim, Claiming
  <2> QED
    BY <1>1, <1>3, <2>1, <2>2, <2>3 DEF OwnerAgrees, OneClaim, Claiming
<1>7. CASE LookForRow(c)
  <2>1. PICK s \in {"inserting", "updating"} : calls' = [calls EXCEPT ![c].stage = s]
    BY <1>7 DEF LookForRow
  <2>2. /\ calls'[c].stage \in {"inserting", "updating"} /\ calls'[c].value = calls[c].value
        /\ \A d \in Callers \ {c} : calls'[d] = calls[d]
    BY <2>1, Staged DEF Stages
  <2>3. calls[c].stage = "saving" /\ owner' = owner /\ auth' = auth
    BY <1>7 DEF LookForRow, db, server
  <2> QED
    BY <1>1, <1>3, <2>2, <2>3 DEF OwnerAgrees, OneClaim, Claiming
<1>8. CASE SaveOwner(c) /\ calls[c].stage = "inserting" /\ owner # None
  <2>1. calls' = [calls EXCEPT ![c].stage = "hung"] /\ owner' = owner /\ auth' = auth
    BY <1>8 DEF SaveOwner
  <2>2. calls'[c].stage = "hung" /\ \A d \in Callers \ {c} : calls'[d] = calls[d]
    BY <2>1, Staged DEF Stages
  <2> QED
    BY <1>1, <1>3, <2>1, <2>2 DEF OwnerAgrees, OneClaim, Claiming
<1>9. CASE SaveOwner(c) /\ ~(calls[c].stage = "inserting" /\ owner # None)
  <2>1. /\ calls' = [calls EXCEPT ![c].stage = "granted"] /\ owner' = calls[c].value
        /\ auth' = AccountOf[c] /\ calls[c].stage \in {"inserting", "updating"}
    BY <1>9 DEF SaveOwner
  <2>2. calls'[c].stage = "granted" /\ \A d \in Callers \ {c} : calls'[d] = calls[d]
    BY <2>1, Staged DEF Stages
  <2>3. AccountOf[c] = option /\ owner' = option /\ owner \in {None, option}
    BY <1>3, <2>1 DEF OneClaim, Claiming
  <2>4. \A d \in Callers : calls[d].stage = "granted" => AccountOf[d] = option
    BY <1>3, <2>3, AccountsAreSome
  <2> QED
    BY <1>1, <1>3, <2>1, <2>2, <2>3, <2>4 DEF OwnerAgrees, OneClaim, Claiming
<1> QED
  BY <1>4, <1>5, <1>6, <1>7, <1>8, <1>9

\* A new request, in an order of its own with the claims that are there.
LEMMA AskStep ==
  ASSUME CourierTypeOK, OwnerInv, NEW c \in Callers, NEW what \in Whats, NEW arg \in Nat,
         Asks(c, what, arg)
  PROVE  OwnerInv'
<1>1. owner' = owner /\ auth' = auth
  BY DEF Asks, db
<1>2. /\ \A d \in Callers \ {c} : calls'[d] = calls[d]
      /\ calls'[c].stage \in {"looking", "granted", "denied"}
      /\ calls'[c].stage = "looking" <=> auth = None
      /\ calls'[c].stage = "granted" => auth = AccountOf[c]
  BY Requested DEF Asks
<1>3. SUFFICES ASSUME ~raced' PROVE OwnerAgrees' /\ OneClaim'
  BY DEF OwnerInv, OwnerAgrees
<1>4. ~raced
  BY <1>3 DEF Asks, Request
<1>5. /\ auth \in {None, owner}
      /\ \A d \in Callers : calls[d].stage = "granted" => AccountOf[d] = owner
      /\ OneClaim
  BY <1>4 DEF OwnerInv, OwnerAgrees
<1>6. OwnerAgrees'
  BY <1>1, <1>2, <1>5, AccountsAreSome DEF OwnerAgrees
<1>7. CASE auth = None
  <2>1. option' = AccountOf[c]
    BY <1>7 DEF Asks, Request
  <2>2. \A d \in Callers : calls[d].stage \in Claiming => AccountOf[d] = AccountOf[c]
    <3>1. ~ \E d \in Callers : AccountOf[d] # AccountOf[c] /\ calls[d].stage \in Claiming
      BY <1>3, <1>7 DEF Asks, Request
    <3> QED
      BY <3>1
  <2>3. \A d \in Callers : calls[d].stage \in Claiming => option' = option
    BY <1>5, <2>1, <2>2 DEF OneClaim
  <2>4. ASSUME NEW d \in Callers
        PROVE  /\ calls'[d].stage \in Claiming => AccountOf[d] = option'
               /\ calls'[d].stage \in Claiming \ {"looking"} =>
                    calls'[d].value = option' /\ owner' \in {None, option'}
    <3>1. CASE d = c
      BY <1>2, <2>1, <3>1 DEF Claiming
    <3>2. CASE d # c
      BY <1>1, <1>2, <1>5, <2>3, <3>2 DEF OneClaim
    <3> QED
      BY <3>1, <3>2
  <2> QED
    BY <1>6, <2>4 DEF OneClaim
<1>8. CASE auth # None
  <2>1. option' = option
    BY <1>8 DEF Asks, Request
  <2> QED
    BY <1>1, <1>2, <1>5, <1>6, <1>8, <2>1 DEF OneClaim, Claiming
<1> QED
  BY <1>7, <1>8

LEMMA OwnerNext ==
  ASSUME CourierTypeOK, OwnerInv, Moves
  PROVE  OwnerInv'
<1>1. ASSUME NEW c \in Callers, Serves(c) PROVE OwnerInv'
  <2>1. CASE LookForOwner(c) \/ LookForRow(c) \/ SaveOwner(c)
    BY <2>1, ClaimStep
  <2>2. CASE ~(LookForOwner(c) \/ LookForRow(c) \/ SaveOwner(c))
    <3>1. UNCHANGED <<owner, option, auth>> /\ raced' = raced
      BY <1>1, <2>2, Zenon DEF Serves, Ready, Publish, Opens, Add, Send, Post, Store, GetMessages,
         db, server
    <3>2. \/ \E s \in {"opening", "posting", "storing"} : calls' = [calls EXCEPT ![c].stage = s]
          \/ \E ok, rows : Answer(c, ok, rows)
      BY <1>1, <2>2, Zenon DEF Serves, Ready, Publish, Opens, Add, Send, Post, Store, GetMessages,
         CourierTypeOK
    <3>3. /\ \A d \in Callers \ {c} : calls'[d] = calls[d]
          /\ calls'[c].stage \notin Claiming \cup {"granted"}
      <4>1. CASE \E s \in {"opening", "posting", "storing"} : calls' = [calls EXCEPT ![c].stage = s]
        BY <4>1, Staged DEF Stages, Claiming
      <4>2. ASSUME NEW ok, NEW rows, Answer(c, ok, rows)
            PROVE  /\ \A d \in Callers \ {c} : calls'[d] = calls[d]
                   /\ calls'[c].stage = "answered"
        BY <4>2 DEF Answer, CourierTypeOK, CallRecord
      <4> QED
        BY <3>2, <4>1, <4>2 DEF Claiming
    <3> QED
      BY <3>1, <3>3, OwnerQuiet
  <2> QED
    BY <2>1, <2>2
<1>2. CASE Restart
  <2>1. /\ option' = None /\ auth' = None /\ owner' = owner /\ raced' = raced
        /\ calls' = [c \in Callers |-> IF calls[c].stage \in InFlight
                       THEN [calls[c] EXCEPT !.stage = "denied"] ELSE calls[c]]
    BY <1>2 DEF Restart, db
  <2>2. \A c \in Callers : calls'[c].stage \notin InFlight
    BY <2>1 DEF InFlight, CourierTypeOK, CallRecord
  <2> QED
    BY <2>1, <2>2 DEF OwnerInv, OwnerAgrees, OneClaim, InFlight, Claiming
<1>3. CASE (\E spoilt \in BOOLEAN : Receive(spoilt)) \/ TunnelCloses \/ Tick
  <2>1. calls' = calls /\ UNCHANGED <<owner, option, auth>> /\ raced' = raced
    BY <1>3, Zenon DEF Receive, TunnelCloses, Tick, db, server
  <2> QED
    BY <2>1, OwnerQuiet
<1>4. ASSUME NEW c \in Callers, NEW what \in Whats, NEW arg \in Nat, Asks(c, what, arg)
      PROVE  OwnerInv'
  BY <1>4, AskStep
<1>5. ASSUME NEW cs, Clears(cs) PROVE OwnerInv'
  <2>1. UNCHANGED <<owner, option, auth>> /\ raced' = raced
    BY <1>5 DEF Clears, db, server
  <2>2. \A d \in Callers : calls'[d] = Idle \/ calls'[d] = calls[d]
    BY <1>5, ClearedCalls
  <2>3. Idle.stage \notin Claiming \cup {"granted"}
    BY DEF Idle, Claiming
  <2> QED
    BY <2>1, <2>2, <2>3, OwnerQuiet
<1> QED
  BY <1>1, <1>2, <1>3, <1>4, <1>5, Zenon DEF Moves, CourierNext

-----------------------------------------------------------------------------
(* What was sent.                                                            *)

\* Nothing that was delivered, or that is in the history, is taken back.
LEMMA HistoryStays ==
  ASSUME CourierTypeOK, Moves
  PROVE  /\ delivered \subseteq delivered'
         /\ \A n : SentIn(messages, n) => SentIn(messages', n)
<1>1. delivered \subseteq delivered'
  BY DEF Moves, CourierNext, Serves, LookForOwner, LookForRow, SaveOwner, Ready, Publish,
     Opens, Add, Send, Post, Store, GetMessages, Receive, TunnelCloses, Restart, Tick,
     Asks, Clears
<1>2. ASSUME NEW n, SentIn(messages, n) PROVE SentIn(messages', n)
  <2>1. PICK i \in DOMAIN messages : ~messages[i].from /\ messages[i].n = n
    BY <1>2 DEF SentIn
  <2>2. i \in DOMAIN messages' /\ messages'[i] = messages[i]
    BY <2>1, TableStep, OneMore
  <2> QED
    BY <2>1, <2>2, Zenon DEF SentIn
<1> QED
  BY <1>1, <1>2

\* A request that does not move stays honest.
LEMMA HonestStays ==
  ASSUME CourierTypeOK, Moves, NEW r, Honest(r, delivered, messages)
  PROVE  Honest(r, delivered', messages')
BY HistoryStays, Zenon DEF Honest

\* So are all of them, when only that of c moves, to where it may.
LEMMA SendsQuiet ==
  ASSUME CourierTypeOK, SendsHonestly, Moves, NEW c \in Callers,
         \A d \in Callers \ {c} : calls'[d] = calls[d],
         Honest(calls'[c], delivered', messages')
  PROVE  SendsHonestly'
<1>1. ASSUME NEW d \in Callers \ {c} PROVE Honest(calls'[d], delivered', messages')
  <2>1. calls'[d] = calls[d] /\ Honest(calls[d], delivered, messages)
    BY DEF SendsHonestly
  <2> QED
    BY <2>1, HonestStays, Zenon
<1> QED
  BY <1>1, Zenon DEF SendsHonestly

LEMMA SendsNext ==
  ASSUME CourierTypeOK, SendsHonestly, Moves
  PROVE  SendsHonestly'
<1>1. ASSUME NEW c \in Callers, NEW s \in Stages \ {"posting", "opening", "storing", "answered"},
             calls' = [calls EXCEPT ![c].stage = s]
      PROVE  SendsHonestly'
  <2>1. calls'[c].stage = s /\ \A d \in Callers \ {c} : calls'[d] = calls[d]
    BY <1>1, Staged
  <2>2. Honest(calls'[c], delivered', messages')
    BY <2>1 DEF Honest
  <2> QED
    BY <2>1, <2>2, SendsQuiet
<1>2. ASSUME NEW c \in Callers, NEW ok, NEW rows, Answer(c, ok, rows),
             ok => calls[c].what # "send"
      PROVE  SendsHonestly'
  <2>1. /\ calls'[c].stage = "answered" /\ calls'[c].ok = ok /\ calls'[c].what = calls[c].what
        /\ \A d \in Callers \ {c} : calls'[d] = calls[d]
    BY <1>2 DEF Answer, CourierTypeOK, CallRecord
  <2>2. Honest(calls'[c], delivered', messages')
    BY <1>2, <2>1, Zenon DEF Honest
  <2> QED
    BY <2>1, <2>2, SendsQuiet
<1>3. ASSUME NEW c \in Callers, Serves(c) PROVE SendsHonestly'
  <2>1. CASE LookForOwner(c)
    <3>1. CASE owner = None
      <4>1. calls' = [calls EXCEPT ![c].stage = "saving", ![c].value = option]
        BY <2>1, <3>1 DEF LookForOwner
      <4>2. calls'[c].stage = "saving" /\ \A d \in Callers \ {c} : calls'[d] = calls[d]
        BY <4>1, Valued DEF Stages, CourierTypeOK
      <4>3. Honest(calls'[c], delivered', messages')
        BY <4>2 DEF Honest
      <4> QED
        BY <4>2, <4>3, SendsQuiet
    <3>2. CASE owner # None
      <4>1. PICK s \in {"hung", "granted"} : calls' = [calls EXCEPT ![c].stage = s]
        BY <2>1, <3>2 DEF LookForOwner
      <4> QED
        BY <1>1, <4>1 DEF Stages
    <3> QED
      BY <3>1, <3>2
  <2>2. CASE LookForRow(c) \/ SaveOwner(c)
    <3>1. PICK s \in {"inserting", "updating", "hung", "granted"} :
            calls' = [calls EXCEPT ![c].stage = s]
      BY <2>2 DEF LookForRow, SaveOwner
    <3> QED
      BY <1>1, <3>1 DEF Stages
  <2>3. CASE Ready(c) \/ Add(c) \/ GetMessages(c)
    <3>1. calls[c].what # "send"
      BY <2>3 DEF Ready, Add, GetMessages, Granted
    <3>2. \E ok, rows : Answer(c, ok, rows)
      BY <2>3, Zenon DEF Ready, Add, GetMessages
    <3> QED
      BY <1>2, <3>1, <3>2, Zenon
  <2>4. CASE Publish(c) \/ Opens(c)
    <3>1. calls[c].what = "publish"
      BY <2>4 DEF Publish, Opens, Granted, SendsHonestly, Honest
    <3>2. CASE \E ok, rows : Answer(c, ok, rows)
      <4>1. calls[c].what # "send"
        BY <3>1
      <4> QED
        BY <1>2, <3>2, <4>1, Zenon
    <3>3. CASE calls' = [calls EXCEPT ![c].stage = "opening"]
      <4>1. /\ calls'[c].stage = "opening" /\ calls'[c].what = "publish"
            /\ \A d \in Callers \ {c} : calls'[d] = calls[d]
        BY <3>1, <3>3, Staged DEF Stages
      <4>2. Honest(calls'[c], delivered', messages')
        BY <4>1 DEF Honest
      <4> QED
        BY <4>1, <4>2, SendsQuiet
    <3> QED
      BY <2>4, <3>2, <3>3, Zenon DEF Publish, Opens
  <2>5. CASE Answer(c, FALSE, {})
    BY <1>2, <2>5, Zenon
  <2>6. CASE Send(c) /\ calls' = [calls EXCEPT ![c].stage = "posting"]
    <3>1. calls[c].what = "send"
      BY <2>6 DEF Send, Granted
    <3>2. /\ calls'[c].stage = "posting" /\ calls'[c].what = "send"
          /\ \A d \in Callers \ {c} : calls'[d] = calls[d]
      BY <2>6, <3>1, Staged DEF Stages
    <3>3. Honest(calls'[c], delivered', messages')
      BY <3>2 DEF Honest
    <3> QED
      BY <3>2, <3>3, SendsQuiet
  <2>7. CASE Post(c) /\ delivered' = delivered \cup {calls[c].arg}
                     /\ calls' = [calls EXCEPT ![c].stage = "storing"]
    <3>1. calls[c].what = "send"
      BY <2>7 DEF Post, SendsHonestly, Honest
    <3>2. /\ calls'[c].stage = "storing" /\ calls'[c].what = "send"
          /\ calls'[c].arg = calls[c].arg /\ \A d \in Callers \ {c} : calls'[d] = calls[d]
      BY <2>7, <3>1, Staged DEF Stages
    <3>3. Honest(calls'[c], delivered', messages')
      BY <2>7, <3>2 DEF Honest
    <3> QED
      BY <3>2, <3>3, SendsQuiet
  <2>8. CASE Store(c)
    <3>1. calls[c].what = "send" /\ calls[c].arg \in delivered /\ delivered' = delivered
      BY <2>8 DEF Store, SendsHonestly, Honest
    <3>2. /\ calls'[c].stage = "answered" /\ calls'[c].arg = calls[c].arg
          /\ \A d \in Callers \ {c} : calls'[d] = calls[d]
      BY <2>8 DEF Store, Answer, CourierTypeOK, CallRecord
    <3>3. SentIn(messages', calls[c].arg)
      <4> DEFINE r == [from |-> FALSE, ts |-> now, n |-> calls[c].arg, spoilt |-> FALSE]
      <4>1. r \in Rows /\ messages' = Append(messages, r)
        BY <2>8, NewRows, Zenon DEF Store
      <4>2. ~r.from /\ r.n = calls[c].arg
        OBVIOUS
      <4> HIDE DEF r
      <4>3. /\ messages'[Len(messages) + 1] = r /\ Len(messages) \in Nat
            /\ DOMAIN messages' = 1..(Len(messages) + 1)
        BY <4>1, OneMore, RowsAreRows
      <4>4. Len(messages) + 1 \in DOMAIN messages'
        BY <4>3
      <4> QED
        BY <4>2, <4>3, <4>4, Zenon DEF SentIn
    <3>4. Honest(calls'[c], delivered', messages')
      BY <3>1, <3>2, <3>3 DEF Honest
    <3> QED
      BY <3>2, <3>4, SendsQuiet
  <2> QED
    BY <1>3, <2>1, <2>2, <2>3, <2>4, <2>5, <2>6, <2>7, <2>8, Zenon DEF Serves, Send, Post
<1>4. CASE Restart
  <2>1. calls' = [c \in Callers |-> IF calls[c].stage \in InFlight
                       THEN [calls[c] EXCEPT !.stage = "denied"] ELSE calls[c]]
    BY <1>4 DEF Restart
  <2>2. ASSUME NEW c \in Callers PROVE Honest(calls'[c], delivered', messages')
    <3>1. CASE calls[c].stage \in InFlight
      <4>1. calls'[c].stage = "denied"
        BY <2>1, <3>1 DEF CourierTypeOK, CallRecord
      <4> QED
        BY <4>1 DEF Honest
    <3>2. CASE calls[c].stage \notin InFlight
      <4>1. calls'[c] = calls[c] /\ Honest(calls[c], delivered, messages)
        BY <2>1, <3>2 DEF SendsHonestly
      <4> QED
        BY <4>1, HonestStays, Zenon
    <3> QED
      BY <3>1, <3>2
  <2> QED
    BY <2>2, Zenon DEF SendsHonestly
<1>5. CASE (\E spoilt \in BOOLEAN : Receive(spoilt)) \/ TunnelCloses \/ Tick
  <2>1. calls' = calls
    BY <1>5, Zenon DEF Receive, TunnelCloses, Tick
  <2> QED
    BY <2>1, HonestStays, Zenon DEF SendsHonestly
<1>6. ASSUME NEW c \in Callers, NEW what \in Whats, NEW arg \in Nat, Asks(c, what, arg)
      PROVE  SendsHonestly'
  <2>1. /\ \A d \in Callers \ {c} : calls'[d] = calls[d]
        /\ calls'[c].stage \in {"looking", "granted", "denied"}
    BY <1>6, Requested DEF Asks
  <2>2. Honest(calls'[c], delivered', messages')
    BY <2>1 DEF Honest
  <2> QED
    BY <2>1, <2>2, SendsQuiet
<1>7. ASSUME NEW cs, Clears(cs) PROVE SendsHonestly'
  <2>1. ASSUME NEW c \in Callers PROVE Honest(calls'[c], delivered', messages')
    <3>1. CASE calls'[c] = calls[c]
      BY <3>1, HonestStays, Zenon DEF SendsHonestly
    <3>2. CASE calls'[c] = Idle
      <4>1. Idle.stage = "idle"
        BY DEF Idle
      <4> QED
        BY <3>2, <4>1 DEF Honest
    <3> QED
      BY <1>7, <3>1, <3>2, ClearedCalls
  <2> QED
    BY <2>1, Zenon DEF SendsHonestly
<1> QED
  BY <1>3, <1>4, <1>5, <1>6, <1>7, Zenon DEF Moves, CourierNext

-----------------------------------------------------------------------------
(* The types of the chat.                                                    *)

\* One loop moves on, to a record that is of the type.
LEMMA LoopMoves ==
  ASSUME ChatTypeOK, NEW l \in Loops, NEW r \in LoopRecord, loops' = [loops EXCEPT ![l] = r]
  PROVE  /\ loops' \in [Loops -> LoopRecord] /\ loops'[l] = r
         /\ \A k \in Loops \ {l} : loops'[k] = loops[k]
BY DEF ChatTypeOK

LEMMA LoopStaged ==
  ASSUME ChatTypeOK, NEW l \in Loops, NEW s \in LoopStages,
         loops' = [loops EXCEPT ![l].stage = s]
  PROVE  /\ loops' \in [Loops -> LoopRecord] /\ loops'[l].stage = s
         /\ loops'[l].value = loops[l].value /\ loops'[l].rows = loops[l].rows
         /\ \A k \in Loops \ {l} : loops'[k] = loops[k]
<1>1. /\ [loops[l] EXCEPT !.stage = s] \in LoopRecord
      /\ loops' = [loops EXCEPT ![l] = [loops[l] EXCEPT !.stage = s]]
  BY DEF ChatTypeOK, LoopRecord
<1> QED
  BY <1>1, LoopMoves DEF ChatTypeOK, LoopRecord

LEMMA OffRecord ==
  /\ Off \in LoopRecord /\ [Off EXCEPT !.stage = "sleeping"] \in LoopRecord
  /\ Off.rows = {} /\ Off.value = 0 /\ Off.stage = "off"
  /\ [Off EXCEPT !.stage = "sleeping"].rows = {}
  /\ [Off EXCEPT !.stage = "sleeping"].value = 0
  /\ [Off EXCEPT !.stage = "sleeping"].stage = "sleeping"
BY DEF Off, LoopRecord, LoopStages

\* What a loop hears: a time that is not before what it was, and the rows.
LEMMA Heard ==
  ASSUME CourierTypeOK, ChatTypeOK, NEW l \in Loops, Hears(l), Good(l)
  PROVE  /\ latest' = IF Newest(calls[l].rows) > latest THEN Newest(calls[l].rows) ELSE latest
         /\ latest' \in Nat /\ calls[l].rows \in SUBSET Rows
         /\ loops' \in [Loops -> LoopRecord]
         /\ loops'[l] = [stage |-> "saving", value |-> latest', rows |-> calls[l].rows]
         /\ \A k \in Loops \ {l} : loops'[k] = loops[k]
<1>1. calls[l].rows \in SUBSET Rows
  BY Who DEF CourierTypeOK, CallRecord
<1>2. Newest(calls[l].rows) \in Nat
  BY <1>1, NewestOf
<1>3. latest' = IF Newest(calls[l].rows) > latest THEN Newest(calls[l].rows) ELSE latest
  BY DEF Hears
<1>4. latest' \in Nat
  BY <1>2, <1>3 DEF ChatTypeOK
<1>5. [stage |-> "saving", value |-> latest', rows |-> calls[l].rows] \in LoopRecord
  BY <1>1, <1>4 DEF LoopRecord, LoopStages
<1>6. loops' = [loops EXCEPT ![l] = [stage |-> "saving", value |-> latest',
                                     rows |-> calls[l].rows]]
  BY <1>3 DEF Hears
<1> QED
  BY <1>1, <1>3, <1>4, <1>5, <1>6, LoopMoves

\* The loops keep their shape.
LEMMA LoopsType ==
  ASSUME CourierTypeOK, ChatTypeOK, [Next]_vars
  PROVE  loops' \in [Loops -> LoopRecord]
<1>1. ASSUME NEW l \in Loops, Loop(l) PROVE loops' \in [Loops -> LoopRecord]
  <2>1. CASE \E s \in {"asking", "showing"} : loops' = [loops EXCEPT ![l].stage = s]
    BY <2>1, LoopStaged DEF LoopStages
  <2>2. CASE \/ loops' = [loops EXCEPT ![l] = Off]
             \/ loops' = [loops EXCEPT ![l] = [Off EXCEPT !.stage = "sleeping"]]
    BY <2>2, OffRecord, LoopMoves
  <2>3. CASE Hears(l) /\ Good(l)
    BY <2>3, Heard
  <2> QED
    BY <1>1, <2>1, <2>2, <2>3, Zenon DEF Loop, Wakes, Hears, Saves, Prints
<1>2. CASE Kill
  BY <1>2, OffRecord DEF Kill
<1>3. CASE Prepared /\ Joins
  BY <1>3, LoopStaged DEF Joins, LoopStages
<1>4. CASE loops' = loops
  BY <1>4 DEF ChatTypeOK
<1> QED
  BY <1>1, <1>2, <1>3, <1>4, Zenon DEF Next, vars, chatVars, Begin, InitCourier, Leave, Show,
     GoesOn, SetUpCourier, AskToPublish, Prepared, NotPrepared, Enter, SendEnds, ShowEnds,
     LeaveEnds, OtherAsks

\* What the environment, the command and the memory of the chat may become.
LEMMA Writes ==
  ASSUME ChatTypeOK, [Next]_vars
  PROVE  /\ \/ lastRead' = lastRead \/ lastRead' = command.snap
            \/ \E l \in Loops : Saves(l) /\ lastRead' = loops[l].value
         /\ \/ latest' = latest \/ latest' = lastRead \/ latest' = 0
            \/ \E l \in Loops : Hears(l) /\ Good(l)
         /\ \/ command'.snap = command.snap \/ command'.snap = lastRead \/ command'.snap = 0
         /\ command' \in [name : Commands, snap : Nat]
         /\ commands' \in {commands, commands + 1}
<1>1. \/ lastRead' = lastRead \/ lastRead' = command.snap
      \/ \E l \in Loops : Saves(l) /\ lastRead' = loops[l].value
  BY Zenon DEF Next, vars, chatVars, Begin, InitCourier, Leave, Show, Free,
     GoesOn, SetUpCourier, AskToPublish, Prepared, NotPrepared, Enter, SendEnds, ShowEnds,
     LeaveEnds, OtherAsks, Loop, Wakes, Hears, Saves, Prints, Kill
<1>2. \/ latest' = latest \/ latest' = lastRead \/ latest' = 0
      \/ \E l \in Loops : Hears(l) /\ Good(l)
  BY Zenon DEF Next, vars, chatVars, Begin, InitCourier, Leave, Show, Free,
     GoesOn, SetUpCourier, AskToPublish, Prepared, NotPrepared, Enter, SendEnds, ShowEnds,
     LeaveEnds, OtherAsks, Loop, Wakes, Hears, Saves, Prints, Kill
<1>3. \/ command' = command \/ command' = NoCommand
      \/ command.name = "courier" /\ command' = [command EXCEPT !.name = "setup"]
      \/ \E name \in Commands : command' = [name |-> name, snap |-> lastRead]
  <2>1. "chat" \in Commands /\ "join" \in Commands /\ "send" \in Commands
        /\ "courier" \in Commands /\ "setup" \in Commands /\ "leave" \in Commands
        /\ "show" \in Commands
    BY DEF Commands
  <2> QED
    BY <2>1, Zenon DEF Next, vars, chatVars, Begin, InitCourier, Leave, Show, Free, Ends, Joins,
     GoesOn, SetUpCourier, AskToPublish, Prepared, NotPrepared, Enter, SendEnds, ShowEnds,
     LeaveEnds, OtherAsks, Loop, Wakes, Hears, Saves, Prints, Kill
<1>4. command' \in [name : Commands, snap : Nat]
      /\ (command'.snap = command.snap \/ command'.snap = lastRead \/ command'.snap = 0)
  BY <1>3 DEF ChatTypeOK, NoCommand, Commands
<1>5. commands' \in {commands, commands + 1}
  BY Zenon DEF Next, vars, chatVars, Begin, InitCourier, Leave, Show, Free,
     GoesOn, SetUpCourier, AskToPublish, Prepared, NotPrepared, Enter, SendEnds, ShowEnds,
     LeaveEnds, OtherAsks, Loop, Wakes, Hears, Saves, Prints, Kill
<1> QED
  BY <1>1, <1>2, <1>4, <1>5

LEMMA ChatTypeNext ==
  ASSUME CourierTypeOK, ChatTypeOK, [Next]_vars
  PROVE  ChatTypeOK'
<1>1. loops' \in [Loops -> LoopRecord]
  BY LoopsType
<1>2. lastRead' \in Nat
  BY Writes DEF ChatTypeOK, LoopRecord
<1>3. latest' \in Nat
  <2>1. CASE latest' = latest \/ latest' = lastRead \/ latest' = 0
    BY <2>1 DEF ChatTypeOK
  <2>2. ASSUME NEW l \in Loops, Hears(l), Good(l) PROVE latest' \in Nat
    BY <2>2, Heard
  <2> QED
    BY <2>1, <2>2, Writes, Zenon
<1> QED
  BY <1>1, <1>2, <1>3, Writes DEF ChatTypeOK

\* What the user is told was sent is what the courier said was sent.
LEMMA ReportedNext ==
  ASSUME CourierTypeOK, ChatTypeOK, SendsHonestly, SentIsStored, [Next]_vars
  PROVE  SentIsStored'
<1>1. \A n \in reported : n \in delivered' /\ SentIn(messages', n)
  <2>1. \A n \in reported : n \in delivered /\ SentIn(messages, n)
    BY Zenon DEF SentIsStored, SentIn
  <2> QED
    BY <2>1, StepMoves, HistoryStays
<1>2. \/ reported' = reported
      \/ SendEnds /\ Good(User) /\ reported' = reported \cup {calls[User].arg}
  BY Zenon DEF Next, vars, chatVars, Begin, InitCourier, Leave, Show, Free,
     GoesOn, SetUpCourier, AskToPublish, Prepared, NotPrepared, Enter, SendEnds, ShowEnds,
     LeaveEnds, OtherAsks, Loop, Wakes, Hears, Saves, Prints, Kill
<1>3. CASE SendEnds /\ Good(User) /\ reported' = reported \cup {calls[User].arg}
  <2>1. Honest(calls[User], delivered, messages)
    BY Who DEF SendsHonestly
  <2>2. calls[User].arg \in delivered /\ SentIn(messages, calls[User].arg)
    BY <1>3, <2>1, Zenon DEF SendEnds, Good, Honest
  <2>3. calls[User].arg \in delivered' /\ SentIn(messages', calls[User].arg)
    BY <2>2, StepMoves, HistoryStays
  <2>4. \A n \in reported' : n \in delivered' /\ SentIn(messages', n)
    BY <1>1, <1>3, <2>3
  <2> QED
    BY <2>4, Zenon DEF SentIsStored, SentIn
<1>4. CASE reported' = reported
  <2>1. \A n \in reported' : n \in delivered' /\ SentIn(messages', n)
    BY <1>1, <1>4
  <2> QED
    BY <2>1, Zenon DEF SentIsStored, SentIn
<1> QED
  BY <1>2, <1>3, <1>4

-----------------------------------------------------------------------------
(* What was read.                                                            *)

\* A loop does not let go of rows that it has not shown, nor lost.
LEMMA HandsOver ==
  ASSUME ChatTypeOK, CourierTypeOK, EmptyHanded, [Next]_vars, NEW l \in Loops
  PROVE  /\ shown \subseteq shown' /\ dropped \subseteq dropped'
         /\ Numbers(loops[l].rows) \subseteq Numbers(loops'[l].rows) \cup shown' \cup dropped'
<1>1. /\ shown' = shown \/ \E k \in Loops : Prints(k)
      /\ dropped' = dropped \/ (\E k \in Loops : Saves(k)) \/ Kill
  BY Zenon DEF Next, vars, chatVars, Begin, InitCourier, Leave, Show, Free,
     GoesOn, SetUpCourier, AskToPublish, Prepared, NotPrepared, Enter, SendEnds, ShowEnds,
     LeaveEnds, OtherAsks, Loop, Wakes, Hears, Saves, Prints, Kill
<1>2. shown \subseteq shown' /\ dropped \subseteq dropped'
  BY <1>1 DEF Prints, Saves, Kill
<1>3. ASSUME NEW k \in Loops, Loop(k)
      PROVE  Numbers(loops[l].rows) \subseteq Numbers(loops'[l].rows) \cup shown' \cup dropped'
  <2>1. CASE k # l
    <3>1. \E r : loops' = [loops EXCEPT ![k] = r]
      BY <1>3 DEF Loop, Wakes, Hears, Saves, Prints
    <3>2. loops'[l] = loops[l]
      BY <2>1, <3>1 DEF ChatTypeOK
    <3> QED
      BY <3>2
  <2>2. CASE k = l /\ (Wakes(l) \/ Hears(l))
    <3>1. loops[l].rows = {}
      BY <2>2 DEF Wakes, Hears, EmptyHanded
    <3> QED
      BY <3>1 DEF Numbers
  <2>3. CASE k = l /\ Saves(l)
    <3>1. CASE dropped' = dropped \cup Numbers(loops[l].rows)
      BY <3>1
    <3>2. CASE loops' = [loops EXCEPT ![l].stage = "showing"]
      <4>1. loops'[l].rows = loops[l].rows
        BY <3>2, LoopStaged DEF LoopStages
      <4> QED
        BY <4>1
    <3> QED
      BY <2>3, <3>1, <3>2, Zenon DEF Saves
  <2>4. CASE k = l /\ Prints(l)
    BY <2>4 DEF Prints
  <2> QED
    BY <1>3, <2>1, <2>2, <2>3, <2>4, Zenon DEF Loop
<1>4. CASE Kill
  BY <1>4 DEF Kill
<1>5. CASE Prepared /\ Joins
  <2>1. PICK k \in Loops : loops' = [loops EXCEPT ![k].stage = "sleeping"]
    BY <1>5 DEF Joins
  <2>2. loops'[l].rows = loops[l].rows
    BY <2>1, LoopStaged DEF LoopStages
  <2> QED
    BY <1>2, <2>2
<1>6. CASE loops' = loops
  BY <1>2, <1>6
<1>7. \/ \E k \in Loops : Loop(k)
      \/ Kill \/ (Prepared /\ Joins) \/ loops' = loops
  BY Zenon DEF Next, vars, chatVars, Begin, InitCourier, Leave, Show,
     GoesOn, SetUpCourier, AskToPublish, Prepared, NotPrepared, Enter, SendEnds, ShowEnds,
     LeaveEnds, OtherAsks
<1> QED
  BY <1>2, <1>3, <1>4, <1>5, <1>6, <1>7

LEMMA EmptyHandedNext ==
  ASSUME ChatTypeOK, CourierTypeOK, EmptyHanded, [Next]_vars
  PROVE  EmptyHanded'
<1>1. ASSUME NEW k \in Loops, Loop(k) PROVE EmptyHanded'
  <2>1. CASE Wakes(k) /\ loops' = [loops EXCEPT ![k].stage = "asking"]
    <3>1. loops[k].rows = {}
      BY <2>1 DEF Wakes, EmptyHanded
    <3> QED
      BY <2>1, <3>1, LoopStaged DEF EmptyHanded, LoopStages
  <2>2. CASE \/ loops' = [loops EXCEPT ![k] = Off]
             \/ loops' = [loops EXCEPT ![k] = [Off EXCEPT !.stage = "sleeping"]]
    BY <2>2, OffRecord, LoopMoves DEF EmptyHanded
  <2>3. CASE Hears(k) /\ Good(k)
    <3>1. /\ loops'[k] = [stage |-> "saving", value |-> latest', rows |-> calls[k].rows]
          /\ \A j \in Loops \ {k} : loops'[j] = loops[j]
      BY <2>3, Heard
    <3> QED
      BY <3>1 DEF EmptyHanded
  <2>4. CASE loops' = [loops EXCEPT ![k].stage = "showing"]
    BY <2>4, LoopStaged DEF EmptyHanded, LoopStages
  <2> QED
    BY <1>1, <2>1, <2>2, <2>3, <2>4, Zenon DEF Loop, Wakes, Hears, Saves, Prints
<1>2. CASE Kill
  BY <1>2, OffRecord DEF Kill, EmptyHanded
<1>3. CASE Prepared /\ Joins
  <2>1. PICK k \in Loops : /\ loops' = [loops EXCEPT ![k].stage = "sleeping"]
                           /\ loops[k].stage = "off"
    BY <1>3 DEF Joins
  <2>2. loops[k].rows = {}
    BY <2>1 DEF EmptyHanded
  <2> QED
    BY <2>1, <2>2, LoopStaged DEF EmptyHanded, LoopStages
<1>4. CASE loops' = loops
  BY <1>4 DEF EmptyHanded
<1>5. \/ \E k \in Loops : Loop(k)
      \/ Kill \/ (Prepared /\ Joins) \/ loops' = loops
  BY Zenon DEF Next, vars, chatVars, Begin, InitCourier, Leave, Show,
     GoesOn, SetUpCourier, AskToPublish, Prepared, NotPrepared, Enter, SendEnds, ShowEnds,
     LeaveEnds, OtherAsks
<1> QED
  BY <1>1, <1>2, <1>3, <1>4, <1>5

\* What was told of a message, stays so.
LEMMA ToldStays ==
  ASSUME ChatTypeOK, CourierTypeOK, EmptyHanded, [Next]_vars, NEW i \in Incoming, Told(i)
  PROVE  i \in Incoming' /\ messages'[i] = messages[i] /\ Told(i)'
<1>1. \A j \in Incoming : j \in Incoming' /\ messages'[j] = messages[j]
  <2>1. TAKE j \in Incoming
  <2>2. j \in DOMAIN messages' /\ messages'[j] = messages[j]
    BY StepMoves, TableStep, OneMore DEF Incoming
  <2> QED
    BY <2>2, Zenon DEF Incoming
<1>2. CASE Shadowed(i)
  <2>1. Shadowed(i)'
    BY <1>1, <1>2 DEF Shadowed
  <2> QED
    BY <1>1, <2>1, Zenon DEF Told
<1>3. CASE messages[i].n \in shown \cup dropped
  <2>1. messages'[i].n \in shown' \cup dropped'
    <3>1. shown \subseteq shown' /\ dropped \subseteq dropped'
      BY Zenon DEF Next, vars, chatVars, Begin, InitCourier, Leave, Show, Free,
         GoesOn, SetUpCourier, AskToPublish, Prepared, NotPrepared, Enter, SendEnds, ShowEnds,
         LeaveEnds, OtherAsks, Loop, Wakes, Hears, Saves, Prints, Kill
    <3> QED
      BY <1>1, <1>3, <3>1
  <2> QED
    BY <1>1, <2>1, Zenon DEF Told
<1>4. CASE \E l \in Loops : messages[i].n \in Numbers(loops[l].rows)
  <2>1. PICK l \in Loops : messages[i].n \in Numbers(loops[l].rows)
    BY <1>4
  <2>2. \/ messages'[i].n \in shown' \cup dropped'
        \/ messages'[i].n \in Numbers(loops'[l].rows)
    BY <1>1, <2>1, HandsOver
  <2>3. \/ messages'[i].n \in (shown \cup dropped)'
        \/ messages'[i].n \in Numbers(loops[l].rows)'
    BY <2>2 DEF Numbers
  <2> QED
    BY <1>1, <2>3, Zenon DEF Told
<1> QED
  BY <1>2, <1>3, <1>4, Zenon DEF Told

\* A message that arrives is not told of by a fair time, unless it hides.
LEMMA FairStays ==
  ASSUME ChatTypeOK, CourierTypeOK, InOrder, EmptyHanded, [Next]_vars, NEW v \in Nat, Fair(v)
  PROVE  Fair(v)'
<1>1. \A j \in Incoming : j \in Incoming' /\ messages'[j] = messages[j]
  <2>1. TAKE j \in Incoming
  <2>2. j \in DOMAIN messages' /\ messages'[j] = messages[j]
    BY StepMoves, TableStep, OneMore DEF Incoming
  <2> QED
    BY <2>2, Zenon DEF Incoming
<1>2. v = 0 \/ \E j \in Incoming' : messages'[j].ts + 1 = v
  BY <1>1 DEF Fair
<1>3. ASSUME NEW i \in Incoming', messages'[i].ts < v PROVE Told(i)'
  <2>1. CASE i \in DOMAIN messages
    <3>1. messages'[i] = messages[i]
      BY <2>1, StepMoves, TableStep, OneMore
    <3>2. i \in Incoming
      BY <2>1, <3>1, Zenon DEF Incoming
    <3>3. Told(i)
      BY <1>3, <3>1, <3>2 DEF Fair
    <3> QED
      BY <3>2, <3>3, ToldStays
  <2>2. CASE i \notin DOMAIN messages
    <3>1. i \in DOMAIN messages'
      BY DEF Incoming
    <3>2. PICK r \in Rows : messages' = Append(messages, r) /\ r.ts = now
      BY <2>2, <3>1, StepMoves, TableStep
    <3>3. /\ i = Len(messages) + 1 /\ messages'[i] = r
          /\ DOMAIN messages = 1..Len(messages) /\ Len(messages) \in Nat
      BY <2>2, <3>1, <3>2, OneMore, RowsAreRows
    <3>4. r.ts \in Nat /\ now \in Nat
      BY CourierAssumption DEF Rows, CourierTypeOK
    <3>5. PICK j \in Incoming : messages[j].ts + 1 = v
      BY <1>3, <3>3, <3>4 DEF Fair
    <3>6. messages[j].ts \in Nat /\ messages[j].ts <= now /\ j \in DOMAIN messages
      BY RowsAreRows DEF Incoming, InOrder
    <3>7. messages[j].ts = now
      BY <1>3, <3>2, <3>3, <3>4, <3>5, <3>6
    <3>8. j \in Incoming' /\ messages'[j].ts = messages'[i].ts /\ j < i
      BY <1>1, <3>2, <3>3, <3>6, <3>7
    <3>9. Shadowed(i)'
      BY <3>8 DEF Shadowed
    <3> QED
      BY <3>9, Zenon DEF Told
  <2> QED
    BY <2>1, <2>2
<1> QED
  BY <1>2, <1>3, Zenon DEF Fair

LEMMA FairAnswerStays ==
  ASSUME ChatTypeOK, CourierTypeOK, InOrder, EmptyHanded, [Next]_vars,
         NEW rows \in SUBSET Rows, FairAnswer(rows)
  PROVE  FairAnswer(rows)'
<1>1. \A j \in Incoming : j \in Incoming' /\ messages'[j] = messages[j]
  <2>1. TAKE j \in Incoming
  <2>2. j \in DOMAIN messages' /\ messages'[j] = messages[j]
    BY StepMoves, TableStep, OneMore DEF Incoming
  <2> QED
    BY <2>2, Zenon DEF Incoming
<1>2. \A r \in rows : \E j \in Incoming' : messages'[j].ts = r.ts
  BY <1>1 DEF FairAnswer
<1>3. ASSUME NEW i \in Incoming', NEW q \in rows, messages'[i].ts <= q.ts
      PROVE  Told(i)' \/ messages'[i].n \in Numbers(rows)
  <2>1. CASE i \in DOMAIN messages
    <3>1. messages'[i] = messages[i]
      BY <2>1, StepMoves, TableStep, OneMore
    <3>2. i \in Incoming
      BY <2>1, <3>1, Zenon DEF Incoming
    <3>3. Told(i) \/ messages[i].n \in Numbers(rows)
      BY <1>3, <3>1, <3>2 DEF FairAnswer
    <3> QED
      BY <3>1, <3>2, <3>3, ToldStays
  <2>2. CASE i \notin DOMAIN messages
    <3>1. i \in DOMAIN messages'
      BY DEF Incoming
    <3>2. PICK r \in Rows : messages' = Append(messages, r) /\ r.ts = now
      BY <2>2, <3>1, StepMoves, TableStep
    <3>3. /\ i = Len(messages) + 1 /\ messages'[i] = r
          /\ DOMAIN messages = 1..Len(messages) /\ Len(messages) \in Nat
      BY <2>2, <3>1, <3>2, OneMore, RowsAreRows
    <3>4. q.ts \in Nat /\ now \in Nat
      BY CourierAssumption DEF Rows, CourierTypeOK
    <3>5. PICK j \in Incoming : messages[j].ts = q.ts
      BY DEF FairAnswer
    <3>6. messages[j].ts <= now /\ j \in DOMAIN messages
      BY DEF Incoming, InOrder
    <3>7. messages[j].ts = now
      BY <1>3, <3>2, <3>3, <3>4, <3>5, <3>6
    <3>8. j \in Incoming' /\ messages'[j].ts = messages'[i].ts /\ j < i
      BY <1>1, <3>2, <3>3, <3>6, <3>7
    <3>9. Shadowed(i)'
      BY <3>8 DEF Shadowed
    <3> QED
      BY <3>9, Zenon DEF Told
  <2> QED
    BY <2>1, <2>2
<1>4. \A n : n \in Numbers(rows) => n \in Numbers(rows)'
  BY DEF Numbers
<1> QED
  BY <1>2, <1>3, <1>4, Zenon DEF FairAnswer

\* The answer to a loop that asked for what comes after a fair time is fair: what
\* the limit leaves out is not older than what it lets in.
LEMMA SinceIsFair ==
  ASSUME CourierTypeOK, InOrder, NEW v \in Nat, Fair(v)
  PROVE  FairAnswer(Since(v))
<1> DEFINE S == {i \in Incoming : messages[i].ts >= v}
<1>1. S \in SUBSET (1..Len(messages)) /\ Len(messages) \in Nat
  BY RowsAreRows
<1>2. \A i \in Incoming : messages[i].ts \in Nat /\ i \in DOMAIN messages /\ i \in Nat
  BY RowsAreRows DEF Incoming, CourierTypeOK
<1>3. Since(v) = {messages[i] : i \in First(S)} /\ First(S) \subseteq S
  BY DEF Since, First
<1>4. ASSUME NEW r \in Since(v) PROVE \E j \in Incoming : messages[j].ts = r.ts
  BY <1>3
<1>5. ASSUME NEW i \in Incoming, NEW r \in Since(v), messages[i].ts <= r.ts
      PROVE  Told(i) \/ messages[i].n \in Numbers(Since(v))
  <2>1. PICK k \in First(S) : r = messages[k]
    BY <1>3
  <2>2. CASE messages[i].ts < v
    BY <2>2 DEF Fair
  <2>3. CASE i \in First(S)
    BY <1>3, <2>3 DEF Numbers
  <2>4. CASE ~(messages[i].ts < v) /\ i \notin First(S)
    <3>1. i \in S \ First(S)
      BY <1>2, <2>4
    <3>2. k < i
      BY <1>1, <2>1, <3>1, FirstComeFirst
    <3>3. k \in Incoming
      BY <1>3, <2>1
    <3>4. messages[k].ts <= messages[i].ts
      BY <1>2, <3>2, <3>3 DEF InOrder
    <3>5. messages[k].ts = messages[i].ts
      BY <1>2, <1>5, <2>1, <3>3, <3>4
    <3>6. Shadowed(i)
      BY <3>2, <3>3, <3>5 DEF Shadowed
    <3> QED
      BY <3>6, Zenon DEF Told
  <2> QED
    BY <2>2, <2>3, <2>4
<1> QED
  BY <1>4, <1>5 DEF FairAnswer

\* What the requests of the loops are for, and what they get.
LEMMA LoopCalls ==
  ASSUME CourierTypeOK, Moves, NEW l \in Loops
  PROVE  /\ calls'[l].arg \in {calls[l].arg, 0, lastRead}
         /\ calls'[l].stage = "answered" =>
              \/ calls[l].stage = "answered" /\ calls'[l].rows = calls[l].rows
              \/ calls'[l].rows \in {{}, Since(calls[l].arg)}
<1>1. l \in Callers
  BY Who
<1>2. ASSUME NEW c \in Callers, Serves(c)
      PROVE  /\ calls'[l].arg = calls[l].arg
             /\ calls'[l].stage = "answered" =>
                  \/ calls[l].stage = "answered" /\ calls'[l].rows = calls[l].rows
                  \/ calls'[l].rows \in {{}, Since(calls[l].arg)}
  <2>1. \/ calls' = [calls EXCEPT ![c].stage = "saving", ![c].value = option]
        \/ \E s \in Stages \ {"answered"} : calls' = [calls EXCEPT ![c].stage = s]
        \/ \E ok : Answer(c, ok, {}) \/ Answer(c, ok, Since(calls[c].arg))
    <3>1. {"hung", "granted", "inserting", "updating", "opening", "posting", "storing"}
            \subseteq Stages \ {"answered"}
      BY DEF Stages
    <3>2. CASE LookForRow(c) \/ SaveOwner(c) \/ LookForOwner(c)
      BY <3>1, <3>2 DEF LookForRow, SaveOwner, LookForOwner
    <3>3. CASE Publish(c) \/ Send(c) \/ Post(c)
      <4>1. \/ \E s \in {"opening", "posting", "storing"} : calls' = [calls EXCEPT ![c].stage = s]
            \/ \E ok : Answer(c, ok, {})
        BY <3>3, Zenon DEF Publish, Send, Post
      <4> QED
        BY <3>1, <4>1
    <3>4. CASE Ready(c) \/ Opens(c) \/ Add(c) \/ Store(c) \/ GetMessages(c)
      <4>1. \E ok : Answer(c, ok, {}) \/ Answer(c, ok, Since(calls[c].arg))
        BY <3>4, Zenon DEF Ready, Opens, Add, Store, GetMessages
      <4> QED
        BY <4>1
    <3> QED
      BY <1>2, <3>2, <3>3, <3>4, Zenon DEF Serves
  <2>2. CASE c # l
    <3>1. \E r : calls' = [calls EXCEPT ![c] = r]
      BY <2>1 DEF Answer
    <3>2. calls'[l] = calls[l]
      BY <1>1, <2>2, <3>1 DEF CourierTypeOK
    <3> QED
      BY <3>2
  <2>3. CASE c = l
    <3>1. CASE calls' = [calls EXCEPT ![c].stage = "saving", ![c].value = option]
      BY <2>3, <3>1, Valued DEF Stages, CourierTypeOK
    <3>2. CASE \E s \in Stages \ {"answered"} : calls' = [calls EXCEPT ![c].stage = s]
      BY <2>3, <3>2, Staged
    <3>3. ASSUME NEW ok, Answer(c, ok, {}) \/ Answer(c, ok, Since(calls[c].arg))
          PROVE  calls'[c].arg = calls[c].arg /\ calls'[c].rows \in {{}, Since(calls[c].arg)}
      BY <3>3 DEF Answer, CourierTypeOK, CallRecord
    <3> QED
      BY <2>1, <2>3, <3>1, <3>2, <3>3
  <2> QED
    BY <2>2, <2>3
<1>3. CASE Restart
  <2>1. calls'[l] = IF calls[l].stage \in InFlight THEN [calls[l] EXCEPT !.stage = "denied"]
                                                  ELSE calls[l]
    BY <1>1, <1>3 DEF Restart
  <2> QED
    BY <1>1, <2>1 DEF CourierTypeOK, CallRecord
<1>4. CASE (\E spoilt \in BOOLEAN : Receive(spoilt)) \/ TunnelCloses \/ Tick
  <2>1. calls' = calls
    BY <1>4, Zenon DEF Receive, TunnelCloses, Tick
  <2> QED
    BY <2>1
<1>5. ASSUME NEW c \in Callers, NEW what \in Whats, NEW arg \in Nat,
             c \in Loops => arg = lastRead, Asks(c, what, arg)
      PROVE  calls'[l] = calls[l] \/ (calls'[l].arg = lastRead /\ calls'[l].stage # "answered")
  <2>1. Request(c, what, arg)
    BY <1>5, Zenon DEF Asks
  <2>2. \A d \in Callers \ {c} : calls'[d] = calls[d]
    BY <2>1, Requested, Zenon
  <2>3. calls'[c].stage \in {"looking", "granted", "denied"}
    BY <2>1, Requested, Zenon
  <2>4. calls'[c].arg = arg
    BY <2>1, Requested, ZenonT(60)
  <2> QED
    BY <1>1, <1>5, <2>2, <2>3, <2>4
<1>6. ASSUME NEW cs, Clears(cs) PROVE calls'[l] = calls[l] \/ calls'[l] = Idle
  BY <1>1, <1>6, ClearedCalls
<1>7. Idle.arg = 0 /\ Idle.stage # "answered"
  BY DEF Idle
<1> QED
  BY <1>2, <1>3, <1>4, <1>5, <1>6, <1>7 DEF Moves, CourierNext

\* What a loop is about to write is fair when what it was answered is.
LEMMA HearsFair ==
  ASSUME ChatTypeOK, CourierTypeOK, InOrder, EmptyHanded, ReadInv, [Next]_vars,
         NEW l \in Loops, Hears(l), Good(l)
  PROVE  \A v \in Nat : v = latest' => Fair(v)'
<1> DEFINE rows == calls[l].rows
<1>1. rows \in SUBSET Rows /\ latest \in Nat
  BY Heard DEF ChatTypeOK
<1>2. latest' = IF Newest(rows) > latest THEN Newest(rows) ELSE latest
  BY Heard
<1>3. messages' = messages
  BY DEF Hears, Forget, db
<1>4. \A i : i \in Incoming' <=> i \in Incoming
  BY <1>3, Zenon DEF Incoming
<1>5. loops'[l].rows = rows
  <2>1. loops'[l] = [stage |-> "saving", value |-> latest', rows |-> rows]
    BY Heard
  <2> QED
    BY <2>1
<1>6. FairAnswer(rows)
  BY DEF ReadInv, Good
<1>7. CASE latest' = latest
  <2>1. ASSUME NEW v \in Nat, v = latest PROVE Fair(v)
    BY <2>1 DEF ReadInv
  <2> QED
    BY <1>7, <2>1, FairStays
<1>8. CASE latest' = Newest(rows) /\ Newest(rows) > latest
  <2>1. PICK r \in rows : Newest(rows) = r.ts + 1
    BY <1>1, <1>8, NewestOf
  <2>2. r.ts \in Nat
    BY <1>1 DEF Rows
  <2>3. ASSUME NEW v \in Nat, v = latest' PROVE Fair(v)'
    <3>1. \E j \in Incoming' : messages'[j].ts + 1 = v
      BY <1>3, <1>4, <1>6, <1>8, <2>1, <2>3 DEF FairAnswer
    <3>2. ASSUME NEW i \in Incoming', messages'[i].ts < v PROVE Told(i)'
      <4>1. i \in Incoming /\ messages[i].ts \in Nat
        BY <1>4, RowsAreRows DEF Incoming
      <4>2. messages[i].ts <= r.ts
        BY <1>3, <1>8, <2>1, <2>2, <2>3, <3>2, <4>1
      <4>3. Told(i) \/ messages[i].n \in Numbers(rows)
        BY <1>6, <4>1, <4>2 DEF FairAnswer
      <4>4. CASE Told(i)
        BY <4>1, <4>4, ToldStays
      <4>5. CASE messages[i].n \in Numbers(rows)
        <5>1. messages'[i].n \in Numbers(loops[l].rows)'
          BY <1>3, <1>5, <4>5 DEF Numbers
        <5> QED
          BY <5>1, Zenon DEF Told
      <4> QED
        BY <4>3, <4>4, <4>5
    <3> QED
      BY <3>1, <3>2, Zenon DEF Fair
  <2> QED
    BY <2>3
<1> QED
  BY <1>2, <1>7, <1>8

LEMMA ReadNext ==
  ASSUME ChatTypeOK, CourierTypeOK, InOrder, EmptyHanded, ReadInv, [Next]_vars
  PROVE  ReadInv'
<1>1. \A v \in Nat : Fair(v) => Fair(v)'
  BY FairStays
<1>2. Fair(0)'
  <2>1. \A i \in Incoming' : ~(messages'[i].ts < 0)
    <3>1. CourierTypeOK'
      BY StepMoves, CourierTypeNext
    <3>2. messages' \in Seq(Rows) /\ Incoming' \subseteq DOMAIN messages'
      BY <3>1 DEF CourierTypeOK, Incoming
    <3>3. \A i \in Incoming' : messages'[i] \in Rows
      BY <3>2
    <3> QED
      BY <3>3 DEF Rows
  <2> QED
    BY <2>1, Zenon DEF Fair
<1>3. lastRead \in Nat /\ latest \in Nat /\ command.snap \in Nat
      /\ \A l \in Loops : loops[l].value \in Nat
  BY DEF ChatTypeOK, LoopRecord
<1>4. Fair(lastRead)'
  <2>1. CASE lastRead' = lastRead \/ lastRead' = command.snap
    BY <1>1, <1>3, <2>1 DEF ReadInv
  <2>2. CASE \E l \in Loops : lastRead' = loops[l].value
    BY <1>1, <1>3, <2>2 DEF ReadInv
  <2> QED
    BY <2>1, <2>2, Writes
<1>5. Fair(latest)'
  <2>1. CASE latest' = latest \/ latest' = lastRead
    BY <1>1, <1>3, <2>1 DEF ReadInv
  <2>2. CASE latest' = 0
    BY <1>2, <2>2
  <2>3. CASE \E l \in Loops : Hears(l) /\ Good(l)
    <3>1. latest' \in Nat
      BY ChatTypeNext DEF ChatTypeOK
    <3> QED
      BY <2>3, <3>1, HearsFair
  <2> QED
    BY <2>1, <2>2, <2>3, Writes
<1>6. Fair(command.snap)'
  <2>1. CASE command'.snap = command.snap \/ command'.snap = lastRead
    BY <1>1, <1>3, <2>1 DEF ReadInv
  <2>2. CASE command'.snap = 0
    BY <1>2, <2>2
  <2> QED
    BY <2>1, <2>2, Writes
<1>7. ASSUME NEW l \in Loops
      PROVE  Fair(loops[l].value)'
  <2>1. Fair(loops[l].value) /\ loops[l].value \in Nat
    BY <1>3, <1>7 DEF ReadInv
  <2>2. CASE loops'[l].value = loops[l].value
    BY <1>1, <2>1, <2>2
  <2>3. CASE loops'[l].value = 0
    BY <1>2, <2>3
  <2>4. ASSUME NEW k \in Loops, Loop(k) PROVE Fair(loops[l].value)'
    <3>1. CASE Hears(k) /\ Good(k) /\ k = l
      <4>1. loops'[l] = [stage |-> "saving", value |-> latest', rows |-> calls[l].rows]
        BY <3>1, Heard
      <4>2. loops'[l].value = latest'
        BY <4>1
      <4> QED
        BY <1>5, <4>2 DEF Fair
    <3>2. CASE Hears(k) /\ Good(k) /\ k # l
      <4>1. loops'[l] = loops[l]
        BY <1>7, <3>2, Heard
      <4> QED
        BY <2>2, <4>1
    <3>3. CASE \/ loops' = [loops EXCEPT ![k] = Off]
               \/ loops' = [loops EXCEPT ![k] = [Off EXCEPT !.stage = "sleeping"]]
      <4>1. loops'[l].value \in {0, loops[l].value}
        BY <1>7, <2>4, <3>3, OffRecord, LoopMoves
      <4> QED
        BY <2>2, <2>3, <4>1
    <3>4. CASE \E s \in {"asking", "showing"} : loops' = [loops EXCEPT ![k].stage = s]
      <4>1. loops'[l].value = loops[l].value
        BY <1>7, <2>4, <3>4, LoopStaged DEF LoopStages
      <4> QED
        BY <2>2, <4>1
    <3> QED
      BY <2>4, <3>1, <3>2, <3>3, <3>4, Zenon DEF Loop, Wakes, Hears, Saves, Prints
  <2>5. CASE Kill
    <3>1. loops'[l].value = 0
      BY <1>7, <2>5, OffRecord DEF Kill
    <3> QED
      BY <2>3, <3>1
  <2>6. CASE Prepared /\ Joins
    <3>1. loops'[l].value = loops[l].value
      BY <1>7, <2>6, LoopStaged DEF Joins, LoopStages
    <3> QED
      BY <2>2, <3>1
  <2>7. CASE loops' = loops
    BY <2>2, <2>7
  <2>8. \/ \E k \in Loops : Loop(k)
        \/ Kill \/ (Prepared /\ Joins) \/ loops' = loops
    BY Zenon DEF Next, vars, chatVars, Begin, InitCourier, Leave, Show,
       GoesOn, SetUpCourier, AskToPublish, Prepared, NotPrepared, Enter, SendEnds, ShowEnds,
       LeaveEnds, OtherAsks
  <2> QED
    BY <2>4, <2>5, <2>6, <2>7, <2>8
<1>8. ASSUME NEW l \in Loops
      PROVE  Fair(calls[l].arg)'
  <2>1. calls[l].arg \in Nat /\ Fair(calls[l].arg)
    BY <1>8, Who DEF ReadInv, CourierTypeOK, CallRecord
  <2>2. CASE calls'[l].arg \in {calls[l].arg, lastRead}
    BY <1>1, <1>3, <2>1, <2>2 DEF ReadInv
  <2>3. CASE calls'[l].arg = 0
    BY <1>2, <2>3
  <2> QED
    BY <1>8, <2>2, <2>3, StepMoves, LoopCalls
<1>9. ASSUME NEW l \in Loops, calls'[l].stage = "answered"
      PROVE  FairAnswer(calls[l].rows)'
  <2>1. \A rows \in SUBSET Rows : FairAnswer(rows) => FairAnswer(rows)'
    BY FairAnswerStays
  <2>2. /\ calls[l].rows \in SUBSET Rows /\ calls[l].arg \in Nat /\ Fair(calls[l].arg)
        /\ calls[l].stage = "answered" => FairAnswer(calls[l].rows)
    BY <1>9, Who DEF ReadInv, CourierTypeOK, CallRecord
  <2>3. CASE calls[l].stage = "answered" /\ calls'[l].rows = calls[l].rows
    BY <2>1, <2>2, <2>3
  <2>4. CASE calls'[l].rows = {}
    BY <2>4 DEF FairAnswer
  <2>5. CASE calls'[l].rows = Since(calls[l].arg)
    <3>1. FairAnswer(Since(calls[l].arg)) /\ Since(calls[l].arg) \in SUBSET Rows
      BY <2>2, SinceIsFair, RowsAreRows
    <3> QED
      BY <2>1, <2>5, <3>1
  <2> QED
    BY <1>9, <2>3, <2>4, <2>5, StepMoves, LoopCalls
<1> QED
  BY <1>4, <1>5, <1>6, <1>7, <1>8, <1>9 DEF ReadInv

-----------------------------------------------------------------------------
(* The invariants hold.                                                      *)

LEMMA ChatStarts ==
  ASSUME Init
  PROVE  ChatInv
<1>1. /\ owner = None /\ option = None /\ auth = None /\ active = FALSE /\ now = 0
      /\ messages = <<>> /\ delivered = {} /\ calls = [c \in Callers |-> Idle]
      /\ lastRead = 0 /\ latest = 0 /\ command = NoCommand /\ commands = 0
      /\ loops = [l \in Loops |-> Off] /\ reported = {}
  BY DEF Init, CourierInit
<1>2. \A c \in Callers : calls[c] = Idle
  BY <1>1
<1>3. \A l \in Loops : loops[l] = Off
  BY <1>1
<1>4. Idle.stage = "idle" /\ Idle.arg = 0
  BY DEF Idle
<1>5. calls \in [Callers -> CallRecord] /\ loops \in [Loops -> LoopRecord]
  BY <1>1, IdleRecord, OffRecord
<1>6. MaxNow \in Nat /\ None \in Claimants
  BY CourierAssumption DEF Claimants
<1>7. active \in BOOLEAN
  BY <1>1
<1>8. messages \in Seq(Rows) /\ DOMAIN messages = {}
  BY <1>1
<1>9. CourierTypeOK
  BY <1>1, <1>5, <1>6, <1>7, <1>8 DEF CourierTypeOK
<1>10. InOrder
  BY <1>8 DEF InOrder
<1>11. ChatTypeOK
  BY <1>1, <1>5 DEF ChatTypeOK, NoCommand, Commands
<1>12. OwnerInv
  BY <1>1, <1>2, <1>4 DEF OwnerInv, OwnerAgrees, OneClaim, Claiming
<1>13. SentInv
  BY <1>1, <1>2, <1>4 DEF SentInv, SendsHonestly, SentIsStored, Honest
<1>14. EmptyHanded
  BY <1>3, OffRecord DEF EmptyHanded
<1>15. Incoming = {}
  BY <1>8 DEF Incoming
<1>16. Fair(0)
  BY <1>15 DEF Fair
<1>17. ReadInv
  BY <1>1, <1>2, <1>3, <1>4, <1>16, OffRecord, Who DEF ReadInv, NoCommand
<1> QED
  BY <1>9, <1>10, <1>11, <1>12, <1>13, <1>14, <1>17 DEF ChatInv

LEMMA ChatNext ==
  ASSUME ChatInv, [Next]_vars
  PROVE  ChatInv'
<1>1. CourierTypeOK /\ InOrder /\ ChatTypeOK /\ OwnerInv /\ SentInv /\ EmptyHanded /\ ReadInv
  BY DEF ChatInv
<1>2. Moves
  BY <1>1, StepMoves
<1>3. CourierTypeOK' /\ InOrder'
  BY <1>1, <1>2, CourierTypeNext
<1>4. ChatTypeOK' /\ EmptyHanded'
  BY <1>1, ChatTypeNext, EmptyHandedNext
<1>5. OwnerInv'
  BY <1>1, <1>2, OwnerNext
<1>6. SentInv'
  BY <1>1, <1>2, SendsNext, ReportedNext DEF SentInv
<1>7. ReadInv'
  BY <1>1, ReadNext
<1> QED
  BY <1>3, <1>4, <1>5, <1>6, <1>7 DEF ChatInv

LEMMA ChatInvariant == Spec => []ChatInv
BY ChatStarts, ChatNext, PTL DEF Spec

\* The state of the courier and of the chat is always of its types.
THEOREM ChatTypes == Spec => [](CourierTypeOK /\ ChatTypeOK)
<1>1. ChatInv => CourierTypeOK /\ ChatTypeOK
  BY DEF ChatInv
<1> QED
  BY <1>1, ChatInvariant, PTL

\* Unless two accounts asked at once to be the owner, the courier only obeys the one
\* that its table names, wherever the claims and the restarts fall.
THEOREM OneOwner == Spec => []OwnerAgrees
<1>1. ChatInv => OwnerAgrees
  BY DEF ChatInv, OwnerInv
<1> QED
  BY <1>1, ChatInvariant, PTL

\* What send tells the user was sent is with the contact, and in the history.
THEOREM SentForSure == Spec => []SentIsStored
<1>1. ChatInv => SentIsStored
  BY DEF ChatInv, SentInv
<1> QED
  BY <1>1, ChatInvariant, PTL

\* However many loops and commands write lastRead, over one another, what it says
\* was read was shown, or lost with a loop, or hides in a millisecond.
THEOREM ReadForSure == Spec => []ReadIsShown
<1>1. ChatInv => ReadIsShown
  BY Zenon DEF ChatInv, ReadInv, Fair, Told, ReadIsShown
<1> QED
  BY <1>1, ChatInvariant, PTL
=============================================================================
