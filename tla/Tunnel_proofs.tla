---------------------------- MODULE Tunnel_proofs ----------------------------
(***************************************************************************)
(* The owner's end of a tunnel, for any number of connections and of       *)
(* tries, and whatever goes wrong: how many pairs are alive, and that a    *)
(* closed tunnel opens none.                                               *)
(***************************************************************************)
EXTENDS Tunnel, TLAPS, FiniteSetTheorems

-----------------------------------------------------------------------------
(* The invariant                                                           *)

\* What the two sockets of a pair and the listener know of each other.  A socket
\* that did not connect yet has no local one and no listener; the timer of a retry
\* runs without a listener; a local socket that connects has one, until the remote
\* is closed.
PairOK(c) ==
  /\ remote[c] \in {"none", "connecting"} => local[c] = "none" /\ ~hears[c]
  /\ remote[c] = "closed" => ~hears[c]
  /\ local[c] = "retry" => ~hears[c]
  /\ local[c] = "connecting" /\ remote[c] # "closed" => hears[c]

\* Before the hub has answered there is no socket.
Before == phase # "up" => \A c \in Conn : remote[c] = "none" /\ local[c] = "none"

Inv == TypeOK /\ Before /\ \A c \in Conn : PairOK(c)

\* A pair is alive, by what is known of its three parts.
Lives(r, l, h) ==
  r = "connecting" \/ (r \in {"open", "ending", "destroyed"} /\ h) \/ l = "retry"

LEMMA AliveLives ==
  /\ Alive = {c \in Conn : Lives(remote[c], local[c], hears[c])}
  /\ Alive' = {c \in Conn : Lives(remote'[c], local'[c], hears'[c])}
BY DEF Alive, Lives

\* The set of pairs that are alive is finite.
LEMMA AliveFinite ==
  /\ IsFiniteSet(Alive) /\ Cardinality(Alive) \in Nat
  /\ IsFiniteSet(Alive') /\ Cardinality(Alive') \in Nat
<1>1. Alive \in SUBSET Conn /\ Alive' \in SUBSET Conn
  BY DEF Alive
<1> QED
  BY <1>1, FS_Subset, FS_CardinalityType, TunnelAssumption

-----------------------------------------------------------------------------
(* Steps                                                                   *)

LEMMA Bounds == MaxConn \in Nat /\ MaxConn > 0 /\ MaxTries \in Nat
<1>1. MaxConn \in Nat \ {0} /\ MaxTries \in Nat \ {0}
  BY TunnelAssumption
<1> QED
  BY <1>1

\* The types of the variables, and that the invariant of the pairs is one.
THEOREM TunnelTypes == Spec => []Inv
<1>1. Init => Inv
  <2> SUFFICES ASSUME Init
               PROVE  Inv
    OBVIOUS
  <2>1. 0 \in 0..MaxTries
    BY Bounds
  <2>2. phase \in {"asking", "waiting", "up", "failed"} /\ tries \in 0..MaxTries
    BY <2>1 DEF Init
  <2>3. /\ timed \in BOOLEAN /\ spent \in BOOLEAN /\ closed \in BOOLEAN
        /\ hears \in [Conn -> BOOLEAN] /\ met \subseteq Trouble
    BY DEF Init
  <2>4. remote \in [Conn -> RemoteState] /\ local \in [Conn -> LocalState]
    BY DEF Init, RemoteState, LocalState
  <2>5. Before /\ \A c \in Conn : PairOK(c)
    BY DEF Init, Before, PairOK
  <2> QED
    BY <2>2, <2>3, <2>4, <2>5 DEF Inv, TypeOK
<1>2. ASSUME Inv, [Next]_vars
      PROVE  Inv'
  <2> USE DEF RemoteState, LocalState
  <2>1. ASSUME Answered
        PROVE  Inv'
    BY <1>2, <2>1 DEF Answered, Inv, TypeOK, Before, PairOK
  <2>2. ASSUME AskFails
        PROVE  Inv'
    <3>1. phase' \in {"waiting", "failed"} /\ tries' \in 0..MaxTries
      BY <1>2, <2>2, Bounds DEF AskFails, AfterFailure, Inv, TypeOK
    <3>2. spent' \in BOOLEAN
      BY <1>2, <2>2, Zenon DEF AskFails, Inv, TypeOK
    <3>3. UNCHANGED <<timed, closed, remote, local, hears, met>> /\ phase = "asking"
      BY <2>2 DEF AskFails
    <3> QED
      BY <1>2, <3>1, <3>2, <3>3 DEF Inv, TypeOK, Before, PairOK
  <2>3. ASSUME AskAgain
        PROVE  Inv'
    BY <1>2, <2>3 DEF AskAgain, Inv, TypeOK, Before, PairOK, asking
  <2>4. ASSUME Close
        PROVE  Inv'
    BY <1>2, <2>4 DEF Close, Destroyed, Inv, TypeOK, Before, PairOK, asking
  <2>5. ASSUME NEW c \in Conn, Connected(c)
        PROVE  Inv'
    BY <1>2, <2>5 DEF Connected, Inv, TypeOK, Before, PairOK, asking
  <2>6. ASSUME NEW c \in Conn, Refused(c)
        PROVE  Inv'
    BY <1>2, <2>6 DEF Refused, Destroyed, Inv, TypeOK, Before, PairOK, asking
  <2>7. ASSUME NEW c \in Conn, Unreachable(c)
        PROVE  Inv'
    BY <1>2, <2>7 DEF Unreachable, Inv, TypeOK, Before, PairOK, asking
  <2>8. ASSUME NEW c \in Conn, RemoteEnds(c)
        PROVE  Inv'
    BY <1>2, <2>8 DEF RemoteEnds, Inv, TypeOK, Before, PairOK, asking
  <2>9. ASSUME NEW c \in Conn, RemoteCloses(c)
        PROVE  Inv'
    BY <1>2, <2>9 DEF RemoteCloses, Dead, Free, Inv, TypeOK, Before, PairOK, asking
  <2>10. ASSUME NEW c \in Conn, LocalConnects(c)
         PROVE  Inv'
    BY <1>2, <2>10 DEF LocalConnects, Inv, TypeOK, Before, PairOK, asking
  <2>11. ASSUME NEW c \in Conn, LocalRefuses(c)
         PROVE  Inv'
    BY <1>2, <2>11 DEF LocalRefuses, Inv, TypeOK, Before, PairOK, asking
  <2>12. ASSUME NEW c \in Conn, LocalFails(c)
         PROVE  Inv'
    BY <1>2, <2>12 DEF LocalFails, Inv, TypeOK, Before, PairOK, asking
  <2>13. ASSUME NEW c \in Conn, LocalEnds(c)
         PROVE  Inv'
    BY <1>2, <2>13 DEF LocalEnds, Inv, TypeOK, Before, PairOK, asking
  <2>14. ASSUME NEW c \in Conn, ConnLocal(c)
         PROVE  Inv'
    BY <1>2, <2>14 DEF ConnLocal, Dead, Free, Inv, TypeOK, Before, PairOK, asking
  <2>15. CASE UNCHANGED vars
    BY <1>2, <2>15 DEF vars, Inv, TypeOK, Before, PairOK
  <2> QED
    BY <1>2, <2>1, <2>2, <2>3, <2>4, <2>5, <2>6, <2>7, <2>8, <2>9, <2>10, <2>11, <2>12, <2>13,
       <2>14, <2>15 DEF Next, Ask, Connects, LocalAnswers
<1> QED
  BY <1>1, <1>2, PTL DEF Spec

-----------------------------------------------------------------------------
(* The pairs that are alive                                                *)

\* What a step of an open tunnel may do to the pairs that are alive: one that dies
\* is replaced by another; only a local socket that fails, or a remote that cannot
\* connect, loses one; only a late refusal adds one.
Steady ==
  \/ Alive' = Alive
  \/ \E c \in Alive, k \in Conn \ Alive : Alive' = (Alive \ {c}) \cup {k}
  \/ Alive' \subseteq Alive /\ ~(met' \subseteq {"late"})
  \/ Alive \subseteq Alive' /\ "late" \in met'

\* The pair that dies and the one that takes its place.
LEMMA Replaced ==
  ASSUME NEW c \in Conn, NEW k \in Conn,
         Lives(remote[c], local[c], hears[c]), ~Lives(remote'[c], local'[c], hears'[c]),
         ~Lives(remote[k], local[k], hears[k]), Lives(remote'[k], local'[k], hears'[k]),
         \A d \in Conn \ {c, k} :
           Lives(remote'[d], local'[d], hears'[d]) <=> Lives(remote[d], local[d], hears[d])
  PROVE  Steady
<1>1. c \in Alive /\ k \in Conn \ Alive
  BY AliveLives
<1>2. Alive' = (Alive \ {c}) \cup {k}
  BY AliveLives
<1> QED
  BY <1>1, <1>2 DEF Steady

LEMMA Unchanged ==
  ASSUME \A d \in Conn :
           Lives(remote'[d], local'[d], hears'[d]) <=> Lives(remote[d], local[d], hears[d])
  PROVE  Steady
BY AliveLives DEF Steady

\* What went wrong is not forgotten, and a closed tunnel stays closed.
LEMMA Lasting ==
  ASSUME [Next]_vars
  PROVE  met \subseteq met' /\ (closed => closed')
<1>1. CASE Ask
  <2>1. closed' = closed /\ met' = met
    <3>1. CASE Answered
      BY <3>1 DEF Answered
    <3>2. CASE AskFails
      BY <3>2 DEF AskFails
    <3>3. CASE AskAgain
      BY <3>3 DEF AskAgain
    <3> QED
      BY <1>1, <3>1, <3>2, <3>3 DEF Ask
  <2> QED
    BY <2>1
<1>2. CASE Close
  BY <1>2 DEF Close
<1>3. ASSUME NEW c \in Conn, Connects(c) \/ RemoteEnds(c) \/ RemoteCloses(c)
      PROVE  met \subseteq met' /\ (closed => closed')
  BY <1>3 DEF Connects, Connected, Refused, Unreachable, RemoteEnds, RemoteCloses
<1>4. ASSUME NEW c \in Conn, LocalAnswers(c) \/ LocalFails(c) \/ LocalEnds(c) \/ ConnLocal(c)
      PROVE  met \subseteq met' /\ (closed => closed')
  BY <1>4 DEF LocalAnswers, LocalConnects, LocalRefuses, LocalFails, LocalEnds, ConnLocal
<1>5. CASE UNCHANGED vars
  BY <1>5 DEF vars
<1> QED
  BY <1>1, <1>2, <1>3, <1>4, <1>5 DEF Next

LEMMA OpenIsSteady ==
  ASSUME Inv, [Next]_vars, phase = "up", ~closed'
  PROVE  Steady
<1>1. phase = "up" /\ ~closed
  BY Lasting
<1>2. ASSUME NEW c \in Conn, Connected(c)
      PROVE  Steady
  BY <1>1, <1>2, Unchanged DEF Connected, Inv, TypeOK, PairOK, Lives
<1>3. ASSUME NEW c \in Conn, Unreachable(c)
      PROVE  Steady
  <2>1. \A d \in Conn : Lives(remote'[d], local'[d], hears'[d]) => Lives(remote[d], local[d], hears[d])
    BY <1>3 DEF Unreachable, Inv, TypeOK, PairOK, Lives
  <2>2. "cut" \in met'
    BY <1>3 DEF Unreachable
  <2> QED
    BY <2>1, <2>2, AliveLives DEF Steady
<1>4. ASSUME NEW c \in Conn, RemoteEnds(c)
      PROVE  Steady
  BY <1>4, Unchanged DEF RemoteEnds, Inv, TypeOK, PairOK, Lives
<1>5. ASSUME NEW c \in Conn, RemoteCloses(c)
      PROVE  Steady
  <2>1. CASE hears[c]
    <3>1. PICK k \in Conn : Free(k) /\ remote' = [[remote EXCEPT ![c] = "closed"] EXCEPT ![k] = "connecting"]
      BY <1>1, <1>5, <2>1 DEF RemoteCloses, Dead
    <3>2. k # c
      BY <1>5, <3>1 DEF RemoteCloses, Free
    <3>3. /\ remote'[c] = "closed" /\ remote'[k] = "connecting"
          /\ \A d \in Conn \ {c, k} : remote'[d] = remote[d]
      BY <3>1, <3>2 DEF Inv, TypeOK
    <3>4. local'[c] # "retry" /\ \A d \in Conn \ {c} : local'[d] = local[d] /\ hears'[d] = hears[d]
      BY <1>5, <2>1 DEF RemoteCloses, Inv, TypeOK, PairOK
    <3>5. Lives(remote[c], local[c], hears[c]) /\ ~Lives(remote'[c], local'[c], hears'[c])
      BY <1>5, <2>1, <3>3, <3>4 DEF RemoteCloses, Lives
    <3>6. ~Lives(remote[k], local[k], hears[k]) /\ Lives(remote'[k], local'[k], hears'[k])
      BY <3>1, <3>3 DEF Free, Lives
    <3> QED
      BY <3>2, <3>3, <3>4, <3>5, <3>6, Replaced
  <2>2. CASE ~hears[c]
    BY <1>5, <2>2, Unchanged DEF RemoteCloses, Inv, TypeOK, PairOK, Lives
  <2> QED
    BY <2>1, <2>2
<1>6. ASSUME NEW c \in Conn, LocalConnects(c)
      PROVE  Steady
  BY <1>6, Unchanged DEF LocalConnects, Inv, TypeOK, Lives
<1>7. ASSUME NEW c \in Conn, LocalRefuses(c)
      PROVE  Steady
  <2>1. CASE remote[c] = "closed"
    <3>1. \A d \in Conn : Lives(remote[d], local[d], hears[d]) => Lives(remote'[d], local'[d], hears'[d])
      BY <1>7 DEF LocalRefuses, Inv, TypeOK, Lives
    <3>2. "late" \in met'
      BY <1>7, <2>1 DEF LocalRefuses
    <3> QED
      BY <3>1, <3>2, AliveLives DEF Steady
  <2>2. CASE remote[c] # "closed"
    BY <1>7, <2>2, Unchanged DEF LocalRefuses, Inv, TypeOK, PairOK, RemoteState, Lives
  <2> QED
    BY <2>1, <2>2
<1>8. ASSUME NEW c \in Conn, LocalFails(c)
      PROVE  Steady
  <2>1. \A d \in Conn : Lives(remote'[d], local'[d], hears'[d]) => Lives(remote[d], local[d], hears[d])
    BY <1>8 DEF LocalFails, Inv, TypeOK, Lives
  <2>2. "reset" \in met'
    BY <1>8 DEF LocalFails
  <2> QED
    BY <2>1, <2>2, AliveLives DEF Steady
<1>9. ASSUME NEW c \in Conn, LocalEnds(c)
      PROVE  Steady
  BY <1>9, Unchanged DEF LocalEnds, Inv, TypeOK, Lives
<1>10. ASSUME NEW c \in Conn, ConnLocal(c)
       PROVE  Steady
  <2>1. CASE remote[c] \in {"destroyed", "closed"}
    <3>1. PICK k \in Conn : Free(k) /\ remote' = [remote EXCEPT ![k] = "connecting"]
      BY <1>1, <1>10, <2>1 DEF ConnLocal, Dead
    <3>2. k # c
      BY <1>10, <3>1 DEF ConnLocal, Free
    <3>3. /\ remote'[k] = "connecting" /\ local'[c] = "none" /\ hears' = hears
          /\ \A d \in Conn \ {k} : remote'[d] = remote[d]
          /\ \A d \in Conn \ {c} : local'[d] = local[d]
      BY <1>1, <1>10, <2>1, <3>1, <3>2 DEF ConnLocal, Inv, TypeOK
    <3>4. Lives(remote[c], local[c], hears[c]) /\ ~Lives(remote'[c], local'[c], hears'[c])
      BY <1>10, <2>1, <3>2, <3>3 DEF ConnLocal, Inv, PairOK, Lives
    <3>5. ~Lives(remote[k], local[k], hears[k]) /\ Lives(remote'[k], local'[k], hears'[k])
      BY <3>1, <3>3 DEF Free, Lives
    <3> QED
      BY <3>2, <3>3, <3>4, <3>5, Replaced
  <2>2. CASE remote[c] \notin {"destroyed", "closed"}
    BY <1>1, <1>10, <2>2, Unchanged DEF ConnLocal, Inv, TypeOK, PairOK, RemoteState, Lives
  <2> QED
    BY <2>1, <2>2
<1>11. CASE UNCHANGED vars
  BY <1>11, Unchanged DEF vars
<1>12. ~Ask /\ ~Close /\ \A c \in Conn : ~Refused(c)
  BY <1>1 DEF Ask, Answered, AskFails, AskAgain, Close, Refused
<1> QED
  BY <1>2, <1>3, <1>4, <1>5, <1>6, <1>7, <1>8, <1>9, <1>10, <1>11, <1>12
     DEF Next, Connects, LocalAnswers

\* The pairs of a tunnel that has just been opened.
LEMMA OpensWithAll ==
  ASSUME Inv, Answered
  PROVE  Cardinality(Alive') = MaxConn
<1>1. PICK C \in SUBSET Conn : /\ Cardinality(C) = MaxConn
                               /\ remote' = [c \in Conn |-> IF c \in C THEN "connecting" ELSE "none"]
  BY DEF Answered
<1>2. \A c \in Conn : local'[c] = "none"
  BY DEF Answered, Inv, Before
<1>3. Alive' = C
  BY <1>1, <1>2 DEF Alive
<1> QED
  BY <1>1, <1>3

\* How a step that is steady changes the number of pairs.
LEMMA SteadyCounts ==
  ASSUME Steady
  PROVE  /\ met' \subseteq {"late"} => Cardinality(Alive') >= Cardinality(Alive)
         /\ "late" \notin met' => Cardinality(Alive') <= Cardinality(Alive)
<1>1. CASE Alive' = Alive
  BY <1>1, AliveFinite
<1>2. ASSUME NEW c \in Alive, NEW k \in Conn \ Alive, Alive' = (Alive \ {c}) \cup {k}
      PROVE  Cardinality(Alive') = Cardinality(Alive)
  <2>1. IsFiniteSet(Alive \ {c}) /\ Cardinality(Alive \ {c}) = Cardinality(Alive) - 1
    BY AliveFinite, FS_RemoveElement
  <2>2. Cardinality((Alive \ {c}) \cup {k}) = Cardinality(Alive \ {c}) + 1
    BY <2>1, FS_AddElement
  <2> QED
    BY <1>2, <2>1, <2>2, AliveFinite
<1>3. ASSUME Alive' \subseteq Alive
      PROVE  Cardinality(Alive') <= Cardinality(Alive)
  BY <1>3, AliveFinite, FS_Subset
<1>4. ASSUME Alive \subseteq Alive'
      PROVE  Cardinality(Alive) <= Cardinality(Alive')
  BY <1>4, AliveFinite, FS_Subset
<1> QED
  BY <1>1, <1>2, <1>3, <1>4, AliveFinite DEF Steady

LEMMA Opens ==
  ASSUME Inv, [Next]_vars, phase # "up", phase' = "up"
  PROVE  Answered
BY DEF Next, Ask, AskFails, AfterFailure, AskAgain, Close, Connects, Connected, Refused, Unreachable,
       RemoteEnds, RemoteCloses, LocalAnswers, LocalConnects, LocalRefuses, LocalFails,
       LocalEnds, ConnLocal, vars, asking

-----------------------------------------------------------------------------
\* As long as no local socket fails other than by a refusal, and every remote
\* connects or is refused, an open tunnel never has fewer pairs than max_conn: the
\* listener of 'dead' in Tunnel.js replaces each that dies.
THEOREM NoneLostForGood == Spec => []LostOnlyByTrouble
<1>1. Init => LostOnlyByTrouble
  BY DEF Init, LostOnlyByTrouble
<1>2. ASSUME Inv, LostOnlyByTrouble, [Next]_vars
      PROVE  LostOnlyByTrouble'
  <2> SUFFICES ASSUME phase' = "up", ~closed', met' \subseteq {"late"}
               PROVE  Cardinality(Alive') >= MaxConn
    BY DEF LostOnlyByTrouble
  <2>1. CASE phase = "up"
    <3>1. ~closed /\ met \subseteq {"late"}
      BY <1>2, Lasting
    <3>2. Cardinality(Alive) >= MaxConn
      BY <1>2, <2>1, <3>1 DEF LostOnlyByTrouble
    <3>3. Cardinality(Alive') >= Cardinality(Alive)
      BY <1>2, <2>1, OpenIsSteady, SteadyCounts
    <3> QED
      BY <3>2, <3>3, AliveFinite, Bounds
  <2>2. CASE phase # "up"
    BY <1>2, <2>2, Opens, OpensWithAll, Bounds
  <2> QED
    BY <2>1, <2>2
<1> QED
  BY <1>1, <1>2, TunnelTypes, PTL DEF Spec

\* As long as no refusal of the local server comes after the remote has closed, it
\* never has more: no pair is reported dead twice by its two sockets.
THEOREM NoneTwice == Spec => []TwiceOnlyByTrouble
<1>1. Init => TwiceOnlyByTrouble
  BY DEF Init, TwiceOnlyByTrouble
<1>2. ASSUME Inv, TwiceOnlyByTrouble, [Next]_vars
      PROVE  TwiceOnlyByTrouble'
  <2> SUFFICES ASSUME phase' = "up", ~closed', "late" \notin met'
               PROVE  Cardinality(Alive') <= MaxConn
    BY DEF TwiceOnlyByTrouble
  <2>1. CASE phase = "up"
    <3>1. ~closed /\ "late" \notin met
      BY <1>2, Lasting
    <3>2. Cardinality(Alive) <= MaxConn
      BY <1>2, <2>1, <3>1 DEF TwiceOnlyByTrouble
    <3>3. Cardinality(Alive') <= Cardinality(Alive)
      BY <1>2, <2>1, OpenIsSteady, SteadyCounts
    <3> QED
      BY <3>2, <3>3, AliveFinite, Bounds
  <2>2. CASE phase # "up"
    BY <1>2, <2>2, Opens, OpensWithAll, Bounds
  <2> QED
    BY <2>1, <2>2
<1> QED
  BY <1>1, <1>2, TunnelTypes, PTL DEF Spec

\* A tunnel that is up and closed opens no connection, whatever dies or is retried
\* afterwards: the late 'open', 'dead' and connLocal() of Tunnel.js and TunnelCluster.js.
THEOREM StaysClosed == Spec => ClosedForGood
<1> DEFINE Opened == \A c \in Conn : remote'[c] = "connecting" => remote[c] = "connecting"
<1>1. ASSUME Inv, [Next]_vars, closed, phase = "up"
      PROVE  Opened
  <2>1. phase = "up"
    BY <1>1
  <2>2. CASE Ask \/ Close
    BY <1>1, <2>1, <2>2 DEF Ask, Answered, AskFails, AskAgain, Close
  <2>3. ASSUME NEW c \in Conn, Connects(c) \/ RemoteEnds(c) \/ RemoteCloses(c)
        PROVE  Opened
    BY <1>1, <2>3 DEF Inv, TypeOK, Connects, Connected, Refused, Destroyed, Unreachable, RemoteEnds,
                      RemoteCloses, Dead
  <2>4. ASSUME NEW c \in Conn, LocalAnswers(c) \/ LocalFails(c) \/ LocalEnds(c) \/ ConnLocal(c)
        PROVE  Opened
    BY <1>1, <2>4 DEF Inv, TypeOK, LocalAnswers, LocalConnects, LocalRefuses, LocalFails, LocalEnds,
                      ConnLocal, Dead
  <2>5. CASE UNCHANGED vars
    BY <2>5 DEF vars
  <2> QED
    BY <1>1, <2>2, <2>3, <2>4, <2>5 DEF Next
<1>2. Inv /\ [Next]_vars => [closed /\ phase = "up" => Opened]_vars
  BY <1>1
<1> QED
  BY <1>2, TunnelTypes, PTL DEF Spec, ClosedForGood
=============================================================================
