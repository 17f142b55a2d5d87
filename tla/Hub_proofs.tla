----------------------------- MODULE Hub_proofs -----------------------------
(***************************************************************************)
(* The registry of the hub, for any users, payloads, ids and requests: a   *)
(* payload opens one tunnel, a key keeps its id, a client is removed only  *)
(* by its own grace time, and the tunnels are counted.                     *)
(* The first invariant says which requests have a key, an id and an object *)
(* (Sound); each property has a second one that rests on it.               *)
(***************************************************************************)
EXTENDS Hub, TLAPS, FiniteSetTheorems

-----------------------------------------------------------------------------
(* The requests and their objects                                          *)

\* q is a request and o its object.
Sound(q, o) ==
  /\ q.stage = "none" => q.key = None /\ q.payload = None
  /\ q.stage \in {"verified", "found", "free"} => q.key \in Keys
  /\ q.stage \in {"free", "named", "listening", "answered"} => q.id \in Ids
  /\ q.stage \notin {"listening", "answered"} => o = NoClient
  /\ o.armed => o.id \in Ids
  /\ q.stage = "listening" => ~o.up
  /\ o.timer => ~o.online

TypeInv == TypeOK /\ \A r \in Reqs : Sound(reqs[r], objects[r])

\* A step of request r, or of its object.
Moves(r, q, o) ==
  /\ reqs' = [reqs EXCEPT ![r] = q] /\ q \in Requests
  /\ objects' = [objects EXCEPT ![r] = o] /\ o \in Objects
  /\ Sound(q, o)
  /\ table' \in [Keys -> Ids \cup {None}] /\ clients' \in [Ids -> Reqs \cup {None}]
  /\ tunnels' \in Int /\ validated' \subseteq Payloads /\ now' \in 0..MaxNow

LEMMA OneMoves ==
  ASSUME TypeInv, NEW r \in Reqs, NEW q, NEW o, Moves(r, q, o)
  PROVE  TypeInv'
<1>1. reqs' \in [Reqs -> Requests] /\ objects' \in [Reqs -> Objects]
  BY DEF TypeInv, TypeOK, Moves
<1>2. ASSUME NEW s \in Reqs PROVE Sound(reqs'[s], objects'[s])
  <2>1. CASE s = r
    BY <2>1 DEF TypeInv, TypeOK, Moves
  <2>2. CASE s # r
    BY <2>2 DEF TypeInv, TypeOK, Moves
  <2> QED
    BY <2>1, <2>2
<1> QED
  BY <1>1, <1>2 DEF TypeInv, TypeOK, Moves

LEMMA NoneIsNone ==
  /\ None \notin Keys /\ None \notin Ids /\ None \notin Reqs /\ None \notin Payloads
  /\ NoReq \in Requests /\ NoClient \in Objects /\ Sound(NoReq, NoClient)
BY HubAssumption DEF NoReq, NoClient, Requests, Objects, Stages, Sound

\* What is known of a request and its object, and what a change of stage keeps.
LEMMA ReqTypes ==
  ASSUME TypeInv, NEW r \in Reqs
  PROVE  reqs[r] \in Requests /\ objects[r] \in Objects /\ Sound(reqs[r], objects[r])
BY DEF TypeInv, TypeOK

\* Client c was made for id: the map has it, and the request listens.
LEMMA NewClientMoves ==
  ASSUME TypeInv, NEW r \in Reqs, NEW id \in Ids, objects[r] = NoClient,
         NewClient(r, id), UNCHANGED <<table, tunnels, validated, now>>
  PROVE  TypeInv'
<1> DEFINE q == [reqs[r] EXCEPT !.stage = "listening", !.id = id]
           o == [NoClient EXCEPT !.id = id, !.timer = TRUE, !.armed = TRUE]
<1>1. q \in Requests /\ q.stage = "listening" /\ q.id = id
  BY ReqTypes DEF Requests, Stages
<1>2. o \in Objects /\ o.id = id /\ ~o.up /\ ~o.online
  BY DEF Objects, NoClient
<1>3. reqs' = [reqs EXCEPT ![r] = q] /\ objects' = [objects EXCEPT ![r] = o]
  BY DEF NewClient, Becomes
<1>4. clients' \in [Ids -> Reqs \cup {None}]
  BY DEF NewClient, TypeInv, TypeOK
<1> HIDE DEF q, o
<1>5. Moves(r, q, o)
  BY <1>1, <1>2, <1>3, <1>4 DEF Moves, Sound, TypeInv, TypeOK
<1> QED
  BY <1>5, OneMoves, Zenon

LEMMA OldClientMoves ==
  ASSUME TypeInv, NEW r \in Reqs, NEW id \in Ids,
         OldClient(r, id), UNCHANGED <<table, tunnels, validated, now>>,
         objects[r] = NoClient
  PROVE  TypeInv'
<1> DEFINE q == [reqs[r] EXCEPT !.stage = "answered", !.id = id]
<1>1. q \in Requests /\ q.stage = "answered" /\ q.id = id
  BY ReqTypes DEF Requests, Stages
<1>2. reqs' = [reqs EXCEPT ![r] = q] /\ objects' = [objects EXCEPT ![r] = objects[r]]
  BY DEF OldClient, Becomes, TypeInv, TypeOK
<1> HIDE DEF q
<1>3. Moves(r, q, objects[r])
  BY <1>1, <1>2, NoneIsNone DEF Moves, Sound, OldClient, TypeInv, TypeOK, NoClient
<1> QED
  BY <1>3, OneMoves, Zenon

\* The map and the objects agree: a client that listens to its close event is
\* the one the map has under its id.
MapInv ==
  /\ \A c \in Reqs : objects[c].armed => clients[objects[c].id] = c
  /\ \A i \in Ids : clients[i] # None =>
       objects[clients[i]].armed /\ objects[clients[i]].id = i

\* What the grace time removes is the client it is of, and nothing else.
LEMMA GraceIsOwn ==
  ASSUME TypeInv, MapInv, NEW c \in Reqs, GraceFires(c)
  PROVE  /\ objects' = [objects EXCEPT ![c] = Closed(objects[c])]
         /\ \/ /\ objects[c].armed /\ objects[c].id \in Ids /\ clients[objects[c].id] = c
               /\ clients' = [clients EXCEPT ![objects[c].id] = None]
               /\ tunnels' = tunnels - 1
            \/ ~objects[c].armed /\ UNCHANGED <<clients, tunnels>>
<1> DEFINE id == objects[c].id
<1>1. CASE objects[c].armed
  <2>1. id \in Ids /\ clients[id] = c /\ c # None
    BY <1>1, ReqTypes, NoneIsNone DEF Sound, MapInv
  <2>2. /\ clients' = [clients EXCEPT ![id] = None] /\ tunnels' = tunnels - 1
        /\ objects' = [o \in Reqs |-> IF o \in {c, c} THEN Closed(objects[o]) ELSE objects[o]]
    BY <1>1, <2>1 DEF GraceFires, RemoveClient
  <2>3. objects' = [objects EXCEPT ![c] = Closed(objects[c])]
    BY <2>2 DEF TypeInv, TypeOK
  <2> QED
    BY <1>1, <2>1, <2>2, <2>3
<1>2. CASE ~objects[c].armed
  BY <1>2 DEF GraceFires, RemoveClient
<1> QED
  BY <1>1, <1>2

LEMMA ClosedObject ==
  ASSUME NEW o \in Objects
  PROVE  /\ Closed(o) \in Objects /\ ~Closed(o).armed /\ ~Closed(o).timer
         /\ Closed(o).id = o.id /\ Closed(o).up = o.up /\ Closed(o).online = o.online
BY DEF Closed, Objects

LEMMA TypeStep == TypeInv /\ MapInv /\ [Next]_vars => TypeInv'
<1> SUFFICES ASSUME TypeInv, MapInv, [Next]_vars PROVE TypeInv'
  OBVIOUS
<1>t. TypeOK
  BY DEF TypeInv
<1>1. CASE UNCHANGED vars
  BY <1>1 DEF TypeInv, TypeOK, vars
\* Steps of a request that leave the objects, and have or get a key and an id.
<1>q. ASSUME NEW r \in Reqs, NEW q \in Requests, reqs' = [reqs EXCEPT ![r] = q],
             q.stage \notin {"none", "listening", "answered"},
             q.stage \in {"verified", "found", "free"} => q.key \in Keys,
             q.stage \in {"free", "named"} => q.id \in Ids,
             objects[r] = NoClient, table' \in [Keys -> Ids \cup {None}],
             validated' \subseteq Payloads,
             UNCHANGED <<clients, objects, tunnels, now>>
      PROVE  TypeInv'
  <2>1. objects' = [objects EXCEPT ![r] = NoClient]
    BY <1>q, <1>t DEF TypeOK
  <2>2. Moves(r, q, NoClient)
    BY <1>q, <1>t, <2>1, NoneIsNone DEF Moves, Sound, TypeOK, NoClient
  <2> QED
    BY <2>2, OneMoves, Zenon
<1>2. ASSUME NEW r \in Reqs, NEW p \in Payloads, NEW reset \in BOOLEAN, Arrive(r, p, reset)
      PROVE  TypeInv'
  <2> DEFINE qv == [NoReq EXCEPT !.stage = "verified", !.payload = p, !.reset = reset,
                                 !.key = KeyOf[p]]
             qr == [reqs[r] EXCEPT !.stage = "refused"]
  <2>1. qv \in Requests /\ qv.stage = "verified" /\ qv.key \in Keys
    BY HubAssumption DEF Requests, NoReq, Stages
  <2>2. qr \in Requests /\ qr.stage = "refused"
    BY ReqTypes DEF Requests, Stages
  <2>3. objects[r] = NoClient
    BY <1>2, ReqTypes DEF Arrive, Arrives, Sound
  <2>4. \/ reqs' = [reqs EXCEPT ![r] = qv] /\ validated' = validated \cup {p}
        \/ reqs' = [reqs EXCEPT ![r] = qr] /\ validated' = validated
    BY <1>2 DEF Arrive, Becomes, Goto, SetAsValidated
  <2>5. validated' \subseteq Payloads
    BY <1>t, <2>4 DEF TypeOK
  <2>6. table' \in [Keys -> Ids \cup {None}] /\ UNCHANGED <<clients, objects, tunnels, now>>
    BY <1>2, <1>t DEF Arrive, TypeOK
  <2> HIDE DEF qv, qr
  <2> QED
    BY <1>q, <2>1, <2>2, <2>3, <2>4, <2>5, <2>6
<1>3. ASSUME NEW r \in Reqs, LookUp(r) PROVE TypeInv'
  <2> DEFINE ext == table[reqs[r].key]
             qn == [reqs[r] EXCEPT !.stage = "named", !.id = ext]
             qf == [reqs[r] EXCEPT !.stage = "found", !.ext = ext]
  <2>1. reqs[r].key \in Keys /\ objects[r] = NoClient /\ ext \in Ids \cup {None}
    BY <1>3, <1>t, ReqTypes DEF LookUp, Sound, TypeOK
  <2>2. qn.stage = "named" /\ qn.id = ext /\ (ext # None => qn \in Requests)
    BY <2>1, ReqTypes DEF Requests, Stages
  <2>3. qf \in Requests /\ qf.stage = "found" /\ qf.key \in Keys
    BY <2>1, ReqTypes DEF Requests, Stages
  <2>4. /\ \/ ext # None /\ reqs' = [reqs EXCEPT ![r] = qn]
           \/ reqs' = [reqs EXCEPT ![r] = qf]
        /\ UNCHANGED <<table, clients, objects, tunnels, validated, now>>
    BY <1>3 DEF LookUp, Becomes
  <2>5. table' \in [Keys -> Ids \cup {None}] /\ validated' \subseteq Payloads
    BY <1>t, <2>4 DEF TypeOK
  <2> HIDE DEF ext, qn, qf
  <2> QED
    BY <1>q, <2>1, <2>2, <2>3, <2>4, <2>5
<1>4. ASSUME NEW r \in Reqs, NEW id \in Ids, Draw(r, id) PROVE TypeInv'
  <2> DEFINE q == [reqs[r] EXCEPT !.stage = "free", !.id = id]
  <2>1. reqs[r].key \in Keys /\ objects[r] = NoClient
    BY <1>4, ReqTypes DEF Draw, Sound
  <2>2. q \in Requests /\ q.stage = "free" /\ q.key \in Keys /\ q.id = id
    BY <2>1, ReqTypes DEF Requests, Stages
  <2>3. reqs' = [reqs EXCEPT ![r] = q] /\ UNCHANGED <<table, clients, objects, tunnels, validated, now>>
    BY <1>4 DEF Draw, Becomes
  <2>4. table' \in [Keys -> Ids \cup {None}] /\ validated' \subseteq Payloads
    BY <1>t, <2>3 DEF TypeOK
  <2> HIDE DEF q
  <2> QED
    BY <1>q, <2>1, <2>2, <2>3, <2>4
<1>5. ASSUME NEW r \in Reqs, Write(r) PROVE TypeInv'
  <2> DEFINE qn == [reqs[r] EXCEPT !.stage = "named"]
             qf == [reqs[r] EXCEPT !.stage = "failed"]
  <2>1. reqs[r].key \in Keys /\ reqs[r].id \in Ids /\ objects[r] = NoClient
    BY <1>5, ReqTypes DEF Write, Sound
  <2>2. /\ qn \in Requests /\ qn.stage = "named" /\ qn.id \in Ids
        /\ qf \in Requests /\ qf.stage = "failed"
    BY <2>1, ReqTypes DEF Requests, Stages
  <2>3. /\ \/ reqs' = [reqs EXCEPT ![r] = qn] /\ table' = [table EXCEPT ![reqs[r].key] = reqs[r].id]
           \/ reqs' = [reqs EXCEPT ![r] = qf] /\ table' = table
        /\ UNCHANGED <<clients, objects, tunnels, validated, now>>
    BY <1>5 DEF Write, Goto, Becomes
  <2>4. table' \in [Keys -> Ids \cup {None}] /\ validated' \subseteq Payloads
    BY <1>t, <2>1, <2>3 DEF TypeOK
  <2> HIDE DEF qn, qf
  <2> QED
    BY <1>q, <2>1, <2>2, <2>3, <2>4
<1>6. ASSUME NEW r \in Reqs, Serve(r) PROVE TypeInv'
  <2>1. reqs[r].id \in Ids /\ objects[r] = NoClient
    BY <1>6, ReqTypes DEF Serve, Sound
  <2> QED
    BY <1>6, <2>1, NewClientMoves, OldClientMoves DEF Serve
<1>7. ASSUME NEW r \in Reqs, NEW id \in Ids, OpenByPath(r, id) PROVE TypeInv'
  <2>1. objects[r] = NoClient
    BY <1>7, ReqTypes DEF OpenByPath, Arrives, Sound
  <2> QED
    BY <1>7, <2>1, NewClientMoves, OldClientMoves DEF OpenByPath
<1>8. ASSUME NEW r \in Reqs, Listens(r) PROVE TypeInv'
  <2> DEFINE q == [reqs[r] EXCEPT !.stage = "answered", !.port = r]
             o == [objects[r] EXCEPT !.up = TRUE]
  <2>1. reqs[r].stage = "listening"
    BY <1>8 DEF Listens
  <2>2. q \in Requests /\ q.stage = "answered" /\ q.id = reqs[r].id /\ q.id \in Ids
    BY <2>1, ReqTypes DEF Requests, Stages, Sound
  <2>3. /\ o \in Objects /\ o.id = objects[r].id /\ o.armed = objects[r].armed
        /\ o.timer = objects[r].timer /\ o.online = objects[r].online
    BY ReqTypes DEF Objects
  <2>4. /\ reqs' = [reqs EXCEPT ![r] = q] /\ objects' = [objects EXCEPT ![r] = o]
        /\ tunnels' = tunnels + 1 /\ UNCHANGED <<table, clients, validated, now>>
    BY <1>8 DEF Listens, Becomes
  <2> HIDE DEF q, o
  <2>5. Moves(r, q, o)
    BY <1>t, <2>2, <2>3, <2>4, ReqTypes DEF Moves, Sound, TypeOK
  <2> QED
    BY <2>5, OneMoves, Zenon
\* Steps of an object that was made.
<1>o. ASSUME NEW c \in Reqs, NEW o \in Objects, objects' = [objects EXCEPT ![c] = o],
             objects[c].online \/ objects[c].timer \/ objects[c].armed,
             o.armed => objects[c].armed, o.id = objects[c].id, o.up = objects[c].up,
             o.timer => ~o.online, clients' \in [Ids -> Reqs \cup {None}], tunnels' \in Int,
             UNCHANGED <<table, reqs, validated, now>>
      PROVE  TypeInv'
  <2>1. reqs[c].stage \in {"listening", "answered"}
    BY <1>o, ReqTypes DEF Sound, NoClient
  <2>2. Sound(reqs[c], o)
    BY <1>o, <2>1, ReqTypes DEF Sound
  <2>3. reqs' = [reqs EXCEPT ![c] = reqs[c]]
    BY <1>o, <1>t DEF TypeOK
  <2>4. Moves(c, reqs[c], o)
    BY <1>o, <1>t, <2>2, <2>3, ReqTypes DEF Moves, TypeOK
  <2> QED
    BY <2>4, OneMoves, Zenon
<1>9. ASSUME NEW c \in Reqs, GraceFires(c) PROVE TypeInv'
  <2>1. clients' \in [Ids -> Reqs \cup {None}] /\ tunnels' \in Int
    BY <1>9, <1>t, GraceIsOwn DEF TypeOK
  <2>2. objects[c].timer /\ UNCHANGED <<table, reqs, validated, now>>
    BY <1>9 DEF GraceFires
  <2> QED
    BY <1>9, <1>o, <2>1, <2>2, GraceIsOwn, ReqTypes, ClosedObject
<1>10. ASSUME NEW c \in Reqs, Online(c) PROVE TypeInv'
  <2> DEFINE o == [objects[c] EXCEPT !.online = TRUE, !.timer = FALSE]
  <2>1. /\ o \in Objects /\ o.armed = objects[c].armed /\ o.id = objects[c].id
        /\ o.up = objects[c].up /\ ~o.timer
    BY ReqTypes DEF Objects
  <2>2. /\ objects' = [objects EXCEPT ![c] = o] /\ objects[c].armed
        /\ UNCHANGED <<table, reqs, clients, tunnels, validated, now>>
    BY <1>10 DEF Online
  <2> HIDE DEF o
  <2> QED
    BY <1>o, <1>t, <2>1, <2>2 DEF TypeOK
<1>11. ASSUME NEW c \in Reqs, Offline(c) PROVE TypeInv'
  <2> DEFINE o == [objects[c] EXCEPT !.online = FALSE, !.timer = TRUE]
  <2>1. /\ o \in Objects /\ o.armed = objects[c].armed /\ o.id = objects[c].id
        /\ o.up = objects[c].up /\ ~o.online
    BY ReqTypes DEF Objects
  <2>2. /\ objects' = [objects EXCEPT ![c] = o] /\ objects[c].online
        /\ UNCHANGED <<table, reqs, clients, tunnels, validated, now>>
    BY <1>11 DEF Offline
  <2> HIDE DEF o
  <2> QED
    BY <1>o, <1>t, <2>1, <2>2 DEF TypeOK
<1>12. ASSUME Tick \/ Purge PROVE TypeInv'
  <2>1. UNCHANGED <<table, reqs, clients, objects, tunnels>>
    BY <1>12 DEF Tick, Purge
  <2>2. validated' \subseteq Payloads /\ now' \in 0..MaxNow
    BY <1>12, <1>t, HubAssumption DEF Tick, Purge, TypeOK
  <2> QED
    BY <2>1, <2>2 DEF TypeInv, TypeOK
<1> QED
  BY <1>1, <1>2, <1>3, <1>4, <1>5, <1>6, <1>7, <1>8, <1>9, <1>10, <1>11, <1>12, HubAssumption
  DEF Next

\* What a new client is.
LEMMA NewClientIs ==
  ASSUME TypeInv, NEW r \in Reqs, NEW id \in Ids, NewClient(r, id)
  PROVE  /\ clients' = [clients EXCEPT ![id] = r]
         /\ \A c \in Reqs \ {r} : objects'[c] = objects[c] /\ reqs'[c] = reqs[c]
         /\ objects'[r].id = id /\ objects'[r].armed /\ ~objects'[r].up
         /\ reqs'[r].stage = "listening" /\ reqs'[r].id = id
         /\ reqs'[r].key = reqs[r].key /\ reqs'[r].payload = reqs[r].payload
         /\ reqs'[r].reset = reqs[r].reset
<1>1. /\ objects' = [objects EXCEPT ![r] = [NoClient EXCEPT !.id = id, !.timer = TRUE, !.armed = TRUE]]
      /\ reqs' = [reqs EXCEPT ![r] = [reqs[r] EXCEPT !.stage = "listening", !.id = id]]
      /\ clients' = [clients EXCEPT ![id] = r]
  BY DEF NewClient, Becomes
<1>2. objects \in [Reqs -> Objects] /\ reqs \in [Reqs -> Requests] /\ reqs[r] \in Requests
  BY DEF TypeInv, TypeOK
<1> QED
  BY <1>1, <1>2 DEF NoClient, Requests

LEMMA OldClientIs ==
  ASSUME TypeInv, NEW r \in Reqs, NEW id \in Ids, OldClient(r, id)
  PROVE  /\ UNCHANGED <<clients, objects>>
         /\ \A c \in Reqs \ {r} : reqs'[c] = reqs[c]
         /\ reqs'[r].stage = "answered" /\ reqs'[r].id = id
         /\ reqs'[r].key = reqs[r].key /\ reqs'[r].payload = reqs[r].payload
         /\ reqs'[r].reset = reqs[r].reset
<1>1. /\ reqs' = [reqs EXCEPT ![r] = [reqs[r] EXCEPT !.stage = "answered", !.id = id]]
      /\ UNCHANGED <<clients, objects>>
  BY DEF OldClient, Becomes
<1>2. reqs \in [Reqs -> Requests] /\ reqs[r] \in Requests
  BY DEF TypeInv, TypeOK
<1> QED
  BY <1>1, <1>2 DEF Requests

\* The steps that change the map, or which objects listen to their close.
LEMMA MapChanges ==
  ASSUME TypeInv, [Next]_vars
  PROVE  \/ \E r \in Reqs, id \in Ids : /\ objects[r] = NoClient /\ clients[id] = None
                                        /\ NewClient(r, id) /\ tunnels' = tunnels
         \/ \E c \in Reqs : GraceFires(c)
         \/ \E r \in Reqs : Listens(r)
         \/ /\ UNCHANGED <<clients, tunnels>>
            /\ \A c \in Reqs : /\ objects'[c].armed = objects[c].armed
                               /\ objects'[c].id = objects[c].id
                               /\ objects'[c].up = objects[c].up
<1> DEFINE Same == /\ UNCHANGED <<clients, tunnels>>
                   /\ \A c \in Reqs : /\ objects'[c].armed = objects[c].armed
                                      /\ objects'[c].id = objects[c].id
                                      /\ objects'[c].up = objects[c].up
<1>1. ASSUME NEW r \in Reqs, NEW id \in Ids, objects[r] = NoClient, tunnels' = tunnels,
             IF clients[id] # None THEN OldClient(r, id) ELSE NewClient(r, id)
      PROVE  \/ Same
             \/ clients[id] = None /\ NewClient(r, id)
  BY <1>1 DEF OldClient
<1>2. ASSUME NEW r \in Reqs, Serve(r)
      PROVE  Same \/ \E id \in Ids : /\ objects[r] = NoClient /\ clients[id] = None
                                     /\ NewClient(r, id) /\ tunnels' = tunnels
  <2>1. reqs[r].id \in Ids /\ objects[r] = NoClient
    BY <1>2, ReqTypes DEF Serve, Sound
  <2> QED
    BY <1>1, <1>2, <2>1 DEF Serve
<1>3. ASSUME NEW r \in Reqs, NEW id \in Ids, OpenByPath(r, id)
      PROVE  Same \/ /\ objects[r] = NoClient /\ clients[id] = None
                     /\ NewClient(r, id) /\ tunnels' = tunnels
  <2>1. objects[r] = NoClient
    BY <1>3, ReqTypes DEF OpenByPath, Arrives, Sound
  <2> QED
    BY <1>1, <1>3, <2>1 DEF OpenByPath
<1>4. ASSUME NEW c \in Reqs, Online(c) \/ Offline(c) PROVE Same
  <2>1. objects \in [Reqs -> Objects] /\ objects[c] \in Objects
    BY DEF TypeInv, TypeOK
  <2>2. CASE Online(c)
    BY <2>1, <2>2 DEF Online, Objects
  <2>3. CASE Offline(c)
    BY <2>1, <2>3 DEF Offline, Objects
  <2> QED
    BY <1>4, <2>2, <2>3
<1>5. ASSUME UNCHANGED <<clients, objects, tunnels>> PROVE Same
  BY <1>5
<1> HIDE DEF Same
<1>6. ASSUME NEW r \in Reqs, LookUp(r) \/ Write(r) PROVE Same
  BY <1>5, <1>6 DEF LookUp, Write
<1>7. ASSUME NEW r \in Reqs, NEW id \in Ids, Draw(r, id) PROVE Same
  BY <1>5, <1>7 DEF Draw
<1>8. ASSUME NEW r \in Reqs, NEW p \in Payloads, NEW reset \in BOOLEAN, Arrive(r, p, reset) PROVE Same
  BY <1>5, <1>8 DEF Arrive
<1>9. ASSUME Tick \/ Purge \/ UNCHANGED vars PROVE Same
  BY <1>5, <1>9 DEF Tick, Purge, vars
<1>10. \/ Same
       \/ \E r \in Reqs, id \in Ids : /\ objects[r] = NoClient /\ clients[id] = None
                                     /\ NewClient(r, id) /\ tunnels' = tunnels
       \/ \E c \in Reqs : GraceFires(c)
       \/ \E r \in Reqs : Listens(r)
  <2>1. Paths \subseteq Ids
    BY HubAssumption
  <2>2. CASE UNCHANGED vars
    BY <1>9, <2>2, Zenon
  <2>3. ASSUME NEW r \in Reqs,
               \/ \E p \in Payloads, reset \in BOOLEAN : Arrive(r, p, reset)
               \/ \E id \in Paths : OpenByPath(r, id)
               \/ LookUp(r)
               \/ \E id \in Ids : Draw(r, id)
               \/ Write(r)
               \/ Serve(r)
        PROVE  \/ Same
               \/ \E s \in Reqs, id \in Ids : /\ objects[s] = NoClient /\ clients[id] = None
                                             /\ NewClient(s, id) /\ tunnels' = tunnels
    BY <1>2, <1>3, <1>6, <1>7, <1>8, <2>1, <2>3, Zenon
  <2>4. CASE Next
    BY <1>4, <1>9, <2>3, <2>4, Zenon DEF Next
  <2> QED
    BY <2>2, <2>4, Zenon
<1> QED
  BY <1>10 DEF Same

LEMMA MapStep == TypeInv /\ MapInv /\ [Next]_vars => MapInv'
<1> SUFFICES ASSUME TypeInv, MapInv, [Next]_vars PROVE MapInv'
  OBVIOUS
<1>t. TypeOK
  BY DEF TypeInv
<1>s. ASSUME clients' = clients,
             \A c \in Reqs : objects'[c].armed = objects[c].armed /\ objects'[c].id = objects[c].id
      PROVE  MapInv'
  <2>1. \A i \in Ids : clients[i] # None => clients[i] \in Reqs
    BY <1>t DEF TypeOK
  <2> QED
    BY <1>s, <2>1 DEF MapInv
<1>1. ASSUME NEW r \in Reqs, NEW id \in Ids, objects[r] = NoClient, clients[id] = None,
             NewClient(r, id)
      PROVE  MapInv'
  <2>1. /\ clients' = [clients EXCEPT ![id] = r]
        /\ \A c \in Reqs \ {r} : objects'[c] = objects[c]
        /\ objects'[r].id = id /\ objects'[r].armed
    BY <1>1, NewClientIs
  <2>2. ASSUME NEW c \in Reqs, objects'[c].armed PROVE clients'[objects'[c].id] = c
    <3>1. CASE c = r
      BY <1>t, <2>1, <3>1 DEF TypeOK
    <3>2. CASE c # r
      <4>1. objects[c].armed /\ objects'[c].id = objects[c].id /\ clients[objects[c].id] = c
        BY <2>1, <2>2, <3>2 DEF MapInv
      <4>2. objects[c].id \in Ids /\ objects[c].id # id
        BY <1>1, <4>1, ReqTypes, NoneIsNone DEF Sound
      <4> QED
        BY <1>t, <2>1, <4>1, <4>2 DEF TypeOK
    <3> QED
      BY <3>1, <3>2
  <2>3. ASSUME NEW i \in Ids, clients'[i] # None
        PROVE  objects'[clients'[i]].armed /\ objects'[clients'[i]].id = i
    <3>1. CASE i = id
      BY <1>t, <2>1, <3>1 DEF TypeOK
    <3>2. CASE i # id
      <4>1. clients'[i] = clients[i] /\ clients[i] \in Reqs /\ objects[clients[i]].armed
        BY <1>t, <2>1, <2>3, <3>2 DEF TypeOK, MapInv
      <4>2. clients[i] # r
        BY <1>1, <4>1 DEF NoClient
      <4> QED
        BY <2>1, <2>3, <4>1, <4>2 DEF MapInv
    <3> QED
      BY <3>1, <3>2
  <2> QED
    BY <2>2, <2>3 DEF MapInv
<1>2. ASSUME NEW c \in Reqs, GraceFires(c) PROVE MapInv'
  <2> DEFINE id == objects[c].id
  <2>1. /\ objects'[c] = Closed(objects[c])
        /\ \A d \in Reqs : d # c => objects'[d] = objects[d]
    BY <1>2, <1>t, GraceIsOwn DEF TypeOK
  <2>2. ~objects'[c].armed /\ objects'[c].id = id
    BY <2>1, ReqTypes, ClosedObject
  <2>3. CASE ~objects[c].armed
    <3>1. clients' = clients
      BY <1>2, <2>3, GraceIsOwn
    <3>2. \A d \in Reqs : objects'[d].armed = objects[d].armed /\ objects'[d].id = objects[d].id
      <4>1. objects[c].armed \in BOOLEAN /\ objects'[c].armed \in BOOLEAN
        BY <2>1, ReqTypes, ClosedObject DEF Objects
      <4> QED
        BY <2>1, <2>2, <2>3, <4>1
    <3> QED
      BY <1>s, <3>1, <3>2
  <2>4. CASE objects[c].armed
    <3>1. id \in Ids /\ clients[id] = c /\ clients' = [clients EXCEPT ![id] = None]
      BY <1>2, <2>4, GraceIsOwn
    <3>2. ASSUME NEW d \in Reqs, objects'[d].armed PROVE clients'[objects'[d].id] = d
      <4>1. d # c /\ objects'[d] = objects[d] /\ clients[objects[d].id] = d
        BY <2>1, <2>2, <3>2 DEF MapInv
      <4>2. objects[d].id \in Ids /\ objects[d].id # id
        BY <3>1, <3>2, <4>1, ReqTypes DEF Sound
      <4> QED
        BY <1>t, <3>1, <4>1, <4>2 DEF TypeOK
    <3>3. ASSUME NEW i \in Ids, clients'[i] # None
          PROVE  objects'[clients'[i]].armed /\ objects'[clients'[i]].id = i
      <4>1. i # id /\ clients'[i] = clients[i] /\ clients[i] \in Reqs
        BY <1>t, <3>1, <3>3 DEF TypeOK
      <4>2. objects[clients[i]].armed /\ objects[clients[i]].id = i
        BY <3>3, <4>1 DEF MapInv
      <4> QED
        BY <2>1, <4>1, <4>2
    <3> QED
      BY <3>2, <3>3 DEF MapInv
  <2> QED
    BY <2>3, <2>4
<1>3. ASSUME NEW r \in Reqs, Listens(r) PROVE MapInv'
  <2>1. objects \in [Reqs -> Objects] /\ objects[r] \in Objects
    BY <1>t DEF TypeOK
  <2>2. objects' = [objects EXCEPT ![r] = [objects[r] EXCEPT !.up = TRUE]] /\ clients' = clients
    BY <1>3 DEF Listens
  <2>3. \A c \in Reqs : objects'[c].armed = objects[c].armed /\ objects'[c].id = objects[c].id
    BY <2>1, <2>2 DEF Objects
  <2> QED
    BY <1>s, <2>2, <2>3
<1> QED
  BY <1>1, <1>2, <1>3, <1>s, MapChanges

LEMMA Starts == Init => TypeInv /\ MapInv
<1> SUFFICES ASSUME Init PROVE TypeInv /\ MapInv
  OBVIOUS
<1>1. TypeOK
  BY NoneIsNone, HubAssumption DEF Init, TypeOK
<1>2. ASSUME NEW r \in Reqs PROVE Sound(reqs[r], objects[r])
  BY NoneIsNone DEF Init
<1>3. MapInv
  BY DEF Init, MapInv, NoClient
<1> QED
  BY <1>1, <1>2, <1>3 DEF TypeInv

LEMMA SoundAlways == Init /\ [][Next]_vars => [](TypeInv /\ MapInv)
BY Starts, TypeStep, MapStep, PTL

\* TypeOK: the table, the requests, the map and the objects are what they should
\* be, however many requests come.
THEOREM Types == Spec => []TypeOK
<1>1. TypeInv => TypeOK
  BY DEF TypeInv
<1> QED
  BY <1>1, SoundAlways, PTL DEF Spec

\* OnlyItself: what leaves the map is the client whose own grace time is over
\* and that has no socket, never one that came later under the same id.
THEOREM OnlyItsOwnTimer == Spec => OnlyItself
<1> DEFINE Own == \A id \in Ids : clients[id] # None /\ clients'[id] # clients[id] =>
                    LET c == clients[id] IN
                    objects[c].timer /\ ~objects[c].online /\ ~objects'[c].armed
<1>1. TypeInv /\ MapInv /\ [Next]_vars => [Own]_vars
  <2> SUFFICES ASSUME TypeInv, MapInv, [Next]_vars, NEW id \in Ids,
                      clients[id] # None, clients'[id] # clients[id]
               PROVE  /\ objects[clients[id]].timer
                      /\ ~objects[clients[id]].online
                      /\ ~objects'[clients[id]].armed
    OBVIOUS
  <2>1. ~\E r \in Reqs, i \in Ids : clients[i] = None /\ NewClient(r, i)
    <3> SUFFICES ASSUME NEW r \in Reqs, NEW i \in Ids, clients[i] = None, NewClient(r, i)
                 PROVE  FALSE
      OBVIOUS
    <3>1. clients' = [clients EXCEPT ![i] = r]
      BY NewClientIs
    <3> QED
      BY <3>1 DEF TypeInv, TypeOK
  <2>2. PICK c \in Reqs : GraceFires(c)
    BY <2>1, MapChanges DEF Listens
  <2>3. objects[c].armed /\ clients[objects[c].id] = c /\ objects[c].id = id
    BY <2>2, GraceIsOwn DEF TypeInv, TypeOK
  <2>4. objects[c].timer /\ ~objects[c].online
    BY <2>2, ReqTypes DEF GraceFires, Sound
  <2>5. ~objects'[c].armed
    <3>1. objects'[c] = Closed(objects[c])
      BY <2>2, GraceIsOwn DEF TypeInv, TypeOK
    <3> QED
      BY <3>1, ReqTypes, ClosedObject
  <2> QED
    BY <2>3, <2>4, <2>5
<1> QED
  BY <1>1, SoundAlways, PTL DEF Spec, OnlyItself

-----------------------------------------------------------------------------
(* A payload opens one tunnel                                              *)

\* What a request does to the requests, apart from those that arrive.
LEMMA ReqChanges ==
  ASSUME TypeInv, NEW r \in Reqs, NEW q \in Requests, reqs' = [reqs EXCEPT ![r] = q]
  PROVE  reqs'[r] = q /\ \A s \in Reqs \ {r} : reqs'[s] = reqs[s]
BY DEF TypeInv, TypeOK

\* A request has its payload, its key and whether it resets from the start.
LEMMA Signed ==
  ASSUME TypeInv, [Next]_vars
  PROVE  \/ \E r \in Reqs, p \in Payloads, reset \in BOOLEAN : Arrive(r, p, reset)
         \/ \A s \in Reqs : /\ reqs'[s].payload = reqs[s].payload
                            /\ reqs'[s].key = reqs[s].key /\ reqs'[s].reset = reqs[s].reset
<1> DEFINE Same == \A s \in Reqs : /\ reqs'[s].payload = reqs[s].payload
                                   /\ reqs'[s].key = reqs[s].key
                                   /\ reqs'[s].reset = reqs[s].reset
<1>1. ASSUME NEW r \in Reqs, NEW q \in Requests, reqs' = [reqs EXCEPT ![r] = q],
             q.payload = reqs[r].payload, q.key = reqs[r].key, q.reset = reqs[r].reset
      PROVE  Same
  BY <1>1, ReqChanges
<1>2. ASSUME reqs' = reqs PROVE Same
  BY <1>2
<1>3. ASSUME NEW r \in Reqs, NEW id \in Ids, OldClient(r, id) \/ NewClient(r, id) PROVE Same
  <2>1. CASE OldClient(r, id)
    BY <2>1, OldClientIs
  <2>2. CASE NewClient(r, id)
    BY <2>2, NewClientIs
  <2> QED
    BY <1>3, <2>1, <2>2
<1> HIDE DEF Same
<1>4. ASSUME NEW r \in Reqs, LookUp(r) PROVE Same
  <2> DEFINE ext == table[reqs[r].key]
             qn == [reqs[r] EXCEPT !.stage = "named", !.id = ext]
             qf == [reqs[r] EXCEPT !.stage = "found", !.ext = ext]
  <2>1. ext \in Ids \cup {None} /\ reqs[r] \in Requests
    BY <1>4, ReqTypes DEF LookUp, Sound, TypeInv, TypeOK
  <2>2. ext # None => /\ qn \in Requests /\ qn.payload = reqs[r].payload
                      /\ qn.key = reqs[r].key /\ qn.reset = reqs[r].reset
    BY <2>1 DEF Requests, Stages
  <2>3. /\ qf \in Requests /\ qf.payload = reqs[r].payload
        /\ qf.key = reqs[r].key /\ qf.reset = reqs[r].reset
    BY <2>1 DEF Requests, Stages
  <2>4. \/ ext # None /\ reqs' = [reqs EXCEPT ![r] = qn]
        \/ reqs' = [reqs EXCEPT ![r] = qf]
    BY <1>4 DEF LookUp, Becomes
  <2> HIDE DEF ext, qn, qf
  <2> QED
    BY <1>1, <2>2, <2>3, <2>4
<1>5. ASSUME NEW r \in Reqs, NEW id \in Ids, Draw(r, id) PROVE Same
  <2> DEFINE q == [reqs[r] EXCEPT !.stage = "free", !.id = id]
  <2>1. /\ q \in Requests /\ q.payload = reqs[r].payload
        /\ q.key = reqs[r].key /\ q.reset = reqs[r].reset
    BY ReqTypes DEF Requests, Stages
  <2>2. reqs' = [reqs EXCEPT ![r] = q]
    BY <1>5 DEF Draw, Becomes
  <2> HIDE DEF q
  <2> QED
    BY <1>1, <2>1, <2>2
<1>6. ASSUME NEW r \in Reqs, Write(r) PROVE Same
  <2> DEFINE q(stage) == [reqs[r] EXCEPT !.stage = stage]
  <2>1. \A stage \in Stages : /\ q(stage) \in Requests /\ q(stage).payload = reqs[r].payload
                             /\ q(stage).key = reqs[r].key /\ q(stage).reset = reqs[r].reset
    BY ReqTypes DEF Requests
  <2>2. \E stage \in Stages : reqs' = [reqs EXCEPT ![r] = q(stage)]
    <3>1. "named" \in Stages /\ "failed" \in Stages
      BY DEF Stages
    <3> QED
      BY <1>6, <3>1 DEF Write, Goto, Becomes
  <2> HIDE DEF q
  <2> QED
    BY <1>1, <2>1, <2>2
<1>7. ASSUME NEW r \in Reqs, Serve(r) PROVE Same
  <2>1. reqs[r].id \in Ids
    BY <1>7, ReqTypes DEF Serve, Sound
  <2> QED
    BY <1>3, <1>7, <2>1 DEF Serve
<1>8. ASSUME NEW r \in Reqs, NEW id \in Ids, OpenByPath(r, id) PROVE Same
  BY <1>3, <1>8 DEF OpenByPath
<1>9. ASSUME NEW r \in Reqs, Listens(r) PROVE Same
  <2> DEFINE q == [reqs[r] EXCEPT !.stage = "answered", !.port = r]
  <2>1. /\ q \in Requests /\ q.payload = reqs[r].payload
        /\ q.key = reqs[r].key /\ q.reset = reqs[r].reset
    BY ReqTypes DEF Requests, Stages
  <2>2. reqs' = [reqs EXCEPT ![r] = q]
    BY <1>9 DEF Listens, Becomes
  <2> HIDE DEF q
  <2> QED
    BY <1>1, <2>1, <2>2
<1>10. ASSUME NEW c \in Reqs, GraceFires(c) \/ Online(c) \/ Offline(c) PROVE Same
  BY <1>2, <1>10, Zenon DEF GraceFires, Online, Offline
<1>11. ASSUME Tick \/ Purge \/ UNCHANGED vars PROVE Same
  BY <1>2, <1>11 DEF Tick, Purge, vars
<1>12. Same \/ \E r \in Reqs, p \in Payloads, reset \in BOOLEAN : Arrive(r, p, reset)
  <2>1. Paths \subseteq Ids
    BY HubAssumption
  <2>2. CASE Next
    BY <1>4, <1>5, <1>6, <1>7, <1>8, <1>9, <1>10, <1>11, <2>1, <2>2 DEF Next
  <2> QED
    BY <1>11, <2>2
<1> QED
  BY <1>12 DEF Same

\* What a request that arrives changes.
LEMMA Arrived ==
  ASSUME TypeInv, NEW r \in Reqs, NEW p \in Payloads, NEW reset \in BOOLEAN, Arrive(r, p, reset)
  PROVE  /\ \A s \in Reqs \ {r} : reqs'[s] = reqs[s]
         /\ reqs[r].key = None /\ reqs[r].payload = None /\ objects[r] = NoClient
         /\ \/ /\ reqs'[r].stage = "verified" /\ reqs'[r].payload = p
               /\ Verified(p) /\ validated' = validated \cup {p}
            \/ /\ reqs'[r].stage = "refused" /\ reqs'[r].payload = None
               /\ validated' = validated
<1> DEFINE qv == [NoReq EXCEPT !.stage = "verified", !.payload = p, !.reset = reset,
                               !.key = KeyOf[p]]
           qr == [reqs[r] EXCEPT !.stage = "refused"]
<1>1. qv \in Requests /\ qv.stage = "verified" /\ qv.payload = p
  BY HubAssumption DEF Requests, NoReq, Stages
<1>2. qr \in Requests /\ qr.stage = "refused" /\ qr.payload = reqs[r].payload
  BY ReqTypes DEF Requests, Stages
<1>3. reqs[r].key = None /\ reqs[r].payload = None /\ objects[r] = NoClient
  BY ReqTypes DEF Arrive, Arrives, Sound
<1>4. \/ reqs' = [reqs EXCEPT ![r] = qv] /\ Verified(p) /\ validated' = validated \cup {p}
      \/ reqs' = [reqs EXCEPT ![r] = qr] /\ validated' = validated
  BY DEF Arrive, Becomes, Goto, SetAsValidated
<1> HIDE DEF qv, qr
<1> QED
  BY <1>1, <1>2, <1>3, <1>4, ReqChanges

\* A payload that was used is remembered, or is no longer valid; in either case
\* it is not refused for being too early.
UseInv ==
  /\ OneUse
  /\ \A r \in Reqs : reqs[r].payload # None =>
       LET p == reqs[r].payload IN
       /\ now - When[p] >= -ValidFor
       /\ p \in validated \/ now - When[p] > ValidFor

LEMMA UseStep == TypeInv /\ UseInv /\ [Next]_vars => UseInv'
<1> SUFFICES ASSUME TypeInv, UseInv, [Next]_vars PROVE UseInv'
  OBVIOUS
<1>n. now \in Int /\ \A r \in Reqs : reqs[r].payload \in Payloads \cup {None}
  BY ReqTypes DEF TypeInv, TypeOK, Requests
<1>w. (\A p \in Payloads : When[p] \in Int) /\ ValidFor \in Nat /\ Keep \in Nat /\ ValidFor <= Keep
  BY HubAssumption
<1>1. ASSUME NEW r \in Reqs, NEW p \in Payloads, NEW reset \in BOOLEAN, Arrive(r, p, reset)
      PROVE  UseInv'
  <2>1. now' = now
    BY <1>1 DEF Arrive
  <2>2. CASE reqs'[r].payload = None /\ validated' = validated
    BY <1>1, <2>1, <2>2, Arrived DEF UseInv, OneUse
  <2>3. CASE reqs'[r].payload = p /\ Verified(p) /\ validated' = validated \cup {p}
    <3>1. \A s \in Reqs : reqs[s].payload # p
      BY <1>n, <1>w, <2>3, NoneIsNone DEF UseInv, Verified, Distance, IsAlreadyValidated
    <3>2. now - When[p] >= -ValidFor
      BY <1>n, <1>w, <2>3 DEF Verified, Distance
    <3>3. OneUse'
      BY <1>1, <2>3, <3>1, Arrived DEF UseInv, OneUse
    <3>4. ASSUME NEW s \in Reqs, reqs'[s].payload # None
          PROVE  /\ now' - When[reqs'[s].payload] >= -ValidFor
                 /\ reqs'[s].payload \in validated' \/ now' - When[reqs'[s].payload] > ValidFor
      <4>1. CASE s = r
        BY <2>1, <2>3, <3>2, <4>1
      <4>2. CASE s # r
        <5>1. reqs'[s] = reqs[s]
          BY <1>1, <4>2, Arrived
        <5> QED
          BY <2>1, <2>3, <3>4, <5>1 DEF UseInv
      <4> QED
        BY <4>1, <4>2
    <3> QED
      BY <3>3, <3>4 DEF UseInv
  <2> QED
    BY <1>1, <2>2, <2>3, Arrived
<1>2. ASSUME \A s \in Reqs : reqs'[s].payload = reqs[s].payload,
             now' = now \/ now' = now + 1,
             \A p \in validated : p \in validated' \/ (now' = now /\ Distance(now, When[p]) > Keep)
      PROVE  UseInv'
  <2>1. OneUse'
    BY <1>2 DEF UseInv, OneUse
  <2>2. ASSUME NEW s \in Reqs, reqs'[s].payload # None
        PROVE  /\ now' - When[reqs'[s].payload] >= -ValidFor
               /\ reqs'[s].payload \in validated' \/ now' - When[reqs'[s].payload] > ValidFor
    <3> DEFINE p == reqs[s].payload
    <3>1. p \in Payloads /\ When[p] \in Int /\ reqs'[s].payload = p
      BY <1>2, <1>n, <1>w, <2>2
    <3>2. now - When[p] >= -ValidFor /\ (p \in validated \/ now - When[p] > ValidFor)
      BY <1>2, <2>2 DEF UseInv
    <3>3. now' - When[p] >= -ValidFor
      BY <1>2, <1>n, <1>w, <3>1, <3>2
    <3>4. p \in validated' \/ now' - When[p] > ValidFor
      BY <1>2, <1>n, <1>w, <3>1, <3>2 DEF Distance
    <3> QED
      BY <3>1, <3>3, <3>4
  <2> QED
    BY <2>1, <2>2 DEF UseInv
<1>3. \/ \E r \in Reqs, p \in Payloads, reset \in BOOLEAN : Arrive(r, p, reset)
      \/ now' = now /\ validated' = validated
      \/ Tick \/ Purge
  BY DEF Next, LookUp, Draw, Write, Serve, OpenByPath, Listens, GraceFires, Online, Offline, vars
<1>4. CASE now' = now /\ validated' = validated /\ \A s \in Reqs : reqs'[s].payload = reqs[s].payload
  BY <1>2, <1>4
<1>5. CASE Tick
  BY <1>2, <1>5 DEF Tick
<1>6. CASE Purge
  <2>1. \A p \in validated : p \in validated' \/ Distance(now, When[p]) > Keep
    <3> SUFFICES ASSUME NEW p \in validated, ~(Distance(now, When[p]) <= Keep)
                 PROVE  Distance(now, When[p]) > Keep
      BY <1>6 DEF Purge
    <3>1. p \in Payloads
      BY DEF TypeInv, TypeOK
    <3> QED
      BY <1>n, <1>w, <3>1 DEF Distance
  <2> QED
    BY <1>2, <1>6, <2>1 DEF Purge
<1> QED
  BY <1>1, <1>3, <1>4, <1>5, <1>6, Signed

\* OneUse: a signed payload opens a tunnel once, however often it is sent.
THEOREM UsedOnce == Spec => []OneUse
<1>1. Init => UseInv
  BY DEF Init, UseInv, OneUse, NoReq
<1>2. UseInv => OneUse
  BY DEF UseInv
<1> QED
  BY <1>1, <1>2, SoundAlways, UseStep, PTL DEF Spec

-----------------------------------------------------------------------------
(* A key keeps its id                                                      *)

Named == {"named", "listening", "answered"}

\* No two keys have one id; and of a key that never reset it, all that was
\* given an id has the one of the table.
IdsInv ==
  /\ \A j, k \in Keys : j # k /\ table[k] # None => table[j] # table[k]
  /\ \A k \in Keys : ~ResetBy(k) =>
       \A r \in Reqs : reqs[r].key = k =>
         /\ reqs[r].stage \in Named => reqs[r].id = table[k]
         /\ objects[r].id # None => objects[r].id = table[k]

\* What a request may become, and its object, while the table stays.
Keeps(r) ==
  /\ reqs'[r].stage \in Named =>
       \/ reqs'[r].id = table[reqs[r].key]
       \/ reqs[r].stage \in Named /\ reqs'[r].id = reqs[r].id
  /\ objects'[r].id # None =>
       \/ objects'[r].id = objects[r].id
       \/ reqs[r].stage \in Named /\ objects'[r].id = reqs[r].id

LEMMA KeepsIds ==
  ASSUME TypeInv, IdsInv, table' = table,
         \A r \in Reqs : reqs'[r].key = reqs[r].key /\ reqs'[r].reset = reqs[r].reset,
         \A r \in Reqs : reqs[r].key \in Keys => Keeps(r)
  PROVE  IdsInv'
<1> SUFFICES ASSUME NEW k \in Keys, ~ResetBy(k)', NEW r \in Reqs, reqs'[r].key = k
             PROVE  /\ reqs'[r].stage \in Named => reqs'[r].id = table[k]
                    /\ objects'[r].id # None => objects'[r].id = table[k]
  BY DEF IdsInv, Named
<1>1. ~ResetBy(k) /\ reqs[r].key = k /\ Keeps(r)
  BY DEF ResetBy
<1> QED
  BY <1>1 DEF IdsInv, Keeps

LEMMA IdsStep == TypeInv /\ IdsInv /\ [Next]_vars => IdsInv'
<1> SUFFICES ASSUME TypeInv, IdsInv, [Next]_vars PROVE IdsInv'
  OBVIOUS
<1>1. ASSUME NEW r \in Reqs, NEW p \in Payloads, NEW reset \in BOOLEAN, Arrive(r, p, reset)
      PROVE  IdsInv'
  <2>1. table' = table /\ objects' = objects
    BY <1>1 DEF Arrive
  <2>2. /\ \A s \in Reqs \ {r} : reqs'[s] = reqs[s]
        /\ reqs[r].key = None /\ objects[r] = NoClient
        /\ reqs'[r].stage \notin Named
    BY <1>1, Arrived DEF Named
  <2>3. objects'[r].id = None
    BY <2>1, <2>2 DEF NoClient
  <2>4. ASSUME NEW k \in Keys, ~ResetBy(k)', NEW s \in Reqs, reqs'[s].key = k
        PROVE  /\ reqs'[s].stage \in Named => reqs'[s].id = table[k]
               /\ objects'[s].id # None => objects'[s].id = table[k]
    <3>1. CASE s = r
      BY <2>2, <2>3, <3>1
    <3>2. CASE s # r
      <4>1. ~ResetBy(k)
        BY <2>2, <2>4, NoneIsNone DEF ResetBy
      <4> QED
        BY <2>1, <2>2, <2>4, <3>2, <4>1 DEF IdsInv
    <3> QED
      BY <3>1, <3>2
  <2> QED
    BY <2>1, <2>4 DEF IdsInv, Named
<1>2. ASSUME \A s \in Reqs : /\ reqs'[s].payload = reqs[s].payload
                            /\ reqs'[s].key = reqs[s].key /\ reqs'[s].reset = reqs[s].reset
      PROVE  IdsInv'
  <2>k. ASSUME table' = table, \A r \in Reqs : reqs[r].key \in Keys => Keeps(r) PROVE IdsInv'
    BY <1>2, <2>k, KeepsIds
  \* One request changes, to q.
  <2>q. ASSUME NEW r \in Reqs, NEW q \in Requests, reqs' = [reqs EXCEPT ![r] = q],
               UNCHANGED <<table, objects>>,
               q.stage \in Named => q.id = table[reqs[r].key]
                                     \/ (reqs[r].stage \in Named /\ q.id = reqs[r].id)
        PROVE  IdsInv'
    <3>1. reqs'[r] = q /\ \A s \in Reqs \ {r} : reqs'[s] = reqs[s]
      BY <2>q, ReqChanges
    <3> QED
      BY <2>k, <2>q, <3>1 DEF Keeps
  <2>1. ASSUME NEW r \in Reqs, LookUp(r) PROVE IdsInv'
    <3> DEFINE ext == table[reqs[r].key]
               qn == [reqs[r] EXCEPT !.stage = "named", !.id = ext]
               qf == [reqs[r] EXCEPT !.stage = "found", !.ext = ext]
    <3>1. ext \in Ids \cup {None} /\ reqs[r] \in Requests
      BY <2>1, ReqTypes DEF LookUp, Sound, TypeInv, TypeOK
    <3>2. ext # None => qn \in Requests /\ qn.id = ext
      BY <3>1 DEF Requests, Stages
    <3>3. qf \in Requests /\ qf.stage \notin Named
      BY <3>1 DEF Requests, Stages, Named
    <3>4. /\ \/ ext # None /\ reqs' = [reqs EXCEPT ![r] = qn]
             \/ reqs' = [reqs EXCEPT ![r] = qf]
          /\ UNCHANGED <<table, objects>>
      BY <2>1 DEF LookUp, Becomes
    <3> HIDE DEF qn, qf
    <3> QED
      BY <2>q, <3>2, <3>3, <3>4
  <2>2. ASSUME NEW r \in Reqs, NEW id \in Ids, Draw(r, id) PROVE IdsInv'
    <3> DEFINE q == [reqs[r] EXCEPT !.stage = "free", !.id = id]
    <3>1. q \in Requests /\ q.stage \notin Named
      BY ReqTypes DEF Requests, Stages, Named
    <3>2. reqs' = [reqs EXCEPT ![r] = q] /\ UNCHANGED <<table, objects>>
      BY <2>2 DEF Draw, Becomes
    <3> HIDE DEF q
    <3> QED
      BY <2>q, <3>1, <3>2
  <2>3. ASSUME NEW r \in Reqs, Write(r) PROVE IdsInv'
    <3> DEFINE key == reqs[r].key
               id == reqs[r].id
               inserting == ~(reqs[r].ext # None /\ reqs[r].reset)
               qn == [reqs[r] EXCEPT !.stage = "named"]
               qf == [reqs[r] EXCEPT !.stage = "failed"]
    <3>1. reqs[r].stage = "free" /\ objects' = objects /\ key \in Keys /\ id \in Ids
      BY <2>3, ReqTypes DEF Write, Sound
    <3>2. /\ qn \in Requests /\ qn.id = id /\ qf \in Requests /\ qf.stage \notin Named
      BY ReqTypes DEF Requests, Stages, Named
    <3>3. \/ /\ Accepts(key, id, inserting)
             /\ reqs' = [reqs EXCEPT ![r] = qn] /\ table' = [table EXCEPT ![key] = id]
          \/ reqs' = [reqs EXCEPT ![r] = qf] /\ table' = table
      BY <2>3 DEF Write, Goto, Becomes
    <3> HIDE DEF qn, qf
    <3>4. CASE reqs' = [reqs EXCEPT ![r] = qf] /\ table' = table
      BY <2>q, <3>1, <3>2, <3>4
    <3>5. CASE /\ Accepts(key, id, inserting)
               /\ reqs' = [reqs EXCEPT ![r] = qn] /\ table' = [table EXCEPT ![key] = id]
      <4>1. reqs'[r] = qn /\ \A s \in Reqs \ {r} : reqs'[s] = reqs[s]
        BY <3>2, <3>5, ReqChanges
      <4>2. table'[key] = id /\ \A k \in Keys \ {key} : table'[k] = table[k] /\ table[k] # id
        BY <3>1, <3>5 DEF Accepts, TypeInv, TypeOK
      <4>3. \A j, k \in Keys : j # k /\ table'[k] # None => table'[j] # table'[k]
        BY <4>2 DEF IdsInv
      <4>4. ASSUME NEW k \in Keys, ~ResetBy(k)', NEW s \in Reqs, reqs'[s].key = k
            PROVE  /\ reqs'[s].stage \in Named => reqs'[s].id = table'[k]
                   /\ objects'[s].id # None => objects'[s].id = table'[k]
        <5>1. ~ResetBy(k) /\ reqs[s].key = k
          BY <1>2, <4>4 DEF ResetBy
        <5>2. CASE k # key
          <6>1. s # r
            BY <5>1, <5>2
          <6> QED
            BY <3>1, <4>1, <4>2, <5>1, <5>2, <6>1 DEF IdsInv
        <5>3. CASE k = key
          <6>1. table[k] = None
            BY <3>5, <5>1, <5>3 DEF Accepts, ResetBy
          <6>2. objects[s].id = None /\ reqs[s].stage \notin Named
            BY <5>1, <6>1, ReqTypes, NoneIsNone DEF IdsInv, Sound, Named
          <6>3. CASE s = r
            BY <3>1, <3>2, <4>1, <4>2, <5>3, <6>2, <6>3
          <6>4. CASE s # r
            BY <3>1, <4>1, <6>2, <6>4
          <6> QED
            BY <6>3, <6>4
        <5> QED
          BY <5>2, <5>3
      <4> QED
        BY <4>3, <4>4 DEF IdsInv, Named
    <3> QED
      BY <3>3, <3>4, <3>5
  \* A client is new, or was there: of the id the request has, or of no key.
  <2>4. ASSUME NEW r \in Reqs, NEW id \in Ids, OldClient(r, id) \/ NewClient(r, id), table' = table,
               reqs[r].key \in Keys => reqs[r].stage \in Named /\ reqs[r].id = id
        PROVE  IdsInv'
    <3>1. CASE OldClient(r, id)
      BY <2>4, <2>k, <3>1, OldClientIs DEF Keeps
    <3>2. CASE NewClient(r, id)
      BY <2>4, <2>k, <3>2, NewClientIs DEF Keeps
    <3> QED
      BY <2>4, <3>1, <3>2
  <2>5. ASSUME NEW r \in Reqs, Serve(r) PROVE IdsInv'
    <3>1. reqs[r].id \in Ids /\ reqs[r].stage \in Named /\ table' = table
      BY <2>5, ReqTypes DEF Serve, Sound, Named
    <3> QED
      BY <2>4, <2>5, <3>1 DEF Serve
  <2>6. ASSUME NEW r \in Reqs, NEW id \in Ids, OpenByPath(r, id) PROVE IdsInv'
    <3>1. reqs[r].key = None /\ table' = table
      BY <2>6, ReqTypes DEF OpenByPath, Arrives, Sound
    <3> QED
      BY <2>4, <2>6, <3>1, NoneIsNone DEF OpenByPath
  <2>7. ASSUME NEW r \in Reqs, Listens(r) PROVE IdsInv'
    <3> DEFINE q == [reqs[r] EXCEPT !.stage = "answered", !.port = r]
               o == [objects[r] EXCEPT !.up = TRUE]
    <3>1. q \in Requests /\ q.id = reqs[r].id /\ reqs[r].stage \in Named
      BY <2>7, ReqTypes DEF Listens, Requests, Stages, Named
    <3>2. o.id = objects[r].id
      BY ReqTypes DEF Objects
    <3>3. /\ reqs' = [reqs EXCEPT ![r] = q] /\ objects' = [objects EXCEPT ![r] = o]
          /\ table' = table
      BY <2>7 DEF Listens, Becomes
    <3> HIDE DEF q, o
    <3>4. reqs'[r] = q /\ \A s \in Reqs \ {r} : reqs'[s] = reqs[s]
      BY <3>1, <3>3, ReqChanges
    <3>5. \A s \in Reqs : objects'[s].id = objects[s].id
      BY <3>2, <3>3 DEF TypeInv, TypeOK
    <3> QED
      BY <2>k, <3>1, <3>3, <3>4, <3>5 DEF Keeps
  <2>8. ASSUME table' = table, reqs' = reqs, \A c \in Reqs : objects'[c].id = objects[c].id
        PROVE  IdsInv'
    BY <2>k, <2>8 DEF Keeps
  <2>9. ASSUME NEW c \in Reqs, GraceFires(c) \/ Online(c) \/ Offline(c) PROVE IdsInv'
    <3>1. table' = table /\ reqs' = reqs
      BY <2>9, Zenon DEF GraceFires, Online, Offline
    <3>2. objects \in [Reqs -> Objects]
      BY DEF TypeInv, TypeOK
    <3>3. CASE GraceFires(c)
      <4>1. \A d \in Reqs : objects'[d] \in {objects[d], Closed(objects[d])}
        BY <3>2, <3>3 DEF GraceFires, RemoveClient
      <4>2. \A d \in Reqs : objects'[d].id = objects[d].id
        BY <4>1, ReqTypes, ClosedObject
      <4> QED
        BY <2>8, <3>1, <4>2
    <3>4. CASE Online(c)
      <4>1. \A d \in Reqs : objects'[d].id = objects[d].id
        BY <3>2, <3>4 DEF Online, Objects
      <4> QED
        BY <2>8, <3>1, <4>1
    <3>5. CASE Offline(c)
      <4>1. \A d \in Reqs : objects'[d].id = objects[d].id
        BY <3>2, <3>5 DEF Offline, Objects
      <4> QED
        BY <2>8, <3>1, <4>1
    <3> QED
      BY <2>9, <3>3, <3>4, <3>5
  <2>10. ASSUME Tick \/ Purge \/ UNCHANGED vars PROVE IdsInv'
    BY <2>8, <2>10 DEF Tick, Purge, vars
  <2>11. ASSUME NEW r \in Reqs, NEW p \in Payloads, NEW reset \in BOOLEAN, Arrive(r, p, reset)
         PROVE  IdsInv'
    BY <1>1, <2>11
  <2>12. Paths \subseteq Ids
    BY HubAssumption
  <2> QED
    BY <2>1, <2>2, <2>3, <2>5, <2>6, <2>7, <2>9, <2>10, <2>11, <2>12, Zenon DEF Next
<1> QED
  BY <1>1, <1>2, Signed

\* IdsKept: until it asks to reset it, a key keeps the one id it was given, in
\* the table, in its requests and in its clients, and nobody else has that id.
THEOREM IdsAlwaysKept == Spec => []IdsKept
<1>1. Init => IdsInv
  BY NoneIsNone DEF Init, IdsInv, NoReq
<1>2. IdsInv => IdsKept
  BY DEF IdsInv, IdsKept, Named
<1> QED
  BY <1>1, <1>2, SoundAlways, IdsStep, PTL DEF Spec

-----------------------------------------------------------------------------
(* The tunnels are counted                                                 *)

Listening == {c \in Reqs : objects[c].armed /\ objects[c].up}

\* Those removed before they could listen.
TooSoon == {c \in Reqs : ~objects[c].armed /\ objects[c].id # None /\ ~objects[c].up}

CountInv == tunnels = Cardinality(Listening) - Cardinality(TooSoon)

LEMMA CountStep == TypeInv /\ MapInv /\ CountInv /\ [Next]_vars => CountInv'
<1> SUFFICES ASSUME TypeInv, MapInv, CountInv, [Next]_vars PROVE CountInv'
  OBVIOUS
<1>t. objects \in [Reqs -> Objects] /\ tunnels \in Int
  BY DEF TypeInv, TypeOK
<1>f. /\ IsFiniteSet(Listening) /\ Cardinality(Listening) \in Nat
      /\ IsFiniteSet(TooSoon) /\ Cardinality(TooSoon) \in Nat
  <2>1. IsFiniteSet(Reqs)
    BY HubAssumption, FS_Interval DEF Reqs
  <2>2. Listening \subseteq Reqs /\ TooSoon \subseteq Reqs
    BY DEF Listening, TooSoon
  <2> QED
    BY <2>1, <2>2, FS_Subset, FS_CardinalityType
<1>1. ASSUME NEW r \in Reqs, NEW id \in Ids, objects[r] = NoClient, NewClient(r, id),
             tunnels' = tunnels
      PROVE  CountInv'
  <2>1. /\ \A c \in Reqs \ {r} : objects'[c] = objects[c]
        /\ objects'[r].armed /\ ~objects'[r].up
    BY <1>1, NewClientIs
  <2>2. Listening' = Listening /\ TooSoon' = TooSoon
    BY <1>1, <2>1 DEF Listening, TooSoon, NoClient
  <2> QED
    BY <1>1, <2>2 DEF CountInv
<1>2. ASSUME NEW c \in Reqs, GraceFires(c) PROVE CountInv'
  <2> DEFINE o == objects[c]
  <2>1. /\ objects'[c] = Closed(o) /\ \A d \in Reqs \ {c} : objects'[d] = objects[d]
    BY <1>2, <1>t, GraceIsOwn
  <2>2. /\ ~objects'[c].armed /\ objects'[c].id = o.id /\ objects'[c].up = o.up
    BY <1>t, <2>1, ClosedObject
  <2>3. CASE ~o.armed
    <3>1. tunnels' = tunnels
      BY <1>2, <2>3, GraceIsOwn
    <3>2. Listening' = Listening /\ TooSoon' = TooSoon
      BY <2>1, <2>2, <2>3 DEF Listening, TooSoon
    <3> QED
      BY <3>1, <3>2 DEF CountInv
  <2>4. CASE o.armed /\ o.up
    <3>1. tunnels' = tunnels - 1
      BY <1>2, <2>4, GraceIsOwn
    <3>2. c \in Listening /\ Listening' = Listening \ {c} /\ TooSoon' = TooSoon
      BY <2>1, <2>2, <2>4 DEF Listening, TooSoon
    <3>3. Cardinality(Listening') = Cardinality(Listening) - 1
      BY <1>f, <3>2, FS_RemoveElement
    <3> QED
      BY <1>f, <3>1, <3>2, <3>3 DEF CountInv
  <2>5. CASE o.armed /\ ~o.up
    <3>1. tunnels' = tunnels - 1 /\ o.id # None
      BY <1>2, <2>5, GraceIsOwn, NoneIsNone
    <3>2. c \notin TooSoon /\ TooSoon' = TooSoon \cup {c} /\ Listening' = Listening
      BY <2>1, <2>2, <2>5, <3>1 DEF Listening, TooSoon
    <3>3. Cardinality(TooSoon') = Cardinality(TooSoon) + 1
      BY <1>f, <3>2, FS_AddElement
    <3> QED
      BY <1>f, <3>1, <3>2, <3>3 DEF CountInv
  <2> QED
    BY <2>3, <2>4, <2>5
<1>3. ASSUME NEW r \in Reqs, Listens(r) PROVE CountInv'
  <2>1. /\ reqs[r].stage = "listening" /\ objects[r].armed /\ tunnels' = tunnels + 1
        /\ objects' = [objects EXCEPT ![r] = [objects[r] EXCEPT !.up = TRUE]]
    BY <1>3 DEF Listens
  <2>2. ~objects[r].up
    BY <2>1, ReqTypes DEF Sound
  <2>3. /\ \A c \in Reqs \ {r} : objects'[c] = objects[c]
        /\ objects'[r].armed = objects[r].armed /\ objects'[r].up
    BY <1>t, <2>1 DEF Objects
  <2>4. r \notin Listening /\ Listening' = Listening \cup {r} /\ TooSoon' = TooSoon
    BY <2>1, <2>2, <2>3 DEF Listening, TooSoon
  <2>5. Cardinality(Listening') = Cardinality(Listening) + 1
    BY <1>f, <2>4, FS_AddElement
  <2> QED
    BY <1>f, <2>1, <2>4, <2>5 DEF CountInv
<1>4. ASSUME tunnels' = tunnels,
             \A c \in Reqs : /\ objects'[c].armed = objects[c].armed
                            /\ objects'[c].id = objects[c].id
                            /\ objects'[c].up = objects[c].up
      PROVE  CountInv'
  <2>1. Listening' = Listening /\ TooSoon' = TooSoon
    BY <1>4 DEF Listening, TooSoon
  <2> QED
    BY <1>4, <2>1 DEF CountInv
<1> QED
  BY <1>1, <1>2, <1>3, <1>4, MapChanges

\* TunnelsCounted: the number the status page shows is that of the clients that
\* listen, less one for each that was removed before it could.
THEOREM TunnelsAlwaysCounted == Spec => []TunnelsCounted
<1>1. Init => CountInv
  <2> SUFFICES ASSUME Init PROVE CountInv
    OBVIOUS
  <2>1. Listening = {} /\ TooSoon = {}
    BY DEF Init, Listening, TooSoon, NoClient
  <2> QED
    BY <2>1, FS_EmptySet DEF Init, CountInv
<1>2. CountInv => TunnelsCounted
  <2>1. {c \in Open : objects[c].up} = Listening
    BY DEF Open, Listening
  <2>2. {c \in Reqs \ Open : objects[c].id # None /\ ~objects[c].up} = TooSoon
    BY DEF Open, TooSoon
  <2> QED
    BY <2>1, <2>2 DEF CountInv, TunnelsCounted
<1> QED
  BY <1>1, <1>2, SoundAlways, CountStep, PTL DEF Spec
=============================================================================
