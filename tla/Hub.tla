-------------------------------- MODULE Hub --------------------------------
(***************************************************************************)
(* The registry of the hub (packages/hub): the table that gives each       *)
(* public key an id, the check of the signed payloads, the map of the      *)
(* clients (one per tunnel in use, see TunnelAgent for what happens inside *)
(* of one) and the requests that read and write them.  A request is a      *)
(* handler of createServer.js; it is cut where the code awaits, and each   *)
(* query of the database is one step.                                      *)
(***************************************************************************)
EXTENDS Integers, FiniteSets, Functions

CONSTANTS
    Keys,       \* the public keys of the users
    Ids,        \* the ids Db.newId() can draw
    Payloads,   \* the payloads the users sign
    KeyOf,      \* the public key in a payload
    When,       \* the time in a payload, by the clock of who signs it
    MaxReqs,    \* bound: the requests the hub receives
    Paths,      \* bound: the ids asked for by path
    MaxNow,     \* bound: the last minute
    ValidFor,   \* a payload is good for so long (one minute)
    Keep,       \* and remembered for longer (ten minutes)
    None        \* no id, no key, no object

\* Requests are numbered as they arrive; a Client object has the number of the
\* request that makes it.
Reqs == 1..MaxReqs

ASSUME HubAssumption ==
    /\ KeyOf \in [Payloads -> Keys]
    /\ When \in [Payloads -> Int]
    /\ ValidFor \in Nat /\ Keep \in Nat /\ ValidFor <= Keep
    /\ MaxNow \in Nat
    /\ MaxReqs \in Nat /\ Paths \subseteq Ids
    /\ None \notin Keys \cup Ids \cup Reqs \cup Payloads

VARIABLES
    table,      \* the row of a public key: its id, or None
    reqs,       \* the requests, by stage
    clients,    \* ClientManager.clients
    objects,    \* the Client objects, also those that left the map
    tunnels,    \* ClientManager.stats.tunnels
    validated,  \* Validator.validated
    now         \* Date.now(), in minutes

vars == <<table, reqs, clients, objects, tunnels, validated, now>>

Stages == {"none", "verified", "found", "free", "named", "listening",
           "answered", "failed", "refused"}

Requests == [stage : Stages, payload : Payloads \cup {None}, reset : BOOLEAN,
             key : Keys \cup {None}, ext : Ids \cup {None}, id : Ids \cup {None},
             port : Reqs \cup {None}]

NoReq == [stage |-> "none", payload |-> None, reset |-> FALSE, key |-> None,
          ext |-> None, id |-> None, port |-> None]

\* armed: the listener of once('close') is there.
Objects == [id : Ids \cup {None}, up : BOOLEAN, online : BOOLEAN,
            timer : BOOLEAN, armed : BOOLEAN]

\* An object not made yet.
NoClient == [id |-> None, up |-> FALSE, online |-> FALSE, timer |-> FALSE,
             armed |-> FALSE]

Init ==
    /\ table = [k \in Keys |-> None]
    /\ reqs = [r \in Reqs |-> NoReq]
    /\ clients = [i \in Ids |-> None]
    /\ objects = [c \in Reqs |-> NoClient]
    /\ tunnels = 0
    /\ validated = {}
    /\ now = 0

Taken == Range(table) \ {None}

Distance(a, b) == IF a < b THEN b - a ELSE a - b

Arrives(r) ==
    /\ reqs[r].stage = "none"
    /\ \A s \in 1..(r - 1) : reqs[s].stage # "none"

Becomes(r, q) == reqs' = [reqs EXCEPT ![r] = q]

Goto(r, stage) == Becomes(r, [reqs[r] EXCEPT !.stage = stage])

-----------------------------------------------------------------------------
(* GET /api/v1/tunnel/new                                                  *)

IsAlreadyValidated(p) == p \in validated

SetAsValidated(p) == validated' = validated \cup {p}

\* verifyPayload(payload, signature, oneMinute, true)
Verified(p) == Distance(now, When[p]) <= ValidFor /\ ~IsAlreadyValidated(p)

\* A signed payload arrives, perhaps one that arrived before.
Arrive(r, p, reset) ==
    /\ Arrives(r)
    /\ IF Verified(p)
         THEN /\ Becomes(r, [NoReq EXCEPT !.stage = "verified", !.payload = p,
                                          !.reset = reset, !.key = KeyOf[p]])
              /\ SetAsValidated(p)
         ELSE /\ Goto(r, "refused")
              /\ UNCHANGED validated
    /\ UNCHANGED <<table, clients, objects, tunnels, now>>

\* getRandomId: the row of the public key.
LookUp(r) ==
    LET ext == table[reqs[r].key] IN
    /\ reqs[r].stage = "verified"
    /\ IF ext # None /\ ~reqs[r].reset
         THEN Becomes(r, [reqs[r] EXCEPT !.stage = "named", !.id = ext])
         ELSE Becomes(r, [reqs[r] EXCEPT !.stage = "found", !.ext = ext])
    /\ UNCHANGED <<table, clients, objects, tunnels, validated, now>>

\* getRandomId: draw ids until the table has none like it.
Draw(r, id) ==
    /\ reqs[r].stage = "found"
    /\ id \notin Taken
    /\ Becomes(r, [reqs[r] EXCEPT !.stage = "free", !.id = id])
    /\ UNCHANGED <<table, clients, objects, tunnels, validated, now>>

\* As Accepts, of a table whose key column is not unique.
AcceptsMutantTwice(k, id, inserting) == \A other \in Keys \ {k} : table[other] # id

\* The unique columns of the table: what it does with a row for k and id.
Accepts(k, id, inserting) ==
    /\ \A other \in Keys \ {k} : table[other] # id
    /\ inserting => table[k] = None

\* As Write, but what breaks a unique column is swallowed.
WriteMutantHangs(r) ==
    LET q == reqs[r] IN
    /\ q.stage = "free"
    /\ Accepts(q.key, q.id, ~(q.ext # None /\ q.reset))
    /\ table' = [table EXCEPT ![q.key] = q.id]
    /\ Goto(r, "named")
    /\ UNCHANGED <<clients, objects, tunnels, validated, now>>

\* getRandomId: the row is updated, or inserted.  What breaks a unique column
\* throws, and the request ends with an error.
Write(r) ==
    LET q == reqs[r]
        inserting == ~(q.ext # None /\ q.reset)
    IN  /\ q.stage = "free"
        /\ IF Accepts(q.key, q.id, inserting)
             THEN /\ table' = [table EXCEPT ![q.key] = q.id]
                  /\ Goto(r, "named")
             ELSE /\ Goto(r, "failed")
                  /\ UNCHANGED table
        /\ UNCHANGED <<clients, objects, tunnels, validated, now>>

-----------------------------------------------------------------------------
(* ClientManager                                                           *)

\* newClient: in the map before it listens, with the timer of the constructor.
NewClient(r, id) ==
    /\ clients' = [clients EXCEPT ![id] = r]
    /\ objects' = [objects EXCEPT ![r] = [NoClient EXCEPT
                      !.id = id, !.timer = TRUE, !.armed = TRUE]]
    /\ Becomes(r, [reqs[r] EXCEPT !.stage = "listening", !.id = id])

\* An id in use: the answer has the id and clients[id].port, which is not set.
OldClient(r, id) ==
    /\ Becomes(r, [reqs[r] EXCEPT !.stage = "answered", !.id = id])
    /\ UNCHANGED <<clients, objects>>

\* The id the request has by now gets its client.
Serve(r) ==
    LET id == reqs[r].id IN
    /\ reqs[r].stage = "named"
    /\ IF clients[id] # None THEN OldClient(r, id)
                             ELSE NewClient(r, id)
    /\ UNCHANGED <<table, tunnels, validated, now>>

\* GET /:id, the old form: any id that is valid, no signature.
OpenByPath(r, id) ==
    /\ Arrives(r)
    /\ IF clients[id] # None THEN OldClient(r, id)
                             ELSE NewClient(r, id)
    /\ UNCHANGED <<table, tunnels, validated, now>>

\* agent.listen() resolves at once.  It never rejects: when it fails the error
\* is logged, the request hangs and the grace time removes the client.
Listens(r) ==
    /\ reqs[r].stage = "listening" /\ objects[r].armed
    /\ objects' = [objects EXCEPT ![r] = [@ EXCEPT !.up = TRUE]]
    /\ tunnels' = tunnels + 1
    /\ Becomes(r, [reqs[r] EXCEPT !.stage = "answered", !.port = r])
    /\ UNCHANGED <<table, clients, validated, now>>

-----------------------------------------------------------------------------
(* Client                                                                  *)

\* close(): the timer and the agent stop, and the listener is used up.
Closed(object) == [object EXCEPT !.timer = FALSE, !.armed = FALSE]

\* As RemoveClient, without the count.
RemoveClientMutantUncounted(c) ==
    LET id == objects[c].id
        d  == clients[id]
    IN  IF objects[c].armed /\ d # None
          THEN /\ clients' = [clients EXCEPT ![id] = None]
               /\ objects' = [o \in Reqs |-> IF o \in {c, d} THEN Closed(objects[o]) ELSE objects[o]]
               /\ UNCHANGED tunnels
          ELSE /\ objects' = [objects EXCEPT ![c] = Closed(@)]
               /\ UNCHANGED <<clients, tunnels>>

\* c closes; removeClient(id), called by its listener, takes what the map has
\* under the id, and closes it.
RemoveClient(c) ==
    LET id == objects[c].id
        d  == clients[id]
    IN  IF objects[c].armed /\ d # None
          THEN /\ clients' = [clients EXCEPT ![id] = None]
               /\ tunnels' = tunnels - 1
               /\ objects' = [o \in Reqs |-> IF o \in {c, d} THEN Closed(objects[o]) ELSE objects[o]]
          ELSE /\ objects' = [objects EXCEPT ![c] = Closed(@)]
               /\ UNCHANGED <<clients, tunnels>>

\* The grace time is over.
GraceFires(c) ==
    /\ objects[c].timer
    /\ RemoveClient(c)
    /\ UNCHANGED <<table, reqs, validated, now>>

\* As Online, with the grace time going on.
OnlineMutantTimer(c) ==
    /\ objects[c].up /\ objects[c].armed /\ ~objects[c].online
    /\ objects' = [objects EXCEPT ![c] = [@ EXCEPT !.online = TRUE]]
    /\ UNCHANGED <<table, reqs, clients, tunnels, validated, now>>

\* The first socket of the tunnel connects; a closed agent takes none.
Online(c) ==
    /\ objects[c].up /\ objects[c].armed /\ ~objects[c].online
    /\ objects' = [objects EXCEPT ![c] = [@ EXCEPT !.online = TRUE, !.timer = FALSE]]
    /\ UNCHANGED <<table, reqs, clients, tunnels, validated, now>>

\* The last one closes, which starts the timer, of a client removed too.
Offline(c) ==
    /\ objects[c].online
    /\ objects' = [objects EXCEPT ![c] = [@ EXCEPT !.online = FALSE, !.timer = TRUE]]
    /\ UNCHANGED <<table, reqs, clients, tunnels, validated, now>>

-----------------------------------------------------------------------------
(* Time                                                                    *)

Tick ==
    /\ now < MaxNow
    /\ now' = now + 1
    /\ UNCHANGED <<table, reqs, clients, objects, tunnels, validated>>

\* As Purge, one minute too early.
PurgeMutantEarly ==
    /\ validated' = {p \in validated : Distance(now, When[p]) < Keep}
    /\ validated' # validated
    /\ UNCHANGED <<table, reqs, clients, objects, tunnels, now>>

\* Validator.purgeOld(): every ten minutes in the code, at any minute here.
Purge ==
    /\ validated' = {p \in validated : Distance(now, When[p]) <= Keep}
    /\ validated' # validated
    /\ UNCHANGED <<table, reqs, clients, objects, tunnels, now>>

-----------------------------------------------------------------------------
Handles(r) ==
    LookUp(r) \/ (\E id \in Ids : Draw(r, id)) \/ Write(r) \/ Serve(r)

Next ==
    \/ \E r \in Reqs :
         \/ \E p \in Payloads, reset \in BOOLEAN : Arrive(r, p, reset)
         \/ \E id \in Paths : OpenByPath(r, id)
         \/ LookUp(r)
         \/ \E id \in Ids : Draw(r, id)
         \/ Write(r)
         \/ Serve(r)
         \/ Listens(r)
    \/ \E c \in Reqs : GraceFires(c) \/ Online(c) \/ Offline(c)
    \/ Tick
    \/ Purge

\* The event loop runs every handler that can go on, and every timer.
Fairness ==
    /\ \A r \in Reqs : WF_vars(Handles(r))
    /\ \A c \in Reqs : WF_vars(GraceFires(c))

Spec == Init /\ [][Next]_vars /\ Fairness

-----------------------------------------------------------------------------
(* What must hold                                                          *)

TypeOK ==
    /\ table \in [Keys -> Ids \cup {None}]
    /\ reqs \in [Reqs -> Requests]
    /\ clients \in [Ids -> Reqs \cup {None}]
    /\ objects \in [Reqs -> Objects]
    /\ tunnels \in Int
    /\ validated \subseteq Payloads
    /\ now \in 0..MaxNow

\* A signed payload opens a tunnel once, however often it is sent and however
\* the purge of the old ones falls: what is forgotten is no longer valid.
OneUse ==
    \A r, s \in Reqs : reqs[r].payload # None /\ reqs[r].payload = reqs[s].payload
                        => r = s

ResetBy(k) == \E r \in Reqs : reqs[r].key = k /\ reqs[r].reset

\* However the requests of a key interleave, it keeps the one id it was given
\* until it asks to reset it: the id the requests get and serve, and the id its
\* client runs under, are the one in the table, which is nobody else's.
IdsKept ==
    \A k \in Keys : ~ResetBy(k) =>
      /\ \A r \in Reqs : reqs[r].key = k /\ reqs[r].stage \in {"named", "listening", "answered"}
                          => reqs[r].id = table[k]
      /\ \A c \in Reqs : reqs[c].key = k /\ objects[c].id # None => objects[c].id = table[k]
      /\ table[k] # None => \A j \in Keys \ {k} : table[j] # table[k]

Open == {c \in Reqs : objects[c].armed}

\* The number of tunnels the status page shows is the number of clients that
\* listen, less one for each that was removed before it could.
TunnelsCounted ==
    tunnels = Cardinality({c \in Open : objects[c].up})
              - Cardinality({c \in Reqs \ Open : objects[c].id # None /\ ~objects[c].up})

\* A client leaves the map when its own grace time is over and it has no
\* socket, never because an older object of the same id closes once more.
OnlyItself ==
    [][\A id \in Ids : clients[id] # None /\ clients'[id] # clients[id] =>
          LET c == clients[id] IN
          objects[c].timer /\ ~objects[c].online /\ ~objects'[c].armed]_vars

Pending(r) == reqs[r].stage \in {"verified", "found", "free", "named"}

\* The requests the hub has taken all end, or wait for a server that listens:
\* the draw of an id ends, and no two requests wait for each other.
Answered == (\E r \in Reqs : Pending(r)) ~> (\A r \in Reqs : ~Pending(r))
=============================================================================
