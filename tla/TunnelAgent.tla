---------------------------- MODULE TunnelAgent ----------------------------
(***************************************************************************)
(* The hub's end of one tunnel: TunnelAgent and Client of packages/hub.    *)
(*                                                                         *)
(* The owner of the tunnel keeps some TCP connections open to the hub, and *)
(* the hub sends each request of the public through one of them.  A socket *)
(* that waits for a request is in availableSockets, a request that waits   *)
(* for a socket is in waitingCreateConn.  An http request goes through the *)
(* http.Agent that TunnelAgent extends, which keeps one socket alive when  *)
(* its request is over; an upgrade takes its socket for itself.  A client  *)
(* without connections is removed when its grace period is over.           *)
(*                                                                         *)
(* JavaScript runs one callback at a time: an action is a callback.  A     *)
(* socket is destroyed in one and emits its 'close' event in a later one.  *)
(***************************************************************************)
EXTENDS Naturals, Sequences, SequencesExt, FiniteSets

CONSTANTS Socket,        \* the connections the owner may make
          Request,       \* the requests of the public
          Upgrade,       \* those that ask for an upgrade
          MaxTcpSockets, \* maxTcpSockets
          NoSocket

ASSUME SocketAssumption ==
  /\ IsFiniteSet(Socket) /\ NoSocket \notin Socket
  /\ Upgrade \subseteq Request
  /\ MaxTcpSockets \in Nat \ {0}

VARIABLES sock,              \* sock[s]: the state of the connection s
          connectedSockets,
          availableSockets,
          waitingCreateConn, \* the requests whose callbacks are queued
          handing,           \* the callbacks that setTimeout will call with a socket
          kept,              \* the socket in freeSockets of http.Agent, or NoSocket
          req,               \* req[r]: how far the hub is with request r
          given,             \* given[r]: the socket that serves r, or NoSocket
          left,              \* the requests whose sender has gone away
          graceTimeout,      \* the timer of the grace period is set
          closed             \* the client is removed and its agent closed

vars == <<sock, connectedSockets, availableSockets, waitingCreateConn, handing, kept, req,
          given, left, graceTimeout, closed>>
client == <<graceTimeout, closed>>

\* "refused": over the limit, destroyed without a listener for its 'close' event.
\* "dead": destroyed, its 'close' event is still to come.
SockState == {"away", "open", "dead", "refused"}
ReqState  == {"new", "waiting", "handed", "active", "served", "failed", "stuck"}

\* The sockets the agent counts.
Accepted == {s \in Socket : sock[s] \in {"open", "dead"}}

Init ==
  /\ sock = [s \in Socket |-> "away"]
  /\ connectedSockets = 0
  /\ availableSockets = <<>> /\ waitingCreateConn = <<>> /\ handing = <<>>
  /\ kept = NoSocket
  /\ req = [r \in Request |-> "new"]
  /\ given = [r \in Request |-> NoSocket]
  /\ left = {}
  /\ graceTimeout = TRUE
  /\ closed = FALSE

-----------------------------------------------------------------------------
(* Connections *)

\* Who still has a reference to s.
Handed(s)  == \E i \in DOMAIN handing : handing[i].socket = s
Serving(s) == {r \in Request : given[r] = s}
InUse(s)   == s \in Range(availableSockets) \/ Handed(s) \/ kept = s \/ Serving(s) # {}

\* Mutant: one connection too many.
LimitReachedMutant == connectedSockets > MaxTcpSockets
LimitReached == connectedSockets >= MaxTcpSockets

\* The request that waits longest gets the new socket s, in a callback of its own;
\* without one the socket is available.  Mutant: it is available anyway.
PooledMutant(s) == Append(availableSockets, s)
Pooled(s) == IF waitingCreateConn = <<>> THEN Append(availableSockets, s) ELSE availableSockets

Promised(s) == IF waitingCreateConn = <<>> THEN handing
               ELSE Append(handing, [request |-> Head(waitingCreateConn), socket |-> s])

\* _onConnection()
Connect(s) ==
  /\ ~closed /\ sock[s] = "away" /\ ~InUse(s)
  /\ ~LimitReached
  /\ sock' = [sock EXCEPT ![s] = "open"]
  /\ connectedSockets' = connectedSockets + 1
  /\ graceTimeout' = (graceTimeout /\ connectedSockets # 0)
  /\ availableSockets' = Pooled(s)
  /\ handing' = Promised(s)
  /\ waitingCreateConn' = IF waitingCreateConn = <<>> THEN <<>> ELSE Tail(waitingCreateConn)
  /\ req' = [r \in Request |-> IF waitingCreateConn # <<>> /\ r = Head(waitingCreateConn)
                                 THEN "handed" ELSE req[r]]
  /\ UNCHANGED <<kept, given, left, closed>>

\* Mutant: the listener of 'close' is there before the limit is checked.
RefuseMutant(s) ==
  /\ ~closed /\ sock[s] = "away" /\ ~InUse(s)
  /\ LimitReached
  /\ sock' = [sock EXCEPT ![s] = "dead"]
  /\ UNCHANGED <<connectedSockets, availableSockets, waitingCreateConn, handing, kept, req,
                 given, left, client>>

Refuse(s) ==
  /\ ~closed /\ sock[s] = "away" /\ ~InUse(s)
  /\ LimitReached
  /\ sock' = [sock EXCEPT ![s] = "refused"]
  /\ UNCHANGED <<connectedSockets, availableSockets, waitingCreateConn, handing, kept, req,
                 given, left, client>>

\* The owner's side ends, or the network resets it.
Dies(s) ==
  /\ sock[s] = "open"
  /\ sock' = [sock EXCEPT ![s] = "dead"]
  /\ UNCHANGED <<connectedSockets, availableSockets, waitingCreateConn, handing, kept, req,
                 given, left, client>>

\* The grace timer when n connections are left; a timer that ran is set anew.  Mutants:
\* it is set for the last connection but one; it is never set again.
GraceAfterMutantEarly(n) == graceTimeout \/ n <= 1
GraceAfterMutantNever(n) == graceTimeout
GraceAfter(n) == graceTimeout \/ n = 0

\* The 'close' event: the listener of _onConnection(), then that of http.Agent for
\* a socket it keeps, then that of the request the socket serves.
Closes(s) ==
  \/ /\ sock[s] = "dead"
     /\ sock' = [sock EXCEPT ![s] = "away"]
     /\ connectedSockets' = connectedSockets - 1
     /\ availableSockets' = RemoveFirst(availableSockets, s)
     /\ graceTimeout' = GraceAfter(connectedSockets - 1)
     /\ kept' = IF kept = s THEN NoSocket ELSE kept
     /\ req' = [r \in Request |-> IF r \in Serving(s) THEN "failed" ELSE req[r]]
     /\ given' = [r \in Request |-> IF r \in Serving(s) THEN NoSocket ELSE given[r]]
     /\ UNCHANGED <<waitingCreateConn, handing, left, closed>>
  \/ /\ sock[s] = "refused"
     /\ sock' = [sock EXCEPT ![s] = "away"]
     /\ UNCHANGED <<connectedSockets, availableSockets, waitingCreateConn, handing, kept, req,
                    given, left, client>>

-----------------------------------------------------------------------------
(* Requests *)

Serve(r, s) == req' = [req EXCEPT ![r] = "active"] /\ given' = [given EXCEPT ![r] = s]

Destroy(s) == sock' = IF sock[s] = "open" THEN [sock EXCEPT ![s] = "dead"] ELSE sock

\* createConnection(): the socket that came first, or a place in the queue.
CreateConnection(r) ==
  \/ /\ availableSockets # <<>>
     /\ availableSockets' = Tail(availableSockets)
     /\ Serve(r, Head(availableSockets))
     /\ UNCHANGED waitingCreateConn
  \/ /\ availableSockets = <<>>
     /\ waitingCreateConn' = Append(waitingCreateConn, r)
     /\ req' = [req EXCEPT ![r] = "waiting"]
     /\ UNCHANGED <<availableSockets, given>>

\* handleRequest(): http.Agent uses the socket it keeps before it asks for one.  If
\* that one is dead, versions of Node differ: it is used all the same, or dropped.
HandleRequest(r) ==
  /\ ~closed /\ r \notin Upgrade /\ req[r] = "new"
  /\ \/ /\ kept # NoSocket
        /\ Serve(r, kept)
        /\ UNCHANGED <<availableSockets, waitingCreateConn>>
     \/ /\ kept \notin {s \in Socket : sock[s] = "open"}
        /\ CreateConnection(r)
  /\ kept' = NoSocket
  /\ UNCHANGED <<sock, connectedSockets, handing, left, client>>

HandleUpgrade(r) ==
  /\ ~closed /\ r \in Upgrade /\ req[r] = "new"
  /\ CreateConnection(r)
  /\ UNCHANGED <<sock, connectedSockets, handing, kept, left, client>>

\* The callback of setTimeout.  The socket may have closed since; a request that
\* nobody waits for any more destroys it.
HandOver ==
  /\ handing # <<>>
  /\ handing' = Tail(handing)
  /\ LET r == Head(handing).request
         s == Head(handing).socket
     IN  \/ /\ r \in left
            /\ Destroy(s)
            /\ req' = [req EXCEPT ![r] = "failed"]
            /\ UNCHANGED given
         \/ /\ r \notin left /\ sock[s] # "away"
            /\ Serve(r, s)
            /\ UNCHANGED sock
         \/ /\ r \notin left /\ sock[s] = "away"
            /\ req' = [req EXCEPT ![r] = "stuck"]
            /\ UNCHANGED <<sock, given>>
  /\ UNCHANGED <<connectedSockets, availableSockets, waitingCreateConn, kept, left, client>>

\* A request is over.  One socket is kept for the next (maxFreeSockets), if both
\* sides want to keep it alive.
Completes(r) ==
  /\ req[r] = "active" /\ sock[given[r]] = "open"
  /\ req' = [req EXCEPT ![r] = "served"]
  /\ given' = [given EXCEPT ![r] = NoSocket]
  /\ \/ /\ r \notin Upgrade /\ kept = NoSocket
        /\ kept' = given[r]
        /\ UNCHANGED sock
     \/ Destroy(given[r]) /\ UNCHANGED kept
  /\ UNCHANGED <<connectedSockets, availableSockets, waitingCreateConn, handing, left, client>>

\* The sender goes away.  A request that waits stays in the queue.
Leaves(r) ==
  /\ r \notin left
  /\ left' = left \cup {r}
  /\ \/ /\ req[r] = "active"
        /\ Destroy(given[r])
        /\ req' = [req EXCEPT ![r] = "failed"]
        /\ given' = [given EXCEPT ![r] = NoSocket]
     \/ /\ req[r] \in {"waiting", "handed"}
        /\ UNCHANGED <<sock, req, given>>
  /\ UNCHANGED <<connectedSockets, availableSockets, waitingCreateConn, handing, kept, client>>

\* Mutant: the queue is not flushed.
GraceFiresMutant ==
  /\ graceTimeout
  /\ graceTimeout' = FALSE /\ closed' = TRUE
  /\ UNCHANGED <<sock, connectedSockets, availableSockets, waitingCreateConn, handing, kept,
                 req, given, left>>

\* Client.close(), which only the grace timer calls: the manager forgets the client,
\* and the server, which has no connection left, closes and fails the queue.
GraceFires ==
  /\ graceTimeout
  /\ graceTimeout' = FALSE /\ closed' = TRUE
  /\ waitingCreateConn' = <<>>
  /\ req' = [r \in Request |-> IF req[r] = "waiting" THEN "failed" ELSE req[r]]
  /\ UNCHANGED <<sock, connectedSockets, availableSockets, handing, kept, given, left>>

Next ==
  \/ \E s \in Socket : Connect(s) \/ Refuse(s) \/ Dies(s) \/ Closes(s)
  \/ \E r \in Request : HandleRequest(r) \/ HandleUpgrade(r) \/ Completes(r) \/ Leaves(r)
  \/ HandOver
  \/ GraceFires

Spec == Init /\ [][Next]_vars

\* Node delivers the events it has queued and the timers that are due.
Fairness == WF_vars(HandOver) /\ WF_vars(GraceFires) /\ \A s \in Socket : WF_vars(Closes(s))

FairSpec == Spec /\ Fairness
-----------------------------------------------------------------------------
(* Properties.                                                               *)

TypeOK ==
  /\ sock \in [Socket -> SockState]
  /\ connectedSockets \in 0..MaxTcpSockets
  /\ availableSockets \in Seq(Socket)
  /\ waitingCreateConn \in Seq(Request)
  /\ handing \in Seq([request : Request, socket : Socket])
  /\ kept \in Socket \cup {NoSocket}
  /\ req \in [Request -> ReqState]
  /\ given \in [Request -> Socket \cup {NoSocket}]
  /\ left \subseteq Request
  /\ graceTimeout \in BOOLEAN
  /\ closed \in BOOLEAN

\* connectedSockets is the number of the sockets that were accepted and have not
\* emitted 'close', whatever the order in which they come, die and are refused.
Counted == connectedSockets = Cardinality(Accepted)

\* The grace timer runs exactly as long as a client that is still registered has no
\* connection: one with a connection is never removed, one without always can be.
\* It takes the counter, the two events and both timers of Client to be right.
GraceWhenOffline == graceTimeout <=> ~closed /\ connectedSockets = 0

\* The places that have s: available, on its way to a request, kept alive, or serving.
Places(s) ==
  {<<"available", i>> : i \in {j \in DOMAIN availableSockets : availableSockets[j] = s}}
    \cup {<<"handing", i>> : i \in {j \in DOMAIN handing : handing[j].socket = s}}
    \cup {<<"serving", r>> : r \in Serving(s)}
    \cup (IF kept = s THEN {<<"kept", s>>} ELSE {})

\* A connection is in one place (availableSockets, a callback that waits, freeSockets,
\* or one request): none is given to two requests, and none is lost to all of them
\* while it still counts against the limit.
OneUse == \A s \in Socket : /\ \A x, y \in Places(s) : x = y
                            /\ sock[s] = "open" => Places(s) # {}

\* No request is forgotten: the queue has each of those that wait once, a request
\* waits only while no socket is available, and none waits for a removed client.
QueueKept ==
  /\ \A r \in Request : (req[r] = "waiting") <=> (r \in Range(waitingCreateConn))
  /\ \A i, j \in DOMAIN waitingCreateConn : waitingCreateConn[i] = waitingCreateConn[j] => i = j
  /\ waitingCreateConn # <<>> => availableSockets = <<>> /\ ~closed

\* A client that is offline comes back, or is removed.
OfflineEnds == (connectedSockets = 0) ~> (connectedSockets > 0 \/ closed)

=============================================================================
