------------------------------- MODULE Tunnel -------------------------------
(***************************************************************************)
(* The owner's end of a tunnel: Tunnel and TunnelCluster of                *)
(* packages/tunnel.                                                        *)
(*                                                                         *)
(* The tunnel asks the hub for its address with a payload that is signed   *)
(* once, and then keeps max_conn connections open to it.  Each connection  *)
(* is a pair: the remote socket, to the hub, and a local socket, to the    *)
(* server that the tunnel publishes, which is tried again every second     *)
(* while that server refuses.  When a remote closes, its 'close' listener  *)
(* (remoteClose) reports the pair dead and another one is opened.          *)
(***************************************************************************)
EXTENDS Naturals, FiniteSets

CONSTANTS Conn,      \* the connections, each used again when it is over
          MaxConn,   \* max_conn
          MaxTries,  \* how many requests to the hub fit in the timeout, when there is one
          Trouble    \* what else may go wrong; see the ASSUME

ASSUME TunnelAssumption ==
  /\ IsFiniteSet(Conn) /\ {MaxConn, MaxTries} \subseteq Nat \ {0}
  /\ MaxConn <= Cardinality(Conn)
  /\ Trouble \subseteq {"reset",   \* an error of a local socket that is no refusal
                        "late",    \* the refusal comes after the remote has closed
                        "cut"}     \* a remote that cannot connect, and is not refused

VARIABLES timed,   \* globalOptions.timeout has been given, by this tunnel or an earlier one
          phase,   \* what _init() is doing: "asking", "waiting" (for its next try), or over
          tries,   \* the requests that failed, counted up to the timeout
          spent,   \* the hub has validated the payload
          closed,  \* Tunnel.closed
          remote,  \* remote[c]: the socket to the hub
          local,   \* local[c]: the socket to the local server, or the timer of the next
          hears,   \* hears[c]: remote[c] has the listener remoteClose
          met      \* the troubles met so far (no variable of the code)

vars == <<timed, phase, tries, spent, closed, remote, local, hears, met>>
asking == <<timed, phase, tries, spent>>

\* "ending": this side has sent its end.  "destroyed": the 'close' event is to come.
RemoteState == {"none", "connecting", "open", "ending", "destroyed", "closed"}
LocalState  == {"none", "connecting", "connected", "retry"}

Init ==
  /\ timed \in BOOLEAN
  /\ phase = "asking" /\ tries = 0 /\ spent = FALSE
  /\ closed = FALSE
  /\ remote = [c \in Conn |-> "none"]
  /\ local = [c \in Conn |-> "none"]
  /\ hears = [c \in Conn |-> FALSE]
  /\ met = {}

\* Nothing of the connection c is left.
Free(c) == remote[c] \in {"none", "closed"} /\ local[c] = "none"

-----------------------------------------------------------------------------
(* Tunnel._init(): a request to the hub, again after a second when it fails. *)

\* The hub accepts a payload once (Validator).
Answered ==
  /\ phase = "asking" /\ ~spent
  /\ phase' = "up" /\ spent' = TRUE
  /\ \E C \in SUBSET Conn : /\ Cardinality(C) = MaxConn
                            /\ remote' = [c \in Conn |-> IF c \in C THEN "connecting" ELSE "none"]
  /\ UNCHANGED <<timed, tries, closed, local, hears, met>>

\* Mutant: a request that fails is sent again whatever the time.  Without a timeout
\* that is what the code does.
AfterFailureMutant == "waiting"
AfterFailure == IF ~timed \/ tries < MaxTries THEN "waiting" ELSE "failed"

\* The hub does not answer, or its answer does not arrive, or it is an error.
AskFails ==
  /\ phase = "asking"
  /\ phase' = AfterFailure
  /\ tries' = IF tries < MaxTries THEN tries + 1 ELSE tries
  /\ spent' \in {spent, TRUE}
  /\ UNCHANGED <<timed, closed, remote, local, hears, met>>

AskAgain ==
  /\ phase = "waiting"
  /\ phase' = "asking"
  /\ UNCHANGED <<timed, tries, spent, closed, remote, local, hears, met>>

-----------------------------------------------------------------------------
(* What several handlers do. *)

\* Tunnel.close(): every remote that has connected is destroyed.  A remote that is
\* still connecting has no listener yet.
Destroyed(rs) == [c \in Conn |-> IF rs[c] \in {"open", "ending"} THEN "destroyed" ELSE rs[c]]

\* The listener of 'dead': rs are the remotes without the one that died.  Mutants: it
\* does not ask whether the tunnel is closed; it opens nothing.
DeadMutant(rs) == \E c \in Conn : Free(c) /\ remote' = [rs EXCEPT ![c] = "connecting"]
DeadMutantNone(rs) == remote' = rs
Dead(rs) ==
  \/ closed /\ remote' = rs
  \/ /\ ~closed
     /\ \E c \in Conn : Free(c) /\ remote' = [rs EXCEPT ![c] = "connecting"]

-----------------------------------------------------------------------------
(* The events of a remote socket. *)

\* Mutant: a closed tunnel is not noticed.
ConnectedMutant(c) ==
  /\ remote[c] = "connecting"
  /\ remote' = [remote EXCEPT ![c] = "open"]
  /\ local' = [local EXCEPT ![c] = "connecting"]
  /\ hears' = [hears EXCEPT ![c] = TRUE]
  /\ UNCHANGED <<asking, closed, met>>

\* 'connect', with connLocal().  In a closed tunnel the listener of 'open' destroys
\* the remote, and connLocal() reports it dead.
Connected(c) ==
  /\ remote[c] = "connecting"
  /\ remote' = [remote EXCEPT ![c] = IF closed THEN "destroyed" ELSE "open"]
  /\ local' = [local EXCEPT ![c] = IF closed THEN "none" ELSE "connecting"]
  /\ hears' = [hears EXCEPT ![c] = ~closed]
  /\ UNCHANGED <<asking, closed, met>>

\* The hub refuses, and the whole tunnel closes.
Refused(c) ==
  /\ remote[c] = "connecting"
  /\ closed' = TRUE
  /\ remote' = Destroyed([remote EXCEPT ![c] = "destroyed"])
  /\ UNCHANGED <<asking, local, hears, met>>

Unreachable(c) ==
  /\ "cut" \in Trouble /\ remote[c] = "connecting"
  /\ met' = met \cup {"cut"}
  /\ remote' = [remote EXCEPT ![c] = "destroyed"]
  /\ UNCHANGED <<asking, closed, local, hears>>

\* The hub ends the connection, or its answer to our own end arrives, or the network
\* resets it.
RemoteEnds(c) ==
  /\ remote[c] \in {"open", "ending"}
  /\ remote' = [remote EXCEPT ![c] = "destroyed"]
  /\ UNCHANGED <<asking, closed, local, hears, met>>

\* remoteClose() ends the local socket; one that is still connecting goes on.
RemoteCloses(c) ==
  /\ remote[c] = "destroyed"
  /\ LET rs == [remote EXCEPT ![c] = "closed"] IN
       \/ ~hears[c] /\ remote' = rs /\ UNCHANGED local
       \/ /\ hears[c] /\ Dead(rs)
          /\ local' = [local EXCEPT ![c] = IF @ = "connected" THEN "none" ELSE @]
  /\ hears' = [hears EXCEPT ![c] = FALSE]
  /\ UNCHANGED <<asking, closed, met>>

-----------------------------------------------------------------------------
(* The events of a local socket. *)

LocalConnects(c) ==
  /\ local[c] = "connecting"
  /\ local' = [local EXCEPT ![c] = IF remote[c] = "closed" THEN "none" ELSE "connected"]
  /\ UNCHANGED <<asking, closed, remote, hears, met>>

\* Mutant: the listener of the remote stays.
LocalRefusesMutant(c) ==
  /\ local[c] = "connecting" /\ remote[c] # "closed"
  /\ local' = [local EXCEPT ![c] = "retry"]
  /\ UNCHANGED <<asking, closed, remote, hears, met>>

\* The local server is not there: connLocal() is called again in a second.
LocalRefuses(c) ==
  /\ local[c] = "connecting"
  /\ remote[c] = "closed" => "late" \in Trouble
  /\ met' = IF remote[c] = "closed" THEN met \cup {"late"} ELSE met
  /\ local' = [local EXCEPT ![c] = "retry"]
  /\ hears' = [hears EXCEPT ![c] = FALSE]
  /\ UNCHANGED <<asking, closed, remote>>

\* Any other error: the remote is ended, and nobody listens to its 'close' any more.
LocalFails(c) ==
  /\ "reset" \in Trouble /\ local[c] \in {"connecting", "connected"}
  /\ met' = met \cup {"reset"}
  /\ local' = [local EXCEPT ![c] = "none"]
  /\ hears' = [hears EXCEPT ![c] = FALSE]
  /\ remote' = [remote EXCEPT ![c] = IF @ = "open" THEN "ending" ELSE @]
  /\ UNCHANGED <<asking, closed>>

\* The local server ends the connection, and the pipe ends the remote.
LocalEnds(c) ==
  /\ local[c] = "connected"
  /\ local' = [local EXCEPT ![c] = "none"]
  /\ remote' = [remote EXCEPT ![c] = IF @ = "open" THEN "ending" ELSE @]
  /\ UNCHANGED <<asking, closed, hears, met>>

\* connLocal(), called by its timer.
ConnLocal(c) ==
  /\ local[c] = "retry"
  /\ LET over == closed \/ remote[c] \in {"destroyed", "closed"} IN
       \/ /\ over
          /\ Dead(remote)
          /\ local' = [local EXCEPT ![c] = "none"]
          /\ UNCHANGED hears
       \/ /\ ~over
          /\ local' = [local EXCEPT ![c] = "connecting"]
          /\ hears' = [hears EXCEPT ![c] = TRUE]
          /\ UNCHANGED remote
  /\ UNCHANGED <<asking, closed, met>>

\* The owner closes the tunnel, at any time: the caller has it before the hub answers.
\* _init() and _establish() do not look at closed.
Close ==
  /\ ~closed
  /\ closed' = TRUE
  /\ remote' = Destroyed(remote)
  /\ UNCHANGED <<asking, local, hears, met>>

-----------------------------------------------------------------------------
Ask == Answered \/ AskFails \/ AskAgain

Connects(c) == Connected(c) \/ Refused(c) \/ Unreachable(c)

LocalAnswers(c) == LocalConnects(c) \/ LocalRefuses(c)

Next ==
  \/ Ask \/ Close
  \/ \E c \in Conn : \/ Connects(c) \/ RemoteEnds(c) \/ RemoteCloses(c)
                     \/ LocalAnswers(c) \/ LocalFails(c) \/ LocalEnds(c)
                     \/ ConnLocal(c)

Spec == Init /\ [][Next]_vars

\* Requests and connections come to an end one way or the other, events that are
\* due arrive, timers fire, and the hub answers an end with its own.
Fairness ==
  /\ WF_vars(Ask)
  /\ \A c \in Conn : /\ WF_vars(Connects(c))
                     /\ WF_vars(RemoteCloses(c))
                     /\ WF_vars(LocalAnswers(c))
                     /\ WF_vars(ConnLocal(c))
                     /\ WF_vars(remote[c] = "ending" /\ RemoteEnds(c))

FairSpec == Spec /\ Fairness

-----------------------------------------------------------------------------
(* Properties.                                                               *)

TypeOK ==
  /\ timed \in BOOLEAN
  /\ phase \in {"asking", "waiting", "up", "failed"}
  /\ tries \in 0..MaxTries
  /\ spent \in BOOLEAN /\ closed \in BOOLEAN
  /\ remote \in [Conn -> RemoteState]
  /\ local \in [Conn -> LocalState]
  /\ hears \in [Conn -> BOOLEAN]
  /\ met \subseteq Trouble

\* A pair is alive as long as its end would be noticed: the remote is connecting, or
\* connected with its listener, or the timer that looks at it runs.
Alive == {c \in Conn : \/ remote[c] = "connecting"
                       \/ remote[c] \in {"open", "ending", "destroyed"} /\ hears[c]
                       \/ local[c] = "retry"}

\* As long as no local socket fails other than by a refusal, and every remote connects
\* or is refused, a tunnel that is open has max_conn pairs alive, or more: each that
\* dies is replaced.
LostOnlyByTrouble ==
  phase = "up" /\ ~closed /\ met \subseteq {"late"} => Cardinality(Alive) >= MaxConn

\* As long as no refusal of the local server comes after the remote has closed, it has
\* max_conn pairs alive at most: each that dies is replaced once.
TwiceOnlyByTrouble ==
  phase = "up" /\ ~closed /\ "late" \notin met => Cardinality(Alive) <= MaxConn

\* A tunnel that is up and closed opens no connection, whatever dies or is retried
\* afterwards.  (When it was closed before the hub answered, the answer opens them.)
ClosedForGood ==
  [][closed /\ phase = "up" =>
       \A c \in Conn : remote'[c] = "connecting" => remote[c] = "connecting"]_vars

\* A closed tunnel lets go of all its connections for good: those too that were not made
\* yet when it closed, and those that a late answer of the hub makes after that.
AllReleased == <>[](closed => \A c \in Conn : Free(c))

\* With a timeout open() calls back: with the address, or when the timeout is over, also
\* when the payload is spent and the hub refuses it from then on.
OpenEnds == [](timed /\ phase = "asking" => <>(phase \in {"up", "failed"}))
=============================================================================
