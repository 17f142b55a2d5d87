------------------------------- MODULE Courier -------------------------------
(***************************************************************************)
(* The courier (packages/courier): a local HTTPS server that belongs to    *)
(* one account, opens a tunnel to the hub, takes the messages that arrive  *)
(* through it and forwards those of its owner.  A caller is whoever has a  *)
(* request in progress; a request is cut where the code awaits.            *)
(* The hub, the tunnel and the couriers of the contacts are outside: what  *)
(* they do to this process is a choice here (see Hub and Tunnel).          *)
(***************************************************************************)
EXTENDS Integers, Sequences, FiniteSetsExt

CONSTANTS
    Callers,    \* who can have a request in progress
    AccountOf,  \* whose key signs the requests of a caller
    Limit,      \* the messages in one answer (10 in Db.getMessages)
    MaxNow,     \* bound: the last millisecond
    MaxIn,      \* bound: the messages that arrive
    Spoilable,  \* bound: which of them may be impossible to decrypt
    MaxTrouble, \* bound: restarts, tunnels that close, and other accounts
    None        \* no account

ASSUME CourierAssumption ==
    /\ None \notin {AccountOf[c] : c \in Callers}
    /\ Limit \in Nat \ {0}
    /\ {MaxNow, MaxIn, MaxTrouble} \subseteq Nat

VARIABLES
    owner,      \* the row "owner" of the table config
    option,     \* server.options.owner
    auth,       \* the owner the middleware compares with
    raced,      \* some time two accounts asked to be the owner at once
    active,     \* Server.tunnelActive
    live,       \* server.tunnel is open
    known,      \* the contact is in the table publickeys, with an url
    messages,   \* the table messages, in the order of insertion
    calls,      \* the request of each caller
    delivered,  \* the messages the contact's courier has
    now,        \* Date.now()
    trouble     \* how many of them so far

db     == <<owner, known, messages>>
server == <<option, auth, active, live>>
courierVars == <<db, server, raced, calls, delivered, now, trouble>>

Accounts == {AccountOf[c] : c \in Callers}

\* A row: its direction (Db.FROM, Db.TO), its timestamp, and which message it
\* is.  A spoilt one is a message that cannot be decrypted.
Rows == [from : BOOLEAN, ts : 0..MaxNow, n : Nat, spoilt : BOOLEAN]

Idle == [stage |-> "idle", what |-> "none", arg |-> 0, value |-> None,
         ok |-> FALSE, rows |-> {}]

InFlight == {"looking", "saving", "updating", "inserting", "granted",
             "opening", "posting", "storing", "hung"}

CourierInit ==
    /\ owner = None /\ option = None /\ auth = None /\ raced = FALSE
    /\ active = FALSE /\ live = FALSE /\ known = FALSE
    /\ messages = <<>> /\ delivered = {}
    /\ calls = [c \in Callers |-> Idle]
    /\ now = 0 /\ trouble = 0

Answer(c, ok, rows) ==
    calls' = [calls EXCEPT ![c].stage = "answered", ![c].ok = ok, ![c].rows = rows]

-----------------------------------------------------------------------------
(* authMiddleware and Server.setOwner                                      *)

Claiming == {"looking", "saving", "updating", "inserting"}

\* A well signed request reaches the middleware.
Request(c, what, arg) ==
    LET me == AccountOf[c]
        to(stage) == calls' = [calls EXCEPT ![c] =
                       [Idle EXCEPT !.stage = stage, !.what = what, !.arg = arg]]
    IN  IF auth = None
          THEN /\ option' = me
               /\ to("looking")
               /\ raced' = (raced \/ \E d \in Callers : /\ AccountOf[d] # me
                                                        /\ calls[d].stage \in Claiming)
          ELSE /\ IF auth = me THEN to("granted") ELSE to("denied")
               /\ UNCHANGED <<option, raced>>

\* As LookForOwner, with the first account let through before it is saved.
LookForOwnerMutantUnsaved(c) ==
    /\ calls[c].stage = "looking"
    /\ IF owner \notin {None, option}
         THEN /\ calls' = [calls EXCEPT ![c].stage = "hung"]
              /\ UNCHANGED auth
         ELSE /\ calls' = [calls EXCEPT ![c].stage = "granted"]
              /\ auth' = AccountOf[c]
    /\ UNCHANGED <<db, option, raced, active, live, delivered, now, trouble>>

\* setOwner: who the table says the owner is.  A claim that fails throws in the
\* middleware, and the request is not answered.
LookForOwner(c) ==
    /\ calls[c].stage = "looking"
    /\ IF owner = None
         THEN /\ calls' = [calls EXCEPT ![c].stage = "saving", ![c].value = option]
              /\ UNCHANGED auth
         ELSE IF owner # option
         THEN /\ calls' = [calls EXCEPT ![c].stage = "hung"]
              /\ UNCHANGED auth
         ELSE /\ calls' = [calls EXCEPT ![c].stage = "granted"]
              /\ auth' = AccountOf[c]
    /\ UNCHANGED <<db, option, raced, active, live, delivered, now, trouble>>

\* saveKeyValueToConfig: is there a row to update?
LookForRow(c) ==
    /\ calls[c].stage = "saving"
    /\ calls' = [calls EXCEPT ![c].stage =
                   IF owner = None THEN "inserting" ELSE "updating"]
    /\ UNCHANGED <<db, server, raced, delivered, now, trouble>>

\* ...and the row is written; the key is a unique column.
SaveOwner(c) ==
    /\ calls[c].stage \in {"inserting", "updating"}
    /\ IF calls[c].stage = "inserting" /\ owner # None
         THEN /\ calls' = [calls EXCEPT ![c].stage = "hung"]
              /\ UNCHANGED <<owner, auth, option>>
         ELSE /\ owner' = calls[c].value
              /\ auth' = AccountOf[c]
              /\ calls' = [calls EXCEPT ![c].stage = "granted"]
              /\ UNCHANGED option
    /\ UNCHANGED <<known, messages, raced, active, live, delivered, now, trouble>>

-----------------------------------------------------------------------------
(* What a request of the owner does                                        *)

Granted(c, what) == calls[c].stage = "granted" /\ calls[c].what = what

\* GET /admin, 'ready': there is a courier, and it has a tunnel or not.
Ready(c) ==
    /\ Granted(c, "ready")
    /\ Answer(c, active, {})
    /\ UNCHANGED <<db, server, raced, delivered, now, trouble>>

\* GET /admin, 'publish': the tunnel that is there, or a new one.
Publish(c) ==
    /\ Granted(c, "publish")
    /\ IF active THEN Answer(c, TRUE, {})
                 ELSE calls' = [calls EXCEPT ![c].stage = "opening"]
    /\ UNCHANGED <<db, server, raced, delivered, now, trouble>>

\* localtunnel() comes back: with an id, or without one and is closed.
Opens(c) ==
    /\ calls[c].stage = "opening"
    /\ \/ active' = TRUE /\ live' = TRUE /\ Answer(c, TRUE, {})
       \/ Answer(c, FALSE, {}) /\ UNCHANGED <<active, live>>
    /\ UNCHANGED <<db, option, auth, raced, delivered, now, trouble>>

\* GET /admin, 'add': trustPublicKey.
Add(c) ==
    /\ Granted(c, "add")
    /\ known' = TRUE
    /\ Answer(c, TRUE, {})
    /\ UNCHANGED <<owner, messages, server, raced, delivered, now, trouble>>

\* GET /admin, 'send': the url of the recipient.
Send(c) ==
    /\ Granted(c, "send")
    /\ IF known THEN calls' = [calls EXCEPT ![c].stage = "posting"]
                ELSE Answer(c, FALSE, {})
    /\ UNCHANGED <<db, server, raced, delivered, now, trouble>>

\* As Post, with the answer given before the message is in the history.
PostMutantForgets(c) ==
    /\ calls[c].stage = "posting"
    /\ \/ delivered' = delivered \cup {calls[c].arg} /\ Answer(c, TRUE, {})
       \/ Answer(c, FALSE, {}) /\ UNCHANGED delivered
    /\ UNCHANGED <<db, server, raced, now, trouble>>

\* The post to the contact: it arrives and is acknowledged, it arrives and the
\* acknowledgement is lost, or it does not arrive.
Post(c) ==
    /\ calls[c].stage = "posting"
    /\ \/ /\ delivered' = delivered \cup {calls[c].arg}
          /\ calls' = [calls EXCEPT ![c].stage = "storing"]
       \/ /\ delivered' = delivered \cup {calls[c].arg}
          /\ Answer(c, FALSE, {})
       \/ Answer(c, FALSE, {}) /\ UNCHANGED delivered
    /\ UNCHANGED <<db, server, raced, now, trouble>>

\* saveMessage of what was sent, after it was.
Store(c) ==
    /\ calls[c].stage = "storing"
    /\ messages' = Append(messages, [from |-> FALSE, ts |-> now, n |-> calls[c].arg,
                                     spoilt |-> FALSE])
    /\ Answer(c, TRUE, {})
    /\ UNCHANGED <<owner, known, server, raced, delivered, now, trouble>>

Incoming == {i \in DOMAIN messages : messages[i].from}

\* The first of them, not more than the limit.
First(S) == {i \in S : Cardinality({j \in S : j < i}) < Limit}

\* Db.getMessages with direction FROM: by timestamp, which here is the order of
\* insertion.
Since(min) == {messages[i] : i \in First({i \in Incoming : messages[i].ts >= min})}

\* GET /messages
GetMessages(c) ==
    /\ Granted(c, "messages")
    /\ IF active THEN Answer(c, TRUE, Since(calls[c].arg))
                 ELSE Answer(c, FALSE, {})
    /\ UNCHANGED <<db, server, raced, delivered, now, trouble>>

-----------------------------------------------------------------------------
(* What comes from outside                                                 *)

\* POST /: a message of somebody, through the tunnel.
Receive(spoilt) ==
    /\ live
    /\ Cardinality(Incoming) < MaxIn
    /\ spoilt => Cardinality(Incoming) + 1 \in Spoilable
    /\ messages' = Append(messages, [from |-> TRUE, ts |-> now,
                                     n |-> Cardinality(Incoming) + 1,
                                     spoilt |-> spoilt])
    /\ UNCHANGED <<owner, known, server, raced, calls, delivered, now, trouble>>

\* The tunnel closes.  onTunnelClose sets a field of the tunnel, not the server's.
TunnelCloses ==
    /\ live /\ trouble < MaxTrouble
    /\ live' = FALSE
    /\ trouble' = trouble + 1
    /\ UNCHANGED <<db, option, auth, active, raced, calls, delivered, now>>

\* The courier is stopped and started again; the requests in progress fail.
Restart ==
    /\ trouble < MaxTrouble
    /\ option' = None /\ auth' = None /\ active' = FALSE /\ live' = FALSE
    /\ calls' = [c \in Callers |->
                   IF calls[c].stage \in InFlight
                     THEN [calls[c] EXCEPT !.stage = "denied"] ELSE calls[c]]
    /\ trouble' = trouble + 1
    /\ UNCHANGED <<db, raced, delivered, now>>

Tick ==
    /\ now < MaxNow
    /\ now' = now + 1
    /\ UNCHANGED <<db, server, raced, calls, delivered, trouble>>

Serves(c) ==
    \/ LookForOwner(c) \/ LookForRow(c) \/ SaveOwner(c)
    \/ Ready(c) \/ Publish(c) \/ Opens(c) \/ Add(c)
    \/ Send(c) \/ Post(c) \/ Store(c) \/ GetMessages(c)

CourierNext ==
    \/ \E c \in Callers : Serves(c)
    \/ \E spoilt \in BOOLEAN : Receive(spoilt)
    \/ TunnelCloses \/ Restart \/ Tick

-----------------------------------------------------------------------------
\* The first account that asks becomes the owner and stays it: unless two asked
\* at once, the middleware only lets through who the table says the owner is.
OwnerAgrees ==
    ~raced => /\ auth \in {None, owner}
              /\ \A c \in Callers : calls[c].stage = "granted" => AccountOf[c] = owner
=============================================================================
