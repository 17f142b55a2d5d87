-------------------------------- MODULE Chat --------------------------------
(***************************************************************************)
(* The chat of packages/secrez over a courier: the commands of the user,   *)
(* one at a time, and the loop that asks the courier for new messages,     *)
(* which every join starts once more.  The loop and the commands share the *)
(* file of the environment (env.messages.lastRead), which each of them     *)
(* reads, waits, and writes whole.                                         *)
(***************************************************************************)
EXTENDS Courier

CONSTANTS
    User,       \* the caller that runs the commands
    Loops,      \* bound: the loops of ChatPrompt.start
    Others,     \* the callers of other accounts
    MaxCommands \* bound: the commands of the user

ASSUME ChatAssumption ==
    /\ Callers = {User} \cup Loops \cup Others
    /\ User \notin Loops
    /\ \A l \in Loops : AccountOf[l] = AccountOf[User]
    /\ \A o \in Others : AccountOf[o] # AccountOf[User]
    /\ MaxCommands \in Nat

VARIABLES
    lastRead,   \* env.messages.lastRead, in the file
    configured, \* env.courier is there, in the same file
    latest,     \* lastRead of the command courier, in memory
    chatting,   \* the prompt is the chat's
    room,       \* a contact was joined
    stop,       \* ChatPrompt.stop
    skip,       \* ChatPrompt.skip: the history is being read
    command,    \* the command in progress, and the lastRead it has read
    loops,      \* the loops
    shown,      \* the messages printed by a loop
    dropped,    \* those a loop had when it failed or was killed
    reported,   \* the messages the user was told were sent
    commands    \* how many commands so far

chatVars == <<lastRead, configured, latest, chatting, room, stop, skip, command, loops,
              shown, dropped, reported, commands>>
vars == <<courierVars, chatVars>>

NoCommand == [name |-> "none", snap |-> 0]
Off == [stage |-> "off", value |-> 0, rows |-> {}]

Init ==
    /\ CourierInit
    /\ lastRead = 0 /\ configured \in BOOLEAN /\ latest = 0
    /\ chatting = FALSE /\ room = FALSE /\ stop = FALSE /\ skip = FALSE
    /\ command = NoCommand
    /\ loops = [l \in Loops |-> Off]
    /\ shown = {} /\ dropped = {} /\ reported = {}
    /\ commands = 0

Numbers(rows) == {r.n : r \in rows}

\* callCourier comes back, with an answer or with {error}.
Back(c) == calls[c].stage \in {"answered", "denied"}
Good(c) == calls[c].stage = "answered" /\ calls[c].ok

\* A request is on its way; the rest of the courier stays as it is.
Call(c, what, arg) ==
    /\ Request(c, what, arg)
    /\ UNCHANGED <<db, auth, active, live, delivered, now, trouble>>

Forget(c) ==
    /\ calls' = [calls EXCEPT ![c] = Idle]
    /\ UNCHANGED <<db, server, raced, delivered, now, trouble>>

\* The command of the user is over.
Ends == command' = NoCommand /\ Forget(User)

-----------------------------------------------------------------------------
(* The commands                                                            *)

Free(name) ==
    /\ command = NoCommand /\ commands < MaxCommands
    /\ commands' = commands + 1
    /\ command' = [name |-> name, snap |-> lastRead]

\* Bound: the claim of another account is over before the user's second request.
OthersDone == \A o \in Others : calls[o].stage \notin InFlight \ {"hung"}

\* chat, join, send: getEnv, and preInit asks whether the courier is ready.
Begin(name) ==
    /\ Free(name)
    /\ \/ name = "chat" /\ ~chatting /\ configured
       \/ name = "join" /\ chatting
       \/ name = "send" /\ room
    /\ Call(User, "ready", 0)
    /\ UNCHANGED <<lastRead, configured, latest, chatting, room, stop, skip, loops, shown,
                   dropped, reported>>

\* courier: preInit, if the environment has one; else it is set up.
InitCourier ==
    /\ Free(IF configured THEN "courier" ELSE "setup") /\ ~chatting
    /\ Call(User, "ready", 0)
    /\ UNCHANGED <<lastRead, configured, latest, chatting, room, stop, skip, loops,
                   shown, dropped, reported>>

\* It is not ready: the user gives the port again, and the courier is asked again.
SetUpCourier ==
    /\ command.name = "courier"
    /\ calls[User].what = "ready" /\ calls[User].stage = "denied"
    /\ command' = [command EXCEPT !.name = "setup"]
    /\ Call(User, "ready", 0)
    /\ UNCHANGED <<lastRead, configured, latest, chatting, room, stop, skip, loops,
                   shown, dropped, reported, commands>>

\* preInit: no tunnel yet, publishToHubIfNotYet; to set up a courier, always.
AskToPublish ==
    /\ calls[User].what = "ready" /\ calls[User].stage = "answered"
    /\ ~calls[User].ok \/ command.name = "setup"
    /\ OthersDone
    /\ Call(User, "publish", 0)
    /\ UNCHANGED chatVars

\* What joinRoom does after preInit: a room, and one more loop.
Joins ==
    /\ room' = TRUE /\ stop' = FALSE
    /\ \E l \in Loops :
         /\ loops[l].stage = "off"
         /\ loops' = [loops EXCEPT ![l].stage = "sleeping"]
    /\ Ends

\* preInit ends: it puts back the environment it had read, and the command goes on.
Prepared ==
    /\ calls[User].what \in {"ready", "publish"} /\ Good(User)
    /\ OthersDone
    /\ lastRead' = command.snap
    /\ \/ /\ command.name = "chat" /\ Call(User, "add", 0)
          /\ UNCHANGED <<configured, room, stop, loops, command>>
       \/ /\ command.name = "join" /\ Joins
          /\ UNCHANGED configured
       \/ /\ command.name = "send" /\ Call(User, "send", commands)
          /\ UNCHANGED <<configured, room, stop, loops, command>>
       \/ /\ command.name = "courier" /\ Ends
          /\ UNCHANGED <<configured, room, stop, loops>>
       \/ /\ command.name = "setup" /\ calls[User].what = "publish" /\ Ends
          /\ configured' = TRUE
          /\ UNCHANGED <<room, stop, loops>>
    /\ UNCHANGED <<latest, chatting, skip, shown, dropped, reported, commands>>

\* preInit fails, and the command with it.
NotPrepared ==
    /\ \/ calls[User].what = "ready" /\ calls[User].stage = "denied"
       \/ calls[User].what = "publish" /\ Back(User) /\ ~Good(User)
    /\ Ends
    /\ UNCHANGED <<lastRead, configured, latest, chatting, room, stop, skip, loops, shown,
                   dropped, reported, commands>>

\* uploadUsersPublicKeysToCourier is over, and the prompt is the chat's, with a
\* prompt object of its own.
Enter ==
    /\ command.name = "chat" /\ calls[User].what = "add" /\ Back(User)
    /\ chatting' = TRUE /\ stop' = FALSE /\ skip' = FALSE
    /\ Ends
    /\ UNCHANGED <<lastRead, configured, latest, room, loops, shown, dropped, reported, commands>>

\* Send.send: the answer is the courier's.
SendEnds ==
    /\ command.name = "send" /\ calls[User].what = "send" /\ Back(User)
    /\ reported' = IF Good(User) THEN reported \cup {calls[User].arg} ELSE reported
    /\ Ends
    /\ UNCHANGED <<lastRead, configured, latest, chatting, room, stop, skip, loops, shown,
                   dropped, commands>>

\* leave: onBeforeClose.
Leave ==
    /\ Free("leave") /\ room
    /\ room' = FALSE /\ stop' = TRUE
    /\ UNCHANGED <<courierVars, lastRead, configured, latest, chatting, skip, loops, shown,
                   dropped, reported>>

\* show: readHistoryMessages asks for the history, and the loops skip meanwhile.
Show ==
    /\ Free("show") /\ room
    /\ skip' = TRUE
    /\ Call(User, "messages", 0)
    /\ UNCHANGED <<lastRead, configured, latest, chatting, room, stop, loops, shown, dropped,
                   reported>>

\* It prints what there is; if the courier gave an error it throws before it
\* has reset skip.
ShowEnds ==
    /\ command.name = "show" /\ calls[User].what = "messages" /\ Back(User)
    /\ skip' = ~Good(User)
    /\ Ends
    /\ UNCHANGED <<lastRead, configured, latest, chatting, room, stop, loops, shown, dropped,
                   reported, commands>>

LeaveEnds ==
    /\ command.name = "leave"
    /\ command' = NoCommand
    /\ UNCHANGED <<courierVars, lastRead, configured, latest, chatting, room, stop, skip, loops,
                   shown, dropped, reported, commands>>

-----------------------------------------------------------------------------
(* The loop                                                                *)

\* A second is over.  The loop ends, or reads the environment and asks.
Wakes(l) ==
    /\ loops[l].stage = "sleeping"
    /\ \/ /\ stop
          /\ loops' = [loops EXCEPT ![l] = Off]
          /\ UNCHANGED <<courierVars, latest>>
       \/ /\ ~stop /\ room /\ ~skip
          /\ latest' = lastRead
          /\ loops' = [loops EXCEPT ![l].stage = "asking"]
          /\ Call(l, "messages", lastRead)
    /\ UNCHANGED <<lastRead, configured, chatting, room, stop, skip, command, shown, dropped,
                   reported, commands>>

\* As Newest, the present instead of the last message.
NewestMutantNow(rows) == now + 1

\* As Newest, before anything.
NewestMutantFirst(rows) == 0

Newest(rows) == IF rows = {} THEN 0 ELSE Max({r.ts : r \in rows}) + 1

\* getRecentMessages: the newest timestamp plus one.  An error ends the loop.
Hears(l) ==
    LET value == IF Newest(calls[l].rows) > latest
                   THEN Newest(calls[l].rows) ELSE latest IN
    /\ loops[l].stage = "asking" /\ Back(l)
    /\ IF Good(l)
         THEN /\ latest' = value
              /\ loops' = [loops EXCEPT ![l] =
                             [stage |-> "saving", value |-> value, rows |-> calls[l].rows]]
         ELSE /\ loops' = [loops EXCEPT ![l] = Off]
              /\ UNCHANGED latest
    /\ Forget(l)
    /\ UNCHANGED <<lastRead, configured, chatting, room, stop, skip, command, shown, dropped,
                   reported, commands>>

\* putEnv; then one message that cannot be decrypted loses all of the answer.
Saves(l) ==
    LET rows == loops[l].rows IN
    /\ loops[l].stage = "saving"
    /\ lastRead' = loops[l].value
    /\ IF \E r \in rows : r.spoilt
         THEN /\ dropped' = dropped \cup Numbers(rows)
              /\ loops' = [loops EXCEPT ![l] = Off]
         ELSE /\ loops' = [loops EXCEPT ![l].stage = "showing"]
              /\ UNCHANGED dropped
    /\ UNCHANGED <<courierVars, configured, latest, chatting, room, stop, skip, command,
                   shown, reported, commands>>

\* onMessages
Prints(l) ==
    /\ loops[l].stage = "showing"
    /\ shown' = shown \cup Numbers(loops[l].rows)
    /\ loops' = [loops EXCEPT ![l] = [Off EXCEPT !.stage = "sleeping"]]
    /\ UNCHANGED <<courierVars, lastRead, configured, latest, chatting, room, stop, skip, command,
                   dropped, reported, commands>>

\* The terminal is closed while no command waits for the courier.
Kill ==
    /\ trouble < MaxTrouble /\ chatting
    /\ calls[User].stage \notin InFlight
    /\ \A l \in Loops : calls[l].stage \notin Claiming
    /\ trouble' = trouble + 1
    /\ dropped' = dropped \cup UNION {Numbers(loops[l].rows) : l \in Loops}
    /\ loops' = [l \in Loops |-> Off]
    /\ calls' = [c \in Callers |-> IF c \in Others THEN calls[c] ELSE Idle]
    /\ latest' = 0
    /\ chatting' = FALSE /\ room' = FALSE /\ stop' = FALSE /\ skip' = FALSE
    /\ command' = NoCommand
    /\ UNCHANGED <<db, server, raced, delivered, now, lastRead, configured, shown, reported, commands>>

\* Another account uses the courier once, while it has no owner (later on it is
\* told 401 and nothing changes).
OtherAsks(o) ==
    /\ calls[o] = Idle /\ owner = None
    /\ trouble < MaxTrouble /\ trouble' = trouble + 1
    /\ Request(o, "ready", 0)
    /\ UNCHANGED <<db, auth, active, live, delivered, now, chatVars>>

-----------------------------------------------------------------------------
GoesOn ==
    \/ SetUpCourier \/ AskToPublish \/ Prepared \/ NotPrepared
    \/ Enter \/ SendEnds \/ ShowEnds \/ LeaveEnds

Loop(l) == Wakes(l) \/ Hears(l) \/ Saves(l) \/ Prints(l)

Served(c) == Serves(c) /\ UNCHANGED chatVars

Next ==
    \/ CourierNext /\ UNCHANGED chatVars
    \/ \E name \in {"chat", "join", "send"} : Begin(name)
    \/ InitCourier
    \/ Leave \/ Show
    \/ GoesOn
    \/ \E l \in Loops : Loop(l)
    \/ \E o \in Others : OtherAsks(o)
    \/ Kill

\* The courier serves the requests, and the prompt and the loops go on.
Fairness ==
    /\ WF_vars(GoesOn \/ Served(User) \/ \E o \in Others : Served(o))
    /\ \A l \in Loops : WF_vars(Loop(l) \/ Served(l))

Spec == Init /\ [][Next]_vars /\ Fairness

-----------------------------------------------------------------------------
\* A message that arrives in the millisecond of another one that was read before
\* it is older than lastRead, and is never asked for.
Shadowed(i) ==
    \E j \in Incoming : j < i /\ messages[j].ts = messages[i].ts

\* What the environment says was read was printed or is about to be, however the
\* loops and the commands that write it interleave; the rest was in the hands of
\* a loop that failed, or came in the same millisecond as another one.
ReadIsShown ==
    \A i \in Incoming : messages[i].ts < lastRead =>
        \/ messages[i].n \in shown \cup dropped
        \/ \E l \in Loops : messages[i].n \in Numbers(loops[l].rows)
        \/ Shadowed(i)

\* What the user was told was sent is with the contact, and in the history.
SentIsStored ==
    \A n \in reported :
        n \in delivered /\ \E i \in DOMAIN messages : ~messages[i].from /\ messages[i].n = n

Listening ==
    /\ room /\ ~stop /\ ~skip
    /\ \E l \in Loops : loops[l].stage # "off" /\ calls[l].stage # "hung"

\* While a loop lives in a room every message that arrives is printed in the end.
EventuallyShown ==
    (<>[]Listening) => []<>(\A i \in Incoming :
                              messages[i].n \in shown \cup dropped \/ Shadowed(i))
=============================================================================
