------------------------- MODULE TunnelAgent_proofs -------------------------
(***************************************************************************)
(* The safety properties of TunnelAgent hold for any sockets, requests and *)
(* limit.  The invariant has two layers: the counter and the grace timer   *)
(* (Offline), then the places of the sockets and the queue, stated on the  *)
(* sets of what the three sequences hold.                                  *)
(***************************************************************************)
EXTENDS TunnelAgent, TLAPS, FiniteSetTheorems, SequenceTheorems

Distinct(seq) == \A i, j \in DOMAIN seq : seq[i] = seq[j] => i = j

-----------------------------------------------------------------------------
(* Sequences without repetitions                                            *)

\* Append() of a new element keeps a sequence without repetitions, and adds it.
LEMMA AppendDistinct ==
  ASSUME NEW S, NEW seq \in Seq(S), NEW e \in S, Distinct(seq), e \notin Range(seq)
  PROVE  /\ Append(seq, e) \in Seq(S)
         /\ Append(seq, e) # <<>>
         /\ Distinct(Append(seq, e))
         /\ Range(Append(seq, e)) = Range(seq) \cup {e}
<1>1. /\ Append(seq, e) \in Seq(S)
      /\ Len(Append(seq, e)) = Len(seq) + 1
      /\ \A i \in 1..Len(seq) : Append(seq, e)[i] = seq[i]
      /\ Append(seq, e)[Len(seq) + 1] = e
  BY AppendProperties
<1>2. DOMAIN seq = 1..Len(seq) /\ Len(seq) \in Nat
  OBVIOUS
<1>3. DOMAIN Append(seq, e) = 1..(Len(seq) + 1)
  BY <1>1
<1>4. Distinct(Append(seq, e))
  BY <1>1, <1>2, <1>3 DEF Distinct, Range
<1>5. Range(Append(seq, e)) = Range(seq) \cup {e}
  <2>1. \A x \in Range(Append(seq, e)) : x \in Range(seq) \cup {e}
    BY <1>1, <1>2, <1>3 DEF Range
  <2>2. \A x \in Range(seq) : x \in Range(Append(seq, e))
    BY <1>1, <1>2, <1>3 DEF Range
  <2>3. e \in Range(Append(seq, e))
    BY <1>1, <1>2, <1>3 DEF Range
  <2> QED
    BY <2>1, <2>2, <2>3
<1> QED
  BY <1>1, <1>4, <1>5, EmptySeq

\* Tail() of a sequence without repetitions has all of it but the head.
LEMMA TailDistinct ==
  ASSUME NEW S, NEW seq \in Seq(S), seq # <<>>, Distinct(seq)
  PROVE  /\ Tail(seq) \in Seq(S)
         /\ Distinct(Tail(seq))
         /\ Head(seq) \in S /\ Head(seq) \in Range(seq)
         /\ Range(Tail(seq)) = Range(seq) \ {Head(seq)}
<1>1. /\ Head(seq) \in S /\ Head(seq) = seq[1]
      /\ Tail(seq) \in Seq(S)
      /\ Len(Tail(seq)) = Len(seq) - 1
      /\ \A i \in 1..(Len(seq) - 1) : Tail(seq)[i] = seq[i + 1]
  BY HeadTailProperties
<1>2. DOMAIN seq = 1..Len(seq) /\ Len(seq) \in Nat \ {0}
  BY EmptySeq
<1>3. DOMAIN Tail(seq) = 1..(Len(seq) - 1)
  BY <1>1, <1>2
<1>4. Distinct(Tail(seq))
  BY <1>1, <1>2, <1>3 DEF Distinct
<1>5. Head(seq) \in Range(seq)
  BY <1>1, <1>2 DEF Range
<1>6. \A x \in Range(Tail(seq)) : x \in Range(seq) \ {Head(seq)}
  BY <1>1, <1>2, <1>3 DEF Range, Distinct
<1>7. \A x \in Range(seq) \ {Head(seq)} : x \in Range(Tail(seq))
  <2> SUFFICES ASSUME NEW i \in 1..Len(seq), seq[i] # Head(seq)
               PROVE  seq[i] \in Range(Tail(seq))
    BY <1>2 DEF Range
  <2>1. i # 1 /\ i - 1 \in 1..(Len(seq) - 1)
    BY <1>1, <1>2
  <2>2. Tail(seq)[i - 1] = seq[i]
    BY <1>1, <1>2, <2>1
  <2> QED
    BY <1>3, <2>1, <2>2 DEF Range
<1> QED
  BY <1>1, <1>4, <1>5, <1>6, <1>7

\* What SubSeq() returns for the end of a sequence, which may be empty.
LEMMA SuffixProperties ==
  ASSUME NEW S, NEW seq \in Seq(S), NEW m \in 1..(Len(seq) + 1)
  PROVE  /\ SubSeq(seq, m, Len(seq)) \in Seq(S)
         /\ Len(SubSeq(seq, m, Len(seq))) = Len(seq) - m + 1
         /\ \A i \in 1..(Len(seq) - m + 1) : SubSeq(seq, m, Len(seq))[i] = seq[m + i - 1]
<1> DEFINE n == Len(seq)
<1>1. m \in Int /\ n \in Int /\ m <= n + 1
  OBVIOUS
<1>2. \A i \in m..n : seq[i] \in S
  OBVIOUS
<1> HIDE DEF n
<1>3. /\ SubSeq(seq, m, n) \in Seq(S)
      /\ Len(SubSeq(seq, m, n)) = IF m <= n THEN n - m + 1 ELSE 0
      /\ \A i \in 1..(n - m + 1) : SubSeq(seq, m, n)[i] = seq[m + i - 1]
  BY <1>1, <1>2, SubSeqProperties
<1>4. Len(SubSeq(seq, m, n)) = n - m + 1
  BY <1>1, <1>3
<1> QED
  BY <1>3, <1>4 DEF n

\* RemoveFirst() takes an element out of a sequence without repetitions.
LEMMA RemoveDistinct ==
  ASSUME NEW S, NEW seq \in Seq(S), NEW e, Distinct(seq)
  PROVE  /\ RemoveFirst(seq, e) \in Seq(S)
         /\ Distinct(RemoveFirst(seq, e))
         /\ Range(RemoveFirst(seq, e)) = Range(seq) \ {e}
<1>1. DOMAIN seq = 1..Len(seq) /\ Len(seq) \in Nat
  OBVIOUS
<1>2. CASE ~\E i \in 1..Len(seq) : seq[i] = e
  BY <1>1, <1>2 DEF RemoveFirst, Range
<1>3. CASE \E i \in 1..Len(seq) : seq[i] = e
  <2>1. PICK k \in 1..Len(seq) : seq[k] = e
    BY <1>3
  <2>2. {i \in 1..Len(seq) : seq[i] = e} = {k}
    BY <1>1, <2>1 DEF Distinct
  <2>3. SelectInSeq(seq, LAMBDA v : v = e) = k
    BY <2>2 DEF SelectInSeq, Min
  <2> DEFINE a == SubSeq(seq, 1, k - 1)
             b == SubSeq(seq, k + 1, Len(seq))
  <2>4. RemoveFirst(seq, e) = a \o b
    BY <1>3, <2>3 DEF RemoveFirst, RemoveAt
  <2>5. /\ a \in Seq(S) /\ Len(a) = k - 1
        /\ \A i \in 1..(k - 1) : a[i] = seq[i]
    BY <1>1, SubSeqProperties
  <2>6. /\ b \in Seq(S) /\ Len(b) = Len(seq) - k
        /\ \A i \in 1..(Len(seq) - k) : b[i] = seq[k + i]
    <3>1. k + 1 \in 1..(Len(seq) + 1)
      BY <1>1
    <3>2. /\ b \in Seq(S) /\ Len(b) = Len(seq) - (k + 1) + 1
          /\ \A i \in 1..(Len(seq) - (k + 1) + 1) : b[i] = seq[(k + 1) + i - 1]
      BY <3>1, SuffixProperties, Zenon
    <3>3. Len(seq) - (k + 1) + 1 = Len(seq) - k /\ \A i \in Nat : (k + 1) + i - 1 = k + i
      BY <1>1
    <3> HIDE DEF b
    <3> QED
      BY <1>1, <3>2, <3>3
  <2> DEFINE c == a \o b
  <2> HIDE DEF a, b
  <2>7. /\ c \in Seq(S) /\ Len(c) = Len(seq) - 1
        /\ \A i \in 1..(Len(seq) - 1) : c[i] = IF i < k THEN seq[i] ELSE seq[i + 1]
    <3>1. /\ c \in Seq(S) /\ Len(c) = Len(a) + Len(b)
          /\ \A i \in 1..(Len(a) + Len(b)) :
                c[i] = IF i <= Len(a) THEN a[i] ELSE b[i - Len(a)]
      BY <2>5, <2>6, ConcatProperties
    <3>2. Len(c) = Len(seq) - 1
      BY <1>1, <2>5, <2>6, <3>1
    <3>3. ASSUME NEW i \in 1..(Len(seq) - 1)
          PROVE  c[i] = IF i < k THEN seq[i] ELSE seq[i + 1]
      <4>1. c[i] = IF i <= k - 1 THEN a[i] ELSE b[i - (k - 1)]
        BY <1>1, <2>5, <2>6, <3>1, <3>3
      <4>2. CASE i < k
        BY <1>1, <2>5, <4>1, <4>2, <3>3
      <4>3. CASE ~(i < k)
        <5>1. i - (k - 1) \in 1..(Len(seq) - k) /\ k + (i - (k - 1)) = i + 1
          BY <1>1, <4>3, <3>3
        <5> QED
          BY <1>1, <2>6, <4>1, <4>3, <5>1, <3>3
      <4> QED
        BY <4>2, <4>3
    <3> QED
      BY <3>1, <3>2, <3>3
  <2> HIDE DEF c
  <2>8. DOMAIN c = 1..(Len(seq) - 1)
    BY <2>7
  <2>9. Distinct(c)
    <3> SUFFICES ASSUME NEW i \in 1..(Len(seq) - 1), NEW j \in 1..(Len(seq) - 1), c[i] = c[j]
                 PROVE  i = j
      BY <2>8 DEF Distinct
    <3> DEFINE at(x) == IF x < k THEN x ELSE x + 1
    <3>1. at(i) \in 1..Len(seq) /\ at(j) \in 1..Len(seq) /\ seq[at(i)] = seq[at(j)]
      BY <1>1, <2>7
    <3>2. at(i) = at(j)
      BY <1>1, <3>1 DEF Distinct
    <3> QED
      BY <3>2
  <2>10. \A x \in Range(c) : x \in Range(seq) \ {e}
    BY <1>1, <2>1, <2>7, <2>8 DEF Distinct, Range
  <2>11. \A x \in Range(seq) \ {e} : x \in Range(c)
    <3> SUFFICES ASSUME NEW i \in 1..Len(seq), seq[i] # e
                 PROVE  seq[i] \in Range(c)
      BY <1>1 DEF Range
    <3>1. CASE i < k
      BY <1>1, <2>7, <2>8, <3>1 DEF Range
    <3>2. CASE i > k
      <4>1. i - 1 \in 1..(Len(seq) - 1) /\ c[i - 1] = seq[i]
        BY <1>1, <2>7, <3>2
      <4> QED
        BY <2>8, <4>1 DEF Range
    <3> QED
      BY <2>1, <3>1, <3>2
  <2> QED
    BY <2>4, <2>7, <2>9, <2>10, <2>11 DEF c
<1> QED
  BY <1>2, <1>3

\* Range() of a sequence is empty only for the empty sequence.
LEMMA RangeEmpty ==
  ASSUME NEW S, NEW seq \in Seq(S)
  PROVE  /\ seq = <<>> <=> Range(seq) = {}
         /\ Range(seq) \subseteq S
<1>1. DOMAIN seq = 1..Len(seq) /\ Len(seq) \in Nat /\ \A i \in 1..Len(seq) : seq[i] \in S
  OBVIOUS
<1>2. Range(seq) \subseteq S
  BY <1>1 DEF Range
<1>3. CASE seq = <<>>
  BY <1>2, <1>3 DEF Range
<1>4. CASE seq # <<>>
  <2>1. 1 \in DOMAIN seq
    BY <1>1, <1>4, EmptySeq
  <2> QED
    BY <1>2, <1>4, <2>1 DEF Range
<1> QED
  BY <1>2, <1>3, <1>4

\* The empty sequence has no repetitions.
LEMMA EmptyDistinct == Distinct(<<>>) /\ Range(<<>>) = {}
  BY DEF Distinct, Range

-----------------------------------------------------------------------------
(* The invariant *)

Available == Range(availableSockets)
Waiting   == Range(waitingCreateConn)
Handing   == Range(handing)

Live(s) == sock[s] \in {"open", "dead"}

\* A client that is removed has no connection.
Offline == Counted /\ GraceWhenOffline /\ (closed => connectedSockets = 0)

\* Each sequence names a socket, or a request, once.
NoRepeats ==
  /\ Distinct(availableSockets) /\ Distinct(waitingCreateConn) /\ Distinct(handing)
  /\ \A x, y \in Handing : x.socket = y.socket \/ x.request = y.request => x = y

\* The places a socket can be in exclude each other.
Apart ==
  /\ \A s \in Available : /\ Live(s) /\ s # kept
                          /\ \A x \in Handing : x.socket # s
                          /\ \A r \in Request : given[r] # s
  /\ \A x \in Handing : /\ sock[x.socket] # "refused" /\ x.socket # kept
                        /\ \A r \in Request : given[r] # x.socket
  /\ \A r \in Request : given[r] # NoSocket => Live(given[r]) /\ given[r] # kept
  /\ \A q, r \in Request : given[q] = given[r] /\ given[q] # NoSocket => q = r
  /\ kept # NoSocket => Live(kept)

\* An open socket is in one of them.
Placed ==
  \A s \in Socket : sock[s] = "open" =>
    \/ s \in Available \/ s = kept
    \/ \E x \in Handing : x.socket = s
    \/ \E r \in Request : given[r] = s

\* What the state of a request says of where it is.
Queues ==
  /\ \A r \in Request : /\ (req[r] = "waiting") <=> (r \in Waiting)
                        /\ (req[r] = "active") <=> (given[r] # NoSocket)
  /\ \A x \in Handing : req[x.request] = "handed"
  /\ Waiting # {} => Available = {} /\ ~closed

Inv == TypeOK /\ Offline /\ NoRepeats /\ Apart /\ Placed /\ Queues

\* What the sequences hold has the types of TypeOK.
LEMMA RangeTypes ==
  ASSUME TypeOK
  PROVE  /\ Available \subseteq Socket /\ Waiting \subseteq Request
         /\ Handing \subseteq [request : Request, socket : Socket]
         /\ availableSockets = <<>> <=> Available = {}
         /\ waitingCreateConn = <<>> <=> Waiting = {}
         /\ handing = <<>> <=> Handing = {}
  BY RangeEmpty DEF TypeOK, Available, Waiting, Handing

\* A step that accepts no socket and emits no 'close' changes no number of sockets.
LEMMA SameAccepted ==
  ASSUME TypeOK, Offline, sock' \in [Socket -> SockState],
         \A s \in Socket : Live(s)' <=> Live(s),
         connectedSockets' = connectedSockets, client' = client
  PROVE  Offline'
<1>1. Accepted' = Accepted
  BY DEF Accepted, Live
<1> QED
  BY <1>1 DEF Offline, Counted, GraceWhenOffline, client

-----------------------------------------------------------------------------
(* Connections *)

LEMMA ConnectInv ==
  ASSUME Inv, NEW s \in Socket, Connect(s)
  PROVE  Inv'
<1> USE DEF Inv
<1>a. MaxTcpSockets \in Nat \ {0} /\ IsFiniteSet(Socket) /\ NoSocket \notin Socket
  BY SocketAssumption
<1>b. s \notin Available /\ s # kept /\ (\A x \in Handing : x.socket # s)
      /\ \A r \in Request : given[r] # s
  BY DEF Connect, InUse, Handed, Serving, Available, Handing, Range
<1>1. Offline' /\ connectedSockets' \in 0..MaxTcpSockets
  <2>1. s \notin Accepted /\ Accepted' = Accepted \cup {s}
    BY DEF Connect, Accepted, TypeOK
  <2>2. IsFiniteSet(Accepted)
    BY <1>a, FS_Subset DEF Accepted
  <2>3. Cardinality(Accepted') = Cardinality(Accepted) + 1
    BY <2>1, <2>2, FS_AddElement
  <2>4. connectedSockets \in 0..MaxTcpSockets /\ connectedSockets < MaxTcpSockets
        /\ connectedSockets' = connectedSockets + 1
    BY <1>a DEF Connect, LimitReached, TypeOK
  <2>5. Counted'
    BY <2>3, <2>4 DEF Counted, Offline
  <2>6. connectedSockets' # 0
    BY <2>4
  <2>7. ~closed /\ closed' = closed /\ (graceTimeout' = (graceTimeout /\ connectedSockets # 0))
    BY DEF Connect
  <2>8. graceTimeout => connectedSockets = 0
    BY DEF Offline, GraceWhenOffline
  <2>9. ~graceTimeout' /\ ~closed'
    BY <2>7, <2>8, Zenon
  <2> QED
    BY <1>a, <2>4, <2>5, <2>6, <2>9 DEF Offline, GraceWhenOffline
<1>2. CASE waitingCreateConn = <<>>
  <2>1. /\ waitingCreateConn' = <<>> /\ handing' = handing
        /\ availableSockets' = Append(availableSockets, s)
    BY <1>2 DEF Connect, Pooled, Promised
  <2>2. req' = req
    BY <1>2 DEF Connect, TypeOK
  <2>3. /\ availableSockets' \in Seq(Socket) /\ Distinct(availableSockets')
        /\ Available' = Available \cup {s}
    BY <1>b, <2>1, AppendDistinct DEF NoRepeats, Available, TypeOK
  <2>4. Handing' = Handing /\ Waiting' = Waiting /\ Waiting = {}
    BY <1>2, <2>1, RangeTypes DEF Handing, Waiting
  <2>5. TypeOK'
    BY <1>1, <2>1, <2>2, <2>3 DEF TypeOK, Connect, SockState
  <2>6. NoRepeats'
    BY <1>2, <2>1, <2>3, <2>4 DEF NoRepeats
  <2>7. Apart'
    BY <1>a, <1>b, <2>3, <2>4, RangeTypes DEF Apart, Live, Connect, TypeOK
  <2>8. Placed'
    BY <2>3, <2>4, RangeTypes DEF Placed, Connect, TypeOK
  <2>9. Queues'
    BY <2>2, <2>4 DEF Queues, Connect
  <2> QED
    BY <1>1, <2>5, <2>6, <2>7, <2>8, <2>9
<1>3. CASE waitingCreateConn # <<>>
  <2> DEFINE r == Head(waitingCreateConn)
             h == [request |-> r, socket |-> s]
  <2>1. /\ waitingCreateConn' = Tail(waitingCreateConn) /\ availableSockets' = availableSockets
        /\ handing' = Append(handing, h)
    BY <1>3 DEF Connect, Pooled, Promised
  <2>2. /\ Tail(waitingCreateConn) \in Seq(Request) /\ Distinct(Tail(waitingCreateConn))
        /\ r \in Request /\ r \in Waiting
        /\ Range(Tail(waitingCreateConn)) = Waiting \ {r}
    BY <1>3, TailDistinct DEF NoRepeats, Waiting, TypeOK
  <2>3. waitingCreateConn' \in Seq(Request) /\ Distinct(waitingCreateConn') /\ Waiting' = Waiting \ {r}
    BY <2>1, <2>2 DEF Waiting
  <2>4. Available' = Available /\ Available = {}
    BY <2>1, <2>2 DEF Available, Queues
  <2> HIDE DEF r
  <2>5. h \in [request : Request, socket : Socket] /\ h \notin Handing
    BY <1>b, <2>2
  <2>6. /\ handing' \in Seq([request : Request, socket : Socket]) /\ Distinct(handing')
        /\ Handing' = Handing \cup {h}
    <3> DEFINE R == [request : Request, socket : Socket]
    <3>1. handing \in Seq(R) /\ h \in R /\ h \notin Range(handing) /\ Distinct(handing)
      BY <2>5 DEF NoRepeats, Handing, TypeOK
    <3> HIDE DEF R, h
    <3>2. /\ Append(handing, h) \in Seq(R) /\ Distinct(Append(handing, h))
          /\ Range(Append(handing, h)) = Range(handing) \cup {h}
      BY <3>1, AppendDistinct
    <3>3. handing' = Append(handing, h)
      BY <2>1 DEF h
    <3> QED
      BY <3>2, <3>3 DEF Handing, R
  <2>7. /\ req' \in [Request -> ReqState] /\ req'[r] = "handed"
        /\ \A q \in Request \ {r} : req'[q] = req[q]
    BY <1>3, <2>2 DEF Connect, TypeOK, ReqState, r
  <2>8. req[r] = "waiting" /\ \A x \in Handing : x.request # r
    BY <2>2 DEF Queues
  <2>9. TypeOK'
    BY <1>1, <2>1, <2>3, <2>6, <2>7 DEF TypeOK, Connect, SockState
  <2>10. NoRepeats'
    BY <1>b, <2>1, <2>3, <2>6, <2>8 DEF NoRepeats
  <2>11. Apart'
    <3>1. /\ kept' = kept /\ given' = given /\ sock' \in [Socket -> SockState]
          /\ sock'[s] = "open" /\ \A x \in Socket \ {s} : sock'[x] = sock[x]
      BY DEF Connect, TypeOK, SockState
    <3>2. \A x \in Handing' : /\ x.socket \in Socket /\ sock'[x.socket] # "refused"
                             /\ x.socket # kept
                             /\ \A q \in Request : given[q] # x.socket
      BY <1>b, <2>6, <3>1, RangeTypes DEF Apart
    <3>3. Available' = {}
      BY <2>4
    <3> QED
      BY <1>a, <1>b, <3>1, <3>2, <3>3 DEF Apart, Live, TypeOK
  <2>12. Placed'
    <3>1. h.socket = s /\ h \in Handing' /\ \A x \in Handing : x \in Handing'
      BY <2>6
    <3>2. kept' = kept /\ given' = given /\ \A x \in Socket \ {s} : sock'[x] = sock[x]
      BY DEF Connect, TypeOK
    <3> HIDE DEF h
    <3> QED
      BY <2>4, <3>1, <3>2 DEF Placed
  <2>13. Queues'
    BY <2>2, <2>3, <2>4, <2>6, <2>7, <2>8, RangeTypes DEF Queues, Connect
  <2> QED
    BY <1>1, <2>9, <2>10, <2>11, <2>12, <2>13
<1> QED
  BY <1>2, <1>3

\* A step that leaves the sequences and the requests alone.
Untouched == /\ UNCHANGED <<availableSockets, waitingCreateConn, handing, kept, req, given,
                            connectedSockets, left>>
             /\ client' = client

LEMMA UntouchedRanges ==
  ASSUME Untouched
  PROVE  Available' = Available /\ Waiting' = Waiting /\ Handing' = Handing
  BY DEF Untouched, Available, Waiting, Handing

LEMMA RefuseInv ==
  ASSUME Inv, NEW s \in Socket, Refuse(s)
  PROVE  Inv'
<1> USE DEF Inv
<1>1. Untouched
  BY DEF Refuse, Untouched
<1>2. s \notin Available /\ s # kept /\ (\A x \in Handing : x.socket # s)
      /\ \A r \in Request : given[r] # s
  BY DEF Refuse, InUse, Handed, Serving, Available, Handing, Range
<1>3. /\ sock' \in [Socket -> SockState] /\ sock[s] = "away" /\ sock'[s] = "refused"
      /\ \A x \in Socket \ {s} : sock'[x] = sock[x]
  BY DEF Refuse, TypeOK, SockState
<1>4. TypeOK'
  BY <1>1, <1>3 DEF TypeOK, Untouched, client
<1>5. Offline'
  <2>1. \A x \in Socket : Live(x)' <=> Live(x)
    BY <1>3 DEF Live
  <2> QED
    BY <1>1, <1>3, <2>1, SameAccepted DEF Untouched
<1>6. NoRepeats'
  BY <1>1, UntouchedRanges DEF NoRepeats, Untouched
<1>7. Apart'
  BY <1>1, <1>2, <1>3, UntouchedRanges, RangeTypes DEF Apart, Untouched, Live, TypeOK
<1>8. Placed'
  BY <1>1, <1>3, UntouchedRanges DEF Placed, Untouched
<1>9. Queues'
  BY <1>1, UntouchedRanges DEF Queues, Untouched, client
<1> QED
  BY <1>4, <1>5, <1>6, <1>7, <1>8, <1>9

LEMMA DiesInv ==
  ASSUME Inv, NEW s \in Socket, Dies(s)
  PROVE  Inv'
<1> USE DEF Inv
<1>1. Untouched
  BY DEF Dies, Untouched
<1>2. /\ sock' \in [Socket -> SockState] /\ sock[s] = "open" /\ sock'[s] = "dead"
      /\ \A x \in Socket \ {s} : sock'[x] = sock[x]
  BY DEF Dies, TypeOK, SockState
<1>3. TypeOK'
  BY <1>1, <1>2 DEF TypeOK, Untouched, client
<1>4. Offline'
  <2>1. \A x \in Socket : Live(x)' <=> Live(x)
    BY <1>2 DEF Live
  <2> QED
    BY <1>1, <1>2, <2>1, SameAccepted DEF Untouched
<1>5. NoRepeats'
  BY <1>1, UntouchedRanges DEF NoRepeats, Untouched
<1>6. Apart'
  BY <1>1, <1>2, UntouchedRanges, RangeTypes DEF Apart, Untouched, Live, TypeOK
<1>7. Placed'
  BY <1>1, <1>2, UntouchedRanges DEF Placed, Untouched
<1>8. Queues'
  BY <1>1, UntouchedRanges DEF Queues, Untouched, client
<1> QED
  BY <1>3, <1>4, <1>5, <1>6, <1>7, <1>8

LEMMA ClosesInv ==
  ASSUME Inv, NEW s \in Socket, Closes(s)
  PROVE  Inv'
<1> USE DEF Inv
<1>a. MaxTcpSockets \in Nat \ {0} /\ IsFiniteSet(Socket) /\ NoSocket \notin Socket
  BY SocketAssumption
<1>1. CASE sock[s] = "dead"
  <2>1. /\ sock' = [sock EXCEPT ![s] = "away"]
        /\ connectedSockets' = connectedSockets - 1
        /\ availableSockets' = RemoveFirst(availableSockets, s)
        /\ graceTimeout' = GraceAfter(connectedSockets - 1)
        /\ kept' = IF kept = s THEN NoSocket ELSE kept
        /\ req' = [r \in Request |-> IF r \in Serving(s) THEN "failed" ELSE req[r]]
        /\ given' = [r \in Request |-> IF r \in Serving(s) THEN NoSocket ELSE given[r]]
        /\ UNCHANGED <<waitingCreateConn, handing, left, closed>>
    BY <1>1 DEF Closes
  <2>2. Offline' /\ connectedSockets' \in 0..MaxTcpSockets /\ graceTimeout' \in BOOLEAN
    <3>1. s \in Accepted /\ Accepted' = Accepted \ {s}
      BY <1>1, <2>1 DEF Accepted, TypeOK
    <3>2. IsFiniteSet(Accepted)
      BY <1>a, FS_Subset DEF Accepted
    <3>3. Cardinality(Accepted') = Cardinality(Accepted) - 1 /\ Cardinality(Accepted) \in Nat
          /\ Cardinality(Accepted) # 0
      BY <3>1, <3>2, FS_RemoveElement, FS_CardinalityType, FS_EmptySet
    <3>4. connectedSockets \in 1..MaxTcpSockets
      BY <1>a, <3>3 DEF TypeOK, Offline, Counted
    <3>5. Counted' /\ connectedSockets' \in 0..MaxTcpSockets
      BY <1>a, <2>1, <3>3, <3>4 DEF Offline, Counted
    <3>6. ~closed /\ ~closed' /\ ~graceTimeout
      BY <2>1, <3>4 DEF Offline, GraceWhenOffline
    <3>7. graceTimeout' <=> connectedSockets' = 0
      BY <2>1, <3>6 DEF GraceAfter
    <3>8. graceTimeout' \in BOOLEAN
      BY <2>1, Zenon DEF GraceAfter, TypeOK
    <3> QED
      BY <3>5, <3>6, <3>7, <3>8 DEF Offline, GraceWhenOffline
  <2>3. /\ availableSockets' \in Seq(Socket) /\ Distinct(availableSockets')
        /\ Available' = Available \ {s}
    BY <2>1, RemoveDistinct DEF NoRepeats, Available, TypeOK
  <2>4. Waiting' = Waiting /\ Handing' = Handing
    BY <2>1 DEF Waiting, Handing
  <2>5. /\ req' \in [Request -> ReqState] /\ given' \in [Request -> Socket \cup {NoSocket}]
        /\ \A r \in Request : IF given[r] = s THEN req'[r] = "failed" /\ given'[r] = NoSocket
                                              ELSE req'[r] = req[r] /\ given'[r] = given[r]
    BY <2>1 DEF TypeOK, ReqState, Serving
  <2>6. /\ sock' \in [Socket -> SockState] /\ sock'[s] = "away"
        /\ \A x \in Socket \ {s} : sock'[x] = sock[x]
    BY <2>1 DEF TypeOK, SockState
  <2>7. TypeOK'
    BY <2>1, <2>2, <2>3, <2>5, <2>6 DEF TypeOK
  <2>8. NoRepeats'
    BY <2>1, <2>3, <2>4 DEF NoRepeats
  <2>9. Apart'
    BY <1>a, <2>1, <2>3, <2>4, <2>5, <2>6, RangeTypes DEF Apart, Live, TypeOK
  <2>10. Placed'
    BY <1>a, <2>1, <2>3, <2>4, <2>5, <2>6 DEF Placed
  <2>11. Queues'
    BY <1>a, <2>1, <2>3, <2>4, <2>5, RangeTypes DEF Queues, TypeOK
  <2> QED
    BY <2>2, <2>7, <2>8, <2>9, <2>10, <2>11
<1>2. CASE sock[s] = "refused"
  <2>1. Untouched
    BY <1>2 DEF Closes, Untouched
  <2>2. /\ sock' \in [Socket -> SockState] /\ sock'[s] = "away"
        /\ \A x \in Socket \ {s} : sock'[x] = sock[x]
    BY <1>2 DEF Closes, TypeOK, SockState
  <2>3. TypeOK'
    BY <2>1, <2>2 DEF TypeOK, Untouched, client
  <2>4. Offline'
    <3>1. \A x \in Socket : Live(x)' <=> Live(x)
      BY <1>2, <2>2 DEF Live
    <3> QED
      BY <2>1, <2>2, <3>1, SameAccepted DEF Untouched
  <2>5. NoRepeats'
    BY <2>1, UntouchedRanges DEF NoRepeats, Untouched
  <2>6. Apart'
    BY <1>2, <2>1, <2>2, UntouchedRanges, RangeTypes DEF Apart, Untouched, Live, TypeOK
  <2>7. Placed'
    BY <1>2, <2>1, <2>2, UntouchedRanges DEF Placed, Untouched
  <2>8. Queues'
    BY <2>1, UntouchedRanges DEF Queues, Untouched, client
  <2> QED
    BY <2>3, <2>4, <2>5, <2>6, <2>7, <2>8
<1> QED
  BY <1>1, <1>2 DEF Closes

-----------------------------------------------------------------------------
(* Requests *)

\* A new request takes the first available socket, or a place at the end of the queue.
LEMMA CreateConnectionInv ==
  ASSUME Inv, NEW r \in Request, req[r] = "new", ~closed, CreateConnection(r),
         kept' \in {kept, NoSocket}, sock[kept] # "open" \/ kept' = kept,
         UNCHANGED <<sock, connectedSockets, handing, left>>, client' = client
  PROVE  Inv'
<1> USE DEF Inv
<1>a. NoSocket \notin Socket
  BY SocketAssumption
<1>1. Offline'
  BY SameAccepted DEF Live, TypeOK
<1>2. Handing' = Handing
  BY DEF Handing
<1>3. CASE availableSockets # <<>>
  <2> DEFINE s == Head(availableSockets)
  <2>1. /\ availableSockets' = Tail(availableSockets)
        /\ req' = [req EXCEPT ![r] = "active"] /\ given' = [given EXCEPT ![r] = s]
        /\ waitingCreateConn' = waitingCreateConn
    BY <1>3 DEF CreateConnection, Serve
  <2>2. /\ availableSockets' \in Seq(Socket) /\ Distinct(availableSockets')
        /\ s \in Socket /\ s \in Available /\ Available' = Available \ {s}
    BY <1>3, <2>1, TailDistinct DEF NoRepeats, Available, TypeOK
  <2> HIDE DEF s
  <2>3. /\ req' \in [Request -> ReqState] /\ given' \in [Request -> Socket \cup {NoSocket}]
        /\ req'[r] = "active" /\ given'[r] = s
        /\ \A q \in Request \ {r} : req'[q] = req[q] /\ given'[q] = given[q]
    BY <2>1, <2>2 DEF TypeOK, ReqState
  <2>4. Waiting' = Waiting /\ Waiting = {}
    BY <2>1, <2>2 DEF Waiting, Queues
  <2>5. TypeOK'
    BY <2>1, <2>2, <2>3 DEF TypeOK, client
  <2>6. NoRepeats'
    BY <1>2, <2>1, <2>2 DEF NoRepeats
  <2>7. Apart'
    <3>1. given[r] = NoSocket
      BY DEF Queues
    <3>2. Live(s) /\ s # kept /\ (\A x \in Handing : x.socket # s)
          /\ \A q \in Request : given[q] # s
      BY <2>2 DEF Apart
    <3>3. \A x : Live(x)' <=> Live(x)
      BY DEF Live
    <3>4. /\ s # kept'
          /\ \A x \in Available' : x # s /\ x \in Available /\ x \in Socket /\ x # kept'
          /\ \A x \in Handing : x.socket \in Socket /\ x.socket # kept'
          /\ \A q \in Request \ {r} : given[q] # NoSocket => given[q] # kept'
          /\ kept' # NoSocket => kept' = kept
      BY <1>a, <2>2, <3>2, RangeTypes DEF Apart
    <3> QED
      BY <1>a, <1>2, <2>2, <2>3, <3>1, <3>2, <3>3, <3>4 DEF Apart
  <2>8. Placed'
    BY <1>a, <1>2, <2>2, <2>3 DEF Placed, Queues
  <2>9. Queues'
    BY <1>a, <1>2, <2>2, <2>3, <2>4, RangeTypes DEF Queues, client
  <2> QED
    BY <1>1, <2>5, <2>6, <2>7, <2>8, <2>9
<1>4. CASE availableSockets = <<>>
  <2>1. /\ waitingCreateConn' = Append(waitingCreateConn, r)
        /\ req' = [req EXCEPT ![r] = "waiting"]
        /\ UNCHANGED <<availableSockets, given>>
    BY <1>4 DEF CreateConnection
  <2>2. r \notin Waiting
    BY DEF Queues
  <2>3. /\ waitingCreateConn' \in Seq(Request) /\ Distinct(waitingCreateConn')
        /\ Waiting' = Waiting \cup {r}
    BY <2>1, <2>2, AppendDistinct DEF NoRepeats, Waiting, TypeOK
  <2>4. Available' = Available /\ Available = {}
    BY <1>4, <2>1, RangeTypes DEF Available
  <2>5. /\ req' \in [Request -> ReqState] /\ req'[r] = "waiting"
        /\ \A q \in Request \ {r} : req'[q] = req[q]
    BY <2>1 DEF TypeOK, ReqState
  <2>6. TypeOK'
    BY <2>1, <2>3, <2>5 DEF TypeOK, client
  <2>7. NoRepeats'
    BY <1>2, <2>1, <2>3 DEF NoRepeats
  <2>8. Apart'
    <3>1. \A x : Live(x)' <=> Live(x)
      BY DEF Live
    <3>2. /\ \A x \in Handing : x.socket \in Socket /\ x.socket # kept'
          /\ \A q \in Request : given[q] # NoSocket => given[q] # kept'
          /\ kept' # NoSocket => kept' = kept
      BY <1>a, RangeTypes DEF Apart
    <3> QED
      BY <1>2, <2>1, <2>4, <3>1, <3>2 DEF Apart
  <2>9. Placed'
    BY <1>2, <2>1, <2>4 DEF Placed
  <2>10. Queues'
    BY <1>2, <2>1, <2>3, <2>4, <2>5, RangeTypes DEF Queues, client
  <2> QED
    BY <1>1, <2>6, <2>7, <2>8, <2>9, <2>10
<1> QED
  BY <1>3, <1>4

LEMMA HandleInv ==
  ASSUME Inv, NEW r \in Request, HandleRequest(r) \/ HandleUpgrade(r)
  PROVE  Inv'
<1>1. CASE HandleUpgrade(r)
  BY <1>1, CreateConnectionInv DEF HandleUpgrade
<1>2. CASE HandleRequest(r)
  <2>1. /\ ~closed /\ req[r] = "new" /\ kept' = NoSocket /\ client' = client
        /\ UNCHANGED <<sock, connectedSockets, handing, left>>
    BY <1>2 DEF HandleRequest
  <2>2. CASE kept \notin {s \in Socket : sock[s] = "open"} /\ CreateConnection(r)
    <3>1. kept' = kept \/ sock[kept] # "open"
      BY <2>1, <2>2 DEF Inv, TypeOK
    <3> QED
      BY <2>1, <2>2, <3>1, CreateConnectionInv
  <2>3. CASE /\ kept # NoSocket /\ Serve(r, kept)
             /\ UNCHANGED <<availableSockets, waitingCreateConn>>
    <3> USE DEF Inv
    <3>a. NoSocket \notin Socket
      BY SocketAssumption
    <3>1. Available' = Available /\ Waiting' = Waiting /\ Handing' = Handing
      BY <2>1, <2>3 DEF Available, Waiting, Handing
    <3>2. /\ req' \in [Request -> ReqState] /\ given' \in [Request -> Socket \cup {NoSocket}]
          /\ req'[r] = "active" /\ given'[r] = kept
          /\ \A q \in Request \ {r} : req'[q] = req[q] /\ given'[q] = given[q]
      BY <2>3 DEF TypeOK, ReqState, Serve
    <3>3. TypeOK'
      BY <2>1, <2>3, <3>2 DEF TypeOK, client
    <3>4. Offline'
      BY <2>1, SameAccepted DEF Live, TypeOK
    <3>5. NoRepeats'
      BY <2>1, <2>3, <3>1 DEF NoRepeats
    <3>6. Apart'
      <4>1. given[r] = NoSocket
        BY <2>1 DEF Queues
      <4>2. Live(kept) /\ \A q \in Request : given[q] # kept
        BY <2>3, <3>a DEF Apart
      <4>3. \A x : Live(x)' <=> Live(x)
        BY <2>1 DEF Live
      <4>4. /\ \A x \in Available : x # kept /\ x \in Socket
            /\ \A x \in Handing : x.socket # kept /\ x.socket \in Socket
        BY RangeTypes DEF Apart
      <4> QED
        BY <2>1, <2>3, <3>a, <3>1, <3>2, <4>1, <4>2, <4>3, <4>4 DEF Apart
    <3>7. Placed'
      BY <3>a, <2>1, <3>1, <3>2 DEF Placed, Queues
    <3>8. Queues'
      BY <3>a, <2>1, <2>3, <3>1, <3>2, RangeTypes DEF Queues, client
    <3> QED
      BY <3>3, <3>4, <3>5, <3>6, <3>7, <3>8
  <2> QED
    BY <1>2, <2>2, <2>3 DEF HandleRequest
<1> QED
  BY <1>1, <1>2

\* Destroy() makes an open socket dead, and no other change.
LEMMA DestroyTypes ==
  ASSUME TypeOK, NEW s, Destroy(s)
  PROVE  /\ sock' \in [Socket -> SockState]
         /\ \A x \in Socket : \/ sock'[x] = sock[x]
                              \/ x = s /\ sock[x] = "open" /\ sock'[x] = "dead"
         /\ \A x \in Socket : Live(x)' <=> Live(x)
         /\ s \in Socket => sock'[s] # "open"
  BY DEF Destroy, TypeOK, SockState, Live

LEMMA HandOverInv ==
  ASSUME Inv, HandOver
  PROVE  Inv'
<1> USE DEF Inv
<1>a. NoSocket \notin Socket
  BY SocketAssumption
<1> DEFINE h == Head(handing)
           r == h.request
           s == h.socket
<1>1. /\ handing # <<>> /\ handing' = Tail(handing)
      /\ UNCHANGED <<connectedSockets, availableSockets, waitingCreateConn, kept, left>>
      /\ client' = client
  BY DEF HandOver
<1>2. /\ handing' \in Seq([request : Request, socket : Socket]) /\ Distinct(handing')
      /\ h \in [request : Request, socket : Socket] /\ h \in Handing
      /\ Handing' = Handing \ {h}
  BY <1>1, TailDistinct DEF NoRepeats, Handing, TypeOK
<1>3. Available' = Available /\ Waiting' = Waiting
  BY <1>1 DEF Available, Waiting
<1>4. \/ Destroy(s) /\ req' = [req EXCEPT ![r] = "failed"] /\ given' = given
      \/ sock[s] # "away" /\ Serve(r, s) /\ sock' = sock
      \/ sock[s] = "away" /\ req' = [req EXCEPT ![r] = "stuck"] /\ sock' = sock /\ given' = given
  BY DEF HandOver
<1> HIDE DEF h
<1>5. r \in Request /\ s \in Socket /\ req[r] = "handed" /\ r \notin Waiting /\ given[r] = NoSocket
  BY <1>2 DEF Queues
<1>6. \A x \in Handing' : x \in Handing /\ x.request # r /\ x.socket # s
  BY <1>2 DEF NoRepeats
<1>7. NoRepeats'
  BY <1>1, <1>2, <1>3 DEF NoRepeats
<1>8. CASE Destroy(s) /\ req' = [req EXCEPT ![r] = "failed"] /\ given' = given
  <2>1. /\ req' \in [Request -> ReqState] /\ req'[r] = "failed"
        /\ \A q \in Request \ {r} : req'[q] = req[q]
    BY <1>5, <1>8 DEF TypeOK, ReqState
  <2>2. TypeOK'
    BY <1>1, <1>2, <1>8, <2>1, DestroyTypes DEF TypeOK, client
  <2>3. Offline'
    BY <1>1, <1>8, DestroyTypes, SameAccepted
  <2>4. Apart'
    <3>1. \A x \in Socket : sock'[x] = "refused" => sock[x] = "refused"
      BY <1>8, DestroyTypes
    <3>2. \A x \in Socket : Live(x)' <=> Live(x)
      BY <1>8, DestroyTypes
    <3> QED
      BY <1>1, <1>3, <1>6, <1>8, <3>1, <3>2, RangeTypes DEF Apart, TypeOK
  <2>5. Placed'
    <3>1. \A x \in Socket : sock'[x] = "open" => sock[x] = "open" /\ x # s
      BY <1>5, <1>8, DestroyTypes
    <3> QED
      BY <1>1, <1>2, <1>3, <1>8, <3>1 DEF Placed
  <2>6. Queues'
    BY <1>1, <1>3, <1>5, <1>6, <1>8, <2>1, RangeTypes DEF Queues, client
  <2> QED
    BY <1>7, <2>2, <2>3, <2>4, <2>5, <2>6
<1>9. CASE sock[s] # "away" /\ Serve(r, s) /\ sock' = sock
  <2>1. /\ req' \in [Request -> ReqState] /\ given' \in [Request -> Socket \cup {NoSocket}]
        /\ req'[r] = "active" /\ given'[r] = s
        /\ \A q \in Request \ {r} : req'[q] = req[q] /\ given'[q] = given[q]
    BY <1>5, <1>9 DEF TypeOK, ReqState, Serve
  <2>2. TypeOK'
    BY <1>1, <1>2, <1>9, <2>1 DEF TypeOK, client
  <2>3. Offline'
    BY <1>1, <1>9, SameAccepted DEF Live, TypeOK
  <2>4. Apart'
    <3>1. Live(s) /\ s # kept /\ s \notin Available /\ \A q \in Request : given[q] # s
      BY <1>2, <1>5, <1>9 DEF Apart, Live, TypeOK, SockState
    <3> QED
      BY <1>a, <1>1, <1>3, <1>5, <1>6, <1>9, <2>1, <3>1, RangeTypes DEF Apart, Live
  <2>5. Placed'
    BY <1>a, <1>1, <1>2, <1>3, <1>5, <1>9, <2>1 DEF Placed
  <2>6. Queues'
    BY <1>a, <1>1, <1>3, <1>5, <1>6, <2>1, RangeTypes DEF Queues, client
  <2> QED
    BY <1>7, <2>2, <2>3, <2>4, <2>5, <2>6
<1>10. CASE sock[s] = "away" /\ req' = [req EXCEPT ![r] = "stuck"] /\ sock' = sock /\ given' = given
  <2>1. /\ req' \in [Request -> ReqState] /\ req'[r] = "stuck"
        /\ \A q \in Request \ {r} : req'[q] = req[q]
    BY <1>5, <1>10 DEF TypeOK, ReqState
  <2>2. TypeOK'
    BY <1>1, <1>2, <1>10, <2>1 DEF TypeOK, client
  <2>3. Offline'
    BY <1>1, <1>10, SameAccepted DEF Live, TypeOK
  <2>4. Apart'
    BY <1>1, <1>3, <1>6, <1>10 DEF Apart, Live
  <2>5. Placed'
    BY <1>1, <1>2, <1>3, <1>10 DEF Placed
  <2>6. Queues'
    BY <1>1, <1>3, <1>5, <1>6, <1>10, <2>1, RangeTypes DEF Queues, client
  <2> QED
    BY <1>7, <2>2, <2>3, <2>4, <2>5, <2>6
<1> QED
  BY <1>4, <1>8, <1>9, <1>10

\* The request r is over: its socket is destroyed, or kept.
LEMMA OverInv ==
  ASSUME Inv, NEW r \in Request, req[r] = "active", NEW over \in {"served", "failed"},
         req' = [req EXCEPT ![r] = over], given' = [given EXCEPT ![r] = NoSocket],
         \/ kept = NoSocket /\ kept' = given[r] /\ sock' = sock
         \/ Destroy(given[r]) /\ kept' = kept,
         left' \subseteq Request, client' = client,
         UNCHANGED <<connectedSockets, availableSockets, waitingCreateConn, handing>>
  PROVE  Inv'
<1> USE DEF Inv
<1>a. NoSocket \notin Socket
  BY SocketAssumption
<1>1. Available' = Available /\ Waiting' = Waiting /\ Handing' = Handing
  BY DEF Available, Waiting, Handing
<1> DEFINE s == given[r]
<1>2. s \in Socket
  BY DEF Queues, TypeOK
<1> HIDE DEF s
<1>3. /\ req' \in [Request -> ReqState] /\ given' \in [Request -> Socket \cup {NoSocket}]
      /\ req'[r] = over /\ given'[r] = NoSocket
      /\ \A q \in Request \ {r} : req'[q] = req[q] /\ given'[q] = given[q]
  BY DEF TypeOK, ReqState
<1>4. /\ s # kept /\ Live(s) /\ s \notin Available /\ \A x \in Handing : x.socket # s
      /\ \A q \in Request \ {r} : given'[q] # s
  BY <1>a, <1>2, <1>3 DEF Apart, s
<1>5. NoRepeats'
  BY <1>1 DEF NoRepeats
<1>6. Queues'
  BY <1>1, <1>3, RangeTypes DEF Queues, client
<1>7. CASE kept = NoSocket /\ kept' = s /\ sock' = sock
  <2>1. TypeOK'
    BY <1>2, <1>3, <1>7 DEF TypeOK, client
  <2>2. Offline'
    BY <1>7, SameAccepted DEF Live, TypeOK
  <2>3. Apart'
    BY <1>a, <1>1, <1>3, <1>4, <1>7 DEF Apart, Live
  <2>4. Placed'
    BY <1>a, <1>1, <1>3, <1>7 DEF Placed, s
  <2> QED
    BY <1>5, <1>6, <2>1, <2>2, <2>3, <2>4
<1>8. CASE Destroy(s) /\ kept' = kept
  <2>1. TypeOK'
    BY <1>3, <1>8, DestroyTypes DEF TypeOK, client
  <2>2. Offline'
    BY <1>8, DestroyTypes, SameAccepted
  <2>3. Apart'
    <3>1. \A x \in Socket : sock'[x] = "refused" => sock[x] = "refused"
      BY <1>8, DestroyTypes
    <3>2. \A x \in Socket : Live(x)' <=> Live(x)
      BY <1>8, DestroyTypes
    <3> QED
      BY <1>a, <1>1, <1>3, <1>4, <1>8, <3>1, <3>2, RangeTypes DEF Apart, TypeOK
  <2>4. Placed'
    <3>1. \A x \in Socket : sock'[x] = "open" => sock[x] = "open" /\ x # s
      BY <1>2, <1>8, DestroyTypes
    <3> QED
      BY <1>1, <1>3, <1>8, <3>1 DEF Placed, s
  <2> QED
    BY <1>5, <1>6, <2>1, <2>2, <2>3, <2>4
<1> QED
  BY <1>7, <1>8 DEF s

LEMMA CompletesInv ==
  ASSUME Inv, NEW r \in Request, Completes(r)
  PROVE  Inv'
<1>1. left' \subseteq Request
  BY DEF Completes, Inv, TypeOK
<1> QED
  BY <1>1, OverInv DEF Completes

LEMMA LeavesInv ==
  ASSUME Inv, NEW r \in Request, Leaves(r)
  PROVE  Inv'
<1>1. left' \subseteq Request
  BY DEF Leaves, Inv, TypeOK
<1>2. CASE req[r] = "active"
  BY <1>1, <1>2, OverInv DEF Leaves
<1>3. CASE req[r] # "active"
  <2> USE DEF Inv
  <2>1. /\ UNCHANGED <<sock, connectedSockets, availableSockets, waitingCreateConn, handing,
                       kept, req, given>>
        /\ client' = client
    BY <1>3 DEF Leaves
  <2>2. Available' = Available /\ Waiting' = Waiting /\ Handing' = Handing
    BY <2>1 DEF Available, Waiting, Handing
  <2>3. TypeOK'
    BY <1>1, <2>1 DEF TypeOK, client
  <2>4. Offline'
    BY <2>1, SameAccepted DEF Live, TypeOK
  <2>5. NoRepeats' /\ Apart' /\ Placed' /\ Queues'
    BY <2>1, <2>2 DEF NoRepeats, Apart, Live, Placed, Queues, client
  <2> QED
    BY <2>3, <2>4, <2>5
<1> QED
  BY <1>2, <1>3

LEMMA GraceFiresInv ==
  ASSUME Inv, GraceFires
  PROVE  Inv'
<1> USE DEF Inv
<1>1. /\ graceTimeout /\ ~graceTimeout' /\ closed' /\ waitingCreateConn' = <<>>
      /\ graceTimeout' \in BOOLEAN /\ closed' \in BOOLEAN
      /\ UNCHANGED <<sock, connectedSockets, availableSockets, handing, kept, given, left>>
  BY DEF GraceFires
<1>2. Available' = Available /\ Handing' = Handing
  BY <1>1 DEF Available, Handing
<1>3. Waiting' = {} /\ Distinct(waitingCreateConn')
  BY <1>1, EmptyDistinct DEF Waiting
<1>4. /\ req' \in [Request -> ReqState]
      /\ \A r \in Request : req'[r] = IF req[r] = "waiting" THEN "failed" ELSE req[r]
  BY DEF GraceFires, TypeOK, ReqState
<1>5. TypeOK'
  BY <1>1, <1>4, EmptySeq DEF TypeOK
<1>6. Offline'
  <2>1. Accepted' = Accepted
    BY <1>1 DEF Accepted
  <2> QED
    BY <1>1, <2>1 DEF Offline, Counted, GraceWhenOffline
<1>7. NoRepeats' /\ Apart' /\ Placed'
  BY <1>1, <1>2, <1>3 DEF NoRepeats, Apart, Live, Placed
<1>8. Queues'
  BY <1>1, <1>2, <1>3, <1>4, RangeTypes DEF Queues
<1> QED
  BY <1>5, <1>6, <1>7, <1>8

-----------------------------------------------------------------------------
(* The theorems *)

LEMMA InitInv ==
  ASSUME Init
  PROVE  Inv
<1>a. MaxTcpSockets \in Nat \ {0} /\ IsFiniteSet(Socket) /\ NoSocket \notin Socket
  BY SocketAssumption
<1>1. Available = {} /\ Waiting = {} /\ Handing = {}
  BY EmptyDistinct DEF Init, Available, Waiting, Handing
<1>2. TypeOK
  <2>1. /\ sock \in [Socket -> SockState] /\ req \in [Request -> ReqState]
        /\ given \in [Request -> Socket \cup {NoSocket}]
        /\ kept \in Socket \cup {NoSocket}
        /\ connectedSockets \in 0..MaxTcpSockets
    BY <1>a DEF Init, SockState, ReqState
  <2>2. /\ availableSockets \in Seq(Socket) /\ waitingCreateConn \in Seq(Request)
        /\ handing \in Seq([request : Request, socket : Socket])
    BY DEF Init
  <2>3. left \subseteq Request /\ graceTimeout \in BOOLEAN /\ closed \in BOOLEAN
    BY DEF Init
  <2> QED
    BY <2>1, <2>2, <2>3 DEF TypeOK
<1>3. Offline
  <2>1. Accepted = {}
    BY DEF Init, Accepted
  <2> QED
    BY <2>1, FS_EmptySet DEF Init, Offline, Counted, GraceWhenOffline
<1>4. NoRepeats
  BY <1>1, EmptyDistinct DEF Init, NoRepeats
<1>5. Apart /\ Placed /\ Queues
  BY <1>1 DEF Init, Apart, Placed, Queues
<1> QED
  BY <1>2, <1>3, <1>4, <1>5 DEF Inv

LEMMA NextInv ==
  ASSUME Inv, [Next]_vars
  PROVE  Inv'
<1>1. CASE UNCHANGED vars
  <2>1. Available' = Available /\ Waiting' = Waiting /\ Handing' = Handing /\ Accepted' = Accepted
    BY <1>1 DEF vars, Available, Waiting, Handing, Accepted
  <2> QED
    BY <1>1, <2>1 DEF vars, Inv, TypeOK, Offline, Counted, GraceWhenOffline, NoRepeats, Apart,
                      Live, Placed, Queues
<1>2. CASE Next
  BY <1>2, ConnectInv, RefuseInv, DiesInv, ClosesInv, HandleInv, CompletesInv, LeavesInv,
     HandOverInv, GraceFiresInv DEF Next
<1> QED
  BY <1>1, <1>2

\* The invariant holds in every state.
LEMMA InvCorrect == Spec => []Inv
BY InitInv, NextInv, PTL DEF Spec

\* TunnelAgent and Client: every part of the state has its type, and the agent never
\* accepts more than maxTcpSockets connections.
THEOREM AgentTypes == Spec => []TypeOK
<1>1. Inv => TypeOK
  BY DEF Inv
<1> QED
  BY <1>1, InvCorrect, PTL

\* _onConnection(): the counter is the number of connections, for any number of them.
THEOREM CountedCorrect == Spec => []Counted
<1>1. Inv => Counted
  BY DEF Inv, Offline
<1> QED
  BY <1>1, InvCorrect, PTL

\* Client: the grace timer runs exactly while a registered client has no connection.
THEOREM GraceCorrect == Spec => []GraceWhenOffline
<1>1. Inv => GraceWhenOffline
  BY DEF Inv, Offline
<1> QED
  BY <1>1, InvCorrect, PTL

\* createConnection() and the hand-over: a socket is in one place at a time.
THEOREM OneUseCorrect == Spec => []OneUse
<1>1. ASSUME Inv, NEW s \in Socket
      PROVE  /\ \A x, y \in Places(s) : x = y
             /\ sock[s] = "open" => Places(s) # {}
  <2> USE <1>1 DEF Inv
  <2>a. NoSocket \notin Socket
    BY SocketAssumption
  <2> DEFINE A == {j \in DOMAIN availableSockets : availableSockets[j] = s}
             H == {j \in DOMAIN handing : handing[j].socket = s}
             S == Serving(s)
  <2>1. \A i \in A : s \in Available
    BY DEF Available, Range
  <2>2. \A i \in H : handing[i] \in Handing /\ handing[i].socket = s
    BY DEF Handing, Range
  <2>3. \A i, j \in A : i = j
    BY DEF NoRepeats, Distinct
  <2>4. \A i, j \in H : i = j
    BY <2>2 DEF NoRepeats, Distinct
  <2>5. \A q, r \in S : q = r
    BY <2>a DEF Apart, Serving
  <2>6. /\ A # {} => H = {} /\ S = {} /\ kept # s
        /\ H # {} => S = {} /\ kept # s
        /\ S # {} => kept # s
    BY <2>a, <2>1, <2>2 DEF Apart, Serving
  <2>7. sock[s] = "open" => A # {} \/ H # {} \/ S # {} \/ kept = s
    BY DEF Placed, Available, Handing, Range, Serving
  <2>8. Places(s) = {<<"available", i>> : i \in A} \cup {<<"handing", i>> : i \in H}
                      \cup {<<"serving", r>> : r \in S}
                      \cup (IF kept = s THEN {<<"kept", s>>} ELSE {})
    BY DEF Places
  <2> HIDE DEF A, H, S
  <2>9. sock[s] = "open" => Places(s) # {}
    BY <2>7, <2>8
  <2>10. \A x, y \in Places(s) : x = y
    BY <2>3, <2>4, <2>5, <2>6, <2>8
  <2> QED
    BY <2>9, <2>10
<1>2. Inv => OneUse
  BY <1>1 DEF OneUse
<1> QED
  BY <1>2, InvCorrect, PTL

\* createConnection() and _onClose(): no request is forgotten, none waits twice.
THEOREM QueueCorrect == Spec => []QueueKept
<1>1. Inv => QueueKept
  <2> SUFFICES ASSUME Inv PROVE QueueKept
    OBVIOUS
  <2> QED
    BY RangeTypes DEF Inv, QueueKept, Queues, NoRepeats, Distinct, Waiting
<1> QED
  BY <1>1, InvCorrect, PTL
=============================================================================
