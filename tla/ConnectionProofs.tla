-------------------------- MODULE ConnectionProofs --------------------------
(***************************************************************************)
(* Proofs about Connection for every set of messages and any number of     *)
(* connections: its types, and that reads are started and ended in step    *)
(* with connects.                                                          *)
(***************************************************************************)
EXTENDS Connection, SequenceTheorems, FiniteSetTheorems, TLAPS

USE ConnectionConstants

-----------------------------------------------------------------------------
(* Types. *)

LEMMA TypeInit == ASSUME Init PROVE TypeOK
<1>1. resolving \in Seq(MsgOrNone)
  BY DEF Init, NewServer, MsgOrNone
<1>2. attempt \in Seq(MsgOrNone) /\ wire \in Seq(Msgs)
  BY EmptySeq DEF Init, NewServer
<1>3. Len(attempt) = (IF sock = "connecting" THEN 1 ELSE 0)
  BY DEF Init, NewServer
<1>4. completed \in Seq([msg: MsgOrNone, ok: BOOLEAN])
  BY EmptySeq DEF Init, NewServer
<1>5. /\ connected \in BOOLEAN /\ joinable \in BOOLEAN /\ peerGone \in BOOLEAN
      /\ overlapped \in BOOLEAN /\ readFailed \in BOOLEAN
      /\ sock \in {"closed", "connecting", "up"}
  BY DEF Init, NewServer
<1>6. /\ readers \in Nat /\ gone \in 0..MaxGone
      /\ fault \in {"none", "read_buffer", "write_buffer"}
      /\ sent \in SUBSET Msgs /\ quiet \in SUBSET sent
      /\ lost \in SUBSET Msgs /\ unlucky \in SUBSET MsgOrNone
  BY DEF Init, NewServer
<1> QED
  BY <1>1, <1>2, <1>3, <1>4, <1>5, <1>6 DEF TypeOK

\* A queue of messages stays one when its head is taken off.
LEMMA HeadTail ==
  ASSUME resolving \in Seq(MsgOrNone), resolving # <<>>
  PROVE  Head(resolving) \in MsgOrNone /\ Tail(resolving) \in Seq(MsgOrNone)
OBVIOUS

LEMMA OnlyAttempt ==
  ASSUME attempt \in Seq(MsgOrNone), Len(attempt) = 1
  PROVE  attempt # <<>> /\ attempt[1] \in MsgOrNone
OBVIOUS

LEMMA CompletedHead ==
  ASSUME completed \in Seq([msg: MsgOrNone, ok: BOOLEAN]), completed # <<>>
  PROVE  /\ Head(completed) \in [msg: MsgOrNone, ok: BOOLEAN]
         /\ Tail(completed) \in Seq([msg: MsgOrNone, ok: BOOLEAN])
BY HeadTailProperties

\* What the handlers do with a message keeps the types of wire and lost.
LEMMA WriteTypes ==
  ASSUME TypeOK, NEW m \in Msgs, Write(m)
  PROVE  wire' \in Seq(Msgs) /\ lost' \in SUBSET Msgs
<1>1. CASE sock = "up"
  <2>1. wire' = Append(wire, m) /\ lost' = lost
    BY <1>1 DEF Write
  <2>2. lost \in SUBSET Msgs /\ wire \in Seq(Msgs)
    BY DEF TypeOK
  <2> QED
    BY <2>1, <2>2, AppendProperties
<1>2. CASE sock # "up"
  <2>1. wire' = wire /\ lost' = lost \cup ({m} \ {None})
    BY <1>2 DEF Write, Drop
  <2>2. lost \in SUBSET Msgs /\ wire \in Seq(Msgs)
    BY DEF TypeOK
  <2> QED
    BY <2>1, <2>2
<1> QED
  BY <1>1, <1>2

LEMMA DropTypes ==
  ASSUME TypeOK, NEW m \in MsgOrNone, Drop(m) PROVE lost' \in SUBSET Msgs
BY DEF TypeOK, Drop, MsgOrNone

LEMMA TypeNext == ASSUME TypeOK, [Next]_vars PROVE TypeOK'
<1> USE DEF TypeOK
<1>1. ASSUME NEW m \in Msgs, SendUnconnected(m) PROVE TypeOK'
  <2>1. resolving' \in Seq(MsgOrNone)
    BY <1>1 DEF SendUnconnected, MsgOrNone
  <2> QED
    BY <1>1, <2>1 DEF SendUnconnected
<1>2. ASSUME NEW m \in Msgs, SendConnected(m) PROVE TypeOK'
  <2>1. /\ wire' \in Seq(Msgs) /\ lost' \in SUBSET Msgs
        /\ fault' \in {"none", "read_buffer", "write_buffer"}
    BY <1>2, WriteTypes DEF SendConnected, WritePartly
  <2> QED
    BY <1>2, <2>1 DEF SendConnected
<1>3. CASE ResolveFails
  BY <1>3, HeadTail, DropTypes DEF ResolveFails
<1>4. CASE StartConnect
  BY <1>4, HeadTail DEF StartConnect
<1>5. ASSUME NEW ok \in BOOLEAN, ConnectAgain(ok) PROVE TypeOK'
  <2>1. completed' \in Seq([msg: MsgOrNone, ok: BOOLEAN])
    BY <1>5, HeadTail DEF ConnectAgain
  <2> QED
    BY <1>5, <2>1, HeadTail DEF ConnectAgain
<1>6. CASE ConnectHandler
  <2>1. /\ wire' \in Seq(Msgs) /\ lost' \in SUBSET Msgs
        /\ fault' \in {"none", "read_buffer", "write_buffer"}
    BY <1>6, CompletedHead, WriteTypes DEF ConnectHandler, RunCallback, WritePartly, MsgOrNone
  <2> QED
    BY <1>6, <2>1, CompletedHead DEF ConnectHandler
<1>7. CASE ConnectFailedHandler
  BY <1>7, CompletedHead, DropTypes DEF ConnectFailedHandler
<1>8. CASE ReadLine
  BY <1>8 DEF ReadLine
<1>9. CASE ReadEof
  BY <1>9 DEF ReadEof
<1>10. CASE ReadFails
  BY <1>10 DEF ReadFails
<1>11. CASE Established
  <2>1. attempt[1] \in MsgOrNone
    BY <1>11, OnlyAttempt DEF Established
  <2>2. completed' \in Seq([msg: MsgOrNone, ok: BOOLEAN])
    BY <1>11, <2>1, AppendProperties DEF Established
  <2>3. attempt' \in Seq(MsgOrNone) /\ Len(attempt') = (IF sock' = "connecting" THEN 1 ELSE 0)
    BY <1>11, EmptySeq DEF Established
  <2> QED
    BY <1>11, <2>2, <2>3 DEF Established
<1>12. CASE Refused
  <2>1. attempt[1] \in MsgOrNone
    BY <1>12, OnlyAttempt DEF Refused
  <2>2. completed' \in Seq([msg: MsgOrNone, ok: BOOLEAN])
    BY <1>12, <2>1, AppendProperties DEF Refused
  <2>3. attempt' \in Seq(MsgOrNone) /\ Len(attempt') = 0
    BY <1>12, EmptySeq DEF Refused
  <2> QED
    BY <1>12, <2>1, <2>2, <2>3 DEF Refused
<1>13. CASE PeerCloses
  BY <1>13 DEF PeerCloses
<1>14. CASE UNCHANGED vars
  BY <1>14 DEF vars
<1> QED
  BY <1>1, <1>2, <1>3, <1>4, <1>5, <1>6, <1>7, <1>8, <1>9, <1>10, <1>11, <1>12,
     <1>13, <1>14 DEF Next, Send, Resolved, Completed, Kernel, Read

\* Type correctness of a Server, its handlers and its socket.
THEOREM TypeCorrect == Spec => []TypeOK
<1>1. Init => TypeOK
  BY TypeInit
<1>2. TypeOK /\ [Next]_vars => TypeOK'
  BY TypeNext
<1> QED
  BY <1>1, <1>2, PTL DEF Spec

-----------------------------------------------------------------------------
(* Reads. *)

\* The connects that succeeded and whose handler has yet to start a read.
Started == {k \in DOMAIN completed : completed[k].ok}

\* As long as no connects overlap, an established socket has one read, pending or
\* to be started by the handler of its connect, and other sockets have none.
ReaderInv ==
  ~overlapped =>
    /\ readers <= 1
    /\ sock # "up" => readers = 0 /\ Started = {}
    /\ readers > 0 => Started = {}
    /\ \A j, k \in Started : j = k
    /\ fault # "read_buffer"

LEMMA ReaderStep ==
  ASSUME TypeOK, ReaderInv, [Next]_vars PROVE ReaderInv'
<1> USE DEF TypeOK, ReaderInv, Started
<1>1. ASSUME NEW m \in Msgs, Send(m) PROVE ReaderInv'
  BY <1>1 DEF Send, SendUnconnected, SendConnected, WritePartly
<1>2. CASE ResolveFails
  BY <1>2 DEF ResolveFails
<1>3. CASE StartConnect
  BY <1>3 DEF StartConnect
<1>4. ASSUME NEW ok \in BOOLEAN, ConnectAgain(ok) PROVE ReaderInv'
  BY <1>4 DEF ConnectAgain
<1>5. CASE ConnectHandler
  <2>1. completed' = Tail(completed) /\ 1 \in Started
    BY <1>5 DEF ConnectHandler
  <2>2. /\ readers' = readers + 1 /\ UNCHANGED <<sock, overlapped>>
        /\ fault' \in {fault, "write_buffer"}
    BY <1>5 DEF ConnectHandler, RunCallback, WritePartly
  <2>3. ~overlapped => Started' = {}
    BY <2>1, <2>2
  <2> QED
    BY <2>1, <2>2, <2>3
<1>6. CASE ConnectFailedHandler
  <2>1. completed' = Tail(completed) /\ completed # <<>>
    BY <1>6 DEF ConnectFailedHandler
  <2>2. \A k \in Started' : k + 1 \in Started
    BY <2>1
  <2> QED
    BY <1>6, <2>1, <2>2 DEF ConnectFailedHandler
<1>7. CASE ReadLine
  BY <1>7 DEF ReadLine
<1>8. CASE ReadEof
  BY <1>8 DEF ReadEof
<1>9. CASE ReadFails
  BY <1>9 DEF ReadFails
<1>10. CASE Established
  <2>1. ~overlapped => readers = 0 /\ Started = {}
    BY <1>10 DEF Established
  <2>2. ~overlapped => Started' = {Len(completed) + 1}
    BY <1>10, <2>1 DEF Established
  <2> QED
    BY <1>10, <2>1, <2>2 DEF Established
<1>11. CASE Refused
  <2>1. Started' = Started
    BY <1>11 DEF Refused
  <2> QED
    BY <1>11, <2>1 DEF Refused
<1>12. CASE PeerCloses
  BY <1>12 DEF PeerCloses
<1>13. CASE UNCHANGED vars
  BY <1>13 DEF vars
<1> QED
  BY <1>1, <1>2, <1>3, <1>4, <1>5, <1>6, <1>7, <1>8, <1>9, <1>10, <1>11, <1>12, <1>13
     DEF Next, Resolved, Completed, Kernel, Read

\* Server::do_read: as long as no two connects overlap, at most one read is
\* pending and the streambuf it uses is not freed under it.
THEOREM OneReaderIfOneConnectAlways == Spec => []OneReaderIfOneConnect
<1>1. Init => ReaderInv
  BY DEF Init, NewServer, ReaderInv, Started
<1>2. TypeOK /\ ReaderInv /\ [Next]_vars => ReaderInv'
  BY ReaderStep
<1>3. ReaderInv => OneReaderIfOneConnect
  BY DEF ReaderInv, OneReaderIfOneConnect
<1> QED
  BY <1>1, <1>2, <1>3, TypeCorrect, PTL DEF Spec

\* A server that counts as connected hears from its peer: no handler leaves it
\* without a read but the one of a read error it does not treat as an end.
THEOREM ConnectedServerReadsAlways == Spec => []ConnectedServerReads
<1>1. Init => ConnectedServerReads
  BY DEF Init, NewServer, ConnectedServerReads
<1>2. ASSUME TypeOK, ConnectedServerReads, [Next]_vars PROVE ConnectedServerReads'
  <2> USE DEF TypeOK, ConnectedServerReads
  <2>1. ASSUME NEW m \in Msgs, Send(m) PROVE ConnectedServerReads'
    BY <2>1, <1>2 DEF Send, SendUnconnected, SendConnected, WritePartly
  <2>2. CASE Resolved
    BY <2>2, <1>2 DEF Resolved, ResolveFails, StartConnect, ConnectAgain
  <2>3. CASE ConnectHandler
    BY <2>3, <1>2 DEF ConnectHandler
  <2>4. CASE ConnectFailedHandler
    BY <2>4, <1>2 DEF ConnectFailedHandler
  <2>5. CASE Kernel \/ PeerCloses
    BY <2>5, <1>2 DEF Kernel, Established, Refused, PeerCloses
  <2>6. CASE Read
    BY <2>6, <1>2 DEF Read, ReadLine, ReadEof, ReadFails
  <2>7. CASE UNCHANGED vars
    BY <2>7, <1>2 DEF vars
  <2> QED
    BY <1>2, <2>1, <2>2, <2>3, <2>4, <2>5, <2>6, <2>7 DEF Next, Completed
<1> QED
  BY <1>1, <1>2, TypeCorrect, PTL DEF Spec

-----------------------------------------------------------------------------
(* Recovery. *)

\* Where a message is between Send and its write.
Resolves(m) == \E k \in DOMAIN resolving : resolving[k] = m
Connects(m) == attempt # <<>> /\ attempt[1] = m
Completes(m) == \E k \in DOMAIN completed : completed[k].msg = m

\* A message that was not sent is nowhere.
FreshInv ==
  \A m \in Msgs \ sent : ~Resolves(m) /\ ~Connects(m) /\ ~Completes(m) /\ m \notin lost

\* The server's view of its socket lags behind by the connects whose handlers
\* have not run, and a server that is not connected reads nothing.
SocketInv ==
  /\ joinable => sock = "up"
  /\ sock = "up" => connected \/ Started # {}
  /\ ~connected => readers = 0

\* The way of a message that was sent when no connect was under way: the only
\* one to resolve, then the only one to connect, then the first whose connect
\* has succeeded, then written.
AtResolve(m) ==
  /\ resolving # <<>> /\ resolving[1] = m
  /\ \A k \in DOMAIN resolving : resolving[k] = m => k = 1
  /\ sock = "closed" /\ attempt = <<>> /\ completed = <<>> /\ ~connected

AtConnect(m) ==
  /\ sock = "connecting" /\ attempt[1] = m /\ ~connected
  /\ Started = {} /\ ~Resolves(m) /\ ~Completes(m)

AtHandler(m) ==
  /\ sock = "up" /\ ~connected /\ ~Resolves(m)
  /\ \E k \in DOMAIN completed :
       /\ completed[k].ok
       /\ \A j \in DOMAIN completed : completed[j].msg = m <=> j = k
       /\ \A j \in Started : k <= j

Settled(m) == ~Resolves(m) /\ ~Connects(m) /\ ~Completes(m)

OnItsWay(m) == AtResolve(m) \/ AtConnect(m) \/ AtHandler(m) \/ Settled(m)

QuietInv == \A m \in quiet \ unlucky : m \notin lost /\ OnItsWay(m)

\* What a function with one more argument is at the others.
LEMMA OneMore ==
  ASSUME NEW f, NEW s, NEW D, NEW n, DOMAIN f = D \cup {n}, \A k \in D : f[k] = s[k]
  PROVE  \A k \in DOMAIN f : k = n \/ (k \in D /\ f[k] = s[k])
OBVIOUS

\* A queue with an element more, and with its first element gone.
LEMMA Appended ==
  ASSUME NEW S, NEW s \in Seq(S), NEW x \in S
  PROVE  /\ DOMAIN Append(s, x) = DOMAIN s \cup {Len(s) + 1}
         /\ \A k \in DOMAIN s : Append(s, x)[k] = s[k] /\ k # Len(s) + 1 /\ k <= Len(s)
         /\ Append(s, x)[Len(s) + 1] = x
         /\ \A k \in DOMAIN Append(s, x) :
              k = Len(s) + 1 \/ (k \in DOMAIN s /\ Append(s, x)[k] = s[k])
<1>1. /\ DOMAIN Append(s, x) = DOMAIN s \cup {Len(s) + 1}
      /\ \A k \in DOMAIN s : Append(s, x)[k] = s[k] /\ k # Len(s) + 1 /\ k <= Len(s)
      /\ Append(s, x)[Len(s) + 1] = x
  OBVIOUS
<1> QED
  BY <1>1, OneMore

\* The handler of a connect is queued behind the others.
LEMMA ResultAppended ==
  ASSUME TypeOK, NEW x \in MsgOrNone, NEW ok \in BOOLEAN,
         completed' = Append(completed, [msg |-> x, ok |-> ok])
  PROVE  /\ DOMAIN completed' = DOMAIN completed \cup {Len(completed) + 1}
         /\ \A k \in DOMAIN completed :
              completed'[k] = completed[k] /\ k # Len(completed) + 1 /\ k <= Len(completed)
         /\ completed'[Len(completed) + 1] = [msg |-> x, ok |-> ok]
         /\ \A k \in DOMAIN completed' :
              k = Len(completed) + 1 \/ (k \in DOMAIN completed /\ completed'[k] = completed[k])
<1>1. [msg |-> x, ok |-> ok] \in [msg : MsgOrNone, ok : BOOLEAN]
  OBVIOUS
<1>2. completed \in Seq([msg : MsgOrNone, ok : BOOLEAN])
  BY DEF TypeOK
<1> DEFINE S == [msg : MsgOrNone, ok : BOOLEAN]
           y == [msg |-> x, ok |-> ok]
<1> HIDE DEF S, y
<1>3. completed' = Append(completed, y) /\ completed \in Seq(S) /\ y \in S
  BY <1>1, <1>2 DEF S, y
<1> QED
  BY <1>3, Appended DEF y

LEMMA Tailed ==
  ASSUME NEW S, NEW s \in Seq(S), s # <<>>
  PROVE  /\ Head(s) = s[1] /\ 1 \in DOMAIN s
         /\ \A k \in DOMAIN Tail(s) : k \in Nat /\ k + 1 \in DOMAIN s /\ Tail(s)[k] = s[k + 1]
         /\ \A k \in DOMAIN s : k # 1 => k - 1 \in DOMAIN Tail(s) /\ Tail(s)[k - 1] = s[k]
OBVIOUS

LEMMA FreshStep == ASSUME TypeOK, FreshInv, [Next]_vars PROVE FreshInv'
<1> USE DEF TypeOK, FreshInv, Resolves, Connects, Completes
<1>1. ASSUME NEW m \in Msgs, SendUnconnected(m) PROVE FreshInv'
  BY <1>1 DEF SendUnconnected
<1>2. ASSUME NEW m \in Msgs, SendConnected(m) PROVE FreshInv'
  BY <1>2 DEF SendConnected, WritePartly, Write, Drop
<1>3. CASE ResolveFails
  BY <1>3 DEF ResolveFails, Drop
<1>4. CASE StartConnect
  BY <1>4 DEF StartConnect
<1>5. ASSUME NEW ok \in BOOLEAN, ConnectAgain(ok) PROVE FreshInv'
  <2>1. /\ Head(resolving) \in MsgOrNone /\ \E k \in DOMAIN resolving : resolving[k] = Head(resolving)
        /\ \A k \in DOMAIN resolving' : k + 1 \in DOMAIN resolving /\ resolving'[k] = resolving[k + 1]
    BY <1>5, Tailed, HeadTail DEF ConnectAgain
  <2>2. \A k \in DOMAIN completed' :
          \/ k \in DOMAIN completed /\ completed'[k] = completed[k]
          \/ completed'[k].msg = Head(resolving)
    BY <1>5, <2>1, ResultAppended DEF ConnectAgain
  <2>3. UNCHANGED <<attempt, sent, lost>>
    BY <1>5 DEF ConnectAgain
  <2> QED
    BY <2>1, <2>2, <2>3
<1>6. CASE ConnectHandler
  BY <1>6 DEF ConnectHandler, RunCallback, WritePartly, Write, Drop
<1>7. CASE ConnectFailedHandler
  BY <1>7 DEF ConnectFailedHandler, Drop
<1>8. CASE Read
  BY <1>8 DEF Read, ReadLine, ReadEof, ReadFails
<1>9. CASE Kernel
  <2>1. attempt[1] \in MsgOrNone
    BY <1>9, OnlyAttempt DEF Kernel, Established, Refused
  <2>2. PICK ok \in BOOLEAN : completed' = Append(completed, [msg |-> attempt[1], ok |-> ok])
    BY <1>9 DEF Kernel, Established, Refused
  <2>3. \A k \in DOMAIN completed' :
          \/ k \in DOMAIN completed /\ completed'[k] = completed[k]
          \/ completed'[k].msg = attempt[1]
    BY <2>1, <2>2, Appended
  <2>4. attempt # <<>> /\ attempt' = <<>> /\ UNCHANGED <<resolving, sent, lost>>
    BY <1>9 DEF Kernel, Established, Refused
  <2> QED
    BY <2>3, <2>4
<1>10. CASE PeerCloses
  BY <1>10 DEF PeerCloses
<1>11. CASE UNCHANGED vars
  BY <1>11 DEF vars
<1> QED
  BY <1>1, <1>2, <1>3, <1>4, <1>5, <1>6, <1>7, <1>8, <1>9, <1>10, <1>11
     DEF Next, Send, Resolved, Completed

LEMMA SocketStep == ASSUME TypeOK, SocketInv, [Next]_vars PROVE SocketInv'
<1> USE DEF TypeOK, SocketInv, Started
<1>1. ASSUME NEW m \in Msgs, Send(m) PROVE SocketInv'
  BY <1>1 DEF Send, SendUnconnected, SendConnected, WritePartly
<1>2. CASE ResolveFails
  BY <1>2 DEF ResolveFails
<1>3. CASE StartConnect
  BY <1>3 DEF StartConnect
<1>4. ASSUME NEW ok \in BOOLEAN, ConnectAgain(ok) PROVE SocketInv'
  <2>1. \A k \in Started : k \in Started'
    BY <1>4, HeadTail, Appended DEF ConnectAgain
  <2> QED
    BY <1>4, <2>1 DEF ConnectAgain
<1>5. CASE ConnectHandler
  BY <1>5 DEF ConnectHandler
<1>6. CASE ConnectFailedHandler
  <2>1. \A k \in Started : k - 1 \in Started'
    BY <1>6 DEF ConnectFailedHandler
  <2> QED
    BY <1>6, <2>1 DEF ConnectFailedHandler
<1>7. CASE Read
  BY <1>7 DEF Read, ReadLine, ReadEof, ReadFails
<1>8. CASE Established
  <2>1. Len(completed) + 1 \in Started'
    BY <1>8 DEF Established
  <2> QED
    BY <1>8, <2>1 DEF Established
<1>9. CASE Refused
  BY <1>9 DEF Refused
<1>10. CASE PeerCloses
  BY <1>10 DEF PeerCloses
<1>11. CASE UNCHANGED vars
  BY <1>11 DEF vars
<1> QED
  BY <1>1, <1>2, <1>3, <1>4, <1>5, <1>6, <1>7, <1>8, <1>9, <1>10, <1>11
     DEF Next, Resolved, Completed, Kernel

LEMMA QuietStep ==
  ASSUME TypeOK, FreshInv, SocketInv, QuietInv, [Next]_vars PROVE QuietInv'
<1> SUFFICES ASSUME NEW m \in quiet', m \notin unlucky'
             PROVE  (m \notin lost /\ OnItsWay(m))'
  BY DEF QuietInv
<1>1. m \in Msgs /\ m # None
  BY TypeNext DEF TypeOK
<1> USE <1>1 DEF TypeOK, SocketInv, Started, Resolves, Connects, Completes, OnItsWay,
              AtResolve, AtConnect, AtHandler, Settled
<1>2. CASE m \notin quiet
  <2>1. SendUnconnected(m) /\ Idle
    BY <1>2 DEF Next, Send, SendUnconnected, SendConnected, WritePartly, Resolved, ResolveFails,
         StartConnect, ConnectAgain, Completed, ConnectHandler, ConnectFailedHandler, Kernel,
         Established, Refused, Read, ReadLine, ReadEof, ReadFails, PeerCloses, vars
  <2>2. sock = "closed" /\ m \notin lost
    BY <2>1 DEF SendUnconnected, Idle, FreshInv
  <2> QED
    BY <2>1, <2>2 DEF SendUnconnected, Idle
<1>3. CASE m \in quiet
  <2>1. m \notin lost /\ OnItsWay(m) /\ m \in sent
    BY <1>3 DEF QuietInv, Next, ResolveFails, Refused, Send, SendUnconnected, SendConnected,
         WritePartly, Resolved, StartConnect, ConnectAgain, Completed, ConnectHandler,
         ConnectFailedHandler, Kernel, Established, Read, ReadLine, ReadEof, ReadFails,
         PeerCloses, vars
  <2> USE <2>1
  <2>2. ASSUME NEW x \in Msgs, SendUnconnected(x) PROVE (m \notin lost /\ OnItsWay(m))'
    <3>1. x # m
      BY <2>2 DEF SendUnconnected
    <3>2. /\ DOMAIN resolving' = DOMAIN resolving \cup {Len(resolving) + 1}
          /\ \A k \in DOMAIN resolving : resolving'[k] = resolving[k]
          /\ resolving'[Len(resolving) + 1] = x
      <4>1. resolving' = Append(resolving, x) /\ resolving \in Seq(MsgOrNone) /\ x \in MsgOrNone
        BY <2>2 DEF SendUnconnected, MsgOrNone
      <4> QED
        BY <4>1, Appended
    <3>3. UNCHANGED <<connected, sock, attempt, completed, lost>>
      BY <2>2 DEF SendUnconnected
    <3>4. CASE AtResolve(m)
      BY <3>1, <3>2, <3>3, <3>4
    <3>5. CASE ~AtResolve(m)
      <4>1. ~Resolves(m)'
        BY <3>1, <3>2, <3>5
      <4> QED
        BY <3>3, <3>5, <4>1
    <3> QED
      BY <3>4, <3>5
  <2>3. ASSUME NEW x \in Msgs, SendConnected(x) PROVE (m \notin lost /\ OnItsWay(m))'
    BY <2>3 DEF SendConnected, WritePartly, Write, Drop
  <2>4. CASE ResolveFails
    <3>1. /\ Head(resolving) = resolving[1]
          /\ \A k \in DOMAIN resolving' :
               k \in Nat /\ k + 1 \in DOMAIN resolving /\ resolving'[k] = resolving[k + 1]
          /\ 1 \in DOMAIN resolving
      BY <2>4, Tailed DEF ResolveFails
    <3>2. resolving[1] # m
      BY <2>4, <3>1 DEF ResolveFails
    <3>3. ~AtResolve(m) /\ ~Resolves(m)'
      BY <3>1, <3>2
    <3>4. UNCHANGED <<connected, sock, attempt, completed>> /\ m \notin lost'
      BY <2>4, <3>1, <3>2 DEF ResolveFails, Drop
    <3> QED
      BY <3>3, <3>4
  <2>5. CASE StartConnect
    BY <2>5 DEF StartConnect
  <2>6. ASSUME NEW ok \in BOOLEAN, ConnectAgain(ok) PROVE (m \notin lost /\ OnItsWay(m))'
    <3>1. /\ Head(resolving) = resolving[1] /\ 1 \in DOMAIN resolving
          /\ Head(resolving) \in MsgOrNone
          /\ \A k \in DOMAIN resolving' :
               k \in Nat /\ k + 1 \in DOMAIN resolving /\ resolving'[k] = resolving[k + 1]
      BY <2>6, Tailed, HeadTail DEF ConnectAgain
    <3>2. ~AtResolve(m) /\ ~Resolves(m) /\ resolving[1] # m
      BY <2>6, <3>1 DEF ConnectAgain
    <3>3. /\ DOMAIN completed' = DOMAIN completed \cup {Len(completed) + 1}
          /\ \A k \in DOMAIN completed :
               completed'[k] = completed[k] /\ k # Len(completed) + 1 /\ k <= Len(completed)
          /\ completed'[Len(completed) + 1] = [msg |-> resolving[1], ok |-> ok]
      <4>1. completed' = Append(completed, [msg |-> resolving[1], ok |-> ok])
            /\ resolving[1] \in MsgOrNone
        BY <2>6, <3>1 DEF ConnectAgain
      <4> QED
        BY <4>1, ResultAppended
    <3>4. ~Resolves(m)' /\ UNCHANGED <<connected, sock, attempt, lost>>
      BY <2>6, <3>1, <3>2 DEF ConnectAgain
    <3>5. CASE AtConnect(m)
      <4>1. ~ok
        BY <2>6, <3>5 DEF ConnectAgain
      <4> QED
        BY <3>2, <3>3, <3>4, <3>5, <4>1
    <3>6. CASE AtHandler(m)
      <4>1. PICK k \in DOMAIN completed :
              /\ completed[k].ok
              /\ \A j \in DOMAIN completed : completed[j].msg = m <=> j = k
              /\ \A j \in Started : k <= j
        BY <3>6
      <4>2. k \in DOMAIN completed' /\ completed'[k] = completed[k]
        BY <3>3
      <4>3. \A j \in DOMAIN completed' : completed'[j].msg = m <=> j = k
        BY <3>2, <3>3, <4>1
      <4>4. \A j \in Started' : k <= j
        BY <3>3, <4>1
      <4> QED
        BY <3>4, <3>6, <4>1, <4>2, <4>3, <4>4
    <3>7. CASE Settled(m)
      BY <3>2, <3>3, <3>4, <3>7
    <3> QED
      BY <3>2, <3>5, <3>6, <3>7
  <2>7. CASE ConnectHandler
    <3>1. /\ completed # <<>> /\ Head(completed) = completed[1]
          /\ 1 \in Started
          /\ \A k \in DOMAIN completed' :
               k \in Nat /\ k # 0 /\ k + 1 \in DOMAIN completed /\ completed'[k] = completed[k + 1]
      BY <2>7, Tailed DEF ConnectHandler
    <3>2. UNCHANGED <<sock, resolving, attempt>>
      BY <2>7 DEF ConnectHandler
    <3>3. lost' = lost \/ (lost' = lost \cup {completed[1].msg} /\ sock # "up")
      BY <2>7, <3>1 DEF ConnectHandler, RunCallback, WritePartly, Write, Drop
    <3>4. CASE Settled(m)
      <4>1. completed[1].msg # m
        BY <3>1, <3>4
      <4>2. ~Completes(m)'
        BY <3>1, <3>4
      <4> QED
        BY <3>2, <3>3, <3>4, <4>1, <4>2
    <3>5. CASE AtHandler(m)
      <4>1. PICK k \in DOMAIN completed :
              /\ \A j \in DOMAIN completed : completed[j].msg = m <=> j = k
              /\ k <= 1
        BY <3>1, <3>5
      <4>2. k = 1
        BY <4>1
      <4>3. ~Completes(m)'
        BY <3>1, <4>1, <4>2
      <4>4. sock = "up" /\ attempt = <<>> /\ ~Resolves(m)
        BY <3>5
      <4> QED
        BY <3>2, <3>3, <4>3, <4>4
    <3> QED
      BY <3>1, <3>4, <3>5
  <2>8. CASE ConnectFailedHandler
    <3>1. /\ completed # <<>> /\ Head(completed) = completed[1]
          /\ 1 \in DOMAIN completed /\ DOMAIN completed \subseteq Nat /\ ~completed[1].ok
          /\ \A k \in DOMAIN completed' :
               k \in Nat /\ k + 1 \in DOMAIN completed /\ completed'[k] = completed[k + 1]
          /\ \A k \in DOMAIN completed : k # 1 =>
               k - 1 \in DOMAIN completed' /\ completed'[k - 1] = completed[k]
      BY <2>8, Tailed DEF ConnectFailedHandler
    <3>2. completed[1].msg # m
      BY <3>1
    <3>3. m \notin lost' /\ UNCHANGED <<connected, sock, attempt, resolving>>
      BY <2>8, <3>1, <3>2 DEF ConnectFailedHandler, Drop
    <3>4. CASE AtHandler(m)
      <4>1. PICK k \in DOMAIN completed :
              /\ completed[k].ok
              /\ \A j \in DOMAIN completed : completed[j].msg = m <=> j = k
              /\ \A j \in Started : k <= j
        BY <3>4
      <4>2. k - 1 \in DOMAIN completed' /\ completed'[k - 1] = completed[k]
        BY <3>1, <4>1
      <4>3. \A j \in DOMAIN completed' : completed'[j].msg = m <=> j = k - 1
        <5> TAKE j \in DOMAIN completed'
        <5>1. j \in Nat /\ j + 1 \in DOMAIN completed /\ completed'[j] = completed[j + 1]
          BY <3>1
        <5>2. k \in Nat /\ (completed[j + 1].msg = m <=> j + 1 = k)
          BY <3>1, <4>1, <5>1
        <5> QED
          BY <5>1, <5>2
      <4>4. \A j \in Started' : k - 1 <= j
        <5> TAKE j \in Started'
        <5>1. j \in Nat /\ j + 1 \in Started
          <6>1. j \in DOMAIN completed' /\ completed'[j].ok
            OBVIOUS
          <6>2. j \in Nat /\ j + 1 \in DOMAIN completed /\ completed[j + 1].ok
            BY <3>1, <6>1
          <6> QED
            BY <6>2
        <5>2. k \in Nat /\ k <= j + 1
          BY <3>1, <4>1, <5>1
        <5> QED
          BY <5>1, <5>2
      <4> QED
        BY <3>3, <3>4, <4>1, <4>2, <4>3, <4>4
    <3>5. CASE AtConnect(m) \/ Settled(m)
      <4>1. ~Completes(m)' /\ ~Resolves(m)'
        BY <3>1, <3>3, <3>5
      <4>2. CASE AtConnect(m)
        <5>1. ASSUME NEW j \in Started' PROVE FALSE
          <6>1. j \in DOMAIN completed' /\ completed'[j].ok
            BY <5>1
          <6>2. j + 1 \in DOMAIN completed /\ completed[j + 1].ok
            BY <3>1, <6>1
          <6> QED
            BY <4>2, <6>2
        <5> QED
          BY <3>3, <4>1, <4>2, <5>1
      <4>3. CASE Settled(m)
        BY <3>3, <4>1, <4>3
      <4> QED
        BY <3>5, <4>2, <4>3
    <3> QED
      BY <3>1, <3>3, <3>4, <3>5
  <2>9. CASE Read
    BY <2>9 DEF Read, ReadLine, ReadEof, ReadFails
  <2>10. CASE Established
    <3>1. attempt # <<>> /\ attempt[1] \in MsgOrNone /\ sock = "connecting"
      <4>1. sock = "connecting" /\ Len(attempt) = 1 /\ attempt \in Seq(MsgOrNone)
        BY <2>10 DEF Established
      <4> QED
        BY <4>1, OnlyAttempt
    <3>2. /\ DOMAIN completed' = DOMAIN completed \cup {Len(completed) + 1}
          /\ \A k \in DOMAIN completed :
               completed'[k] = completed[k] /\ k # Len(completed) + 1 /\ k <= Len(completed)
          /\ completed'[Len(completed) + 1] = [msg |-> attempt[1], ok |-> TRUE]
          /\ \A k \in DOMAIN completed' :
               k = Len(completed) + 1 \/ (k \in DOMAIN completed /\ completed'[k] = completed[k])
      BY <2>10, <3>1, ResultAppended DEF Established
    <3>3. sock' = "up" /\ attempt' = <<>> /\ UNCHANGED <<connected, resolving, lost>>
      BY <2>10 DEF Established
    <3>4. CASE AtConnect(m)
      <4> DEFINE k == Len(completed) + 1
      <4>1. k \in DOMAIN completed' /\ completed'[k].msg = m /\ completed'[k].ok /\ k \in Nat
        BY <3>2, <3>4
      <4> HIDE DEF k
      <4>2. \A j \in DOMAIN completed' : j = k \/ (j \in DOMAIN completed /\ completed'[j] = completed[j])
        BY <3>2 DEF k
      <4>3. \A j \in DOMAIN completed' : completed'[j].msg = m <=> j = k
        <5>1. \A j \in DOMAIN completed : completed[j].msg # m
          BY <3>4
        <5> QED
          BY <4>1, <4>2, <5>1
      <4>4. \A j \in Started' : k <= j
        BY <3>4, <4>1, <4>2
      <4> QED
        BY <3>3, <3>4, <4>1, <4>3, <4>4
    <3>5. CASE Settled(m)
      BY <3>1, <3>2, <3>3, <3>5
    <3> QED
      BY <3>1, <3>4, <3>5
  <2>11. CASE Refused
    BY <2>11 DEF Refused
  <2>12. CASE PeerCloses
    BY <2>12 DEF PeerCloses
  <2>13. CASE UNCHANGED vars
    BY <2>13 DEF vars
  <2> QED
    BY <2>2, <2>3, <2>4, <2>5, <2>6, <2>7, <2>8, <2>9, <2>10, <2>11, <2>12, <2>13
       DEF Next, Send, Resolved, Completed, Kernel
<1> QED
  BY <1>2, <1>3

\* Server::Connect: a message sent while no connect is under way starts one that
\* carries it, and is dropped only if its own resolve or connect fails, however
\* many connections the peer has ended before.
THEOREM QuietSendIsWrittenAlways == Spec => []QuietSendIsWritten
<1>1. Init => FreshInv /\ SocketInv /\ QuietInv
  BY DEF Init, NewServer, FreshInv, SocketInv, QuietInv, Resolves, Connects, Completes
<1>2. TypeOK /\ FreshInv /\ [Next]_vars => FreshInv'
  BY FreshStep
<1>3. TypeOK /\ SocketInv /\ [Next]_vars => SocketInv'
  BY SocketStep
<1>4. TypeOK /\ FreshInv /\ SocketInv /\ QuietInv /\ [Next]_vars => QuietInv'
  BY QuietStep
<1>5. QuietInv => QuietSendIsWritten
  BY DEF QuietInv, QuietSendIsWritten
<1> QED
  BY <1>1, <1>2, <1>3, <1>4, <1>5, TypeCorrect, PTL DEF Spec

-----------------------------------------------------------------------------
(* Every message in one place. *)

Waits(m) == Resolves(m) \/ Connects(m) \/ Completes(m)

\* No message is twice on its way.
Once(lines) ==
  \A j, k \in DOMAIN lines : lines[j].msg = lines[k].msg /\ lines[j].msg # None => j = k

\* A message that waits for a connection is with one handler, is sent and is not lost.
WaitInv ==
  /\ \A j, k \in DOMAIN resolving : resolving[j] = resolving[k] /\ resolving[j] # None => j = k
  /\ Once(completed)
  /\ lost \subseteq sent
  /\ \A m \in Msgs :
       /\ Waits(m) => m \in sent \ lost
       /\ Resolves(m) => ~Connects(m) /\ ~Completes(m)
       /\ Connects(m) => ~Completes(m)

\* The message a step of the server is about, if any, and what becomes of it: it
\* waits, or it is written, or it is lost.
Effect(x) ==
  /\ sent' = sent \cup ({x} \ {None})
  /\ x \in Msgs => x \notin sent \/ Waits(x)
  /\ \A m \in Msgs \ {x} : Waits(m)' <=> Waits(m)
  /\ \/ /\ UNCHANGED <<wire, lost>>
        /\ x \in Msgs => Waits(x)' \/ fault' = "write_buffer"
     \/ x \in Msgs /\ ~Waits(x)' /\ wire' = Append(wire, x) /\ lost' = lost
     \/ x \in Msgs /\ ~Waits(x)' /\ wire' = wire /\ lost' = lost \cup {x}

LEMMA ResolvingHead ==
  ASSUME TypeOK, WaitInv, resolving # <<>>, resolving' = Tail(resolving)
  PROVE  /\ Head(resolving) \in MsgOrNone
         /\ \A j, k \in DOMAIN resolving' :
              resolving'[j] = resolving'[k] /\ resolving'[j] # None => j = k
         /\ \A m \in Msgs : Resolves(m)' <=> Resolves(m) /\ m # Head(resolving)
         /\ Head(resolving) \in Msgs => Resolves(Head(resolving))
<1>1. Head(resolving) \in MsgOrNone
  BY HeadTail DEF TypeOK
<1>2. /\ Head(resolving) = resolving[1] /\ 1 \in DOMAIN resolving
      /\ \A k \in DOMAIN resolving' :
           k \in Nat /\ k + 1 \in DOMAIN resolving /\ resolving'[k] = resolving[k + 1]
      /\ \A k \in DOMAIN resolving : k # 1 =>
           k - 1 \in DOMAIN resolving' /\ resolving'[k - 1] = resolving[k]
  BY Tailed DEF TypeOK
<1>3. (\A k \in DOMAIN resolving : k \in Nat) /\ None \notin Msgs
  BY LenProperties DEF TypeOK
<1>4. \A j, k \in DOMAIN resolving' :
        resolving'[j] = resolving'[k] /\ resolving'[j] # None => j = k
  BY <1>2 DEF WaitInv
<1>5. ASSUME NEW m \in Msgs PROVE Resolves(m)' <=> Resolves(m) /\ m # Head(resolving)
  <2>1. ASSUME NEW k \in DOMAIN resolving', resolving'[k] = m PROVE Resolves(m) /\ m # Head(resolving)
    <3>1. k + 1 \in DOMAIN resolving /\ resolving[k + 1] = m /\ k + 1 # 1
      BY <1>2, <1>3, <2>1
    <3> QED
      BY <1>2, <1>3, <3>1 DEF WaitInv, Resolves
  <2>2. ASSUME NEW k \in DOMAIN resolving, resolving[k] = m, m # Head(resolving) PROVE Resolves(m)'
    BY <1>2, <2>2 DEF Resolves
  <2> QED
    BY <2>1, <2>2 DEF Resolves
<1>6. Head(resolving) \in Msgs => Resolves(Head(resolving))
  BY <1>2 DEF Resolves
<1> QED
  BY <1>1, <1>4, <1>5, <1>6

LEMMA CompletedMore ==
  ASSUME TypeOK, NEW x \in MsgOrNone, NEW ok \in BOOLEAN,
         completed' = Append(completed, [msg |-> x, ok |-> ok])
  PROVE  /\ \A m \in Msgs : Completes(m)' <=> Completes(m) \/ m = x
         /\ Once(completed) /\ (x \in Msgs => ~Completes(x)) => Once(completed')
<1>1. /\ DOMAIN completed' = DOMAIN completed \cup {Len(completed) + 1}
      /\ \A k \in DOMAIN completed : completed'[k] = completed[k] /\ k # Len(completed) + 1
      /\ completed'[Len(completed) + 1].msg = x
  BY Appended DEF TypeOK
<1>2. \A m \in Msgs : Completes(m)' <=> Completes(m) \/ m = x
  BY <1>1 DEF Completes
<1>3. Once(completed) /\ (x \in Msgs => ~Completes(x)) => Once(completed')
  BY <1>1 DEF Once, Completes, MsgOrNone
<1> QED
  BY <1>2, <1>3

LEMMA CompletedLess ==
  ASSUME TypeOK, WaitInv, completed # <<>>, completed' = Tail(completed)
  PROVE  /\ Head(completed).msg \in MsgOrNone
         /\ Once(completed')
         /\ \A m \in Msgs : Completes(m)' <=> Completes(m) /\ m # Head(completed).msg
         /\ Head(completed).msg \in Msgs => Completes(Head(completed).msg)
<1>1. Head(completed).msg \in MsgOrNone
  BY CompletedHead DEF TypeOK
<1>2. /\ Head(completed) = completed[1] /\ 1 \in DOMAIN completed
      /\ \A k \in DOMAIN completed' :
           k \in Nat /\ k + 1 \in DOMAIN completed /\ completed'[k] = completed[k + 1]
      /\ \A k \in DOMAIN completed : k # 1 =>
           k - 1 \in DOMAIN completed' /\ completed'[k - 1] = completed[k]
  BY Tailed DEF TypeOK
<1>3. (\A k \in DOMAIN completed : k \in Nat) /\ None \notin Msgs
  BY LenProperties DEF TypeOK
<1>4. Once(completed')
  BY <1>2 DEF WaitInv, Once
<1>5. ASSUME NEW m \in Msgs PROVE Completes(m)' <=> Completes(m) /\ m # Head(completed).msg
  <2>1. ASSUME NEW k \in DOMAIN completed', completed'[k].msg = m PROVE Completes(m) /\ m # Head(completed).msg
    <3>1. k + 1 \in DOMAIN completed /\ completed[k + 1].msg = m /\ k + 1 # 1
      BY <1>2, <1>3, <2>1
    <3> QED
      BY <1>2, <1>3, <3>1 DEF WaitInv, Once, Completes
  <2>2. ASSUME NEW k \in DOMAIN completed, completed[k].msg = m, m # Head(completed).msg PROVE Completes(m)'
    BY <1>2, <2>2 DEF Completes
  <2> QED
    BY <2>1, <2>2 DEF Completes
<1>6. Head(completed).msg \in Msgs => Completes(Head(completed).msg)
  BY <1>2 DEF Completes
<1> QED
  BY <1>1, <1>4, <1>5, <1>6

LEMMA SenderStep ==
  ASSUME TypeOK, WaitInv, [Next]_vars
  PROVE  WaitInv' /\ \E x \in MsgOrNone : Effect(x)
<1> USE DEF Waits
<1>1. ASSUME NEW x \in Msgs, SendUnconnected(x) PROVE WaitInv' /\ Effect(x)
  <2>1. /\ DOMAIN resolving' = DOMAIN resolving \cup {Len(resolving) + 1}
        /\ \A k \in DOMAIN resolving : resolving'[k] = resolving[k] /\ k # Len(resolving) + 1
        /\ resolving'[Len(resolving) + 1] = x
    BY <1>1, Appended DEF SendUnconnected, MsgOrNone, TypeOK
  <2>2. x \notin sent /\ ~Waits(x) /\ sent' = sent \cup {x} /\ x \notin lost
    BY <1>1 DEF SendUnconnected, WaitInv
  <2>3. UNCHANGED <<attempt, completed, wire, lost>>
    BY <1>1 DEF SendUnconnected
  <2>4. \A m \in Msgs : /\ Resolves(m)' <=> Resolves(m) \/ m = x
                        /\ Connects(m)' <=> Connects(m)
                        /\ Completes(m)' <=> Completes(m)
    BY <2>1, <2>3 DEF Resolves, Connects, Completes
  <2>5. \A j, k \in DOMAIN resolving' :
          resolving'[j] = resolving'[k] /\ resolving'[j] # None => j = k
    BY <2>1, <2>2 DEF WaitInv, Resolves
  <2>6. WaitInv'
    BY <2>2, <2>3, <2>4, <2>5 DEF WaitInv, Once
  <2> QED
    BY <2>2, <2>3, <2>4, <2>6 DEF Effect
<1>2. ASSUME NEW x \in Msgs, SendConnected(x) PROVE WaitInv' /\ Effect(x)
  <2>1. x \notin sent /\ ~Waits(x) /\ sent' = sent \cup {x}
    BY <1>2 DEF SendConnected, WritePartly, WaitInv
  <2>2. UNCHANGED <<resolving, attempt, completed>>
    BY <1>2 DEF SendConnected, WritePartly
  <2>3. \A m \in Msgs : /\ Resolves(m)' <=> Resolves(m)
                        /\ Connects(m)' <=> Connects(m)
                        /\ Completes(m)' <=> Completes(m)
    BY <2>2 DEF Resolves, Connects, Completes
  <2>4. \/ UNCHANGED <<wire, lost>> /\ fault' = "write_buffer"
        \/ wire' = Append(wire, x) /\ lost' = lost
        \/ wire' = wire /\ lost' = lost \cup {x}
    BY <1>2 DEF SendConnected, WritePartly, Write, Drop
  <2>5. WaitInv'
    BY <2>1, <2>2, <2>3, <2>4 DEF WaitInv, Once
  <2> QED
    BY <2>1, <2>3, <2>4, <2>5 DEF Effect
<1>3. CASE ResolveFails
  <2>0. PICK x : x = Head(resolving)
    OBVIOUS
  <2>1. /\ x \in MsgOrNone /\ (x \in Msgs => Resolves(x))
        /\ \A j, k \in DOMAIN resolving' :
             resolving'[j] = resolving'[k] /\ resolving'[j] # None => j = k
        /\ \A m \in Msgs : Resolves(m)' <=> Resolves(m) /\ m # x
    BY <1>3, <2>0, ResolvingHead DEF ResolveFails
  <2>2. UNCHANGED <<attempt, completed, wire, sent>> /\ lost' = lost \cup ({x} \ {None})
    BY <1>3, <2>0 DEF ResolveFails, Drop
  <2>3. \A m \in Msgs : (Connects(m)' <=> Connects(m)) /\ (Completes(m)' <=> Completes(m))
    BY <2>2 DEF Connects, Completes
  <2>4. x \in Msgs => x \in sent \ lost /\ ~Waits(x)'
    BY <2>1, <2>3 DEF WaitInv
  <2>5. WaitInv'
    BY <2>1, <2>2, <2>3, <2>4 DEF WaitInv, Once, MsgOrNone
  <2>6. Effect(x)
    BY <2>1, <2>2, <2>3, <2>4 DEF Effect, MsgOrNone
  <2> QED
    BY <2>1, <2>5, <2>6
<1>4. CASE StartConnect
  <2>0. PICK x : x = Head(resolving)
    OBVIOUS
  <2>1. /\ x \in MsgOrNone /\ (x \in Msgs => Resolves(x))
        /\ \A j, k \in DOMAIN resolving' :
             resolving'[j] = resolving'[k] /\ resolving'[j] # None => j = k
        /\ \A m \in Msgs : Resolves(m)' <=> Resolves(m) /\ m # x
    BY <1>4, <2>0, ResolvingHead DEF StartConnect
  <2>2. attempt' = <<x>> /\ attempt = <<>> /\ UNCHANGED <<completed, wire, sent, lost>>
    BY <1>4, <2>0 DEF StartConnect, TypeOK
  <2>3. \A m \in Msgs : /\ ~Connects(m) /\ (Connects(m)' <=> m = x)
                        /\ Completes(m)' <=> Completes(m)
    BY <2>2 DEF Connects, Completes
  <2>4. WaitInv'
    BY <2>1, <2>2, <2>3 DEF WaitInv, Once
  <2>5. Effect(None)
    BY <2>1, <2>2, <2>3 DEF Effect
  <2> QED
    BY <2>4, <2>5 DEF MsgOrNone
<1>5. ASSUME NEW ok \in BOOLEAN, ConnectAgain(ok) PROVE WaitInv' /\ Effect(None)
  <2>0. PICK x : x = Head(resolving)
    OBVIOUS
  <2>1. /\ x \in MsgOrNone /\ (x \in Msgs => Resolves(x))
        /\ \A j, k \in DOMAIN resolving' :
             resolving'[j] = resolving'[k] /\ resolving'[j] # None => j = k
        /\ \A m \in Msgs : Resolves(m)' <=> Resolves(m) /\ m # x
    BY <1>5, <2>0, ResolvingHead DEF ConnectAgain
  <2>2. /\ UNCHANGED <<attempt, wire, sent, lost>>
        /\ completed' = Append(completed, [msg |-> x, ok |-> ok])
    BY <1>5, <2>0 DEF ConnectAgain
  <2>3. /\ \A m \in Msgs : Completes(m)' <=> Completes(m) \/ m = x
        /\ Once(completed')
    BY <2>1, <2>2, CompletedMore DEF WaitInv
  <2>4. \A m \in Msgs : Connects(m)' <=> Connects(m)
    BY <2>2 DEF Connects
  <2>5. WaitInv'
    BY <2>1, <2>2, <2>3, <2>4 DEF WaitInv
  <2>6. Effect(None)
    BY <2>1, <2>2, <2>3, <2>4 DEF Effect
  <2> QED
    BY <2>5, <2>6
<1>6. CASE Completed
  <2>0. PICK x : x = Head(completed).msg
    OBVIOUS
  <2>1. /\ x \in MsgOrNone /\ (x \in Msgs => Completes(x))
        /\ Once(completed')
        /\ \A m \in Msgs : Completes(m)' <=> Completes(m) /\ m # x
    BY <1>6, <2>0, CompletedLess DEF Completed, ConnectHandler, ConnectFailedHandler
  <2>2. UNCHANGED <<attempt, resolving, sent>>
    BY <1>6, <2>0 DEF Completed, ConnectHandler, ConnectFailedHandler
  <2>3. \/ UNCHANGED <<wire, lost>> /\ (x \in Msgs => fault' = "write_buffer")
        \/ x \in Msgs /\ wire' = Append(wire, x) /\ lost' = lost
        \/ x \in Msgs /\ wire' = wire /\ lost' = lost \cup {x}
    BY <1>6, <2>0, <2>1 DEF Completed, ConnectHandler, ConnectFailedHandler,
         RunCallback, WritePartly, Write, Drop, MsgOrNone
  <2>4. \A m \in Msgs : (Resolves(m)' <=> Resolves(m)) /\ (Connects(m)' <=> Connects(m))
    BY <2>2 DEF Resolves, Connects
  <2>5. x \in Msgs => x \in sent \ lost /\ ~Waits(x)'
    BY <2>1, <2>4 DEF WaitInv
  <2>6. WaitInv'
    BY <2>1, <2>2, <2>3, <2>4, <2>5 DEF WaitInv
  <2>7. Effect(x)
    BY <2>1, <2>2, <2>3, <2>4, <2>5 DEF Effect, MsgOrNone
  <2> QED
    BY <2>1, <2>6, <2>7
<1>7. CASE Kernel
  <2>0. PICK x : x = attempt[1]
    OBVIOUS
  <2>1. x \in MsgOrNone /\ attempt # <<>>
    BY <1>7, <2>0, OnlyAttempt DEF Kernel, Established, Refused, TypeOK
  <2>2. PICK ok \in BOOLEAN : completed' = Append(completed, [msg |-> x, ok |-> ok])
    BY <1>7, <2>0 DEF Kernel, Established, Refused
  <2>3. attempt' = <<>> /\ UNCHANGED <<resolving, wire, sent, lost>>
    BY <1>7, <2>0 DEF Kernel, Established, Refused
  <2>4. \A m \in Msgs : /\ Resolves(m)' <=> Resolves(m)
                        /\ ~Connects(m)' /\ (Connects(m) <=> m = x)
    BY <2>0, <2>1, <2>3 DEF Resolves, Connects
  <2>5. /\ \A m \in Msgs : Completes(m)' <=> Completes(m) \/ m = x
        /\ Once(completed')
    BY <2>1, <2>2, <2>4, CompletedMore DEF WaitInv
  <2>6. WaitInv'
    BY <2>3, <2>4, <2>5 DEF WaitInv
  <2>7. Effect(None)
    BY <2>3, <2>4, <2>5 DEF Effect
  <2> QED
    BY <2>6, <2>7 DEF MsgOrNone
<1>8. CASE Read \/ PeerCloses \/ UNCHANGED vars
  <2>1. UNCHANGED <<resolving, attempt, completed, sent, wire, lost>>
    BY <1>8 DEF Read, ReadLine, ReadEof, ReadFails, PeerCloses, vars
  <2>2. \A m \in Msgs : /\ Resolves(m)' <=> Resolves(m)
                        /\ Connects(m)' <=> Connects(m)
                        /\ Completes(m)' <=> Completes(m)
    BY <2>1 DEF Resolves, Connects, Completes
  <2>3. WaitInv'
    BY <2>1, <2>2 DEF WaitInv, Once
  <2>4. Effect(None)
    BY <2>1, <2>2 DEF Effect
  <2> QED
    BY <2>3, <2>4 DEF MsgOrNone
<1> QED
  BY <1>1, <1>2, <1>3, <1>4, <1>5, <1>6, <1>7, <1>8 DEF Next, Send, Resolved, MsgOrNone

Written(m) == \E k \in DOMAIN wire : wire[k] = m

\* A message is written once, and then it neither waits nor is it lost; one that was
\* sent is waiting, written or lost, unless its write read a buffer that was freed.
WireInv ==
  /\ \A j, k \in DOMAIN wire : wire[j] = wire[k] => j = k
  /\ \A m \in Msgs : Written(m) => m \in sent \ lost /\ ~Waits(m)
  /\ fault # "write_buffer" => \A m \in sent : Waits(m) \/ Written(m) \/ m \in lost

LEMMA WireStep ==
  ASSUME TypeOK, WaitInv, WireInv, [Next]_vars PROVE WireInv'
<1>1. PICK x \in MsgOrNone : Effect(x)
  BY SenderStep
<1>2. fault' # "write_buffer" => fault # "write_buffer"
  BY DEF Next, vars
<1>3. x \in Msgs => ~Written(x) /\ x \notin lost
  BY <1>1 DEF Effect, WireInv, WaitInv
<1>4. sent \subseteq Msgs
  BY DEF TypeOK
<1>5. CASE UNCHANGED <<wire, lost>>
  <2>1. \A m : Written(m)' <=> Written(m)
    BY <1>5 DEF Written
  <2>2. x \in Msgs => Waits(x)' \/ fault' = "write_buffer"
    BY <1>1, <1>5 DEF Effect, WireInv, WaitInv
  <2>3. \A m \in Msgs : Written(m)' => m \in sent' \ lost' /\ ~Waits(m)'
    BY <1>1, <1>3, <1>5, <2>1 DEF Effect, WireInv
  <2>4. fault' # "write_buffer" => \A m \in sent' : Waits(m)' \/ Written(m)' \/ m \in lost'
    <3> SUFFICES ASSUME fault' # "write_buffer", NEW m \in sent'
                 PROVE  Waits(m)' \/ Written(m)' \/ m \in lost'
      OBVIOUS
    <3>1. CASE m = x
      BY <1>1, <1>4, <2>2, <3>1 DEF Effect, MsgOrNone
    <3>2. CASE m # x
      <4>1. m \in sent /\ m \in Msgs /\ (Waits(m)' <=> Waits(m))
        BY <1>1, <1>4, <3>2 DEF Effect
      <4> QED
        BY <1>2, <1>5, <2>1, <4>1 DEF WireInv
    <3> QED
      BY <3>1, <3>2
  <2>5. \A j, k \in DOMAIN wire' : wire'[j] = wire'[k] => j = k
    BY <1>5 DEF WireInv
  <2> QED
    BY <2>3, <2>4, <2>5 DEF WireInv
<1>6. CASE x \in Msgs /\ ~Waits(x)' /\ wire' = Append(wire, x) /\ lost' = lost
  <2>1. /\ DOMAIN wire' = DOMAIN wire \cup {Len(wire) + 1}
        /\ \A k \in DOMAIN wire : wire'[k] = wire[k] /\ k # Len(wire) + 1
        /\ wire'[Len(wire) + 1] = x
    BY <1>6, Appended DEF TypeOK
  <2>2. \A m : Written(m)' <=> Written(m) \/ m = x
    BY <2>1 DEF Written
  <2>3. \A j, k \in DOMAIN wire' : wire'[j] = wire'[k] => j = k
    BY <1>3, <1>6, <2>1 DEF WireInv, Written
  <2>4. \A m \in Msgs : Written(m)' => m \in sent' \ lost' /\ ~Waits(m)'
    BY <1>1, <1>3, <1>6, <2>2 DEF Effect, WireInv
  <2>5. fault' # "write_buffer" => \A m \in sent' : Waits(m)' \/ Written(m)' \/ m \in lost'
    BY <1>1, <1>2, <1>4, <1>6, <2>2 DEF Effect, WireInv
  <2> QED
    BY <2>3, <2>4, <2>5 DEF WireInv
<1>7. CASE x \in Msgs /\ ~Waits(x)' /\ wire' = wire /\ lost' = lost \cup {x}
  <2>1. \A m : Written(m)' <=> Written(m)
    BY <1>7 DEF Written
  <2> QED
    BY <1>1, <1>2, <1>3, <1>4, <1>7, <2>1 DEF Effect, WireInv
<1> QED
  BY <1>1, <1>5, <1>6, <1>7 DEF Effect

\* How many there are of what there is at most one of.
LEMMA AtMostOne ==
  ASSUME NEW S, \A j, k \in S : j = k
  PROVE  Cardinality(S) = IF S = {} THEN 0 ELSE 1
<1>1. CASE S = {}
  BY <1>1, FS_EmptySet
<1>2. CASE S # {}
  <2>1. PICK j \in S : S = {j}
    BY <1>2
  <2> QED
    BY <2>1, FS_Singleton
<1> QED
  BY <1>1, <1>2

\* Where a message is, as numbers.
LEMMA PlaceNumbers ==
  ASSUME TypeOK, WaitInv, WireInv, NEW m \in Msgs
  PROVE  /\ Occurrences(resolving, m) = IF Resolves(m) THEN 1 ELSE 0
         /\ Occurrences(attempt, m) = IF Connects(m) THEN 1 ELSE 0
         /\ Occurrences(wire, m) = IF Written(m) THEN 1 ELSE 0
         /\ Cardinality({k \in DOMAIN completed : completed[k].msg = m})
              = IF Completes(m) THEN 1 ELSE 0
<1>0. m # None
  OBVIOUS
<1>1. Occurrences(resolving, m) = IF Resolves(m) THEN 1 ELSE 0
  BY <1>0, AtMostOne DEF Occurrences, Resolves, WaitInv
<1>2. Occurrences(attempt, m) = IF Connects(m) THEN 1 ELSE 0
  <2>1. DOMAIN attempt = IF sock = "connecting" THEN {1} ELSE {}
    BY DEF TypeOK
  <2>2. attempt # <<>> <=> sock = "connecting"
    <3>1. attempt \in Seq(MsgOrNone) /\ Len(attempt) = (IF sock = "connecting" THEN 1 ELSE 0)
      BY DEF TypeOK
    <3>2. attempt = <<>> <=> Len(attempt) = 0
      BY <3>1, EmptySeq
    <3> QED
      BY <3>1, <3>2
  <2> QED
    BY <2>1, <2>2, AtMostOne DEF Occurrences, Connects
<1>3. Occurrences(wire, m) = IF Written(m) THEN 1 ELSE 0
  BY AtMostOne DEF Occurrences, Written, WireInv
<1>4. Cardinality({k \in DOMAIN completed : completed[k].msg = m})
        = IF Completes(m) THEN 1 ELSE 0
  BY <1>0, AtMostOne DEF Completes, WaitInv, Once
<1> QED
  BY <1>1, <1>2, <1>3, <1>4

\* Server: every message given to Send waits, was written once or was dropped with
\* a trace, and only one of these, as long as no write has read a freed buffer.
THEOREM MessageAccountedAlways == Spec => [](WaitInv /\ WireInv /\ MessageAccounted)
<1>1. Init => WaitInv /\ WireInv
  BY DEF Init, NewServer, WaitInv, WireInv, Once, Waits, Resolves, Connects, Completes, Written
<1>2. TypeOK /\ WaitInv /\ WireInv /\ [Next]_vars => WaitInv' /\ WireInv'
  BY SenderStep, WireStep
<1>3. TypeOK /\ WaitInv /\ WireInv => MessageAccounted
  <2> SUFFICES ASSUME TypeOK, WaitInv, WireInv, fault # "write_buffer", NEW m \in Msgs
               PROVE  Places(m) = IF m \in sent THEN 1 ELSE 0
    BY DEF MessageAccounted
  <2>1. /\ m \in sent <=> Waits(m) \/ Written(m) \/ m \in lost
        /\ ~(Waits(m) /\ Written(m)) /\ ~(Waits(m) /\ m \in lost) /\ ~(Written(m) /\ m \in lost)
        /\ Resolves(m) => ~Connects(m) /\ ~Completes(m)
        /\ Connects(m) => ~Completes(m)
    BY DEF WaitInv, WireInv
  <2> QED
    BY <2>1, PlaceNumbers DEF Places, Waits
<1> QED
  BY <1>1, <1>2, <1>3, TypeCorrect, PTL DEF Spec
=============================================================================
