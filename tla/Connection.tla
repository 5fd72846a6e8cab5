----------------------------- MODULE Connection -----------------------------
(***************************************************************************)
(* One Server object: the connection calls are sent over.  Connect starts  *)
(* an asynchronous resolve whose handler starts an asynchronous connect on *)
(* the object's one socket; Send on an unconnected server is a Connect     *)
(* whose success sends the message.  Nothing stops a second Connect from   *)
(* starting while the first is under way: what the kernel then says of the *)
(* socket decides the message's fate.                                      *)
(*                                                                         *)
(* resolving and completed are what the object's io_service has queued;    *)
(* every handler is one action.  The network's actions are those of the    *)
(* resolver, of the kernel's socket and of the peer.                       *)
(***************************************************************************)
EXTENDS Naturals, Sequences, FiniteSets

CONSTANTS
  Msgs,    \* messages, each given to Send once
  Faults,  \* whether the name service and the network may fail
  MaxGone, \* bound: connections that the peer ends
  None     \* a Connect without a callback

ASSUME ConnectionConstants ==
  /\ None \notin Msgs
  /\ Faults \in BOOLEAN
  /\ MaxGone \in Nat

VARIABLES
  connected,  \* Server::connected
  resolving,  \* pending resolves, in order: the message of each, or None
  sock,       \* the kernel's socket
  attempt,    \* the connect in progress: <<its message or None>>, or <<>>
  joinable,   \* connect() on the established socket would still return 0
  completed,  \* connects that are over and whose handlers have not run
  readers,    \* do_read operations pending
  peerGone,   \* the peer of the established socket has ended the connection
  gone,       \* how often it has
  fault,      \* the first use of a freed buffer
  sent,       \* history: messages given to Send
  quiet,      \* history: those sent unconnected and with no connect under way
  wire,       \* history: messages written to a socket, in order
  lost,       \* history: messages dropped with a log line or without
  overlapped, \* history: a connect was started on a socket not closed
  readFailed, \* history: a read ended with an error other than eof or reset
  unlucky     \* history: messages whose own resolve or connect failed

vars == <<connected, resolving, sock, attempt, joinable, completed, readers,
          peerGone, gone, fault, sent, quiet, wire, lost, overlapped, readFailed, unlucky>>

MsgOrNone == Msgs \cup {None}

TypeOK ==
  /\ connected \in BOOLEAN /\ joinable \in BOOLEAN /\ peerGone \in BOOLEAN
  /\ overlapped \in BOOLEAN /\ readFailed \in BOOLEAN
  /\ resolving \in Seq(MsgOrNone)
  /\ sock \in {"closed", "connecting", "up"}
  /\ attempt \in Seq(MsgOrNone) /\ Len(attempt) = (IF sock = "connecting" THEN 1 ELSE 0)
  /\ completed \in Seq([msg: MsgOrNone, ok: BOOLEAN])
  /\ readers \in Nat
  /\ gone \in 0..MaxGone
  /\ fault \in {"none", "read_buffer", "write_buffer"}
  /\ sent \in SUBSET Msgs
  /\ quiet \in SUBSET sent
  /\ wire \in Seq(Msgs)
  /\ lost \in SUBSET Msgs
  /\ unlucky \in SUBSET MsgOrNone

\* A Server as its constructor leaves it: unconnected, with a socket not opened.
NewServer ==
  /\ connected = FALSE
  /\ sock = "closed"
  /\ attempt = <<>>
  /\ completed = <<>>
  /\ readers = 0

\* Both places that create a Server call Connect(nullptr) at once.
Init ==
  /\ NewServer
  /\ resolving = <<None>>
  /\ joinable = FALSE
  /\ peerGone = FALSE
  /\ gone = 0
  /\ fault = "none"
  /\ sent = {}
  /\ quiet = {}
  /\ wire = <<>>
  /\ lost = {}
  /\ overlapped = FALSE
  /\ readFailed = FALSE
  /\ unlucky = {}

-----------------------------------------------------------------------------
Drop(m) == lost' = lost \cup ({m} \ {None})

\* async_write: on a socket that is not open it fails and is logged.
Write(m) ==
  IF sock = "up"
  THEN wire' = Append(wire, m) /\ UNCHANGED lost
  ELSE Drop(m) /\ UNCHANGED wire

Idle == resolving = <<>> /\ attempt = <<>> /\ completed = <<>>

\* Server::Send on a server that is not connected.
SendUnconnected(m) ==
  /\ m \notin sent
  /\ ~connected
  /\ sent' = sent \cup {m}
  /\ quiet' = IF Idle THEN quiet \cup {m} ELSE quiet
  /\ resolving' = Append(resolving, m)
  /\ UNCHANGED <<connected, sock, attempt, joinable, completed, readers, peerGone,
                 gone, fault, wire, lost, overlapped, readFailed, unlucky>>

\* The kernel takes only a part of a message.  The rest is read from `body`, a
\* local variable of a Send that has returned.
WritePartly ==
  /\ Faults
  /\ sock = "up"
  /\ fault' = "write_buffer"
  /\ UNCHANGED <<wire, lost>>

\* Server::Send on a connected one.
SendConnected(m) ==
  /\ m \notin sent
  /\ connected
  /\ sent' = sent \cup {m}
  /\ (Write(m) /\ UNCHANGED fault) \/ WritePartly
  /\ UNCHANGED <<connected, resolving, sock, attempt, joinable, completed, readers,
                 peerGone, gone, quiet, overlapped, readFailed, unlucky>>

-----------------------------------------------------------------------------
(* The handlers of Connect. *)

\* The name does not resolve: logged, and the message is gone.
ResolveFails ==
  /\ Faults
  /\ resolving # <<>>
  /\ Drop(Head(resolving))
  /\ resolving' = Tail(resolving)
  /\ unlucky' = unlucky \cup {Head(resolving)}
  /\ UNCHANGED <<connected, sock, attempt, joinable, completed, readers, peerGone,
                 gone, fault, sent, quiet, wire, overlapped, readFailed>>

\* async_connect on a socket that is closed, or whose last connect failed.
StartConnect ==
  /\ resolving # <<>>
  /\ sock = "closed"
  /\ sock' = "connecting"
  /\ attempt' = <<Head(resolving)>>
  /\ resolving' = Tail(resolving)
  /\ UNCHANGED <<connected, joinable, completed, readers, peerGone, gone, fault,
                 sent, quiet, wire, lost, overlapped, readFailed, unlucky>>

\* async_connect on a socket in use is over at once: with EALREADY while the
\* first connect is in progress, and once it is established with EISCONN, or
\* with success if no connect() has returned 0 for it yet.
ConnectAgain(ok) ==
  /\ resolving # <<>>
  /\ sock # "closed"
  /\ ok => joinable
  /\ joinable' = (joinable /\ ~ok)
  /\ completed' = Append(completed, [msg |-> Head(resolving), ok |-> ok])
  /\ resolving' = Tail(resolving)
  /\ overlapped' = TRUE
  /\ UNCHANGED <<connected, sock, attempt, readers, peerGone, gone, fault, sent, quiet,
                 wire, lost, readFailed, unlucky>>

\* `if(callback) callback()`: the message that waited is sent.
RunCallback(m) ==
  \/ m = None /\ UNCHANGED <<wire, lost, fault>>
  \/ m # None /\ Write(m) /\ UNCHANGED fault
  \/ m # None /\ WritePartly

ConnectHandler_Deaf ==  \* mutant: do_read is only called when there is no callback
  /\ completed # <<>>
  /\ Head(completed).ok
  /\ connected' = TRUE
  /\ RunCallback(Head(completed).msg)
  /\ readers' = IF Head(completed).msg = None THEN readers + 1 ELSE readers
  /\ completed' = Tail(completed)
  /\ UNCHANGED <<resolving, sock, attempt, joinable, peerGone, gone, sent, quiet,
                 overlapped, readFailed, unlucky>>

\* The handler of a connect that succeeded: the message is written, and a read
\* is started.
ConnectHandler ==
  /\ completed # <<>>
  /\ Head(completed).ok
  /\ connected' = TRUE
  /\ RunCallback(Head(completed).msg)
  /\ readers' = readers + 1
  /\ completed' = Tail(completed)
  /\ UNCHANGED <<resolving, sock, attempt, joinable, peerGone, gone, sent, quiet,
                 overlapped, readFailed, unlucky>>

ConnectFailedHandler_Forgets ==  \* mutant: no trace of the message is left
  /\ completed # <<>>
  /\ ~Head(completed).ok
  /\ completed' = Tail(completed)
  /\ UNCHANGED <<connected, resolving, sock, attempt, joinable, readers, peerGone,
                 gone, fault, sent, quiet, wire, lost, overlapped, readFailed, unlucky>>

\* The handler of one that failed: logged, and the message is gone.
ConnectFailedHandler ==
  /\ completed # <<>>
  /\ ~Head(completed).ok
  /\ Drop(Head(completed).msg)
  /\ completed' = Tail(completed)
  /\ UNCHANGED <<connected, resolving, sock, attempt, joinable, readers, peerGone,
                 gone, fault, sent, quiet, wire, overlapped, readFailed, unlucky>>

-----------------------------------------------------------------------------
(* The handler of do_read. *)

\* A line: it goes to HandleReply, the streambuf is replaced and the next read
\* is started.  A second read was using the streambuf that is freed here.
ReadLine ==
  /\ readers > 0
  /\ sock = "up"
  /\ wire # <<>>
  /\ fault' = IF readers > 1 THEN "read_buffer" ELSE fault
  /\ UNCHANGED <<connected, resolving, sock, attempt, joinable, completed, readers,
                 peerGone, gone, sent, quiet, wire, lost, overlapped, readFailed, unlucky>>

ReadEof_NotClosed ==  \* mutant: the socket is not closed
  /\ readers > 0
  /\ sock = "up"
  /\ peerGone
  /\ connected' = FALSE
  /\ readers' = readers - 1
  /\ UNCHANGED <<resolving, sock, attempt, joinable, completed, peerGone, gone, fault,
                 sent, quiet, wire, lost, overlapped, readFailed, unlucky>>

ReadEof_ReadsOn ==  \* mutant: do_read is called again after the error as well
  /\ readers > 0
  /\ sock = "up"
  /\ peerGone
  /\ connected' = FALSE
  /\ sock' = "closed"
  /\ joinable' = FALSE
  /\ peerGone' = FALSE
  /\ UNCHANGED <<resolving, attempt, completed, readers, gone, fault, sent, quiet, wire, lost,
                 overlapped, readFailed, unlucky>>

\* eof or connection_reset: the socket is closed, which ends any other read.
ReadEof ==
  /\ readers > 0
  /\ sock = "up"
  /\ peerGone
  /\ connected' = FALSE
  /\ sock' = "closed"
  /\ joinable' = FALSE
  /\ peerGone' = FALSE
  /\ readers' = 0
  /\ UNCHANGED <<resolving, attempt, completed, gone, fault, sent, quiet, wire, lost,
                 overlapped, readFailed, unlucky>>

\* Any other error, such as a time-out or a read on a closed socket, is logged;
\* the server stays connected and nothing reads from it.
ReadFails ==
  /\ readers > 0
  /\ sock = "closed" \/ (sock = "up" /\ Faults /\ ~peerGone)
  /\ readers' = readers - 1
  /\ readFailed' = TRUE
  /\ UNCHANGED <<connected, resolving, sock, attempt, joinable, completed, peerGone,
                 gone, fault, sent, quiet, wire, lost, overlapped, unlucky>>

-----------------------------------------------------------------------------
(* The kernel and the peer. *)

Established ==
  /\ sock = "connecting"
  /\ sock' = "up"
  /\ joinable' = TRUE
  /\ peerGone' = FALSE
  /\ completed' = Append(completed, [msg |-> attempt[1], ok |-> TRUE])
  /\ attempt' = <<>>
  /\ UNCHANGED <<connected, resolving, readers, gone, fault, sent, quiet, wire, lost,
                 overlapped, readFailed, unlucky>>

Refused ==
  /\ Faults
  /\ sock = "connecting"
  /\ sock' = "closed"
  /\ completed' = Append(completed, [msg |-> attempt[1], ok |-> FALSE])
  /\ attempt' = <<>>
  /\ unlucky' = unlucky \cup {attempt[1]}
  /\ UNCHANGED <<connected, resolving, joinable, readers, peerGone, gone, fault,
                 sent, quiet, wire, lost, overlapped, readFailed>>

PeerCloses ==
  /\ sock = "up"
  /\ ~peerGone
  /\ gone < MaxGone
  /\ peerGone' = TRUE
  /\ gone' = gone + 1
  /\ UNCHANGED <<connected, resolving, sock, attempt, joinable, completed, readers,
                 fault, sent, quiet, wire, lost, overlapped, readFailed, unlucky>>

-----------------------------------------------------------------------------
Send(m) == SendUnconnected(m) \/ SendConnected(m)

Resolved == ResolveFails \/ StartConnect \/ \E ok \in BOOLEAN : ConnectAgain(ok)

Completed == ConnectHandler \/ ConnectFailedHandler

Kernel == Established \/ Refused

Read == ReadLine \/ ReadEof \/ ReadFails

Next ==
  /\ fault = "none"
  /\ (\E m \in Msgs : Send(m)) \/ Resolved \/ Completed \/ Kernel \/ Read \/ PeerCloses

Spec == Init /\ [][Next]_vars

-----------------------------------------------------------------------------
(* Properties. *)

Occurrences(seq, x) == Cardinality({k \in DOMAIN seq : seq[k] = x})

Places(m) ==
  Occurrences(resolving, m) + Occurrences(attempt, m) + Occurrences(wire, m)
  + Cardinality({k \in DOMAIN completed : completed[k].msg = m})
  + (IF m \in lost THEN 1 ELSE 0)

\* However connects overlap, fail and are repeated, a message given to Send is
\* written at most once, is never both written and dropped, and does not
\* vanish without the log line of the step that dropped it.
MessageAccounted ==
  fault # "write_buffer" => \A m \in Msgs : Places(m) = IF m \in sent THEN 1 ELSE 0

\* As long as no two connects overlap there is one pending read, and its buffer
\* is not freed under it.
OneReaderIfOneConnect == ~overlapped => readers <= 1 /\ fault # "read_buffer"

\* A server that counts as connected has a read pending: it will see replies
\* and the end of the connection, unless a read has failed in another way.
ConnectedServerReads == connected /\ readers = 0 => readFailed

\* The server recovers: however often the peer has ended the connection, a
\* message sent while no connect is under way starts one that carries it, and is
\* dropped only if that resolve or that connect fails.
QuietSendIsWritten == quiet \cap lost \subseteq unlucky

\* README.md:76 "Send our call to the server": with a name service, a network
\* and a peer that never fail, no message is dropped.
SentIsWritten == lost = {}
=============================================================================
