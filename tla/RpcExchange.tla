---------------------------- MODULE RpcExchange ----------------------------
(***************************************************************************)
(* A Server object and the SocketHandler of its peer: messages are stamped *)
(* and sent as Connection has it, travel over the connection it is at that *)
(* time, are cut into lines at the other side, checked for their age,      *)
(* executed, and answered over the same connection.  Both readers take one *)
(* line of what a read delivers and drop the rest (LineFraming).           *)
(*                                                                         *)
(* Time is the age of each message in seconds.  Window stands for the 30   *)
(* seconds of HandleRequest, and the peer's clock is ahead of the sender's *)
(* by skew.  A message is a request with an id, for a method the peer has. *)
(***************************************************************************)
EXTENDS Connection, Integers, SequencesExt

CONSTANTS
  Window,  \* the age up to which HandleRequest takes a request
  MaxSkew  \* by how much the peer's clock may be ahead or behind

ASSUME ExchangeConstants == Window \in Nat /\ MaxSkew \in Nat

VARIABLES
  age,      \* the seconds since each message was stamped
  skew,     \* the difference between the clocks
  inFlight, \* requests on the connection that the peer has not read
  working,  \* requests the peer's plugins have not answered
  replies,  \* replies on the connection that the server has not read
  halfLine, \* the server's streambuf holds half a line of an old connection
  runs,     \* how often each message was executed
  outcome,  \* what became of each message after it was written
  crowded,  \* history: messages written behind another one, or whose replies were
  cutOff    \* history: messages whose connection ended under them

exchangeVars == <<age, skew, inFlight, working, replies, halfLine, runs, outcome,
                  crowded, cutOff>>

xvars == <<vars, exchangeVars>>

\* The age from which on no peer's clock takes a message for a new one.
OldAge == Window + 1 + MaxSkew

XInit ==
  /\ Init
  /\ age = [m \in Msgs |-> 0]
  /\ skew \in (-MaxSkew)..MaxSkew
  /\ inFlight = <<>>
  /\ working = {}
  /\ replies = <<>>
  /\ halfLine = FALSE
  /\ runs = [m \in Msgs |-> 0]
  /\ outcome = [m \in Msgs |-> "none"]
  /\ crowded = {}
  /\ cutOff = {}

-----------------------------------------------------------------------------
(* Lines.  Only the first line that is waiting may lack its beginning.       *)

Whole(m) == [msg |-> m, whole |-> TRUE]

\* What a read leaves on the connection when it takes the first k lines, and
\* the first half of the next one if it is torn.
Remaining(lines, k, torn) ==
  IF torn THEN <<[lines[k + 1] EXCEPT !.whole = FALSE]>> \o SubSeq(lines, k + 2, Len(lines))
  ELSE SubSeq(lines, k + 1, Len(lines))

\* A read ends anywhere beyond the first terminator.
ReadEnds(lines, k, torn) == k \in 1..Len(lines) /\ (torn => k < Len(lines))

\* The messages whose lines are dropped behind the first one.
DroppedBehind(lines, k) == {lines[j].msg : j \in 2..k}

Become(some, what) == [m \in Msgs |-> IF m \in some THEN what ELSE outcome[m]]

-----------------------------------------------------------------------------
(* The sender. *)

\* A message that Connection has just written to the socket is on its way; if
\* the peer has ended the connection, nobody will read it.
Delivers ==
  IF wire' = wire THEN UNCHANGED <<inFlight, outcome, crowded, cutOff>>
  ELSE LET m == Last(wire') IN
    IF peerGone
    THEN /\ outcome' = Become({m}, "request lost")
         /\ cutOff' = cutOff \cup {m}
         /\ UNCHANGED <<inFlight, crowded>>
    ELSE /\ inFlight' = Append(inFlight, Whole(m))
         /\ crowded' = IF inFlight = <<>> THEN crowded ELSE crowded \cup {m}
         /\ UNCHANGED <<outcome, cutOff>>

AtSender(step) ==
  /\ step
  /\ Delivers
  /\ UNCHANGED <<age, skew, working, replies, halfLine, runs>>

Sends == AtSender(\E m \in Msgs : Send(m))

\* The handlers that are sure to run: resolves and connects end in one way or the
\* other, and a read sees the end of the connection once it has taken what the
\* connection ended with.
SureHandlers == AtSender(Resolved \/ Completed \/ Kernel \/ (ReadEof /\ replies = <<>>))

Handlers == SureHandlers \/ AtSender(ReadFails)

\* do_read: the first line of the read goes to HandleReply, unless it is
\* garbled; what the read held behind it is gone.
ReadReplies(k, torn) ==
  /\ ReadLine
  /\ ReadEnds(replies, k, torn)
  /\ LET first == replies[1]
         heard == IF first.whole /\ ~halfLine THEN {first.msg} ELSE {}
         unheard == ({first.msg} \ heard) \cup DroppedBehind(replies, k)
     IN  outcome' = [m \in Msgs |-> IF m \in heard THEN "answered"
                                    ELSE IF m \in unheard THEN "reply lost" ELSE outcome[m]]
  /\ replies' = Remaining(replies, k, torn)
  /\ halfLine' = FALSE
  /\ UNCHANGED <<age, skew, inFlight, working, runs, crowded, cutOff>>

-----------------------------------------------------------------------------
(* The peer. *)

TooOld_Untested(m) == FALSE  \* mutant: the timestamp is only tested for its type

\* timestamp < time(nullptr) - 30
TooOld(m) == age[m] + skew > Window

\* A reply goes over the connection its request came from.
Answered(line) ==
  /\ replies' = Append(replies, line)
  /\ crowded' = IF replies # <<>> \/ halfLine THEN crowded \cup ({line.msg} \ {None}) ELSE crowded

PeerReads_Last(k, torn) ==  \* mutant: the last line is handled instead of the first
  /\ sock = "up"
  /\ ~peerGone
  /\ ReadEnds(inFlight, k, torn)
  /\ working' = working \cup {inFlight[k].msg}
  /\ runs' = [runs EXCEPT ![inFlight[k].msg] = @ + 1]
  /\ outcome' = Become({inFlight[j].msg : j \in 1..(k - 1)}, "request lost")
  /\ inFlight' = Remaining(inFlight, k, torn)
  /\ UNCHANGED <<vars, age, skew, halfLine, replies, crowded, cutOff>>

PeerReads_KeepsLine(k, torn) ==  \* mutant: the streambuf is not replaced
  /\ sock = "up"
  /\ ~peerGone
  /\ ReadEnds(inFlight, k, torn)
  /\ runs[inFlight[1].msg] < 2
  /\ working' = working \cup {inFlight[1].msg}
  /\ runs' = [runs EXCEPT ![inFlight[1].msg] = @ + 1]
  /\ UNCHANGED <<vars, age, skew, halfLine, inFlight, outcome, replies, crowded, cutOff>>

\* SocketHandler's do_read and HandleRequest: one line is handled, what the read
\* held behind it is gone.  A garbled line or an old request gets an error reply
\* without an id; a request that is taken waits for its plugin.
PeerReads(k, torn) ==
  /\ sock = "up"
  /\ ~peerGone
  /\ ReadEnds(inFlight, k, torn)
  /\ LET first == inFlight[1]
         m == first.msg
         behind == DroppedBehind(inFlight, k)
     IN  \/ /\ first.whole /\ ~TooOld(m)
            /\ working' = working \cup {m}
            /\ runs' = [runs EXCEPT ![m] = @ + 1]
            /\ outcome' = Become(behind, "request lost")
            /\ UNCHANGED <<replies, crowded>>
         \/ /\ first.whole /\ TooOld(m)
            /\ outcome' = [Become(behind, "request lost") EXCEPT ![m] = "refused"]
            /\ Answered(Whole(None))
            /\ UNCHANGED <<working, runs>>
         \/ /\ ~first.whole
            /\ outcome' = Become(behind \cup {m}, "request lost")
            /\ Answered(Whole(None))
            /\ UNCHANGED <<working, runs>>
  /\ inFlight' = Remaining(inFlight, k, torn)
  /\ UNCHANGED <<vars, age, skew, halfLine, cutOff>>

\* A plugin calls Done.
Done(m) ==
  /\ m \in working
  /\ working' = working \ {m}
  /\ Answered(Whole(m))
  /\ UNCHANGED <<vars, age, skew, inFlight, halfLine, runs, outcome, cutOff>>

\* The peer ends the connection.  Requests it has not read are lost, and the
\* replies its plugins have yet to give have nowhere to go; a reset, unlike an
\* orderly end, takes the replies under way with it, and may leave half of the
\* first in the server's streambuf.
PeerEnds(reset) ==
  /\ PeerCloses
  /\ LET unread == {inFlight[j].msg : j \in DOMAIN inFlight}
         unheard == working \cup (IF reset THEN {replies[j].msg : j \in DOMAIN replies} ELSE {})
     IN  /\ outcome' = [m \in Msgs |-> IF m \in unread THEN "request lost"
                                       ELSE IF m \in unheard THEN "reply lost" ELSE outcome[m]]
         /\ cutOff' = cutOff \cup unread \cup (unheard \ {None})
  /\ inFlight' = <<>>
  /\ working' = {}
  /\ replies' = IF reset THEN <<>> ELSE replies
  /\ halfLine' \in {halfLine, (reset /\ replies # <<>>) \/ halfLine}
  /\ UNCHANGED <<age, skew, runs, crowded>>

\* A second passes for the messages that can still be refused for their age.
Tick ==
  /\ age' = [m \in Msgs |->
       IF m \in sent /\ m \notin lost /\ outcome[m] = "none" /\ runs[m] = 0 /\ age[m] < OldAge
       THEN age[m] + 1 ELSE age[m]]
  /\ age' # age
  /\ UNCHANGED <<vars, skew, inFlight, working, replies, halfLine, runs, outcome,
                 crowded, cutOff>>

-----------------------------------------------------------------------------
PeerReadsSome == \E k \in 1..Cardinality(Msgs), torn \in BOOLEAN : PeerReads(k, torn)

ReadsSomeReplies == \E k \in 1..Cardinality(Msgs), torn \in BOOLEAN : ReadReplies(k, torn)

XNext ==
  /\ fault = "none"
  /\ \/ Sends
     \/ Handlers
     \/ ReadsSomeReplies
     \/ PeerReadsSome
     \/ \E m \in Msgs : Done(m)
     \/ \E reset \in BOOLEAN : PeerEnds(reset)
     \/ Tick

XSpec == XInit /\ [][XNext]_xvars

\* The event loops of both servers poll their sockets on every frame, so that
\* resolves and connects come to an end, and so do reads for which there is a line
\* or the end of the connection.  Nothing makes a read fail in any other way, a
\* peer end the connection, or time pass.  Plugins answer in the end: no code makes
\* them, and CallConcludes is about what happens if they do.
XFairSpec ==
  /\ XSpec
  /\ WF_xvars(fault = "none" /\ SureHandlers)
  /\ WF_xvars(fault = "none" /\ ReadsSomeReplies)
  /\ WF_xvars(fault = "none" /\ PeerReadsSome)
  /\ WF_xvars(fault = "none" /\ \E m \in Msgs : Done(m))

-----------------------------------------------------------------------------
(* Properties. *)

OnTheWay(lines, m) == Cardinality({j \in DOMAIN lines : lines[j].msg = m})

\* From Send to the reply a message is in one place at a time: with the sender's
\* handlers, on the connection, with the peer's plugin, coming back, or at its
\* end.  No step of either side forgets it or has it twice.
ExchangeAccounted ==
  /\ MessageAccounted
  /\ fault = "none" => \A m \in Msgs :
       Occurrences(wire, m) =
         OnTheWay(inFlight, m) + OnTheWay(replies, m) + (IF m \in working THEN 1 ELSE 0)
         + (IF outcome[m] # "none" THEN 1 ELSE 0)

\* A request or reply on a live connection is lost only behind another one: the
\* first line of a read is always handled, and a line that is alone on its way
\* always arrives.
LossHasCause ==
  \A m \in Msgs : outcome[m] \in {"request lost", "reply lost"} => m \in crowded \cup cutOff

StatusOf(m) ==
  CASE outcome[m] = "answered" -> "answered"
    [] outcome[m] \in {"refused", "request lost", "reply lost"} \/ m \in lost -> "failed"
    [] outcome[m] = "none" /\ m \notin lost /\ runs[m] > 0 -> "executed"
    [] OTHER -> IF m \in sent THEN "sent" ELSE "new"

Promise == INSTANCE RpcPromise WITH status <- [m \in Msgs |-> StatusOf(m)]

\* The two ends together keep the promise: whatever connects, tears, ends and
\* delays there are, a message is executed at most once, not past the window and
\* the difference of the clocks, and answered only after that.
PromiseKept == Promise!Spec

Requests == INSTANCE LineStream WITH
  NoMsg <- None, CarriesOver <- FALSE, queue <- inFlight, half <- FALSE,
  heard <- {m \in Msgs : runs[m] > 0 \/ outcome[m] = "refused"}

Replies == INSTANCE LineStream WITH
  NoMsg <- None, CarriesOver <- TRUE, queue <- replies, half <- halfLine,
  heard <- {m \in Msgs : outcome[m] = "answered"}

\* Each end of the exchange takes the lines of a connection as LineFraming shows that
\* do_read does: whatever the ends do meanwhile, a line is heard at most once, and
\* only at the head of a read and whole.
LinesAreFramed == Requests!Spec /\ Replies!Spec

\* A server that counts as connected and has no read pending.
Deaf == connected /\ readers = 0

\* Every call comes to an end: it is answered, or its request or reply is lost or
\* refused.  The exceptions are a buffer in use after it was freed, and a server
\* that a failed read has left connected and deaf.
CallConcludes ==
  \A m \in Msgs : m \in sent ~> (m \in lost \/ outcome[m] # "none" \/ fault # "none" \/ Deaf)
=============================================================================
