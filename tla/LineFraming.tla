---------------------------- MODULE LineFraming ----------------------------
(***************************************************************************)
(* How do_read, Server's and SocketHandler's alike, cuts the bytes of a    *)
(* connection into lines: async_read_until fills a streambuf until it      *)
(* holds a terminator, the first line is handled, and the streambuf is     *)
(* replaced by an empty one with whatever else it held.                    *)
(*                                                                         *)
(* A message is two cells, its bytes up to some point and the rest with    *)
(* the terminator; that is enough for a read to end inside a message, at   *)
(* its end or beyond it.                                                   *)
(***************************************************************************)
EXTENDS Naturals, Sequences, FiniteSets

CONSTANTS
  MaxMsgs,     \* bound: messages sent, numbered 1, 2, ...
  MaxEnds,     \* bound: connections that end
  KeepsBuffer  \* the streambuf outlives its connection: TRUE for Server,
               \* FALSE for SocketHandler, which serves one connection

ASSUME FramingConstants ==
  MaxMsgs \in Nat /\ MaxEnds \in Nat /\ KeepsBuffer \in BOOLEAN

VARIABLES
  stream,    \* cells sent and not yet read
  data,      \* the streambuf
  next,      \* number of the next message
  ends,      \* connections that have ended
  lines,     \* history: the lines handled, in order
  crowded,   \* history: messages sent while another was on its way
  discarded, \* history: how often a streambuf with unread cells was replaced
  stale      \* history: how often a connection began with cells of an old one

vars == <<stream, data, next, ends, lines, crowded, discarded, stale>>

Cell == [msg: 1..MaxMsgs, last: BOOLEAN]

Message(m) == <<[msg |-> m, last |-> FALSE], [msg |-> m, last |-> TRUE]>>

Init ==
  /\ stream = <<>>
  /\ data = <<>>
  /\ next = 1
  /\ ends = 0
  /\ lines = <<>>
  /\ crowded = {}
  /\ discarded = 0
  /\ stale = 0

-----------------------------------------------------------------------------
\* The index of the first cell with a terminator, 0 if there is none.
FirstEnd(cells) ==
  IF \E k \in DOMAIN cells : cells[k].last
  THEN CHOOSE k \in DOMAIN cells : cells[k].last /\ \A j \in 1..(k - 1) : ~cells[j].last
  ELSE 0

Line_Whole(cells) == cells  \* mutant: the length async_read_until reports is ignored

Line(cells) == SubSeq(cells, 1, FirstEnd(cells))

Rest(cells) == SubSeq(cells, FirstEnd(cells) + 1, Len(cells))

\* The other side writes a message.
Send ==
  /\ next <= MaxMsgs
  /\ stream' = stream \o Message(next)
  /\ next' = next + 1
  /\ crowded' = IF stream \o data = <<>> THEN crowded ELSE crowded \cup {next}
  /\ UNCHANGED <<data, ends, lines, discarded, stale>>

ReadSome_Empties(k) ==  \* mutant: every read starts with an empty streambuf
  /\ FirstEnd(data) = 0
  /\ k \in 1..Len(stream)
  /\ data' = SubSeq(stream, 1, k)
  /\ stream' = SubSeq(stream, k + 1, Len(stream))
  /\ UNCHANGED <<next, ends, lines, crowded, discarded, stale>>

\* The read operation takes what has arrived, any part of what was sent.
ReadSome(k) ==
  /\ FirstEnd(data) = 0
  /\ k \in 1..Len(stream)
  /\ data' = data \o SubSeq(stream, 1, k)
  /\ stream' = SubSeq(stream, k + 1, Len(stream))
  /\ UNCHANGED <<next, ends, lines, crowded, discarded, stale>>

HandleLine_KeepsLine ==  \* mutant: the streambuf is not replaced
  /\ FirstEnd(data) # 0
  /\ lines' = Append(lines, Line(data))
  /\ Len(lines) < MaxMsgs
  /\ UNCHANGED <<stream, data, next, ends, crowded, discarded, stale>>

\* The handler of do_read: one line is handled, the rest is dropped.
HandleLine ==
  /\ FirstEnd(data) # 0
  /\ lines' = Append(lines, Line(data))
  /\ data' = <<>>
  /\ discarded' = IF Rest(data) = <<>> THEN discarded ELSE discarded + 1
  /\ UNCHANGED <<stream, next, ends, crowded, stale>>

\* The read ends with eof or a reset, and what was not read is gone.  Server
\* goes on with the same streambuf on its next connection.
ConnectionEnds ==
  /\ ends < MaxEnds
  /\ FirstEnd(data) = 0
  /\ ends' = ends + 1
  /\ stream' = <<>>
  /\ data' = IF KeepsBuffer THEN data ELSE <<>>
  /\ stale' = IF KeepsBuffer /\ data # <<>> THEN stale + 1 ELSE stale
  /\ UNCHANGED <<next, lines, crowded, discarded>>

Next ==
  \/ Send
  \/ \E k \in 1..(2 * MaxMsgs) : ReadSome(k)
  \/ HandleLine
  \/ ConnectionEnds

Spec == Init /\ [][Next]_vars

-----------------------------------------------------------------------------
(* Properties. *)

Handled(m) == \E k \in DOMAIN lines : lines[k] = Message(m)

Whole(line) == \E m \in 1..MaxMsgs : line = Message(m)

Garbled == {k \in DOMAIN lines : ~Whole(lines[k])}

\* Messages are handled in the order they were sent and none twice, whatever is
\* lost between them.
HandledInOrder ==
  \A j, k \in DOMAIN lines \ Garbled : j < k => lines[j][1].msg < lines[k][1].msg

\* Every loss spoils at most one line: a replaced streambuf, or one carried over
\* from an old connection, garbles the next line at most, and then the reader
\* is back in step with the terminators.
GarbledLinesHaveACause == Cardinality(Garbled) <= discarded + stale

\* A message that is sent when nothing else is on its way is handled, or is
\* still on its way, as long as the connection lasts: nothing that went wrong
\* before, not even a garbled line, harms a request that is sent alone.
LoneMessageArrives ==
  \A m \in 1..(next - 1) : m \notin crowded /\ ends = 0 =>
    \/ Handled(m)
    \/ \E k \in DOMAIN stream : stream[k].msg = m
    \/ \E k \in DOMAIN data : data[k].msg = m

\* Line by line: what is unread, the line its first terminator ends, and whether
\* cells of a line without its end come before that one.
Unread == data \o stream

FirstUnread ==
  IF FirstEnd(Unread) = 0 THEN next ELSE Unread[FirstEnd(Unread)].msg

Beginnings ==
  1..(IF FirstEnd(Unread) = 0 THEN Len(Unread) ELSE FirstEnd(Unread) - 1)

LinesUnread ==
  [j \in 1..(next - FirstUnread) |->
     [msg |-> FirstUnread + j - 1,
      whole |-> j > 1 \/ \E k \in Beginnings : Unread[k].msg = FirstUnread]]

Leftover == \E k \in Beginnings : Unread[k].msg # FirstUnread

Reader == INSTANCE LineStream WITH
  Msgs <- 1..MaxMsgs, NoMsg <- 0, CarriesOver <- KeepsBuffer,
  queue <- LinesUnread, half <- Leftover, heard <- {m \in 1..MaxMsgs : Handled(m)}

\* However the bytes are cut into reads, a reader takes one line of those that are
\* on the way, drops whole lines and at most the beginning of one more behind it, and
\* only the beginning of one line of an old connection can spoil one of the next.
ReadsLineByLine == Reader!Spec

\* README.md:92 says of a method's callback "This function will get called when
\* another server calls our Echo method": a request that arrives is handled.
ArrivedIsHandled ==
  stream = <<>> /\ FirstEnd(data) = 0 => \A m \in 1..(next - 1) : Handled(m)
=============================================================================
