------------------------- MODULE LineFramingProofs -------------------------
(***************************************************************************)
(* Proofs about LineFraming for any number of messages and of connections, *)
(* for both ends: lines are handled in order, every garbled one has a      *)
(* cause, and a message alone on its way arrives.                          *)
(***************************************************************************)
EXTENDS LineFraming, FiniteSetTheorems, SequenceTheorems, TLAPS

USE FramingConstants

-----------------------------------------------------------------------------
(* The invariant. *)

First(m) == [msg |-> m, last |-> FALSE]

Second(m) == [msg |-> m, last |-> TRUE]

FramingTypeOK ==
  /\ stream \in Seq(Cell)
  /\ data \in Seq(Cell)
  /\ next \in 1..(MaxMsgs + 1)
  /\ ends \in Nat
  /\ lines \in Seq(Seq(Cell))
  /\ discarded \in Nat
  /\ stale \in Nat

\* What is not yet read consists of whole messages, but for the one whose first
\* cell has been read; and if the streambuf holds a terminator there is a first.
StreamInv ==
  /\ \A i \in DOMAIN stream : ~stream[i].last =>
       i + 1 \in DOMAIN stream /\ stream[i + 1] = Second(stream[i].msg)
  /\ \A i \in DOMAIN stream : stream[i].last /\ i + 1 \in DOMAIN stream => ~stream[i + 1].last
  /\ data # <<>> /\ data[Len(data)].last /\ stream # <<>> => ~stream[1].last
  /\ (\E k \in DOMAIN data : data[k].last) =>
       \E e \in DOMAIN data : data[e].last /\ \A j \in 1..(e - 1) : ~data[j].last

\* The place of a cell among all cells ever sent.
Place(c) == 2 * c.msg + (IF c.last THEN 1 ELSE 0)

Ascending(s) == \A i, j \in DOMAIN s : i < j => Place(s[i]) < Place(s[j])

Below(s, t) == \A i \in DOMAIN s, j \in DOMAIN t : Place(s[i]) < Place(t[j])

Sent(s) == \A i \in DOMAIN s : s[i].msg < next

\* Cells are read, and lines handled, in the order they were sent.
OrderInv ==
  /\ Ascending(data) /\ Ascending(stream) /\ Below(data, stream)
  /\ Sent(data) /\ Sent(stream)
  /\ \A k \in DOMAIN lines :
       Sent(lines[k]) /\ Below(lines[k], data) /\ Below(lines[k], stream)
  /\ \A j, k \in DOMAIN lines : j < k => Below(lines[j], lines[k])

\* The next cells are those of message m.
AtHead(m) ==
  \/ Len(data) >= 2 /\ data[1] = First(m) /\ data[2] = Second(m)
  \/ Len(data) = 1 /\ data[1] = First(m) /\ Len(stream) >= 1 /\ stream[1] = Second(m)
  \/ data = <<>> /\ Len(stream) >= 2 /\ stream[1] = First(m) /\ stream[2] = Second(m)

\* The reader is in step: its next line will be a message.
InStep ==
  \/ data = <<>> /\ stream = <<>>
  \/ \E m \in 1..MaxMsgs : AtHead(m)

\* A reader that is out of step is so for a replaced or a carried-over streambuf
\* that no garbled line accounts for yet.
GarbledInv ==
  IF InStep THEN Cardinality(Garbled) <= discarded + stale
            ELSE Cardinality(Garbled) + 1 <= discarded + stale

\* A message that was sent alone comes first until it is handled.
LoneInv ==
  /\ crowded \subseteq 1..(next - 1)
  /\ ends = 0 => \A m \in 1..(next - 1) : m \in crowded \/ Handled(m) \/ AtHead(m)

IInv ==
  /\ FramingTypeOK
  /\ StreamInv
  /\ OrderInv
  /\ GarbledInv
  /\ LoneInv

-----------------------------------------------------------------------------
(* What the steps do to the cells. *)

\* A cell is the first or the last of its message, and its place says which.
LEMMA CellPlace ==
  ASSUME NEW c \in Cell
  PROVE  /\ Place(c) \in Nat /\ c.msg \in 1..MaxMsgs
         /\ c.last => c = Second(c.msg) /\ Place(c) = 2 * c.msg + 1
         /\ ~c.last => c = First(c.msg) /\ Place(c) = 2 * c.msg
BY DEF Cell, Place, First, Second

\* The cells of a message.
LEMMA MessageCells ==
  ASSUME NEW m \in 1..MaxMsgs
  PROVE  /\ First(m) \in Cell /\ Second(m) \in Cell
         /\ ~First(m).last /\ Second(m).last /\ First(m).msg = m /\ Second(m).msg = m
         /\ Message(m) \in Seq(Cell) /\ Len(Message(m)) = 2
         /\ Message(m)[1] = First(m) /\ Message(m)[2] = Second(m)
<1>1. First(m) \in Cell /\ Second(m) \in Cell
  BY DEF First, Second, Cell
<1>2. Message(m) = <<First(m), Second(m)>>
  BY DEF Message, First, Second
<1> QED
  BY <1>1, <1>2 DEF First, Second

\* ConcatProperties, for two texts of cells.
LEMMA Concatenated ==
  ASSUME NEW s \in Seq(Cell), NEW t \in Seq(Cell)
  PROVE  /\ s \o t \in Seq(Cell)
         /\ Len(s \o t) = Len(s) + Len(t)
         /\ \A i \in 1..(Len(s) + Len(t)) : (s \o t)[i] =
              IF i <= Len(s) THEN s[i] ELSE t[i - Len(s)]
<1> DEFINE C == Cell
<1>1. s \in Seq(C) /\ t \in Seq(C)
  OBVIOUS
<1> HIDE DEF C
<1>2. /\ s \o t \in Seq(C)
      /\ Len(s \o t) = Len(s) + Len(t)
      /\ \A i \in 1..(Len(s) + Len(t)) : (s \o t)[i] =
           IF i <= Len(s) THEN s[i] ELSE t[i - Len(s)]
  BY <1>1, ConcatProperties
<1> QED
  BY <1>2 DEF C

\* Send puts the two cells of the next message behind the others.
LEMMA SendCells ==
  ASSUME FramingTypeOK, Send
  PROVE  /\ next \in 1..MaxMsgs
         /\ stream' \in Seq(Cell) /\ Len(stream') = Len(stream) + 2
         /\ \A i \in 1..Len(stream) : stream'[i] = stream[i]
         /\ stream'[Len(stream) + 1] = First(next)
         /\ stream'[Len(stream) + 2] = Second(next)
<1>1. next \in 1..MaxMsgs /\ stream \in Seq(Cell)
  BY DEF Send, FramingTypeOK
<1>2. stream' = stream \o Message(next)
  BY DEF Send
<1>3. /\ Message(next) \in Seq(Cell) /\ Len(Message(next)) = 2
      /\ Message(next)[1] = First(next) /\ Message(next)[2] = Second(next)
  BY <1>1, MessageCells
<1>4. /\ stream' \in Seq(Cell) /\ Len(stream') = Len(stream) + 2
      /\ \A i \in 1..(Len(stream) + 2) : stream'[i] =
           IF i <= Len(stream) THEN stream[i] ELSE Message(next)[i - Len(stream)]
  <2>1. /\ stream \o Message(next) \in Seq(Cell)
        /\ Len(stream \o Message(next)) = Len(stream) + Len(Message(next))
        /\ \A i \in 1..(Len(stream) + Len(Message(next))) : (stream \o Message(next))[i] =
             IF i <= Len(stream) THEN stream[i] ELSE Message(next)[i - Len(stream)]
    BY <1>1, <1>3, Concatenated
  <2> QED
    BY <1>2, <1>3, <2>1
<1> QED
  BY <1>1, <1>3, <1>4

\* What a read leaves in the stream and in the streambuf.
LEMMA ReadCells ==
  ASSUME FramingTypeOK, NEW k, ReadSome(k)
  PROVE  /\ k \in 1..Len(stream)
         /\ data' \in Seq(Cell) /\ Len(data') = Len(data) + k
         /\ \A i \in 1..Len(data) : data'[i] = data[i]
         /\ \A i \in 1..k : data'[Len(data) + i] = stream[i]
         /\ stream' \in Seq(Cell) /\ Len(stream') = Len(stream) - k
         /\ \A i \in 1..(Len(stream) - k) : stream'[i] = stream[k + i]
<1>1. k \in 1..Len(stream) /\ stream \in Seq(Cell) /\ data \in Seq(Cell)
  BY DEF ReadSome, FramingTypeOK
<1>2. /\ SubSeq(stream, 1, k) \in Seq(Cell) /\ Len(SubSeq(stream, 1, k)) = k
      /\ \A i \in 1..k : SubSeq(stream, 1, k)[i] = stream[i]
  BY <1>1, SubSeqProperties
<1>3. /\ stream' \in Seq(Cell) /\ Len(stream') = Len(stream) - k
      /\ \A i \in 1..(Len(stream) - k) : stream'[i] = stream[k + i]
  <2> DEFINE n == Len(stream)
             rest == SubSeq(stream, k + 1, n)
  <2>1. k \in Int /\ n \in Nat /\ k + 1 \in Int /\ \A i \in (k + 1)..n : stream[i] \in Cell
    BY <1>1
  <2>2. /\ rest \in Seq(Cell)
        /\ Len(rest) = IF k + 1 <= n THEN n - (k + 1) + 1 ELSE 0
        /\ \A i \in 1..(n - (k + 1) + 1) : rest[i] = stream[k + 1 + i - 1]
    BY <2>1, SubSeqProperties
  <2>3. stream' = rest
    BY DEF ReadSome
  <2> HIDE DEF rest
  <2>4. Len(rest) = n - k
    BY <1>1, <2>1, <2>2
  <2>5. ASSUME NEW i \in 1..(n - k) PROVE rest[i] = stream[k + i]
    <3>1. i \in 1..(n - (k + 1) + 1) /\ k + 1 + i - 1 = k + i
      BY <1>1, <2>1
    <3> QED
      BY <2>2, <3>1
  <2> QED
    BY <2>2, <2>3, <2>4, <2>5
<1>4. data' = data \o SubSeq(stream, 1, k)
  BY DEF ReadSome
<1> QED
  BY <1>1, <1>2, <1>3, <1>4, Concatenated

\* FirstEnd is the place of the first newline, if there is one.
LEMMA FirstEndFound ==
  ASSUME StreamInv, FirstEnd(data) # 0
  PROVE  /\ FirstEnd(data) \in DOMAIN data
         /\ data[FirstEnd(data)].last
         /\ \A j \in 1..(FirstEnd(data) - 1) : ~data[j].last
<1>1. \E e \in DOMAIN data : data[e].last /\ \A j \in 1..(e - 1) : ~data[j].last
  BY DEF StreamInv, FirstEnd
<1> QED
  BY <1>1, Zenon DEF FirstEnd

\* A streambuf that holds no newline.
LEMMA NoEnd ==
  ASSUME data \in Seq(Cell), StreamInv, FirstEnd(data) = 0
  PROVE  \A k \in DOMAIN data : ~data[k].last
<1> SUFFICES ASSUME \E k \in DOMAIN data : data[k].last PROVE FALSE
  OBVIOUS
<1>1. \E e \in DOMAIN data : data[e].last /\ \A j \in 1..(e - 1) : ~data[j].last
  BY DEF StreamInv
<1>2. FirstEnd(data) \in DOMAIN data
  BY <1>1, Zenon DEF FirstEnd
<1> QED
  BY <1>2

\* HandleLine appends the cells up to the first newline as a line.
LEMMA LineCells ==
  ASSUME FramingTypeOK, StreamInv, HandleLine
  PROVE  LET e == FirstEnd(data) IN
         /\ e \in 1..Len(data) /\ data[e].last /\ \A j \in 1..(e - 1) : ~data[j].last
         /\ Line(data) \in Seq(Cell) /\ Len(Line(data)) = e
         /\ \A i \in 1..e : Line(data)[i] = data[i]
         /\ lines' \in Seq(Seq(Cell)) /\ Len(lines') = Len(lines) + 1
         /\ \A i \in 1..Len(lines) : lines'[i] = lines[i]
         /\ lines'[Len(lines) + 1] = Line(data)
         /\ Rest(data) = <<>> => e = Len(data)
<1> DEFINE e == FirstEnd(data)
<1>1. data \in Seq(Cell) /\ lines \in Seq(Seq(Cell))
  BY DEF FramingTypeOK
<1>2. e \in 1..Len(data) /\ data[e].last /\ \A j \in 1..(e - 1) : ~data[j].last
  BY <1>1, FirstEndFound DEF HandleLine
<1>3. /\ Line(data) \in Seq(Cell) /\ Len(Line(data)) = e
      /\ \A i \in 1..e : Line(data)[i] = data[i]
  BY <1>1, <1>2, SubSeqProperties DEF Line
<1>4. Len(Rest(data)) = IF e + 1 <= Len(data) THEN Len(data) - e ELSE 0
  BY <1>1, <1>2, SubSeqProperties DEF Rest
<1> QED
  BY <1>1, <1>2, <1>3, <1>4 DEF HandleLine

-----------------------------------------------------------------------------
(* The steps preserve the invariant, conjunct by conjunct. *)

\* A step keeps the types.
LEMMA TypeStep == ASSUME FramingTypeOK, StreamInv, [Next]_vars PROVE FramingTypeOK'
<1> USE DEF FramingTypeOK
<1>1. CASE Send
  BY <1>1, SendCells DEF Send
<1>2. ASSUME NEW k, ReadSome(k) PROVE FramingTypeOK'
  BY <1>2, ReadCells DEF ReadSome
<1>3. CASE HandleLine
  <2>1. data' \in Seq(Cell) /\ discarded' \in Nat
    BY <1>3 DEF HandleLine
  <2> QED
    BY <1>3, <2>1, LineCells DEF HandleLine
<1>4. CASE ConnectionEnds
  <2>1. stream' \in Seq(Cell) /\ data' \in Seq(Cell) /\ ends' \in Nat /\ stale' \in Nat
    BY <1>4 DEF ConnectionEnds
  <2> QED
    BY <1>4, <2>1 DEF ConnectionEnds
<1> QED
  BY <1>1, <1>2, <1>3, <1>4 DEF Next, vars

\* The places of the cells that a read of k out of n leaves behind.
LEMMA Shifted ==
  ASSUME NEW n \in Nat, NEW k \in 1..n, NEW i \in 1..(n - k)
  PROVE  /\ k + i \in 1..n /\ k + (i + 1) = k + i + 1
         /\ i + 1 \in 1..(n - k) <=> k + i + 1 \in 1..n
OBVIOUS

LEMMA FirstLeft ==
  ASSUME NEW n \in Nat, NEW k \in 1..n, n - k # 0
  PROVE  1 \in 1..(n - k) /\ k + 1 \in 1..n
OBVIOUS

\* A step keeps what the stream and the streambuf look like.
LEMMA StreamStep == ASSUME FramingTypeOK, StreamInv, [Next]_vars PROVE StreamInv'
<1>1. stream \in Seq(Cell) /\ data \in Seq(Cell)
  BY DEF FramingTypeOK
<1>2. CASE Send
  <2>1. /\ next \in 1..MaxMsgs
        /\ stream' \in Seq(Cell) /\ Len(stream') = Len(stream) + 2
        /\ \A i \in 1..Len(stream) : stream'[i] = stream[i]
        /\ stream'[Len(stream) + 1] = First(next)
        /\ stream'[Len(stream) + 2] = Second(next)
        /\ ~First(next).last /\ Second(next).last /\ First(next).msg = next
        /\ data' = data
    BY <1>2, SendCells, MessageCells DEF Send
  <2>2. ASSUME NEW i \in DOMAIN stream', ~stream'[i].last
        PROVE  i + 1 \in DOMAIN stream' /\ stream'[i + 1] = Second(stream'[i].msg)
    <3>1. CASE i \in DOMAIN stream
      <4>1. i \in 1..Len(stream) /\ stream'[i] = stream[i]
        BY <1>1, <2>1, <3>1
      <4>2. i + 1 \in DOMAIN stream /\ stream[i + 1] = Second(stream[i].msg)
        BY <2>2, <3>1, <4>1 DEF StreamInv
      <4>3. i + 1 \in 1..Len(stream) /\ i + 1 \in DOMAIN stream'
        BY <1>1, <2>1, <4>2
      <4> QED
        BY <2>1, <4>1, <4>2, <4>3
    <3>2. CASE i = Len(stream) + 1
      BY <1>1, <2>1, <3>2
    <3>3. CASE i = Len(stream) + 2
      BY <2>1, <2>2, <3>3
    <3> QED
      BY <1>1, <2>1, <3>1, <3>2, <3>3
  <2>3. ASSUME NEW i \in DOMAIN stream', stream'[i].last, i + 1 \in DOMAIN stream'
        PROVE  ~stream'[i + 1].last
    <3>1. CASE i \in DOMAIN stream
      <4>1. DOMAIN stream = 1..Len(stream) /\ Len(stream) \in Nat /\ i \in 1..Len(stream)
        BY <1>1, <3>1
      <4>2. stream'[i] = stream[i]
        BY <2>1, <4>1
      <4>3. CASE i + 1 \in 1..Len(stream)
        <5>1. i + 1 \in DOMAIN stream /\ stream'[i + 1] = stream[i + 1]
          BY <2>1, <4>1, <4>3
        <5> QED
          BY <2>3, <3>1, <4>2, <5>1 DEF StreamInv
      <4>4. CASE i + 1 = Len(stream) + 1
        BY <2>1, <4>4
      <4> QED
        BY <4>1, <4>3, <4>4
    <3>2. CASE i = Len(stream) + 1
      BY <2>1, <2>3, <3>2
    <3> QED
      BY <1>1, <2>1, <2>3, <3>1, <3>2
  <2>4. data # <<>> /\ data[Len(data)].last => ~stream'[1].last
    <3>1. CASE stream = <<>>
      BY <2>1, <3>1
    <3>2. CASE stream # <<>>
      <4>1. 1 \in 1..Len(stream)
        BY <1>1, <3>2
      <4> QED
        BY <2>1, <3>2, <4>1 DEF StreamInv
    <3> QED
      BY <3>1, <3>2
  <2> QED
    BY <2>1, <2>2, <2>3, <2>4 DEF StreamInv
<1>3. ASSUME NEW k, ReadSome(k) PROVE StreamInv'
  <2>1. /\ k \in 1..Len(stream)
        /\ data' \in Seq(Cell) /\ Len(data') = Len(data) + k
        /\ \A i \in 1..Len(data) : data'[i] = data[i]
        /\ \A i \in 1..k : data'[Len(data) + i] = stream[i]
        /\ stream' \in Seq(Cell) /\ Len(stream') = Len(stream) - k
        /\ \A i \in 1..(Len(stream) - k) : stream'[i] = stream[k + i]
    BY <1>3, ReadCells
  <2>dom. /\ Len(stream) \in Nat /\ Len(data) \in Nat /\ k \in 1..Len(stream)
          /\ DOMAIN stream = 1..Len(stream) /\ DOMAIN stream' = 1..(Len(stream) - k)
          /\ DOMAIN data = 1..Len(data) /\ DOMAIN data' = 1..(Len(data) + k)
          /\ Len(stream') = Len(stream) - k /\ Len(data') = Len(data) + k
    BY <1>1, <2>1
  <2>2. \A j \in DOMAIN data : ~data[j].last
    BY <1>1, <1>3, NoEnd DEF ReadSome
  <2>3. ASSUME NEW i \in DOMAIN stream', ~stream'[i].last
        PROVE  i + 1 \in DOMAIN stream' /\ stream'[i + 1] = Second(stream'[i].msg)
    <3>1. i \in 1..(Len(stream) - k)
      BY <2>dom
    <3>2. k + i \in DOMAIN stream /\ stream'[i] = stream[k + i]
      BY <2>1, <2>dom, <3>1, Shifted
    <3>3. k + i + 1 \in DOMAIN stream /\ stream[k + i + 1] = Second(stream[k + i].msg)
      BY <2>3, <3>2 DEF StreamInv
    <3>4. i + 1 \in 1..(Len(stream) - k) /\ k + (i + 1) = k + i + 1
      BY <2>dom, <3>1, <3>3, Shifted
    <3>5. i + 1 \in DOMAIN stream' /\ stream'[i + 1] = stream[k + (i + 1)]
      BY <2>1, <2>dom, <3>4
    <3> QED
      BY <3>2, <3>3, <3>4, <3>5
  <2>4. ASSUME NEW i \in DOMAIN stream', stream'[i].last, i + 1 \in DOMAIN stream'
        PROVE  ~stream'[i + 1].last
    <3>1. i \in 1..(Len(stream) - k) /\ i + 1 \in 1..(Len(stream) - k)
      BY <2>dom, <2>4
    <3>2. k + i \in DOMAIN stream /\ k + i + 1 \in DOMAIN stream /\ k + (i + 1) = k + i + 1
      BY <2>dom, <3>1, Shifted
    <3>3. stream'[i] = stream[k + i] /\ stream'[i + 1] = stream[k + (i + 1)]
      BY <2>1, <3>1
    <3> QED
      BY <2>4, <3>2, <3>3 DEF StreamInv
  <2>5. data'[Len(data')].last /\ stream' # <<>> => ~stream'[1].last
    <3>1. data'[Len(data')] = stream[k]
      <4>1. k \in 1..k /\ Len(data') = Len(data) + k
        BY <2>dom
      <4> QED
        BY <2>1, <4>1
    <3>2. stream' # <<>> => k + 1 \in DOMAIN stream /\ stream'[1] = stream[k + 1]
      <4>1. stream' # <<>> => Len(stream') # 0
        BY <2>1
      <4>2. stream' # <<>> => 1 \in 1..(Len(stream) - k) /\ k + 1 \in DOMAIN stream
        BY <2>dom, <4>1, FirstLeft
      <4> QED
        BY <2>1, <4>2
    <3>3. k \in DOMAIN stream /\ data'[Len(data')].last = stream[k].last
      BY <2>1, <2>dom, <3>1
    <3> QED
      BY <3>2, <3>3 DEF StreamInv
  <2>6. (\E j \in DOMAIN data' : data'[j].last) =>
          \E e \in DOMAIN data' : data'[e].last /\ \A j \in 1..(e - 1) : ~data'[j].last
    <3>1. CASE stream[1].last
      <4>1. Len(data) + 1 \in DOMAIN data' /\ data'[Len(data) + 1] = stream[1]
        BY <2>1, <2>dom
      <4>2. \A j \in 1..(Len(data) + 1 - 1) : j \in 1..Len(data) /\ j \in DOMAIN data
        BY <1>1
      <4>3. \A j \in 1..(Len(data) + 1 - 1) : ~data'[j].last
        BY <2>1, <2>2, <4>2
      <4> QED
        BY <3>1, <4>1, <4>3
    <3>2. CASE ~stream[1].last /\ k = 1
      <4>1. \A j \in DOMAIN data' : ~data'[j].last
        BY <2>1, <2>dom, <2>2, <3>2
      <4> QED
        BY <4>1
    <3>3. CASE ~stream[1].last /\ k >= 2
      <4>1. 1 \in DOMAIN stream /\ 1 \in 1..k /\ 2 \in 1..k /\ 1 + 1 = 2
        BY <2>1, <2>dom, <3>3
      <4>2. stream[2] = Second(stream[1].msg)
        BY <3>3, <4>1 DEF StreamInv
      <4>3. /\ Len(data) + 2 \in DOMAIN data'
            /\ data'[Len(data) + 1] = stream[1] /\ data'[Len(data) + 2] = stream[2]
        BY <2>1, <2>dom, <4>1
      <4>4. \A j \in 1..(Len(data) + 2 - 1) :
              (j \in 1..Len(data) /\ j \in DOMAIN data) \/ j = Len(data) + 1
        BY <1>1
      <4>5. data'[Len(data) + 2].last
        BY <4>2, <4>3 DEF Second
      <4>6. \A j \in 1..(Len(data) + 2 - 1) : ~data'[j].last
        BY <2>1, <2>2, <3>3, <4>3, <4>4
      <4> QED
        BY <4>3, <4>5, <4>6
    <3> QED
      BY <2>1, <3>1, <3>2, <3>3
  <2> QED
    BY <2>3, <2>4, <2>5, <2>6 DEF StreamInv
<1>4. CASE HandleLine
  BY <1>4 DEF HandleLine, StreamInv
<1>5. CASE ConnectionEnds
  <2>1. \A j \in DOMAIN data' : ~data'[j].last
    BY <1>1, <1>5, NoEnd DEF ConnectionEnds
  <2> QED
    BY <1>5, <2>1 DEF ConnectionEnds, StreamInv
<1> QED
  BY <1>2, <1>3, <1>4, <1>5 DEF Next, vars, StreamInv

\* Where the cells of the streambuf and of the stream come from.
LEMMA ReadFrom ==
  ASSUME FramingTypeOK, NEW k, ReadSome(k)
  PROVE  /\ \A j \in DOMAIN data' :
              \/ j \in DOMAIN data /\ j <= Len(data) /\ data'[j] = data[j]
              \/ /\ j > Len(data) /\ j - Len(data) \in DOMAIN stream /\ j - Len(data) <= k
                 /\ data'[j] = stream[j - Len(data)]
         /\ \A j \in DOMAIN stream' :
              j \in Nat /\ k + j \in DOMAIN stream /\ j > 0 /\ stream'[j] = stream[k + j]
<1>1. stream \in Seq(Cell) /\ data \in Seq(Cell) /\ Len(stream) \in Nat /\ Len(data) \in Nat
  BY DEF FramingTypeOK
<1>2. /\ k \in 1..Len(stream)
      /\ data' \in Seq(Cell) /\ Len(data') = Len(data) + k
      /\ \A i \in 1..Len(data) : data'[i] = data[i]
      /\ \A i \in 1..k : data'[Len(data) + i] = stream[i]
      /\ stream' \in Seq(Cell) /\ Len(stream') = Len(stream) - k
      /\ \A i \in 1..(Len(stream) - k) : stream'[i] = stream[k + i]
  BY ReadCells
<1>3. ASSUME NEW j \in DOMAIN data', j > Len(data)
      PROVE  /\ j - Len(data) \in DOMAIN stream /\ j - Len(data) <= k
             /\ data'[j] = stream[j - Len(data)]
  <2>1. j - Len(data) \in 1..k /\ Len(data) + (j - Len(data)) = j
    BY <1>1, <1>2, <1>3
  <2>2. data'[Len(data) + (j - Len(data))] = stream[j - Len(data)]
    BY <1>2, <2>1
  <2> QED
    BY <1>1, <1>2, <2>1, <2>2
<1>4. ASSUME NEW j \in DOMAIN data', ~(j > Len(data))
      PROVE  j \in DOMAIN data /\ j <= Len(data) /\ data'[j] = data[j]
  BY <1>1, <1>2, <1>4
<1>5. ASSUME NEW j \in DOMAIN stream'
      PROVE  j \in Nat /\ k + j \in DOMAIN stream /\ j > 0 /\ stream'[j] = stream[k + j]
  <2>1. j \in 1..(Len(stream) - k)
    BY <1>1, <1>2, <1>5
  <2>2. k \in Nat /\ j \in Nat /\ j > 0 /\ k + j \in 1..Len(stream)
    BY <1>1, <1>2, <2>1
  <2>3. stream'[j] = stream[k + j]
    BY <1>2, <2>1
  <2>4. k + j \in DOMAIN stream
    BY <1>1, <2>2
  <2> QED
    BY <2>2, <2>3, <2>4
<1> QED
  BY <1>3, <1>4, <1>5

\* Where those of the stream come from when a message is sent.
LEMMA SendFrom ==
  ASSUME FramingTypeOK, Send
  PROVE  \A j \in DOMAIN stream' :
           \/ j \in DOMAIN stream /\ j <= Len(stream) /\ stream'[j] = stream[j]
           \/ j = Len(stream) + 1 /\ stream'[j] = First(next)
           \/ j = Len(stream) + 2 /\ stream'[j] = Second(next)
<1>1. stream \in Seq(Cell)
  BY DEF FramingTypeOK
<1> QED
  BY <1>1, SendCells

\* The place of a cell in the order of sending.
LEMMA SentPlace ==
  ASSUME next \in Nat, NEW s \in Seq(Cell), Sent(s), NEW i \in DOMAIN s
  PROVE  Place(s[i]) \in Nat /\ Place(s[i]) < 2 * next
<1>1. s[i] \in Cell /\ s[i].msg < next
  BY DEF Sent
<1> QED
  BY <1>1, CellPlace DEF Cell, Place

\* A step keeps the order of the cells and of the lines.
LEMMA OrderStep == ASSUME FramingTypeOK, StreamInv, OrderInv, [Next]_vars PROVE OrderInv'
<1>1. /\ stream \in Seq(Cell) /\ data \in Seq(Cell) /\ lines \in Seq(Seq(Cell))
      /\ Len(stream) \in Nat /\ Len(data) \in Nat /\ next \in Nat
  BY DEF FramingTypeOK
<1>2. CASE Send
  <2>1. next \in 1..MaxMsgs /\ UNCHANGED <<data, lines>> /\ next' = next + 1
    BY <1>2, SendCells DEF Send
  <2>2. /\ Place(First(next)) = 2 * next /\ First(next).msg = next
        /\ Place(Second(next)) = 2 * next + 1 /\ Second(next).msg = next
    BY <2>1 DEF First, Second, Place
  <2>3. ASSUME NEW t \in Seq(Cell), Sent(t), Below(t, stream)
        PROVE  Below(t, stream') /\ \A i \in DOMAIN t : t[i].msg < next'
    <3>1. ASSUME NEW i \in DOMAIN t, NEW j \in DOMAIN stream'
          PROVE  Place(t[i]) < Place(stream'[j])
      <4>1. Place(t[i]) \in Nat /\ Place(t[i]) < 2 * next
        BY <1>1, <2>3, SentPlace
      <4>2. CASE j \in DOMAIN stream /\ stream'[j] = stream[j]
        BY <2>3, <4>2 DEF Below
      <4>3. CASE stream'[j] = First(next) \/ stream'[j] = Second(next)
        BY <1>1, <2>2, <4>1, <4>3
      <4> QED
        BY <1>2, <4>2, <4>3, SendFrom
    <3>2. ASSUME NEW i \in DOMAIN t PROVE t[i].msg < next'
      <4>1. t[i] \in Cell /\ t[i].msg < next
        BY <2>3 DEF Sent
      <4> QED
        BY <1>1, <2>1, <4>1 DEF Cell
    <3> QED
      BY <3>1, <3>2 DEF Below
  <2>4. Ascending(stream')
    <3> SUFFICES ASSUME NEW i \in DOMAIN stream', NEW j \in DOMAIN stream', i < j
                 PROVE  Place(stream'[i]) < Place(stream'[j])
      BY DEF Ascending
    <3>1. CASE j \in DOMAIN stream /\ j <= Len(stream) /\ stream'[j] = stream[j]
      <4>1. i \in DOMAIN stream /\ stream'[i] = stream[i]
        BY <1>1, <1>2, <3>1, SendFrom
      <4> QED
        BY <3>1, <4>1 DEF OrderInv, Ascending
    <3>2. CASE j = Len(stream) + 1 /\ stream'[j] = First(next)
      <4>1. i \in DOMAIN stream /\ stream'[i] = stream[i]
        BY <1>1, <1>2, <3>2, SendFrom
      <4> QED
        BY <1>1, <2>2, <3>2, <4>1, SentPlace DEF OrderInv
    <3>3. CASE j = Len(stream) + 2 /\ stream'[j] = Second(next)
      <4>1. \/ i \in DOMAIN stream /\ stream'[i] = stream[i]
            \/ stream'[i] = First(next)
        BY <1>1, <1>2, <3>3, SendFrom
      <4>2. CASE i \in DOMAIN stream /\ stream'[i] = stream[i]
        <5>1. Place(stream[i]) \in Nat /\ Place(stream[i]) < 2 * next
          BY <1>1, <4>2, SentPlace DEF OrderInv
        <5> QED
          BY <1>1, <2>2, <3>3, <4>2, <5>1
      <4> QED
        BY <1>1, <2>2, <3>3, <4>1, <4>2
    <3> QED
      BY <1>2, <3>1, <3>2, <3>3, SendFrom
  <2>5. Sent(stream)'
    <3> SUFFICES ASSUME NEW j \in DOMAIN stream' PROVE stream'[j].msg < next'
      BY DEF Sent
    <3>1. CASE j \in DOMAIN stream /\ stream'[j] = stream[j]
      <4>1. stream[j] \in Cell /\ stream[j].msg < next
        BY <1>1, <3>1 DEF OrderInv, Sent
      <4> QED
        BY <1>1, <2>1, <3>1, <4>1 DEF Cell
    <3>2. CASE stream'[j] = First(next) \/ stream'[j] = Second(next)
      BY <1>1, <2>1, <2>2, <3>2
    <3> QED
      BY <1>2, <3>1, <3>2, SendFrom
  <2>6. Below(data, stream)' /\ Sent(data)'
    BY <1>1, <2>1, <2>3 DEF OrderInv, Below, Sent
  <2>7. ASSUME NEW k \in DOMAIN lines
        PROVE  Sent(lines[k])' /\ Below(lines[k], data)' /\ Below(lines[k], stream)'
    <3>1. /\ lines[k] \in Seq(Cell) /\ Sent(lines[k])
          /\ Below(lines[k], data) /\ Below(lines[k], stream)
      BY <1>1 DEF OrderInv
    <3>2. Below(lines[k], stream') /\ \A i \in DOMAIN lines[k] : lines[k][i].msg < next'
      BY <2>3, <3>1
    <3> QED
      BY <2>1, <3>1, <3>2 DEF Below, Sent
  <2>8. Ascending(data)' /\ \A j, k \in DOMAIN lines : j < k => Below(lines[j], lines[k])'
    BY <2>1 DEF OrderInv, Ascending, Below
  <2> QED
    BY <2>1, <2>4, <2>5, <2>6, <2>7, <2>8 DEF OrderInv, Ascending
<1>3. ASSUME NEW k, ReadSome(k) PROVE OrderInv'
  <2>1. UNCHANGED <<next, lines>> /\ k \in Nat
    BY <1>1, <1>3 DEF ReadSome
  <2>2. \A j \in DOMAIN data' :
          \/ j \in DOMAIN data /\ j <= Len(data) /\ data'[j] = data[j]
          \/ /\ j > Len(data) /\ j - Len(data) \in DOMAIN stream /\ j - Len(data) <= k
             /\ data'[j] = stream[j - Len(data)]
    BY <1>3, ReadFrom
  <2>3. \A j \in DOMAIN stream' :
          j \in Nat /\ k + j \in DOMAIN stream /\ j > 0 /\ stream'[j] = stream[k + j]
    BY <1>3, ReadFrom
  <2>4. data' \in Seq(Cell) /\ stream' \in Seq(Cell)
    BY <1>3, ReadCells
  <2>5. Ascending(data)'
    <3> SUFFICES ASSUME NEW i \in DOMAIN data', NEW j \in DOMAIN data', i < j
                 PROVE  Place(data'[i]) < Place(data'[j])
      BY DEF Ascending
    <3>1. CASE j \in DOMAIN data /\ j <= Len(data) /\ data'[j] = data[j]
      <4>1. i \in DOMAIN data /\ data'[i] = data[i]
        BY <1>1, <2>2, <2>4, <3>1
      <4> QED
        BY <3>1, <4>1 DEF OrderInv, Ascending
    <3>2. CASE /\ j > Len(data) /\ j - Len(data) \in DOMAIN stream
               /\ data'[j] = stream[j - Len(data)]
      <4>1. CASE i \in DOMAIN data /\ data'[i] = data[i]
        BY <3>2, <4>1 DEF OrderInv, Below
      <4>2. CASE i - Len(data) \in DOMAIN stream /\ data'[i] = stream[i - Len(data)]
        <5>1. i - Len(data) < j - Len(data)
          BY <1>1, <2>4
        <5> QED
          BY <3>2, <4>2, <5>1 DEF OrderInv, Ascending
      <4> QED
        BY <2>2, <4>1, <4>2
    <3> QED
      BY <2>2, <3>1, <3>2
  <2>6. Ascending(stream)'
    <3> SUFFICES ASSUME NEW i \in DOMAIN stream', NEW j \in DOMAIN stream', i < j
                 PROVE  Place(stream'[i]) < Place(stream'[j])
      BY DEF Ascending
    <3>1. /\ k + i \in DOMAIN stream /\ k + j \in DOMAIN stream /\ k + i < k + j
          /\ stream'[i] = stream[k + i] /\ stream'[j] = stream[k + j]
      BY <2>1, <2>3
    <3> QED
      BY <3>1 DEF OrderInv, Ascending
  <2>7. Below(data, stream)'
    <3> SUFFICES ASSUME NEW i \in DOMAIN data', NEW j \in DOMAIN stream'
                 PROVE  Place(data'[i]) < Place(stream'[j])
      BY DEF Below
    <3>1. k + j \in DOMAIN stream /\ stream'[j] = stream[k + j] /\ j \in Nat /\ j > 0
      BY <2>3
    <3>2. CASE i \in DOMAIN data /\ data'[i] = data[i]
      BY <3>1, <3>2 DEF OrderInv, Below
    <3>3. CASE /\ i - Len(data) \in DOMAIN stream /\ i - Len(data) <= k
               /\ data'[i] = stream[i - Len(data)]
      <4>1. i - Len(data) < k + j
        BY <1>1, <2>1, <2>4, <3>1, <3>3
      <4> QED
        BY <3>1, <3>3, <4>1 DEF OrderInv, Ascending
    <3> QED
      BY <2>2, <3>2, <3>3
  <2>8. Sent(data)' /\ Sent(stream)'
    BY <2>1, <2>2, <2>3 DEF OrderInv, Sent
  <2>9. ASSUME NEW x \in DOMAIN lines
        PROVE  Below(lines[x], data)' /\ Below(lines[x], stream)' /\ Sent(lines[x])'
    <3>1. Below(lines[x], data) /\ Below(lines[x], stream) /\ Sent(lines[x])
      BY DEF OrderInv
    <3>2. Below(lines[x], data')
      BY <2>2, <3>1 DEF Below
    <3>3. Below(lines[x], stream')
      BY <2>3, <3>1 DEF Below
    <3> QED
      BY <2>1, <3>1, <3>2, <3>3 DEF Below, Sent
  <2> QED
    BY <2>1, <2>5, <2>6, <2>7, <2>8, <2>9 DEF OrderInv, Below
<1>4. CASE HandleLine
  <2> DEFINE e == FirstEnd(data)
             n == Len(lines) + 1
  <2>1. /\ data' = <<>> /\ UNCHANGED <<stream, next>>
        /\ e \in 1..Len(data) /\ Line(data) \in Seq(Cell) /\ Len(Line(data)) = e
        /\ \A i \in 1..e : Line(data)[i] = data[i]
        /\ lines' \in Seq(Seq(Cell)) /\ Len(lines') = n
        /\ \A i \in 1..Len(lines) : lines'[i] = lines[i]
        /\ lines'[n] = Line(data)
    BY <1>4, LineCells DEF HandleLine
  <2>2. \A i \in DOMAIN Line(data) : i \in DOMAIN data /\ Line(data)[i] = data[i]
    BY <1>1, <2>1
  <2>3. /\ Sent(Line(data)) /\ Below(Line(data), stream)
        /\ \A x \in DOMAIN lines : Below(lines[x], Line(data))
    BY <2>2 DEF OrderInv, Sent, Below
  <2>4. \A x \in DOMAIN lines' : (x \in DOMAIN lines /\ lines'[x] = lines[x]) \/ x = n
    <3>1. DOMAIN lines' = 1..(Len(lines) + 1) /\ DOMAIN lines = 1..Len(lines) /\ Len(lines) \in Nat
      BY <1>1, <2>1
    <3> QED
      BY <2>1, <3>1
  <2>5. ASSUME NEW x \in DOMAIN lines'
        PROVE  Sent(lines[x])' /\ Below(lines[x], data)' /\ Below(lines[x], stream)'
    <3>1. Sent(lines'[x]) /\ Below(lines'[x], stream)
      BY <2>1, <2>3, <2>4 DEF OrderInv
    <3> QED
      BY <2>1, <3>1 DEF Sent, Below
  <2>6. ASSUME NEW x \in DOMAIN lines', NEW y \in DOMAIN lines', x < y
        PROVE  Below(lines'[x], lines'[y])
    <3>1. x \in DOMAIN lines /\ lines'[x] = lines[x]
      <4>1. x \in 1..n /\ y \in 1..n /\ n \in Nat
        BY <1>1, <2>1, <2>6
      <4>2. x # n
        BY <2>6, <4>1
      <4> QED
        BY <2>4, <4>2
    <3> QED
      BY <2>1, <2>3, <2>4, <2>6, <3>1 DEF OrderInv
  <2>7. Ascending(data)' /\ Ascending(stream)' /\ Below(data, stream)' /\ Sent(data)'
        /\ Sent(stream)'
    BY <2>1 DEF OrderInv, Ascending, Below, Sent
  <2> QED
    BY <2>5, <2>6, <2>7 DEF OrderInv, Below
<1>5. CASE ConnectionEnds
  <2>1. /\ stream' = <<>> /\ UNCHANGED <<next, lines>> /\ data' \in {data, <<>>}
    BY <1>5 DEF ConnectionEnds
  <2> QED
    BY <2>1 DEF OrderInv, Ascending, Below, Sent
<1> QED
  BY <1>2, <1>3, <1>4, <1>5 DEF Next, vars, OrderInv, Ascending, Below, Sent

\* A message at the head stays there, or is the next line.
LEMMA HeadKept ==
  ASSUME FramingTypeOK, StreamInv, NEW m \in 1..MaxMsgs, AtHead(m),
         Send \/ \E k \in 1..(2 * MaxMsgs) : ReadSome(k)
  PROVE  AtHead(m)'
<1>1. stream \in Seq(Cell) /\ data \in Seq(Cell) /\ Len(stream) \in Nat /\ Len(data) \in Nat
  BY DEF FramingTypeOK
<1>2. CASE Send
  <2>1. /\ Len(stream') = Len(stream) + 2 /\ data' = data
        /\ \A i \in 1..Len(stream) : stream'[i] = stream[i]
    BY <1>2, SendCells DEF Send
  <2>2. Len(stream) >= 1 => stream'[1] = stream[1]
    BY <1>1, <2>1
  <2>3. Len(stream) >= 2 => stream'[2] = stream[2]
    BY <1>1, <2>1
  <2> QED
    BY <1>1, <2>1, <2>2, <2>3 DEF AtHead
<1>3. ASSUME NEW k, ReadSome(k) PROVE AtHead(m)'
  <2>1. /\ k \in 1..Len(stream)
        /\ data' \in Seq(Cell) /\ Len(data') = Len(data) + k
        /\ \A i \in 1..Len(data) : data'[i] = data[i]
        /\ \A i \in 1..k : data'[Len(data) + i] = stream[i]
        /\ Len(stream') = Len(stream) - k
        /\ \A i \in 1..(Len(stream) - k) : stream'[i] = stream[k + i]
    BY <1>3, ReadCells
  <2>2. 1 \in 1..k /\ k \in Nat
    BY <1>1, <2>1
  <2>3. ~(Len(data) >= 2 /\ data[2] = Second(m))
    <3>1. \A j \in DOMAIN data : ~data[j].last
      BY <1>1, <1>3, NoEnd DEF ReadSome
    <3> QED
      BY <1>1, <3>1 DEF Second
  <2>4. CASE Len(data) = 1 /\ data[1] = First(m) /\ stream[1] = Second(m)
    <3>1. data'[1] = First(m)
      BY <2>1, <2>4
    <3>2. data'[1 + 1] = Second(m) /\ Len(data') >= 2
      BY <1>1, <2>1, <2>2, <2>4
    <3> QED
      BY <3>1, <3>2 DEF AtHead
  <2>5. CASE data = <<>> /\ Len(stream) >= 2 /\ stream[1] = First(m) /\ stream[2] = Second(m)
    <3>1. Len(data) = 0 /\ Len(data') = k
      BY <1>1, <2>1, <2>5
    <3>2. data'[1] = First(m)
      <4>1. data'[0 + 1] = stream[1]
        BY <2>1, <2>2, <3>1
      <4> QED
        BY <2>5, <4>1
    <3>3. CASE k = 1
      <4>1. 1 \in 1..(Len(stream) - k) /\ Len(stream') >= 1
        BY <1>1, <2>1, <2>5, <3>3
      <4>2. stream'[1] = stream[1 + 1]
        BY <2>1, <3>3, <4>1
      <4> QED
        BY <2>5, <3>1, <3>2, <3>3, <4>1, <4>2 DEF AtHead
    <3>4. CASE k >= 2
      <4>1. data'[0 + 2] = stream[2]
        BY <2>1, <2>2, <3>1, <3>4
      <4> QED
        BY <2>5, <3>1, <3>2, <3>4, <4>1 DEF AtHead
    <3> QED
      BY <2>2, <3>3, <3>4, <2>1
  <2> QED
    BY <2>3, <2>4, <2>5 DEF AtHead
<1> QED
  BY <1>2, <1>3

\* The line that is handled is the message at the head.
LEMMA HeadHandled ==
  ASSUME FramingTypeOK, StreamInv, NEW m \in 1..MaxMsgs, AtHead(m), HandleLine
  PROVE  Line(data) = Message(m)
<1> DEFINE e == FirstEnd(data)
<1>1. data \in Seq(Cell) /\ Len(data) \in Nat
  BY DEF FramingTypeOK
<1>2. /\ e \in 1..Len(data) /\ data[e].last /\ \A j \in 1..(e - 1) : ~data[j].last
      /\ Line(data) \in Seq(Cell) /\ Len(Line(data)) = e
      /\ \A i \in 1..e : Line(data)[i] = data[i]
  BY LineCells
<1>3. ~First(m).last /\ Second(m).last
  BY DEF First, Second
<1> HIDE DEF e
<1>4. Len(data) >= 2 /\ data[1] = First(m) /\ data[2] = Second(m)
  <2>1. ~(Len(data) = 1 /\ data[1] = First(m))
    BY <1>2, <1>3
  <2>2. data # <<>>
    BY <1>1, <1>2
  <2> QED
    BY <2>1, <2>2 DEF AtHead
<1>5. e = 2
  BY <1>1, <1>2, <1>3, <1>4
<1>6. /\ Message(m) \in Seq(Cell) /\ Len(Message(m)) = 2
      /\ Message(m)[1] = First(m) /\ Message(m)[2] = Second(m)
  BY MessageCells
<1>7. Line(data)[1] = First(m) /\ Line(data)[2] = Second(m)
  BY <1>2, <1>4, <1>5
<1>8. \A i \in 1..2 : Line(data)[i] = Message(m)[i]
  BY <1>6, <1>7
<1> QED
  BY <1>2, <1>5, <1>6, <1>8, SeqEqual

\* The garbled lines can be counted.
LEMMA GarbledTypes ==
  ASSUME lines \in Seq(Seq(Cell))
  PROVE  IsFiniteSet(Garbled) /\ Cardinality(Garbled) \in Nat
<1>1. Garbled \in SUBSET (1..Len(lines)) /\ Len(lines) \in Nat
  BY DEF Garbled
<1>2. IsFiniteSet(1..Len(lines))
  BY <1>1, FS_Interval
<1>3. IsFiniteSet(Garbled)
  BY <1>1, <1>2, FS_Subset
<1> QED
  BY <1>3, FS_CardinalityType

\* With an empty streambuf and a message at the start of the stream.
LEMMA Aligned ==
  ASSUME FramingTypeOK, StreamInv, stream # <<>> => ~stream[1].last,
         data' = <<>>, stream' = stream
  PROVE  InStep'
<1>1. CASE stream = <<>>
  BY <1>1 DEF InStep
<1>2. CASE stream # <<>>
  <2>1. stream \in Seq(Cell) /\ 1 \in DOMAIN stream
    BY <1>2 DEF FramingTypeOK
  <2>2. 1 + 1 \in DOMAIN stream /\ stream[1 + 1] = Second(stream[1].msg)
    BY <1>2, <2>1 DEF StreamInv
  <2>3. stream[1] \in Cell
    BY <2>1
  <2>4. stream[1].msg \in 1..MaxMsgs /\ stream[1] = First(stream[1].msg)
    BY <1>2, <2>3, CellPlace
  <2>5. AtHead(stream[1].msg)'
    <3>1. Len(stream) >= 2 /\ stream[2] = Second(stream[1].msg)
      BY <2>1, <2>2
    <3> QED
      BY <2>4, <3>1 DEF AtHead
  <2> QED
    BY <2>4, <2>5 DEF InStep
<1> QED
  BY <1>1, <1>2

\* A message sent into an empty stream is at its head.
LEMMA SendAlone ==
  ASSUME FramingTypeOK, Send, stream = <<>>, data = <<>>
  PROVE  /\ next \in 1..MaxMsgs
         /\ \A m \in 1..MaxMsgs : m = next => AtHead(m)'
<1>1. /\ next \in 1..MaxMsgs /\ Len(stream') = Len(stream) + 2 /\ data' = <<>>
      /\ stream'[Len(stream) + 1] = First(next) /\ stream'[Len(stream) + 2] = Second(next)
  BY SendCells DEF Send
<1>2. Len(stream) = 0
  OBVIOUS
<1> QED
  BY <1>1, <1>2 DEF AtHead

\* A step keeps the account of garbled lines.
LEMMA GarbledStep ==
  ASSUME FramingTypeOK, StreamInv, GarbledInv, [Next]_vars
  PROVE  GarbledInv'
<1>1. /\ stream \in Seq(Cell) /\ data \in Seq(Cell) /\ lines \in Seq(Seq(Cell))
      /\ discarded \in Nat /\ stale \in Nat /\ Cardinality(Garbled) \in Nat
  BY GarbledTypes DEF FramingTypeOK
<1>2. ASSUME UNCHANGED <<lines, discarded, stale>>, InStep => InStep'
      PROVE  GarbledInv'
  <2>1. Garbled' = Garbled
    BY <1>2 DEF Garbled
  <2> QED
    BY <1>1, <1>2, <2>1 DEF GarbledInv
<1>3. CASE Send
  <2>1. InStep => InStep'
    <3>1. CASE data = <<>> /\ stream = <<>>
      BY <1>3, <3>1, SendAlone DEF InStep
    <3>2. ASSUME NEW m \in 1..MaxMsgs, AtHead(m) PROVE InStep'
      BY <1>3, <3>2, HeadKept DEF InStep
    <3> QED
      BY <3>1, <3>2 DEF InStep
  <2> QED
    BY <1>2, <1>3, <2>1 DEF Send
<1>4. ASSUME NEW k \in 1..(2 * MaxMsgs), ReadSome(k) PROVE GarbledInv'
  <2>1. InStep => InStep'
    <3>1. stream # <<>>
      BY <1>1, <1>4 DEF ReadSome
    <3>2. ASSUME NEW m \in 1..MaxMsgs, AtHead(m) PROVE InStep'
      BY <1>4, <3>2, HeadKept DEF InStep
    <3> QED
      BY <3>1, <3>2 DEF InStep
  <2> QED
    BY <1>2, <1>4, <2>1 DEF ReadSome
<1>5. CASE HandleLine
  <2> DEFINE n == Len(lines) + 1
  <2>1. /\ lines' \in Seq(Seq(Cell)) /\ Len(lines') = n
        /\ \A i \in 1..Len(lines) : lines'[i] = lines[i]
        /\ lines'[n] = Line(data)
        /\ FirstEnd(data) \in 1..Len(data) /\ data[FirstEnd(data)].last
        /\ Rest(data) = <<>> => FirstEnd(data) = Len(data)
    BY <1>5, LineCells
  <2>2. /\ data' = <<>> /\ UNCHANGED <<stream, stale>>
        /\ discarded' = IF Rest(data) = <<>> THEN discarded ELSE discarded + 1
    BY <1>5 DEF HandleLine
  <2>3. DOMAIN lines' = 1..n /\ DOMAIN lines = 1..Len(lines) /\ Len(lines) \in Nat
    BY <1>1, <2>1
  <2>4. Garbled' \subseteq Garbled \cup {n} /\ (Whole(Line(data)) => Garbled' \subseteq Garbled)
    <3>1. ASSUME NEW i \in Garbled' PROVE i \in Garbled \/ (i = n /\ ~Whole(Line(data)))
      <4>1. i \in 1..n /\ ~Whole(lines'[i])
        BY <2>3 DEF Garbled, Whole
      <4>2. CASE i \in 1..Len(lines)
        BY <2>1, <2>3, <4>1, <4>2 DEF Garbled
      <4>3. CASE i = n
        BY <2>1, <4>1, <4>3
      <4> QED
        BY <2>3, <4>1, <4>2, <4>3
    <3> QED
      BY <3>1
  <2>5. /\ IsFiniteSet(Garbled) /\ Cardinality(Garbled') \in Nat
    <3>1. IsFiniteSet(Garbled)
      BY <1>1, GarbledTypes
    <3>2. IsFiniteSet(Garbled \cup {n})
      BY <3>1, FS_AddElement
    <3>3. IsFiniteSet(Garbled')
      BY <2>4, <3>2, FS_Subset
    <3> QED
      BY <3>1, <3>3, FS_CardinalityType
  <2>6. Cardinality(Garbled') <= Cardinality(Garbled) + 1
    <3>1. /\ IsFiniteSet(Garbled \cup {n})
          /\ Cardinality(Garbled \cup {n}) <= Cardinality(Garbled) + 1
          /\ Cardinality(Garbled \cup {n}) \in Nat
      <4>1. IsFiniteSet(Garbled)
        BY <2>5
      <4>2. /\ IsFiniteSet(Garbled \cup {n})
            /\ \/ Cardinality(Garbled \cup {n}) = Cardinality(Garbled)
               \/ Cardinality(Garbled \cup {n}) = Cardinality(Garbled) + 1
        BY <4>1, FS_AddElement, Zenon
      <4> QED
        BY <1>1, <4>2
    <3>2. Cardinality(Garbled') <= Cardinality(Garbled \cup {n})
      BY <2>4, <3>1, FS_Subset
    <3> QED
      BY <1>1, <2>5, <3>1, <3>2
  <2>7. Whole(Line(data)) => Cardinality(Garbled') <= Cardinality(Garbled)
    BY <2>4, <2>5, FS_Subset
  <2>8. InStep => Whole(Line(data))
    <3>1. data # <<>>
      BY <1>1, <2>1
    <3>2. ASSUME NEW m \in 1..MaxMsgs, AtHead(m) PROVE Whole(Line(data))
      BY <1>5, <3>2, HeadHandled DEF Whole
    <3> QED
      BY <3>1, <3>2 DEF InStep
  <2>9. Rest(data) = <<>> => InStep'
    <3> SUFFICES ASSUME Rest(data) = <<>> PROVE InStep'
      OBVIOUS
    <3>1. data # <<>> /\ data[Len(data)].last
      BY <1>1, <2>1
    <3>2. stream # <<>> => ~stream[1].last
      BY <3>1 DEF StreamInv
    <3> QED
      BY <2>2, <3>2, Aligned
  <2>10. /\ Cardinality(Garbled') <= discarded + stale
         /\ Rest(data) # <<>> => Cardinality(Garbled') + 1 <= discarded' + stale
    <3>1. CASE InStep
      BY <1>1, <2>2, <2>5, <2>7, <2>8, <3>1 DEF GarbledInv
    <3>2. CASE ~InStep
      BY <1>1, <2>2, <2>5, <2>6, <3>2 DEF GarbledInv
    <3> QED
      BY <3>1, <3>2
  <2> QED
    BY <1>1, <2>2, <2>5, <2>9, <2>10 DEF GarbledInv
<1>6. CASE ConnectionEnds
  <2>1. /\ stream' = <<>> /\ UNCHANGED <<lines, discarded>>
        /\ \/ data' = <<>> /\ stale' \in {stale, stale + 1}
           \/ data' # <<>> /\ stale' = stale + 1
    BY <1>6 DEF ConnectionEnds
  <2>2. Garbled' = Garbled
    BY <2>1 DEF Garbled
  <2>3. Cardinality(Garbled) <= discarded + stale
    BY <1>1 DEF GarbledInv
  <2>4. data' = <<>> => InStep'
    BY <2>1 DEF InStep
  <2> QED
    BY <1>1, <2>1, <2>2, <2>3, <2>4 DEF GarbledInv
<1>7. CASE UNCHANGED vars
  <2>1. InStep => InStep'
    BY <1>7 DEF vars, InStep, AtHead
  <2> QED
    BY <1>2, <1>7, <2>1 DEF vars
<1> QED
  BY <1>3, <1>4, <1>5, <1>6, <1>7 DEF Next

\* A step keeps what becomes of messages sent alone.
LEMMA LoneStep ==
  ASSUME FramingTypeOK, StreamInv, LoneInv, [Next]_vars
  PROVE  LoneInv'
<1>1. /\ stream \in Seq(Cell) /\ data \in Seq(Cell) /\ lines \in Seq(Seq(Cell))
      /\ next \in 1..(MaxMsgs + 1) /\ ends \in Nat
  BY DEF FramingTypeOK
<1>2. CASE Send
  <2>1. /\ next \in 1..MaxMsgs /\ next' = next + 1 /\ UNCHANGED <<ends, lines>>
        /\ crowded' = IF stream \o data = <<>> THEN crowded ELSE crowded \cup {next}
    BY <1>2, SendCells DEF Send
  <2>2. stream \o data = <<>> => stream = <<>> /\ data = <<>>
    <3>1. Len(stream \o data) = Len(stream) + Len(data)
      BY <1>1
    <3> QED
      BY <1>1, <3>1
  <2>3. crowded' \subseteq 1..(next' - 1)
    <3>1. crowded \subseteq 1..(next - 1) /\ next \in Nat /\ next >= 1
      BY <1>1 DEF LoneInv, FramingTypeOK
    <3> QED
      BY <2>1, <3>1
  <2>4. ASSUME ends = 0, NEW m \in 1..(next' - 1)
        PROVE  m \in crowded' \/ Handled(m)' \/ AtHead(m)'
    <3>1. CASE m = next
      BY <1>2, <2>1, <2>2, <3>1, SendAlone
    <3>2. CASE m \in 1..(next - 1)
      <4>1. m \in crowded \/ Handled(m) \/ AtHead(m)
        BY <2>4, <3>2 DEF LoneInv
      <4>2. m \in 1..MaxMsgs
        BY <1>1, <3>2
      <4>3. AtHead(m) => AtHead(m)'
        BY <1>2, <4>2, HeadKept
      <4> QED
        BY <2>1, <4>1, <4>3 DEF Handled
    <3> QED
      BY <2>1, <2>4, <3>1, <3>2
  <2> QED
    BY <2>1, <2>3, <2>4 DEF LoneInv
<1>3. ASSUME NEW k \in 1..(2 * MaxMsgs), ReadSome(k) PROVE LoneInv'
  <2>1. UNCHANGED <<next, ends, lines, crowded>>
    BY <1>3 DEF ReadSome
  <2>2. \A m \in 1..MaxMsgs : AtHead(m) => AtHead(m)'
    BY <1>3, HeadKept
  <2> QED
    BY <1>1, <2>1, <2>2 DEF LoneInv, Handled
<1>4. CASE HandleLine
  <2>1. UNCHANGED <<next, ends, crowded>>
    BY <1>4 DEF HandleLine
  <2>2. /\ lines' \in Seq(Seq(Cell)) /\ Len(lines') = Len(lines) + 1
        /\ \A i \in 1..Len(lines) : lines'[i] = lines[i]
        /\ lines'[Len(lines) + 1] = Line(data)
    BY <1>4, LineCells
  <2>3. Len(lines) + 1 \in DOMAIN lines' /\ \A i \in DOMAIN lines : i \in DOMAIN lines' /\ lines'[i] = lines[i]
    <3>1. DOMAIN lines' = 1..(Len(lines) + 1) /\ DOMAIN lines = 1..Len(lines) /\ Len(lines) \in Nat
      BY <1>1, <2>2
    <3> QED
      BY <2>2, <3>1
  <2>4. ASSUME NEW m \in 1..MaxMsgs, Handled(m) \/ AtHead(m) PROVE Handled(m)'
    <3>1. CASE Handled(m)
      BY <2>3, <3>1 DEF Handled, Message
    <3>2. CASE AtHead(m)
      <4>1. Line(data) = Message(m)
        BY <1>4, <3>2, HeadHandled
      <4> QED
        BY <2>2, <2>3, <4>1 DEF Handled, Message
    <3> QED
      BY <2>4, <3>1, <3>2
  <2> QED
    BY <1>1, <2>1, <2>4 DEF LoneInv
<1>5. CASE ConnectionEnds
  BY <1>1, <1>5 DEF ConnectionEnds, LoneInv
<1>6. CASE UNCHANGED vars
  BY <1>6 DEF vars, LoneInv, Handled, AtHead
<1> QED
  BY <1>2, <1>3, <1>4, <1>5, <1>6 DEF Next

-----------------------------------------------------------------------------
(* The cells as a stream of lines. *)

\* From the first terminator on, what is unread is everything sent after it.
ContigInv ==
  \A i \in DOMAIN Unread :
    (\E j \in 1..i : Unread[j].last) => Place(Unread[i]) = 2 * next - 1 - Len(Unread) + i

\* A reader whose streambuf ends with its connection has no beginning of an old line.
LeftoverInv == KeepsBuffer \/ ~Leftover

\* What is unread is what the streambuf holds and then the stream.
LEMMA UnreadCells ==
  ASSUME data \in Seq(Cell), stream \in Seq(Cell)
  PROVE  /\ Unread \in Seq(Cell) /\ Len(Unread) = Len(data) + Len(stream)
         /\ DOMAIN Unread = 1..(Len(data) + Len(stream))
         /\ \A i \in 1..Len(data) : Unread[i] = data[i]
         /\ \A i \in 1..Len(stream) : Unread[Len(data) + i] = stream[i]
<1>1. /\ Unread \in Seq(Cell) /\ Len(Unread) = Len(data) + Len(stream)
      /\ \A i \in 1..(Len(data) + Len(stream)) : Unread[i] =
           IF i <= Len(data) THEN data[i] ELSE stream[i - Len(data)]
  BY Concatenated DEF Unread
<1>2. Len(data) \in Nat /\ Len(stream) \in Nat
  OBVIOUS
<1>3. \A i \in 1..Len(data) : i \in 1..(Len(data) + Len(stream)) /\ i <= Len(data)
  BY <1>2
<1>4. \A i \in 1..Len(stream) : /\ Len(data) + i \in 1..(Len(data) + Len(stream))
                                /\ ~(Len(data) + i <= Len(data))
                                /\ Len(data) + i - Len(data) = i
  BY <1>2
<1> QED
  BY <1>1, <1>3, <1>4

\* The first cell with a terminator is where FirstEnd points.
LEMMA FirstEndIs ==
  ASSUME NEW s \in Seq(Cell), NEW e \in DOMAIN s, s[e].last, \A j \in 1..(e - 1) : ~s[j].last
  PROVE  FirstEnd(s) = e
<1>1. FirstEnd(s) = CHOOSE k \in DOMAIN s : s[k].last /\ \A j \in 1..(k - 1) : ~s[j].last
  BY DEF FirstEnd
<1>2. FirstEnd(s) \in DOMAIN s /\ s[FirstEnd(s)].last
      /\ \A j \in 1..(FirstEnd(s) - 1) : ~s[j].last
  BY <1>1, Zenon
<1> DEFINE f == FirstEnd(s)
<1>3. f \in Int /\ e \in Int /\ f >= 1 /\ e >= 1
  BY <1>2
<1> HIDE DEF f
<1>4. ~(f < e) /\ ~(e < f)
  BY <1>2, <1>3 DEF f
<1> QED
  BY <1>3, <1>4 DEF f

\* A text without a terminator.
LEMMA FirstEndNone ==
  ASSUME NEW s, \A k \in DOMAIN s : ~s[k].last PROVE FirstEnd(s) = 0
BY DEF FirstEnd

\* The first terminator among the cells that are unread: the streambuf's if it has one,
\* else the first or the second cell of the stream.
LEMMA UnreadEnd ==
  ASSUME FramingTypeOK, StreamInv
  PROVE  LET e == FirstEnd(Unread) IN
         /\ e = 0 => stream = <<>> /\ \A k \in DOMAIN Unread : ~Unread[k].last
         /\ e # 0 => /\ e \in 1..Len(Unread) /\ Unread[e].last
                     /\ \A j \in 1..(e - 1) : ~Unread[j].last
         /\ FirstEnd(data) # 0 => e = FirstEnd(data)
         /\ data = <<>> => \/ stream = <<>> /\ e = 0
                           \/ e = 1
                           \/ e = 2 /\ stream[1].msg = stream[2].msg
<1>1. /\ stream \in Seq(Cell) /\ data \in Seq(Cell) /\ Len(stream) \in Nat /\ Len(data) \in Nat
  BY DEF FramingTypeOK
<1>2. /\ Unread \in Seq(Cell) /\ Len(Unread) = Len(data) + Len(stream)
      /\ DOMAIN Unread = 1..(Len(data) + Len(stream))
      /\ \A i \in 1..Len(data) : Unread[i] = data[i]
      /\ \A i \in 1..Len(stream) : Unread[Len(data) + i] = stream[i]
  BY <1>1, UnreadCells
<1> DEFINE U == Unread
           n == Len(data)
<1> HIDE DEF U, n
<1>3. CASE FirstEnd(data) # 0
  <2> DEFINE e == FirstEnd(data)
  <2>1. e \in 1..n /\ data[e].last /\ \A j \in 1..(e - 1) : ~data[j].last
    BY <1>1, <1>3, FirstEndFound DEF n
  <2> HIDE DEF e
  <2>2. e \in DOMAIN U /\ U[e].last
    BY <1>1, <1>2, <2>1 DEF U, n
  <2>3. \A j \in 1..(e - 1) : j \in 1..n
    BY <1>1, <2>1 DEF n
  <2>4. \A j \in 1..(e - 1) : ~U[j].last
    BY <1>2, <2>1, <2>3 DEF U, n
  <2>5. FirstEnd(U) = e
    BY <1>2, <2>2, <2>4, FirstEndIs DEF U
  <2>6. data # <<>> /\ e # 0
    BY <1>1, <2>1 DEF n
  <2> QED
    BY <1>2, <2>1, <2>2, <2>4, <2>5, <2>6 DEF U, e
<1>4. CASE FirstEnd(data) = 0 /\ stream = <<>>
  <2>1. \A k \in DOMAIN data : ~data[k].last
    BY <1>1, <1>4, NoEnd
  <2>2. \A k \in DOMAIN Unread : ~Unread[k].last
    BY <1>1, <1>2, <1>4, <2>1
  <2>3. FirstEnd(Unread) = 0
    BY <2>2, FirstEndNone
  <2> QED
    BY <1>4, <2>2, <2>3
<1>5. CASE FirstEnd(data) = 0 /\ stream # <<>>
  <2>1. \A k \in 1..n : ~U[k].last
    BY <1>1, <1>2, <1>5, NoEnd DEF U, n
  <2>2. /\ 1 \in DOMAIN stream /\ n + 1 \in DOMAIN U /\ U[n + 1] = stream[1]
    BY <1>1, <1>2, <1>5 DEF U, n
  <2>3. CASE stream[1].last
    <3> DEFINE e == n + 1
    <3>1. e \in Nat /\ e # 0 /\ (data = <<>> => e = 1) /\ \A j \in 1..(e - 1) : j \in 1..n
      BY <1>1 DEF n
    <3>2. e \in DOMAIN U /\ U[e].last
      BY <2>2, <2>3
    <3> HIDE DEF e
    <3>3. \A j \in 1..(e - 1) : ~U[j].last
      BY <2>1, <3>1
    <3>4. FirstEnd(U) = e
      BY <1>2, <3>2, <3>3, FirstEndIs DEF U
    <3> QED
      BY <1>2, <1>5, <3>1, <3>2, <3>3, <3>4 DEF U
  <2>4. CASE ~stream[1].last
    <3> DEFINE e == n + 2
    <3>1. 1 + 1 \in DOMAIN stream /\ stream[1 + 1] = Second(stream[1].msg)
      BY <2>2, <2>4 DEF StreamInv
    <3>2. /\ e \in DOMAIN U /\ U[e].last
          /\ stream[2].msg = stream[1].msg
      BY <1>1, <1>2, <3>1 DEF U, n, Second
    <3>3. /\ e \in Nat /\ e # 0 /\ (data = <<>> => e = 2)
          /\ \A j \in 1..(e - 1) : j \in 1..n \/ j = n + 1
      BY <1>1 DEF n
    <3> HIDE DEF e
    <3>4. \A j \in 1..(e - 1) : ~U[j].last
      BY <2>1, <2>2, <2>4, <3>3
    <3>5. FirstEnd(U) = e
      BY <1>2, <3>2, <3>4, FirstEndIs DEF U
    <3> QED
      BY <1>2, <1>5, <3>2, <3>3, <3>4, <3>5 DEF U
  <2> QED
    BY <2>3, <2>4
<1> QED
  BY <1>3, <1>4, <1>5

\* What is unread is in the order it was sent.
LEMMA UnreadOrder ==
  ASSUME FramingTypeOK, OrderInv PROVE Ascending(Unread) /\ Sent(Unread)
<1>1. /\ stream \in Seq(Cell) /\ data \in Seq(Cell) /\ Len(stream) \in Nat /\ Len(data) \in Nat
  BY DEF FramingTypeOK
<1> DEFINE n == Len(data)
<1>2. /\ DOMAIN Unread = 1..(n + Len(stream))
      /\ \A i \in 1..n : Unread[i] = data[i]
      /\ \A i \in 1..Len(stream) : Unread[n + i] = stream[i]
  BY <1>1, UnreadCells
<1> HIDE DEF n
<1>3. ASSUME NEW i \in DOMAIN Unread
      PROVE  \/ i <= n /\ i \in DOMAIN data /\ Unread[i] = data[i]
             \/ i > n /\ i - n \in DOMAIN stream /\ Unread[i] = stream[i - n]
  <2>1. CASE i <= n
    BY <1>1, <1>2, <2>1 DEF n
  <2>2. CASE i > n
    <3>1. i - n \in 1..Len(stream) /\ n + (i - n) = i
      BY <1>1, <1>2, <2>2 DEF n
    <3>2. Unread[n + (i - n)] = stream[i - n]
      BY <1>2, <3>1
    <3> QED
      BY <1>1, <2>2, <3>1, <3>2
  <2> QED
    BY <1>1, <1>2, <2>1, <2>2 DEF n
<1>4. n \in Nat /\ \A i \in DOMAIN Unread : i \in Nat
  BY <1>1, <1>2 DEF n
<1>5. Sent(Unread)
  BY <1>3 DEF OrderInv, Sent
<1>6. Ascending(Unread)
  <2> SUFFICES ASSUME NEW i \in DOMAIN Unread, NEW j \in DOMAIN Unread, i < j
               PROVE  Place(Unread[i]) < Place(Unread[j])
    BY DEF Ascending
  <2>1. CASE j <= n
    <3>1. /\ i \in DOMAIN data /\ Unread[i] = data[i]
          /\ j \in DOMAIN data /\ Unread[j] = data[j]
      BY <1>3, <1>4, <2>1
    <3> QED
      BY <3>1 DEF OrderInv, Ascending
  <2>2. CASE i <= n /\ j > n
    <3>1. /\ i \in DOMAIN data /\ Unread[i] = data[i]
          /\ j - n \in DOMAIN stream /\ Unread[j] = stream[j - n]
      BY <1>3, <1>4, <2>2
    <3> QED
      BY <3>1 DEF OrderInv, Below
  <2>3. CASE i > n
    <3>1. /\ i - n \in DOMAIN stream /\ Unread[i] = stream[i - n]
          /\ j - n \in DOMAIN stream /\ Unread[j] = stream[j - n] /\ i - n < j - n
      BY <1>3, <1>4, <2>3
    <3> QED
      BY <3>1 DEF OrderInv, Ascending
  <2> QED
    BY <1>4, <2>1, <2>2, <2>3
<1> QED
  BY <1>5, <1>6

\* What is unread, as the lines of messages: the line of the first terminator, and
\* behind it all that were sent since.
LEMMA UnreadView ==
  ASSUME FramingTypeOK, StreamInv, OrderInv, ContigInv
  PROVE  LET e == FirstEnd(Unread)
             h == FirstUnread IN
         /\ h \in 1..next
         /\ e = 0 => h = next
         /\ e # 0 => /\ h < next /\ Unread[e] = Second(h)
                     /\ \A i \in e..Len(Unread) : Place(Unread[i]) = 2 * h + 1 + (i - e)
                     /\ Len(Unread) - e = 2 * (next - 1 - h)
                     /\ \A k \in 1..(e - 1) : Unread[k].msg = h =>
                          k = e - 1 /\ Unread[k] = First(h)
<1>1. /\ Unread \in Seq(Cell) /\ Len(Unread) \in Nat /\ DOMAIN Unread = 1..Len(Unread)
      /\ next \in Nat /\ next >= 1
  BY UnreadCells DEF FramingTypeOK
<1> DEFINE U == Unread
           n == Len(Unread)
           e == FirstEnd(Unread)
           h == U[e].msg
<1>2. CASE e = 0
  BY <1>1, <1>2 DEF FirstUnread
<1>3. CASE e # 0
  <2>1. e \in 1..n /\ U[e].last /\ \A j \in 1..(e - 1) : ~U[j].last
    BY <1>3, UnreadEnd
  <2>2. FirstUnread = h
    BY <1>3 DEF FirstUnread
  <2>3. Ascending(U) /\ Sent(U)
    BY UnreadOrder
  <2>4. \A i \in e..n : Place(U[i]) = 2 * next - 1 - n + i
    <3>1. \A i \in e..n : i \in DOMAIN U /\ e \in 1..i
      BY <1>1, <2>1
    <3> QED
      BY <2>1, <3>1 DEF ContigInv
  <2> HIDE DEF U, n, e
  <2>5. e \in DOMAIN U /\ U[e] \in Cell /\ e \in e..n /\ n \in e..n
    BY <1>1, <2>1 DEF U, n
  <2>6. U[e] = Second(h) /\ Place(U[e]) = 2 * h + 1 /\ h \in 1..MaxMsgs
    BY <2>1, <2>5, CellPlace
  <2>7. h < next
    BY <2>3, <2>5 DEF Sent
  <2>8. 2 * next - 1 - n + e = 2 * h + 1
    BY <2>4, <2>5, <2>6
  <2>9. n \in Nat /\ e \in Nat
    BY <1>1, <2>1 DEF n
  <2> HIDE DEF h
  <2>10. \A i \in e..n : Place(U[i]) = 2 * h + 1 + (i - e)
    <3>1. h \in Nat /\ next \in Nat
      BY <1>1, <2>6
    <3>2. \A i \in e..n : 2 * next - 1 - n + i = 2 * h + 1 + (i - e)
      BY <2>8, <2>9, <3>1
    <3> QED
      BY <2>4, <3>2
  <2>11. n - e = 2 * (next - 1 - h)
    BY <1>1, <2>6, <2>8, <2>9
  <2>12. ASSUME NEW k \in 1..(e - 1), U[k].msg = h PROVE k = e - 1 /\ U[k] = First(h)
    <3>1. k \in DOMAIN U /\ k < e /\ ~U[k].last
      BY <1>1, <2>1, <2>9 DEF U, n
    <3>2. U[k] \in Cell
      BY <1>1, <3>1 DEF U
    <3>3. U[k] = First(h) /\ Place(U[k]) = 2 * h
      BY <2>12, <3>1, <3>2, CellPlace
    <3>4. CASE k < e - 1
      <4>1. e - 1 \in DOMAIN U /\ e - 1 \in 1..(e - 1) /\ e - 1 < e
        BY <1>1, <2>1, <2>9, <3>4 DEF U, n
      <4>2. U[e - 1] \in Cell
        BY <1>1, <4>1 DEF U
      <4>3. Place(U[e - 1]) \in Nat
        BY <4>2, CellPlace
      <4>4. 2 * h < Place(U[e - 1]) /\ Place(U[e - 1]) < 2 * h + 1
        BY <2>3, <2>5, <2>6, <3>1, <3>3, <3>4, <4>1 DEF Ascending
      <4> QED
        BY <2>6, <4>3, <4>4
    <3> QED
      BY <2>9, <3>3, <3>4
  <2>13. h \in 1..next
    BY <1>1, <2>6, <2>7
  <2> QED
    BY <1>3, <2>2, <2>6, <2>7, <2>10, <2>11, <2>12, <2>13 DEF U, n, e, h
<1> QED
  BY <1>2, <1>3

\* The lines of d messages from h on, the first of them whole or not.
LineAt(m, w) == [msg |-> m, whole |-> w]

LinesFrom(h, d, w) == [j \in 1..d |-> LineAt(h + j - 1, j > 1 \/ w)]

UnreadLine == [msg: Nat, whole: BOOLEAN]

LEMMA LineAtType ==
  ASSUME NEW m \in Nat, NEW w \in BOOLEAN
  PROVE  LineAt(m, w) \in UnreadLine /\ [LineAt(m, w) EXCEPT !.whole = FALSE] = LineAt(m, FALSE)
<1> DEFINE half == [LineAt(m, w) EXCEPT !.whole = FALSE]
<1>1. LineAt(m, w) \in UnreadLine /\ LineAt(m, w).msg = m
  BY DEF LineAt, UnreadLine
<1>2. half \in UnreadLine /\ half.msg = m /\ half.whole = FALSE
  BY <1>1 DEF UnreadLine
<1> HIDE DEF half
<1>3. half = LineAt(m, FALSE)
  BY <1>2 DEF LineAt, UnreadLine
<1> QED
  BY <1>1, <1>3 DEF half

LEMMA LinesFromSeq ==
  ASSUME NEW d \in Nat, NEW h \in Nat, h > 0, NEW w \in BOOLEAN
  PROVE  /\ LinesFrom(h, d, w) \in Seq(UnreadLine) /\ Len(LinesFrom(h, d, w)) = d
         /\ d > 0 => LinesFrom(h, d, w)[1] = LineAt(h, w)
         /\ \A j \in 2..d : LinesFrom(h, d, w)[j] = LineAt(h + j - 1, TRUE)
<1>1. \A j \in 1..d : h + j - 1 \in Nat /\ (j > 1 \/ w) \in BOOLEAN
  OBVIOUS
<1>2. \A j \in 1..d : LineAt(h + j - 1, j > 1 \/ w) \in UnreadLine
  BY <1>1, LineAtType
<1>3. LinesFrom(h, d, w) \in Seq(UnreadLine) /\ Len(LinesFrom(h, d, w)) = d
  BY <1>2 DEF LinesFrom
<1>4. d > 0 => LinesFrom(h, d, w)[1] = LineAt(h, w)
  <2>1. h + 1 - 1 = h /\ (1 > 1 \/ w) = w /\ (d > 0 => 1 \in 1..d)
    OBVIOUS
  <2> QED
    BY <2>1, Zenon DEF LinesFrom
<1>5. ASSUME NEW j \in 2..d PROVE LinesFrom(h, d, w)[j] = LineAt(h + j - 1, TRUE)
  <2>1. j \in 1..d /\ (j > 1 \/ w) = TRUE
    OBVIOUS
  <2> QED
    BY <2>1, Zenon DEF LinesFrom
<1> QED
  BY <1>3, <1>4, <1>5

LEMMA LinesFromIs ==
  ASSUME NEW d \in Nat, NEW h \in Nat, h > 0, NEW w \in BOOLEAN,
         NEW s \in Seq(UnreadLine), Len(s) = d, d > 0 => s[1] = LineAt(h, w),
         \A j \in 2..d : s[j] = LineAt(h + j - 1, TRUE)
  PROVE  s = LinesFrom(h, d, w)
<1> DEFINE L == LinesFrom(h, d, w)
<1>1. /\ L \in Seq(UnreadLine) /\ Len(L) = d
      /\ d > 0 => L[1] = LineAt(h, w)
      /\ \A j \in 2..d : L[j] = LineAt(h + j - 1, TRUE)
  BY LinesFromSeq
<1> HIDE DEF L
<1>2. \A j \in 1..d : (j = 1 /\ d > 0) \/ j \in 2..d
  OBVIOUS
<1>3. \A j \in 1..Len(s) : s[j] = L[j]
  BY <1>1, <1>2
<1> QED
  BY <1>1, <1>3, SeqEqual DEF L

\* One more line is sent.
LEMMA LinesSent ==
  ASSUME NEW d \in Nat, NEW h \in Nat, h > 0, NEW w \in BOOLEAN, d = 0 => w
  PROVE  Append(LinesFrom(h, d, w), LineAt(h + d, TRUE)) = LinesFrom(h, d + 1, w)
<1> DEFINE L == LinesFrom(h, d, w)
           c == LineAt(h + d, TRUE)
           A == Append(L, c)
           UL == UnreadLine
<1>1. /\ L \in Seq(UL) /\ Len(L) = d
      /\ d > 0 => L[1] = LineAt(h, w)
      /\ \A j \in 2..d : L[j] = LineAt(h + j - 1, TRUE)
  BY LinesFromSeq
<1>2. c \in UL
  <2>1. h + d \in Nat
    OBVIOUS
  <2> QED
    BY <2>1, LineAtType
<1> HIDE DEF UL, L, c
<1>3. A \in Seq(UL) /\ Len(A) = d + 1 /\ (\A j \in 1..d : A[j] = L[j]) /\ A[d + 1] = c
  BY <1>1, <1>2, AppendProperties
<1> HIDE DEF A
<1>4. A[1] = LineAt(h, w)
  <2>1. CASE d = 0
    <3>1. A[1] = c /\ h + d = h /\ w = TRUE
      BY <1>3, <2>1
    <3> QED
      BY <3>1 DEF c
  <2>2. CASE d > 0
    <3>1. 1 \in 1..d
      BY <2>2
    <3> QED
      BY <1>1, <1>3, <2>2, <3>1
  <2> QED
    BY <2>1, <2>2
<1>5. ASSUME NEW j \in 2..(d + 1) PROVE A[j] = LineAt(h + j - 1, TRUE)
  <2>1. CASE j \in 2..d
    <3>1. j \in 1..d
      BY <2>1
    <3> QED
      BY <1>1, <1>3, <2>1, <3>1
  <2>2. CASE j = d + 1
    <3>1. h + j - 1 = h + d
      BY <2>2
    <3> QED
      BY <1>3, <2>2, <3>1 DEF c
  <2>3. j \in 2..d \/ j = d + 1
    OBVIOUS
  <2> QED
    BY <2>1, <2>2, <2>3
<1>6. d + 1 \in Nat
  OBVIOUS
<1>7. A = LinesFrom(h, d + 1, w)
  BY <1>3, <1>4, <1>5, <1>6, LinesFromIs DEF UL
<1> QED
  BY <1>7 DEF A, L, c

\* What a text has left behind its first cells.
LEMMA Suffix ==
  ASSUME NEW S, NEW s \in Seq(S), NEW k \in 0..Len(s)
  PROVE  /\ SubSeq(s, k + 1, Len(s)) \in Seq(S)
         /\ Len(SubSeq(s, k + 1, Len(s))) = Len(s) - k
         /\ \A j \in 1..(Len(s) - k) : SubSeq(s, k + 1, Len(s))[j] = s[k + j]
<1> DEFINE n == Len(s)
           r == SubSeq(s, k + 1, n)
<1>1. k \in Int /\ n \in Nat /\ k + 1 \in Int /\ \A i \in (k + 1)..n : s[i] \in S
  OBVIOUS
<1>2. /\ r \in Seq(S)
      /\ Len(r) = IF k + 1 <= n THEN n - (k + 1) + 1 ELSE 0
      /\ \A i \in 1..(n - (k + 1) + 1) : r[i] = s[k + 1 + i - 1]
  BY <1>1, SubSeqProperties
<1> HIDE DEF r, n
<1>3. Len(r) = n - k /\ k \in 0..n
  BY <1>1, <1>2 DEF n
<1>4. ASSUME NEW j \in 1..(n - k) PROVE r[j] = s[k + j]
  <2>1. j \in 1..(n - (k + 1) + 1) /\ k + 1 + j - 1 = k + j
    BY <1>1
  <2> QED
    BY <1>2, <2>1
<1> QED
  BY <1>2, <1>3, <1>4 DEF r, n

\* Lines are taken up to the end of one.
LEMMA LinesLeft ==
  ASSUME NEW d \in Nat, NEW h \in Nat, h > 0, NEW w \in BOOLEAN, NEW k \in 1..d
  PROVE  SubSeq(LinesFrom(h, d, w), k + 1, Len(LinesFrom(h, d, w))) = LinesFrom(h + k, d - k, TRUE)
<1> DEFINE L == LinesFrom(h, d, w)
           UL == UnreadLine
           R == SubSeq(L, k + 1, Len(L))
<1>1. /\ L \in Seq(UL) /\ Len(L) = d /\ \A j \in 2..d : L[j] = LineAt(h + j - 1, TRUE)
  BY LinesFromSeq
<1> HIDE DEF UL, L
<1>2. R \in Seq(UL) /\ Len(R) = d - k /\ \A j \in 1..(d - k) : R[j] = L[k + j]
  BY <1>1, Suffix
<1> HIDE DEF R
<1>3. ASSUME NEW j \in 1..(d - k) PROVE R[j] = LineAt(h + k + j - 1, TRUE)
  <2>1. k + j \in 2..d /\ h + (k + j) - 1 = h + k + j - 1
    OBVIOUS
  <2>2. R[j] = LineAt(h + (k + j) - 1, TRUE)
    BY <1>1, <1>2, <2>1
  <2> QED
    BY <2>1, <2>2
<1>4. d - k \in Nat /\ h + k \in Nat /\ h + k > 0
  OBVIOUS
<1>5. d - k > 0 => R[1] = LineAt(h + k, TRUE)
  <2>1. d - k > 0 => 1 \in 1..(d - k) /\ h + k + 1 - 1 = h + k
    OBVIOUS
  <2>2. 1 \in 1..(d - k) => R[1] = LineAt(h + k + 1 - 1, TRUE)
    BY <1>3
  <2> QED
    BY <2>1, <2>2
<1>6. \A j \in 2..(d - k) : R[j] = LineAt(h + k + j - 1, TRUE)
  <2>1. \A j \in 2..(d - k) : j \in 1..(d - k)
    OBVIOUS
  <2> QED
    BY <1>3, <2>1
<1> QED
  BY <1>2, <1>4, <1>5, <1>6, LinesFromIs DEF R, L, UL

\* Or with the beginning of one more.
LEMMA LinesTorn ==
  ASSUME NEW d \in Nat, NEW h \in Nat, h > 0, NEW w \in BOOLEAN, NEW k \in 1..d, k < d
  PROVE  LET L == LinesFrom(h, d, w) IN
         <<[L[k + 1] EXCEPT !.whole = FALSE]>> \o SubSeq(L, k + 2, Len(L)) =
           LinesFrom(h + k, d - k, FALSE)
<1> DEFINE L == LinesFrom(h, d, w)
           UL == UnreadLine
           R == SubSeq(L, k + 2, Len(L))
           c == [L[k + 1] EXCEPT !.whole = FALSE]
           T == <<c>> \o R
<1>1. /\ L \in Seq(UL) /\ Len(L) = d /\ \A j \in 2..d : L[j] = LineAt(h + j - 1, TRUE)
  BY LinesFromSeq
<1> HIDE DEF L
<1>2. c = LineAt(h + k, FALSE) /\ c \in UL
  <2>1. k + 1 \in 2..d /\ h + (k + 1) - 1 = h + k /\ h + k \in Nat
    OBVIOUS
  <2>2. L[k + 1] = LineAt(h + (k + 1) - 1, TRUE)
    BY <1>1, <2>1
  <2> QED
    BY <2>1, <2>2, LineAtType
<1> HIDE DEF UL, c
<1>3. R \in Seq(UL) /\ Len(R) = d - (k + 1) /\ \A j \in 1..(d - (k + 1)) : R[j] = L[k + 1 + j]
  <2>1. k + 1 \in 0..Len(L) /\ k + 1 + 1 = k + 2
    BY <1>1
  <2> QED
    BY <1>1, <2>1, Suffix
<1> HIDE DEF R
<1>4. /\ T \in Seq(UL) /\ Len(T) = d - k /\ T[1] = c
      /\ \A j \in 2..(d - k) : T[j] = R[j - 1]
  <2>1. <<c>> \in Seq(UL) /\ Len(<<c>>) = 1 /\ <<c>>[1] = c
    <3>1. c \in UL
      BY <1>2
    <3> HIDE DEF T
    <3> QED
      BY <3>1
  <2>2. /\ T \in Seq(UL) /\ Len(T) = Len(<<c>>) + Len(R)
        /\ \A j \in 1..(Len(<<c>>) + Len(R)) : T[j] =
             IF j <= Len(<<c>>) THEN <<c>>[j] ELSE R[j - Len(<<c>>)]
    BY <1>3, <2>1, ConcatProperties
  <2> HIDE DEF T
  <2> QED
    BY <1>3, <2>1, <2>2
<1> HIDE DEF T
<1>5. ASSUME NEW j \in 2..(d - k) PROVE T[j] = LineAt(h + k + j - 1, TRUE)
  <2>1. /\ j - 1 \in 1..(d - (k + 1)) /\ k + 1 + (j - 1) = k + j
        /\ k + j \in 2..d /\ h + (k + j) - 1 = h + k + j - 1
    OBVIOUS
  <2>2. T[j] = L[k + 1 + (j - 1)]
    BY <1>3, <1>4, <2>1
  <2>3. L[k + j] = LineAt(h + (k + j) - 1, TRUE)
    BY <1>1, <2>1
  <2> QED
    BY <2>1, <2>2, <2>3
<1>6. d - k \in Nat /\ h + k \in Nat /\ h + k > 0
  OBVIOUS
<1>7. T = LinesFrom(h + k, d - k, FALSE)
  <2>1. /\ T \in Seq(UnreadLine) /\ Len(T) = d - k
        /\ d - k > 0 => T[1] = LineAt(h + k, FALSE)
    BY <1>2, <1>4 DEF UL
  <2> QED
    BY <1>5, <1>6, <2>1, LinesFromIs
<1> QED
  BY <1>7 DEF T, R, c, L

\* Send puts the two cells of a message behind what is unread.
LEMMA SendUnread ==
  ASSUME FramingTypeOK, Send
  PROVE  /\ next \in 1..MaxMsgs /\ next' = next + 1 /\ lines' = lines
         /\ Unread \in Seq(Cell) /\ Len(Unread) \in Nat
         /\ Unread' \in Seq(Cell) /\ Len(Unread') = Len(Unread) + 2
         /\ \A i \in 1..Len(Unread) : Unread'[i] = Unread[i]
         /\ Unread'[Len(Unread) + 1] = First(next) /\ Unread'[Len(Unread) + 2] = Second(next)
<1>1. /\ stream \in Seq(Cell) /\ data \in Seq(Cell) /\ Len(stream) \in Nat /\ Len(data) \in Nat
  BY DEF FramingTypeOK
<1> DEFINE n == Len(data)
           s == Len(stream)
<1>2. /\ next \in 1..MaxMsgs /\ next' = next + 1 /\ data' = data /\ lines' = lines
      /\ stream' \in Seq(Cell) /\ Len(stream') = s + 2
      /\ \A i \in 1..s : stream'[i] = stream[i]
      /\ stream'[s + 1] = First(next) /\ stream'[s + 2] = Second(next)
  BY SendCells DEF Send
<1>3. /\ Unread \in Seq(Cell) /\ Len(Unread) = n + s
      /\ \A i \in 1..(n + s) : Unread[i] = IF i <= n THEN data[i] ELSE stream[i - n]
  BY <1>1, Concatenated DEF Unread
<1>4. /\ Unread' \in Seq(Cell) /\ Len(Unread') = n + (s + 2)
      /\ \A i \in 1..(n + (s + 2)) : Unread'[i] = IF i <= n THEN data[i] ELSE stream'[i - n]
  <2>1. Unread' = data \o stream'
    BY <1>2 DEF Unread
  <2>2. /\ data \o stream' \in Seq(Cell) /\ Len(data \o stream') = n + Len(stream')
        /\ \A i \in 1..(n + Len(stream')) :
             (data \o stream')[i] = IF i <= n THEN data[i] ELSE stream'[i - n]
    BY <1>1, <1>2, Concatenated
  <2>3. Len(stream') = s + 2
    BY <1>2
  <2> HIDE DEF n, s
  <2> QED
    BY <2>1, <2>2, <2>3
<1> HIDE DEF n, s
<1>5. n \in Nat /\ s \in Nat
  BY <1>1 DEF n, s
<1>6. ASSUME NEW i \in 1..(n + s) PROVE Unread'[i] = Unread[i]
  <2>1. i \in 1..(n + (s + 2)) /\ (~(i <= n) => i - n \in 1..s)
    BY <1>5
  <2> QED
    BY <1>2, <1>3, <1>4, <2>1
<1>7. \A j \in 1..(s + 2) : Unread'[n + j] = stream'[j]
  <2> SUFFICES ASSUME NEW j \in 1..(s + 2) PROVE Unread'[n + j] = stream'[j]
    OBVIOUS
  <2> DEFINE i == n + j
  <2>1. i \in 1..(n + (s + 2)) /\ ~(i <= n) /\ i - n = j
    BY <1>5
  <2> HIDE DEF i
  <2>2. Unread'[i] = stream'[j]
    BY <1>4, <2>1
  <2> QED
    BY <2>2 DEF i
<1>8. Unread'[n + (s + 1)] = First(next) /\ Unread'[n + (s + 2)] = Second(next)
  <2>1. s + 1 \in 1..(s + 2) /\ s + 2 \in 1..(s + 2)
    BY <1>5
  <2>2. stream'[s + 1] = First(next) /\ stream'[s + 2] = Second(next)
    BY <1>2
  <2> QED
    BY <1>7, <2>1, <2>2
<1>9. n + (s + 1) = Len(Unread) + 1 /\ n + (s + 2) = Len(Unread) + 2
  BY <1>3, <1>5
<1> QED
  BY <1>2, <1>3, <1>4, <1>5, <1>6, <1>8, <1>9

\* Reading moves cells, and leaves them unread.
LEMMA ReadUnread == ASSUME FramingTypeOK, NEW k, ReadSome(k) PROVE Unread' = Unread
<1>1. /\ stream \in Seq(Cell) /\ data \in Seq(Cell) /\ Len(stream) \in Nat /\ Len(data) \in Nat
  BY DEF FramingTypeOK
<1> DEFINE n == Len(data)
           s == Len(stream)
<1>2. /\ k \in 1..s
      /\ data' \in Seq(Cell) /\ Len(data') = n + k
      /\ \A i \in 1..n : data'[i] = data[i]
      /\ \A i \in 1..k : data'[n + i] = stream[i]
      /\ stream' \in Seq(Cell) /\ Len(stream') = s - k
      /\ \A i \in 1..(s - k) : stream'[i] = stream[k + i]
  BY ReadCells
<1>3. /\ Unread \in Seq(Cell) /\ Len(Unread) = n + s
      /\ \A i \in 1..(n + s) : Unread[i] = IF i <= n THEN data[i] ELSE stream[i - n]
  BY <1>1, Concatenated DEF Unread
<1>4. /\ Unread' \in Seq(Cell) /\ Len(Unread') = n + k + (s - k)
      /\ \A i \in 1..(n + k + (s - k)) :
           Unread'[i] = IF i <= n + k THEN data'[i] ELSE stream'[i - (n + k)]
  <2>1. Unread' = data' \o stream'
    BY DEF Unread
  <2>2. /\ data' \o stream' \in Seq(Cell) /\ Len(data' \o stream') = Len(data') + Len(stream')
        /\ \A i \in 1..(Len(data') + Len(stream')) : (data' \o stream')[i] =
             IF i <= Len(data') THEN data'[i] ELSE stream'[i - Len(data')]
    BY <1>2, Concatenated
  <2>3. Len(data') = n + k /\ Len(stream') = s - k
    BY <1>2
  <2> HIDE DEF n, s
  <2> QED
    BY <2>1, <2>2, <2>3
<1> HIDE DEF n, s
<1>5. n \in Nat /\ s \in Nat /\ k \in Nat /\ n + k + (s - k) = n + s
  BY <1>1, <1>2 DEF n, s
<1>6. ASSUME NEW i \in 1..(n + s) PROVE Unread'[i] = Unread[i]
  <2>1. i \in 1..(n + k + (s - k))
    BY <1>5
  <2>2. CASE i <= n
    <3>1. i \in 1..n /\ i <= n + k
      BY <1>5, <2>2
    <3> QED
      BY <1>2, <1>3, <1>4, <2>1, <2>2, <3>1
  <2>3. CASE ~(i <= n) /\ i <= n + k
    <3>1. i - n \in 1..k /\ n + (i - n) = i
      BY <1>5, <2>3
    <3>2. data'[n + (i - n)] = stream[i - n]
      BY <1>2, <3>1
    <3> QED
      BY <1>3, <1>4, <2>1, <2>3, <3>1, <3>2
  <2>4. CASE ~(i <= n) /\ ~(i <= n + k)
    <3>1. i - (n + k) \in 1..(s - k) /\ k + (i - (n + k)) = i - n
      BY <1>2, <1>5, <2>4
    <3>2. stream'[i - (n + k)] = stream[k + (i - (n + k))]
      BY <1>2, <3>1
    <3> QED
      BY <1>3, <1>4, <2>1, <2>4, <3>1, <3>2
  <2> QED
    BY <2>2, <2>3, <2>4
<1>7. \A i \in 1..Len(Unread') : Unread'[i] = Unread[i]
  BY <1>4, <1>5, <1>6
<1>8. Len(Unread') = Len(Unread)
  BY <1>3, <1>4, <1>5
<1> QED
  BY <1>3, <1>4, <1>7, <1>8, SeqEqual

\* After HandleLine only the stream is unread.
LEMMA HandledUnread ==
  ASSUME FramingTypeOK, StreamInv, HandleLine
  PROVE  /\ Unread' = stream /\ next' = next
         /\ FirstEnd(Unread) = FirstEnd(data) /\ FirstEnd(data) \in 1..Len(data)
         /\ Unread[FirstEnd(data)].last
<1>1. data' = <<>> /\ stream' = stream /\ next' = next /\ FirstEnd(data) # 0
  BY DEF HandleLine
<1>2. stream \in Seq(Cell) /\ <<>> \in Seq(Cell) /\ data \in Seq(Cell)
  BY DEF FramingTypeOK
<1>3. <<>> \o stream = stream
  BY <1>2, ConcatEmptySeq
<1>4. FirstEnd(Unread) = FirstEnd(data)
  BY <1>1, UnreadEnd
<1>5. FirstEnd(data) \in 1..Len(data)
  BY <1>1, <1>2, FirstEndFound
<1>6. Unread[FirstEnd(data)].last
  BY <1>1, <1>4, UnreadEnd
<1> QED
  BY <1>1, <1>3, <1>4, <1>5, <1>6 DEF Unread

LEMMA NothingBehind == ASSUME NEW d \in Seq(Cell) PROVE d \o <<>> = d
<1> DEFINE t == d \o <<>>
<1>1. <<>> \in Seq(Cell) /\ Len(<<>>) = 0
  BY EmptySeq
<1>2. /\ t \in Seq(Cell) /\ Len(t) = Len(d) + Len(<<>>)
      /\ \A i \in 1..(Len(d) + Len(<<>>)) : t[i] = IF i <= Len(d) THEN d[i] ELSE <<>>[i - Len(d)]
  BY <1>1, Concatenated
<1> HIDE DEF t
<1>3. Len(t) = Len(d) /\ \A i \in 1..Len(t) : t[i] = d[i]
  BY <1>1, <1>2
<1> QED
  BY <1>2, <1>3, SeqEqual DEF t

\* A step keeps what follows the first terminator.
LEMMA ContigStep == ASSUME FramingTypeOK, StreamInv, ContigInv, [Next]_vars PROVE ContigInv'
<1>1. /\ stream \in Seq(Cell) /\ data \in Seq(Cell) /\ Len(stream) \in Nat /\ Len(data) \in Nat
      /\ next \in Nat
  BY DEF FramingTypeOK
<1>2. CASE Send
  <2> DEFINE n == Len(Unread)
  <2>1. /\ next \in 1..MaxMsgs /\ next' = next + 1 /\ n \in Nat
        /\ Unread' \in Seq(Cell) /\ Len(Unread') = n + 2
        /\ \A i \in 1..n : Unread'[i] = Unread[i]
        /\ Unread'[n + 1] = First(next) /\ Unread'[n + 2] = Second(next)
        /\ DOMAIN Unread = 1..n
    BY <1>2, SendUnread
  <2>2. Place(First(next)) = 2 * next /\ Place(Second(next)) = 2 * next + 1
    BY <1>1 DEF First, Second, Place
  <2>3. DOMAIN Unread' = 1..(n + 2)
    BY <2>1
  <2> HIDE DEF n
  <2>4. ASSUME NEW i \in 1..n, \E j \in 1..i : Unread'[j].last
        PROVE  Place(Unread'[i]) = 2 * (next + 1) - 1 - (n + 2) + i
    <3>1. \A j \in 1..i : j \in 1..n
      BY <2>1
    <3>2. \E j \in 1..i : Unread[j].last
      BY <2>1, <2>4, <3>1
    <3>3. Place(Unread[i]) = 2 * next - 1 - n + i
      BY <2>1, <3>2 DEF ContigInv, n
    <3>4. 2 * next - 1 - n + i = 2 * (next + 1) - 1 - (n + 2) + i
      BY <1>1, <2>1
    <3> QED
      BY <2>1, <3>3, <3>4
  <2>5. /\ Place(Unread'[n + 1]) = 2 * (next + 1) - 1 - (n + 2) + (n + 1)
        /\ Place(Unread'[n + 2]) = 2 * (next + 1) - 1 - (n + 2) + (n + 2)
    BY <1>1, <2>1, <2>2
  <2>6. \A i \in 1..(n + 2) : i \in 1..n \/ i = n + 1 \/ i = n + 2
    BY <2>1
  <2> QED
    BY <2>1, <2>3, <2>4, <2>5, <2>6 DEF ContigInv
<1>3. ASSUME NEW k, ReadSome(k) PROVE ContigInv'
  <2>1. Unread' = Unread /\ next' = next
    BY <1>3, ReadUnread DEF ReadSome
  <2> QED
    BY <2>1 DEF ContigInv
<1>4. CASE HandleLine
  <2> DEFINE n == Len(data)
             s == Len(stream)
             e == FirstEnd(data)
  <2>1. /\ Unread' = stream /\ next' = next
        /\ e \in 1..n /\ Unread[e].last
    BY <1>4, HandledUnread
  <2>2. /\ Len(Unread) = n + s /\ DOMAIN Unread = 1..(n + s) /\ DOMAIN stream = 1..s
        /\ \A i \in 1..s : Unread[n + i] = stream[i]
    BY <1>1, UnreadCells
  <2> HIDE DEF n, s, e
  <2>3. n \in Nat /\ s \in Nat
    BY <1>1 DEF n, s
  <2>4. ASSUME NEW i \in 1..s PROVE Place(stream[i]) = 2 * next - 1 - s + i
    <3>1. n + i \in DOMAIN Unread /\ e \in 1..(n + i)
      BY <2>1, <2>2, <2>3
    <3>2. Place(Unread[n + i]) = 2 * next - 1 - (n + s) + (n + i)
      BY <2>1, <2>2, <3>1 DEF ContigInv
    <3>3. 2 * next - 1 - (n + s) + (n + i) = 2 * next - 1 - s + i
      BY <1>1, <2>3
    <3> QED
      BY <2>2, <3>2, <3>3
  <2> QED
    BY <2>1, <2>2, <2>4 DEF ContigInv, s
<1>5. CASE ConnectionEnds
  <2>1. stream' = <<>> /\ data' \in {data, <<>>} /\ FirstEnd(data) = 0
    BY <1>5 DEF ConnectionEnds
  <2>2. data' \in Seq(Cell) /\ \A k \in DOMAIN data' : ~data'[k].last
    <3>1. \A k \in DOMAIN data : ~data[k].last
      BY <1>1, <2>1, NoEnd
    <3>2. CASE data' = data
      BY <1>1, <3>1, <3>2
    <3>3. CASE data' = <<>>
      BY <3>3, EmptySeq
    <3> QED
      BY <2>1, <3>2, <3>3
  <2>3. Unread' = data'
    <3>1. data' \o <<>> = data'
      BY <2>2, NothingBehind
    <3>2. Unread' = data' \o <<>>
      BY <2>1 DEF Unread
    <3> QED
      BY <3>1, <3>2
  <2>4. \A i \in DOMAIN data' : \A j \in 1..i : j \in DOMAIN data'
    BY <2>2
  <2> QED
    BY <2>2, <2>3, <2>4 DEF ContigInv
<1>6. CASE UNCHANGED vars
  BY <1>6 DEF vars, ContigInv, Unread
<1> QED
  BY <1>2, <1>3, <1>4, <1>5, <1>6 DEF Next

\* The mapped state, in the terms of the lemmas above.
Entire == \E k \in Beginnings : Unread[k].msg = FirstUnread

HandledSet == {m \in 1..MaxMsgs : Handled(m)}

LEMMA LinesUnreadAre == LinesUnread = LinesFrom(FirstUnread, next - FirstUnread, Entire)
BY DEF LinesUnread, LinesFrom, LineAt, Entire

\* Without a line there is none that could be whole.
LEMMA NoLines ==
  ASSUME NEW h \in Nat, h > 0, NEW v \in BOOLEAN, NEW w \in BOOLEAN
  PROVE  LinesFrom(h, 0, v) = LinesFrom(h, 0, w) /\ LinesFrom(h, 0, v) = <<>>
<1>1. \A b \in BOOLEAN : LinesFrom(h, 0, b) \in Seq(UnreadLine) /\ Len(LinesFrom(h, 0, b)) = 0
  BY LinesFromSeq
<1>2. \A b \in BOOLEAN : LinesFrom(h, 0, b) = <<>>
  BY <1>1
<1> QED
  BY <1>2

\* The line of a message that has just been sent comes last.
LEMMA FramedSend ==
  ASSUME FramingTypeOK, StreamInv, OrderInv, ContigInv, Send PROVE Reader!Write(next)
<1> DEFINE U == Unread
           V == Unread'
           n == Len(Unread)
           e == FirstEnd(Unread)
           h == FirstUnread
<1>1. /\ next \in 1..MaxMsgs /\ next' = next + 1 /\ lines' = lines
      /\ U \in Seq(Cell) /\ n \in Nat /\ V \in Seq(Cell) /\ Len(V) = n + 2
      /\ \A i \in 1..n : V[i] = U[i]
      /\ V[n + 1] = First(next) /\ V[n + 2] = Second(next)
  BY SendUnread
<1>2. /\ h \in 1..next
      /\ e = 0 => h = next
      /\ e # 0 => h < next /\ U[e] = Second(h)
  BY UnreadView
<1>3. /\ e = 0 => \A k \in DOMAIN U : ~U[k].last
      /\ e # 0 => e \in 1..n /\ U[e].last /\ \A j \in 1..(e - 1) : ~U[j].last
  BY UnreadEnd
<1>4. /\ First(next).msg = next /\ ~First(next).last
      /\ Second(next).msg = next /\ Second(next).last
  BY DEF First, Second
<1>5. DOMAIN U = 1..n /\ DOMAIN V = 1..(n + 2)
  BY <1>1
<1>6. Sent(U)
  BY UnreadOrder
<1>7. /\ next \in Nat /\ h \in Nat /\ h > 0 /\ next - h \in Nat /\ h + (next - h) = next
      /\ next + 1 - h = next - h + 1
  BY <1>1, <1>2
<1> HIDE DEF V, n
<1>8. /\ FirstUnread' = h /\ Leftover' = Leftover
      /\ LinesFrom(h, next - h, Entire') = LinesUnread
      /\ next - h = 0 => Entire'
  <2>1. CASE e = 0
    <3> DEFINE f == n + 2
    <3>1. f \in DOMAIN V /\ V[f].last /\ f # 0
      BY <1>1, <1>4, <1>5
    <3>2. ASSUME NEW j \in 1..(f - 1) PROVE ~V[j].last
      <4>1. j \in 1..n \/ j = n + 1
        BY <1>1
      <4>2. CASE j \in 1..n
        BY <1>1, <1>3, <1>5, <2>1, <4>2
      <4> QED
        BY <1>1, <1>4, <4>1, <4>2
    <3> HIDE DEF f
    <3>3. FirstEnd(V) = f
      BY <1>1, <3>1, <3>2, FirstEndIs
    <3>4. FirstUnread' = V[f].msg /\ Beginnings' = 1..(f - 1)
      BY <3>1, <3>3 DEF FirstUnread, Beginnings, V
    <3>5. FirstUnread' = next /\ f - 1 = n + 1
      BY <1>1, <1>4, <3>4 DEF f
    <3>6. Beginnings = 1..n /\ h = next
      BY <1>2, <2>1 DEF Beginnings, n
    <3>7. Entire'
      <4>1. n + 1 \in Beginnings' /\ V[n + 1].msg = next
        BY <1>1, <1>4, <3>4, <3>5
      <4> QED
        BY <3>5, <4>1 DEF Entire, V
    <3>8. Leftover' <=> Leftover
      <4>1. \A k \in Beginnings' : k \in Beginnings \/ k = n + 1
        BY <1>1, <3>4, <3>5, <3>6
      <4>2. Beginnings \subseteq Beginnings'
        BY <1>1, <3>4, <3>5, <3>6
      <4>3. \A k \in Beginnings : V[k] = U[k]
        BY <1>1, <3>6
      <4>4. V[n + 1].msg = next
        BY <1>1, <1>4
      <4> QED
        BY <3>5, <3>6, <4>1, <4>2, <4>3, <4>4 DEF Leftover, V
    <3>9. LinesUnread = LinesFrom(h, 0, Entire)
      <4>1. next - h = 0
        BY <1>7, <3>6
      <4> QED
        BY <4>1, LinesUnreadAre
    <3>10. LinesFrom(h, 0, Entire) = LinesFrom(h, 0, Entire')
      <4>1. Entire \in BOOLEAN /\ Entire' \in BOOLEAN
        BY DEF Entire
      <4> QED
        BY <1>7, <4>1, NoLines
    <3>11. next - h = 0 /\ FirstUnread' = h
      BY <1>7, <3>5, <3>6
    <3>12. Leftover' = Leftover
      BY <3>8 DEF Leftover
    <3> QED
      BY <3>7, <3>9, <3>10, <3>11, <3>12
  <2>2. CASE e # 0
    <3> HIDE DEF e, h
    <3>1. \A j \in 1..e : j \in 1..n
      BY <1>1, <1>3, <2>2
    <3>2. e \in Nat /\ e \in 1..e /\ e \in DOMAIN V /\ \A j \in 1..(e - 1) : j \in 1..e
      BY <1>1, <1>3, <1>5, <2>2
    <3>3. V[e] = U[e] /\ V[e].last /\ \A j \in 1..(e - 1) : V[j] = U[j] /\ ~V[j].last
      BY <1>1, <1>3, <2>2, <3>1, <3>2
    <3>4. FirstEnd(V) = e
      BY <1>1, <3>2, <3>3, FirstEndIs
    <3>5. FirstUnread' = V[e].msg /\ Beginnings' = 1..(e - 1)
      BY <2>2, <3>4 DEF FirstUnread, Beginnings, V
    <3>6. h = U[e].msg /\ Beginnings = 1..(e - 1)
      BY <2>2 DEF FirstUnread, Beginnings, e, h
    <3>7. FirstUnread' = h
      BY <3>3, <3>5, <3>6
    <3>8. Entire' = Entire /\ Leftover' = Leftover
      BY <3>3, <3>5, <3>6, <3>7 DEF Entire, Leftover, V, h
    <3>9. next - h # 0
      BY <1>2, <1>7, <2>2
    <3> QED
      BY <3>7, <3>8, <3>9, LinesUnreadAre DEF h
  <2> QED
    BY <2>1, <2>2
<1> HIDE DEF h, e, U
<1>9. LinesUnread' = LinesFrom(FirstUnread', next' - FirstUnread', Entire')
  BY DEF LinesUnread, LinesFrom, LineAt, Entire
<1>10. LinesUnread' = Append(LinesUnread, [msg |-> next, whole |-> TRUE])
  <2> DEFINE d == next - h
  <2>1. d \in Nat /\ next' - FirstUnread' = d + 1 /\ h + d = next
    BY <1>1, <1>7, <1>8
  <2>2. Entire' \in BOOLEAN /\ (d = 0 => Entire')
    BY <1>8 DEF Entire
  <2>3. LinesUnread' = LinesFrom(h, d + 1, Entire') /\ LinesUnread = LinesFrom(h, d, Entire')
    BY <1>8, <1>9, <2>1
  <2> HIDE DEF d
  <2>4. Append(LinesFrom(h, d, Entire'), LineAt(h + d, TRUE)) = LinesFrom(h, d + 1, Entire')
    BY <1>7, <2>1, <2>2, LinesSent
  <2> QED
    BY <2>1, <2>3, <2>4 DEF LineAt
<1>11. ASSUME NEW j \in DOMAIN LinesUnread PROVE LinesUnread[j].msg # next
  <2>1. j \in 1..(next - h) /\ LinesUnread[j].msg = h + j - 1
    BY DEF LinesUnread, h
  <2> QED
    BY <1>7, <2>1
<1>12. ~Handled(next)
  <2> SUFFICES ASSUME NEW k \in DOMAIN lines, lines[k] = Message(next) PROVE FALSE
    BY DEF Handled
  <2>1. 1 \in DOMAIN lines[k] /\ lines[k][1].msg = next
    BY <1>1, MessageCells
  <2>2. lines[k][1].msg < next
    BY <2>1 DEF OrderInv, Sent
  <2> QED
    BY <1>7, <2>1, <2>2
<1>13. HandledSet' = HandledSet /\ next \notin HandledSet
  BY <1>1, <1>12 DEF HandledSet, Handled
<1> QED
  BY <1>8, <1>10, <1>11, <1>13 DEF Reader!Write, HandledSet

\* What a read leaves of the lines that are unread.
LEMMA UnreadLeft ==
  ASSUME FirstUnread \in Nat, FirstUnread > 0, next - FirstUnread \in Nat,
         NEW k \in 1..(next - FirstUnread)
  PROVE  /\ SubSeq(LinesUnread, k + 1, Len(LinesUnread)) =
              LinesFrom(FirstUnread + k, next - FirstUnread - k, TRUE)
         /\ k < next - FirstUnread =>
              <<[LinesUnread[k + 1] EXCEPT !.whole = FALSE]>>
                \o SubSeq(LinesUnread, k + 2, Len(LinesUnread)) =
                  LinesFrom(FirstUnread + k, next - FirstUnread - k, FALSE)
<1> DEFINE h == FirstUnread
           d == next - FirstUnread
           w == Entire
<1>1. w \in BOOLEAN
  BY DEF Entire
<1> HIDE DEF h, d, w
<1>2. d \in Nat /\ h \in Nat /\ h > 0 /\ k \in 1..d
  BY DEF h, d
<1>3. SubSeq(LinesFrom(h, d, w), k + 1, Len(LinesFrom(h, d, w))) = LinesFrom(h + k, d - k, TRUE)
  BY <1>1, <1>2, LinesLeft, ZenonT(60)
<1>4. ASSUME k < d
      PROVE  <<[LinesFrom(h, d, w)[k + 1] EXCEPT !.whole = FALSE]>>
               \o SubSeq(LinesFrom(h, d, w), k + 2, Len(LinesFrom(h, d, w))) =
                 LinesFrom(h + k, d - k, FALSE)
  BY <1>1, <1>2, <1>4, LinesTorn, ZenonT(60)
<1>5. LinesUnread = LinesFrom(h, d, w)
  BY LinesUnreadAre DEF h, d, w
<1> QED
  BY <1>3, <1>4, <1>5 DEF h, d

\* The line that is handled is a message just when all of it came and nothing else.
LEMMA LineIsEntire ==
  ASSUME FramingTypeOK, StreamInv, OrderInv, ContigInv, HandleLine, NEW m \in 1..MaxMsgs
  PROVE  Line(data) = Message(m) <=> m = FirstUnread /\ Entire /\ ~Leftover
<1> DEFINE U == Unread
           e == FirstEnd(data)
           h == FirstUnread
<1>1. /\ e \in 1..Len(data) /\ Line(data) \in Seq(Cell) /\ Len(Line(data)) = e
      /\ \A i \in 1..e : Line(data)[i] = data[i]
  BY LineCells
<1>2. FirstEnd(U) = e
  BY HandledUnread
<1>3. stream \in Seq(Cell) /\ data \in Seq(Cell) /\ Len(data) \in Nat
  BY DEF FramingTypeOK
<1>4. \A i \in 1..Len(data) : U[i] = data[i]
  BY <1>3, UnreadCells
<1>5. /\ Message(m) \in Seq(Cell) /\ Len(Message(m)) = 2
      /\ Message(m)[1] = First(m) /\ Message(m)[2] = Second(m)
  BY MessageCells
<1>6. e # 0 /\ e \in Nat /\ \A i \in 1..e : i \in 1..Len(data)
  BY <1>1, <1>3
<1>7. U[e] = Second(h) /\ \A k \in 1..(e - 1) : U[k].msg = h => k = e - 1 /\ U[k] = First(h)
  BY <1>2, <1>6, UnreadView
<1>8. Beginnings = 1..(e - 1)
  BY <1>2, <1>6 DEF Beginnings
<1> HIDE DEF e, U, h
<1>9. \A i \in 1..e : Line(data)[i] = U[i]
  BY <1>1, <1>4, <1>6
<1>10. ASSUME Line(data) = Message(m) PROVE m = h /\ Entire /\ ~Leftover
  <2>1. e = 2
    BY <1>1, <1>5, <1>10
  <2>2. U[1] = First(m) /\ U[2] = Second(m)
    BY <1>5, <1>9, <1>10, <2>1
  <2>3. Second(m) = Second(h) /\ Second(m).msg = m /\ Second(h).msg = h /\ First(m).msg = m
    BY <1>7, <2>1, <2>2 DEF First, Second
  <2>4. m = h /\ U[1].msg = h
    BY <2>2, <2>3
  <2>5. Beginnings = {1}
    BY <1>8, <2>1
  <2> QED
    BY <2>4, <2>5 DEF Entire, Leftover, U, h
<1>11. ASSUME m = h, Entire, ~Leftover PROVE Line(data) = Message(m)
  <2>1. PICK k \in 1..(e - 1) : U[k].msg = h
    BY <1>8, <1>11 DEF Entire, U, h
  <2>2. \A j \in 1..(e - 1) : U[j].msg = h
    BY <1>8, <1>11 DEF Leftover, U, h
  <2>3. 1 \in 1..(e - 1)
    BY <1>6, <2>1
  <2>4. 1 = e - 1 /\ U[1] = First(h)
    BY <1>7, <2>2, <2>3
  <2>5. e = 2
    BY <1>6, <2>4
  <2>6. \A i \in 1..2 : Line(data)[i] = Message(m)[i]
    <3>1. Line(data)[1] = First(m) /\ Line(data)[2] = Second(m)
      BY <1>7, <1>9, <1>11, <2>4, <2>5
    <3> QED
      BY <1>5, <3>1
  <2> QED
    BY <1>1, <1>5, <2>5, <2>6, SeqEqual
<1> QED
  BY <1>10, <1>11 DEF h

\* Which messages have been handled then.
LEMMA HandledThen ==
  ASSUME FramingTypeOK, StreamInv, OrderInv, ContigInv, HandleLine
  PROVE  HandledSet' = IF Entire /\ ~Leftover THEN HandledSet \cup ({FirstUnread} \ {0})
                       ELSE HandledSet
<1>1. /\ lines' \in Seq(Seq(Cell)) /\ Len(lines') = Len(lines) + 1
      /\ \A i \in 1..Len(lines) : lines'[i] = lines[i]
      /\ lines'[Len(lines) + 1] = Line(data)
  BY LineCells
<1>2. lines \in Seq(Seq(Cell)) /\ Len(lines) \in Nat
  BY DEF FramingTypeOK
<1>3. DOMAIN lines = 1..Len(lines) /\ DOMAIN lines' = 1..(Len(lines) + 1)
  BY <1>1, <1>2
<1>4. \A m : (\E k \in DOMAIN lines' : lines'[k] = m) <=>
               (\E k \in DOMAIN lines : lines[k] = m) \/ Line(data) = m
  <2>1. \A k \in 1..(Len(lines) + 1) : k \in 1..Len(lines) \/ k = Len(lines) + 1
    BY <1>2
  <2>2. 1..Len(lines) \subseteq 1..(Len(lines) + 1) /\ Len(lines) + 1 \in 1..(Len(lines) + 1)
    BY <1>2
  <2> QED
    BY <1>1, <1>3, <2>1, <2>2
<1>5. \A m \in 1..MaxMsgs : Message(m)' = Message(m)
  BY DEF Message
<1>6. \A m \in 1..MaxMsgs : m \in HandledSet' <=> m \in HandledSet \/ Line(data) = Message(m)
  BY <1>4, <1>5 DEF HandledSet, Handled
<1>7. \A m \in 1..MaxMsgs : m \in HandledSet' <=>
        m \in HandledSet \/ (m = FirstUnread /\ Entire /\ ~Leftover)
  BY <1>6, LineIsEntire
<1>8. FirstUnread \in 1..MaxMsgs
  <2>1. FirstUnread \in 1..next /\ FirstUnread < next /\ next \in 1..(MaxMsgs + 1)
    BY UnreadView, HandledUnread DEF FramingTypeOK
  <2> QED
    BY <2>1
<1>9. FirstUnread # 0
  BY <1>8
<1>10. HandledSet' \subseteq 1..MaxMsgs /\ HandledSet \subseteq 1..MaxMsgs
  BY DEF HandledSet
<1> QED
  BY <1>7, <1>8, <1>9, <1>10, Zenon

\* Handling a line takes it with all that the streambuf holds behind it.
LEMMA FramedHandle ==
  ASSUME FramingTypeOK, StreamInv, OrderInv, ContigInv, HandleLine
  PROVE  \E k \in 1..Len(LinesUnread), torn \in BOOLEAN : Reader!Read(k, torn)
<1> DEFINE U == Unread
           e == FirstEnd(data)
           h == FirstUnread
           D == Len(data)
           s == Len(stream)
           d == next - h
           c == U[D]
           m == c.msg
<1>1. /\ stream \in Seq(Cell) /\ data \in Seq(Cell) /\ s \in Nat /\ D \in Nat /\ next \in Nat
  BY DEF FramingTypeOK
<1>2. Unread' = stream /\ next' = next /\ FirstEnd(U) = e /\ e \in 1..D
  BY HandledUnread
<1>3. /\ U \in Seq(Cell) /\ Len(U) = D + s /\ DOMAIN U = 1..(D + s)
      /\ \A i \in 1..D : U[i] = data[i]
      /\ \A i \in 1..s : U[D + i] = stream[i]
  BY <1>1, UnreadCells
<1>4. e # 0 /\ e \in Nat
  BY <1>1, <1>2
<1>5. /\ h \in 1..next /\ h < next
      /\ \A i \in e..(D + s) : Place(U[i]) = 2 * h + 1 + (i - e)
      /\ D + s - e = 2 * (next - 1 - h)
  BY <1>2, <1>3, <1>4, UnreadView
<1>6. Sent(U)
  BY UnreadOrder
<1> HIDE DEF U, e, D, s
<1>7. h \in Nat /\ h > 0 /\ d \in Nat /\ d > 0 /\ h + d = next
  BY <1>1, <1>5
<1>8. LinesUnread = LinesFrom(h, d, Entire) /\ Entire \in BOOLEAN
  BY LinesUnreadAre DEF Entire
<1> HIDE DEF d
<1>9. Len(LinesUnread) = d /\ LinesUnread[1] = LineAt(h, Entire)
  BY <1>7, <1>8, LinesFromSeq
<1>10. LinesUnread' = LinesFrom(FirstUnread', next' - FirstUnread', Entire')
  BY DEF LinesUnread, LinesFrom, LineAt, Entire
<1>11. HandledSet' = IF LinesUnread[1].whole /\ ~Leftover
                     THEN HandledSet \cup ({LinesUnread[1].msg} \ {0}) ELSE HandledSet
  <2>1. LinesUnread[1].whole = Entire /\ LinesUnread[1].msg = h
    BY <1>9 DEF LineAt
  <2> QED
    BY <2>1, HandledThen
<1> HIDE DEF h
<1>12. /\ c \in Cell /\ Place(c) = 2 * h + 1 + (D - e) /\ m < next
       /\ c = data[D] /\ D # 0
  <2>1. D \in e..(D + s) /\ D \in DOMAIN U /\ D \in 1..D
    BY <1>1, <1>2, <1>3
  <2> QED
    BY <1>3, <1>5, <1>6, <2>1 DEF Sent
<1>13. \A i \in 1..s : /\ i \in DOMAIN stream /\ stream[i] \in Cell
                       /\ Place(stream[i]) = 2 * h + 1 + (D + i - e)
  <2> SUFFICES ASSUME NEW i \in 1..s
               PROVE  /\ i \in DOMAIN stream /\ stream[i] \in Cell
                      /\ Place(stream[i]) = 2 * h + 1 + (D + i - e)
    OBVIOUS
  <2>1. D + i \in e..(D + s)
    BY <1>1, <1>2
  <2>2. i \in DOMAIN stream /\ stream[i] \in Cell
    BY <1>1 DEF s
  <2> QED
    <3> DEFINE j == D + i
    <3> HIDE DEF j
    <3>1. Place(U[j]) = 2 * h + 1 + (j - e)
      BY <1>5, <2>1 DEF j
    <3>2. U[j] = stream[i]
      BY <1>3 DEF j
    <3>3. j - e = D + i - e
      BY <1>1, <1>4 DEF j
    <3> QED
      BY <2>2, <3>1, <3>2, <3>3
<1>14. ASSUME NEW k \in 1..d, NEW torn \in BOOLEAN, torn => k < d,
              FirstUnread' = h + k, Leftover' = FALSE, k < d => Entire' = ~torn
       PROVE  Reader!Read(k, torn)
  <2>1. LinesUnread' = LinesFrom(h + k, d - k, ~torn)
    <3>1. next' - FirstUnread' = d - k /\ h + k \in Nat /\ h + k > 0
      BY <1>2, <1>7, <1>14
    <3>2. Entire' \in BOOLEAN
      BY DEF Entire
    <3>3. CASE k < d
      BY <1>10, <1>14, <3>1, <3>3
    <3>4. CASE k = d
      <4>1. d - k = 0 /\ (~torn) \in BOOLEAN
        BY <1>7, <3>4
      <4> QED
        BY <1>10, <1>14, <3>1, <3>2, <4>1, NoLines
    <3> QED
      BY <1>7, <3>3, <3>4
  <2>2. CASE torn
    <3>1. <<[LinesUnread[k + 1] EXCEPT !.whole = FALSE]>>
            \o SubSeq(LinesUnread, k + 2, Len(LinesUnread)) = LinesFrom(h + k, d - k, FALSE)
      BY <1>7, <1>14, <2>2, UnreadLeft DEF h, d
    <3>2. ~torn = FALSE
      BY <2>2
    <3> QED
      BY <1>9, <1>11, <1>14, <2>1, <2>2, <3>1, <3>2 DEF Reader!Read, Reader!Left, HandledSet
  <2>3. CASE ~torn
    <3>1. SubSeq(LinesUnread, k + 1, Len(LinesUnread)) = LinesFrom(h + k, d - k, TRUE)
      BY <1>7, <1>14, UnreadLeft DEF h, d
    <3>2. ~torn = TRUE
      BY <2>3
    <3> QED
      BY <1>9, <1>11, <1>14, <2>1, <2>3, <3>1, <3>2 DEF Reader!Read, Reader!Left, HandledSet
  <2> QED
    BY <2>2, <2>3
<1>15. m \in Nat /\ m + 1 <= next /\ e \in Nat /\ e <= D
  <2>1. m \in Nat
    BY <1>12 DEF Cell
  <2> QED
    BY <1>1, <1>2, <1>12, <2>1
<1>16. /\ c.last => Place(c) = 2 * m + 1
       /\ ~c.last => Place(c) = 2 * m
  BY <1>12, CellPlace
<1> HIDE DEF m, c
<1>17. CASE c.last
  <2> DEFINE k == m - h + 1
  <2>1. 2 * m + 1 = 2 * h + 1 + (D - e)
    BY <1>12, <1>17, <1>16
  <2>2. D - e = 2 * (m - h) /\ m >= h
    BY <1>1, <1>7, <1>15, <2>1
  <2>3. k \in 1..d /\ h + k = m + 1
    BY <1>7, <1>15, <2>2
  <2>4. CASE stream = <<>>
    <3>1. s = 0 /\ m + 1 = next
      <4>1. s = 0
        BY <2>4 DEF s
      <4>2. D - e = 2 * (next - 1 - h)
        BY <1>1, <1>4, <1>5, <4>1
      <4>3. 2 * (next - 1 - h) = 2 * (m - h)
        BY <2>2, <4>2
      <4> QED
        BY <1>1, <1>7, <1>15, <4>1, <4>3
    <3>2. FirstEnd(stream) = 0
      BY <2>4, FirstEndNone
    <3>3. FirstUnread' = next /\ Beginnings' = 1..0
      BY <1>2, <2>4, <3>2 DEF FirstUnread, Beginnings
    <3>4. Leftover' = FALSE /\ ~(k < d)
      <4>1. k = d
        BY <1>7, <2>3, <3>1
      <4> QED
        BY <1>7, <3>3, <4>1 DEF Leftover
    <3> HIDE DEF k
    <3>5. Reader!Read(k, FALSE)
      BY <1>14, <2>3, <3>1, <3>3, <3>4
    <3> QED
      BY <1>9, <2>3, <3>5
  <2>5. CASE stream # <<>>
    <3>1. data # <<>> /\ data[Len(data)].last
      BY <1>12, <1>17 DEF D
    <3>2. ~stream[1].last
      BY <2>5, <3>1 DEF StreamInv
    <3>3. 1 \in 1..s
      BY <1>1, <2>5 DEF s
    <3>4. stream[1] \in Cell /\ Place(stream[1]) = 2 * (m + 1) /\ 1 \in DOMAIN stream
      <4>1. 2 * h + 1 + (D + 1 - e) = 2 * (m + 1)
        BY <1>1, <1>7, <1>15, <2>2
      <4> QED
        BY <1>13, <3>3, <4>1
    <3>5. stream[1].msg = m + 1
      <4>1. Place(stream[1]) = 2 * stream[1].msg /\ stream[1].msg \in Nat
        BY <3>2, <3>4, CellPlace
      <4> QED
        BY <1>15, <3>4, <4>1
    <3>6. 1 + 1 \in DOMAIN stream /\ stream[1 + 1] = Second(stream[1].msg)
      BY <3>2, <3>4 DEF StreamInv
    <3>7. 2 \in DOMAIN stream /\ stream[2].last /\ stream[2].msg = m + 1
      BY <3>5, <3>6 DEF Second
    <3>8. FirstEnd(stream) = 2
      <4>1. \A j \in 1..(2 - 1) : ~stream[j].last
        BY <3>2
      <4> QED
        BY <1>1, <3>7, <4>1, FirstEndIs
    <3>9. FirstUnread' = m + 1 /\ Beginnings' = {1}
      BY <1>2, <3>7, <3>8 DEF FirstUnread, Beginnings
    <3>10. Leftover' = FALSE /\ Entire' = TRUE
      BY <1>2, <3>5, <3>9 DEF Leftover, Entire
    <3> HIDE DEF k
    <3>11. Reader!Read(k, FALSE)
      BY <1>14, <2>3, <3>9, <3>10
    <3> QED
      BY <1>9, <2>3, <3>11
  <2> QED
    BY <2>4, <2>5
<1>18. CASE ~c.last
  <2> DEFINE k == m - h
  <2>1. 2 * m = 2 * h + 1 + (D - e)
    BY <1>12, <1>18, <1>16
  <2>2. D - e = 2 * (m - h) - 1 /\ m > h
    BY <1>1, <1>7, <1>15, <2>1
  <2>3. k \in 1..d /\ h + k = m /\ k < d
    BY <1>7, <1>15, <2>2
  <2>4. 1 \in 1..s
    <3>1. s # 0
      <4>1. s = 0 => 2 * (m - h) - 1 = 2 * (next - 1 - h)
        BY <1>1, <1>5, <1>15, <2>2
      <4> QED
        BY <1>1, <1>7, <1>15, <4>1
    <3> QED
      BY <1>1, <3>1
  <2>5. stream[1] \in Cell /\ Place(stream[1]) = 2 * m + 1 /\ 1 \in DOMAIN stream
    <3>1. 2 * h + 1 + (D + 1 - e) = 2 * m + 1
      BY <1>1, <1>7, <1>15, <2>2
    <3> QED
      BY <1>13, <2>4, <3>1
  <2>6. stream[1].last /\ stream[1].msg = m
    <3>1. \/ stream[1].last /\ Place(stream[1]) = 2 * stream[1].msg + 1
          \/ ~stream[1].last /\ Place(stream[1]) = 2 * stream[1].msg
      BY <2>5, CellPlace
    <3>2. stream[1].msg \in Nat
      BY <2>5 DEF Cell
    <3> QED
      BY <1>15, <2>5, <3>1, <3>2
  <2>7. FirstEnd(stream) = 1
    <3>1. \A j \in 1..(1 - 1) : ~stream[j].last
      OBVIOUS
    <3> QED
      BY <1>1, <2>5, <2>6, <3>1, FirstEndIs
  <2>8. FirstUnread' = m /\ Beginnings' = {}
    BY <1>2, <2>6, <2>7 DEF FirstUnread, Beginnings
  <2>9. Leftover' = FALSE /\ Entire' = FALSE
    BY <2>8 DEF Leftover, Entire
  <2> HIDE DEF k
  <2>10. Reader!Read(k, TRUE)
    BY <1>14, <2>3, <2>8, <2>9
  <2> QED
    BY <1>9, <2>3, <2>10
<1> QED
  BY <1>17, <1>18

\* When a connection ends, only the beginning of one line may be left of it.
LEMMA FramedEnd ==
  ASSUME FramingTypeOK, StreamInv, OrderInv, ContigInv, LeftoverInv, ConnectionEnds
  PROVE  Reader!End
<1> DEFINE e == FirstEnd(Unread)
<1>1. /\ stream' = <<>> /\ data' = (IF KeepsBuffer THEN data ELSE <<>>) /\ FirstEnd(data) = 0
      /\ next' = next /\ lines' = lines
  BY DEF ConnectionEnds
<1>2. /\ stream \in Seq(Cell) /\ data \in Seq(Cell) /\ Len(stream) \in Nat /\ Len(data) \in Nat
      /\ next \in Nat /\ next > 0
  BY DEF FramingTypeOK
<1>3. \A k \in DOMAIN data : ~data[k].last
  BY <1>1, <1>2, NoEnd
<1>4. Unread' = data' /\ data' \in Seq(Cell)
  <2>1. data' \in Seq(Cell)
    BY <1>1, <1>2, EmptySeq
  <2>2. data' \o <<>> = data'
    BY <2>1, NothingBehind
  <2>3. Unread' = data' \o <<>>
    BY <1>1 DEF Unread
  <2> QED
    BY <2>1, <2>2, <2>3
<1>5. \A k \in DOMAIN data' : ~data'[k].last
  <2>1. CASE KeepsBuffer
    BY <1>1, <1>3, <2>1
  <2>2. CASE ~KeepsBuffer
    <3>1. data' = <<>>
      BY <1>1, <2>2
    <3> QED
      BY <3>1
  <2> QED
    BY <2>1, <2>2
<1>6. FirstEnd(data') = 0
  BY <1>5, FirstEndNone
<1>7. FirstUnread' = next /\ Beginnings' = 1..Len(data')
  BY <1>1, <1>4, <1>6 DEF FirstUnread, Beginnings
<1>8. LinesUnread' = <<>>
  <2>1. LinesUnread' = LinesFrom(FirstUnread', next' - FirstUnread', Entire')
    BY DEF LinesUnread, LinesFrom, LineAt, Entire
  <2>2. next' - FirstUnread' = 0
    BY <1>1, <1>2, <1>7
  <2>3. Entire' \in BOOLEAN
    BY DEF Entire
  <2> QED
    BY <1>2, <1>7, <2>1, <2>2, <2>3, NoLines
<1>9. data' = <<>> => Leftover' = FALSE
  <2>1. data' = <<>> => Beginnings' = {}
    BY <1>7
  <2> QED
    BY <2>1 DEF Leftover
<1>10. /\ FirstUnread \in 1..next
       /\ e = 0 => FirstUnread = next
       /\ e # 0 => FirstUnread < next /\ Unread[e] = Second(FirstUnread)
  BY UnreadView
<1>11. Sent(Unread)
  BY UnreadOrder
<1>12. /\ Unread \in Seq(Cell) /\ Len(Unread) = Len(data) + Len(stream)
       /\ DOMAIN Unread = 1..(Len(data) + Len(stream))
       /\ \A i \in 1..Len(stream) : Unread[Len(data) + i] = stream[i]
  BY <1>2, UnreadCells
<1>13. Leftover \in BOOLEAN /\ Leftover' \in BOOLEAN
  BY DEF Leftover
<1>14. e # 0 => LinesUnread # <<>>
  <2>1. 1 \in 1..(next - FirstUnread) \/ e = 0
    BY <1>2, <1>10
  <2>2. DOMAIN LinesUnread = 1..(next - FirstUnread)
    BY DEF LinesUnread
  <2>3. DOMAIN <<>> = {}
    OBVIOUS
  <2> QED
    BY <2>1, <2>2, <2>3
<1>15. HandledSet' = HandledSet
  BY <1>1 DEF HandledSet, Handled
<1>16. CASE ~KeepsBuffer
  <2>1. ~Leftover /\ ~Leftover'
    BY <1>1, <1>9, <1>16 DEF LeftoverInv
  <2>2. Leftover' = Leftover
    BY <1>13, <2>1
  <2> QED
    BY <1>8, <1>15, <2>2 DEF Reader!End, HandledSet
<1>17. CASE KeepsBuffer /\ data = <<>>
  <2>1. Len(data) = 0 /\ ~Leftover'
    BY <1>1, <1>9, <1>17
  <2>2. ~Leftover
    <3>1. \/ stream = <<>> /\ e = 0
          \/ e = 1
          \/ e = 2 /\ stream[1].msg = stream[2].msg
      BY <1>17, UnreadEnd
    <3>2. CASE stream = <<>> /\ e = 0
      <4>1. Len(Unread) = 0
        BY <1>12, <2>1, <3>2
      <4>2. Beginnings = {}
        BY <3>2, <4>1 DEF Beginnings
      <4> QED
        BY <4>2 DEF Leftover
    <3>3. CASE e = 1
      <4>1. Beginnings = {}
        BY <3>3 DEF Beginnings
      <4> QED
        BY <4>1 DEF Leftover
    <3>4. CASE e = 2 /\ stream[1].msg = stream[2].msg
      <4>1. Beginnings = {1} /\ FirstUnread = Unread[2].msg
        BY <3>4 DEF Beginnings, FirstUnread
      <4>2. 2 \in 1..Len(Unread)
        BY <3>4, UnreadEnd
      <4>3. 1 \in 1..Len(stream) /\ 2 \in 1..Len(stream)
        BY <1>2, <1>12, <2>1, <4>2
      <4>4. Unread[0 + 1] = stream[1] /\ Unread[0 + 2] = stream[2]
        BY <1>12, <2>1, <4>3
      <4> QED
        BY <3>4, <4>1, <4>4 DEF Leftover
    <3> QED
      BY <3>1, <3>2, <3>3, <3>4
  <2>3. Leftover' = Leftover
    BY <1>13, <2>1, <2>2
  <2> QED
    BY <1>8, <1>15, <2>3 DEF Reader!End, HandledSet
<1>18. CASE KeepsBuffer /\ data # <<>>
  <2>1. data' = data /\ 1 \in 1..Len(data)
    BY <1>1, <1>2, <1>18
  <2>2. Leftover \/ LinesUnread # <<>>
    <3>1. CASE e # 0
      BY <1>14, <3>1
    <3>2. CASE e = 0
      <4>1. 1 \in DOMAIN Unread /\ 1 \in 1..Len(Unread)
        BY <1>2, <1>12, <2>1
      <4>2. Unread[1] \in Cell /\ Unread[1].msg < next
        BY <1>11, <1>12, <4>1 DEF Sent
      <4>3. Unread[1].msg # FirstUnread
        BY <1>2, <1>10, <3>2, <4>2 DEF Cell
      <4>4. 1 \in Beginnings
        BY <3>2, <4>1 DEF Beginnings
      <4> QED
        BY <4>3, <4>4 DEF Leftover
    <3> QED
      BY <3>1, <3>2
  <2>3. Leftover'
    <3>1. data[1].msg < next /\ data[1] \in Cell
      BY <1>2, <2>1 DEF OrderInv, Sent
    <3>2. data'[1].msg # next
      BY <1>2, <2>1, <3>1 DEF Cell
    <3> QED
      BY <1>4, <1>7, <2>1, <3>2 DEF Leftover
  <2>4. Leftover' = (Leftover \/ (KeepsBuffer /\ LinesUnread # <<>>))
    BY <1>13, <1>18, <2>2, <2>3
  <2> QED
    BY <1>8, <1>15, <2>4 DEF Reader!End, HandledSet
<1> QED
  BY <1>16, <1>17, <1>18

\* Every step of the reader is one of the stream of lines, or changes no line.
LEMMA FramedStep ==
  ASSUME FramingTypeOK, StreamInv, OrderInv, ContigInv, LeftoverInv, [Next]_vars
  PROVE  /\ Reader!Next \/ UNCHANGED <<LinesUnread, Leftover, HandledSet>>
         /\ LeftoverInv'
<1>1. CASE Send
  <2>1. Reader!Write(next) /\ next \in 1..MaxMsgs
    BY <1>1, FramedSend, SendUnread
  <2>2. Leftover' = Leftover
    BY <2>1 DEF Reader!Write
  <2> QED
    BY <2>1, <2>2 DEF Reader!Next, LeftoverInv
<1>2. ASSUME NEW k, ReadSome(k)
      PROVE  UNCHANGED <<LinesUnread, Leftover, HandledSet>> /\ LeftoverInv'
  <2>1. Unread' = Unread /\ next' = next /\ lines' = lines
    BY <1>2, ReadUnread DEF ReadSome
  <2>2. FirstUnread' = FirstUnread /\ Beginnings' = Beginnings
    BY <2>1 DEF FirstUnread, Beginnings
  <2>3. Leftover' = Leftover
    BY <2>1, <2>2 DEF Leftover
  <2>4. LinesUnread' = LinesUnread
    BY <2>1, <2>2 DEF LinesUnread
  <2>5. HandledSet' = HandledSet
    BY <2>1 DEF HandledSet, Handled
  <2> QED
    BY <2>3, <2>4, <2>5 DEF LeftoverInv
<1>3. CASE HandleLine
  <2>1. PICK k \in 1..Len(LinesUnread), torn \in BOOLEAN : Reader!Read(k, torn)
    BY <1>3, FramedHandle
  <2>2. Leftover' = FALSE
    BY <2>1 DEF Reader!Read
  <2> QED
    BY <2>1, <2>2 DEF Reader!Next, LeftoverInv
<1>4. CASE ConnectionEnds
  <2>1. Reader!End
    BY <1>4, FramedEnd
  <2>2. ~KeepsBuffer => Leftover' = Leftover
    <3>1. Leftover \in BOOLEAN
      BY DEF Leftover
    <3>2. Leftover' \in {Leftover, Leftover \/ (KeepsBuffer /\ LinesUnread # <<>>)}
      BY <2>1 DEF Reader!End
    <3> QED
      BY <3>1, <3>2
  <2> QED
    BY <2>1, <2>2 DEF Reader!Next, LeftoverInv
<1>5. CASE UNCHANGED vars
  <2>1. Unread' = Unread /\ next' = next /\ lines' = lines
    BY <1>5 DEF vars, Unread
  <2>2. FirstUnread' = FirstUnread /\ Beginnings' = Beginnings
    BY <2>1 DEF FirstUnread, Beginnings
  <2>3. Leftover' = Leftover /\ LinesUnread' = LinesUnread
    BY <2>1, <2>2 DEF Leftover, LinesUnread
  <2>4. HandledSet' = HandledSet
    BY <2>1 DEF HandledSet, Handled
  <2> QED
    BY <2>3, <2>4 DEF LeftoverInv
<1> QED
  BY <1>1, <1>2, <1>3, <1>4, <1>5 DEF Next

-----------------------------------------------------------------------------
(* The theorems. *)

\* The invariant holds at the start.
LEMMA InvInit == Init => IInv
<1> SUFFICES ASSUME Init PROVE IInv
  OBVIOUS
<1>1. /\ stream = <<>> /\ data = <<>> /\ next = 1 /\ ends = 0 /\ lines = <<>>
      /\ crowded = {} /\ discarded = 0 /\ stale = 0
  BY DEF Init
<1>2. FramingTypeOK
  BY <1>1, EmptySeq DEF FramingTypeOK
<1>3. StreamInv /\ OrderInv
  BY <1>1 DEF StreamInv, OrderInv, Ascending, Below, Sent
<1>4. InStep
  BY <1>1 DEF InStep
<1>5. Garbled = {}
  BY <1>1 DEF Garbled
<1>6. Cardinality({}) = 0
  BY FS_EmptySet
<1>7. GarbledInv
  BY <1>1, <1>4, <1>5, <1>6 DEF GarbledInv
<1>8. LoneInv
  BY <1>1 DEF LoneInv
<1> QED
  BY <1>2, <1>3, <1>7, <1>8 DEF IInv

\* Every step keeps the invariant.
LEMMA InvNext == IInv /\ [Next]_vars => IInv'
BY TypeStep, StreamStep, OrderStep, GarbledStep, LoneStep DEF IInv

\* Streambuf, stream and the lines handled fit together after every message, read,
\* line and end of a connection.
THEOREM Invariant == Spec => []IInv
BY InvInit, InvNext, PTL DEF Spec

\* Lines that are messages are handled in the order they were sent, none twice.
THEOREM HandledInOrderAlways == Spec => []HandledInOrder
<1>1. ASSUME IInv PROVE HandledInOrder
  <2> SUFFICES ASSUME NEW j \in DOMAIN lines \ Garbled, NEW k \in DOMAIN lines \ Garbled, j < k
               PROVE  lines[j][1].msg < lines[k][1].msg
    BY DEF HandledInOrder
  <2>1. PICK a \in 1..MaxMsgs : lines[j] = Message(a)
    BY DEF Garbled, Whole
  <2>2. PICK b \in 1..MaxMsgs : lines[k] = Message(b)
    BY DEF Garbled, Whole
  <2>3. Below(lines[j], lines[k])
    BY <1>1 DEF IInv, OrderInv
  <2>4. /\ 2 \in DOMAIN lines[j] /\ lines[j][2] = Second(a) /\ lines[j][1] = First(a)
        /\ 1 \in DOMAIN lines[k] /\ lines[k][1] = First(b)
    BY <2>1, <2>2, MessageCells
  <2>5. Place(Second(a)) < Place(First(b))
    BY <2>3, <2>4 DEF Below
  <2>6. 2 * a + 1 < 2 * b
    BY <2>5 DEF Place, First, Second
  <2> QED
    BY <2>4, <2>6 DEF First
<1> QED
  BY <1>1, Invariant, PTL

\* There are no more garbled lines than replaced and carried-over streambufs.
THEOREM GarbledLinesHaveACauseAlways == Spec => []GarbledLinesHaveACause
<1>1. ASSUME IInv PROVE GarbledLinesHaveACause
  BY <1>1, GarbledTypes DEF IInv, GarbledInv, FramingTypeOK, GarbledLinesHaveACause
<1> QED
  BY <1>1, Invariant, PTL

\* A message sent alone is handled or still on its way as long as its connection
\* lasts, whatever was lost before it.
THEOREM LoneMessageArrivesAlways == Spec => []LoneMessageArrives
<1>1. ASSUME IInv PROVE LoneMessageArrives
  <2> SUFFICES ASSUME NEW m \in 1..(next - 1), m \notin crowded, ends = 0, ~Handled(m)
               PROVE  \/ \E k \in DOMAIN stream : stream[k].msg = m
                      \/ \E k \in DOMAIN data : data[k].msg = m
    BY DEF LoneMessageArrives
  <2>1. stream \in Seq(Cell) /\ data \in Seq(Cell)
    BY <1>1 DEF IInv, FramingTypeOK
  <2>2. AtHead(m)
    BY <1>1 DEF IInv, LoneInv
  <2> QED
    BY <2>1, <2>2 DEF AtHead, First
<1> QED
  BY <1>1, Invariant, PTL
\* Server::do_read and SocketHandler::do_read: however the bytes are cut into reads,
\* the reader takes lines as one of a LineStream does; a read may drop whole lines and
\* the beginning of one more, and only Server's carries anything to the next connection.
THEOREM ReadsLineByLineAlways == Spec => ReadsLineByLine
<1> DEFINE LInv == ContigInv /\ LeftoverInv
<1>1. Init => Reader!Init /\ LInv
  <2> SUFFICES ASSUME Init PROVE Reader!Init /\ LInv
    OBVIOUS
  <2>1. stream = <<>> /\ data = <<>> /\ next = 1 /\ lines = <<>>
    BY DEF Init
  <2>2. Unread = <<>>
    BY <2>1, EmptySeq, NothingBehind DEF Unread
  <2>3. FirstEnd(Unread) = 0
    BY <2>2, FirstEndNone
  <2>4. FirstUnread = 1 /\ Beginnings = {}
    BY <2>1, <2>2, <2>3 DEF FirstUnread, Beginnings
  <2>5. LinesUnread = <<>>
    <3>1. next - FirstUnread = 0
      BY <2>1, <2>4
    <3>2. Entire \in BOOLEAN
      BY DEF Entire
    <3> QED
      BY <2>4, <3>1, <3>2, LinesUnreadAre, NoLines
  <2>6. Leftover = FALSE
    BY <2>4 DEF Leftover
  <2>7. HandledSet = {}
    BY <2>1 DEF HandledSet, Handled
  <2>8. ContigInv
    BY <2>2 DEF ContigInv
  <2> QED
    BY <2>5, <2>6, <2>7, <2>8 DEF Reader!Init, HandledSet, LeftoverInv
<1>2. IInv /\ LInv /\ [Next]_vars => [Reader!Next]_(Reader!vars) /\ LInv'
  BY FramedStep, ContigStep DEF IInv, Reader!vars, HandledSet
<1> HIDE DEF LInv
<1> QED
  BY <1>1, <1>2, Invariant, PTL DEF Spec, ReadsLineByLine, Reader!Spec
=============================================================================
