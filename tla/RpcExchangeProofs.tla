------------------------- MODULE RpcExchangeProofs -------------------------
(***************************************************************************)
(* Proofs about RpcExchange for every set of messages, window, difference  *)
(* of clocks and number of connections: what Connection's theorems say     *)
(* holds of a server in the exchange too, and the two ends together        *)
(* implement RpcPromise.                                                   *)
(***************************************************************************)
EXTENDS RpcExchange, ConnectionProofs

USE ExchangeConstants, ConnectionConstants

-----------------------------------------------------------------------------
(* The sender is the server of Connection. *)

LEMMA StepIsConnectionStep == [XNext]_xvars => [Next]_vars
<1>1. ASSUME NEW k, NEW torn, ReadReplies(k, torn) PROVE Read
  BY <1>1 DEF ReadReplies, Read
<1>2. Handlers => Resolved \/ Completed \/ Kernel \/ Read
  BY DEF Handlers, SureHandlers, AtSender, Read
<1>3. Sends => \E m \in Msgs : Send(m)
  BY DEF Sends, AtSender
<1>4. PeerReadsSome \/ (\E m \in Msgs : Done(m)) \/ Tick => UNCHANGED vars
  BY DEF PeerReadsSome, PeerReads, Done, Tick
<1>5. (\E reset \in BOOLEAN : PeerEnds(reset)) => PeerCloses
  BY DEF PeerEnds
<1> QED
  BY <1>1, <1>2, <1>3, <1>4, <1>5 DEF XNext, Next, ReadsSomeReplies, xvars

\* The Server of an exchange does what Connection lets a Server do, so that what
\* is proved of Connection holds in the exchange.
THEOREM SenderIsConnection == XSpec => Spec
<1>1. XInit => Init
  BY DEF XInit
<1> QED
  BY <1>1, StepIsConnectionStep, PTL DEF XSpec, Spec

-----------------------------------------------------------------------------
(* The invariant: where a message can be. *)

Outcomes == {"none", "answered", "reply lost", "request lost", "refused"}

RequestLine == [msg: Msgs, whole: BOOLEAN]

ReplyLine == [msg: MsgOrNone, whole: BOOLEAN]

XTypeOK ==
  /\ TypeOK
  /\ age \in [Msgs -> 0..OldAge]
  /\ skew \in (-MaxSkew)..MaxSkew
  /\ inFlight \in Seq(RequestLine)
  /\ working \in SUBSET Msgs
  /\ replies \in Seq(ReplyLine)
  /\ halfLine \in BOOLEAN
  /\ runs \in [Msgs -> 0..1]
  /\ outcome \in [Msgs -> Outcomes]

Flies(m) == \E k \in DOMAIN inFlight : inFlight[k].msg = m

Returns(m) == \E k \in DOMAIN replies : replies[k].msg = m

\* A message has been executed if it is with the peer's plugin or on its way back,
\* and has an outcome only if it is nowhere.
PlaceInv(m) ==
  /\ m \notin sent => runs[m] = 0 /\ outcome[m] = "none"
  /\ m \in lost => runs[m] = 0 /\ outcome[m] = "none"
  /\ Waits(m) => runs[m] = 0 /\ outcome[m] = "none"
  /\ Flies(m) => m \in sent \ lost /\ ~Waits(m) /\ runs[m] = 0 /\ outcome[m] = "none"
  /\ m \in working => m \in sent \ lost /\ runs[m] = 1 /\ outcome[m] = "none" /\ ~Returns(m)
  /\ Returns(m) => m \in sent \ lost /\ runs[m] = 1 /\ outcome[m] = "none"

XInv ==
  /\ XTypeOK
  /\ WaitInv
  /\ Once(inFlight)
  /\ Once(replies)
  /\ \A m \in Msgs : PlaceInv(m)

-----------------------------------------------------------------------------
(* Lines. *)

LEMMA LineAdded ==
  ASSUME NEW S, NEW lines \in Seq(S), NEW line \in S
  PROVE  /\ Append(lines, line) \in Seq(S)
         /\ \A m : (\E j \in DOMAIN Append(lines, line) : Append(lines, line)[j].msg = m)
                     <=> (\E j \in DOMAIN lines : lines[j].msg = m) \/ m = line.msg
         /\ Once(lines) /\ (line.msg # None => \A j \in DOMAIN lines : lines[j].msg # line.msg)
              => Once(Append(lines, line))
<1> DEFINE more == Append(lines, line)
<1>1. more \in Seq(S)
  BY AppendProperties
<1>2. /\ DOMAIN more = DOMAIN lines \cup {Len(lines) + 1}
      /\ \A k \in DOMAIN lines : more[k] = lines[k] /\ k # Len(lines) + 1
      /\ more[Len(lines) + 1] = line
  BY Appended
<1> HIDE DEF more
<1>3. \A m : (\E j \in DOMAIN more : more[j].msg = m)
               <=> (\E j \in DOMAIN lines : lines[j].msg = m) \/ m = line.msg
  BY <1>2
<1>4. Once(lines) /\ (line.msg # None => \A j \in DOMAIN lines : lines[j].msg # line.msg)
        => Once(more)
  BY <1>2 DEF Once
<1> QED
  BY <1>1, <1>3, <1>4 DEF more

\* Half of a line is a line, of the same message.
HalfLines(S) ==
  \A line \in S : [line EXCEPT !.whole = FALSE] \in S /\ [line EXCEPT !.whole = FALSE].msg = line.msg

LEMMA LinesHaveHalves == HalfLines(RequestLine) /\ HalfLines(ReplyLine)
BY DEF HalfLines, RequestLine, ReplyLine

\* What a read leaves are the lines behind those it took.
LEMMA RemainingLines ==
  ASSUME NEW S, HalfLines(S), NEW lines \in Seq(S), NEW k, NEW torn \in BOOLEAN,
         ReadEnds(lines, k, torn)
  PROVE  /\ Remaining(lines, k, torn) \in Seq(S)
         /\ DOMAIN Remaining(lines, k, torn) = 1..(Len(lines) - k)
         /\ \A j \in 1..(Len(lines) - k) : Remaining(lines, k, torn)[j].msg = lines[j + k].msg
<1>1. k \in 1..Len(lines) /\ Len(lines) \in Nat /\ DOMAIN lines = 1..Len(lines)
  BY LenProperties DEF ReadEnds
<1>2. ASSUME NEW i \in Int, i > k, NEW n \in Nat, n = Len(lines) - i + 1
      PROVE  /\ SubSeq(lines, i, Len(lines)) \in Seq(S)
             /\ Len(SubSeq(lines, i, Len(lines))) = n
             /\ \A j \in 1..n : SubSeq(lines, i, Len(lines))[j] = lines[i + j - 1]
  <2>1. \A j \in i..Len(lines) : lines[j] \in S
    BY <1>1, <1>2, ElementOfSeq
  <2>2. /\ SubSeq(lines, i, Len(lines)) \in Seq(S)
        /\ Len(SubSeq(lines, i, Len(lines))) =
             (IF i <= Len(lines) THEN Len(lines) - i + 1 ELSE 0)
        /\ \A j \in 1..(Len(lines) - i + 1) :
             SubSeq(lines, i, Len(lines))[j] = lines[i + j - 1]
    BY <1>1, <2>1, SubSeqProperties
  <2>3. (IF i <= Len(lines) THEN Len(lines) - i + 1 ELSE 0) = n
    BY <1>1, <1>2
  <2> QED
    BY <1>2, <2>2, <2>3
<1>3. CASE torn
  <2> DEFINE half == [lines[k + 1] EXCEPT !.whole = FALSE]
             behind == SubSeq(lines, k + 2, Len(lines))
  <2>1. k < Len(lines)
    BY <1>3 DEF ReadEnds
  <2>2. half \in S /\ half.msg = lines[k + 1].msg
    BY <1>1, <2>1, ElementOfSeq DEF HalfLines
  <2>3. /\ behind \in Seq(S) /\ Len(behind) = Len(lines) - k - 1
        /\ \A j \in 1..(Len(lines) - k - 1) : behind[j] = lines[k + 2 + j - 1]
    <3>1. /\ k + 2 \in Int /\ k + 2 > k /\ Len(lines) - k - 1 \in Nat
          /\ Len(lines) - k - 1 = Len(lines) - (k + 2) + 1
      BY <1>1, <2>1
    <3> QED
      BY <1>2, <3>1
  <2> DEFINE rest == <<half>> \o behind
  <2>4. Remaining(lines, k, torn) = rest
    BY <1>3 DEF Remaining
  <2> HIDE DEF half, behind
  <2>5. /\ <<half>> \in Seq(S) /\ Len(<<half>>) = 1 /\ <<half>>[1] = half
    BY <2>2
  <2>6. /\ rest \in Seq(S) /\ Len(rest) = Len(lines) - k
        /\ \A j \in 1..(Len(lines) - k) :
             rest[j] = (IF j <= 1 THEN <<half>>[j] ELSE behind[j - 1])
    <3>1. Len(<<half>>) + Len(behind) = Len(lines) - k
      BY <1>1, <2>1, <2>3, <2>5
    <3>2. /\ rest \in Seq(S) /\ Len(rest) = Len(<<half>>) + Len(behind)
          /\ \A j \in 1..(Len(<<half>>) + Len(behind)) :
               rest[j] = (IF j <= Len(<<half>>) THEN <<half>>[j] ELSE behind[j - Len(<<half>>)])
      BY <2>3, <2>5, ConcatProperties
    <3> QED
      BY <2>5, <3>1, <3>2
  <2> HIDE DEF rest
  <2>7. ASSUME NEW j \in 1..(Len(lines) - k) PROVE rest[j].msg = lines[j + k].msg
    <3>1. CASE j = 1
      BY <1>1, <2>1, <2>2, <2>5, <2>6, <3>1
    <3>2. CASE j # 1
      <4>1. j - 1 \in 1..(Len(lines) - k - 1) /\ k + 2 + (j - 1) - 1 = j + k /\ ~(j <= 1)
        BY <1>1, <2>1, <3>2
      <4> QED
        BY <2>3, <2>6, <4>1
    <3> QED
      BY <3>1, <3>2
  <2>8. DOMAIN rest = 1..(Len(lines) - k)
    BY <2>6, LenProperties
  <2> QED
    BY <2>4, <2>6, <2>7, <2>8
<1>4. CASE ~torn
  <2> DEFINE rest == SubSeq(lines, k + 1, Len(lines))
  <2>1. Remaining(lines, k, torn) = rest
    BY <1>4 DEF Remaining
  <2>2. /\ rest \in Seq(S) /\ Len(rest) = Len(lines) - k
        /\ \A j \in 1..(Len(lines) - k) : rest[j] = lines[k + 1 + j - 1]
    <3>1. /\ k + 1 \in Int /\ k + 1 > k /\ Len(lines) - k \in Nat
          /\ Len(lines) - k = Len(lines) - (k + 1) + 1
      BY <1>1
    <3> QED
      BY <1>2, <3>1
  <2> HIDE DEF rest
  <2>3. DOMAIN rest = 1..(Len(lines) - k)
    BY <2>2, LenProperties
  <2>4. \A j \in 1..(Len(lines) - k) : k + 1 + j - 1 = j + k
    BY <1>1
  <2> QED
    BY <2>1, <2>2, <2>3, <2>4
<1> QED
  BY <1>3, <1>4

\* No message of what it leaves is one of those it took.
LEMMA LinesTaken ==
  ASSUME NEW S, HalfLines(S), NEW lines \in Seq(S), NEW k, NEW torn \in BOOLEAN,
         ReadEnds(lines, k, torn), Once(lines)
  PROVE  /\ 1 \in DOMAIN lines /\ lines[1] \in S
         /\ Once(Remaining(lines, k, torn))
         /\ \A j \in DOMAIN Remaining(lines, k, torn) :
              LET m == Remaining(lines, k, torn)[j].msg
              IN  m # None => /\ \E i \in DOMAIN lines : lines[i].msg = m
                              /\ m # lines[1].msg /\ m \notin DroppedBehind(lines, k)
         /\ \A m \in DroppedBehind(lines, k) :
              /\ \E i \in DOMAIN lines : lines[i].msg = m
              /\ m # None => m # lines[1].msg
<1> DEFINE rest == Remaining(lines, k, torn)
<1>1. k \in 1..Len(lines) /\ Len(lines) \in Nat /\ DOMAIN lines = 1..Len(lines)
  BY LenProperties DEF ReadEnds
<1>2. /\ DOMAIN rest = 1..(Len(lines) - k)
      /\ \A j \in 1..(Len(lines) - k) : rest[j].msg = lines[j + k].msg
  BY RemainingLines
<1> HIDE DEF rest
<1>3. \A j \in DOMAIN rest : j + k \in DOMAIN lines /\ j + k > k /\ j \in Nat
  BY <1>1, <1>2
<1>4. 1 \in DOMAIN lines /\ lines[1] \in S
  BY <1>1, ElementOfSeq
<1>5. Once(rest)
  BY <1>1, <1>2, <1>3 DEF Once
<1>6. ASSUME NEW j \in DOMAIN rest, rest[j].msg # None
      PROVE  /\ \E i \in DOMAIN lines : lines[i].msg = rest[j].msg
             /\ rest[j].msg # lines[1].msg /\ rest[j].msg \notin DroppedBehind(lines, k)
  <2>1. rest[j].msg = lines[j + k].msg /\ j + k \in DOMAIN lines /\ j + k > k
    BY <1>2, <1>3
  <2>2. \A i \in 1..k : i \in DOMAIN lines /\ i # j + k
    BY <1>1, <2>1
  <2> QED
    BY <1>1, <1>6, <2>1, <2>2 DEF Once, DroppedBehind
<1>7. ASSUME NEW m \in DroppedBehind(lines, k)
      PROVE  /\ \E i \in DOMAIN lines : lines[i].msg = m
             /\ m # None => m # lines[1].msg
  <2>1. PICK i \in 2..k : lines[i].msg = m
    BY DEF DroppedBehind
  <2>2. i \in DOMAIN lines /\ i # 1
    BY <1>1, <2>1
  <2> QED
    BY <1>4, <2>1, <2>2 DEF Once
<1> QED
  BY <1>4, <1>5, <1>6, <1>7 DEF rest

-----------------------------------------------------------------------------
(* Steps of the promise, told by what becomes of each message. *)

Same(m) == StatusOf(m)' = StatusOf(m)

LEMMA NothingStep ==
  ASSUME \A m \in Msgs : Same(m), UNCHANGED <<age, runs>>
  PROVE  UNCHANGED Promise!vars
BY DEF Same, Promise!vars

LEMMA SendStep ==
  ASSUME NEW x \in Msgs, StatusOf(x) = "new", StatusOf(x)' \in {"sent", "failed"},
         \A m \in Msgs \ {x} : Same(m), UNCHANGED <<age, runs>>
  PROVE  Promise!Next
<1>1. Promise!Send(x) \/ Promise!SendInVain(x)
  BY DEF Same, Promise!Send, Promise!SendInVain
<1> QED
  BY <1>1 DEF Promise!Next

LEMMA FailStep ==
  ASSUME NEW some \in SUBSET Msgs,
         \A m \in some : StatusOf(m) \in {"sent", "executed"} /\ StatusOf(m)' = "failed",
         \A m \in Msgs \ some : Same(m), UNCHANGED <<age, runs>>
  PROVE  Promise!Next
<1>1. Promise!Fail(some)
  BY DEF Same, Promise!Fail
<1> QED
  BY <1>1 DEF Promise!Next

LEMMA SingleStep ==
  ASSUME NEW x \in Msgs, StatusOf(x) \in {"sent", "executed"}, StatusOf(x)' = "failed",
         \A m \in Msgs \ {x} : Same(m), UNCHANGED <<age, runs>>
  PROVE  Promise!Next
BY FailStep, {x} \in SUBSET Msgs

LEMMA ExecuteStep ==
  ASSUME NEW x \in Msgs, NEW others \in SUBSET (Msgs \ {x}),
         StatusOf(x) = "sent", StatusOf(x)' = "executed", age[x] < OldAge, runs[x] = 0,
         runs' = [runs EXCEPT ![x] = 1], UNCHANGED age,
         \A m \in others : StatusOf(m) = "sent" /\ StatusOf(m)' = "failed",
         \A m \in Msgs \ (others \cup {x}) : Same(m)
  PROVE  Promise!Next
<1>1. Promise!Execute(x, others)
  BY DEF Same, Promise!Execute
<1> QED
  BY <1>1 DEF Promise!Next

LEMMA AnswerStep ==
  ASSUME NEW x \in Msgs, NEW others \in SUBSET (Msgs \ {x}),
         StatusOf(x) = "executed", StatusOf(x)' = "answered", UNCHANGED <<age, runs>>,
         \A m \in others : StatusOf(m) = "executed" /\ StatusOf(m)' = "failed",
         \A m \in Msgs \ (others \cup {x}) : Same(m)
  PROVE  Promise!Next
<1>1. Promise!Answer(x, others)
  BY DEF Same, Promise!Answer
<1> QED
  BY <1>1 DEF Promise!Next

LEMMA StatusSame ==
  ASSUME NEW m \in Msgs, outcome'[m] = outcome[m], m \in lost' <=> m \in lost,
         runs'[m] = runs[m], m \in sent' <=> m \in sent
  PROVE  Same(m)
BY DEF Same, StatusOf

LEMMA StatusValue ==
  ASSUME NEW m \in Msgs, outcome[m] = "none", m \notin lost, runs[m] \in 0..1
  PROVE  /\ runs[m] = 1 => StatusOf(m) = "executed"
         /\ runs[m] = 0 /\ m \in sent => StatusOf(m) = "sent"
         /\ runs[m] = 0 /\ m \notin sent => StatusOf(m) = "new"
BY DEF StatusOf

LEMMA StatusValueNext ==
  ASSUME NEW m \in Msgs, outcome'[m] = "none", m \notin lost', runs'[m] \in 0..1
  PROVE  /\ runs'[m] = 1 => StatusOf(m)' = "executed"
         /\ runs'[m] = 0 /\ m \in sent' => StatusOf(m)' = "sent"
BY DEF StatusOf

\* What a message's place says of its status.
LEMMA StatusOfPlace ==
  ASSUME NEW m \in Msgs, XInv
  PROVE  /\ m \notin sent => StatusOf(m) = "new"
         /\ Waits(m) \/ Flies(m) => StatusOf(m) = "sent"
         /\ m \in working \/ Returns(m) => StatusOf(m) = "executed"
<1>1. runs[m] \in 0..1 /\ PlaceInv(m) /\ lost \subseteq sent /\ (Waits(m) => m \in sent \ lost)
  BY DEF XInv, XTypeOK, WaitInv
<1>2. m \notin sent \/ Waits(m) \/ Flies(m) \/ m \in working \/ Returns(m) =>
        outcome[m] = "none" /\ m \notin lost
  BY <1>1 DEF PlaceInv
<1> QED
  BY <1>1, <1>2, StatusValue DEF PlaceInv

\* A step that leaves the queues of the server alone.
LEMMA WaitsSame ==
  ASSUME UNCHANGED <<resolving, attempt, completed>>, NEW m PROVE Waits(m)' <=> Waits(m)
BY DEF Waits, Resolves, Connects, Completes

-----------------------------------------------------------------------------
(* The steps keep the invariant, and are steps of the promise. *)

PromiseStep == Promise!Next \/ UNCHANGED Promise!vars

LEMMA AtSenderStep ==
  ASSUME XInv, [Next]_vars, AtSender(TRUE) PROVE XInv' /\ PromiseStep
<1>1. TypeOK' /\ WaitInv'
  BY TypeNext, SenderStep DEF XInv, XTypeOK
<1>2. PICK x \in MsgOrNone : Effect(x)
  BY SenderStep DEF XInv, XTypeOK
<1>3. UNCHANGED <<age, skew, working, replies, halfLine, runs>>
  BY DEF AtSender
<1>4. /\ sent' = sent \cup ({x} \ {None})
      /\ \A m \in Msgs \ {x} : (Waits(m)' => Waits(m)) /\ (m \in sent' <=> m \in sent)
      /\ x \in Msgs => x \in sent' /\ (x \notin sent \/ Waits(x))
  BY <1>2 DEF Effect
<1>5. x \in Msgs => /\ ~Flies(x) /\ x \notin working /\ ~Returns(x) /\ x \notin lost
                    /\ runs[x] = 0 /\ outcome[x] = "none"
  BY <1>4 DEF XInv, PlaceInv, WaitInv
<1>6. \A m \in Msgs : Returns(m)' <=> Returns(m)
  BY <1>3 DEF Returns
<1>7. x \in Msgs => /\ StatusOf(x) \in {"new", "sent"}
                    /\ x \notin sent => StatusOf(x) = "new"
                    /\ x \in sent => StatusOf(x) = "sent"
  BY <1>4, StatusOfPlace
<1>8. CASE UNCHANGED <<wire, lost>>
  <2>1. UNCHANGED <<inFlight, outcome>>
    BY <1>8 DEF AtSender, Delivers
  <2>2. XInv'
    BY <1>1, <1>3, <1>4, <1>5, <1>6, <1>8, <2>1
       DEF XInv, XTypeOK, PlaceInv, Once, Flies
  <2>3. \A m \in Msgs \ {x} : Same(m)
    BY <1>3, <1>4, <1>8, <2>1, StatusSame
  <2>4. CASE x \in Msgs /\ x \notin sent
    <3>1. StatusOf(x)' = "sent"
      BY <1>3, <1>4, <1>5, <1>8, <2>1, <2>4, StatusValueNext
    <3> QED
      BY <1>3, <1>7, <2>2, <2>3, <2>4, <3>1, SendStep DEF PromiseStep
  <2>5. CASE ~(x \in Msgs /\ x \notin sent)
    <3>1. \A m \in Msgs : Same(m)
      BY <1>3, <1>4, <1>8, <2>1, <2>5, StatusSame
    <3> QED
      BY <1>3, <2>2, <3>1, NothingStep DEF PromiseStep
  <2> QED
    BY <2>4, <2>5
<1>9. CASE x \in Msgs /\ ~Waits(x)' /\ wire' = Append(wire, x) /\ lost' = lost
  <2>1. wire' # wire /\ Last(wire') = x
    BY <1>9 DEF XInv, XTypeOK, TypeOK, Last
  <2>2. CASE peerGone
    <3>1. outcome' = [outcome EXCEPT ![x] = "request lost"] /\ inFlight' = inFlight
      BY <1>9, <2>1, <2>2 DEF AtSender, Delivers, Become, XInv, XTypeOK
    <3>2. XInv'
      <4>1. /\ \A m \in Msgs : outcome'[m] = IF m = x THEN "request lost" ELSE outcome[m]
            /\ \A m \in Msgs : Flies(m)' <=> Flies(m)
        BY <3>1 DEF XInv, XTypeOK, Flies
      <4>2. ASSUME NEW m \in Msgs PROVE PlaceInv(m)'
        <5>1. CASE m = x
          BY <1>3, <1>4, <1>5, <1>6, <1>9, <4>1, <5>1 DEF PlaceInv
        <5>2. CASE m # x
          BY <1>3, <1>4, <1>6, <1>9, <4>1, <5>2 DEF XInv, PlaceInv
        <5> QED
          BY <5>1, <5>2
      <4> QED
        BY <1>1, <1>3, <3>1, <4>2 DEF XInv, XTypeOK, Once, Outcomes
    <3>3. \A m \in Msgs \ {x} : Same(m)
      BY <1>3, <1>4, <1>9, <3>1, StatusSame DEF XInv, XTypeOK
    <3>4. StatusOf(x)' = "failed"
      BY <1>9, <3>1 DEF StatusOf, XInv, XTypeOK
    <3> QED
      <4>1. CASE x \in sent
        BY <1>3, <1>7, <1>9, <3>2, <3>3, <3>4, <4>1, SingleStep DEF PromiseStep
      <4>2. CASE x \notin sent
        BY <1>3, <1>7, <1>9, <3>2, <3>3, <3>4, <4>2, SendStep DEF PromiseStep
      <4> QED
        BY <4>1, <4>2
  <2>3. CASE ~peerGone
    <3>1. inFlight' = Append(inFlight, Whole(x)) /\ outcome' = outcome
      BY <2>1, <2>3 DEF AtSender, Delivers
    <3>2. Whole(x) \in RequestLine /\ Whole(x).msg = x
      BY <1>9 DEF Whole, RequestLine
    <3>3. /\ inFlight' \in Seq(RequestLine) /\ Once(inFlight')
          /\ \A m \in Msgs : Flies(m)' <=> Flies(m) \/ m = x
      <4>1. Once(inFlight) /\ inFlight \in Seq(RequestLine)
            /\ \A j \in DOMAIN inFlight : inFlight[j].msg # Whole(x).msg
        BY <1>5, <1>9, <3>2 DEF XInv, XTypeOK, Flies
      <4>2. /\ inFlight' \in Seq(RequestLine) /\ Once(inFlight')
            /\ \A m : (\E j \in DOMAIN inFlight' : inFlight'[j].msg = m)
                      <=> (\E j \in DOMAIN inFlight : inFlight[j].msg = m) \/ m = Whole(x).msg
        BY <3>1, <3>2, <4>1, LineAdded
      <4> QED
        BY <3>2, <4>2 DEF Flies
    <3>4. XInv'
      BY <1>1, <1>3, <1>4, <1>5, <1>6, <1>9, <3>1, <3>3
         DEF XInv, XTypeOK, PlaceInv, Once
    <3>5. \A m \in Msgs \ {x} : Same(m)
      BY <1>3, <1>4, <1>9, <3>1, StatusSame
    <3>6. StatusOf(x)' = "sent"
      BY <1>3, <1>4, <1>5, <1>9, <3>1, StatusValueNext
    <3>7. CASE x \in sent
      BY <1>3, <1>7, <1>9, <3>4, <3>5, <3>6, <3>7, NothingStep DEF PromiseStep, Same
    <3>8. CASE x \notin sent
      BY <1>3, <1>7, <1>9, <3>4, <3>5, <3>6, <3>8, SendStep DEF PromiseStep
    <3> QED
      BY <3>7, <3>8
  <2> QED
    BY <2>2, <2>3
<1>10. CASE x \in Msgs /\ ~Waits(x)' /\ wire' = wire /\ lost' = lost \cup {x}
  <2>1. UNCHANGED <<inFlight, outcome>>
    BY <1>10 DEF AtSender, Delivers
  <2>2. XInv'
    BY <1>1, <1>3, <1>4, <1>5, <1>6, <1>10, <2>1
       DEF XInv, XTypeOK, PlaceInv, Once, Flies
  <2>3. \A m \in Msgs \ {x} : Same(m)
    BY <1>3, <1>4, <1>10, <2>1, StatusSame
  <2>4. StatusOf(x)' = "failed"
    BY <1>3, <1>5, <1>10, <2>1 DEF StatusOf
  <2> QED
    <3>1. CASE x \in sent
      BY <1>3, <1>7, <1>10, <2>2, <2>3, <2>4, <3>1, SingleStep DEF PromiseStep
    <3>2. CASE x \notin sent
      BY <1>3, <1>7, <1>10, <2>2, <2>3, <2>4, <3>2, SendStep DEF PromiseStep
    <3> QED
      BY <3>1, <3>2
<1> QED
  BY <1>2, <1>8, <1>9, <1>10 DEF Effect

LEMMA ReadRepliesStep ==
  ASSUME XInv, [Next]_vars, NEW k, NEW torn \in BOOLEAN, ReadReplies(k, torn)
  PROVE  XInv' /\ PromiseStep
<1>1. TypeOK' /\ WaitInv'
  BY TypeNext, SenderStep DEF XInv, XTypeOK
<1>2. UNCHANGED <<resolving, attempt, completed, sent, lost>>
  BY DEF ReadReplies, ReadLine
<1>3. UNCHANGED <<age, skew, inFlight, working, runs>>
  BY DEF ReadReplies
<1>4. \A m \in Msgs : (Waits(m)' <=> Waits(m)) /\ (Flies(m)' <=> Flies(m))
  BY <1>2, <1>3, WaitsSame DEF Flies
<1> DEFINE behind == DroppedBehind(replies, k)
<1>5. PICK x \in MsgOrNone : x = replies[1].msg
  <2>1. replies \in Seq(ReplyLine) /\ Once(replies) /\ ReadEnds(replies, k, torn)
    BY DEF XInv, XTypeOK, ReadReplies
  <2>2. replies[1] \in ReplyLine
    BY <2>1, LinesHaveHalves, LinesTaken
  <2> QED
    BY <2>2 DEF ReplyLine
<1>6. PICK dropped : dropped = behind
  OBVIOUS
<1>7. /\ replies' \in Seq(ReplyLine) /\ Once(replies')
      /\ \A m \in Msgs : Returns(m)' => Returns(m) /\ m # x /\ m \notin dropped
      /\ x \in Msgs => Returns(x) /\ x \notin dropped
      /\ \A m \in dropped \ {None} : Returns(m)
  <2>1. replies \in Seq(ReplyLine) /\ Once(replies) /\ ReadEnds(replies, k, torn)
        /\ replies' = Remaining(replies, k, torn)
    BY DEF XInv, XTypeOK, ReadReplies
  <2>2. replies' \in Seq(ReplyLine)
    BY <2>1, LinesHaveHalves, RemainingLines
  <2>3. /\ 1 \in DOMAIN replies /\ Once(replies')
        /\ \A j \in DOMAIN replies' :
             replies'[j].msg # None => /\ \E i \in DOMAIN replies : replies[i].msg = replies'[j].msg
                                       /\ replies'[j].msg # x /\ replies'[j].msg \notin dropped
        /\ \A m \in dropped : /\ \E i \in DOMAIN replies : replies[i].msg = m
                              /\ m # None => m # x
    BY <1>5, <1>6, <2>1, LinesHaveHalves, LinesTaken
  <2> QED
    BY <1>5, <2>2, <2>3 DEF Returns
<1>8. \E heard \in BOOLEAN : \A m \in Msgs :
        outcome'[m] = IF m = x THEN (IF heard THEN "answered" ELSE "reply lost")
                      ELSE IF m \in dropped THEN "reply lost" ELSE outcome[m]
  <2>1. CASE replies[1].whole /\ ~halfLine
    <3>1. \A m \in Msgs :
            outcome'[m] = IF m = x THEN "answered"
                          ELSE IF m \in dropped THEN "reply lost" ELSE outcome[m]
      BY <1>5, <1>6, <2>1 DEF ReadReplies
    <3> QED
      BY <3>1
  <2>2. CASE ~(replies[1].whole /\ ~halfLine)
    <3>1. \A m \in Msgs :
            outcome'[m] = IF m = x THEN "reply lost"
                          ELSE IF m \in dropped THEN "reply lost" ELSE outcome[m]
      BY <1>5, <1>6, <2>2 DEF ReadReplies
    <3> QED
      BY <3>1
  <2> QED
    BY <2>1, <2>2
<1>9. PICK heard \in BOOLEAN : \A m \in Msgs :
        outcome'[m] = IF m = x THEN (IF heard THEN "answered" ELSE "reply lost")
                      ELSE IF m \in dropped THEN "reply lost" ELSE outcome[m]
  BY <1>8
<1>10. outcome' \in [Msgs -> Outcomes]
  <2>1. outcome' = [m \in Msgs |-> outcome'[m]]
    BY DEF ReadReplies
  <2>2. \A m \in Msgs : outcome'[m] \in Outcomes
    BY <1>9 DEF XInv, XTypeOK, Outcomes
  <2> QED
    BY <2>1, <2>2
<1>11. XInv'
  <2>1. XTypeOK'
    <3>1. halfLine' \in BOOLEAN
      BY DEF ReadReplies
    <3> QED
      BY <1>1, <1>3, <1>7, <1>10, <3>1 DEF XInv, XTypeOK
  <2>2. ASSUME NEW m \in Msgs PROVE PlaceInv(m)'
    <3>1. CASE m # x /\ m \notin dropped
      BY <1>2, <1>3, <1>4, <1>7, <1>9, <3>1 DEF XInv, PlaceInv
    <3>2. CASE m = x \/ m \in dropped
      <4>1. Returns(m) /\ ~Returns(m)' /\ PlaceInv(m)
        BY <1>7, <3>2 DEF XInv
      <4> QED
        BY <1>2, <1>3, <1>4, <4>1 DEF PlaceInv
    <3> QED
      BY <3>1, <3>2
  <2> QED
    BY <1>1, <1>3, <1>7, <2>1, <2>2 DEF XInv, Once
<1> DEFINE others == dropped \cap Msgs
<1>12. \A m \in Msgs \ (others \cup {x}) : Same(m)
  BY <1>2, <1>3, <1>9, StatusSame
<1>13. /\ \A m \in others : StatusOf(m) = "executed" /\ StatusOf(m)' = "failed"
       /\ x \in Msgs => /\ StatusOf(x) = "executed"
                        /\ StatusOf(x)' = IF heard THEN "answered" ELSE "failed"
  <2>1. (x \in Msgs => StatusOf(x) = "executed") /\ \A m \in others : StatusOf(m) = "executed"
    BY <1>7, StatusOfPlace
  <2>2. ASSUME NEW m \in Msgs, m = x \/ m \in dropped
        PROVE  m \notin lost' /\ outcome'[m] = IF m = x /\ heard THEN "answered" ELSE "reply lost"
    BY <1>2, <1>7, <1>9, <2>2 DEF XInv, PlaceInv
  <2> QED
    BY <1>7, <2>1, <2>2 DEF StatusOf
<1> HIDE DEF others
<1>14. others \in SUBSET Msgs /\ x \notin others
  BY <1>7 DEF others
<1>15. CASE x \in Msgs /\ heard
  BY <1>3, <1>11, <1>12, <1>13, <1>14, <1>15, AnswerStep DEF PromiseStep
<1>16. CASE x \in Msgs /\ ~heard
  BY <1>3, <1>11, <1>12, <1>13, <1>14, <1>16, FailStep, others \cup {x} \in SUBSET Msgs
     DEF PromiseStep
<1>17. CASE x \notin Msgs
  BY <1>3, <1>11, <1>12, <1>13, <1>14, <1>17, FailStep DEF PromiseStep
<1> QED
  BY <1>15, <1>16, <1>17

LEMMA DoneStep ==
  ASSUME XInv, NEW x \in Msgs, Done(x) PROVE XInv' /\ PromiseStep
<1>1. UNCHANGED <<vars, age, skew, inFlight, halfLine, runs, outcome>>
  BY DEF Done
<1>2. TypeOK' /\ WaitInv'
  BY <1>1, TypeNext, SenderStep DEF XInv, XTypeOK
<1>3. \A m \in Msgs : (Waits(m)' <=> Waits(m)) /\ (Flies(m)' <=> Flies(m))
  BY <1>1, WaitsSame DEF Flies, vars
<1>4. x \in working /\ working' = working \ {x} /\ replies' = Append(replies, Whole(x))
  BY DEF Done, Answered
<1>5. Whole(x) \in ReplyLine /\ Whole(x).msg = x
  BY DEF Whole, ReplyLine, MsgOrNone
<1>6. ~Returns(x)
  BY <1>4 DEF XInv, PlaceInv
<1>7. /\ replies' \in Seq(ReplyLine) /\ Once(replies')
      /\ \A m \in Msgs : Returns(m)' <=> Returns(m) \/ m = x
  <2>1. /\ Once(replies) /\ replies \in Seq(ReplyLine)
        /\ \A j \in DOMAIN replies : replies[j].msg # Whole(x).msg
    BY <1>5, <1>6 DEF XInv, XTypeOK, Returns
  <2>2. /\ replies' \in Seq(ReplyLine) /\ Once(replies')
        /\ \A m : (\E j \in DOMAIN replies' : replies'[j].msg = m)
                  <=> (\E j \in DOMAIN replies : replies[j].msg = m) \/ m = Whole(x).msg
    BY <1>4, <1>5, <2>1, LineAdded
  <2> QED
    BY <1>5, <2>2 DEF Returns
<1>8. XInv'
  BY <1>1, <1>2, <1>3, <1>4, <1>7 DEF XInv, XTypeOK, PlaceInv, Once, vars
<1>9. \A m \in Msgs : Same(m)
  BY <1>1, StatusSame DEF vars
<1> QED
  BY <1>1, <1>8, <1>9, NothingStep DEF PromiseStep

LEMMA TickStep ==
  ASSUME XInv, Tick PROVE XInv' /\ PromiseStep
<1>1. UNCHANGED <<vars, skew, inFlight, working, replies, halfLine, runs, outcome>>
  BY DEF Tick
<1>2. TypeOK' /\ WaitInv'
  BY <1>1, TypeNext, SenderStep DEF XInv, XTypeOK
<1>3. \A m \in Msgs : /\ Waits(m)' <=> Waits(m)
                      /\ (Flies(m)' <=> Flies(m)) /\ (Returns(m)' <=> Returns(m))
  BY <1>1, WaitsSame DEF Flies, Returns, vars
<1>4. /\ age' \in [Msgs -> 0..OldAge]
      /\ \A m \in Msgs : age'[m] \in {age[m], age[m] + 1}
  BY DEF Tick, XInv, XTypeOK, OldAge
<1>5. XInv'
  BY <1>1, <1>2, <1>3, <1>4 DEF XInv, XTypeOK, PlaceInv, Once, vars
<1>6. \A m \in Msgs : Same(m)
  BY <1>1, StatusSame DEF vars
<1>7. Promise!Tick
  BY <1>1, <1>4, <1>6 DEF Promise!Tick, Same
<1> QED
  BY <1>5, <1>7 DEF PromiseStep, Promise!Next

\* An answer without an id goes back.
LEMMA NoneReturns ==
  ASSUME XInv, replies' = Append(replies, Whole(None))
  PROVE  /\ replies' \in Seq(ReplyLine) /\ Once(replies')
         /\ \A m \in Msgs : Returns(m)' <=> Returns(m)
<1>1. Whole(None) \in ReplyLine /\ Whole(None).msg = None
  BY DEF Whole, ReplyLine, MsgOrNone
<1>2. Once(replies) /\ replies \in Seq(ReplyLine)
  BY DEF XInv, XTypeOK
<1>3. /\ replies' \in Seq(ReplyLine) /\ Once(replies')
      /\ \A m : (\E j \in DOMAIN replies' : replies'[j].msg = m)
                <=> (\E j \in DOMAIN replies : replies[j].msg = m) \/ m = Whole(None).msg
  BY <1>1, <1>2, LineAdded
<1> QED
  BY <1>1, <1>3 DEF Returns

LEMMA PeerReadsStep ==
  ASSUME XInv, NEW k, NEW torn \in BOOLEAN, PeerReads(k, torn)
  PROVE  XInv' /\ PromiseStep
<1>1. UNCHANGED <<vars, age, skew, halfLine, cutOff>>
  BY DEF PeerReads
<1>2. TypeOK' /\ WaitInv'
  BY <1>1, TypeNext, SenderStep DEF XInv, XTypeOK
<1>3. \A m \in Msgs : Waits(m)' <=> Waits(m)
  BY <1>1, WaitsSame DEF vars
<1>4. /\ inFlight \in Seq(RequestLine) /\ Once(inFlight) /\ ReadEnds(inFlight, k, torn)
      /\ inFlight' = Remaining(inFlight, k, torn)
  BY DEF XInv, XTypeOK, PeerReads
<1>5. PICK x \in Msgs : x = inFlight[1].msg
  <2>1. inFlight[1] \in RequestLine
    BY <1>4, LinesHaveHalves, LinesTaken
  <2> QED
    BY <2>1 DEF RequestLine
<1>6. PICK dropped : dropped = DroppedBehind(inFlight, k)
  OBVIOUS
<1>7. /\ inFlight' \in Seq(RequestLine) /\ Once(inFlight')
      /\ \A m \in Msgs : Flies(m)' => Flies(m) /\ m # x /\ m \notin dropped
      /\ Flies(x) /\ x \notin dropped
      /\ \A m \in dropped \cap Msgs : Flies(m)
  <2>1. inFlight' \in Seq(RequestLine)
    BY <1>4, LinesHaveHalves, RemainingLines
  <2>2. /\ 1 \in DOMAIN inFlight /\ Once(inFlight')
        /\ \A j \in DOMAIN inFlight' :
             inFlight'[j].msg # None =>
               /\ \E i \in DOMAIN inFlight : inFlight[i].msg = inFlight'[j].msg
               /\ inFlight'[j].msg # x /\ inFlight'[j].msg \notin dropped
        /\ \A m \in dropped : /\ \E i \in DOMAIN inFlight : inFlight[i].msg = m
                              /\ m # None => m # x
    BY <1>4, <1>5, <1>6, LinesHaveHalves, LinesTaken
  <2> QED
    BY <1>5, <2>1, <2>2 DEF Flies
<1> DEFINE others == dropped \cap Msgs
<1>8. /\ \A m \in others \cup {x} : /\ StatusOf(m) = "sent" /\ m \in sent \ lost /\ ~Waits(m)
                                    /\ runs[m] = 0 /\ m \notin working /\ ~Returns(m)
      /\ others \in SUBSET (Msgs \ {x})
  BY <1>7, StatusOfPlace DEF XInv, PlaceInv
<1>9. CASE /\ inFlight[1].whole /\ ~TooOld(x)
           /\ working' = working \cup {x}
           /\ runs' = [runs EXCEPT ![x] = @ + 1]
           /\ outcome' = Become(dropped, "request lost")
           /\ UNCHANGED <<replies, crowded>>
  <2>1. /\ outcome' \in [Msgs -> Outcomes]
        /\ \A m \in Msgs : outcome'[m] = IF m \in dropped THEN "request lost" ELSE outcome[m]
    BY <1>9 DEF Become, XInv, XTypeOK, Outcomes
  <2>2. /\ runs' = [runs EXCEPT ![x] = 1] /\ runs' \in [Msgs -> 0..1] /\ runs'[x] = 1
        /\ \A m \in Msgs \ {x} : runs'[m] = runs[m]
    <3>1. runs \in [Msgs -> 0..1] /\ runs[x] = 0 /\ runs' = [runs EXCEPT ![x] = runs[x] + 1]
      BY <1>8, <1>9 DEF XInv, XTypeOK
    <3>2. runs' = [runs EXCEPT ![x] = 1]
      BY <3>1
    <3> QED
      BY <3>1, <3>2
  <2>3. \A m \in Msgs : Returns(m)' <=> Returns(m)
    BY <1>9 DEF Returns
  <2>4. ASSUME NEW m \in Msgs PROVE PlaceInv(m)'
    <3>1. CASE m = x
      <4>1. outcome'[m] = "none" /\ ~Flies(m)'
        BY <1>7, <2>1, <3>1 DEF XInv, PlaceInv
      <4> QED
        BY <1>1, <1>3, <1>8, <2>2, <2>3, <3>1, <4>1 DEF PlaceInv, vars
    <3>2. CASE m \in others
      <4>1. ~Flies(m)' /\ m \notin working'
        BY <1>7, <1>8, <1>9, <3>2
      <4> QED
        BY <1>1, <1>3, <1>8, <2>2, <2>3, <3>2, <4>1 DEF PlaceInv, vars
    <3>3. CASE m # x /\ m \notin dropped
      <4>1. /\ PlaceInv(m) /\ outcome'[m] = outcome[m] /\ runs'[m] = runs[m]
            /\ m \in working' <=> m \in working
        BY <1>9, <2>1, <2>2, <3>3 DEF XInv
      <4> QED
        BY <1>1, <1>3, <1>7, <2>3, <3>3, <4>1 DEF PlaceInv, vars
    <3> QED
      BY <3>1, <3>2, <3>3
  <2>5. XInv'
    <3>1. XTypeOK'
      BY <1>1, <1>2, <1>7, <1>9, <2>1, <2>2 DEF XInv, XTypeOK
    <3>2. Once(replies)'
      BY <1>9 DEF XInv, Once
    <3> QED
      BY <1>2, <1>7, <2>4, <3>1, <3>2 DEF XInv
  <2>6. age[x] < OldAge
    <3>1. age[x] \in 0..OldAge /\ skew \in (-MaxSkew)..MaxSkew /\ ~(age[x] + skew > Window)
      BY <1>9 DEF TooOld, XInv, XTypeOK
    <3>2. \A a \in Nat, d \in (-MaxSkew)..MaxSkew : ~(a + d > Window) => a < Window + 1 + MaxSkew
      OBVIOUS
    <3> QED
      BY <3>1, <3>2 DEF OldAge
  <2>7. /\ StatusOf(x)' = "executed"
        /\ \A m \in others : StatusOf(m)' = "failed"
        /\ \A m \in Msgs \ (others \cup {x}) : Same(m)
    <3>1. StatusOf(x)' = "executed"
      <4>1. outcome'[x] = "none" /\ x \notin lost'
        BY <1>1, <1>7, <1>8, <2>1 DEF XInv, PlaceInv, vars
      <4> QED
        BY <2>2, <4>1, StatusValueNext
    <3>2. \A m \in others : StatusOf(m)' = "failed"
      BY <2>1 DEF StatusOf
    <3>3. \A m \in Msgs \ (others \cup {x}) : Same(m)
      BY <1>1, <2>1, <2>2, StatusSame DEF vars
    <3> QED
      BY <3>1, <3>2, <3>3
  <2> HIDE DEF others
  <2>8. Promise!Next
    BY <1>1, <1>8, <2>2, <2>6, <2>7, ExecuteStep
  <2> QED
    BY <2>5, <2>8 DEF PromiseStep
<1>10. CASE /\ \E what \in {"refused", "request lost"} :
                 outcome' = [Become(dropped, "request lost") EXCEPT ![x] = what]
            /\ Answered(Whole(None))
            /\ UNCHANGED <<working, runs>>
  <2>1. PICK what \in {"refused", "request lost"} :
          outcome' = [Become(dropped, "request lost") EXCEPT ![x] = what]
    BY <1>10
  <2>2. /\ outcome' \in [Msgs -> Outcomes]
        /\ \A m \in Msgs : outcome'[m] = IF m = x THEN what
                                         ELSE IF m \in dropped THEN "request lost" ELSE outcome[m]
    BY <2>1 DEF Become, XInv, XTypeOK, Outcomes
  <2>3. /\ replies' \in Seq(ReplyLine) /\ Once(replies')
        /\ \A m \in Msgs : Returns(m)' <=> Returns(m)
    BY <1>10, NoneReturns DEF Answered
  <2>4. ASSUME NEW m \in Msgs PROVE PlaceInv(m)'
    <3>1. CASE m \in others \cup {x}
      <4>1. ~Flies(m)' /\ m \notin working'
        BY <1>7, <1>8, <1>10, <3>1
      <4> QED
        BY <1>1, <1>3, <1>8, <1>10, <2>3, <3>1, <4>1 DEF PlaceInv, vars
    <3>2. CASE m # x /\ m \notin dropped
      BY <1>1, <1>3, <1>7, <1>10, <2>2, <2>3, <3>2 DEF XInv, PlaceInv, vars
    <3> QED
      BY <3>1, <3>2
  <2>5. XInv'
    BY <1>1, <1>2, <1>7, <1>10, <2>2, <2>3, <2>4 DEF XInv, XTypeOK, Once
  <2>6. \A m \in others \cup {x} : StatusOf(m)' = "failed"
    BY <2>2 DEF StatusOf
  <2>7. \A m \in Msgs \ (others \cup {x}) : Same(m)
    BY <1>1, <1>10, <2>2, StatusSame DEF vars
  <2>8. others \cup {x} \in SUBSET Msgs
    OBVIOUS
  <2> HIDE DEF others
  <2>9. Promise!Next
    BY <1>1, <1>8, <1>10, <2>6, <2>7, <2>8, FailStep
  <2> QED
    BY <2>5, <2>9 DEF PromiseStep
<1>11. Become(dropped \cup {x}, "request lost")
         = [Become(dropped, "request lost") EXCEPT ![x] = "request lost"]
  BY DEF Become
<1> QED
  BY <1>5, <1>6, <1>9, <1>10, <1>11 DEF PeerReads

LEMMA PeerEndsStep ==
  ASSUME XInv, [Next]_vars, NEW reset \in BOOLEAN, PeerEnds(reset)
  PROVE  XInv' /\ PromiseStep
<1>1. TypeOK' /\ WaitInv'
  BY TypeNext, SenderStep DEF XInv, XTypeOK
<1>2. UNCHANGED <<resolving, attempt, completed, sent, lost, age, skew, runs>>
  BY DEF PeerEnds, PeerCloses
<1>3. \A m \in Msgs : Waits(m)' <=> Waits(m)
  BY <1>2, WaitsSame
<1> DEFINE some == {m \in Msgs : Flies(m) \/ m \in working \/ (reset /\ Returns(m))}
<1>4. \A m \in Msgs : outcome'[m] = IF Flies(m) THEN "request lost"
                                    ELSE IF m \in some THEN "reply lost" ELSE outcome[m]
  BY DEF PeerEnds, Flies, Returns
<1>5. outcome' \in [Msgs -> Outcomes]
  <2>1. outcome' = [m \in Msgs |-> outcome'[m]]
    BY DEF PeerEnds
  <2>2. \A m \in Msgs : outcome'[m] \in Outcomes
    BY <1>4 DEF XInv, XTypeOK, Outcomes
  <2> QED
    BY <2>1, <2>2
<1>6. inFlight' = <<>> /\ working' = {} /\ replies' = IF reset THEN <<>> ELSE replies
  BY DEF PeerEnds
<1>7. /\ inFlight' \in Seq(RequestLine) /\ Once(inFlight')
      /\ replies' \in Seq(ReplyLine) /\ Once(replies')
      /\ \A m \in Msgs : ~Flies(m)' /\ (Returns(m)' => Returns(m) /\ m \notin some)
  <2>1. inFlight' \in Seq(RequestLine) /\ Once(inFlight') /\ \A m \in Msgs : ~Flies(m)'
    BY <1>6 DEF Once, Flies
  <2>2. /\ replies' \in Seq(ReplyLine) /\ Once(replies')
        /\ \A m \in Msgs : Returns(m)' => Returns(m) /\ ~reset
    BY <1>6 DEF XInv, XTypeOK, Once, Returns
  <2>3. \A m \in Msgs : Returns(m) => ~Flies(m) /\ m \notin working
    BY DEF XInv, PlaceInv
  <2> QED
    BY <2>1, <2>2, <2>3
<1>8. \A m \in some : /\ StatusOf(m) \in {"sent", "executed"} /\ m \in sent \ lost /\ ~Waits(m)
                      /\ outcome'[m] \in {"request lost", "reply lost"}
  BY <1>4, StatusOfPlace DEF XInv, PlaceInv
<1>9. ASSUME NEW m \in Msgs PROVE PlaceInv(m)'
  <2>1. CASE m \in some
    BY <1>2, <1>3, <1>6, <1>7, <1>8, <2>1 DEF PlaceInv
  <2>2. CASE m \notin some
    BY <1>2, <1>3, <1>4, <1>6, <1>7, <2>2 DEF XInv, PlaceInv
  <2> QED
    BY <2>1, <2>2
<1>10. XInv'
  <2>1. halfLine' \in BOOLEAN
    BY DEF PeerEnds, XInv, XTypeOK
  <2> QED
    BY <1>1, <1>2, <1>5, <1>6, <1>7, <1>9, <2>1 DEF XInv, XTypeOK, Once
<1>11. \A m \in some : StatusOf(m)' = "failed"
  BY <1>8 DEF StatusOf
<1>12. \A m \in Msgs \ some : Same(m)
  BY <1>2, <1>4, StatusSame
<1> HIDE DEF some
<1>13. some \in SUBSET Msgs
  BY DEF some
<1> QED
  BY <1>2, <1>8, <1>10, <1>11, <1>12, <1>13, FailStep DEF PromiseStep

LEMMA ExchangeStep == ASSUME XInv, [XNext]_xvars PROVE XInv' /\ PromiseStep
<1> USE StepIsConnectionStep
<1>1. CASE Sends \/ Handlers
  <2>1. AtSender(TRUE)
    BY <1>1 DEF Sends, Handlers, SureHandlers, AtSender
  <2> QED
    BY <2>1, AtSenderStep
<1>2. CASE ReadsSomeReplies
  BY <1>2, ReadRepliesStep DEF ReadsSomeReplies
<1>3. CASE PeerReadsSome
  BY <1>3, PeerReadsStep DEF PeerReadsSome
<1>4. ASSUME NEW m \in Msgs, Done(m) PROVE XInv' /\ PromiseStep
  BY <1>4, DoneStep
<1>5. ASSUME NEW reset \in BOOLEAN, PeerEnds(reset) PROVE XInv' /\ PromiseStep
  BY <1>5, PeerEndsStep
<1>6. CASE Tick
  BY <1>6, TickStep
<1>7. CASE UNCHANGED xvars
  <2>1. /\ UNCHANGED <<vars, age, skew, inFlight, working, replies, halfLine, runs, outcome>>
    BY <1>7 DEF xvars, exchangeVars
  <2>2. TypeOK' /\ WaitInv'
    BY TypeNext, SenderStep DEF XInv, XTypeOK
  <2>3. \A m \in Msgs : /\ Waits(m)' <=> Waits(m)
                        /\ (Flies(m)' <=> Flies(m)) /\ (Returns(m)' <=> Returns(m))
    BY <2>1, WaitsSame DEF Flies, Returns, vars
  <2>4. XInv'
    BY <2>1, <2>2, <2>3 DEF XInv, XTypeOK, PlaceInv, Once, vars
  <2>5. \A m \in Msgs : Same(m)
    BY <2>1, StatusSame DEF vars
  <2> QED
    BY <2>1, <2>4, <2>5, NothingStep DEF PromiseStep
<1> QED
  BY <1>1, <1>2, <1>3, <1>4, <1>5, <1>6, <1>7 DEF XNext

LEMMA ExchangeInit == ASSUME XInit PROVE XInv /\ Promise!Init
<1>1. /\ TypeOK /\ resolving = <<None>> /\ attempt = <<>> /\ completed = <<>> /\ sent = {}
      /\ lost = {} /\ inFlight = <<>> /\ replies = <<>> /\ working = {}
  BY TypeInit DEF XInit, Init, NewServer
<1>2. \A m \in Msgs : ~Waits(m) /\ ~Flies(m) /\ ~Returns(m)
  BY <1>1 DEF Waits, Resolves, Connects, Completes, Flies, Returns
<1>3. XTypeOK
  <2>1. halfLine \in BOOLEAN
    BY DEF XInit
  <2> QED
    BY <1>1, <2>1 DEF XInit, XTypeOK, Outcomes, OldAge
<1>4. WaitInv
  BY <1>1, <1>2 DEF WaitInv, Once, Waits
<1>5. Once(inFlight) /\ Once(replies)
  BY <1>1 DEF Once
<1>6. \A m \in Msgs : PlaceInv(m)
  BY <1>1, <1>2 DEF XInit, PlaceInv
<1>7. XInv
  BY <1>3, <1>4, <1>5, <1>6 DEF XInv
<1>8. \A m \in Msgs : StatusOf(m) = "new"
  BY <1>1, <1>7, StatusOfPlace
<1>9. Promise!Init
  BY <1>8 DEF Promise!Init, XInit
<1> QED
  BY <1>7, <1>9

-----------------------------------------------------------------------------
(* What is lost was crowded or cut off. *)

\* A line that is not the first, or lacks its beginning, is that of a message
\* that was written behind another one.
LossInv ==
  /\ \A j \in DOMAIN inFlight : j > 1 \/ ~inFlight[j].whole => inFlight[j].msg \in crowded
  /\ \A j \in DOMAIN replies : j > 1 \/ ~replies[j].whole \/ halfLine =>
       replies[j].msg \in crowded \cup {None}
  /\ LossHasCause

LEMMA LinesBehind ==
  ASSUME NEW S, HalfLines(S), NEW lines \in Seq(S), NEW k, NEW torn \in BOOLEAN,
         ReadEnds(lines, k, torn)
  PROVE  /\ \A j \in DOMAIN Remaining(lines, k, torn) : \E i \in DOMAIN lines :
              i > 1 /\ Remaining(lines, k, torn)[j].msg = lines[i].msg
         /\ \A m \in DroppedBehind(lines, k) : \E i \in DOMAIN lines : i > 1 /\ m = lines[i].msg
         /\ 1 \in DOMAIN lines /\ lines[1] \in S
<1>1. k \in 1..Len(lines) /\ Len(lines) \in Nat /\ DOMAIN lines = 1..Len(lines)
  BY LenProperties DEF ReadEnds
<1> DEFINE rest == Remaining(lines, k, torn)
<1>2. /\ DOMAIN rest = 1..(Len(lines) - k)
      /\ \A j \in 1..(Len(lines) - k) : rest[j].msg = lines[j + k].msg
  BY RemainingLines
<1> HIDE DEF rest
<1>3. \A j \in 1..(Len(lines) - k) : j + k \in DOMAIN lines /\ j + k > 1
  BY <1>1
<1>4. \A j \in DOMAIN rest : \E i \in DOMAIN lines : i > 1 /\ rest[j].msg = lines[i].msg
  BY <1>2, <1>3
<1>5. \A m \in DroppedBehind(lines, k) : \E i \in DOMAIN lines : i > 1 /\ m = lines[i].msg
  BY <1>1 DEF DroppedBehind
<1>6. 1 \in DOMAIN lines /\ lines[1] \in S
  BY <1>1, ElementOfSeq
<1> QED
  BY <1>4, <1>5, <1>6 DEF rest

\* What an answer adds to the replies.
LEMMA AnsweredCrowds ==
  ASSUME XInv, LossInv, NEW x \in MsgOrNone, Answered(Whole(x)), halfLine' = halfLine
  PROVE  /\ crowded \subseteq crowded'
         /\ \A j \in DOMAIN replies' : j > 1 \/ ~replies'[j].whole \/ halfLine' =>
              replies'[j].msg \in crowded' \cup {None}
<1>1. Whole(x) \in ReplyLine /\ Whole(x).msg = x /\ Whole(x).whole
  BY DEF Whole, ReplyLine
<1>2. /\ DOMAIN replies' = DOMAIN replies \cup {Len(replies) + 1}
      /\ \A j \in DOMAIN replies : replies'[j] = replies[j]
      /\ replies'[Len(replies) + 1] = Whole(x)
  BY <1>1, Appended DEF Answered, XInv, XTypeOK
<1>3. crowded' = IF replies # <<>> \/ halfLine THEN crowded \cup ({x} \ {None}) ELSE crowded
  BY <1>1 DEF Answered
<1>4. Len(replies) + 1 > 1 => replies # <<>>
  BY DEF XInv, XTypeOK
<1> QED
  BY <1>1, <1>2, <1>3, <1>4 DEF LossInv

LEMMA LossStep ==
  ASSUME XInv, LossInv, [XNext]_xvars PROVE LossInv'
<1>1. CASE Sends \/ Handlers
  <2>1. AtSender(TRUE)
    BY <1>1 DEF Sends, Handlers, SureHandlers, AtSender
  <2>2. PICK x \in MsgOrNone : Effect(x)
    BY StepIsConnectionStep, SenderStep DEF XInv, XTypeOK
  <2>3. UNCHANGED <<replies, halfLine>>
    BY <2>1 DEF AtSender
  <2>4. CASE UNCHANGED wire
    <3>1. UNCHANGED <<inFlight, outcome, crowded, cutOff>>
      BY <2>1, <2>4 DEF AtSender, Delivers
    <3> QED
      BY <2>3, <3>1 DEF LossInv, LossHasCause
  <2>5. CASE wire' # wire
    <3>1. x \in Msgs /\ Last(wire') = x
      BY <2>2, <2>5 DEF Effect, XInv, XTypeOK, TypeOK, Last
    <3>2. CASE peerGone
      <4>1. /\ UNCHANGED <<inFlight, crowded>> /\ cutOff' = cutOff \cup {x}
            /\ \A m \in Msgs : outcome'[m] = IF m = x THEN "request lost" ELSE outcome[m]
        BY <2>1, <2>5, <3>1, <3>2 DEF AtSender, Delivers, Become
      <4> QED
        BY <2>3, <4>1 DEF LossInv, LossHasCause
    <3>3. CASE ~peerGone
      <4>1. /\ inFlight' = Append(inFlight, Whole(x)) /\ UNCHANGED <<outcome, cutOff>>
            /\ crowded' = IF inFlight = <<>> THEN crowded ELSE crowded \cup {x}
        BY <2>1, <2>5, <3>1, <3>3 DEF AtSender, Delivers
      <4>2. Whole(x) \in RequestLine /\ Whole(x).msg = x /\ Whole(x).whole
        BY <3>1 DEF Whole, RequestLine
      <4>3. /\ DOMAIN inFlight' = DOMAIN inFlight \cup {Len(inFlight) + 1}
            /\ \A j \in DOMAIN inFlight : inFlight'[j] = inFlight[j]
            /\ inFlight'[Len(inFlight) + 1] = Whole(x)
        BY <4>1, <4>2, Appended DEF XInv, XTypeOK
      <4>4. Len(inFlight) + 1 > 1 => inFlight # <<>>
        BY DEF XInv, XTypeOK
      <4> QED
        BY <2>3, <4>1, <4>2, <4>3, <4>4 DEF LossInv, LossHasCause
    <3> QED
      BY <3>2, <3>3
  <2> QED
    BY <2>4, <2>5
<1>2. ASSUME NEW k, NEW torn \in BOOLEAN, ReadReplies(k, torn) PROVE LossInv'
  <2>1. /\ replies \in Seq(ReplyLine) /\ ReadEnds(replies, k, torn)
        /\ replies' = Remaining(replies, k, torn) /\ halfLine' = FALSE
        /\ UNCHANGED <<inFlight, crowded, cutOff>>
    BY <1>2 DEF ReadReplies, XInv, XTypeOK
  <2>2. /\ \A j \in DOMAIN replies' : replies'[j].msg \in crowded \cup {None}
        /\ DroppedBehind(replies, k) \subseteq crowded \cup {None}
        /\ 1 \in DOMAIN replies
    <3>1. \A j \in DOMAIN replies : j > 1 => replies[j].msg \in crowded \cup {None}
      BY DEF LossInv
    <3>2. /\ \A j \in DOMAIN replies' : \E i \in DOMAIN replies : i > 1 /\ replies'[j].msg = replies[i].msg
          /\ \A m \in DroppedBehind(replies, k) : \E i \in DOMAIN replies : i > 1 /\ m = replies[i].msg
          /\ 1 \in DOMAIN replies
      BY <2>1, LinesHaveHalves, LinesBehind
    <3> QED
      BY <3>1, <3>2
  <2>3. ~(replies[1].whole /\ ~halfLine) => replies[1].msg \in crowded \cup {None}
    BY <2>2 DEF LossInv
  <2>4. ASSUME NEW m \in Msgs, outcome'[m] # outcome[m], outcome'[m] = "reply lost"
        PROVE  m \in crowded
    <3>1. m \in crowded \cup {None}
      BY <1>2, <2>2, <2>3, <2>4 DEF ReadReplies
    <3> QED
      BY <3>1
  <2>5. \A m \in Msgs : outcome'[m] \in {outcome[m], "answered", "reply lost"}
    BY <1>2 DEF ReadReplies
  <2> QED
    BY <2>1, <2>2, <2>4, <2>5 DEF LossInv, LossHasCause
<1>3. ASSUME NEW k, NEW torn \in BOOLEAN, PeerReads(k, torn) PROVE LossInv'
  <2>1. /\ inFlight \in Seq(RequestLine) /\ ReadEnds(inFlight, k, torn)
        /\ inFlight' = Remaining(inFlight, k, torn) /\ UNCHANGED <<halfLine, cutOff>>
    BY <1>3 DEF PeerReads, XInv, XTypeOK
  <2>2. /\ \A j \in DOMAIN inFlight' : inFlight'[j].msg \in crowded
        /\ DroppedBehind(inFlight, k) \subseteq crowded
        /\ 1 \in DOMAIN inFlight
    <3>1. \A j \in DOMAIN inFlight : j > 1 => inFlight[j].msg \in crowded
      BY DEF LossInv
    <3>2. /\ \A j \in DOMAIN inFlight' : \E i \in DOMAIN inFlight : i > 1 /\ inFlight'[j].msg = inFlight[i].msg
          /\ \A m \in DroppedBehind(inFlight, k) : \E i \in DOMAIN inFlight : i > 1 /\ m = inFlight[i].msg
          /\ 1 \in DOMAIN inFlight
      BY <2>1, LinesHaveHalves, LinesBehind
    <3> QED
      BY <3>1, <3>2
  <2>3. ~inFlight[1].whole => inFlight[1].msg \in crowded
    BY <2>2 DEF LossInv
  <2>4. \/ UNCHANGED <<replies, crowded>>
        \/ Answered(Whole(None))
    BY <1>3 DEF PeerReads
  <2>5. /\ crowded \subseteq crowded'
        /\ \A j \in DOMAIN replies' : j > 1 \/ ~replies'[j].whole \/ halfLine' =>
             replies'[j].msg \in crowded' \cup {None}
    <3>1. CASE UNCHANGED <<replies, crowded>>
      BY <2>1, <3>1 DEF LossInv
    <3>2. CASE Answered(Whole(None))
      BY <2>1, <3>2, AnsweredCrowds DEF MsgOrNone
    <3> QED
      BY <2>4, <3>1, <3>2
  <2>6. ASSUME NEW m \in Msgs, outcome'[m] # outcome[m]
        PROVE  outcome'[m] = "refused" \/ m \in crowded
    BY <1>3, <2>2, <2>3, <2>6 DEF PeerReads, Become, XInv, XTypeOK
  <2> QED
    BY <2>1, <2>2, <2>5, <2>6 DEF LossInv, LossHasCause
<1>4. ASSUME NEW x \in Msgs, Done(x) PROVE LossInv'
  <2>1. UNCHANGED <<inFlight, outcome, cutOff, halfLine>> /\ Answered(Whole(x))
    BY <1>4 DEF Done
  <2> QED
    BY <2>1, AnsweredCrowds DEF LossInv, LossHasCause, MsgOrNone
<1>5. ASSUME NEW reset \in BOOLEAN, PeerEnds(reset) PROVE LossInv'
  <2>1. /\ inFlight' = <<>> /\ replies' = (IF reset THEN <<>> ELSE replies)
        /\ ~reset => halfLine' = halfLine
        /\ UNCHANGED crowded
    BY <1>5 DEF PeerEnds, XInv, XTypeOK
  <2>2. /\ cutOff \subseteq cutOff'
        /\ \A m \in Msgs : outcome'[m] # outcome[m] => m \in cutOff'
    BY <1>5 DEF PeerEnds
  <2>3. \A j \in DOMAIN replies' : j > 1 \/ ~replies'[j].whole \/ halfLine' =>
          replies'[j].msg \in crowded' \cup {None}
    BY <2>1 DEF LossInv
  <2>4. LossHasCause'
    BY <2>1, <2>2 DEF LossInv, LossHasCause
  <2> QED
    BY <2>1, <2>3, <2>4 DEF LossInv
<1>6. CASE Tick \/ UNCHANGED xvars
  <2>1. UNCHANGED <<inFlight, replies, halfLine, outcome, crowded, cutOff>>
    BY <1>6 DEF Tick, xvars, exchangeVars
  <2> QED
    BY <2>1 DEF LossInv, LossHasCause
<1> QED
  BY <1>1, <1>2, <1>3, <1>4, <1>5, <1>6 DEF XNext, ReadsSomeReplies, PeerReadsSome

-----------------------------------------------------------------------------
(* Every message that was written is in one place. *)

\* What becomes of a message behind its write.
Onward(m) == Flies(m) \/ Returns(m) \/ m \in working \/ outcome[m] # "none"

\* A message is somewhere, or at its end, just if it was written.
OnwardInv == \A m \in Msgs : Written(m) <=> Onward(m)

\* A read takes the lines up to the k-th and leaves the others.
LEMMA TakenOrLeft ==
  ASSUME NEW S, HalfLines(S), NEW lines \in Seq(S), NEW k, NEW torn \in BOOLEAN,
         ReadEnds(lines, k, torn), NEW i \in DOMAIN lines
  PROVE  \/ lines[i].msg = lines[1].msg
         \/ lines[i].msg \in DroppedBehind(lines, k)
         \/ \E j \in DOMAIN Remaining(lines, k, torn) :
              Remaining(lines, k, torn)[j].msg = lines[i].msg
<1>1. k \in 1..Len(lines) /\ Len(lines) \in Nat /\ i \in 1..Len(lines)
  BY LenProperties DEF ReadEnds
<1>2. CASE i = 1
  BY <1>2
<1>3. CASE i \in 2..k
  BY <1>3 DEF DroppedBehind
<1>4. CASE i > k
  <2>1. i - k \in 1..(Len(lines) - k) /\ (i - k) + k = i
    BY <1>1, <1>4
  <2>2. /\ DOMAIN Remaining(lines, k, torn) = 1..(Len(lines) - k)
        /\ \A j \in 1..(Len(lines) - k) : Remaining(lines, k, torn)[j].msg = lines[j + k].msg
    BY RemainingLines
  <2>3. /\ i - k \in DOMAIN Remaining(lines, k, torn)
        /\ Remaining(lines, k, torn)[i - k].msg = lines[(i - k) + k].msg
    BY <2>1, <2>2
  <2> QED
    BY <2>1, <2>3
<1> QED
  BY <1>1, <1>2, <1>3, <1>4

LEMMA OnwardStep ==
  ASSUME XInv, XInv', WireInv, OnwardInv, [XNext]_xvars PROVE OnwardInv'
<1>1. ASSUME AtSender(TRUE), [Next]_vars PROVE OnwardInv'
  <2>1. UNCHANGED <<working, replies>>
    BY <1>1 DEF AtSender
  <2>2. PICK x \in MsgOrNone : Effect(x)
    BY <1>1, SenderStep DEF XInv, XTypeOK
  <2>3. \A m \in Msgs : Returns(m)' <=> Returns(m)
    BY <2>1 DEF Returns
  <2>4. CASE wire' = wire
    <3>1. UNCHANGED <<inFlight, outcome>>
      BY <1>1, <2>4 DEF AtSender, Delivers
    <3> QED
      BY <2>1, <2>3, <2>4, <3>1 DEF OnwardInv, Onward, Written, Flies
  <2>5. CASE wire' # wire
    <3>1. x \in Msgs /\ wire' = Append(wire, x)
      BY <2>2, <2>5 DEF Effect
    <3>2. \A m \in Msgs : Written(m)' <=> Written(m) \/ m = x
      <4>1. /\ DOMAIN wire' = DOMAIN wire \cup {Len(wire) + 1}
            /\ \A j \in DOMAIN wire : wire'[j] = wire[j]
            /\ wire'[Len(wire) + 1] = x
        <5>1. wire \in Seq(Msgs) /\ x \in Msgs
          BY <3>1 DEF XInv, XTypeOK, TypeOK
        <5> QED
          BY <3>1, <5>1, Appended
      <4> QED
        BY <4>1 DEF Written
    <3>3. Last(wire') = x
      BY <3>1 DEF XInv, XTypeOK, TypeOK, Last
    <3>4. CASE peerGone
      <4>1. outcome' = Become({x}, "request lost") /\ inFlight' = inFlight
        BY <1>1, <2>5, <3>3, <3>4 DEF AtSender, Delivers
      <4>2. \A m \in Msgs : outcome'[m] = IF m = x THEN "request lost" ELSE outcome[m]
        BY <4>1 DEF Become
      <4> QED
        BY <2>1, <2>3, <3>1, <3>2, <4>1, <4>2 DEF OnwardInv, Onward, Flies
    <3>5. CASE ~peerGone
      <4>1. inFlight' = Append(inFlight, Whole(x)) /\ outcome' = outcome
        BY <1>1, <2>5, <3>3, <3>5 DEF AtSender, Delivers
      <4>2. Whole(x) \in RequestLine /\ Whole(x).msg = x /\ inFlight \in Seq(RequestLine)
        BY <3>1 DEF Whole, RequestLine, XInv, XTypeOK
      <4>3. \A m \in Msgs : Flies(m)' <=> Flies(m) \/ m = x
        BY <4>1, <4>2, LineAdded DEF Flies
      <4> QED
        BY <2>1, <2>3, <3>1, <3>2, <4>1, <4>3 DEF OnwardInv, Onward
    <3> QED
      BY <3>4, <3>5
  <2> QED
    BY <2>4, <2>5
<1>2. ASSUME wire' = wire, \A m \in Msgs : Onward(m)' <=> Onward(m) PROVE OnwardInv'
  BY <1>2 DEF OnwardInv, Written
<1>3. ASSUME NEW k, NEW torn \in BOOLEAN, ReadReplies(k, torn) PROVE OnwardInv'
  <2>1. UNCHANGED <<wire, inFlight, working>> /\ replies' = Remaining(replies, k, torn)
    BY <1>3 DEF ReadReplies, ReadLine
  <2>2. /\ replies \in Seq(ReplyLine) /\ Once(replies) /\ ReadEnds(replies, k, torn)
        /\ HalfLines(ReplyLine)
    BY <1>3, LinesHaveHalves DEF XInv, XTypeOK, ReadReplies
  <2>3. PICK taken : taken = {replies[1].msg} \cup DroppedBehind(replies, k)
    OBVIOUS
  <2>4. \A m \in Msgs : IF m \in taken THEN outcome'[m] # "none" ELSE outcome'[m] = outcome[m]
    <3>1. \A m \in Msgs : m \in taken =>
            outcome'[m] = "answered" \/ outcome'[m] = "reply lost"
      BY <1>3, <2>3 DEF ReadReplies
    <3>2. \A m \in Msgs : m \notin taken => outcome'[m] = outcome[m]
      BY <1>3, <2>3 DEF ReadReplies
    <3> QED
      BY <3>1, <3>2
  <2>5. \A m \in Msgs : (m \in taken => Returns(m)) /\ (Returns(m)' => Returns(m))
    <3>1. /\ 1 \in DOMAIN replies
          /\ \A j \in DOMAIN replies' :
               replies'[j].msg # None => \E i \in DOMAIN replies : replies[i].msg = replies'[j].msg
          /\ \A m \in DroppedBehind(replies, k) : \E i \in DOMAIN replies : replies[i].msg = m
      BY <2>1, <2>2, LinesTaken
    <3> QED
      BY <2>3, <3>1 DEF Returns
  <2>6. \A m \in Msgs : Returns(m) => m \in taken \/ Returns(m)'
    BY <2>1, <2>2, <2>3, TakenOrLeft DEF Returns
  <2>7. \A m \in Msgs : (Flies(m)' <=> Flies(m)) /\ (m \in working' <=> m \in working)
    BY <2>1 DEF Flies
  <2>8. \A m \in Msgs : Onward(m)' <=> Onward(m)
    BY <2>4, <2>5, <2>6, <2>7 DEF Onward
  <2> QED
    BY <1>2, <2>1, <2>8
<1>4. ASSUME NEW k, NEW torn \in BOOLEAN, PeerReads(k, torn) PROVE OnwardInv'
  <2>1. wire' = wire /\ inFlight' = Remaining(inFlight, k, torn)
    BY <1>4 DEF PeerReads, vars
  <2>2. /\ inFlight \in Seq(RequestLine) /\ Once(inFlight) /\ ReadEnds(inFlight, k, torn)
        /\ HalfLines(RequestLine)
    BY <1>4, LinesHaveHalves DEF XInv, XTypeOK, PeerReads
  <2>3. PICK taken : taken = {inFlight[1].msg} \cup DroppedBehind(inFlight, k)
    OBVIOUS
  <2>4. \A m \in Msgs : (m \in taken => Flies(m)) /\ (Flies(m)' => Flies(m))
    <3>1. /\ 1 \in DOMAIN inFlight
          /\ \A j \in DOMAIN inFlight' :
               inFlight'[j].msg # None => \E i \in DOMAIN inFlight : inFlight[i].msg = inFlight'[j].msg
          /\ \A m \in DroppedBehind(inFlight, k) : \E i \in DOMAIN inFlight : inFlight[i].msg = m
      BY <2>1, <2>2, LinesTaken
    <3> QED
      BY <2>3, <3>1 DEF Flies
  <2>5. \A m \in Msgs : Flies(m) => m \in taken \/ Flies(m)'
    BY <2>1, <2>2, <2>3, TakenOrLeft DEF Flies
  <2>6. inFlight[1].msg \in Msgs
    <3>1. inFlight[1] \in RequestLine
      BY <2>2, LinesTaken
    <3> QED
      BY <3>1 DEF RequestLine
  <2>7. \A m \in Msgs : Returns(m)' <=> Returns(m)
    <3>1. replies' = replies \/ replies' = Append(replies, Whole(None))
      BY <1>4 DEF PeerReads, Answered
    <3> QED
      BY <3>1, NoneReturns DEF Returns
  <2>8. \A m \in Msgs :
          /\ m \notin taken => outcome'[m] = outcome[m] /\ (m \in working' <=> m \in working)
          /\ m \in taken => outcome'[m] # "none" \/ m \in working'
    <3> DEFINE x == inFlight[1].msg
               behind == DroppedBehind(inFlight, k)
    <3>1. CASE /\ working' = working \cup {x}
               /\ outcome' = Become(behind, "request lost")
      BY <2>3, <3>1 DEF Become
    <3>2. CASE /\ outcome' = [Become(behind, "request lost") EXCEPT ![x] = "refused"]
               /\ working' = working
      BY <2>3, <2>6, <3>2 DEF Become
    <3>3. CASE /\ outcome' = Become(behind \cup {x}, "request lost")
               /\ working' = working
      BY <2>3, <3>3 DEF Become
    <3> QED
      BY <1>4, <3>1, <3>2, <3>3 DEF PeerReads
  <2>9. \A m \in Msgs : Onward(m)' <=> Onward(m)
    BY <2>4, <2>5, <2>7, <2>8 DEF Onward
  <2> QED
    BY <1>2, <2>1, <2>9
<1>5. ASSUME NEW x \in Msgs, Done(x) PROVE OnwardInv'
  <2>1. /\ UNCHANGED <<vars, inFlight, outcome>> /\ x \in working
        /\ working' = working \ {x} /\ replies' = Append(replies, Whole(x))
    BY <1>5 DEF Done, Answered
  <2>2. Whole(x) \in ReplyLine /\ Whole(x).msg = x /\ replies \in Seq(ReplyLine)
    BY DEF Whole, ReplyLine, MsgOrNone, XInv, XTypeOK
  <2>3. \A m \in Msgs : Returns(m)' <=> Returns(m) \/ m = x
    BY <2>1, <2>2, LineAdded DEF Returns
  <2>4. \A m \in Msgs : Onward(m)' <=> Onward(m)
    BY <2>1, <2>3 DEF Onward, Flies
  <2> QED
    BY <1>2, <2>1, <2>4 DEF vars
<1>6. ASSUME NEW reset \in BOOLEAN, PeerEnds(reset) PROVE OnwardInv'
  <2>1. /\ wire' = wire /\ inFlight' = <<>> /\ working' = {}
        /\ replies' = IF reset THEN <<>> ELSE replies
    BY <1>6 DEF PeerEnds, PeerCloses
  <2>2. \A m \in Msgs : outcome'[m] =
          IF Flies(m) THEN "request lost"
          ELSE IF m \in working \/ (reset /\ Returns(m)) THEN "reply lost" ELSE outcome[m]
    BY <1>6 DEF PeerEnds, Flies, Returns
  <2>3. \A m \in Msgs : ~Flies(m)' /\ m \notin working' /\ (Returns(m)' <=> Returns(m) /\ ~reset)
    BY <2>1 DEF Flies, Returns
  <2>4. \A m \in Msgs : Onward(m)' <=> Onward(m)
    BY <2>2, <2>3 DEF Onward
  <2> QED
    BY <1>2, <2>1, <2>4
<1>7. CASE Tick \/ UNCHANGED xvars
  <2>1. UNCHANGED <<wire, inFlight, replies, working, outcome>>
    BY <1>7 DEF Tick, xvars, vars, exchangeVars
  <2> QED
    BY <2>1 DEF OnwardInv, Onward, Written, Flies, Returns
<1>8. CASE Sends \/ Handlers
  <2>1. AtSender(TRUE)
    BY <1>8 DEF Sends, Handlers, SureHandlers, AtSender
  <2> QED
    BY <1>1, <2>1, StepIsConnectionStep
<1> QED
  BY <1>3, <1>4, <1>5, <1>6, <1>7, <1>8 DEF XNext, ReadsSomeReplies, PeerReadsSome

\* The places of a message behind its write, as numbers.
LEMMA OnwardNumbers ==
  ASSUME XInv, WireInv, OnwardInv, NEW m \in Msgs
  PROVE  Occurrences(wire, m) =
           OnTheWay(inFlight, m) + OnTheWay(replies, m) + (IF m \in working THEN 1 ELSE 0)
           + (IF outcome[m] # "none" THEN 1 ELSE 0)
<1>1. m # None
  OBVIOUS
<1>2. OnTheWay(inFlight, m) = IF Flies(m) THEN 1 ELSE 0
  BY <1>1, AtMostOne DEF OnTheWay, Flies, XInv, Once
<1>3. OnTheWay(replies, m) = IF Returns(m) THEN 1 ELSE 0
  BY <1>1, AtMostOne DEF OnTheWay, Returns, XInv, Once
<1>4. Occurrences(wire, m) = IF Written(m) THEN 1 ELSE 0
  BY PlaceNumbers DEF XInv, XTypeOK
<1>5. /\ Flies(m) => ~Returns(m) /\ m \notin working /\ outcome[m] = "none"
      /\ Returns(m) => m \notin working /\ outcome[m] = "none"
      /\ m \in working => outcome[m] = "none"
  BY DEF XInv, PlaceInv
<1> QED
  BY <1>2, <1>3, <1>4, <1>5 DEF OnwardInv, Onward

-----------------------------------------------------------------------------
(* Each direction of the connection is a stream of lines. *)

HeardRequests == {m \in Msgs : runs[m] > 0 \/ outcome[m] = "refused"}

HeardReplies == {m \in Msgs : outcome[m] = "answered"}

\* Reading takes messages from those that have no outcome yet, and losing one is not
\* hearing it.
LEMMA HeardSame ==
  ASSUME UNCHANGED runs,
         \A m \in Msgs : \/ outcome'[m] = outcome[m]
                         \/ outcome[m] = "none" /\ outcome'[m] \in {"request lost", "reply lost"}
  PROVE  HeardRequests' = HeardRequests /\ HeardReplies' = HeardReplies
BY DEF HeardRequests, HeardReplies

\* What the two streams do in a step.
RequestStep == Requests!Next \/ UNCHANGED <<inFlight, HeardRequests>>

ReplyStep == Replies!Next \/ UNCHANGED <<replies, halfLine, HeardReplies>>

\* A message that waited with the sender is written, and only this changes the lines
\* on the way to the peer.
LEMMA FramedSends ==
  ASSUME XInv, [Next]_vars, AtSender(TRUE) PROVE RequestStep /\ ReplyStep
<1>1. PICK x \in MsgOrNone : Effect(x)
  BY SenderStep DEF XInv, XTypeOK
<1>2. UNCHANGED <<replies, halfLine, runs>>
  BY DEF AtSender
<1>3. x \in Msgs => ~Flies(x) /\ runs[x] = 0 /\ outcome[x] = "none"
  BY <1>1 DEF Effect, XInv, PlaceInv, WaitInv
<1>4. CASE wire' = wire
  <2>1. UNCHANGED <<inFlight, outcome>>
    BY <1>4 DEF AtSender, Delivers
  <2> QED
    BY <1>2, <2>1, HeardSame DEF RequestStep, ReplyStep
<1>5. CASE wire' # wire
  <2>1. x \in Msgs /\ Last(wire') = x
    BY <1>1, <1>5 DEF Effect, XInv, XTypeOK, TypeOK, Last
  <2>2. CASE peerGone
    <3>1. outcome' = [outcome EXCEPT ![x] = "request lost"] /\ inFlight' = inFlight
      BY <1>5, <2>1, <2>2 DEF AtSender, Delivers, Become, XInv, XTypeOK
    <3>2. \A m \in Msgs : outcome'[m] = IF m = x THEN "request lost" ELSE outcome[m]
      BY <3>1 DEF XInv, XTypeOK
    <3>3. HeardRequests' = HeardRequests /\ HeardReplies' = HeardReplies
      BY <1>2, <1>3, <2>1, <3>2, HeardSame
    <3> QED
      BY <1>2, <3>1, <3>3 DEF RequestStep, ReplyStep
  <2>3. CASE ~peerGone
    <3>1. inFlight' = Append(inFlight, Whole(x)) /\ outcome' = outcome
      BY <1>5, <2>1, <2>3 DEF AtSender, Delivers
    <3>2. HeardRequests' = HeardRequests /\ HeardReplies' = HeardReplies
      BY <1>2, <3>1, HeardSame
    <3>3. x \notin HeardRequests /\ \A j \in DOMAIN inFlight : inFlight[j].msg # x
      BY <1>3, <2>1 DEF HeardRequests, Flies
    <3>4. Requests!Write(x)
      BY <3>1, <3>2, <3>3 DEF Requests!Write, Whole, HeardRequests
    <3> QED
      BY <1>2, <2>1, <3>2, <3>4 DEF Requests!Next, RequestStep, ReplyStep
  <2> QED
    BY <2>2, <2>3
<1> QED
  BY <1>4, <1>5

\* The server's do_read takes lines of replies as a reader of a stream does.
LEMMA FramedReplies ==
  ASSUME XInv, NEW k, NEW torn \in BOOLEAN, ReadReplies(k, torn)
  PROVE  RequestStep /\ ReplyStep
<1>1. /\ replies \in Seq(ReplyLine) /\ Once(replies) /\ ReadEnds(replies, k, torn)
      /\ replies' = Remaining(replies, k, torn) /\ halfLine' = FALSE
      /\ UNCHANGED <<inFlight, runs>>
  BY DEF XInv, XTypeOK, ReadReplies
<1> DEFINE x == replies[1].msg
           dropped == DroppedBehind(replies, k)
           isHeard == replies[1].whole /\ ~halfLine
<1>2. /\ 1 \in DOMAIN replies /\ replies[1] \in ReplyLine
      /\ \A m \in dropped : /\ \E i \in DOMAIN replies : replies[i].msg = m
                            /\ m # None => m # x
  BY <1>1, LinesHaveHalves, LinesTaken
<1>3. \A m \in Msgs : m = x \/ m \in dropped => runs[m] = 1 /\ outcome[m] = "none"
  BY <1>2 DEF Returns, XInv, PlaceInv
<1>4. \A m \in Msgs :
        outcome'[m] = IF m = x THEN (IF isHeard THEN "answered" ELSE "reply lost")
                      ELSE IF m \in dropped THEN "reply lost" ELSE outcome[m]
  <2>1. CASE isHeard
    BY <2>1 DEF ReadReplies
  <2>2. CASE ~isHeard
    BY <2>2 DEF ReadReplies
  <2> QED
    BY <2>1, <2>2
<1> HIDE DEF x, dropped, isHeard
<1>5. HeardRequests' = HeardRequests
  BY <1>1, <1>3, <1>4 DEF HeardRequests
<1>6. HeardReplies' = IF isHeard THEN HeardReplies \cup ({x} \ {None}) ELSE HeardReplies
  <2>1. x \in Msgs \cup {None}
    BY <1>2 DEF ReplyLine, MsgOrNone, x
  <2>2. None \notin Msgs
    BY ConnectionConstants
  <2>3. \A m \in Msgs : m \in HeardReplies' <=> (m = x /\ isHeard) \/ m \in HeardReplies
    BY <1>3, <1>4 DEF HeardReplies
  <2> QED
    BY <2>1, <2>2, <2>3 DEF HeardReplies
<1>7. k \in 1..Len(replies) /\ (torn => k < Len(replies))
  BY <1>1 DEF ReadEnds
<1>8. Replies!Read(k, torn)
  BY <1>1, <1>6, <1>7 DEF Replies!Read, Replies!Left, Remaining, HeardReplies, x, isHeard
<1> QED
  BY <1>1, <1>5, <1>7, <1>8 DEF Replies!Next, RequestStep, ReplyStep

\* So does the peer's with lines of requests; a refused request gets a line that
\* belongs to no message.
LEMMA FramedRequests ==
  ASSUME XInv, NEW k, NEW torn \in BOOLEAN, PeerReads(k, torn)
  PROVE  RequestStep /\ ReplyStep
<1>1. /\ inFlight \in Seq(RequestLine) /\ Once(inFlight) /\ ReadEnds(inFlight, k, torn)
      /\ inFlight' = Remaining(inFlight, k, torn)
      /\ UNCHANGED halfLine
  BY DEF XInv, XTypeOK, PeerReads
<1> DEFINE x == inFlight[1].msg
           dropped == DroppedBehind(inFlight, k)
<1>2. /\ 1 \in DOMAIN inFlight /\ inFlight[1] \in RequestLine
      /\ \A m \in dropped : /\ \E i \in DOMAIN inFlight : inFlight[i].msg = m
                            /\ m # None => m # x
  BY <1>1, LinesHaveHalves, LinesTaken
<1>3. x \in Msgs /\ x # None
  BY <1>2, ConnectionConstants DEF RequestLine
<1>4. \A m \in Msgs : m = x \/ m \in dropped => runs[m] = 0 /\ outcome[m] = "none"
  BY <1>2 DEF Flies, XInv, PlaceInv
<1>5. x \notin dropped
  BY <1>2, <1>3
<1>6. k \in 1..Len(inFlight) /\ (torn => k < Len(inFlight))
  BY <1>1 DEF ReadEnds
<1>7. \/ /\ inFlight[1].whole /\ runs' = [runs EXCEPT ![x] = @ + 1]
         /\ outcome' = Become(dropped, "request lost") /\ UNCHANGED replies
      \/ /\ inFlight[1].whole /\ UNCHANGED runs
         /\ outcome' = [Become(dropped, "request lost") EXCEPT ![x] = "refused"]
         /\ replies' = Append(replies, Whole(None))
      \/ /\ ~inFlight[1].whole /\ UNCHANGED runs
         /\ outcome' = Become(dropped \cup {x}, "request lost")
         /\ replies' = Append(replies, Whole(None))
  BY DEF PeerReads, Answered
<1> HIDE DEF x, dropped
<1>8. /\ \A m \in Msgs \ {x} : runs'[m] = runs[m]
      /\ \A m \in Msgs \ {x} : outcome'[m] = IF m \in dropped THEN "request lost" ELSE outcome[m]
      /\ inFlight[1].whole => runs'[x] = 1 \/ outcome'[x] = "refused"
      /\ ~inFlight[1].whole => runs'[x] = 0 /\ outcome'[x] = "request lost"
      /\ outcome'[x] \in {"none", "refused", "request lost"}
  <2>1. runs \in [Msgs -> 0..1] /\ runs[x] = 0 /\ outcome[x] = "none"
    BY <1>3, <1>4 DEF XInv, XTypeOK
  <2>2. CASE /\ inFlight[1].whole /\ runs' = [runs EXCEPT ![x] = @ + 1]
             /\ outcome' = Become(dropped, "request lost")
    <3>1. runs'[x] = 1 /\ \A m \in Msgs \ {x} : runs'[m] = runs[m]
      <4>1. runs' = [runs EXCEPT ![x] = @ + 1]
        BY <2>2
      <4> QED
        BY <1>3, <2>1, <4>1
    <3>2. \A m \in Msgs : outcome'[m] = IF m \in dropped THEN "request lost" ELSE outcome[m]
      BY <2>2 DEF Become
    <3> QED
      BY <1>3, <1>5, <2>1, <2>2, <3>1, <3>2
  <2>3. CASE /\ inFlight[1].whole /\ UNCHANGED runs
             /\ outcome' = [Become(dropped, "request lost") EXCEPT ![x] = "refused"]
    BY <1>3, <1>5, <2>1, <2>3 DEF Become
  <2>4. CASE /\ ~inFlight[1].whole /\ UNCHANGED runs
             /\ outcome' = Become(dropped \cup {x}, "request lost")
    BY <1>3, <1>5, <2>1, <2>4 DEF Become
  <2> QED
    BY <1>7, <2>2, <2>3, <2>4
<1>9. HeardRequests' =
        IF inFlight[1].whole THEN HeardRequests \cup ({x} \ {None}) ELSE HeardRequests
  <2>1. ASSUME NEW m \in Msgs \ {x} PROVE m \in HeardRequests' <=> m \in HeardRequests
    <3>1. m \in Msgs /\ runs'[m] = runs[m]
      BY <1>8
    <3>2. CASE m \in dropped
      BY <1>4, <1>8, <3>1, <3>2 DEF HeardRequests
    <3>3. CASE m \notin dropped
      BY <1>8, <3>1, <3>3 DEF HeardRequests
    <3> QED
      BY <3>2, <3>3
  <2>2. x \in HeardRequests' <=> inFlight[1].whole
    <3>1. inFlight[1].whole => runs'[x] = 1 \/ outcome'[x] = "refused"
      BY <1>8
    <3>2. ~inFlight[1].whole => runs'[x] = 0 /\ outcome'[x] # "refused"
      BY <1>8
    <3> QED
      BY <1>3, <3>1, <3>2 DEF HeardRequests
  <2>3. x \notin HeardRequests
    BY <1>4 DEF HeardRequests
  <2> QED
    BY <1>3, <2>1, <2>2, <2>3 DEF HeardRequests
<1>10. HeardReplies' = HeardReplies
  BY <1>4, <1>8 DEF HeardReplies
<1>11. Requests!Read(k, torn)
  BY <1>1, <1>6, <1>9 DEF Requests!Read, Requests!Left, Remaining, HeardRequests, x
<1>12. replies' = Append(replies, Whole(None)) => Replies!Write(None)
  BY <1>1, <1>10 DEF Replies!Write, Whole, HeardReplies
<1> QED
  BY <1>1, <1>6, <1>7, <1>10, <1>11, <1>12
     DEF Requests!Next, Replies!Next, RequestStep, ReplyStep

\* An end of the connection takes the lines that are on the way.
LEMMA FramedEnds ==
  ASSUME XInv, NEW reset \in BOOLEAN, PeerEnds(reset) PROVE RequestStep /\ ReplyStep
<1>1. /\ inFlight' = <<>> /\ UNCHANGED runs /\ replies' = (IF reset THEN <<>> ELSE replies)
      /\ halfLine' \in {halfLine, (reset /\ replies # <<>>) \/ halfLine}
      /\ halfLine \in BOOLEAN
  BY DEF PeerEnds, XInv, XTypeOK
<1>2. \A m \in Msgs : \/ outcome'[m] = outcome[m]
                      \/ /\ Flies(m) \/ m \in working \/ Returns(m)
                         /\ outcome'[m] \in {"request lost", "reply lost"}
  BY DEF PeerEnds, Flies, Returns
<1>3. \A m \in Msgs : Flies(m) \/ m \in working \/ Returns(m) => outcome[m] = "none"
  BY DEF XInv, PlaceInv
<1>4. HeardRequests' = HeardRequests /\ HeardReplies' = HeardReplies
  BY <1>1, <1>2, <1>3, HeardSame
<1>5. Requests!End
  BY <1>1, <1>4 DEF Requests!End, HeardRequests
<1>6. CASE reset
  <2>1. Replies!End
    BY <1>1, <1>4, <1>6 DEF Replies!End, HeardReplies
  <2> QED
    BY <1>5, <2>1 DEF Requests!Next, Replies!Next, RequestStep, ReplyStep
<1>7. CASE ~reset
  <2>1. UNCHANGED <<replies, halfLine>>
    BY <1>1, <1>7
  <2> QED
    BY <1>4, <1>5, <2>1 DEF Requests!Next, RequestStep, ReplyStep
<1> QED
  BY <1>6, <1>7

\* Every step of the exchange is one of each stream, or leaves it alone.
LEMMA FramedStep == ASSUME XInv, [XNext]_xvars PROVE RequestStep /\ ReplyStep
<1>1. CASE Sends \/ Handlers
  <2>1. AtSender(TRUE)
    BY <1>1 DEF Sends, Handlers, SureHandlers, AtSender
  <2> QED
    BY <2>1, FramedSends, StepIsConnectionStep
<1>2. CASE ReadsSomeReplies
  BY <1>2, FramedReplies DEF ReadsSomeReplies
<1>3. CASE PeerReadsSome
  BY <1>3, FramedRequests DEF PeerReadsSome
<1>4. ASSUME NEW x \in Msgs, Done(x) PROVE RequestStep /\ ReplyStep
  <2>1. UNCHANGED <<inFlight, halfLine, runs, outcome>> /\ x \in working
        /\ replies' = Append(replies, Whole(x))
    BY <1>4 DEF Done, Answered
  <2>2. HeardRequests' = HeardRequests /\ HeardReplies' = HeardReplies
    BY <2>1, HeardSame
  <2>3. x \notin HeardReplies /\ \A j \in DOMAIN replies : replies[j].msg # x
    BY <2>1 DEF XInv, PlaceInv, Returns, HeardReplies
  <2>4. Replies!Write(x)
    BY <2>1, <2>2, <2>3 DEF Replies!Write, Whole, HeardReplies
  <2> QED
    BY <2>1, <2>2, <2>4 DEF Replies!Next, RequestStep, ReplyStep
<1>5. ASSUME NEW reset \in BOOLEAN, PeerEnds(reset) PROVE RequestStep /\ ReplyStep
  BY <1>5, FramedEnds
<1>6. CASE Tick \/ UNCHANGED xvars
  <2>1. UNCHANGED <<inFlight, replies, halfLine, runs, outcome>>
    BY <1>6 DEF Tick, xvars, exchangeVars
  <2> QED
    BY <2>1, HeardSame DEF RequestStep, ReplyStep
<1> QED
  BY <1>1, <1>2, <1>3, <1>4, <1>5, <1>6 DEF XNext

-----------------------------------------------------------------------------
(* The theorems. *)

\* Every message of an exchange is in one place, for ever.
THEOREM ExchangeInvariant == XSpec => []XInv
<1>1. XInit => XInv
  BY ExchangeInit
<1>2. XInv /\ [XNext]_xvars => XInv'
  BY ExchangeStep
<1> QED
  BY <1>1, <1>2, PTL DEF XSpec

\* A Server and its peer's SocketHandler implement the promise: a message is
\* executed at most once, only while it is young enough for some clock, and is
\* answered only after that; its failure is final.
THEOREM ExchangeKeepsPromise == XSpec => PromiseKept
<1>1. XInit => Promise!Init
  BY ExchangeInit
<1>2. XInv /\ [XNext]_xvars => [Promise!Next]_(Promise!vars)
  BY ExchangeStep DEF PromiseStep
<1> QED
  BY <1>1, <1>2, ExchangeInvariant, PTL DEF XSpec, PromiseKept, Promise!Spec

\* Server and SocketHandler: a message on a live connection is lost only if it was
\* written behind another one; a line alone on its way always arrives.
THEOREM LossHasCauseAlways == XSpec => []LossHasCause
<1>1. XInit => LossInv
  BY DEF XInit, LossInv, LossHasCause
<1>2. XInv /\ LossInv /\ [XNext]_xvars => LossInv'
  BY LossStep
<1>3. LossInv => LossHasCause
  BY DEF LossInv
<1> QED
  BY <1>1, <1>2, <1>3, ExchangeInvariant, PTL DEF XSpec

\* Server and SocketHandler: no step of either side forgets a message or has it twice;
\* until its end it is with the sender's handlers, on the connection, with the peer's
\* plugin or coming back.
THEOREM ExchangeAccountedAlways == XSpec => []ExchangeAccounted
<1>1. XInit => OnwardInv
  BY DEF XInit, Init, NewServer, OnwardInv, Onward, Written, Flies, Returns
<1>2. XInv /\ XInv' /\ WireInv /\ OnwardInv /\ [XNext]_xvars => OnwardInv'
  BY OnwardStep
<1>3. XInv /\ WireInv /\ OnwardInv /\ MessageAccounted => ExchangeAccounted
  BY OnwardNumbers DEF ExchangeAccounted
<1> QED
  BY <1>1, <1>2, <1>3, ExchangeInvariant, SenderIsConnection, MessageAccountedAlways, PTL DEF XSpec

\* Server::do_read and SocketHandler::do_read: in both directions of an exchange lines
\* are written once, taken from the front by reads that drop what is behind the first,
\* and lost with the connection, as LineFraming shows of the bytes.
THEOREM LinesAreFramedAlways == XSpec => LinesAreFramed
<1>1. XInit => Requests!Init /\ Replies!Init
  BY DEF XInit, Requests!Init, Replies!Init
<1>2. XInv /\ [XNext]_xvars =>
        [Requests!Next]_(Requests!vars) /\ [Replies!Next]_(Replies!vars)
  BY FramedStep
     DEF RequestStep, ReplyStep, Requests!vars, Replies!vars, HeardRequests, HeardReplies
<1> QED
  BY <1>1, <1>2, ExchangeInvariant, PTL DEF XSpec, LinesAreFramed, Requests!Spec, Replies!Spec
=============================================================================
