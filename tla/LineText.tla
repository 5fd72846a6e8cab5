------------------------------ MODULE LineText ------------------------------
(***************************************************************************)
(* What travels between two servers, as text: a message is signed over the *)
(* dumps of its fields, dumped, and sent with a line feed behind it; the   *)
(* reader takes its bytes up to the first line feed, parses them, and      *)
(* signs what it parsed again to compare.                                  *)
(*                                                                         *)
(* LineFraming shows which lines the two do_read functions can make of the *)
(* bytes: a message, its end (the streambuf that held its start was        *)
(* replaced), or a message behind the start of another (a streambuf that   *)
(* outlived its connection).  Here each of them is cut at every byte.  A   *)
(* foreign line is the text of another implementation.                     *)
(***************************************************************************)
EXTENDS JsonText

CONSTANTS
  Payloads,     \* values a plugin may send: an argument, or a result
  TornPayloads, \* bound: those whose messages are torn
  MaxPiece,     \* bound: bytes of a message torn at both ends
  Foreign       \* texts that other implementations may send

ASSUME TornPayloads \subseteq Payloads

VARIABLES
  source,   \* how the line came about, or "none"
  given,    \* what the plugin gave the message, Null if there is none
  message,  \* the message that was sent, Null if there is none
  bytes,    \* what the reader's streambuf holds
  got       \* what json::parse made of the line, "none" before

vars == <<source, given, message, bytes, got>>

NotYet == <<"none", 0>>

Init ==
  /\ source = "none"
  /\ given = Null
  /\ message = Null
  /\ bytes = <<>>
  /\ got = NotYet

-----------------------------------------------------------------------------
(* The messages. *)

\* The JSON object with the fields of a TLA+ record.
Object(r) ==
  Obj([key \in {Ascii(f) : f \in DOMAIN r} |-> r[CHOOSE f \in DOMAIN r : Ascii(f) = key]])

\* operator[] on a JSON object: a missing key reads as null.
Field(j, f) == IF Ascii(f) \in DOMAIN j[2] THEN j[2][Ascii(f)] ELSE Null

ReqSigText(j) ==
  Dump(Field(j, "jsonrpc")) \o Dump(Field(j, "method")) \o Dump(Field(j, "params"))
  \o Dump(Field(j, "timestamp")) \o Dump(Field(j, "id"))

ReplySigText(j) ==
  Dump(Field(j, "jsonrpc")) \o Dump(Field(j, "id")) \o Dump(Field(j, "result"))

\* The text whose digest is the signature of a message.
SigText(j) == IF Ascii("method") \in DOMAIN j[2] THEN ReqSigText(j) ELSE ReplySigText(j)

\* The digest is 64 hexadecimal digits; two stand for them.  Two messages have
\* the same one just if their SigText is the same.
Signature == Str(Ascii("0f"))

\* time(nullptr).
Time == Num(7)

\* RPCCall::Send.  The arguments a call starts with are null.
Call(params) ==
  Object([jsonrpc |-> Str(Ascii("2.0")), method |-> Str(Ascii("m")), params |-> params,
          timestamp |-> Time, id |-> Str(Ascii("a-1")), sig |-> Signature])

\* RPCCall::Notify and Broadcast set no id; getReqSig adds a null one.
Notification(params) ==
  Object([jsonrpc |-> Str(Ascii("2.0")), method |-> Str(Ascii("m")), params |-> params,
          timestamp |-> Time, id |-> Null, sig |-> Signature])

\* The reply that the callback of HandleRequest builds, to the id it was given.
Reply(id, result) ==
  Object([jsonrpc |-> Str(Ascii("2.0")), id |-> id, result |-> result, sig |-> Signature])

\* respError, resp_parse_error and resp_invalid_request.
ErrorReply(id) ==
  Object([jsonrpc |-> Str(Ascii("2.0")), id |-> id,
          error |-> Object([code |-> Num(-32600), message |-> Str(Ascii("no"))])])

Shapes == {"call", "notification", "reply", "replies"}

\* The messages that carry one value of a plugin: a call's parameters are an
\* array, a reply has a result.  HandleReply takes several replies in one line,
\* too; the extension does not send any.
Carrying(shape, value) ==
  CASE shape = "call"         -> Call(Arr(<<value>>))
    [] shape = "notification" -> Notification(Arr(<<value>>))
    [] shape = "reply"        -> Reply(Str(Ascii("a-1")), value)
    [] shape = "replies"      -> Arr(<<Reply(Str(Ascii("a-1")), value),
                                       Reply(Str(Ascii("b-2")), Num(1))>>)

\* Those that carry none.
Plain == {Call(Null), Notification(Null), ErrorReply(Null), ErrorReply(Str(Ascii("a-1")))}

\* Messages that may follow the start of another one.
Followers == {Call(Null), Reply(Str(Ascii("a-1")), Null), ErrorReply(Null)}

\* A dump and PACKET_TERMINATOR.
Sent(m) == Dump(m) \o <<LF>>

-----------------------------------------------------------------------------
\* A message is under way.
Send(v, m) ==
  /\ source = "none"
  /\ source' = "whole"
  /\ given' = v
  /\ message' = m
  /\ bytes' = Sent(m)
  /\ got' = NotYet

SendPlain == \E m \in Plain : Send(Null, m)

SendValue(shape, v) == Send(v, Carrying(shape, Constructed(v)))

\* The line is nobody's message any more.
Garbled(how) ==
  /\ source' = how
  /\ given' = Null
  /\ message' = Null
  /\ UNCHANGED got

\* The first k bytes went with a streambuf that was replaced.
Cut(k) ==
  /\ source = "whole" /\ given \in TornPayloads
  /\ got = NotYet
  /\ bytes' = SubSeq(bytes, k + 1, Len(bytes))
  /\ Garbled("cut")

\* The connection ended after the first k bytes, which stay in the streambuf,
\* and m is the first message of the next one.
Reconnect(k, m) ==
  /\ \/ source = "whole" /\ given \in TornPayloads
     \/ source = "cut" /\ k <= MaxPiece
  /\ got = NotYet
  /\ bytes' = SubSeq(bytes, 1, k) \o Sent(m)
  /\ Garbled("stale")

ForeignLine(text) ==
  /\ source = "none"
  /\ source' = "foreign"
  /\ bytes' = text \o <<LF>>
  /\ UNCHANGED <<given, message, got>>

\* async_read_until's length: the terminator is part of the line.
Line(text) == SubSeq(text, 1, Min({k \in DOMAIN text : text[k] = LF}))

\* HandleRequest and HandleReply begin with json::parse.
Handle ==
  /\ source # "none"
  /\ got = NotYet
  /\ got' = Parse(Line(bytes))
  /\ UNCHANGED <<source, given, message, bytes>>

\* The next read starts with an empty streambuf.
NextRead ==
  /\ got # NotYet
  /\ source' = "none"
  /\ given' = Null
  /\ message' = Null
  /\ bytes' = <<>>
  /\ got' = NotYet

Next ==
  \/ SendPlain
  \/ \E shape \in Shapes, v \in Payloads : SendValue(shape, v)
  \/ \E k \in 1..(Len(bytes) - 1) : Cut(k) \/ \E m \in Followers : Reconnect(k, m)
  \/ \E text \in Foreign : ForeignLine(text)
  \/ Handle
  \/ NextRead

Spec == Init /\ [][Next]_vars

-----------------------------------------------------------------------------
(* What the receiver does with a value. *)

\* RPCMethod::checkType
CheckType(type, j) ==
  CASE type = "Bool"   -> IsBoolean(j)
    [] type = "Int"    -> IsNumberInteger(j)
    [] type = "Float"  -> IsNumber(j)
    [] type = "String" -> IsString(j)
    [] type = "JSON"   -> TRUE

ValidateArguments(types, j) ==
  /\ Size(j) = Len(types)
  /\ \A k \in DOMAIN types : CheckType(types[k], ElementAt(j, k - 1))

\* What the native for a type reads: AsInt, GetInt and GetArrayInt and so on.
Read(type, j) ==
  CASE type = "JSON"   -> j
    [] type = "String" -> AsString(j)
    [] OTHER           -> Get(type, j)

\* native_GetArraySize
GetArraySize(j) == Size(j)

\* The messages of a line: HandleReply walks an array, HandleRequest does not.
Messages(j) ==
  CASE IsArray(j)  -> Items(j)
    [] IsObject(j) -> <<j>>
    [] OTHER       -> <<>>

\* The type of the native that made a plugin's value, and of the parameter.
TypeOf(v) ==
  CASE IsBoolean(v)       -> "Bool"
    [] IsNumberInteger(v) -> "Int"
    [] IsNumberFloat(v)   -> "Float"
    [] IsString(v)        -> "String"
    [] OTHER              -> "JSON"

-----------------------------------------------------------------------------
(* Properties. *)

\* A float without a fraction is printed without a point, below 10^15.
FloatAsRead(f) ==
  IF f.digits # <<>> /\ f.exp \in Len(f.digits)..15
  THEN GetNumber(PrintFloat(f)) ELSE <<"float", f>>

RECURSIVE AsRead(_)
AsRead(v) ==
  CASE v[1] = "float"  -> FloatAsRead(Rounded(v[2], 15))
    [] v[1] = "array"  -> Arr([k \in DOMAIN v[2] |-> AsRead(v[2][k])])
    [] v[1] = "object" -> Obj([k \in DOMAIN v[2] |-> AsRead(v[2][k])])
    [] OTHER -> v

\* Whatever a plugin puts into its strings, keys and integers, the other server
\* reads the value that was sent in one line; of its floats it reads the first
\* fifteen digits, rounded, and as an integer if they have no fraction.
WholeMessageSurvives ==
  source = "whole" /\ got # NotYet => got = AsRead(message)

\* The other server signs the text of what it has parsed, not the text that was
\* sent: it gets the same for every message of the line, so that no honest message
\* has a bad signature.
SignatureSurvives ==
  source = "whole" /\ got # NotYet =>
    LET sent == IF IsArray(message) THEN message[2] ELSE <<message>>
    IN  /\ got # Invalid
        /\ Len(Messages(got)) = Len(sent)
        /\ \A k \in DOMAIN sent : SigText(Messages(got)[k]) = SigText(sent[k])

\* A line that framing has garbled is never taken for a message, whatever the
\* strings in it hold: the request gets a parse error, the reply is logged.  (The
\* strings here have no spaces.  A piece of only spaces in front of a message does
\* no harm: the line is that message.)
GarbledIsRejected ==
  source \in {"cut", "stale"} /\ got # NotYet => got = Invalid

\* The value of a plugin in a message: RPCCall::HandleReply takes it from a result,
\* a method from its parameters.
Carried(j) ==
  IF IsNull(Field(j, "method")) THEN ConstMember(j, Ascii("result"))
  ELSE ElementAt(Field(j, "params"), 0)

\* Beyond ten digits the cast to an int is undefined.
CanRead(type, v) == type = "Int" /\ IsNumberFloat(v) => v[2].exp < 10

\* Whatever native the other plugin reads a value with, it gets what the first one
\* would get of its own value with the same native, an error if that is an error:
\* the digits that a float loses on its way are none of the 32 bits a plugin reads.
\* A method that declares the value's type is called.  The exception is a float
\* that is not finite: it is null before it is sent.
ValueArrives ==
  source = "whole" /\ got # NotYet /\ given # Null =>
    LET j == Messages(got)[1]
        v == Constructed(given)
    IN  /\ ~IsNull(Field(j, "method")) /\ ~IsInfinite(given) =>
             ValidateArguments(<<TypeOf(given)>>, Field(j, "params"))
        /\ \A type \in {"Int", "Float", "Bool", "String"} :
             CanRead(type, v) => Read(type, Carried(j)) = Read(type, v)
        /\ Read("JSON", Carried(j)) = AsRead(v)
        /\ GetArraySize(Carried(j)) = GetArraySize(v)

RECURSIVE HasInfinity(_)
HasInfinity(v) ==
  \/ IsInfinite(v)
  \/ IsContainer(v) /\ \E k \in DOMAIN v[2] : HasInfinity(v[2][k])

\* A text of another implementation that parses can be passed on, if no number in
\* it is too large for a double: its dump parses, and to a value with the same dump,
\* so that it is signed alike wherever it goes.
PassedOnUnchanged ==
  source = "foreign" /\ got \notin {NotYet, Invalid} /\ ~HasInfinity(got) =>
    LET again == Parse(Dump(got))
    IN  again # Invalid /\ Dump(again) = Dump(got)

\* include/json.hpp:664 says that numbers too large for a double "will be stored as
\* NaN internally and be serialized to `null`": whatever was parsed can be passed
\* on, and its dump parses.  Stored is an infinity, which dumps to inf.
ParsedCanBePassedOn ==
  source = "foreign" /\ got \notin {NotYet, Invalid} => Parse(Dump(got)) # Invalid
=============================================================================
