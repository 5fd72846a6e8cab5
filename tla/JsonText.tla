------------------------------ MODULE JsonText ------------------------------
(***************************************************************************)
(* The text form of JSON as include/json.hpp writes and reads it: dump and *)
(* escape_string on one side, the lexer (its DFA was generated by re2c)    *)
(* and the recursive descent parser on the other.                          *)
(*                                                                         *)
(* A text is a sequence of bytes, numbers in 0..255.  A value is a pair of *)
(* its type and its data: an object is a function from keys to values, an  *)
(* array a sequence of values, a string a text, an integer a number (the   *)
(* library's signed and unsigned integers are one type here: they dump and *)
(* compare alike).  A float is the double nearest to a decimal number, its *)
(* sign, digits and exponent those of 0.d1 d2 ... * 10^exp without zeros   *)
(* at either end.  A double that came from a SourcePawn float has all the  *)
(* digits of its exact value, 27 for 0.1; one that was parsed has those of *)
(* its text, of which no two with at most 15 digits stand for the same.    *)
(*                                                                         *)
(* The operators are recursive, and only TLC's runs use this module.       *)
(***************************************************************************)
EXTENDS Integers, Sequences, SequencesExt, FiniteSetsExt

\* The printable characters from 32 on; a TLA+ string cannot hold the two quotes
\* that the tabs stand for.
Printable == " !\"#$%&\t()*+,-./0123456789:;<=>?@ABCDEFGHIJKLMNOPQRSTUVWXYZ[\\]^_\tabcdefghijklmnopqrstuvwxyz{|}~"

CharCode == [c \in {SubSeq(Printable, j, j) : j \in 1..95} |->
               31 + CHOOSE j \in 1..95 : SubSeq(Printable, j, j) = c]

Code(c) == CharCode[c]

\* A TLA+ string as a text.
Ascii(s) == [k \in 1..Len(s) |-> Code(SubSeq(s, k, k))]

NUL == 0
TAB == 9
LF == 10
Quote == Code("\"")
Backslash == Code("\\")
Minus == Code("-")
Dot == Code(".")
Zero == Code("0")

Digits == 48..57
HexDigits == Digits \cup 65..70 \cup 97..102
Spaces == {9, 10, 13, 32}

\* The bytes that stand for themselves in a string: control characters from 16 on too.
StringChars == 16..255 \ {Quote, Backslash}

Null == <<"null", 0>>
Bool(b) == <<"boolean", b>>
Num(n) == <<"integer", n>>
Float(neg, digits, exp) == <<"float", [neg |-> neg, digits |-> digits, exp |-> exp]>>
Str(text) == <<"string", text>>
Arr(values) == <<"array", values>>
Obj(members) == <<"object", members>>

\* A float with no digits and exponent 0 is a zero, with exponent 1 an infinity.
Infinite(neg) == Float(neg, <<>>, 1)

IsInfinite(v) == v[1] = "float" /\ v[2].digits = <<>> /\ v[2].exp = 1

\* The constructor of floats: what is not finite becomes null.
Constructed(v) == IF IsInfinite(v) THEN Null ELSE v

IsNull(v) == v[1] = "null"
IsBoolean(v) == v[1] = "boolean"
IsNumberInteger(v) == v[1] = "integer"
IsNumberFloat(v) == v[1] = "float"
IsNumber(v) == IsNumberInteger(v) \/ IsNumberFloat(v)
IsString(v) == v[1] = "string"
IsObject(v) == v[1] = "object"
IsArray(v) == v[1] = "array"
IsContainer(v) == IsArray(v) \/ IsObject(v)

-----------------------------------------------------------------------------
(* dump. *)

\* The escapes of two characters: \" \\ \b \f \n \r \t.
ShortEscapes ==
  34 :> 34 @@ 92 :> 92 @@ 8 :> 98 @@ 12 :> 102 @@ 10 :> 110 @@ 13 :> 114 @@ 9 :> 116

ExtraSpace_ShortControl(text) ==  \* mutant: \uxxxx is taken for five characters
  Len(SelectSeq(text, LAMBDA c : c \in DOMAIN ShortEscapes))
  + 4 * Len(SelectSeq(text, LAMBDA c : c < 32 /\ c \notin DOMAIN ShortEscapes))

\* The number of characters that escaping adds.
ExtraSpace(text) ==
  Len(SelectSeq(text, LAMBDA c : c \in DOMAIN ShortEscapes))
  + 5 * Len(SelectSeq(text, LAMBDA c : c < 32 /\ c \notin DOMAIN ShortEscapes))

Hexify(v) == IF v < 10 THEN 48 + v ELSE 97 + v - 10

EscapeChar(c) ==
  IF c \in DOMAIN ShortEscapes THEN <<Backslash, ShortEscapes[c]>>
  ELSE IF c < 32 THEN Ascii("\\u00") \o <<Hexify(c \div 16), Hexify(c % 16)>>
  ELSE <<c>>

EscapeString_Raw(text) == text  \* mutant: nothing is escaped

\* The result is a buffer of the computed size, full of backslashes, over which
\* the characters are written; what does not fit would be written past its end.
EscapeString(text) ==
  IF ExtraSpace(text) = 0 THEN text
  ELSE LET written == FlattenSeq([k \in DOMAIN text |-> EscapeChar(text[k])])
       IN  [k \in 1..(Len(text) + ExtraSpace(text)) |->
              IF k \in DOMAIN written THEN written[k] ELSE Backslash]

RECURSIVE DumpNat(_)
DumpNat(n) == IF n < 10 THEN <<48 + n>> ELSE DumpNat(n \div 10) \o <<48 + (n % 10)>>

DumpInt(n) == IF n < 0 THEN <<Minus>> \o DumpNat(-n) ELSE DumpNat(n)

Zeros(n) == [k \in 1..n |-> Zero]

\* Digits without the zeros at their end.
Significant(ds) == SubSeq(ds, 1, Max({0} \cup {k \in DOMAIN ds : ds[k] # 0}))

\* One more in the last digit; 9s carry.
OneUp(f) ==
  LET k == Max({0} \cup {j \in DOMAIN f.digits : f.digits[j] # 9})
  IN  IF k = 0 THEN [f EXCEPT !.digits = <<1>>, !.exp = @ + 1]
      ELSE [f EXCEPT !.digits = SubSeq(@, 1, k - 1) \o <<@[k] + 1>>]

\* The nearest number of at most n digits, the even one of two.
Rounded(f, n) ==
  LET kept == SubSeq(f.digits, 1, n)
      rest == SubSeq(f.digits, n + 1, Len(f.digits))
      up == rest[1] > 5 \/ (rest[1] = 5 /\ (Len(rest) > 1 \/ kept[n] % 2 = 1))
  IN  IF rest = <<>> THEN f
      ELSE IF up THEN OneUp([f EXCEPT !.digits = kept])
      ELSE [f EXCEPT !.digits = Significant(kept)]

Precision_Default == 6  \* mutant: the precision of a new stream

\* digits10 of a double.
Precision == 15

\* operator<< of a stream with that precision: the shorter of %f and %e.
PrintFloat(f) ==
  LET r == Rounded(f, Precision)
      ds == [k \in DOMAIN r.digits |-> 48 + r.digits[k]]
      n == Len(ds)
      x == r.exp - 1
      point(left, right) == IF right = <<>> THEN left ELSE left \o <<Dot>> \o right
      exponent == LET a == IF x < 0 THEN -x ELSE x
                  IN  Ascii(IF x < 0 THEN "e-" ELSE "e+") \o
                      (IF a < 10 THEN <<Zero>> ELSE <<>>) \o DumpNat(a)
      number == CASE ds = <<>>          -> Ascii("inf")
                  [] x < -4 \/ x >= Precision -> point(<<ds[1]>>, Tail(ds)) \o exponent
                  [] x \in -4..-1       -> Ascii("0.") \o Zeros(-x - 1) \o ds
                  [] OTHER -> point(SubSeq(ds \o Zeros(Precision), 1, r.exp),
                                    SubSeq(ds, r.exp + 1, n))
  IN  (IF f.neg THEN <<Minus>> ELSE <<>>) \o number

DumpFloat_NoZero(f) ==  \* mutant: zero is printed as operator<< prints it
  IF f.digits = <<>> /\ f.exp = 0
  THEN Ascii(IF f.neg THEN "-0" ELSE "0")
  ELSE PrintFloat(f)

DumpFloat(f) ==
  IF f.digits = <<>> /\ f.exp = 0
  THEN Ascii(IF f.neg THEN "-0.0" ELSE "0.0")
  ELSE PrintFloat(f)

RECURSIVE Before(_, _)
\* The order of std::map's keys.
Before(s, t) ==
  /\ t # <<>>
  /\ \/ s = <<>>
     \/ s[1] < t[1]
     \/ s[1] = t[1] /\ Before(Tail(s), Tail(t))

Keys(members) == SetToSortSeq(DOMAIN members, Before)

Quoted(text) == <<Quote>> \o EscapeString(text) \o <<Quote>>

\* `texts` with commas between.
Commas(texts) == FlattenSeq([k \in DOMAIN texts |->
  IF k = 1 THEN texts[1] ELSE Ascii(",") \o texts[k]])

RECURSIVE DumpTo(_)

DumpObject(members) ==
  LET ks == Keys(members)
  IN  Ascii("{") \o Commas([k \in DOMAIN ks |->
        Quoted(ks[k]) \o Ascii(":") \o DumpTo(members[ks[k]])]) \o Ascii("}")

DumpArray(values) ==
  Ascii("[") \o Commas([k \in DOMAIN values |-> DumpTo(values[k])]) \o Ascii("]")

DumpTo(v) ==
  CASE v[1] = "object"  -> DumpObject(v[2])
    [] v[1] = "array"   -> DumpArray(v[2])
    [] v[1] = "string"  -> Quoted(v[2])
    [] v[1] = "boolean" -> Ascii(IF v[2] THEN "true" ELSE "false")
    [] v[1] = "integer" -> DumpInt(v[2])
    [] v[1] = "float"   -> DumpFloat(v[2])
    [] v[1] = "null"    -> Ascii("null")

\* Without an indentation; the stream's decimal point is a dot in every locale.
Dump(v) == DumpTo(v)

-----------------------------------------------------------------------------
(* Iterators and conversions. *)

Size(v) ==
  CASE IsContainer(v) -> Cardinality(DOMAIN v[2])
    [] IsNull(v)      -> 0
    [] OTHER          -> 1

\* The value that an iterator is for, and the members or elements before it.  Of
\* other values it has a primitive_iterator_t.
Iterator(v, n) == [object |-> v, it |-> n]

Primitive == [begin |-> 0, end |-> 1]

Begin(v) == Iterator(v, IF IsNull(v) THEN Primitive.end ELSE Primitive.begin)

End(v) == Iterator(v, IF IsContainer(v) THEN Cardinality(DOMAIN v[2]) ELSE Primitive.end)

Key(i) == Keys(i.object[2])[i.it + 1]

Deref(i) ==
  CASE IsObject(i.object) -> i.object[2][Key(i)]
    [] IsArray(i.object)  -> i.object[2][i.it + 1]
    [] OTHER              -> i.object

Increment(i) == [i EXCEPT !.it = @ + 1]

AtEnd(i) == i = End(i.object)

RECURSIVE ItemsFrom(_)
ItemsFrom(i) == IF AtEnd(i) THEN <<>> ELSE <<Deref(i)>> \o ItemsFrom(Increment(i))

\* What a loop from begin() to end() visits.
Items(v) == ItemsFrom(Begin(v))

-----------------------------------------------------------------------------
(* The lexer.  A token is its type, where it starts and where the next one   *)
(* is looked for.                                                            *)

\* c_str() ends with a NUL, and to the scanner any NUL is the end.
At(t, i) == IF i \in DOMAIN t THEN t[i] ELSE NUL

Token(type, from, to) == [type |-> type, start |-> from, cursor |-> to]

StructuralChars == "[]{},:"
Structural == [c \in Range(Ascii(StructuralChars)) |->
                 CHOOSE s \in {"[", "]", "{", "}", ",", ":"} : Code(s) = c]

Literals == [null |-> Ascii("null"), true |-> Ascii("true"), false |-> Ascii("false")]

StartsWith(t, i, word) == \A k \in DOMAIN word : At(t, i + k - 1) = word[k]

ParseError(i) == Token("parse_error", i, i + 1)

ScanLiteral(t, i) ==
  IF \E w \in DOMAIN Literals : StartsWith(t, i, Literals[w])
  THEN LET w == CHOOSE w \in DOMAIN Literals : StartsWith(t, i, Literals[w])
       IN  Token(w, i, i + Len(Literals[w]))
  ELSE ParseError(i)

RECURSIVE AfterDigits(_, _)
AfterDigits(t, i) == IF At(t, i) \in Digits THEN AfterDigits(t, i + 1) ELSE i

\* A point without a digit behind it is left out.
HasFraction(t, i) == At(t, i) = Dot /\ At(t, i + 1) \in Digits

AfterFraction(t, i) == IF HasFraction(t, i) THEN AfterDigits(t, i + 1) ELSE i

\* Where the digits of an exponent would start, and whether there are any.
ExponentDigits(t, i) == IF At(t, i + 1) \in {Code("+"), Minus} THEN i + 2 ELSE i + 1

HasExponent(t, i) ==
  At(t, i) \in {Code("e"), Code("E")} /\ At(t, ExponentDigits(t, i)) \in Digits

AfterExponent(t, i) ==
  IF HasExponent(t, i) THEN AfterDigits(t, ExponentDigits(t, i)) ELSE i

\* No digit follows a leading zero.
ScanNumber(t, i) ==
  LET first == IF At(t, i) = Minus THEN i + 1 ELSE i
      whole == IF At(t, first) = Zero THEN first + 1 ELSE AfterDigits(t, first)
  IN  IF At(t, first) \notin Digits
      THEN ParseError(i)
      ELSE Token("number", i, AfterExponent(t, AfterFraction(t, whole)))

\* The characters that may follow a backslash: "/\bfnrt.
Escapable == Range(Ascii("\"/\\bfnrt"))

FourHexDigits(t, i) == \A k \in i..(i + 3) : At(t, k) \in HexDigits

RECURSIVE AfterString(_, _)
\* The index after the quote that ends the string, 0 if none does.
AfterString(t, i) ==
  CASE At(t, i) = Quote -> i + 1
    [] At(t, i) = Backslash ->
         (CASE At(t, i + 1) \in Escapable -> AfterString(t, i + 2)
            [] At(t, i + 1) = Code("u") /\ FourHexDigits(t, i + 2) ->
                 AfterString(t, i + 6)
            [] OTHER -> 0)
    [] At(t, i) \in StringChars -> AfterString(t, i + 1)
    [] OTHER -> 0

ScanString(t, i) ==
  LET end == AfterString(t, i + 1)
  IN  IF end = 0 THEN ParseError(i) ELSE Token("string", i, end)

ByteOrderMark == <<239, 187, 191>>

HasMark(t, i) == StartsWith(t, i, ByteOrderMark)
AfterMark(i) == i + Len(ByteOrderMark)

RECURSIVE Scan(_, _)
Scan(t, i) ==
  LET c == At(t, i)
  IN CASE c \in Spaces -> Scan(t, i + 1)
       [] HasMark(t, i) -> Scan(t, AfterMark(i))
       [] c = NUL -> Token("end_of_input", i, i + 1)
       [] c \in DOMAIN Structural -> Token(Structural[c], i, i + 1)
       [] c = Quote -> ScanString(t, i)
       [] c \in Digits \cup {Minus} -> ScanNumber(t, i)
       [] OTHER -> ScanLiteral(t, i)

-----------------------------------------------------------------------------
(* The values of tokens. *)

\* What the C++ throws: nothing in this part throws anything else.
Invalid == <<"invalid_argument", 0>>

HexValue(c) == IF c \in Digits THEN c - 48 ELSE IF c > 96 THEN c - 87 ELSE c - 55

\* strtoul of the four characters from i on, up to the first that is not hex.
RECURSIVE Hex(_, _, _)
Hex(t, i, n) ==
  IF n = 0 \/ At(t, i + n - 1) \notin HexDigits THEN 0
  ELSE 16 * Hex(t, i, n - 1) + HexValue(At(t, i + n - 1))

\* UTF-8.
ToUnicode(cp) ==
  CASE cp < 128   -> <<cp>>
    [] cp \in 128..2047 -> <<192 + cp \div 64, 128 + (cp % 64)>>
    [] cp \in 2048..65535 ->
         <<224 + cp \div 4096, 128 + ((cp \div 64) % 64), 128 + (cp % 64)>>
    [] OTHER -> <<240 + cp \div 262144, 128 + ((cp \div 4096) % 64),
                  128 + ((cp \div 64) % 64), 128 + (cp % 64)>>

HighSurrogates == 55296..56319
LowSurrogates == 56320..57343

FromPair(high, low) == (high - 55296) * 1024 + (low - 56320) + 65536

\* The code point that one \u escape stands for, or two; low is -1 if there is one.
CodePoint(cp, low) ==
  CASE cp \notin HighSurrogates -> cp
    [] cp \in HighSurrogates /\ low \in LowSurrogates -> FromPair(cp, low)
    [] OTHER -> -1

\* Adds a prefix to the rest of a string, unless the rest is invalid.
Prepend(chars, rest) == IF rest = Invalid THEN Invalid ELSE Str(chars \o rest[2])

RECURSIVE GetString(_, _, _)
\* The characters from i up to the closing quote at `end`, escapes resolved.
GetString(t, i, end) ==
  LET c == At(t, i + 1)
      cp == Hex(t, i + 2, 4)
      pair == At(t, i + 6) = Backslash /\ At(t, i + 7) = Code("u")
      code == CodePoint(cp, IF pair THEN Hex(t, i + 8, 4) ELSE -1)
  IN CASE i >= end -> Str(<<>>)
       [] i < end /\ t[i] # Backslash -> Prepend(<<t[i]>>, GetString(t, i + 1, end))
       [] i < end /\ t[i] = Backslash /\ c # Code("u") ->
            Prepend(<<IF c = Code("/") THEN c
                      ELSE CHOOSE k \in DOMAIN ShortEscapes : ShortEscapes[k] = c>>,
                    GetString(t, i + 2, end))
       [] OTHER ->
            IF code = -1 THEN Invalid
            ELSE Prepend(ToUnicode(code),
                         GetString(t, IF cp \in HighSurrogates THEN i + 12 ELSE i + 6, end))

RECURSIVE Number(_)
Number(ds) == IF ds = <<>> THEN 0 ELSE 10 * Number(Front(ds)) + Last(ds) - 48

\* Beyond these a double is infinite or zero.
MaxExponent == 309
MinExponent == -323

\* strtod, of a number token with a point or an exponent.
StrToFloat(token) ==
  LET neg == token[1] = Minus
      abs == IF neg THEN Tail(token) ELSE token
      e == Min({Len(abs) + 1} \cup {k \in DOMAIN abs : abs[k] \in {Code("e"), Code("E")}})
      p == Min({e} \cup {k \in DOMAIN abs : abs[k] = Dot})
      power == SelectSeq(SubSeq(abs, e, Len(abs)), LAMBDA c : c \in Digits)
      down == e < Len(abs) /\ abs[e + 1] = Minus
      all == SelectSeq(SubSeq(abs, 1, e - 1), LAMBDA c : c # Dot)
      lead == Min({Len(all) + 1} \cup {k \in DOMAIN all : all[k] # Zero}) - 1
      ds == Significant([k \in 1..(Len(all) - lead) |-> all[lead + k] - 48])
      exp == p - 1 - lead + (IF down THEN -Number(power) ELSE Number(power))
  IN  CASE ds = <<>> \/ exp < MinExponent -> Float(neg, <<>>, 0)
        [] ds # <<>> /\ exp > MaxExponent -> Infinite(neg)
        [] OTHER -> Float(neg, ds, exp)

\* Without a point or an exponent it is an integer (TLC's, not the 64 bits of
\* the code: a number with that many digits is out of this model's range).
GetNumber(token) ==
  IF \A k \in DOMAIN token : token[k] \in Digits \cup {Minus}
  THEN Num(IF token[1] = Minus THEN -Number(Tail(token)) ELSE Number(token))
  ELSE StrToFloat(token)

-----------------------------------------------------------------------------
(* get<T>(): what a native reads of a value. *)

TypeError == <<"domain_error", 0>>
OutOfRange == <<"out_of_range", 0>>

\* Conversions of numbers, by static_cast.
Decimal(n) == StrToFloat(DumpInt(n))

Truncated(f) ==
  LET whole == SubSeq([k \in DOMAIN f.digits |-> 48 + f.digits[k]] \o Zeros(f.exp), 1, f.exp)
  IN  IF f.exp <= 0 THEN 0 ELSE IF f.neg THEN -Number(whole) ELSE Number(whole)

GetInt(v) ==
  CASE IsNumberInteger(v) -> v
    [] IsNumberFloat(v)   -> Num(Truncated(v[2]))
    [] OTHER              -> TypeError

\* The nearest float of 32 bits: nine digits tell any two of them apart.
Narrowed(v) == <<"float", Rounded(v[2], 9)>>

GetFloat(v) ==
  CASE IsNumberFloat(v)   -> Narrowed(v)
    [] IsNumberInteger(v) -> Narrowed(Decimal(v[2]))
    [] OTHER              -> TypeError

GetBool(v) == IF IsBoolean(v) THEN v ELSE TypeError

GetText(v) == IF IsString(v) THEN v ELSE TypeError

\* get<T>(), for the types the extension asks for.
Get(type, v) ==
  CASE type = "Int"    -> GetInt(v)
    [] type = "Float"  -> GetFloat(v)
    [] type = "Bool"   -> GetBool(v)
    [] type = "String" -> GetText(v)

\* A value assigned to a std::string.
AsString(v) == Get("String", v)

\* operator[] of a constant object: the key must be there.
ConstMember(v, key) == IF IsObject(v) THEN v[2][key] ELSE TypeError

\* at(): the element at an index.
ElementAt(v, k) ==
  CASE ~IsArray(v)               -> TypeError
    [] IsArray(v) /\ k < Size(v) -> v[2][k + 1]
    [] OTHER                     -> OutOfRange

-----------------------------------------------------------------------------
(* The parser.  A result is the value and the token after it.                *)

Result(value, token) == [value |-> value, last |-> token]

NextToken(t, token) == Scan(t, token.cursor)

RECURSIVE ParseInternal(_, _)

RECURSIVE ParseMembers(_, _, _)
\* Key-value pairs up to the brace; a key that occurs again replaces the first.
ParseMembers(t, token, members) ==
  LET key == GetString(t, token.start + 1, token.cursor - 1)
      colon == NextToken(t, token)
      value == ParseInternal(t, NextToken(t, colon))
      now == key[2] :> value.value @@ members
  IN  IF token.type # "string" THEN Result(Invalid, token)
      ELSE IF key = Invalid \/ colon.type # ":" THEN Result(Invalid, token)
      ELSE IF value.value = Invalid THEN value
      ELSE CASE value.last.type = "," -> ParseMembers(t, NextToken(t, value.last), now)
             [] value.last.type = "}" -> Result(Obj(now), NextToken(t, value.last))
             [] OTHER -> Result(Invalid, token)

RECURSIVE ParseElements(_, _, _)
ParseElements(t, token, elements) ==
  LET value == ParseInternal(t, token)
      now == Append(elements, value.value)
  IN  IF value.value = Invalid THEN value
      ELSE CASE value.last.type = "," -> ParseElements(t, NextToken(t, value.last), now)
             [] value.last.type = "]" -> Result(Arr(now), NextToken(t, value.last))
             [] OTHER -> Result(Invalid, token)

ParseObject(t, token) ==
  IF NextToken(t, token).type = "}" THEN Result(Obj(<<>>), NextToken(t, NextToken(t, token)))
  ELSE ParseMembers(t, NextToken(t, token), <<>>)

ParseArray(t, token) ==
  IF NextToken(t, token).type = "]" THEN Result(Arr(<<>>), NextToken(t, NextToken(t, token)))
  ELSE ParseElements(t, NextToken(t, token), <<>>)

ParseScalar(t, token) ==
  CASE token.type = "null" -> Null
    [] token.type \in {"true", "false"} -> Bool(token.type = "true")
    [] token.type = "string" -> GetString(t, token.start + 1, token.cursor - 1)
    [] token.type = "number" -> GetNumber(SubSeq(t, token.start, token.cursor - 1))
    [] OTHER -> Invalid

ParseInternal(t, token) ==
  CASE token.type = "{" -> ParseObject(t, token)
    [] token.type = "[" -> ParseArray(t, token)
    [] OTHER -> LET v == ParseScalar(t, token)
                IN  Result(v, IF v = Invalid THEN token ELSE NextToken(t, token))

Parse_FirstValue(t) ==  \* mutant: what follows the value is not looked at
  ParseInternal(t, Scan(t, 1)).value

\* json::parse: nothing may follow the value.
Parse(t) ==
  LET result == ParseInternal(t, Scan(t, 1))
  IN  IF result.value # Invalid /\ result.last.type = "end_of_input"
      THEN result.value ELSE Invalid
=============================================================================
