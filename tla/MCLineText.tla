---------------------------- MODULE MCLineText ----------------------------
(* LineText for TLC.  Plugins' strings: all of at most two characters of     *)
(* those that escaping, scanning or framing treats in a way of its own.      *)
EXTENDS LineText

Special == {Quote, Backslash, LF, 1, 16, Code("["), Code("}"), Code(","), Code("1"), 233}

Upto2(S) == {<<>>} \cup {<<a>> : a \in S} \cup {<<a, b>> : a \in S, b \in S}

Decimals(digits, exp) == Float(FALSE, [k \in 1..Len(digits) |-> Ascii(digits)[k] - 48], exp)

\* The exact values of SourcePawn floats.
Floats == {Float(TRUE, <<>>, 0), Float(FALSE, <<3>>, 1), Float(TRUE, <<1, 2, 5>>, 1),
           Float(TRUE, <<5>>, 0), Float(FALSE, <<1>>, 9), Infinite(FALSE),
           Float(FALSE, <<1, 6, 7, 7, 7, 2, 1, 6>>, 8),
           Decimals("100000001490116119384765625", 0),               \* 0.1
           Decimals("24999999368446879088878631591796875", -5),      \* 0.0000025
           Decimals("10000000116860974230803549289703369140625", -6),
           Decimals("2384185791015625", -6),                         \* between two, rounds down
           Decimals("7152557373046875", -6),                         \* and up
           Decimals("453144967555999755859375", 0),                  \* 9s that carry
           Decimals("100000002004087734272", 21),
           Decimals("34028234663852885981170418348451692544", 39)}   \* the largest

MCPayloads ==
  {Str(s) : s \in Upto2(Special)} \cup {Obj(s :> Bool(TRUE)) : s \in Upto2({Quote, LF, 65})}
  \cup Floats \cup {Null, Arr(<<>>), Obj(<<>>), Num(-12), Bool(FALSE), Obj(<<LF>> :> Null)}

MCTornPayloads ==
  {Str(s) : s \in Upto2({Quote, Backslash, Code("["), Code("}"), Code(",")})} \cup {Obj(<<LF>> :> Null), Num(-12)}

Alphabet == Range(Ascii("\"\\01.-e[]{},:a")) \cup {15, 16}

Samples == {"\"\\u0010\"", "\"\\u00e9\\u20ac\"", "\"\\ud83d\\ude00\"", "\"\\ud83d\"", "\"\\ud83d\\u0041\"",
            "\"\\/\\b\\f\\n\\r\\t\"", "\"\\u000g\"", "{\"a\":1,\"a\":[]}", "[1,]", "{\"a\":null,}",
            "[true,false]", "[1 2]", "1e999", "[-1e999]", "1e-999", "-0.0", "-12.50E+1", "0.1e1", "{\"a\" : 1e5}",
            "nul", "trues"}

MCForeign ==
  {<<>>, ByteOrderMark \o Ascii("1"), Ascii("1") \o <<NUL>> \o Ascii("2")}
  \cup {Ascii(s) : s \in Samples} \cup UNION {[1..n -> Alphabet] : n \in 1..3}
=============================================================================
