----------------------------- MODULE JsonValues -----------------------------
(***************************************************************************)
(* The JSON natives of smn_json.cpp: plugins build parameters and results  *)
(* from values behind handles, and read what arrives.                      *)
(*                                                                         *)
(* The natives use the library's non-const operator[], for reading too: it *)
(* turns null into a container, enters null under a missing key, fills an  *)
(* array up to the index it is given, and throws domain_error on any other *)
(* kind of value.  The getters of integers, floats and booleans catch what *)
(* is thrown; an exception of the other natives leaves the extension.      *)
(*                                                                         *)
(* A scalar is its type and whether it is what the plugin gave or the      *)
(* number of a handle, which is what PushInt, PushFloat and PushBool push. *)
(* Exceptions that escape, a format string without its argument and the    *)
(* allocation of an array up to a negative index are recorded in fault.    *)
(***************************************************************************)
EXTENDS Naturals, Sequences, FiniteSets

CONSTANTS
  Handles,       \* handles of JSON values, of one plugin
  Keys,          \* keys of objects
  Types,         \* scalar types in use, of those below
  Arriving,      \* values that come with a request, a reply or a list of servers
  MaxLen,        \* bound: elements of an array
  GivenValue, HandleNumber,
  None           \* no value

ASSUME JsonConstants ==
  /\ Types \subseteq {"string", "int", "float", "bool"}
  /\ MaxLen \in Nat
  /\ None \notin {GivenValue, HandleNumber}

VARIABLES
  values,    \* handle -> the JSON value it leads to
  fault,     \* the first exception or undefined behaviour
  uses,      \* history: handle -> how its value has been used, by key or by index
  made       \* history: handles that the constructor JSON() made

vars == <<values, fault, uses, made>>

-----------------------------------------------------------------------------
Null == [kind |-> "null", val |-> None]
Scalar(t, x) == [kind |-> t, val |-> x]
Object(f) == [kind |-> "object", val |-> f]
Array(s) == [kind |-> "array", val |-> s]

Closed == [kind |-> "closed", val |-> None]

IsOpen(h) == values[h] # Closed

IsContainer(v) == v.kind \in {"object", "array"}

Members(v) == IF v.kind = "object" THEN v.val ELSE <<>>
Elements(v) == IF v.kind = "array" THEN v.val ELSE <<>>

Keyed_NoNull(v) == v.kind = "object"  \* mutant: null is not turned into an object

\* The kinds operator[] and push_back accept.
Keyed(v) == v.kind \in {"null", "object"}
Indexed(v) == v.kind \in {"null", "array"}

\* Bound: what is put into a value holds at most one element and no containers.
Flat(v) ==
  /\ Len(Elements(v)) <= 1
  /\ \A k \in DOMAIN Members(v) : ~IsContainer(v.val[k])
  /\ \A k \in DOMAIN Elements(v) : ~IsContainer(v.val[k])

\* basic_json::operator[] with a key.
AtKey(v, k) ==
  LET f == Members(v)
  IN  Object([j \in DOMAIN f \cup {k} |-> IF j \in DOMAIN f THEN f[j] ELSE Null])

\* basic_json::operator[] with an index, which counts from 0.
AtIndex(v, i) ==
  LET s == Elements(v)
  IN  Array([j \in 1..(IF i < Len(s) THEN Len(s) ELSE i + 1) |->
               IF j <= Len(s) THEN s[j] ELSE Null])

\* Bound: a value is nested two deep, what arrives as well.
Atoms == {Null} \cup [kind : {"string", "int", "float", "bool"}, val : {GivenValue, HandleNumber}]

IsMap(f) == f = [k \in DOMAIN f |-> f[k]]
IsList(s) == s \in Seq({s[k] : k \in DOMAIN s})

IsValue(v) ==
  \/ v \in Atoms
  \/ v = Object(v.val) /\ IsMap(v.val)
  \/ v = Array(v.val) /\ IsList(v.val)

IsFlat(v) == IsValue(v) /\ (IsContainer(v) => \A k \in DOMAIN v.val : v.val[k] \in Atoms)
IsJson(v) == IsValue(v) /\ (IsContainer(v) => \A k \in DOMAIN v.val : IsFlat(v.val[k]))

ASSUME ArrivingJson == \A v \in Arriving : IsJson(v)

SetAt(v, k, x) == Object([AtKey(v, k).val EXCEPT ![k] = x])

PushBack(v, x) == Array(Append(Elements(v), x))

-----------------------------------------------------------------------------
Init ==
  /\ values = [h \in Handles |-> Closed]
  /\ fault = "none"
  /\ uses = [h \in Handles |-> {}]
  /\ made = {}

-----------------------------------------------------------------------------
(* Handles. *)

Change(h, v) == values' = [values EXCEPT ![h] = v]

Use(h, how) == uses' = [uses EXCEPT ![h] = @ \cup {how}]

\* A new handle for value v, and what else a native did to value w of handle h.
OpenWith(g, v, h, w) ==
  /\ ~IsOpen(g)
  /\ values' = [values EXCEPT ![h] = w, ![g] = v]

\* native_CreateJSON
CreateJSON(g) ==
  /\ OpenWith(g, Null, g, Null)
  /\ made' = made \cup {g}
  /\ UNCHANGED <<fault, uses>>

\* GetParams, the result of a reply and RPCGetServers: a copy for the plugin.
Arrives(g, v) ==
  /\ OpenWith(g, v, g, v)
  /\ UNCHANGED <<fault, uses, made>>

CloseHandle(h) ==
  /\ IsOpen(h)
  /\ Change(h, Closed)
  /\ uses' = [uses EXCEPT ![h] = {}]
  /\ made' = made \ {h}
  /\ UNCHANGED fault

-----------------------------------------------------------------------------
(* Natives with a key. *)

\* SetString, SetInt, SetFloat and SetBool.  A float is a finite one here: the
\* library turns any other into null (Constructed in JsonText).
SetScalar(h, k, t) ==
  /\ Keyed(values[h])
  /\ Change(h, SetAt(values[h], k, Scalar(t, GivenValue)))
  /\ Use(h, "keyed")
  /\ UNCHANGED <<fault, made>>

\* SetJSON copies a value.  When a value is set in itself, the copy is made
\* before (early) or after operator[] has entered the key: the compiler chooses.
SetJSON(h, k, g, early) ==
  /\ Keyed(values[h])
  /\ IsOpen(g)
  /\ Flat(values[g])
  /\ Change(h, SetAt(values[h], k, IF early \/ h # g THEN values[g] ELSE AtKey(values[h], k)))
  /\ Use(h, "keyed")
  /\ UNCHANGED <<fault, made>>

\* GetInt, GetFloat, GetBool, and GetString of a string.  On a value with no
\* keys the first three report an error.
GetScalar(h, k) ==
  /\ Keyed(values[h])
  /\ Change(h, AtKey(values[h], k))
  /\ Use(h, "keyed")
  /\ UNCHANGED <<fault, made>>

\* GetString of anything else: the error's format has no argument for its %s.
GetNoString(h, k) ==
  /\ Keyed(values[h])
  /\ AtKey(values[h], k).val[k].kind # "string"
  /\ Change(h, AtKey(values[h], k))
  /\ fault' = "format"
  /\ Use(h, "keyed")
  /\ UNCHANGED made

\* GetJSON: a copy of the member.
GetJSON(h, k, g) ==
  /\ Keyed(values[h])
  /\ OpenWith(g, AtKey(values[h], k).val[k], h, AtKey(values[h], k))
  /\ Use(h, "keyed")
  /\ UNCHANGED <<fault, made>>

\* The setters, GetString and GetJSON on a value that has no keys.
NoKeys(h) ==
  /\ IsOpen(h)
  /\ ~Keyed(values[h])
  /\ fault' = "uncaught"
  /\ Use(h, "keyed")
  /\ UNCHANGED <<values, made>>

-----------------------------------------------------------------------------
(* Natives of arrays. *)

Push(h, x) ==
  /\ Indexed(values[h])
  /\ Len(Elements(values[h])) < MaxLen
  /\ Change(h, PushBack(values[h], x))
  /\ Use(h, "indexed")
  /\ UNCHANGED <<fault, made>>

\* PushString pushes its argument.  PushInt, PushFloat and PushBool push
\* params[1], which is the handle of the array itself.
PushScalar(h, t) == Push(h, Scalar(t, IF t = "string" THEN GivenValue ELSE HandleNumber))

\* PushJSON does not look at the value it is given: it takes its handle from params[3],
\* one beyond its arguments.  That is a stray value of the plugin's, or an error.  Null
\* becomes an array before it is pushed onto itself.
PushJSON(h, g) ==
  /\ IsOpen(g)
  /\ Flat(values[g])
  /\ Push(h, IF h = g THEN Array(Elements(values[g])) ELSE values[g])

\* GetArrayString, GetArrayInt, GetArrayFloat, GetArrayBool
GetArrayScalar(h, i) ==
  /\ Indexed(values[h])
  /\ Change(h, AtIndex(values[h], i))
  /\ Use(h, "indexed")
  /\ UNCHANGED <<fault, made>>

\* GetArrayJSON
GetArrayJSON(h, i, g) ==
  /\ Indexed(values[h])
  /\ OpenWith(g, AtIndex(values[h], i).val[i + 1], h, AtIndex(values[h], i))
  /\ Use(h, "indexed")
  /\ UNCHANGED <<fault, made>>

\* A negative position is a huge index: the array grows until memory is out.
NegativeIndex(h) ==
  /\ Indexed(values[h])
  /\ fault' = "memory"
  /\ Use(h, "indexed")
  /\ UNCHANGED <<values, made>>

\* The pushes, GetArrayString and GetArrayJSON on a value that is no array.
NoArray(h) ==
  /\ IsOpen(h)
  /\ ~Indexed(values[h])
  /\ fault' = "uncaught"
  /\ Use(h, "indexed")
  /\ UNCHANGED <<values, made>>

-----------------------------------------------------------------------------
KeyNative(h, k) ==
  \/ \E t \in Types : SetScalar(h, k, t)
  \/ \E g \in Handles : GetJSON(h, k, g) \/ \E early \in BOOLEAN : SetJSON(h, k, g, early)
  \/ GetScalar(h, k)
  \/ GetNoString(h, k)

ArrayNative(h) ==
  \/ \E t \in Types : PushScalar(h, t)
  \/ \E g \in Handles : PushJSON(h, g)
  \/ \E i \in 0..(MaxLen - 1) :
       GetArrayScalar(h, i) \/ \E g \in Handles : GetArrayJSON(h, i, g)
  \/ NegativeIndex(h)

Next ==
  /\ fault = "none"
  /\ \E h \in Handles :
       \/ CreateJSON(h)
       \/ \E v \in Arriving : Arrives(h, v)
       \/ CloseHandle(h)
       \/ \E k \in Keys : KeyNative(h, k)
       \/ NoKeys(h)
       \/ ArrayNative(h)
       \/ NoArray(h)

Spec == Init /\ [][Next]_vars

-----------------------------------------------------------------------------
(* Properties. *)

\* What the constructor makes and a plugin uses in one way only, by key or by
\* index, never throws at it: the exceptions that nothing catches come from a
\* value used in both ways or one that the plugin was given.
ThrowsOnlyIfMisused ==
  fault = "uncaught" =>
    \E h \in Handles : IsOpen(h) /\ (h \notin made \/ Cardinality(uses[h]) = 2)
=============================================================================
