----------------------------- MODULE JsonStore -----------------------------
(***************************************************************************)
(* What rpc.inc promises of the JSON handles of a plugin: every handle has *)
(* a value of its own; a value is empty, a scalar, a map from keys or an   *)
(* array; setting stores the given value at the given key, pushing puts it *)
(* behind the last element, and both copy what they are given.  Reading    *)
(* changes nothing, and reading a value out of another one makes a copy.   *)
(*                                                                         *)
(* The members and elements of a value are exact: GetArraySize counts them *)
(* all, nulls as well.                                                     *)
(***************************************************************************)
EXTENDS Sequences

CONSTANTS
  Handles,   \* handles of JSON values
  Keys,      \* keys of objects
  Scalars,   \* strings, numbers and booleans that a plugin gives
  Arriving,  \* values that come from the network or from the extension
  Closed     \* what a handle that is not open leads to

VARIABLE store  \* handle -> value

\* What is in a value taken as a container of that kind.
Inside(v, kind) == IF v.kind = kind THEN v.val ELSE <<>>

Container(kind, f) == [kind |-> kind, val |-> f]

\* f with v at k.
With(f, k, v) == [j \in DOMAIN f \cup {k} |-> IF j = k THEN v ELSE f[j]]

Init == store = [h \in Handles |-> Closed]

IsOpen(h) == store[h] # Closed

\* What a plugin has at hand: a scalar, or a copy of the value of a handle.
Given == Scalars \cup {store[h] : h \in {g \in Handles : IsOpen(g)}}

Change(h, v) == store' = [store EXCEPT ![h] = v]

Open(h, v) == ~IsOpen(h) /\ Change(h, v)

Close(h) == IsOpen(h) /\ Change(h, Closed)

Set(h, k, v) ==
  /\ IsOpen(h)
  /\ store[h].kind \in {"null", "object"}
  /\ Change(h, Container("object", With(Inside(store[h], "object"), k, v)))

Push(h, v) ==
  /\ IsOpen(h)
  /\ store[h].kind \in {"null", "array"}
  /\ Change(h, Container("array", Append(Inside(store[h], "array"), v)))

\* A copy of a member or an element.
Take(h, g) ==
  /\ IsOpen(h)
  /\ \E kind \in {"object", "array"} : \E k \in DOMAIN Inside(store[h], kind) :
       Open(g, Inside(store[h], kind)[k])

Next ==
  \E h \in Handles :
    \/ \E v \in Arriving : Open(h, v)
    \/ Close(h)
    \/ \E k \in Keys, v \in Given : Set(h, k, v)
    \/ \E v \in Given : Push(h, v)
    \/ \E g \in Handles : Take(h, g)

Spec == Init /\ [][Next]_store
=============================================================================
