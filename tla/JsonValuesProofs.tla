-------------------------- MODULE JsonValuesProofs --------------------------
(***************************************************************************)
(* Proofs about JsonValues: for all handles, keys, types and arriving      *)
(* values every handle leads to a JSON value, and the library throws at a  *)
(* plugin only if a value was used in two ways or was given to the plugin. *)
(*                                                                         *)
(* Every native changes a value by operator[] or push_back.  The lemmas    *)
(* about these say which function from keys or positions the changed value *)
(* is; JsonMemoryProofs uses them for the heap and for the promise of      *)
(* JsonStore.                                                              *)
(***************************************************************************)
EXTENDS JsonValues, SequenceTheorems, FiniteSetTheorems, TLAPS

-----------------------------------------------------------------------------
(* JSON values. *)

\* A list is a function on 1..Len, and the other way round.
LEMMA ListIsMap ==
  ASSUME NEW s, IsList(s)
  PROVE  /\ Len(s) \in Nat
         /\ DOMAIN s = 1..Len(s)
         /\ IsMap(s)
<1> DEFINE R == {s[k] : k \in DOMAIN s}
<1>1. s \in Seq(R)
  BY DEF IsList
<1> HIDE DEF R
<1>2. /\ Len(s) \in Nat
      /\ DOMAIN s = 1..Len(s)
      /\ s = [k \in DOMAIN s |-> s[k]]
  BY <1>1
<1> QED
  BY <1>2 DEF IsMap

LEMMA MapIsList ==
  ASSUME NEW n \in Nat, NEW s, IsMap(s), DOMAIN s = 1..n
  PROVE  IsList(s) /\ Len(s) = n
<1> DEFINE R == {s[k] : k \in DOMAIN s}
<1>1. s \in [1..n -> R]
  BY DEF IsMap
<1>2. s \in Seq(R)
  BY <1>1, SeqDef
<1> HIDE DEF R
<1>3. Len(s) = n
  BY <1>2
<1> QED
  BY <1>2, <1>3 DEF IsList, R

\* Atoms have no members, and the null among them is Null.
LEMMA AtomFacts ==
  ASSUME NEW v \in Atoms
  PROVE  /\ ~IsContainer(v)
         /\ v # Closed
         /\ v.kind # "closed"
         /\ v.kind = "null" => v = Null
BY DEF Atoms, IsContainer, Closed, Null

LEMMA NullIsAtom == Null \in Atoms
BY DEF Atoms

LEMMA ScalarIsAtom ==
  ASSUME NEW t \in Types, NEW x \in {GivenValue, HandleNumber}
  PROVE  Scalar(t, x) \in Atoms
BY JsonConstants DEF Atoms, Scalar

LEMMA ValueFacts ==
  ASSUME NEW v, IsValue(v)
  PROVE  /\ v.kind # "closed"
         /\ v # Closed
         /\ v.kind = "null" => v = Null
         /\ v.kind = "object" => v = Object(v.val) /\ IsMap(v.val)
         /\ v.kind = "array" => v = Array(v.val) /\ IsList(v.val)
         /\ ~IsContainer(v) => v \in Atoms
<1>1. CASE v \in Atoms
  BY <1>1, AtomFacts DEF IsContainer
<1>2. CASE v = Object(v.val) /\ IsMap(v.val)
  BY <1>2 DEF Object, IsContainer, Closed
<1>3. CASE v = Array(v.val) /\ IsList(v.val)
  BY <1>3 DEF Array, IsContainer, Closed
<1> QED
  BY <1>1, <1>2, <1>3 DEF IsValue

LEMMA AtomIsFlat == ASSUME NEW v \in Atoms PROVE IsFlat(v)
BY AtomFacts DEF IsFlat, IsValue

LEMMA FlatIsJson ==
  ASSUME NEW v, IsFlat(v)
  PROVE  IsJson(v) /\ v # Closed
BY AtomIsFlat, ValueFacts DEF IsFlat, IsJson

\* What the guards of SetJSON and PushJSON let through has no containers in it.
LEMMA FlatGuard ==
  ASSUME NEW v, IsJson(v), Flat(v)
  PROVE  IsFlat(v)
<1>1. SUFFICES ASSUME IsContainer(v), NEW k \in DOMAIN v.val PROVE v.val[k] \in Atoms
  BY DEF IsJson, IsFlat
<1>2. ~IsContainer(v.val[k])
  BY <1>1 DEF Flat, IsContainer, Members, Elements
<1>3. IsValue(v.val[k])
  BY <1>1 DEF IsJson, IsFlat
<1> QED
  BY <1>2, <1>3, ValueFacts

-----------------------------------------------------------------------------
(* What the library makes of a value. *)

\* The members of a value as a function, the empty one for null.
LEMMA MemberFacts ==
  ASSUME NEW v, IsValue(v), Keyed(v)
  PROVE  /\ IsMap(Members(v))
         /\ (v = Null /\ Members(v) = <<>>) \/ v = Object(Members(v))
<1>1. IsMap(<<>>)
  BY DEF IsMap
<1> QED
  BY <1>1, ValueFacts DEF Keyed, Members, Null

LEMMA ElementFacts ==
  ASSUME NEW v, IsValue(v), Indexed(v)
  PROVE  /\ IsList(Elements(v))
         /\ (v = Null /\ Elements(v) = <<>>) \/ v = Array(Elements(v))
<1>1. IsList(<<>>)
  BY DEF IsList
<1> QED
  BY <1>1, ValueFacts DEF Indexed, Elements, Null

\* operator[] and assignment: a function with one more place, or another value at it.
LEMMA SetAtIs ==
  ASSUME NEW v, NEW k, NEW x
  PROVE  SetAt(v, k, x) =
           Object([j \in DOMAIN Members(v) \cup {k} |-> IF j = k THEN x ELSE Members(v)[j]])
BY DEF SetAt, AtKey, Object

LEMMA PushBackIs ==
  ASSUME NEW v, IsList(Elements(v)), NEW x
  PROVE  LET s == Elements(v)
             n == Len(s) + 1
         IN  PushBack(v, x) =
               Array([j \in DOMAIN s \cup {n} |-> IF j = n THEN x ELSE s[j]])
<1> DEFINE s == Elements(v)
           n == Len(s) + 1
           R == {s[k] : k \in DOMAIN s}
<1>1. s \in Seq(R \cup {x})
  BY DEF IsList
<1>2. Len(s) \in Nat /\ DOMAIN s = 1..Len(s)
  BY ListIsMap
<1> HIDE DEF s, R
<1>3. /\ Append(s, x) \in Seq(R \cup {x})
      /\ Len(Append(s, x)) = n
      /\ \A j \in 1..Len(s) : Append(s, x)[j] = s[j]
      /\ Append(s, x)[n] = x
  BY <1>1, <1>2
<1>4. DOMAIN Append(s, x) = 1..n
  BY <1>3
<1>5. 1..n = DOMAIN s \cup {n} /\ \A j \in DOMAIN s : j # n
  BY <1>2
<1> DEFINE t == Append(s, x)
<1>6. t = [j \in DOMAIN t |-> t[j]]
  <2>1. t \in Seq(R \cup {x})
    BY <1>3
  <2> HIDE DEF t
  <2> QED
    BY <2>1
<1>7. Append(s, x) = [j \in DOMAIN s \cup {n} |-> IF j = n THEN x ELSE s[j]]
  BY <1>2, <1>3, <1>4, <1>5, <1>6
<1> QED
  BY <1>7 DEF PushBack, s

\* operator[] alone fills places with nulls.
LEMMA AtKeyIs ==
  ASSUME NEW v, NEW k
  PROVE  AtKey(v, k) =
           Object([j \in DOMAIN Members(v) \cup {k} |->
                     IF j \in DOMAIN Members(v) THEN Members(v)[j] ELSE Null])
BY DEF AtKey

LEMMA AtIndexIs ==
  ASSUME NEW v, IsList(Elements(v)), NEW i \in Nat
  PROVE  \E n \in Nat :
           /\ i < n /\ DOMAIN Elements(v) \subseteq 1..n
           /\ AtIndex(v, i) =
                Array([j \in 1..n |->
                         IF j \in DOMAIN Elements(v) THEN Elements(v)[j] ELSE Null])
<1> DEFINE s == Elements(v)
           n == IF i < Len(s) THEN Len(s) ELSE i + 1
<1>1. Len(s) \in Nat /\ DOMAIN s = 1..Len(s)
  BY ListIsMap
<1>2. AtIndex(v, i) = Array([j \in 1..n |-> IF j <= Len(s) THEN s[j] ELSE Null])
  BY DEF AtIndex
<1> HIDE DEF s
<1>3. n \in Nat /\ i < n /\ DOMAIN s \subseteq 1..n
  BY <1>1
<1> HIDE DEF n
<1>4. \A j \in 1..n : j <= Len(s) <=> j \in DOMAIN s
  BY <1>1, <1>3
<1>5. [j \in 1..n |-> IF j <= Len(s) THEN s[j] ELSE Null]
        = [j \in 1..n |-> IF j \in DOMAIN s THEN s[j] ELSE Null]
  BY <1>4
<1> QED
  BY <1>2, <1>3, <1>5 DEF s

-----------------------------------------------------------------------------
(* What the natives make of JSON values are JSON values. *)

\* Reading by key: the value and the member that is read.
LEMMA ReadKey ==
  ASSUME NEW v, IsJson(v), Keyed(v), NEW k
  PROVE  LET w == AtKey(v, k)
             x == w.val[k]
         IN  /\ IsJson(w) /\ Keyed(w) /\ (IsFlat(v) => IsFlat(w))
             /\ IsJson(x)
<1> DEFINE f == Members(v)
           g == [j \in DOMAIN f \cup {k} |-> IF j \in DOMAIN f THEN f[j] ELSE Null]
           w == AtKey(v, k)
           x == w.val[k]
<1>1. w = Object(g) /\ w.val = g /\ w.kind = "object"
  BY AtKeyIs DEF Object
<1>2. IsValue(v) /\ \A j \in DOMAIN f : IsFlat(f[j])
  BY DEF IsJson, Members, IsContainer
<1>3. \A j \in DOMAIN g : IsFlat(g[j])
  BY <1>2, NullIsAtom, AtomIsFlat
<1>4. IsMap(g)
  BY DEF IsMap
<1>5. IsJson(w) /\ Keyed(w)
  BY <1>1, <1>3, <1>4 DEF IsJson, IsValue, Keyed
<1>6. IsFlat(v) => IsFlat(w)
  <2>1. SUFFICES ASSUME IsFlat(v) PROVE \A j \in DOMAIN g : g[j] \in Atoms
    BY <1>1, <1>4 DEF IsFlat, IsValue
  <2>2. \A j \in DOMAIN f : f[j] \in Atoms
    BY <2>1 DEF IsFlat, Members, IsContainer
  <2> QED
    BY <2>2, NullIsAtom
<1>7. x = g[k] /\ IsFlat(x)
  BY <1>1, <1>3
<1> QED
  BY <1>5, <1>6, <1>7, FlatIsJson

\* The same by index.
LEMMA ReadIndex ==
  ASSUME NEW v, IsJson(v), Indexed(v), NEW i \in Nat
  PROVE  LET w == AtIndex(v, i)
             x == w.val[i + 1]
         IN  IsJson(w) /\ Indexed(w) /\ IsJson(x)
<1> DEFINE s == Elements(v)
           w == AtIndex(v, i)
           x == w.val[i + 1]
<1>1. IsList(s) /\ \A j \in DOMAIN s : IsFlat(s[j])
  BY ElementFacts DEF IsJson, Elements, IsContainer
<1>2. PICK n \in Nat : /\ i < n /\ DOMAIN s \subseteq 1..n
                       /\ w = Array([j \in 1..n |-> IF j \in DOMAIN s THEN s[j] ELSE Null])
  BY <1>1, AtIndexIs
<1> DEFINE g == [j \in 1..n |-> IF j \in DOMAIN s THEN s[j] ELSE Null]
<1>3. w = Array(g) /\ w.val = g /\ w.kind = "array"
  BY <1>2 DEF Array
<1>4. \A j \in DOMAIN g : IsFlat(g[j])
  BY <1>1, NullIsAtom, AtomIsFlat
<1>5. IsList(g)
  <2>1. IsMap(g) /\ DOMAIN g = 1..n
    BY DEF IsMap
  <2> HIDE DEF g
  <2> QED
    BY <2>1, MapIsList
<1>6. IsJson(w) /\ Indexed(w)
  BY <1>3, <1>4, <1>5 DEF IsJson, IsValue, Indexed
<1>7. i + 1 \in 1..n
  BY <1>2
<1>8. x = g[i + 1] /\ IsFlat(x)
  BY <1>3, <1>4, <1>7
<1> QED
  BY <1>6, <1>8, FlatIsJson

\* Setting a member.
LEMMA SetMember ==
  ASSUME NEW v, IsJson(v), Keyed(v), NEW k, NEW x, IsFlat(x)
  PROVE  IsJson(SetAt(v, k, x)) /\ Keyed(SetAt(v, k, x))
<1> DEFINE f == Members(v)
           g == [j \in DOMAIN f \cup {k} |-> IF j = k THEN x ELSE f[j]]
           w == SetAt(v, k, x)
<1>1. w = Object(g) /\ w.val = g /\ w.kind = "object"
  BY SetAtIs DEF Object
<1>2. \A j \in DOMAIN f : IsFlat(f[j])
  BY DEF IsJson, Members, IsContainer
<1>3. \A j \in DOMAIN g : IsFlat(g[j])
  BY <1>2
<1>4. IsMap(g)
  BY DEF IsMap
<1> QED
  BY <1>1, <1>3, <1>4 DEF IsJson, IsValue, Keyed

\* Pushing an element.
LEMMA PushElement ==
  ASSUME NEW v, IsJson(v), Indexed(v), NEW x, IsFlat(x)
  PROVE  IsJson(PushBack(v, x)) /\ Indexed(PushBack(v, x))
<1> DEFINE s == Elements(v)
           n == Len(s) + 1
           g == [j \in DOMAIN s \cup {n} |-> IF j = n THEN x ELSE s[j]]
           w == PushBack(v, x)
<1>1. IsList(s) /\ \A j \in DOMAIN s : IsFlat(s[j])
  BY ElementFacts DEF IsJson, Elements, IsContainer
<1>2. Len(s) \in Nat /\ DOMAIN s = 1..Len(s)
  BY <1>1, ListIsMap
<1>3. w = Array(g) /\ w.val = g /\ w.kind = "array"
  <2>1. w = Array(g)
    BY <1>1, PushBackIs
  <2> QED
    BY <2>1 DEF Array
<1>4. \A j \in DOMAIN g : IsFlat(g[j])
  BY <1>1
<1>5. IsMap(g) /\ DOMAIN g = 1..n /\ n \in Nat
  <2> HIDE DEF s
  <2> QED
    BY <1>2 DEF IsMap
<1>6. IsList(g)
  <2> HIDE DEF g
  <2> QED
    BY <1>5, MapIsList
<1> QED
  BY <1>3, <1>4, <1>6 DEF IsJson, IsValue, Indexed

-----------------------------------------------------------------------------
(* The invariant. *)

Faults == {"none", "uncaught", "format", "memory"}

TypeOK ==
  /\ values \in [Handles -> {values[h] : h \in Handles}]
  /\ \A h \in Handles : values[h] = Closed \/ IsJson(values[h])
  /\ fault \in Faults
  /\ uses \in [Handles -> SUBSET {"keyed", "indexed"}]
  /\ made \subseteq Handles

\* A closed handle has no past; one that the constructor made and that was used
\* by key only, or by index only, leads to a value that accepts such a use.
UsedOneWay ==
  \A h \in Handles :
    /\ ~IsOpen(h) => h \notin made /\ uses[h] = {}
    /\ h \in made /\ uses[h] \subseteq {"keyed"} => Keyed(values[h])
    /\ h \in made /\ uses[h] \subseteq {"indexed"} => Indexed(values[h])

JInv == TypeOK /\ UsedOneWay /\ ThrowsOnlyIfMisused

\* The natives act on open handles.
LEMMA AcceptsIfOpen ==
  ASSUME JInv, NEW h \in Handles, Keyed(values[h]) \/ Indexed(values[h])
  PROVE  IsOpen(h) /\ IsJson(values[h])
BY DEF JInv, TypeOK, IsOpen, Keyed, Indexed, Closed

LEMMA OpenIsJson ==
  ASSUME JInv, NEW h \in Handles, IsOpen(h)
  PROVE  IsJson(values[h])
BY DEF JInv, TypeOK, IsOpen

\* A value was used and is now one that accepts this use.
LEMMA UsedStep ==
  ASSUME JInv, NEW h \in Handles, IsOpen(h), NEW w, IsJson(w),
         Change(h, w), fault' \in Faults \ {"uncaught"}, made' = made,
         (Use(h, "keyed") /\ Keyed(w)) \/ (Use(h, "indexed") /\ Indexed(w))
  PROVE  JInv'
<1>1. /\ values'[h] = w
      /\ \A g \in Handles \ {h} : values'[g] = values[g] /\ uses'[g] = uses[g]
      /\ values' \in [Handles -> {values'[g] : g \in Handles}]
  BY DEF JInv, TypeOK, Change, Use
<1>2. uses' \in [Handles -> SUBSET {"keyed", "indexed"}]
  BY DEF JInv, TypeOK, Use
<1>3. \/ uses'[h] = uses[h] \cup {"keyed"} /\ Keyed(w)
      \/ uses'[h] = uses[h] \cup {"indexed"} /\ Indexed(w)
  BY DEF JInv, TypeOK, Use
<1>4. w # Closed
  BY ValueFacts DEF IsJson
<1>5. TypeOK'
  BY <1>1, <1>2 DEF JInv, TypeOK, Faults
<1>6. UsedOneWay'
  BY <1>1, <1>3, <1>4 DEF JInv, UsedOneWay, IsOpen
<1> QED
  BY <1>5, <1>6 DEF JInv, ThrowsOnlyIfMisused

\* The same, and a handle was opened for a copy of a member.
LEMMA CopiedStep ==
  ASSUME JInv, NEW h \in Handles, IsOpen(h), NEW w, IsJson(w),
         NEW g \in Handles, NEW x, IsJson(x),
         OpenWith(g, x, h, w), fault' \in Faults \ {"uncaught"}, made' = made,
         (Use(h, "keyed") /\ Keyed(w)) \/ (Use(h, "indexed") /\ Indexed(w))
  PROVE  JInv'
<1>1. g # h /\ ~IsOpen(g)
  BY DEF OpenWith
<1>2. /\ values'[h] = w
      /\ values'[g] = x
      /\ \A f \in Handles \ {g, h} : values'[f] = values[f]
      /\ values' \in [Handles -> {values'[f] : f \in Handles}]
  BY <1>1 DEF JInv, TypeOK, OpenWith
<1>3. \A f \in Handles \ {h} : uses'[f] = uses[f]
  BY DEF JInv, TypeOK, Use
<1>4. uses' \in [Handles -> SUBSET {"keyed", "indexed"}]
  BY DEF JInv, TypeOK, Use
<1>5. \/ uses'[h] = uses[h] \cup {"keyed"} /\ Keyed(w)
      \/ uses'[h] = uses[h] \cup {"indexed"} /\ Indexed(w)
  BY DEF JInv, TypeOK, Use
<1>6. w # Closed /\ x # Closed
  BY ValueFacts DEF IsJson
<1>7. TypeOK'
  BY <1>2, <1>4 DEF JInv, TypeOK, Faults
<1>8. UsedOneWay'
  BY <1>1, <1>2, <1>3, <1>5, <1>6 DEF JInv, UsedOneWay, IsOpen
<1> QED
  BY <1>7, <1>8 DEF JInv, ThrowsOnlyIfMisused

\* The library throws at a value that was used in the other way, or was given.
LEMMA ThrownStep ==
  ASSUME JInv, NEW h \in Handles, IsOpen(h), fault' \in Faults,
         UNCHANGED <<values, made>>,
         \/ Use(h, "keyed") /\ ~Keyed(values[h])
         \/ Use(h, "indexed") /\ ~Indexed(values[h])
  PROVE  JInv'
<1>1. uses' \in [Handles -> SUBSET {"keyed", "indexed"}]
  BY DEF JInv, TypeOK, Use
<1>2. \A g \in Handles \ {h} : uses'[g] = uses[g]
  BY DEF JInv, TypeOK, Use
<1>3. \/ uses'[h] = uses[h] \cup {"keyed"} /\ ~Keyed(values[h])
      \/ uses'[h] = uses[h] \cup {"indexed"} /\ ~Indexed(values[h])
  BY DEF JInv, TypeOK, Use
<1>4. uses[h] \subseteq {"keyed", "indexed"}
  BY DEF JInv, TypeOK
<1>5. h \in made => uses'[h] = {"keyed", "indexed"}
  BY <1>3, <1>4 DEF JInv, UsedOneWay
<1>6. TypeOK'
  BY <1>1 DEF JInv, TypeOK, Faults
<1>7. UsedOneWay'
  BY <1>2, <1>5 DEF JInv, UsedOneWay, IsOpen
<1>8. Cardinality({"keyed", "indexed"}) = 2
  <2>1. "indexed" \notin {"keyed"} /\ {"keyed", "indexed"} = {"keyed"} \cup {"indexed"}
    OBVIOUS
  <2>2. IsFiniteSet({"keyed"}) /\ Cardinality({"keyed"}) = 1
    BY FS_Singleton
  <2>3. Cardinality({"keyed"} \cup {"indexed"}) = 1 + 1
    BY <2>1, <2>2, FS_AddElement
  <2> QED
    BY <2>1, <2>3
<1>9. ThrowsOnlyIfMisused'
  BY <1>5, <1>8 DEF ThrowsOnlyIfMisused, IsOpen
<1> QED
  BY <1>6, <1>7, <1>9 DEF JInv

-----------------------------------------------------------------------------
(* Every native. *)

LEMMA SetScalarStep ==
  ASSUME JInv, fault = "none",
         NEW h \in Handles, NEW k \in Keys, NEW t \in Types, SetScalar(h, k, t)
  PROVE  JInv'
<1> DEFINE x == Scalar(t, GivenValue)
<1>1. IsOpen(h) /\ IsJson(values[h]) /\ Keyed(values[h])
  BY AcceptsIfOpen DEF SetScalar
<1>2. IsFlat(x)
  BY ScalarIsAtom, AtomIsFlat
<1> HIDE DEF x
<1>3. Change(h, SetAt(values[h], k, x)) /\ Use(h, "keyed") /\ fault' = fault /\ made' = made
  BY DEF SetScalar, x
<1>4. IsJson(SetAt(values[h], k, x)) /\ Keyed(SetAt(values[h], k, x))
  BY <1>1, <1>2, SetMember
<1> QED
  BY <1>1, <1>3, <1>4, UsedStep DEF Faults

\* The value of an open handle, as SetJSON and PushJSON take it.
LEMMA GivenHandle ==
  ASSUME JInv, NEW g \in Handles, IsOpen(g), Flat(values[g])
  PROVE  IsFlat(values[g])
BY OpenIsJson, FlatGuard

LEMMA SetJSONStep ==
  ASSUME JInv, fault = "none",
         NEW h \in Handles, NEW k \in Keys, NEW g \in Handles, NEW early \in BOOLEAN,
         SetJSON(h, k, g, early)
  PROVE  JInv'
<1>1. IsOpen(h) /\ IsJson(values[h]) /\ Keyed(values[h])
  BY AcceptsIfOpen DEF SetJSON
<1>2. Use(h, "keyed") /\ fault' = fault /\ made' = made
  BY DEF SetJSON
<1>3. PICK x : IsFlat(x) /\ Change(h, SetAt(values[h], k, x))
  <2>1. IsFlat(values[g])
    BY GivenHandle DEF SetJSON
  <2>2. h = g => IsFlat(AtKey(values[h], k))
    BY <1>1, <2>1, ReadKey
  <2> QED
    BY <2>1, <2>2 DEF SetJSON
<1>4. IsJson(SetAt(values[h], k, x)) /\ Keyed(SetAt(values[h], k, x))
  BY <1>1, <1>3, SetMember
<1> QED
  BY <1>1, <1>2, <1>3, <1>4, UsedStep DEF Faults

LEMMA GetScalarStep ==
  ASSUME JInv, fault = "none", NEW h \in Handles, NEW k \in Keys,
         GetScalar(h, k) \/ GetNoString(h, k)
  PROVE  JInv'
<1>1. /\ Keyed(values[h]) /\ Change(h, AtKey(values[h], k))
      /\ Use(h, "keyed") /\ fault' \in Faults \ {"uncaught"} /\ made' = made
  BY DEF GetScalar, GetNoString, Faults
<1>2. IsOpen(h) /\ IsJson(values[h])
  BY <1>1, AcceptsIfOpen
<1>3. IsJson(AtKey(values[h], k)) /\ Keyed(AtKey(values[h], k))
  BY <1>1, <1>2, ReadKey
<1> QED
  BY <1>1, <1>2, <1>3, UsedStep

LEMMA GetJSONStep ==
  ASSUME JInv, fault = "none",
         NEW h \in Handles, NEW k \in Keys, NEW g \in Handles, GetJSON(h, k, g)
  PROVE  JInv'
<1>1. /\ Keyed(values[h]) /\ OpenWith(g, AtKey(values[h], k).val[k], h, AtKey(values[h], k))
      /\ Use(h, "keyed") /\ fault' = fault /\ made' = made
  BY DEF GetJSON
<1>2. IsOpen(h) /\ IsJson(values[h])
  BY <1>1, AcceptsIfOpen
<1>3. PICK w, x : OpenWith(g, x, h, w) /\ IsJson(w) /\ Keyed(w) /\ IsJson(x)
  BY <1>1, <1>2, ReadKey
<1> QED
  BY <1>1, <1>2, <1>3, CopiedStep DEF Faults

LEMMA PushStep ==
  ASSUME JInv, fault = "none", NEW h \in Handles, NEW x, IsFlat(x), Push(h, x)
  PROVE  JInv'
<1>1. /\ Indexed(values[h]) /\ Change(h, PushBack(values[h], x))
      /\ Use(h, "indexed") /\ fault' = fault /\ made' = made
  BY DEF Push
<1>2. IsOpen(h) /\ IsJson(values[h])
  BY <1>1, AcceptsIfOpen
<1>3. IsJson(PushBack(values[h], x)) /\ Indexed(PushBack(values[h], x))
  BY <1>1, <1>2, PushElement
<1> QED
  BY <1>1, <1>2, <1>3, UsedStep DEF Faults

LEMMA PushScalarStep ==
  ASSUME JInv, fault = "none", NEW h \in Handles, NEW t \in Types, PushScalar(h, t)
  PROVE  JInv'
<1>1. PICK x \in {GivenValue, HandleNumber} : Push(h, Scalar(t, x))
  BY DEF PushScalar
<1>2. IsFlat(Scalar(t, x))
  BY ScalarIsAtom, AtomIsFlat
<1> QED
  BY <1>1, <1>2, PushStep

\* A flat value that is made ready for a push onto itself.
LEMMA ReadyIsFlat ==
  ASSUME NEW v, IsFlat(v), Indexed(v)
  PROVE  IsFlat(Array(Elements(v)))
<1>1. CASE v = Array(Elements(v))
  BY <1>1
<1>2. CASE Elements(v) = <<>>
  <2>1. IsList(<<>>) /\ DOMAIN <<>> = {}
    BY DEF IsList
  <2> QED
    BY <1>2, <2>1 DEF IsFlat, IsValue, Array
<1> QED
  BY <1>1, <1>2, ElementFacts DEF IsFlat

LEMMA PushJSONStep ==
  ASSUME JInv, fault = "none",
         NEW h \in Handles, NEW g \in Handles,
         PushJSON(h, g)
  PROVE  JInv'
<1>1. IsFlat(values[g])
  BY GivenHandle DEF PushJSON
<1>2. Indexed(values[h])
  BY DEF PushJSON, Push
<1>3. PICK x : IsFlat(x) /\ Push(h, x)
  BY <1>1, <1>2, ReadyIsFlat DEF PushJSON
<1> QED
  BY <1>3, PushStep

LEMMA GetArrayScalarStep ==
  ASSUME JInv, fault = "none", NEW h \in Handles, NEW i \in Nat, GetArrayScalar(h, i)
  PROVE  JInv'
<1>1. /\ Indexed(values[h]) /\ Change(h, AtIndex(values[h], i))
      /\ Use(h, "indexed") /\ fault' = fault /\ made' = made
  BY DEF GetArrayScalar
<1>2. IsOpen(h) /\ IsJson(values[h])
  BY <1>1, AcceptsIfOpen
<1>3. IsJson(AtIndex(values[h], i)) /\ Indexed(AtIndex(values[h], i))
  BY <1>1, <1>2, ReadIndex
<1> QED
  BY <1>1, <1>2, <1>3, UsedStep DEF Faults

LEMMA GetArrayJSONStep ==
  ASSUME JInv, fault = "none",
         NEW h \in Handles, NEW i \in Nat, NEW g \in Handles, GetArrayJSON(h, i, g)
  PROVE  JInv'
<1>1. /\ Indexed(values[h])
      /\ OpenWith(g, AtIndex(values[h], i).val[i + 1], h, AtIndex(values[h], i))
      /\ Use(h, "indexed") /\ fault' = fault /\ made' = made
  BY DEF GetArrayJSON
<1>2. IsOpen(h) /\ IsJson(values[h])
  BY <1>1, AcceptsIfOpen
<1>3. PICK w, x : OpenWith(g, x, h, w) /\ IsJson(w) /\ Indexed(w) /\ IsJson(x)
  BY <1>1, <1>2, ReadIndex
<1> QED
  BY <1>1, <1>2, <1>3, CopiedStep DEF Faults

LEMMA NegativeIndexStep ==
  ASSUME JInv, fault = "none", NEW h \in Handles, NegativeIndex(h)
  PROVE  JInv'
<1>1. IsOpen(h) /\ IsJson(values[h]) /\ Indexed(values[h])
  BY AcceptsIfOpen DEF NegativeIndex
<1>2. Change(h, values[h])
  BY DEF NegativeIndex, Change, JInv, TypeOK
<1> QED
  BY <1>1, <1>2, UsedStep DEF NegativeIndex, Faults

LEMMA ThrowStep ==
  ASSUME JInv, fault = "none", NEW h \in Handles, NoKeys(h) \/ NoArray(h)
  PROVE  JInv'
BY ThrownStep DEF NoKeys, NoArray, Faults

\* A handle is opened for a value of its own.
LEMMA OpenedStep ==
  ASSUME JInv, fault = "none", NEW g \in Handles,
         CreateJSON(g) \/ \E v \in Arriving : Arrives(g, v)
  PROVE  JInv'
<1>1. PICK x \in Arriving \cup {Null} :
        /\ OpenWith(g, x, g, x)
        /\ made' = made \/ (made' = made \cup {g} /\ x = Null)
        /\ UNCHANGED <<fault, uses>>
  BY DEF CreateJSON, Arrives
<1>2. IsJson(x)
  BY ArrivingJson, NullIsAtom, AtomIsFlat, FlatIsJson
<1>3. x # Closed
  BY <1>2, ValueFacts DEF IsJson
<1>4. /\ values'[g] = x /\ ~IsOpen(g)
      /\ \A f \in Handles \ {g} : values'[f] = values[f]
      /\ values' \in [Handles -> {values'[f] : f \in Handles}]
  BY <1>1 DEF OpenWith, JInv, TypeOK
<1>5. TypeOK'
  BY <1>1, <1>2, <1>4 DEF JInv, TypeOK
<1>6. Keyed(Null) /\ Indexed(Null)
  BY DEF Keyed, Indexed, Null
<1>7. UsedOneWay'
  BY <1>1, <1>3, <1>4, <1>6 DEF JInv, UsedOneWay, IsOpen
<1>8. ThrowsOnlyIfMisused'
  BY <1>1 DEF ThrowsOnlyIfMisused
<1> QED
  BY <1>5, <1>7, <1>8 DEF JInv

LEMMA CloseHandleStep ==
  ASSUME JInv, fault = "none", NEW h \in Handles, CloseHandle(h)
  PROVE  JInv'
<1>1. /\ values'[h] = Closed /\ uses'[h] = {} /\ made' = made \ {h} /\ fault' = fault
      /\ \A f \in Handles \ {h} : values'[f] = values[f] /\ uses'[f] = uses[f]
      /\ values' \in [Handles -> {values'[f] : f \in Handles}]
      /\ uses' \in [Handles -> SUBSET {"keyed", "indexed"}]
  BY DEF CloseHandle, Change, JInv, TypeOK
<1>2. TypeOK'
  BY <1>1 DEF JInv, TypeOK
<1>3. UsedOneWay'
  BY <1>1 DEF JInv, UsedOneWay, IsOpen
<1>4. ThrowsOnlyIfMisused'
  BY <1>1 DEF ThrowsOnlyIfMisused
<1> QED
  BY <1>2, <1>3, <1>4 DEF JInv

LEMMA JsonStep ==
  ASSUME JInv, [Next]_vars
  PROVE  JInv'
<1>1. CASE UNCHANGED vars
  BY <1>1 DEF vars, JInv, TypeOK, UsedOneWay, ThrowsOnlyIfMisused, IsOpen
<1>2. ASSUME fault = "none", NEW h \in Handles, NEW k \in Keys, KeyNative(h, k)
      PROVE  JInv'
  BY <1>2, SetScalarStep, SetJSONStep, GetScalarStep, GetJSONStep DEF KeyNative
<1>3. ASSUME fault = "none", NEW h \in Handles, ArrayNative(h)
      PROVE  JInv'
  <2>1. 0..(MaxLen - 1) \subseteq Nat
    BY JsonConstants
  <2> QED
    BY <1>3, <2>1, PushScalarStep, PushJSONStep, GetArrayScalarStep, GetArrayJSONStep,
       NegativeIndexStep DEF ArrayNative
<1>4. CASE Next
  BY <1>2, <1>3, <1>4, OpenedStep, CloseHandleStep, ThrowStep DEF Next
<1> QED
  BY <1>1, <1>4

-----------------------------------------------------------------------------
(* The theorems. *)

LEMMA JsonInit == Init => JInv
<1> SUFFICES ASSUME Init PROVE JInv
  OBVIOUS
<1>1. \A h \in Handles : values[h] = Closed /\ uses[h] = {} /\ h \notin made
  BY DEF Init
<1>2. TypeOK
  BY <1>1 DEF Init, TypeOK, Faults
<1>3. UsedOneWay
  BY <1>1 DEF Init, UsedOneWay, IsOpen
<1>4. ThrowsOnlyIfMisused
  BY DEF Init, ThrowsOnlyIfMisused
<1> QED
  BY <1>2, <1>3, <1>4 DEF JInv

\* The natives: every handle leads to a JSON value, and one of the constructor's that
\* was used in one way to a value that accepts such a use.
THEOREM JsonInvariant == Spec => []JInv
<1>1. Init => JInv
  BY JsonInit
<1>2. JInv /\ [Next]_vars => JInv'
  BY JsonStep
<1> QED
  BY <1>1, <1>2, PTL DEF Spec

\* What the constructor makes and a plugin uses by key only, or by index only, never
\* throws at it.
THEOREM ThrowsOnlyIfMisusedAlways == Spec => []ThrowsOnlyIfMisused
<1>1. JInv => ThrowsOnlyIfMisused
  BY DEF JInv
<1> QED
  BY <1>1, JsonInvariant, PTL
=============================================================================
