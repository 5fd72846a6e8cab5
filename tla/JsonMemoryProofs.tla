-------------------------- MODULE JsonMemoryProofs --------------------------
(***************************************************************************)
(* Proofs about JsonMemory: for every allocator, however many cells, and   *)
(* for all handles, keys, types and arriving values, the heap holds the    *)
(* values of JsonValues and every cell in use is owned once.               *)
(*                                                                         *)
(* The argument.  An object with its value lies in a heap (Lies) when the  *)
(* parts of the value that need a cell have one each, which holds what the *)
(* constructors put there.  A heap is Sound for some objects when all of   *)
(* them lie in it, no two share a cell and nobody else has one.  Replace   *)
(* is the one lemma about change: an object may take the place of others   *)
(* if it lies in the cells they leave and in fresh ones.  Of the library's *)
(* operations, Create and Copy make an object in fresh cells (Makes),      *)
(* Destroyed leaves nothing, nulls are filled into a container (FillLies)  *)
(* and one object is put into another (PutLies).                           *)
(*                                                                         *)
(* Holds forgets where the cells are: a heap holds a World, the objects    *)
(* with the values they should have.  A native is a few changes of a World *)
(* that a local variable of the C++ enters and leaves, and each leads to   *)
(* the World of the next state (HeapKept).  Both invariants then follow    *)
(* from the inductive one, MInv.                                           *)
(*                                                                         *)
(* With the values in the heap (StoreHeld), each native is then looked at  *)
(* once more, by the values alone: it does what JsonStore allows, or is    *)
(* one of the three exceptions of KeepsPromise.                            *)
(***************************************************************************)
EXTENDS JsonMemory, JsonValuesProofs

-----------------------------------------------------------------------------
(* Parts of a value. *)

\* What a handle leads to: a value, or nothing when it is closed.
IsTree(v) == v = Closed \/ IsJson(v)

\* A path says where it ends and what it goes through.
LEMMA PathsDiffer ==
  ASSUME NEW p, NEW k, NEW q, NEW j
  PROVE  /\ <<p, k>> # Top
         /\ <<p, k>> = <<q, j>> => p = q /\ k = j
BY DEF Top

\* The part at each of the three lengths of path.
LEMMA PartIs ==
  ASSUME NEW v
  PROVE  /\ Part(v, Top) = v
         /\ \A k : Part(v, <<Top, k>>) = v.val[k]
         /\ \A k, j : Part(v, <<<<Top, k>>, j>>) = v.val[k].val[j]
BY DEF Part, Top

\* The paths in a value.
LEMMA PartsAre ==
  ASSUME NEW v, NEW p
  PROVE  p \in Parts(v) <=>
           \/ p = Top
           \/ \E k \in Places(v) :
                p = <<Top, k>> \/ \E j \in Places(v.val[k]) : p = <<<<Top, k>>, j>>
BY DEF Parts

\* Nesting ends after two steps.
LEMMA TreeDepth ==
  ASSUME NEW v, IsTree(v)
  PROVE  \A k \in Places(v) :
           IsFlat(v.val[k]) /\ \A j \in Places(v.val[k]) : v.val[k].val[j] \in Atoms
BY DEF IsTree, IsJson, IsFlat, Places, IsContainer, Closed

\* A scalar has no members.
LEMMA AtomPlaces == ASSUME NEW v \in Atoms PROVE Places(v) = {}
BY AtomFacts DEF Places, IsContainer

\* One step down from a part is a part.
LEMMA ChildPart ==
  ASSUME NEW v, IsTree(v), NEW p \in Parts(v), NEW k \in Places(Part(v, p))
  PROVE  /\ <<p, k>> \in Parts(v)
         /\ Part(v, <<p, k>>) = Part(v, p).val[k]
<1>1. CASE p = Top
  <2>1. Part(v, p) = v /\ Part(v, <<p, k>>) = v.val[k]
    BY <1>1, PartIs
  <2> QED
    BY <1>1, <2>1, PartsAre
<1>2. ASSUME NEW i \in Places(v), p = <<Top, i>>
      PROVE  <<p, k>> \in Parts(v) /\ Part(v, <<p, k>>) = Part(v, p).val[k]
  <2>1. Part(v, p) = v.val[i] /\ Part(v, <<p, k>>) = v.val[i].val[k]
    BY <1>2, PartIs
  <2> QED
    BY <1>2, <2>1, PartsAre
<1>3. ASSUME NEW i \in Places(v), NEW j \in Places(v.val[i]), p = <<<<Top, i>>, j>>
      PROVE  FALSE
  BY <1>3, PartIs, TreeDepth, AtomPlaces
<1> QED
  BY <1>1, <1>2, <1>3, PartsAre

\* Every part but the value itself is one step down from another.
LEMMA PartOfChild ==
  ASSUME NEW v, NEW p \in Parts(v), p # Top
  PROVE  \E q \in Parts(v) : \E k \in Places(Part(v, q)) : p = <<q, k>>
<1>1. ASSUME NEW i \in Places(v), p = <<Top, i>>
      PROVE  \E q \in Parts(v) : \E k \in Places(Part(v, q)) : p = <<q, k>>
  BY <1>1, PartIs, PartsAre
<1>2. ASSUME NEW i \in Places(v), NEW j \in Places(v.val[i]), p = <<<<Top, i>>, j>>
      PROVE  \E q \in Parts(v) : \E k \in Places(Part(v, q)) : p = <<q, k>>
  <2>1. <<Top, i>> \in Parts(v) /\ Part(v, <<Top, i>>) = v.val[i]
    BY PartIs, PartsAre
  <2> QED
    BY <1>2, <2>1
<1> QED
  BY <1>1, <1>2, PartsAre

\* The path in a value of a part of its member at k.
Below(k, p) == IF p = Top THEN <<Top, k>> ELSE <<<<Top, k>>, p[2]>>

\* Below at its two lengths of path.
LEMMA BelowIs ==
  ASSUME NEW k
  PROVE  /\ Below(k, Top) = <<Top, k>>
         /\ \A j : Below(k, <<Top, j>>) = <<<<Top, k>>, j>>
BY PathsDiffer DEF Below

\* A member's parts are parts of the value.
LEMMA MemberParts ==
  ASSUME NEW v, IsTree(v), NEW k \in Places(v), NEW p \in Parts(v.val[k])
  PROVE  /\ Below(k, p) \in Parts(v)
         /\ Part(v, Below(k, p)) = Part(v.val[k], p)
         /\ p = Top \/ \E j \in Places(v.val[k]) : p = <<Top, j>>
<1>1. \A j \in Places(v.val[k]) : Places(v.val[k].val[j]) = {}
  BY TreeDepth, AtomPlaces
<1>2. p = Top \/ \E j \in Places(v.val[k]) : p = <<Top, j>>
  BY <1>1, PartsAre
<1>3. CASE p = Top
  <2>1. Below(k, p) = <<Top, k>> /\ Part(v.val[k], p) = v.val[k] /\ Part(v, <<Top, k>>) = v.val[k]
    BY <1>3, BelowIs, PartIs
  <2>2. <<Top, k>> \in Parts(v)
    BY PartsAre
  <2> QED
    BY <1>2, <2>1, <2>2
<1>4. ASSUME NEW j \in Places(v.val[k]), p = <<Top, j>>
      PROVE  Below(k, p) \in Parts(v) /\ Part(v, Below(k, p)) = Part(v.val[k], p)
  <2>1. Below(k, p) = <<<<Top, k>>, j>>
    BY <1>4, BelowIs
  <2>2. Part(v.val[k], p) = v.val[k].val[j] /\ Part(v, <<<<Top, k>>, j>>) = v.val[k].val[j]
    BY <1>4, PartIs
  <2>3. <<<<Top, k>>, j>> \in Parts(v)
    BY <1>4, PartsAre
  <2> QED
    BY <2>1, <2>2, <2>3
<1> QED
  BY <1>2, <1>3, <1>4

\* A part is the value or a part of one of its members.
LEMMA PartsOfMembers ==
  ASSUME NEW v, NEW p \in Parts(v), p # Top
  PROVE  \E k \in Places(v) : \E q \in Parts(v.val[k]) : p = Below(k, q)
<1>1. PICK k \in Places(v) :
        p = <<Top, k>> \/ \E j \in Places(v.val[k]) : p = <<<<Top, k>>, j>>
  BY PartsAre
<1>2. Top \in Parts(v.val[k]) /\ \A j \in Places(v.val[k]) : <<Top, j>> \in Parts(v.val[k])
  BY PartsAre
<1> QED
  BY <1>1, <1>2, BelowIs

-----------------------------------------------------------------------------
(* Objects and the cells they take up. *)

\* An object that stands for a value, with the cells of its parts.
Thing(s, v, r) == [obj |-> s, val |-> v, at |-> r]

\* The cells that a thing takes up.
Taken(o) == {o.at[p] : p \in Stored(o.val)}

\* An object lies in a heap: it is what the constructors make of its value, with
\* its cells where at says, no two of them the same.
Lies(m, o) ==
  /\ IsTree(o.val)
  /\ o.obj = ObjectOf(o.val, Top, o.at)
  /\ Injects(o.at, Stored(o.val), Addresses)
  /\ \A p \in Stored(o.val) : m[o.at[p]] = CellOf(o.val, p, o.at)

\* Which parts need a cell.
LEMMA StoredIs ==
  ASSUME NEW v, NEW p \in Parts(v)
  PROVE  p \in Stored(v) <=> Part(v, p).kind \in Pointed
BY DEF Stored

\* Parts of a value are values again, and a part with members needs a cell.
LEMMA TreeKinds ==
  ASSUME NEW v, IsTree(v), NEW p \in Parts(v)
  PROVE  /\ IsTree(Part(v, p))
         /\ Part(v, p).kind \in {"object", "array"} \/ Part(v, p) = [kind |-> Part(v, p).kind, val |-> Part(v, p).val]
         /\ Places(Part(v, p)) # {} => p \in Stored(v)
         /\ p \in Stored(v) <=> Part(v, p).kind \in Pointed
<1>1. IsTree(Part(v, p))
  <2>1. CASE p = Top
    BY <2>1, PartIs
  <2>2. ASSUME NEW k \in Places(v), p = <<Top, k>> PROVE IsTree(Part(v, p))
    BY <2>2, PartIs, TreeDepth, FlatIsJson DEF IsTree
  <2>3. ASSUME NEW k \in Places(v), NEW j \in Places(v.val[k]), p = <<<<Top, k>>, j>>
        PROVE  IsTree(Part(v, p))
    <3>1. Part(v, p) = v.val[k].val[j] /\ v.val[k].val[j] \in Atoms
      BY <2>3, PartIs, TreeDepth
    <3> QED
      BY <3>1, AtomIsFlat, FlatIsJson DEF IsTree
  <2> QED
    BY <2>1, <2>2, <2>3, PartsAre
<1>2. p \in Stored(v) <=> Part(v, p).kind \in Pointed
  BY DEF Stored
<1>3. Places(Part(v, p)) # {} => Part(v, p).kind \in Pointed
  BY DEF Places, Pointed
<1>4. Part(v, p).kind \in {"object", "array"} \/ Part(v, p) = [kind |-> Part(v, p).kind, val |-> Part(v, p).val]
  BY <1>1, ValueFacts DEF IsTree, IsJson, Closed, IsContainer, Atoms, Null
<1> QED
  BY <1>1, <1>2, <1>3, <1>4

\* What the object of a part is.
LEMMA ObjectIs ==
  ASSUME NEW v, NEW p, NEW r
  PROVE  LET s == ObjectOf(v, p, r)
             w == Part(v, p)
         IN  /\ s = Json(s.type, s.word)
             /\ s.type = w.kind
             /\ s.word = IF w.kind \in Pointed THEN r[p] ELSE w.val
             /\ Own(s) = IF w.kind \in Pointed THEN {r[p]} ELSE {}
BY DEF ObjectOf, Json, Own

\* What the constructors put in a cell.
LEMMA CellIs ==
  ASSUME NEW v, NEW p, NEW r
  PROVE  LET c == CellOf(v, p, r)
             w == Part(v, p)
         IN  /\ c.kind = w.kind
             /\ Places(c) = Places(w)
             /\ \A k \in Places(w) : c.val[k] = ObjectOf(v, <<p, k>>, r)
             /\ w.kind \in Pointed => c # Unused
BY DEF CellOf, Cell, Places, IsContainer, Pointed, Unused

-----------------------------------------------------------------------------
(* The cells of an object are those of the parts of its value. *)

\* The cells of some parts, and those parts with their members.
CellsOf(o, P) == {o.at[p] : p \in P}

Grown(v, P) ==
  P \cup {q \in Stored(v) : \E p \in P : \E k \in Places(Part(v, p)) : q = <<p, k>>}

\* One step through the pointers leads to the members of the parts it starts from.
LEMMA UnderIs ==
  ASSUME NEW m, NEW o, Lies(m, o), NEW P \in SUBSET Stored(o.val)
  PROVE  Under(m, CellsOf(o, P)) = CellsOf(o, Grown(o.val, P))
<1> DEFINE v == o.val
           r == o.at
           A == CellsOf(o, P)
           B == CellsOf(o, Grown(v, P))
<1>1. ASSUME NEW p \in P, NEW k \in Places(Part(v, p))
      PROVE  /\ <<p, k>> \in Parts(v)
             /\ Own(m[r[p]].val[k]) = IF <<p, k>> \in Stored(v) THEN {r[<<p, k>>]} ELSE {}
  <2>1. m[r[p]] = CellOf(v, p, r) /\ p \in Parts(v) /\ IsTree(v)
    BY DEF Lies, Stored
  <2>2. <<p, k>> \in Parts(v)
    BY <2>1, ChildPart
  <2>3. m[r[p]].val[k] = ObjectOf(v, <<p, k>>, r)
    BY <2>1, CellIs
  <2>4. <<p, k>> \in Stored(v) <=> Part(v, <<p, k>>).kind \in Pointed
    BY <2>2, StoredIs
  <2>5. Own(ObjectOf(v, <<p, k>>, r))
          = IF Part(v, <<p, k>>).kind \in Pointed THEN {r[<<p, k>>]} ELSE {}
    BY ObjectIs
  <2> QED
    BY <2>2, <2>3, <2>4, <2>5
<1>2. \A p \in P : Places(m[r[p]]) = Places(Part(v, p))
  BY CellIs DEF Lies
<1>3. ASSUME NEW a \in Under(m, A) PROVE a \in B
  <2>1. CASE a \in A
    BY <2>1 DEF Grown, CellsOf
  <2>2. CASE a \notin A
    <3>1. PICK p \in P : \E k \in Places(m[r[p]]) : a \in Own(m[r[p]].val[k])
      BY <2>2 DEF Under, CellsOf
    <3>2. PICK k \in Places(Part(v, p)) : a \in Own(m[r[p]].val[k])
      BY <1>2, <3>1
    <3>3. <<p, k>> \in Stored(v) /\ a = r[<<p, k>>]
      BY <1>1, <3>2
    <3> QED
      BY <3>3 DEF Grown, CellsOf
  <2> QED
    BY <2>1, <2>2
<1>4. ASSUME NEW a \in B PROVE a \in Under(m, A)
  <2>1. PICK q \in Grown(v, P) : a = r[q]
    BY DEF CellsOf
  <2>2. CASE q \in P
    BY <2>1, <2>2 DEF Under, CellsOf
  <2>3. ASSUME NEW p \in P, NEW k \in Places(Part(v, p)), q \in Stored(v), q = <<p, k>>
        PROVE  a \in Under(m, A)
    <3>1. a \in Own(m[r[p]].val[k])
      BY <2>1, <2>3, <1>1
    <3>2. k \in Places(m[r[p]])
      BY <1>2, <2>3
    <3> QED
      BY <3>1, <3>2 DEF Under, CellsOf
  <2> QED
    BY <2>2, <2>3 DEF Grown, CellsOf
<1> QED
  BY <1>3, <1>4

\* The cells that an object owns are those it takes up.
LEMMA CellsAre ==
  ASSUME NEW m, NEW o, Lies(m, o)
  PROVE  Cells(m, o.obj) = Taken(o)
<1> DEFINE v == o.val
           P0 == Stored(v) \cap {Top}
           P1 == Grown(v, P0)
           P2 == Grown(v, P1)
<1>1. IsTree(v) /\ o.obj = ObjectOf(v, Top, o.at)
  BY DEF Lies
<1>2. Own(o.obj) = CellsOf(o, P0)
  <2>1. Top \in Stored(v) <=> Part(v, Top).kind \in Pointed
    BY PartsAre DEF Stored
  <2>2. Own(o.obj) = IF Part(v, Top).kind \in Pointed THEN {o.at[Top]} ELSE {}
    <3> HIDE DEF v
    <3>1. Own(ObjectOf(v, Top, o.at)) =
            IF Part(v, Top).kind \in Pointed THEN {o.at[Top]} ELSE {}
      BY ObjectIs
    <3> QED
      BY <1>1, <3>1
  <2> QED
    BY <2>1, <2>2 DEF CellsOf
<1>3. P0 \in SUBSET Stored(v) /\ P1 \in SUBSET Stored(v)
  BY DEF Grown
<1>4. P2 = Stored(v)
  <2>1. ASSUME NEW k \in Places(v)
        PROVE  /\ Top \in P0
               /\ <<Top, k>> \in Stored(v) => <<Top, k>> \in P1
    <3>1. Top \in Parts(v) /\ Part(v, Top) = v
      BY PartIs, PartsAre
    <3>2. Top \in Stored(v)
      <4>1. Places(v) # {}
        OBVIOUS
      <4> HIDE DEF v
      <4> QED
        BY <1>1, <3>1, <4>1, TreeKinds
    <3> QED
      BY <3>1, <3>2 DEF Grown
  <2>2. ASSUME NEW k \in Places(v), NEW j \in Places(v.val[k])
        PROVE  <<<<Top, k>>, j>> \in Stored(v) => <<<<Top, k>>, j>> \in P2
    <3>1. <<Top, k>> \in Parts(v) /\ Part(v, <<Top, k>>) = v.val[k]
      BY PartIs, PartsAre
    <3>2. <<Top, k>> \in Stored(v)
      BY <1>1, <3>1, TreeKinds
    <3> QED
      BY <2>1, <3>1, <3>2 DEF Grown
  <2>3. ASSUME NEW p \in Stored(v) PROVE p \in P2
    <3>1. p \in Parts(v)
      BY DEF Stored
    <3>2. CASE p = Top
      BY <3>2 DEF Grown
    <3> QED
      BY <2>1, <2>2, <3>1, <3>2, PartsAre DEF Grown
  <2> QED
    BY <1>3, <2>3 DEF Grown
<1>5. P1 = Grown(o.val, P0) /\ P2 = Grown(o.val, P1)
  OBVIOUS
<1> HIDE DEF P0, P1, P2
<1>6. Under(m, Own(o.obj)) = CellsOf(o, P1)
  BY <1>2, <1>3, <1>5, UnderIs
<1>7. Under(m, Under(m, Own(o.obj))) = CellsOf(o, P2)
  BY <1>3, <1>5, <1>6, UnderIs
<1> QED
  BY <1>4, <1>7 DEF Cells, Taken, CellsOf

-----------------------------------------------------------------------------
(* A heap with several objects. *)

\* A heap is a function on the addresses.
IsHeap(m) == m = [a \in Addresses |-> m[a]]

\* The objects O of a heap lie apart, and take up all of it that is in use.
Sound(m, O) ==
  /\ IsHeap(m)
  /\ \A i \in DOMAIN O : Lies(m, O[i])
  /\ \A i, j \in DOMAIN O : i # j => Taken(O[i]) \cap Taken(O[j]) = {}
  /\ \A a \in Addresses : m[a] # Unused => \E i \in DOMAIN O : a \in Taken(O[i])

\* A cell that is taken is an address in use.
LEMMA InUse ==
  ASSUME NEW m, NEW o, Lies(m, o), NEW a \in Taken(o)
  PROVE  a \in Addresses /\ m[a] # Unused
<1>1. PICK p \in Stored(o.val) : a = o.at[p]
  BY DEF Taken
<1>2. m[a] = CellOf(o.val, p, o.at) /\ a \in Addresses
  BY <1>1 DEF Lies, Injects
<1>3. Part(o.val, p).kind \in Pointed
  BY DEF Stored
<1> QED
  BY <1>2, <1>3, CellIs

\* An object stays as it is while its cells do.
LEMMA Frame ==
  ASSUME NEW m, NEW o, Lies(m, o), NEW w, \A a \in Taken(o) : w[a] = m[a]
  PROVE  Lies(w, o)
BY DEF Lies, Taken

\* The objects K are used up for object o, which is called n.
Replaced(O, K, n, o) ==
  [i \in (DOMAIN O \ K) \cup {n} |-> IF i = n THEN o ELSE O[i]]

\* Objects stay sound when some of them make room for one that lies in the cells
\* they leave or in cells that nobody used.
LEMMA Replace ==
  ASSUME NEW m, NEW O, Sound(m, O),
         NEW K \in SUBSET DOMAIN O, NEW n, n \notin DOMAIN O \ K,
         NEW w, IsHeap(w), NEW o, Lies(w, o),
         \A a \in Taken(o) : m[a] = Unused \/ \E i \in K : a \in Taken(O[i]),
         \A a \in Addresses \ Taken(o) :
           w[a] = IF \E i \in K : a \in Taken(O[i]) THEN Unused ELSE m[a]
  PROVE  Sound(w, Replaced(O, K, n, o))
<1> DEFINE N == Replaced(O, K, n, o)
           J == DOMAIN O \ K
<1>1. DOMAIN N = J \cup {n} /\ N[n] = o /\ \A i \in J : N[i] = O[i]
  BY DEF Replaced
<1> HIDE DEF N
<1>2. ASSUME NEW i \in J, NEW a \in Taken(O[i])
      PROVE  a \in Addresses /\ a \notin Taken(o) /\ w[a] = m[a]
  <2>1. a \in Addresses /\ m[a] # Unused
    BY InUse DEF Sound
  <2>2. \A j \in K : a \notin Taken(O[j])
    BY DEF Sound
  <2> QED
    BY <2>1, <2>2
<1>3. \A i \in DOMAIN N : Lies(w, N[i])
  BY <1>1, <1>2, Frame DEF Sound
<1>4. \A i, j \in DOMAIN N : i # j => Taken(N[i]) \cap Taken(N[j]) = {}
  <2>1. \A i, j \in J : i # j => Taken(O[i]) \cap Taken(O[j]) = {}
    BY DEF Sound
  <2>2. \A i \in J : Taken(O[i]) \cap Taken(o) = {}
    BY <1>2
  <2> QED
    BY <1>1, <2>1, <2>2
<1>5. ASSUME NEW a \in Addresses, w[a] # Unused PROVE \E i \in DOMAIN N : a \in Taken(N[i])
  <2>1. CASE a \in Taken(o)
    BY <1>1, <2>1
  <2>2. CASE a \notin Taken(o)
    <3>1. m[a] # Unused /\ \A i \in K : a \notin Taken(O[i])
      BY <1>5, <2>2
    <3>2. PICK i \in DOMAIN O : a \in Taken(O[i])
      BY <3>1 DEF Sound
    <3> QED
      BY <1>1, <3>1, <3>2
  <2> QED
    BY <2>1, <2>2
<1> QED
  BY <1>3, <1>4, <1>5 DEF Sound, N

-----------------------------------------------------------------------------
(* Making, copying and destroying objects. *)

\* What is left of m has a new object for value v.
Makes(m, b, v) ==
  \E r : LET o == Thing(b.json, v, r)
         IN  /\ IsHeap(b.heap)
             /\ Lies(b.heap, o)
             /\ \A a \in Taken(o) : m[a] = Unused
             /\ \A a \in Addresses \ Taken(o) : b.heap[a] = m[a]

\* The constructors make their value in fresh cells.
LEMMA CreateMakes ==
  ASSUME NEW m, NEW v, IsTree(v), Create(m, v).fits
  PROVE  Makes(m, Create(m, v), v)
<1> DEFINE r == Place(Stored(v), Fresh(m))
           b == Create(m, v)
           o == Thing(b.json, v, r)
<1>1. Injects(r, Stored(v), Fresh(m))
  BY DEF Create
<1>2. b.json = ObjectOf(v, Top, r)
  BY DEF Create
<1>3. \A a \in Addresses :
        b.heap[a] = IF \E p \in Stored(v) : r[p] = a
                      THEN CellOf(v, CHOOSE p \in Stored(v) : r[p] = a, r) ELSE m[a]
  BY DEF Create
<1>4. IsHeap(b.heap)
  BY DEF Create, IsHeap
<1> HIDE DEF r, b
<1>5. o.obj = b.json /\ o.val = v /\ o.at = r
  BY DEF Thing
<1>6. \A p \in Stored(v) : r[p] \in Addresses /\ m[r[p]] = Unused
  BY <1>1 DEF Injects, Fresh
<1>7. ASSUME NEW p \in Stored(v) PROVE b.heap[r[p]] = CellOf(v, p, r)
  <2>1. (CHOOSE q \in Stored(v) : r[q] = r[p]) = p
    BY <1>1 DEF Injects
  <2> QED
    BY <1>3, <1>6, <2>1
<1>8. Lies(b.heap, o)
  BY <1>1, <1>2, <1>5, <1>6, <1>7 DEF Lies, Injects
<1>9. \A a \in Taken(o) : m[a] = Unused
  BY <1>5, <1>6 DEF Taken
<1>10. \A a \in Addresses \ Taken(o) : b.heap[a] = m[a]
  BY <1>3, <1>5 DEF Taken
<1> QED
  BY <1>4, <1>8, <1>9, <1>10 DEF Makes, b

\* A copy has the value of what is copied, and cells of its own.
LEMMA CopyMakes ==
  ASSUME NEW m, NEW o, Lies(m, o), Copy(m, o.obj).fits
  PROVE  Makes(m, Copy(m, o.obj), o.val)
<1> DEFINE C == Cells(m, o.obj)
           q == Place(C, Fresh(m))
           b == Copy(m, o.obj)
           v == o.val
           r == [p \in Stored(v) |-> q[o.at[p]]]
           n == Thing(b.json, v, r)
<1>1. C = {o.at[p] : p \in Stored(v)}
  BY CellsAre DEF Taken
<1>2. Injects(q, C, Fresh(m))
  BY DEF Copy
<1>3. b.json = Moved(q, o.obj)
  BY DEF Copy
<1>4. \A a \in Addresses :
        b.heap[a] = IF \E c \in C : q[c] = a
                      THEN CopiedCell(q, m[CHOOSE c \in C : q[c] = a]) ELSE m[a]
  BY DEF Copy
<1>5. IsHeap(b.heap)
  BY DEF Copy, IsHeap
<1>6. \A p \in Stored(v) : o.at[p] \in C /\ r[p] = q[o.at[p]]
  BY <1>1
<1>7. n.obj = b.json /\ n.val = v /\ n.at = r
  BY DEF Thing
<1>8. /\ IsTree(v) /\ o.obj = ObjectOf(v, Top, o.at)
      /\ Injects(o.at, Stored(v), Addresses)
      /\ \A p \in Stored(v) : m[o.at[p]] = CellOf(v, p, o.at)
  BY DEF Lies
<1> HIDE DEF C, q, b, r, v, n
<1>9. ASSUME NEW p \in Parts(v) PROVE Moved(q, ObjectOf(v, p, o.at)) = ObjectOf(v, p, r)
  <2>1. CASE Part(v, p).kind \in Pointed
    <3>1. p \in Stored(v)
      BY <2>1, StoredIs
    <3> QED
      BY <2>1, <3>1, <1>6 DEF Moved, ObjectOf, Json
  <2>2. CASE Part(v, p).kind \notin Pointed
    BY <2>2 DEF Moved, ObjectOf, Json
  <2> QED
    BY <2>1, <2>2
<1>10. ASSUME NEW p \in Stored(v) PROVE CopiedCell(q, CellOf(v, p, o.at)) = CellOf(v, p, r)
  <2> DEFINE w == Part(v, p)
             c == CellOf(v, p, o.at)
  <2>1. p \in Parts(v)
    BY DEF Stored
  <2>2. Places(c) = Places(w) /\ c.kind = w.kind
    BY CellIs
  <2>3. CASE IsContainer(w)
    <3>1. c = Cell(w.kind, [k \in DOMAIN w.val |-> ObjectOf(v, <<p, k>>, o.at)])
      BY <2>3 DEF CellOf
    <3>2. CellOf(v, p, r) = Cell(w.kind, [k \in DOMAIN w.val |-> ObjectOf(v, <<p, k>>, r)])
      BY <2>3 DEF CellOf
    <3>3. Places(w) = DOMAIN w.val
      BY <2>3 DEF Places, IsContainer
    <3>4. \A k \in DOMAIN w.val : Moved(q, ObjectOf(v, <<p, k>>, o.at)) = ObjectOf(v, <<p, k>>, r)
      BY <1>8, <1>9, <2>1, <3>3, ChildPart
    <3>5. c.val = [k \in DOMAIN w.val |-> ObjectOf(v, <<p, k>>, o.at)]
      BY <3>1 DEF Cell
    <3>6. [k \in DOMAIN c.val |-> Moved(q, c.val[k])] = [k \in DOMAIN w.val |-> ObjectOf(v, <<p, k>>, r)]
      BY <3>4, <3>5
    <3>7. CASE DOMAIN w.val = {}
      <4>1. [k \in DOMAIN w.val |-> ObjectOf(v, <<p, k>>, o.at)]
              = [k \in DOMAIN w.val |-> ObjectOf(v, <<p, k>>, r)]
        BY <3>7
      <4> QED
        BY <2>2, <3>1, <3>2, <3>3, <3>7, <4>1 DEF CopiedCell
    <3> QED
      BY <2>2, <3>2, <3>3, <3>6, <3>7 DEF CopiedCell
  <2>4. CASE ~IsContainer(w)
    <3>1. Places(c) = {}
      BY <2>2, <2>4 DEF Places, IsContainer
    <3>2. c = CellOf(v, p, r)
      BY <2>4 DEF CellOf
    <3> QED
      BY <3>1, <3>2 DEF CopiedCell
  <2> QED
    BY <2>3, <2>4
<1>11. b.json = ObjectOf(v, Top, r)
  BY <1>3, <1>8, <1>9, PartsAre
<1>12. Injects(r, Stored(v), Fresh(m))
  BY <1>2, <1>6, <1>8 DEF Injects
<1>13. \A p \in Stored(v) : r[p] \in Addresses /\ m[r[p]] = Unused
  BY <1>12 DEF Injects, Fresh
<1>14. ASSUME NEW p \in Stored(v) PROVE b.heap[r[p]] = CellOf(v, p, r)
  <2>1. (CHOOSE c \in C : q[c] = r[p]) = o.at[p]
    BY <1>2, <1>6 DEF Injects
  <2>2. \E c \in C : q[c] = r[p]
    BY <1>6
  <2>3. b.heap[r[p]] = CopiedCell(q, m[CHOOSE c \in C : q[c] = r[p]])
    BY <1>4, <1>13, <2>2
  <2>4. m[CHOOSE c \in C : q[c] = r[p]] = CellOf(v, p, o.at)
    BY <1>8, <2>1
  <2> QED
    BY <1>10, <2>3, <2>4
<1>15. Lies(b.heap, n)
  BY <1>7, <1>8, <1>11, <1>12, <1>13, <1>14 DEF Lies, Injects
<1>16. \A a \in Taken(n) : m[a] = Unused
  BY <1>7, <1>13 DEF Taken
<1>17. ASSUME NEW a \in Addresses \ Taken(n) PROVE b.heap[a] = m[a]
  <2>1. \A c \in C : q[c] # a
    BY <1>1, <1>6, <1>7 DEF Taken
  <2> QED
    BY <1>4, <2>1
<1> QED
  BY <1>5, <1>15, <1>16, <1>17 DEF Makes, b, n, v

\* What an object becomes when it is destroyed.
Nothing == Thing(NoJson, Closed, <<>>)

\* Nothing takes up nothing.
LEMMA NothingLies ==
  ASSUME NEW m
  PROVE  Lies(m, Nothing) /\ Taken(Nothing) = {}
<1>1. Nothing.obj = NoJson /\ Nothing.val = Closed
  BY DEF Nothing, Thing
<1>2. Closed.kind = "closed" /\ Closed.val = None
  BY DEF Closed
<1>3. Places(Closed) = {}
  BY <1>2 DEF Places
<1>4. \A p \in Parts(Closed) : p = Top
  BY <1>3, PartsAre
<1>5. Stored(Closed) = {}
  BY <1>2, <1>4, PartIs DEF Stored, Pointed
<1>6. ObjectOf(Closed, Top, Nothing.at) = NoJson
  BY <1>2, PartIs DEF ObjectOf, Pointed, NoJson
<1> QED
  BY <1>1, <1>5, <1>6 DEF Lies, Taken, Injects, IsTree

\* The destructor frees what the object takes up, and no more.
LEMMA DestroyedIs ==
  ASSUME NEW m, NEW o, Lies(m, o)
  PROVE  /\ IsHeap(Destroyed(m, o.obj))
         /\ \A a \in Addresses :
              Destroyed(m, o.obj)[a] = IF a \in Taken(o) THEN Unused ELSE m[a]
BY CellsAre DEF Destroyed, IsHeap

\* Destroying an object leaves the others as they lie.
LEMMA DestroySound ==
  ASSUME NEW m, NEW O, Sound(m, O), NEW n \in DOMAIN O
  PROVE  Sound(Destroyed(m, O[n].obj), Replaced(O, {n}, n, Nothing))
<1>1. Lies(m, O[n])
  BY DEF Sound
<1>2. Lies(Destroyed(m, O[n].obj), Nothing) /\ Taken(Nothing) = {}
  BY NothingLies
<1> QED
  BY <1>1, <1>2, DestroyedIs, Replace

-----------------------------------------------------------------------------
(* Containers. *)

\* An object at a path, by what is at that path.
LEMMA SamePart ==
  ASSUME NEW v, NEW p, NEW r, NEW w, NEW q, NEW t, Part(w, q) = Part(v, p),
         Part(v, p).kind \in Pointed => t[q] = r[p]
  PROVE  ObjectOf(w, q, t) = ObjectOf(v, p, r)
BY DEF ObjectOf, Json

\* A cell is the same wherever its members are the same objects.
LEMMA SameCell ==
  ASSUME NEW v, NEW p, NEW r, NEW w, NEW q, NEW t, Part(w, q) = Part(v, p),
         \A k \in Places(Part(v, p)) :
           ObjectOf(w, <<q, k>>, t) = ObjectOf(v, <<p, k>>, r)
  PROVE  CellOf(w, q, t) = CellOf(v, p, r)
<1>1. CASE IsContainer(Part(v, p))
  <2>1. Places(Part(v, p)) = DOMAIN Part(v, p).val
    BY <1>1 DEF Places, IsContainer
  <2>2. [k \in DOMAIN Part(w, q).val |-> ObjectOf(w, <<q, k>>, t)]
          = [k \in DOMAIN Part(v, p).val |-> ObjectOf(v, <<p, k>>, r)]
    BY <2>1
  <2> QED
    BY <1>1, <2>2 DEF CellOf
<1>2. CASE ~IsContainer(Part(v, p))
  BY <1>2 DEF CellOf
<1> QED
  BY <1>1, <1>2

\* The cell of a container.
LEMMA ContainerCell ==
  ASSUME NEW m, NEW o, Lies(m, o), IsContainer(o.val)
  PROVE  LET a == o.obj.word
         IN  /\ Top \in Stored(o.val)
             /\ a = o.at[Top] /\ a \in Taken(o) /\ a \in Addresses
             /\ m[a] = Cell(o.val.kind, m[a].val)
             /\ m[a].val = [k \in DOMAIN o.val.val |-> ObjectOf(o.val, <<Top, k>>, o.at)]
             /\ Places(o.val) = DOMAIN o.val.val
<1> DEFINE v == o.val
           a == o.obj.word
<1>1. Part(v, Top) = v /\ Top \in Parts(v) /\ v.kind \in Pointed
  BY PartIs, PartsAre DEF IsContainer, Pointed
<1>2. Top \in Stored(v)
  BY <1>1, StoredIs
<1>3. o.obj = ObjectOf(v, Top, o.at)
  BY DEF Lies
<1>4. a = o.at[Top]
  BY <1>1, <1>3, ObjectIs
<1>5. m[a] = CellOf(v, Top, o.at)
  BY <1>2, <1>4 DEF Lies
<1>6. m[a] = Cell(v.kind, [k \in DOMAIN v.val |-> ObjectOf(v, <<Top, k>>, o.at)])
  BY <1>1, <1>5 DEF CellOf
<1>7. a \in Taken(o) /\ a \in Addresses
  BY <1>2, <1>4 DEF Taken, Lies, Injects
<1>8. Places(v) = DOMAIN v.val
  BY DEF Places, IsContainer
<1> QED
  BY <1>2, <1>4, <1>6, <1>7, <1>8 DEF Cell

\* Nulls are filled into a container.
Fills(v, D) ==
  [kind |-> v.kind, val |-> [k \in D |-> IF k \in DOMAIN v.val THEN v.val[k] ELSE Null]]

\* Nulls for members leave every other part, and every cell, in its place.
LEMMA FillParts ==
  ASSUME NEW v, IsContainer(v), NEW D, DOMAIN v.val \subseteq D
  PROVE  LET w == Fills(v, D)
         IN  /\ \A p \in Parts(v) \ {Top} : p \in Parts(w) /\ Part(w, p) = Part(v, p)
             /\ \A p \in Parts(w) \ Parts(v) :
                  \E k \in D \ DOMAIN v.val : p = <<Top, k>> /\ Part(w, p) = Null
             /\ Stored(w) = Stored(v)
<1> DEFINE w == Fills(v, D)
<1>1. /\ w.kind = v.kind /\ DOMAIN w.val = D /\ IsContainer(w)
      /\ \A k \in DOMAIN v.val : w.val[k] = v.val[k]
      /\ \A k \in D \ DOMAIN v.val : w.val[k] = Null
  BY DEF Fills, IsContainer
<1> HIDE DEF w
<1>2. Places(w) = D /\ Places(v) = DOMAIN v.val /\ Places(Null) = {}
  BY <1>1 DEF Places, IsContainer, Null
<1>3. ASSUME NEW p \in Parts(v) \ {Top} PROVE p \in Parts(w) /\ Part(w, p) = Part(v, p)
  <2>1. ASSUME NEW k \in Places(v), p = <<Top, k>>
        PROVE  p \in Parts(w) /\ Part(w, p) = Part(v, p)
    BY <2>1, <1>1, <1>2, PartIs, PartsAre
  <2>2. ASSUME NEW k \in Places(v), NEW j \in Places(v.val[k]), p = <<<<Top, k>>, j>>
        PROVE  p \in Parts(w) /\ Part(w, p) = Part(v, p)
    <3>1. k \in Places(w) /\ w.val[k] = v.val[k]
      BY <1>1, <1>2
    <3>2. p \in Parts(w)
      BY <2>2, <3>1, PartsAre
    <3>3. Part(w, p) = w.val[k].val[j] /\ Part(v, p) = v.val[k].val[j]
      BY <2>2, PartIs
    <3> QED
      BY <3>1, <3>2, <3>3
  <2> QED
    BY <1>3, <2>1, <2>2, PartsAre
<1>4. ASSUME NEW p \in Parts(w) \ Parts(v)
      PROVE  \E k \in D \ DOMAIN v.val : p = <<Top, k>> /\ Part(w, p) = Null
  <2>1. p # Top
    BY PartsAre
  <2>2. PICK k \in Places(w) :
          p = <<Top, k>> \/ \E j \in Places(w.val[k]) : p = <<<<Top, k>>, j>>
    BY <2>1, PartsAre
  <2>3. k \notin DOMAIN v.val
    BY <1>1, <1>2, <2>2, PartsAre
  <2>4. p = <<Top, k>> /\ w.val[k] = Null
    BY <1>1, <1>2, <2>2, <2>3
  <2> QED
    BY <1>2, <2>3, <2>4, PartIs
<1>5. Part(w, Top).kind = Part(v, Top).kind /\ Top \in Parts(v) /\ Top \in Parts(w)
  BY <1>1, PartIs, PartsAre
<1>6. Null.kind \notin Pointed
  BY DEF Null, Pointed
<1>7. ASSUME NEW p PROVE p \in Stored(w) <=> p \in Stored(v)
  <2>1. CASE p = Top
    BY <1>5, <2>1, StoredIs
  <2>2. CASE p \in Parts(v) \ {Top}
    BY <1>3, <2>2, StoredIs
  <2>3. CASE p \notin Parts(v)
    BY <1>4, <1>6, <2>3 DEF Stored
  <2> QED
    BY <2>1, <2>2, <2>3
<1> QED
  BY <1>3, <1>4, <1>7 DEF w

\* The object at o, with g for the members of its cell, lies in the same cells with
\* nulls for the members that are new.
FilledAt(m, o, D, g) ==
  LET w == [m EXCEPT ![o.obj.word].val = g]
      n == Thing(o.obj, Fills(o.val, D), o.at)
  IN  /\ IsHeap(w) /\ Lies(w, n) /\ Taken(n) = Taken(o)
      /\ \A b \in Addresses \ Taken(o) : w[b] = m[b]

\* Writing nulls into a container's cell fills its value with nulls.
LEMMA FillLies ==
  ASSUME NEW m, IsHeap(m), NEW o, Lies(m, o), IsContainer(o.val),
         NEW D, DOMAIN o.val.val \subseteq D, IsJson(Fills(o.val, D)),
         NEW g, g = [k \in D |-> IF k \in DOMAIN m[o.obj.word].val
                                  THEN m[o.obj.word].val[k] ELSE NullJson]
  PROVE  FilledAt(m, o, D, g)
<1> DEFINE v == o.val
           u == Fills(v, D)
           a == o.obj.word
           r == o.at
           w == [m EXCEPT ![a].val = g]
           n == Thing(o.obj, u, r)
<1>1. /\ Top \in Stored(v) /\ a = r[Top] /\ a \in Taken(o) /\ a \in Addresses
      /\ m[a] = Cell(v.kind, m[a].val)
      /\ m[a].val = [k \in DOMAIN v.val |-> ObjectOf(v, <<Top, k>>, r)]
      /\ Places(v) = DOMAIN v.val
  BY ContainerCell
<1>2. /\ \A p \in Parts(v) \ {Top} : p \in Parts(u) /\ Part(u, p) = Part(v, p)
      /\ \A p \in Parts(u) \ Parts(v) :
           \E k \in D \ DOMAIN v.val : p = <<Top, k>> /\ Part(u, p) = Null
      /\ Stored(u) = Stored(v)
  BY FillParts
<1>3. n.obj = o.obj /\ n.val = u /\ n.at = r
  BY DEF Thing
<1>4. /\ IsTree(v) /\ o.obj = ObjectOf(v, Top, r)
      /\ Injects(r, Stored(v), Addresses)
      /\ \A p \in Stored(v) : m[r[p]] = CellOf(v, p, r)
  BY DEF Lies
<1>5. DOMAIN m = Addresses
  BY DEF IsHeap
<1>6. /\ IsHeap(w) /\ \A b \in Addresses \ {a} : w[b] = m[b]
      /\ w[a] = Cell(v.kind, g)
  <2>1. IsHeap(w) /\ (\A b \in Addresses \ {a} : w[b] = m[b]) /\ w[a] = [m[a] EXCEPT !.val = g]
    <3> HIDE DEF a
    <3> QED
      BY <1>1, <1>5 DEF IsHeap
  <2>2. [Cell(v.kind, m[a].val) EXCEPT !.val = g] = Cell(v.kind, g)
    BY DEF Cell
  <2> HIDE DEF w, a, v
  <2> QED
    BY <1>1, <2>1, <2>2
<1>7. u.kind = v.kind /\ u.val = [k \in D |-> IF k \in DOMAIN v.val THEN v.val[k] ELSE Null]
  BY DEF Fills
<1> HIDE DEF v, u, a, r, w, n
<1>8. ASSUME NEW p \in Parts(v) \ {Top} PROVE ObjectOf(u, p, r) = ObjectOf(v, p, r)
  BY <1>2, SamePart
<1>9. ASSUME NEW p \in Stored(v) \ {Top} PROVE w[r[p]] = CellOf(u, p, r)
  <2>1. p \in Parts(v) /\ Part(u, p) = Part(v, p)
    BY <1>2 DEF Stored
  <2>2. \A k \in Places(Part(v, p)) : ObjectOf(u, <<p, k>>, r) = ObjectOf(v, <<p, k>>, r)
    BY <1>4, <1>8, <2>1, ChildPart, PathsDiffer
  <2>3. CellOf(u, p, r) = CellOf(v, p, r)
    BY <2>1, <2>2, SameCell
  <2>4. r[p] # a /\ r[p] \in Addresses
    BY <1>1, <1>4 DEF Injects
  <2> QED
    BY <1>4, <1>6, <2>3, <2>4
<1>10. w[a] = CellOf(u, Top, r)
  <2>1. Part(u, Top) = u /\ IsContainer(u) /\ DOMAIN u.val = D
    BY <1>7, PartIs DEF IsContainer, v
  <2>2. CellOf(u, Top, r) = Cell(v.kind, [k \in D |-> ObjectOf(u, <<Top, k>>, r)])
    BY <1>7, <2>1 DEF CellOf
  <2>3. ASSUME NEW k \in D PROVE ObjectOf(u, <<Top, k>>, r) = g[k]
    <3>1. CASE k \in DOMAIN v.val
      <4>1. <<Top, k>> \in Parts(v) \ {Top}
        BY <1>1, <3>1, PartsAre, PathsDiffer
      <4>2. g[k] = m[a].val[k]
        BY <1>1, <3>1 DEF a, v
      <4> QED
        BY <1>1, <1>8, <3>1, <4>1, <4>2
    <3>2. CASE k \notin DOMAIN v.val
      <4>1. g[k] = NullJson
        BY <1>1, <3>2 DEF a, v
      <4>2. Part(u, <<Top, k>>) = Null
        BY <1>7, <3>2, PartIs
      <4> QED
        BY <4>1, <4>2 DEF ObjectOf, NullJson, Null, Pointed
    <3> QED
      BY <3>1, <3>2
  <2>4. g = [k \in D |-> g[k]]
    OBVIOUS
  <2> QED
    BY <1>6, <2>2, <2>3, <2>4
<1>11. o.obj = ObjectOf(u, Top, r)
  BY <1>1, <1>4, <1>7, PartIs, StoredIs DEF ObjectOf, Stored
<1>12. Lies(w, n)
  <2>1. IsTree(u)
    BY DEF IsTree, u, v
  <2> QED
    BY <1>1, <1>2, <1>3, <1>4, <1>9, <1>10, <1>11, <2>1 DEF Lies
<1>13. Taken(n) = Taken(o)
  BY <1>2, <1>3 DEF Taken, v, r
<1> QED
  BY <1>1, <1>6, <1>12, <1>13 DEF FilledAt, w, n, u, v, a, r

\* The member of a container at k, with the cells of its parts.
Member(m, o, k) ==
  Thing(m[o.obj.word].val[k], o.val.val[k],
        [p \in Stored(o.val.val[k]) |-> o.at[Below(k, p)]])

\* A member lies in the heap in part of the cells of its container.
LEMMA MemberLies ==
  ASSUME NEW m, NEW o, Lies(m, o), NEW k \in Places(o.val)
  PROVE  /\ Lies(m, Member(m, o, k))
         /\ \A p \in Stored(o.val.val[k]) :
              Below(k, p) \in Stored(o.val) /\ Below(k, p) # Top
         /\ Taken(Member(m, o, k)) = {o.at[Below(k, p)] : p \in Stored(o.val.val[k])}
<1> DEFINE v == o.val
           x == v.val[k]
           r == o.at
           q == [p \in Stored(x) |-> r[Below(k, p)]]
           n == Member(m, o, k)
<1>1. /\ IsTree(v) /\ Injects(r, Stored(v), Addresses)
      /\ \A p \in Stored(v) : m[r[p]] = CellOf(v, p, r)
  BY DEF Lies
<1>2. IsContainer(v)
  BY DEF Places, IsContainer
<1>3. n.obj = m[o.obj.word].val[k] /\ n.val = x /\ n.at = q
  BY DEF Member, Thing
<1>4. n.obj = ObjectOf(v, <<Top, k>>, r)
  <2>1. /\ m[o.obj.word].val = [j \in DOMAIN v.val |-> ObjectOf(v, <<Top, j>>, r)]
        /\ Places(v) = DOMAIN v.val
    BY <1>2, ContainerCell
  <2> HIDE DEF v, x, r, q, n
  <2>2. k \in DOMAIN v.val
    BY <2>1 DEF v
  <2> QED
    BY <1>3, <2>1, <2>2
<1>5. \A p \in Stored(x) : q[p] = r[Below(k, p)]
  OBVIOUS
<1> HIDE DEF v, x, r, q, n
<1>6. ASSUME NEW p \in Parts(x)
      PROVE  /\ Below(k, p) \in Parts(v) /\ Part(v, Below(k, p)) = Part(x, p)
             /\ p \in Stored(x) <=> Below(k, p) \in Stored(v)
             /\ p = Top \/ \E j \in Places(x) : p = <<Top, j>>
             /\ ObjectOf(x, p, q) = ObjectOf(v, Below(k, p), r)
  <2>1. /\ Below(k, p) \in Parts(v) /\ Part(v, Below(k, p)) = Part(x, p)
        /\ p = Top \/ \E j \in Places(x) : p = <<Top, j>>
    BY <1>1, MemberParts DEF v, x
  <2>2. p \in Stored(x) <=> Below(k, p) \in Stored(v)
    BY <2>1, StoredIs
  <2>3. Part(x, p).kind \in Pointed => q[p] = r[Below(k, p)]
    BY <1>5, StoredIs
  <2>4. ObjectOf(x, p, q) = ObjectOf(v, Below(k, p), r)
    BY <2>1, <2>3, SamePart
  <2> QED
    BY <2>1, <2>2, <2>4
<1>7. ASSUME NEW p \in Stored(x)
      PROVE  /\ Below(k, p) \in Stored(v) /\ Below(k, p) # Top
             /\ q[p] = r[Below(k, p)]
             /\ m[q[p]] = CellOf(x, p, q)
  <2>1. p \in Parts(x)
    BY DEF Stored
  <2>2. Below(k, p) \in Stored(v) /\ Part(v, Below(k, p)) = Part(x, p)
    BY <1>6, <2>1
  <2>3. Below(k, p) # Top
    BY <1>6, <2>1, BelowIs, PathsDiffer
  <2>4. ASSUME NEW j \in Places(Part(x, p))
        PROVE  ObjectOf(x, <<p, j>>, q) = ObjectOf(v, <<Below(k, p), j>>, r)
    <3>1. x = v.val[k] /\ IsTree(x)
      <4>1. IsFlat(v.val[k])
        BY <1>1, TreeDepth DEF v
      <4> QED
        BY <4>1, FlatIsJson DEF IsTree, x
    <3>2. <<p, j>> \in Parts(x)
      BY <2>1, <3>1, ChildPart
    <3>3. p = Top
      BY <1>6, <3>2, PathsDiffer
    <3>4. Below(k, <<p, j>>) = <<Below(k, p), j>>
      BY <3>3, BelowIs
    <3> QED
      BY <1>6, <3>2, <3>4
  <2>5. CellOf(x, p, q) = CellOf(v, Below(k, p), r)
    BY <2>2, <2>4, SameCell
  <2> QED
    BY <1>1, <1>5, <2>2, <2>3, <2>5
<1>8. n.obj = ObjectOf(x, Top, q)
  <2>1. Top \in Parts(x) /\ Below(k, Top) = <<Top, k>>
    BY PartsAre, BelowIs
  <2> QED
    BY <1>4, <1>6, <2>1
<1>9. Injects(q, Stored(x), Addresses)
  <2>1. ASSUME NEW p \in Stored(x), NEW t \in Stored(x), Below(k, p) = Below(k, t)
        PROVE  p = t
    <3>1. /\ p = Top \/ \E j \in Places(x) : p = <<Top, j>>
          /\ t = Top \/ \E j \in Places(x) : t = <<Top, j>>
      BY <1>6 DEF Stored
    <3>2. CASE p = Top
      BY <2>1, <3>1, <3>2, BelowIs, PathsDiffer
    <3>3. CASE t = Top
      BY <2>1, <3>1, <3>3, BelowIs, PathsDiffer
    <3>4. ASSUME NEW j, NEW i, p = <<Top, j>>, t = <<Top, i>> PROVE p = t
      <4>1. <<<<Top, k>>, j>> = <<<<Top, k>>, i>>
        BY <2>1, <3>4, BelowIs
      <4> QED
        BY <3>4, <4>1
    <3> QED
      BY <3>1, <3>2, <3>3, <3>4
  <2> QED
    BY <1>1, <1>7, <2>1 DEF Injects
<1>10. IsTree(x)
  BY <1>1, TreeDepth, FlatIsJson DEF IsTree, x, v
<1>11. Lies(m, n)
  BY <1>3, <1>7, <1>8, <1>9, <1>10 DEF Lies
<1>12. Taken(n) = {r[Below(k, p)] : p \in Stored(x)}
  BY <1>3, <1>7 DEF Taken
<1> QED
  BY <1>7, <1>11, <1>12 DEF n, r, x, v

\* A member of a container is set, or added.
PutAt(v, k, x) ==
  [kind |-> v.kind, val |-> [j \in DOMAIN v.val \cup {k} |-> IF j = k THEN x ELSE v.val[j]]]

\* Paths of the parts of the member at k, and those parts' paths in the member.
UnderAt(k, p) == p # Top /\ (p = <<Top, k>> \/ p[1] = <<Top, k>>)
\* And back: a part of the value as a part of the member that it lies in.
Above(p) == IF p[1] = Top THEN Top ELSE <<Top, p[2]>>

\* Above undoes Below.
LEMMA UnderBelow ==
  ASSUME NEW k, NEW p, p = Top \/ \E j : p = <<Top, j>>
  PROVE  UnderAt(k, Below(k, p)) /\ Above(Below(k, p)) = p /\ Below(k, p) # Top
<1>1. CASE p = Top
  BY <1>1, BelowIs, PathsDiffer DEF UnderAt, Above
<1>2. ASSUME NEW j, p = <<Top, j>>
      PROVE  UnderAt(k, Below(k, p)) /\ Above(Below(k, p)) = p /\ Below(k, p) # Top
  <2>1. Below(k, p) = <<<<Top, k>>, j>> /\ <<Top, k>> # Top
    BY <1>2, BelowIs, PathsDiffer
  <2> QED
    BY <1>2, <2>1, PathsDiffer DEF UnderAt, Above
<1> QED
  BY <1>1, <1>2

\* What lies under a place are the parts of the member there.
LEMMA UnderIsBelow ==
  ASSUME NEW v, NEW p \in Parts(v), NEW k
  PROVE  /\ UnderAt(k, p) <=> k \in Places(v) /\ \E q \in Parts(v.val[k]) : p = Below(k, q)
         /\ p = Top => ~UnderAt(k, p)
<1>1. CASE p = Top
  <2>1. ASSUME NEW q PROVE p # Below(k, q)
    BY <1>1, PathsDiffer DEF Below
  <2> QED
    BY <1>1, <2>1 DEF UnderAt
<1>2. ASSUME NEW i, p = <<Top, i>> PROVE UnderAt(k, p) <=> i = k
  BY <1>2, PathsDiffer DEF UnderAt
<1>3. ASSUME NEW i, NEW j, p = <<<<Top, i>>, j>> PROVE UnderAt(k, p) <=> i = k
  BY <1>3, PathsDiffer DEF UnderAt
<1>4. ASSUME NEW i, NEW q, p = Below(i, q), p # Top PROVE p = <<Top, i>> \/ \E j : p = <<<<Top, i>>, j>>
  BY <1>4 DEF Below
<1>5. CASE p # Top
  <2>1. PICK i \in Places(v) : \E q \in Parts(v.val[i]) : p = Below(i, q)
    BY <1>5, PartsOfMembers
  <2>2. UnderAt(k, p) <=> i = k
    BY <1>2, <1>3, <1>4, <1>5, <2>1
  <2>3. ASSUME NEW q, p = Below(k, q) PROVE UnderAt(k, p)
    BY <1>2, <1>3, <1>4, <1>5, <2>3
  <2> QED
    BY <1>5, <2>1, <2>2, <2>3
<1> QED
  BY <1>1, <1>5

\* Putting a member at a place leaves every part that is not under it alone.
LEMMA PutParts ==
  ASSUME NEW v, IsContainer(v), NEW k, NEW x, IsJson(PutAt(v, k, x))
  PROVE  LET u == PutAt(v, k, x)
         IN  /\ k \in Places(u) /\ u.val[k] = x /\ IsContainer(u)
             /\ \A p \in Parts(v) \ {Top} :
                  ~UnderAt(k, p) => p \in Parts(u) /\ Part(u, p) = Part(v, p)
             /\ \A p \in Parts(u) \ {Top} :
                  ~UnderAt(k, p) => p \in Parts(v) /\ Part(u, p) = Part(v, p)
<1> DEFINE u == PutAt(v, k, x)
<1>1. /\ u.kind = v.kind /\ DOMAIN u.val = DOMAIN v.val \cup {k} /\ u.val[k] = x
      /\ \A j \in DOMAIN v.val \ {k} : u.val[j] = v.val[j]
      /\ IsContainer(u)
  BY DEF PutAt, IsContainer
<1> HIDE DEF u
<1>2. Places(u) = DOMAIN v.val \cup {k} /\ Places(v) = DOMAIN v.val
  BY <1>1 DEF Places, IsContainer
<1>3. ASSUME NEW i \in DOMAIN v.val \ {k}, NEW q \in Parts(v.val[i]), NEW p, p = Below(i, q),
             p \in Parts(v) \/ p \in Parts(u)
      PROVE  p \in Parts(v) /\ p \in Parts(u) /\ Part(u, p) = Part(v, p)
  <2>1. u.val[i] = v.val[i] /\ i \in Places(v) /\ i \in Places(u)
    BY <1>1, <1>2
  <2>2. CASE q = Top
    <3>1. p = <<Top, i>>
      BY <1>3, <2>2, BelowIs
    <3> QED
      BY <2>1, <3>1, PartIs, PartsAre
  <2>3. CASE q # Top
    <3>1. p = <<<<Top, i>>, q[2]>>
      BY <1>3, <2>3 DEF Below
    <3>2. <<<<Top, i>>, q[2]>> # Top /\ \A j : <<<<Top, i>>, q[2]>> # <<Top, j>>
      BY PathsDiffer
    <3>3. \A j, l : <<<<Top, i>>, q[2]>> = <<<<Top, j>>, l>> => i = j /\ l = q[2]
      BY PathsDiffer
    <3>4. q[2] \in Places(v.val[i])
      <4>1. CASE p \in Parts(v)
        BY <3>1, <3>2, <3>3, <4>1, PartsAre
      <4>2. CASE p \in Parts(u)
        BY <2>1, <3>1, <3>2, <3>3, <4>2, PartsAre
      <4> QED
        BY <1>3, <4>1, <4>2
    <3>5. p \in Parts(v) /\ p \in Parts(u)
      BY <2>1, <3>1, <3>4, PartsAre
    <3>6. Part(u, p) = u.val[i].val[q[2]] /\ Part(v, p) = v.val[i].val[q[2]]
      BY <3>1, PartIs
    <3> QED
      BY <2>1, <3>5, <3>6
  <2> QED
    BY <2>2, <2>3
<1>4. ASSUME NEW p \in Parts(v) \ {Top}, ~UnderAt(k, p)
      PROVE  p \in Parts(u) /\ Part(u, p) = Part(v, p)
  <2>1. PICK i \in Places(v) : \E q \in Parts(v.val[i]) : p = Below(i, q)
    BY PartsOfMembers
  <2>2. i # k
    BY <1>4, <2>1, UnderIsBelow
  <2> QED
    BY <1>2, <1>3, <2>1, <2>2
<1>5. ASSUME NEW p \in Parts(u) \ {Top}, ~UnderAt(k, p)
      PROVE  p \in Parts(v) /\ Part(u, p) = Part(v, p)
  <2>1. PICK i \in Places(u) : \E q \in Parts(u.val[i]) : p = Below(i, q)
    BY PartsOfMembers
  <2>2. i # k
    BY <1>5, <2>1, UnderIsBelow
  <2>3. i \in DOMAIN v.val \ {k} /\ u.val[i] = v.val[i]
    BY <1>1, <1>2, <2>2
  <2> QED
    BY <1>3, <2>1, <2>3
<1> QED
  BY <1>1, <1>2, <1>4, <1>5 DEF u

\* The cells that a container keeps when its member at k goes.
Rest(o, k) == CellsOf(o, {q \in Stored(o.val) : ~UnderAt(k, q)})

\* Between heaps m and w, object x is put into the container o at place k.
Puts(m, w, o, k, x) ==
  \E t : LET p == Thing(o.obj, PutAt(o.val, k, x.val), t)
         IN  /\ IsHeap(w) /\ Lies(w, p)
             /\ o.obj.word \in Taken(p)
             /\ \A b \in Addresses \ {o.obj.word} : w[b] = m[b]
             /\ Taken(p) = Rest(o, k) \cup Taken(x)

\* Writing an object into a container's cell puts its value there: the cells that
\* were not under the place are kept, and those of the new member are added.
LEMMA PutLies ==
  ASSUME NEW m, IsHeap(m), NEW o, Lies(m, o), IsContainer(o.val),
         NEW x, Lies(m, x), Taken(o) \cap Taken(x) = {},
         NEW k, IsJson(PutAt(o.val, k, x.val)),
         NEW g, g = [j \in DOMAIN m[o.obj.word].val \cup {k} |->
                       IF j = k THEN x.obj ELSE m[o.obj.word].val[j]]
  PROVE  Puts(m, [m EXCEPT ![o.obj.word].val = g], o, k, x)
<1> DEFINE v == o.val
           u == PutAt(v, k, x.val)
           a == o.obj.word
           r == o.at
           w == [m EXCEPT ![a].val = g]
           t == [p \in Stored(u) |-> IF UnderAt(k, p) THEN x.at[Above(p)] ELSE r[p]]
           n == Thing(o.obj, u, t)
           Others == {p \in Stored(v) : ~UnderAt(k, p)}
<1>1. /\ Top \in Stored(v) /\ a = r[Top] /\ a \in Taken(o) /\ a \in Addresses
      /\ m[a] = Cell(v.kind, m[a].val)
      /\ m[a].val = [j \in DOMAIN v.val |-> ObjectOf(v, <<Top, j>>, r)]
      /\ Places(v) = DOMAIN v.val
  BY ContainerCell
<1>2. /\ k \in Places(u) /\ u.val[k] = x.val /\ IsContainer(u)
      /\ \A p \in Parts(v) \ {Top} :
           ~UnderAt(k, p) => p \in Parts(u) /\ Part(u, p) = Part(v, p)
      /\ \A p \in Parts(u) \ {Top} :
           ~UnderAt(k, p) => p \in Parts(v) /\ Part(u, p) = Part(v, p)
  BY PutParts
<1>3. n.obj = o.obj /\ n.val = u /\ n.at = t
  BY DEF Thing
<1>4. /\ IsTree(v) /\ o.obj = ObjectOf(v, Top, r)
      /\ Injects(r, Stored(v), Addresses)
      /\ \A p \in Stored(v) : m[r[p]] = CellOf(v, p, r)
  BY DEF Lies
<1>5. /\ x.obj = ObjectOf(x.val, Top, x.at)
      /\ Injects(x.at, Stored(x.val), Addresses)
      /\ \A p \in Stored(x.val) : m[x.at[p]] = CellOf(x.val, p, x.at)
  BY DEF Lies
<1>6. IsTree(u)
  BY DEF IsTree
<1>7. /\ IsHeap(w) /\ \A b \in Addresses \ {a} : w[b] = m[b]
      /\ w[a] = Cell(v.kind, g)
  <2>1. DOMAIN m = Addresses
    BY DEF IsHeap
  <2>2. IsHeap(w) /\ (\A b \in Addresses \ {a} : w[b] = m[b]) /\ w[a] = [m[a] EXCEPT !.val = g]
    <3> HIDE DEF a
    <3> QED
      BY <1>1, <2>1 DEF IsHeap
  <2>3. [Cell(v.kind, m[a].val) EXCEPT !.val = g] = Cell(v.kind, g)
    BY DEF Cell
  <2> HIDE DEF w, a, v
  <2> QED
    BY <1>1, <2>2, <2>3
<1>8. u.kind = v.kind /\ DOMAIN u.val = DOMAIN v.val \cup {k}
  BY DEF PutAt
<1>9. \A p \in Stored(u) : t[p] = IF UnderAt(k, p) THEN x.at[Above(p)] ELSE r[p]
  OBVIOUS
<1>10. /\ \A p \in Stored(x.val) : x.at[p] \in Taken(x)
       /\ \A p \in Stored(v) : r[p] \in Taken(o)
  BY DEF Taken
<1>11. g = [j \in DOMAIN u.val |-> IF j = k THEN x.obj ELSE ObjectOf(v, <<Top, j>>, r)]
  <2> HIDE DEF a, v, u, r
  <2>1. DOMAIN m[a].val = DOMAIN v.val
    BY <1>1
  <2>2. \A j \in DOMAIN v.val : m[a].val[j] = ObjectOf(v, <<Top, j>>, r)
    BY <1>1
  <2>3. g = [j \in DOMAIN u.val |-> IF j = k THEN x.obj ELSE m[a].val[j]]
    BY <1>8, <2>1 DEF a
  <2> QED
    BY <1>8, <2>2, <2>3
<1> HIDE DEF v, u, a, r, w, t, n, Others
<1>12. ASSUME NEW q \in Parts(x.val)
       PROVE  /\ Below(k, q) \in Parts(u) /\ Part(u, Below(k, q)) = Part(x.val, q)
              /\ UnderAt(k, Below(k, q)) /\ Above(Below(k, q)) = q
              /\ q = Top \/ \E j \in Places(x.val) : q = <<Top, j>>
              /\ q \in Stored(x.val) <=> Below(k, q) \in Stored(u)
              /\ ObjectOf(u, Below(k, q), t) = ObjectOf(x.val, q, x.at)
  <2>1. /\ Below(k, q) \in Parts(u) /\ Part(u, Below(k, q)) = Part(x.val, q)
        /\ q = Top \/ \E j \in Places(x.val) : q = <<Top, j>>
    BY <1>2, <1>6, MemberParts
  <2>2. UnderAt(k, Below(k, q)) /\ Above(Below(k, q)) = q
    BY <2>1, UnderBelow
  <2>3. /\ q \in Stored(x.val) <=> Part(x.val, q).kind \in Pointed
        /\ Below(k, q) \in Stored(u) <=> Part(x.val, q).kind \in Pointed
    BY <2>1, StoredIs
  <2>4. Part(x.val, q).kind \in Pointed => t[Below(k, q)] = x.at[q]
    BY <1>9, <2>2, <2>3
  <2>5. ObjectOf(u, Below(k, q), t) = ObjectOf(x.val, q, x.at)
    BY <2>1, <2>4, SamePart
  <2> QED
    BY <2>1, <2>2, <2>3, <2>5
<1>13. ASSUME NEW p \in Parts(u), UnderAt(k, p)
       PROVE  \E q \in Parts(x.val) : p = Below(k, q)
  BY <1>2, <1>13, UnderIsBelow
<1>14. ASSUME NEW p \in Parts(u) \ {Top}, ~UnderAt(k, p)
       PROVE  /\ p \in Parts(v) /\ Part(u, p) = Part(v, p)
              /\ p \in Stored(u) <=> p \in Stored(v)
              /\ ObjectOf(u, p, t) = ObjectOf(v, p, r)
  <2>1. p \in Parts(v) /\ Part(u, p) = Part(v, p)
    BY <1>2, <1>14
  <2>2. /\ p \in Stored(u) <=> Part(u, p).kind \in Pointed
        /\ p \in Stored(v) <=> Part(v, p).kind \in Pointed
    BY <2>1, StoredIs
  <2>3. Part(v, p).kind \in Pointed => t[p] = r[p]
    BY <1>9, <1>14, <2>1, <2>2
  <2>4. ObjectOf(u, p, t) = ObjectOf(v, p, r)
    BY <2>1, <2>3, SamePart
  <2> QED
    BY <2>1, <2>2, <2>4
<1>15. Top \in Stored(u) /\ ~UnderAt(k, Top) /\ t[Top] = a
  <2>1. Top \in Parts(u) /\ Part(u, Top).kind = Part(v, Top).kind /\ Part(v, Top).kind \in Pointed
    BY <1>1, <1>8, PartIs, PartsAre DEF Stored
  <2>2. ~UnderAt(k, Top)
    BY DEF UnderAt
  <2> QED
    BY <1>1, <1>9, <2>1, <2>2, StoredIs
<1>16. ASSUME NEW p \in Stored(u)
       PROVE  \/ p = Top /\ t[p] = a
              \/ /\ p # Top /\ ~UnderAt(k, p) /\ p \in Stored(v) /\ t[p] = r[p]
              \/ /\ UnderAt(k, p)
                 /\ \E q \in Stored(x.val) : p = Below(k, q) /\ t[p] = x.at[q]
  <2>1. p \in Parts(u)
    BY DEF Stored
  <2>2. CASE UnderAt(k, p)
    BY <1>9, <1>12, <1>13, <2>1, <2>2
  <2>3. CASE ~UnderAt(k, p) /\ p # Top
    BY <1>9, <1>14, <2>1, <2>3
  <2> QED
    BY <1>15, <2>2, <2>3
<1>17. Injects(t, Stored(u), Addresses)
  <2>1. ASSUME NEW p \in Stored(u) PROVE t[p] \in Addresses
    BY <1>1, <1>4, <1>5, <1>16 DEF Injects
  <2>2. ASSUME NEW p \in Stored(u), NEW q \in Stored(u), t[p] = t[q] PROVE p = q
    <3>1. CASE UnderAt(k, p) /\ UnderAt(k, q)
      <4>1. PICK i \in Stored(x.val) : p = Below(k, i) /\ t[p] = x.at[i]
        BY <1>16, <3>1, <1>15
      <4>2. PICK j \in Stored(x.val) : q = Below(k, j) /\ t[q] = x.at[j]
        BY <1>16, <3>1, <1>15
      <4>3. i = j
        BY <1>5, <2>2, <4>1, <4>2 DEF Injects
      <4> QED
        BY <4>1, <4>2, <4>3
    <3>2. CASE ~UnderAt(k, p) /\ ~UnderAt(k, q)
      <4>1. p \in Stored(v) /\ t[p] = r[p] /\ q \in Stored(v) /\ t[q] = r[q]
        BY <1>1, <1>16, <3>2
      <4> QED
        BY <1>4, <2>2, <4>1 DEF Injects
    <3>3. ASSUME NEW i \in Stored(u), NEW j \in Stored(u), UnderAt(k, i), ~UnderAt(k, j)
          PROVE  t[i] # t[j]
      <4>1. t[i] \in Taken(x)
        BY <1>10, <1>15, <1>16, <3>3
      <4>2. t[j] \in Taken(o)
        BY <1>1, <1>10, <1>16, <3>3
      <4> QED
        BY <4>1, <4>2
    <3> QED
      BY <2>2, <3>1, <3>2, <3>3
  <2> QED
    BY <2>1, <2>2 DEF Injects
<1>18. ASSUME NEW p \in Stored(u), UnderAt(k, p) PROVE w[t[p]] = CellOf(u, p, t)
  <2>1. PICK q \in Stored(x.val) : p = Below(k, q) /\ t[p] = x.at[q]
    BY <1>15, <1>16, <1>18
  <2>2. q \in Parts(x.val) /\ IsTree(x.val)
    BY DEF Stored, Lies
  <2>3. Part(u, p) = Part(x.val, q)
    BY <1>12, <2>1, <2>2
  <2>4. ASSUME NEW j \in Places(Part(x.val, q))
        PROVE  ObjectOf(u, <<p, j>>, t) = ObjectOf(x.val, <<q, j>>, x.at)
    <3>1. <<q, j>> \in Parts(x.val)
      BY <2>2, ChildPart
    <3>2. q = Top
      BY <1>12, <3>1, PathsDiffer
    <3>3. Below(k, <<q, j>>) = <<p, j>>
      BY <2>1, <3>2, BelowIs
    <3> QED
      BY <1>12, <3>1, <3>3
  <2>5. CellOf(u, p, t) = CellOf(x.val, q, x.at)
    BY <2>3, <2>4, SameCell
  <2>6. x.at[q] \in Addresses \ {a}
    BY <1>1, <1>5, <1>10 DEF Injects
  <2> QED
    BY <1>5, <1>7, <2>1, <2>5, <2>6
<1>19. ASSUME NEW p \in Stored(u) \ {Top}, ~UnderAt(k, p) PROVE w[t[p]] = CellOf(u, p, t)
  <2>1. p \in Parts(u) \ {Top}
    BY DEF Stored
  <2>2. p \in Stored(v) /\ t[p] = r[p] /\ Part(u, p) = Part(v, p)
    BY <1>14, <1>16, <1>19, <2>1
  <2>3. ASSUME NEW j \in Places(Part(v, p))
        PROVE  ObjectOf(u, <<p, j>>, t) = ObjectOf(v, <<p, j>>, r)
    <3>1. <<p, j>> \in Parts(u) \ {Top}
      BY <1>6, <2>1, <2>2, <2>3, ChildPart, PathsDiffer
    <3>2. ~UnderAt(k, <<p, j>>)
      BY <1>19, <2>1, PathsDiffer DEF UnderAt
    <3> QED
      BY <1>14, <3>1, <3>2
  <2>4. CellOf(u, p, t) = CellOf(v, p, r)
    BY <2>2, <2>3, SameCell
  <2>5. r[p] \in Addresses \ {a}
    BY <1>1, <1>4, <2>2 DEF Injects
  <2> QED
    BY <1>4, <1>7, <2>2, <2>4, <2>5
<1>20. w[a] = CellOf(u, Top, t)
  <2>1. CellOf(u, Top, t) = Cell(u.kind, [j \in DOMAIN u.val |-> ObjectOf(u, <<Top, j>>, t)])
    BY <1>2, PartIs DEF CellOf
  <2>2. ASSUME NEW j \in DOMAIN u.val PROVE ObjectOf(u, <<Top, j>>, t) = g[j]
    <3>1. CASE j = k
      <4>1. Top \in Parts(x.val) /\ Below(k, Top) = <<Top, k>>
        BY PartsAre, BelowIs
      <4>2. ObjectOf(u, <<Top, k>>, t) = x.obj
        BY <1>5, <1>12, <4>1
      <4> QED
        BY <1>11, <3>1, <4>2
    <3>2. CASE j # k
      <4>1. j \in Places(u)
        BY <1>2 DEF Places, IsContainer
      <4>2. <<Top, j>> \in Parts(u) \ {Top}
        BY <4>1, PartsAre, PathsDiffer
      <4>3. ~UnderAt(k, <<Top, j>>)
        BY <3>2, PathsDiffer DEF UnderAt
      <4>4. ObjectOf(u, <<Top, j>>, t) = ObjectOf(v, <<Top, j>>, r)
        BY <1>14, <4>2, <4>3
      <4> QED
        BY <1>11, <3>2, <4>4
    <3> QED
      BY <3>1, <3>2
  <2>3. g = [j \in DOMAIN u.val |-> g[j]]
    BY <1>11
  <2>4. g = [j \in DOMAIN u.val |-> ObjectOf(u, <<Top, j>>, t)]
    BY <2>2, <2>3
  <2> QED
    BY <1>7, <1>8, <2>1, <2>4
<1>21. o.obj = ObjectOf(u, Top, t)
  <2>1. Part(u, Top).kind = Part(v, Top).kind /\ Part(v, Top).kind \in Pointed
    BY <1>1, <1>8, PartIs DEF Stored
  <2> QED
    BY <1>1, <1>4, <1>15, <2>1 DEF ObjectOf
<1>22. ASSUME NEW p \in Stored(u) PROVE w[t[p]] = CellOf(u, p, t)
  <2>1. CASE p = Top
    BY <1>15, <1>20, <2>1
  <2> QED
    BY <1>18, <1>19, <2>1
<1>23. Lies(w, n)
  BY <1>3, <1>6, <1>17, <1>21, <1>22 DEF Lies
<1>24. Taken(n) = CellsOf(o, Others) \cup Taken(x)
  <2>1. ASSUME NEW p \in Stored(u) PROVE t[p] \in CellsOf(o, Others) \cup Taken(x)
    <3>1. CASE UnderAt(k, p)
      BY <1>10, <1>15, <1>16, <3>1
    <3>2. CASE ~UnderAt(k, p)
      <4>1. p \in Others /\ t[p] = r[p]
        BY <1>1, <1>15, <1>16, <3>2 DEF Others, v
      <4> QED
        BY <4>1 DEF CellsOf, r
    <3> QED
      BY <3>1, <3>2
  <2>2. ASSUME NEW p \in Others PROVE r[p] \in Taken(n)
    <3>1. p \in Stored(v) /\ p \in Parts(v) /\ ~UnderAt(k, p)
      BY DEF Others, Stored
    <3>2. CASE p = Top
      BY <1>1, <1>3, <1>15, <3>2 DEF Taken
    <3>3. CASE p # Top
      <4>1. p \in Parts(u) /\ p \in Stored(u)
        BY <1>2, <1>14, <3>1, <3>3
      <4>2. t[p] = r[p]
        BY <1>9, <3>1, <4>1
      <4> QED
        BY <1>3, <4>1, <4>2 DEF Taken
    <3> QED
      BY <3>2, <3>3
  <2>3. ASSUME NEW q \in Stored(x.val) PROVE x.at[q] \in Taken(n)
    <3>1. q \in Parts(x.val)
      BY DEF Stored
    <3>2. Below(k, q) \in Stored(u) /\ t[Below(k, q)] = x.at[q]
      BY <1>9, <1>12, <3>1
    <3> QED
      BY <1>3, <3>2 DEF Taken
  <2>4. Taken(n) = {t[p] : p \in Stored(u)} /\ Taken(x) = {x.at[q] : q \in Stored(x.val)}
    BY <1>3 DEF Taken
  <2>5. CellsOf(o, Others) = {r[p] : p \in Others}
    BY DEF CellsOf, r
  <2> HIDE DEF Taken
  <2> QED
    BY <2>1, <2>2, <2>3, <2>4, <2>5
<1>25. a \in Taken(n)
  BY <1>3, <1>15 DEF Taken
<1> QED
  BY <1>7, <1>23, <1>24, <1>25 DEF w, n, u, v, a, Others, Puts, Rest
-----------------------------------------------------------------------------
(* A heap by the objects and values that there are, wherever they lie. *)

\* An object and the value it should have.
Pair(s, v) == [obj |-> s, val |-> v]

\* Things have the objects and the values of W.
Agrees(O, W) ==
  /\ DOMAIN O = DOMAIN W
  /\ \A i \in DOMAIN W : O[i].obj = W[i].obj /\ O[i].val = W[i].val

Holds(m, W) == \E O : Sound(m, O) /\ Agrees(O, W)

\* One is replaced in both.
LEMMA AgreesReplaced ==
  ASSUME NEW O, NEW W, Agrees(O, W), NEW K, NEW n, NEW o
  PROVE  Agrees(Replaced(O, K, n, o), Replaced(W, K, n, Pair(o.obj, o.val)))
BY DEF Agrees, Replaced, Pair

\* A heap that is sound with one replaced holds W with it replaced.
LEMMA HoldsReplaced ==
  ASSUME NEW O, NEW W, Agrees(O, W), NEW K, NEW n, NEW o, NEW w,
         Sound(w, Replaced(O, K, n, o))
  PROVE  Holds(w, Replaced(W, K, n, Pair(o.obj, o.val)))
BY AgreesReplaced DEF Holds

\* There is always another name.
LEMMA NewName == \A S : \E n : n \notin S
<1> TAKE S
<1> DEFINE n == {x \in S : x \notin x}
<1>1. n \notin S
  OBVIOUS
<1> HIDE DEF n
<1> QED
  BY <1>1

\* An object is made where there was none, or one that has no cells.
LEMMA NewObject ==
  ASSUME NEW m, NEW W, Holds(m, W), NEW b, NEW v, Makes(m, b, v),
         NEW n, n \in DOMAIN W => Stored(W[n].val) = {}
  PROVE  Holds(b.heap, Replaced(W, {n}, n, Pair(b.json, v)))
<1>1. PICK O : Sound(m, O) /\ Agrees(O, W)
  BY DEF Holds
<1>2. PICK r : LET o == Thing(b.json, v, r)
               IN  /\ IsHeap(b.heap)
                   /\ Lies(b.heap, o)
                   /\ \A a \in Taken(o) : m[a] = Unused
                   /\ \A a \in Addresses \ Taken(o) : b.heap[a] = m[a]
  BY DEF Makes
<1> DEFINE o == Thing(b.json, v, r)
           K == {n} \cap DOMAIN O
<1>3. o.obj = b.json /\ o.val = v
  BY DEF Thing
<1>4. \A i \in K : Taken(O[i]) = {}
  BY <1>1 DEF Agrees, Taken
<1>5. Sound(b.heap, Replaced(O, K, n, o))
  <2> HIDE DEF o
  <2>1. K \in SUBSET DOMAIN O /\ n \notin DOMAIN O \ K
    OBVIOUS
  <2> HIDE DEF K
  <2> QED
    BY <1>1, <1>2, <1>4, <2>1, Replace DEF o
<1>6. Replaced(O, K, n, o) = Replaced(O, {n}, n, o)
  BY DEF Replaced
<1> HIDE DEF o, K
<1> QED
  BY <1>1, <1>3, <1>5, <1>6, HoldsReplaced

\* Copying an object that the heap holds.
LEMMA CopyOf ==
  ASSUME NEW m, NEW W, Holds(m, W), NEW i \in DOMAIN W, Copy(m, W[i].obj).fits
  PROVE  Makes(m, Copy(m, W[i].obj), W[i].val)
<1>1. PICK O : Sound(m, O) /\ Agrees(O, W)
  BY DEF Holds
<1>2. Lies(m, O[i]) /\ O[i].obj = W[i].obj /\ O[i].val = W[i].val
  BY <1>1 DEF Sound, Agrees
<1> QED
  BY <1>2, CopyMakes

\* Copying a member of an object that the heap holds.
LEMMA CopyOfMember ==
  ASSUME NEW m, NEW W, Holds(m, W), NEW i \in DOMAIN W, NEW k \in Places(W[i].val),
         Copy(m, m[W[i].obj.word].val[k]).fits
  PROVE  Makes(m, Copy(m, m[W[i].obj.word].val[k]), W[i].val.val[k])
<1>1. PICK O : Sound(m, O) /\ Agrees(O, W)
  BY DEF Holds
<1>2. Lies(m, O[i]) /\ O[i].obj = W[i].obj /\ O[i].val = W[i].val
  BY <1>1 DEF Sound, Agrees
<1>3. Lies(m, Member(m, O[i], k))
  BY <1>2, MemberLies
<1>4. /\ Member(m, O[i], k).obj = m[W[i].obj.word].val[k]
      /\ Member(m, O[i], k).val = W[i].val.val[k]
  BY <1>2 DEF Member, Thing
<1> QED
  BY <1>3, <1>4, CopyMakes

\* Destroying an object that the heap holds.
LEMMA ObjectGone ==
  ASSUME NEW m, NEW W, Holds(m, W), NEW n \in DOMAIN W
  PROVE  Holds(Destroyed(m, W[n].obj), Replaced(W, {n}, n, Pair(NoJson, Closed)))
<1>1. PICK O : Sound(m, O) /\ Agrees(O, W)
  BY DEF Holds
<1>2. n \in DOMAIN O /\ O[n].obj = W[n].obj
  BY <1>1 DEF Agrees
<1>3. Sound(Destroyed(m, W[n].obj), Replaced(O, {n}, n, Nothing))
  BY <1>1, <1>2, DestroySound
<1>4. Nothing.obj = NoJson /\ Nothing.val = Closed
  BY DEF Nothing, Thing
<1> QED
  BY <1>1, <1>3, <1>4, HoldsReplaced

\* A closed handle needs no cells.
LEMMA NothingStored == Stored(Closed) = {}
<1>1. Closed.kind = "closed" /\ Closed.val = None
  BY DEF Closed
<1>2. Places(Closed) = {}
  BY <1>1 DEF Places
<1>3. \A p \in Parts(Closed) : p = Top
  BY <1>2, PartsAre
<1> QED
  BY <1>1, <1>3, PartIs DEF Stored, Pointed

\* A name of an object that has no cells is forgotten.
LEMMA NameGone ==
  ASSUME NEW m, NEW W, Holds(m, W), NEW n, n \in DOMAIN W => Stored(W[n].val) = {}
  PROVE  Holds(m, [i \in DOMAIN W \ {n} |-> W[i]])
<1>1. PICK O : Sound(m, O) /\ Agrees(O, W)
  BY DEF Holds
<1> DEFINE N == [i \in DOMAIN O \ {n} |-> O[i]]
           V == [i \in DOMAIN W \ {n} |-> W[i]]
<1>2. n \in DOMAIN O => Taken(O[n]) = {}
  BY <1>1 DEF Agrees, Taken
<1>3. DOMAIN N = DOMAIN O \ {n} /\ \A i \in DOMAIN O \ {n} : N[i] = O[i]
  OBVIOUS
<1>4. Agrees(N, V)
  BY <1>1 DEF Agrees
<1> HIDE DEF N, V
<1>5. Sound(m, N)
  BY <1>1, <1>2, <1>3 DEF Sound
<1> QED
  BY <1>4, <1>5 DEF Holds, V
-----------------------------------------------------------------------------
(* operator[], operator= and push_back. *)

\* What null becomes when it is used as a container.
Contained(v, kind) == Cell(kind, IF v.kind = kind THEN v.val ELSE <<>>)

\* A value that was turned into a container if it was null is a container.
LEMMA ContainedIs ==
  ASSUME NEW v, IsJson(v), NEW kind \in {"object", "array"}, v.kind \in {"null", kind}
  PROVE  /\ IsJson(Contained(v, kind)) /\ IsContainer(Contained(v, kind))
         /\ v.kind = "null" => v = Null
         /\ v.kind = kind => Contained(v, kind) = v
<1>1. CASE v.kind = "null"
  <2>1. Contained(v, kind) = [kind |-> kind, val |-> <<>>]
    BY <1>1 DEF Contained, Cell
  <2>2. IsMap(<<>>) /\ IsList(<<>>) /\ DOMAIN <<>> = {}
    BY DEF IsMap, IsList
  <2>3. IsValue([kind |-> kind, val |-> <<>>])
    BY <2>2 DEF IsValue, Object, Array
  <2> QED
    BY <1>1, <2>1, <2>2, <2>3, ValueFacts DEF IsJson, IsContainer
<1>2. CASE v.kind = kind
  <2>1. v = [kind |-> kind, val |-> v.val]
    BY <1>2, ValueFacts DEF IsJson, Object, Array
  <2>2. Contained(v, kind) = v
    BY <1>2, <2>1 DEF Contained, Cell
  <2> QED
    BY <1>2, <2>2 DEF IsContainer
<1> QED
  BY <1>1, <1>2

\* AsContainer leaves the container that the value calls for in the heap.
LEMMA AsContainerHolds ==
  ASSUME NEW m, NEW W, Holds(m, W), NEW i \in DOMAIN W,
         NEW kind \in {"object", "array"}, IsJson(W[i].val), W[i].val.kind \in {"null", kind},
         NEW b, b = AsContainer(m, W[i].obj, kind), b.fits
  PROVE  Holds(b.heap, Replaced(W, {i}, i, Pair(b.json, Contained(W[i].val, kind))))
<1> DEFINE s == W[i].obj
           v == W[i].val
           u == Contained(v, kind)
<1>1. PICK O : Sound(m, O) /\ Agrees(O, W)
  BY DEF Holds
<1>2. s.type = v.kind
  <2>1. s = ObjectOf(v, Top, O[i].at)
    BY <1>1 DEF Sound, Agrees, Lies
  <2> QED
    BY <2>1, ObjectIs, PartIs
<1>3. IsJson(u) /\ (v.kind = "null" => v = Null) /\ (v.kind = kind => u = v)
  BY ContainedIs
<1>4. CASE v.kind = "null"
  <2>1. u = Cell(kind, <<>>)
    BY <1>4 DEF Contained
  <2>2. b = Create(m, u)
    BY <1>2, <1>4, <2>1 DEF AsContainer
  <2>3. Makes(m, b, u)
    <3> HIDE DEF u
    <3> QED
      BY <1>3, <2>2, CreateMakes DEF IsTree
  <2>4. Stored(v) = {}
    <3>1. Places(v) = {} /\ v.kind \notin Pointed
      BY <1>4 DEF Places, Pointed
    <3>2. \A p \in Parts(v) : p = Top
      BY <3>1, PartsAre
    <3> QED
      BY <3>1, <3>2, PartIs DEF Stored
  <2> HIDE DEF u
  <2> QED
    BY <2>3, <2>4, NewObject DEF u
<1>5. CASE v.kind = kind
  <2>1. b.heap = m /\ b.json = s
    BY <1>2, <1>5 DEF AsContainer
  <2>2. Agrees(O, Replaced(W, {i}, i, Pair(s, v)))
    BY <1>1 DEF Agrees, Replaced, Pair
  <2> QED
    BY <1>1, <1>3, <1>5, <2>1, <2>2 DEF Holds
<1> QED
  BY <1>4, <1>5

\* The same object is replaced twice.
LEMMA ReplacedTwice ==
  ASSUME NEW W, NEW i, NEW p, NEW q
  PROVE  Replaced(Replaced(W, {i}, i, p), {i}, i, q) = Replaced(W, {i}, i, q)
BY DEF Replaced

\* Nulls written into a container that the heap holds.
LEMMA FillHolds ==
  ASSUME NEW m, NEW W, Holds(m, W), NEW i \in DOMAIN W, IsContainer(W[i].val),
         NEW D, DOMAIN W[i].val.val \subseteq D, IsJson(Fills(W[i].val, D)),
         NEW g, g = [k \in D |-> IF k \in DOMAIN m[W[i].obj.word].val
                                  THEN m[W[i].obj.word].val[k] ELSE NullJson]
  PROVE  Holds([m EXCEPT ![W[i].obj.word].val = g],
               Replaced(W, {i}, i, Pair(W[i].obj, Fills(W[i].val, D))))
<1> DEFINE s == W[i].obj
           v == W[i].val
           w == [m EXCEPT ![s.word].val = g]
<1>1. PICK O : Sound(m, O) /\ Agrees(O, W)
  BY DEF Holds
<1>2. i \in DOMAIN O /\ O[i].obj = s /\ O[i].val = v /\ Lies(m, O[i]) /\ IsHeap(m)
  BY <1>1 DEF Agrees, Sound
<1> DEFINE n == Thing(s, Fills(v, D), O[i].at)
<1>3. /\ IsHeap(w) /\ Lies(w, n) /\ Taken(n) = Taken(O[i])
      /\ \A a \in Addresses \ Taken(O[i]) : w[a] = m[a]
  <2> DEFINE o == O[i]
  <2>1. IsHeap(m) /\ Lies(m, o) /\ o.obj = s /\ o.val = v
    BY <1>2
  <2> HIDE DEF o
  <2>2. IsContainer(o.val) /\ DOMAIN o.val.val \subseteq D /\ IsJson(Fills(o.val, D))
    BY <2>1
  <2>3. g = [k \in D |-> IF k \in DOMAIN m[o.obj.word].val
                          THEN m[o.obj.word].val[k] ELSE NullJson]
    BY <2>1
  <2>4. FilledAt(m, o, D, g)
    <3> HIDE DEF s, v
    <3> QED
      BY <2>1, <2>2, <2>3, FillLies
  <2>5. w = [m EXCEPT ![o.obj.word].val = g]
    BY <2>1
  <2>6. n = Thing(o.obj, Fills(o.val, D), o.at)
    BY <2>1 DEF o
  <2> HIDE DEF w, n
  <2> QED
    BY <2>4, <2>5, <2>6 DEF FilledAt, o
<1>4. n.obj = s /\ n.val = Fills(v, D)
  BY DEF Thing
<1> HIDE DEF w, n
<1>5. Sound(w, Replaced(O, {i}, i, n))
  BY <1>1, <1>2, <1>3, Replace
<1> QED
  BY <1>1, <1>4, <1>5, HoldsReplaced DEF w

\* A container's cell has the names of its value's members.
LEMMA SlotNames ==
  ASSUME NEW m, NEW W, Holds(m, W), NEW i \in DOMAIN W, IsContainer(W[i].val)
  PROVE  /\ DOMAIN m[W[i].obj.word].val = DOMAIN W[i].val.val
         /\ IsMap(m[W[i].obj.word].val)
         /\ W[i].obj.word \in DOMAIN m
         /\ Places(W[i].val) = DOMAIN W[i].val.val
<1>1. PICK O : Sound(m, O) /\ Agrees(O, W)
  BY DEF Holds
<1>2. O[i].obj = W[i].obj /\ O[i].val = W[i].val /\ Lies(m, O[i]) /\ IsHeap(m)
  BY <1>1 DEF Agrees, Sound
<1>3. LET a == W[i].obj.word
      IN  /\ a \in Addresses
          /\ m[a].val = [k \in DOMAIN W[i].val.val |-> ObjectOf(W[i].val, <<Top, k>>, O[i].at)]
          /\ Places(W[i].val) = DOMAIN W[i].val.val
  BY <1>2, ContainerCell
<1> QED
  BY <1>2, <1>3 DEF IsHeap, IsMap

\* operator[] with a key does to the heap what AtKey does to the value.
LEMMA ByKeyHolds ==
  ASSUME NEW m, NEW W, Holds(m, W), NEW i \in DOMAIN W,
         IsJson(W[i].val), Keyed(W[i].val), NEW k,
         NEW b, b = ByKey(m, W[i].obj, k), b.fits
  PROVE  /\ Holds(b.heap, Replaced(W, {i}, i, Pair(b.json, AtKey(W[i].val, k))))
         /\ IsJson(AtKey(W[i].val, k))
<1> DEFINE s == W[i].obj
           v == W[i].val
           c == AsContainer(m, s, "object")
           u == Contained(v, "object")
           V == Replaced(W, {i}, i, Pair(c.json, u))
           f == c.heap[c.json.word].val
           D == DOMAIN f \cup {k}
           g == [j \in D |-> IF j \in DOMAIN f THEN f[j] ELSE NullJson]
<1>1. c = [fits |-> c.fits, json |-> c.json, heap |-> c.heap]
  BY DEF AsContainer, Create
<1>2. b = [c EXCEPT !.heap[c.json.word].val = g]
  BY DEF ByKey
<1>3. b.fits = c.fits /\ b.json = c.json /\ b.heap = [c.heap EXCEPT ![c.json.word].val = g]
  <2> HIDE DEF c, g
  <2> QED
    BY <1>1, <1>2
<1>4. v.kind \in {"null", "object"}
  BY DEF Keyed
<1>5. IsJson(u) /\ IsContainer(u)
  BY <1>4, ContainedIs
<1>6. Holds(c.heap, V)
  <2> HIDE DEF u
  <2> QED
    BY <1>3, <1>4, AsContainerHolds DEF u
<1>7. i \in DOMAIN V /\ V[i].obj = c.json /\ V[i].val = u
  BY DEF Replaced, Pair
<1>8. DOMAIN f = DOMAIN u.val
  <2> HIDE DEF c, V, u
  <2> QED
    BY <1>5, <1>6, <1>7, SlotNames
<1>9. u.kind = "object" /\ u.val = Members(v)
  BY <1>4 DEF Contained, Cell, Members
<1>10. Fills(u, D) = AtKey(v, k)
  <2> HIDE DEF u, f
  <2> QED
    BY <1>8, <1>9, AtKeyIs DEF Fills, Object
<1>11. IsJson(AtKey(v, k))
  BY ReadKey
<1> HIDE DEF c, u, V, f, g, D
<1>12. DOMAIN V[i].val.val \subseteq D
  BY <1>7, <1>8 DEF D
<1>13. g = [j \in D |-> IF j \in DOMAIN c.heap[V[i].obj.word].val
                          THEN c.heap[V[i].obj.word].val[j] ELSE NullJson]
  BY <1>7 DEF g, f
<1>14. Holds([c.heap EXCEPT ![V[i].obj.word].val = g],
             Replaced(V, {i}, i, Pair(V[i].obj, Fills(V[i].val, D))))
  BY <1>5, <1>6, <1>7, <1>10, <1>11, <1>12, <1>13, FillHolds
<1>15. Holds(b.heap, Replaced(V, {i}, i, Pair(b.json, AtKey(v, k))))
  BY <1>3, <1>7, <1>10, <1>14
<1> QED
  BY <1>11, <1>15, ReplacedTwice DEF V

\* operator[] with an index does to the heap what AtIndex does to the value.
LEMMA ByIndexHolds ==
  ASSUME NEW m, NEW W, Holds(m, W), NEW i \in DOMAIN W,
         IsJson(W[i].val), Indexed(W[i].val), NEW k \in Nat,
         NEW b, b = ByIndex(m, W[i].obj, k), b.fits
  PROVE  /\ Holds(b.heap, Replaced(W, {i}, i, Pair(b.json, AtIndex(W[i].val, k))))
         /\ IsJson(AtIndex(W[i].val, k))
<1> DEFINE s == W[i].obj
           v == W[i].val
           c == AsContainer(m, s, "array")
           u == Contained(v, "array")
           V == Replaced(W, {i}, i, Pair(c.json, u))
           f == c.heap[c.json.word].val
           D == 1..(IF k < Len(f) THEN Len(f) ELSE k + 1)
           g == [j \in D |-> IF j <= Len(f) THEN f[j] ELSE NullJson]
<1>1. c = [fits |-> c.fits, json |-> c.json, heap |-> c.heap]
  BY DEF AsContainer, Create
<1>2. b = [c EXCEPT !.heap[c.json.word].val = g]
  BY DEF ByIndex
<1>3. b.fits = c.fits /\ b.json = c.json /\ b.heap = [c.heap EXCEPT ![c.json.word].val = g]
  <2> HIDE DEF c, g
  <2> QED
    BY <1>1, <1>2
<1>4. v.kind \in {"null", "array"}
  BY DEF Indexed
<1>5. IsJson(u) /\ IsContainer(u)
  BY <1>4, ContainedIs
<1>6. Holds(c.heap, V)
  <2> HIDE DEF u
  <2> QED
    BY <1>3, <1>4, AsContainerHolds DEF u
<1>7. i \in DOMAIN V /\ V[i].obj = c.json /\ V[i].val = u
  BY DEF Replaced, Pair
<1>8. DOMAIN f = DOMAIN u.val /\ IsMap(f)
  <2> HIDE DEF c, V, u
  <2> QED
    BY <1>5, <1>6, <1>7, SlotNames
<1>9. u.kind = "array" /\ u.val = Elements(v)
  BY <1>4 DEF Contained, Cell, Elements
<1>10. IsList(Elements(v))
  BY ElementFacts DEF IsJson
<1>11. Len(Elements(v)) \in Nat /\ DOMAIN Elements(v) = 1..Len(Elements(v))
  BY <1>10, ListIsMap
<1>12. Len(f) = Len(Elements(v)) /\ DOMAIN f = 1..Len(f) /\ DOMAIN f = DOMAIN Elements(v)
  <2> HIDE DEF f, u
  <2> QED
    BY <1>8, <1>9, <1>11, MapIsList
<1> HIDE DEF f, u
<1>13. \A j \in D : j <= Len(f) <=> j \in DOMAIN f
  BY <1>11, <1>12
<1>14. DOMAIN Elements(v) \subseteq D
  BY <1>11, <1>12
<1>15. Fills(u, D) = AtIndex(v, k)
  <2>1. AtIndex(v, k) = Array([j \in D |-> IF j <= Len(f) THEN Elements(v)[j] ELSE Null])
    BY <1>12 DEF AtIndex
  <2>2. [j \in D |-> IF j <= Len(f) THEN Elements(v)[j] ELSE Null]
          = [j \in D |-> IF j \in DOMAIN Elements(v) THEN Elements(v)[j] ELSE Null]
    <3> HIDE DEF D
    <3> QED
      BY <1>12, <1>13
  <2> HIDE DEF D
  <2> QED
    BY <1>9, <2>1, <2>2 DEF Fills, Array
<1>16. IsJson(AtIndex(v, k))
  BY ReadIndex
<1>17. g = [j \in D |-> IF j \in DOMAIN f THEN f[j] ELSE NullJson]
  <2> HIDE DEF D
  <2> QED
    BY <1>13
<1> HIDE DEF c, V, g, D
<1>18. DOMAIN V[i].val.val \subseteq D
  BY <1>7, <1>9, <1>14
<1>19. g = [j \in D |-> IF j \in DOMAIN c.heap[V[i].obj.word].val
                          THEN c.heap[V[i].obj.word].val[j] ELSE NullJson]
  BY <1>7, <1>17 DEF f
<1>20. Holds([c.heap EXCEPT ![V[i].obj.word].val = g],
             Replaced(V, {i}, i, Pair(V[i].obj, Fills(V[i].val, D))))
  BY <1>5, <1>6, <1>7, <1>15, <1>16, <1>18, <1>19, FillHolds
<1>21. Holds(b.heap, Replaced(V, {i}, i, Pair(b.json, AtIndex(v, k))))
  BY <1>3, <1>7, <1>15, <1>20
<1> QED
  BY <1>16, <1>21, ReplacedTwice DEF V
\* operator= of a member.
LEMMA AssignedHolds ==
  ASSUME NEW m, NEW W, Holds(m, W), NEW i \in DOMAIN W, NEW n \in DOMAIN W, i # n,
         IsContainer(W[i].val), NEW k \in DOMAIN W[i].val.val,
         IsJson(PutAt(W[i].val, k, W[n].val))
  PROVE  Holds(Assigned(m, W[i].obj.word, k, W[n].obj),
               Replaced(W, {i, n}, i, Pair(W[i].obj, PutAt(W[i].val, k, W[n].val))))
<1>1. PICK O : Sound(m, O) /\ Agrees(O, W)
  BY DEF Holds
<1>2. /\ i \in DOMAIN O /\ O[i].obj = W[i].obj /\ O[i].val = W[i].val
      /\ n \in DOMAIN O /\ O[n].obj = W[n].obj /\ O[n].val = W[n].val
  BY <1>1 DEF Agrees
<1> DEFINE v == W[i].val
           a == W[i].obj.word
           f == m[a].val
           g == [j \in DOMAIN f \cup {k} |-> IF j = k THEN W[n].obj ELSE f[j]]
           w == [m EXCEPT ![a].val = g]
           old == Member(m, O[i], k)
           z == Assigned(m, a, k, W[n].obj)
<1>3. PICK t : LET p == Thing(W[i].obj, PutAt(v, k, W[n].val), t)
               IN  /\ IsHeap(w) /\ Lies(w, p)
                   /\ a \in Taken(p)
                   /\ \A b \in Addresses \ {a} : w[b] = m[b]
                   /\ Taken(p) = Rest(O[i], k) \cup Taken(O[n])
  <2>1. /\ IsHeap(m) /\ Lies(m, O[i]) /\ Lies(m, O[n])
        /\ Taken(O[i]) \cap Taken(O[n]) = {}
    BY <1>1, <1>2 DEF Sound
  <2>2. Puts(m, w, O[i], k, O[n])
    BY <1>2, <2>1, PutLies
  <2> HIDE DEF w
  <2> QED
    BY <1>2, <2>2 DEF Puts
<1> DEFINE p == Thing(W[i].obj, PutAt(v, k, W[n].val), t)
<1>4. /\ DOMAIN f = DOMAIN v.val /\ IsMap(f) /\ a \in DOMAIN m
      /\ k \in Places(v)
  BY SlotNames
<1>5. w = [m EXCEPT ![a].val[k] = W[n].obj]
  <2>1. g = [f EXCEPT ![k] = W[n].obj]
    <3> HIDE DEF f
    <3> QED
      BY <1>4 DEF IsMap
  <2> QED
    BY <2>1
<1>6. z = Destroyed(w, f[k])
  BY <1>5 DEF Assigned
<1>7. Lies(m, O[i]) /\ IsTree(v) /\ Injects(O[i].at, Stored(v), Addresses)
  BY <1>1, <1>2 DEF Sound, Lies
<1>8. /\ Lies(m, old) /\ old.obj = f[k]
      /\ old.val = v.val[k]
      /\ \A q \in Stored(v.val[k]) : Below(k, q) \in Stored(v) /\ Below(k, q) # Top
      /\ Taken(old) = {O[i].at[Below(k, q)] : q \in Stored(v.val[k])}
  <2>1. old.obj = f[k] /\ old.val = v.val[k]
    BY <1>2 DEF Member, Thing
  <2> HIDE DEF old
  <2> QED
    BY <1>2, <1>4, <1>7, <2>1, MemberLies DEF old
<1>9. a = O[i].at[Top] /\ Top \in Stored(v)
  BY <1>2, <1>7, ContainerCell
<1> HIDE DEF v, a, f, g, w, old, z, p
<1>10. Taken(old) = CellsOf(O[i], {q \in Stored(v) : UnderAt(k, q)})
  <2>1. ASSUME NEW q \in Stored(v), UnderAt(k, q)
        PROVE  \E x \in Stored(v.val[k]) : q = Below(k, x)
    <3>1. q \in Parts(v)
      BY DEF Stored
    <3>2. PICK x \in Parts(v.val[k]) : q = Below(k, x)
      BY <2>1, <3>1, UnderIsBelow
    <3>3. Part(v, q) = Part(v.val[k], x)
      BY <1>4, <1>7, <3>2, MemberParts
    <3>4. x \in Stored(v.val[k])
      BY <3>1, <3>3, StoredIs
    <3> QED
      BY <3>2, <3>4
  <2>2. ASSUME NEW x \in Stored(v.val[k]) PROVE UnderAt(k, Below(k, x))
    <3>1. x \in Parts(v.val[k])
      BY DEF Stored
    <3>2. Below(k, x) \in Parts(v)
      BY <1>4, <1>7, <3>1, MemberParts
    <3> QED
      BY <1>4, <3>1, <3>2, UnderIsBelow
  <2> QED
    BY <1>8, <2>1, <2>2 DEF CellsOf
<1>11. Taken(old) \cap Rest(O[i], k) = {} /\ Taken(O[i]) = Rest(O[i], k) \cup Taken(old)
  <2>1. Taken(O[i]) = CellsOf(O[i], Stored(v))
    BY <1>2 DEF Taken, CellsOf, v
  <2>2. ASSUME NEW q \in Stored(v), NEW x \in Stored(v), O[i].at[q] = O[i].at[x] PROVE q = x
    BY <1>7, <2>2 DEF Injects
  <2> QED
    BY <1>2, <1>10, <2>1, <2>2 DEF CellsOf, Rest, v
<1>12. a \notin Taken(old)
  BY <1>7, <1>8, <1>9 DEF Injects
<1>13. /\ IsHeap(w) /\ Lies(w, p) /\ a \in Taken(p)
       /\ \A b \in Addresses \ {a} : w[b] = m[b]
       /\ Taken(p) = Rest(O[i], k) \cup Taken(O[n])
       /\ Taken(O[i]) \cap Taken(O[n]) = {}
  BY <1>1, <1>2, <1>3 DEF p, Sound
<1>14. Lies(w, old)
  <2>1. \A b \in Taken(old) : b \in Addresses
    BY <1>8, InUse
  <2> QED
    BY <1>8, <1>12, <1>13, <2>1, Frame
<1>15. /\ IsHeap(z)
       /\ \A b \in Addresses : z[b] = IF b \in Taken(old) THEN Unused ELSE w[b]
  BY <1>6, <1>8, <1>14, DestroyedIs
<1>16. Taken(p) \cap Taken(old) = {}
  BY <1>11, <1>13
<1>17. Lies(z, p)
  <2>1. \A b \in Taken(p) : b \in Addresses
    BY <1>13, InUse
  <2> QED
    BY <1>13, <1>15, <1>16, <2>1, Frame
<1>18. \A b \in Taken(p) : \E j \in {i, n} : b \in Taken(O[j])
  BY <1>11, <1>13
<1>19. \A b \in Addresses \ Taken(p) :
         z[b] = IF \E j \in {i, n} : b \in Taken(O[j]) THEN Unused ELSE m[b]
  BY <1>11, <1>13, <1>15
<1>20. Sound(z, Replaced(O, {i, n}, i, p))
  BY <1>1, <1>2, <1>15, <1>17, <1>18, <1>19, Replace
<1>21. p.obj = W[i].obj /\ p.val = PutAt(v, k, W[n].val)
  BY DEF p, Thing
<1> QED
  BY <1>1, <1>20, <1>21, HoldsReplaced DEF z, v, a

\* push_back, behind the last element.
LEMMA PushedHolds ==
  ASSUME NEW m, NEW W, Holds(m, W), NEW i \in DOMAIN W, NEW n \in DOMAIN W, i # n,
         W[i].val.kind = "array", IsList(W[i].val.val), NEW k, k = Len(W[i].val.val) + 1,
         IsJson(PutAt(W[i].val, k, W[n].val))
  PROVE  Holds([m EXCEPT ![W[i].obj.word].val = Append(m[W[i].obj.word].val, W[n].obj)],
               Replaced(W, {i, n}, i, Pair(W[i].obj, PutAt(W[i].val, k, W[n].val))))
<1>1. PICK O : Sound(m, O) /\ Agrees(O, W)
  BY DEF Holds
<1>2. /\ i \in DOMAIN O /\ O[i].obj = W[i].obj /\ O[i].val = W[i].val
      /\ n \in DOMAIN O /\ O[n].obj = W[n].obj /\ O[n].val = W[n].val
  BY <1>1 DEF Agrees
<1> DEFINE v == W[i].val
           a == W[i].obj.word
           f == m[a].val
           g == [j \in DOMAIN f \cup {k} |-> IF j = k THEN W[n].obj ELSE f[j]]
           w == [m EXCEPT ![a].val = g]
<1>3. IsContainer(v)
  BY DEF IsContainer
<1>4. PICK t : LET p == Thing(W[i].obj, PutAt(v, k, W[n].val), t)
               IN  /\ IsHeap(w) /\ Lies(w, p)
                   /\ a \in Taken(p)
                   /\ \A b \in Addresses \ {a} : w[b] = m[b]
                   /\ Taken(p) = Rest(O[i], k) \cup Taken(O[n])
  <2>1. /\ IsHeap(m) /\ Lies(m, O[i]) /\ Lies(m, O[n])
        /\ Taken(O[i]) \cap Taken(O[n]) = {}
    BY <1>1, <1>2 DEF Sound
  <2>2. Puts(m, w, O[i], k, O[n])
    BY <1>2, <1>3, <2>1, PutLies
  <2> HIDE DEF w
  <2> QED
    BY <1>2, <2>2 DEF Puts
<1> DEFINE p == Thing(W[i].obj, PutAt(v, k, W[n].val), t)
<1>5. DOMAIN f = DOMAIN v.val /\ IsMap(f) /\ Places(v) = DOMAIN v.val
  BY <1>3, SlotNames
<1>6. Len(v.val) \in Nat /\ DOMAIN v.val = 1..Len(v.val)
  BY ListIsMap
<1>7. IsList(f) /\ Len(f) = Len(v.val)
  <2> HIDE DEF f, v
  <2> QED
    BY <1>5, <1>6, MapIsList
<1>8. Append(f, W[n].obj) = g
  <2>1. PushBack(Array(f), W[n].obj) = Array(Append(f, W[n].obj))
    BY DEF PushBack, Array, Elements
  <2>2. Elements(Array(f)) = f
    BY DEF Elements, Array
  <2>3. k = Len(f) + 1
    BY <1>7
  <2> HIDE DEF f, v
  <2>4. PushBack(Array(f), W[n].obj) =
          Array([j \in DOMAIN f \cup {Len(f) + 1} |->
                   IF j = Len(f) + 1 THEN W[n].obj ELSE f[j]])
    <3>1. IsList(Elements(Array(f)))
      BY <1>7, <2>2
    <3> QED
      BY <2>2, <3>1, PushBackIs
  <2>5. PushBack(Array(f), W[n].obj) = Array(g)
    BY <2>3, <2>4
  <2> QED
    BY <2>1, <2>5 DEF Array
<1>9. Rest(O[i], k) = Taken(O[i])
  <2>1. ASSUME NEW q \in Stored(v) PROVE ~UnderAt(k, q)
    <3>1. q \in Parts(v)
      BY DEF Stored
    <3>2. k \notin Places(v)
      BY <1>5, <1>6
    <3> QED
      BY <3>1, <3>2, UnderIsBelow
  <2> QED
    BY <1>2, <2>1 DEF Taken, CellsOf, Rest
<1> HIDE DEF v, a, f, g, w, p
<1>10. /\ IsHeap(w) /\ Lies(w, p) /\ a \in Taken(p)
       /\ \A b \in Addresses \ {a} : w[b] = m[b]
       /\ Taken(p) = Taken(O[i]) \cup Taken(O[n])
  BY <1>4, <1>9 DEF p
<1>11. Sound(w, Replaced(O, {i, n}, i, p))
  <2>1. \A b \in Taken(p) : \E j \in {i, n} : b \in Taken(O[j])
    BY <1>10
  <2>2. \A b \in Addresses \ Taken(p) :
          w[b] = IF \E j \in {i, n} : b \in Taken(O[j]) THEN Unused ELSE m[b]
    BY <1>10
  <2> QED
    BY <1>1, <1>2, <1>10, <2>1, <2>2, Replace
<1>12. p.obj = W[i].obj /\ p.val = PutAt(v, k, W[n].val)
  BY DEF p, Thing
<1> QED
  BY <1>1, <1>8, <1>11, <1>12, HoldsReplaced DEF w, v, a, f
-----------------------------------------------------------------------------
(* The invariant: every handle's object stands for its value in the heap. *)

\* The objects of the handles, and the values that JsonValues gives them.
World == [h \in Handles |-> Pair(root[h], values[h])]

\* The inductive invariant: that of JsonValues, and the heap holds World.
MInv ==
  /\ JInv
  /\ root = [h \in Handles |-> root[h]]
  /\ Holds(heap, World)

\* What every step has to show of the heap.
HeapKept == root' = [h \in Handles |-> root'[h]] /\ Holds(heap', World')

\* What the invariant says of one handle.
LEMMA WorldIs ==
  ASSUME MInv
  PROVE  /\ Holds(heap, World) /\ DOMAIN World = Handles
         /\ \A h \in Handles :
              World[h] = Pair(root[h], values[h]) /\ World[h].obj = root[h] /\ World[h].val = values[h]
         /\ values = [h \in Handles |-> values[h]] /\ root = [h \in Handles |-> root[h]]
BY DEF MInv, World, Pair, JInv, TypeOK

\* Setting is putting where operator[] has made place.
LEMMA SetIsPut ==
  ASSUME NEW v, NEW k, NEW x
  PROVE  /\ SetAt(v, k, x) = PutAt(AtKey(v, k), k, x)
         /\ k \in DOMAIN AtKey(v, k).val /\ IsContainer(AtKey(v, k))
<1>1. AtKey(v, k).kind = "object" /\ DOMAIN AtKey(v, k).val = DOMAIN Members(v) \cup {k}
  BY DEF AtKey, Object
<1>2. SetAt(v, k, x) = Object([j \in DOMAIN Members(v) \cup {k} |->
                                 IF j = k THEN x ELSE Members(v)[j]])
  BY SetAtIs
<1>3. PutAt(AtKey(v, k), k, x) = Object([j \in DOMAIN Members(v) \cup {k} |->
                                           IF j = k THEN x ELSE AtKey(v, k).val[j]])
  <2>1. (DOMAIN Members(v) \cup {k}) \cup {k} = DOMAIN Members(v) \cup {k}
    OBVIOUS
  <2> QED
    BY <1>1, <2>1 DEF PutAt, Object
<1>4. \A j \in DOMAIN Members(v) \cup {k} : j # k => AtKey(v, k).val[j] = Members(v)[j]
  BY DEF AtKey, Object
<1>5. [j \in DOMAIN Members(v) \cup {k} |-> IF j = k THEN x ELSE Members(v)[j]]
        = [j \in DOMAIN Members(v) \cup {k} |-> IF j = k THEN x ELSE AtKey(v, k).val[j]]
  BY <1>4
<1> QED
  BY <1>1, <1>2, <1>3, <1>5 DEF IsContainer

\* What is to be set has been made, and operator[] has made place for it: W is the
\* world and object t, which stands for x, and the next step swaps it in.
SwapsIn(m, W, h, t, k, x) ==
  /\ Holds(m, W)
  /\ t \notin Handles /\ DOMAIN W = Handles \cup {t}
  /\ W[h].val = AtKey(values[h], k) /\ W[t].val = x
  /\ \A g \in Handles \ {h} : W[g] = World[g]
  /\ heap' = Assigned(m, W[h].obj.word, k, W[t].obj)
  /\ root' = [root EXCEPT ![h] = W[h].obj]
  /\ values' = [values EXCEPT ![h] = SetAt(values[h], k, x)]

\* operator= after operator[] keeps the invariant.
LEMMA SwappedIn ==
  ASSUME MInv, NEW h \in Handles, IsJson(values[h]), Keyed(values[h]),
         NEW k, NEW x, IsFlat(x), NEW m, NEW W, NEW t, SwapsIn(m, W, h, t, k, x)
  PROVE  HeapKept
<1> USE DEF SwapsIn
<1> DEFINE v == SetAt(values[h], k, x)
           p == Pair(W[h].obj, v)
<1>1. /\ v = PutAt(W[h].val, k, W[t].val)
      /\ k \in DOMAIN W[h].val.val /\ IsContainer(W[h].val)
  BY SetIsPut
<1>2. IsJson(v)
  BY SetMember
<1> HIDE DEF v
<1>3. Holds(heap', Replaced(W, {h, t}, h, p))
  BY <1>1, <1>2, AssignedHolds
<1>4. World' = [g \in Handles |-> Pair(root'[g], values'[g])]
  BY DEF World
<1>5. /\ root' = [g \in Handles |-> IF g = h THEN W[h].obj ELSE root[g]]
      /\ values' = [g \in Handles |-> IF g = h THEN v ELSE values[g]]
  BY WorldIs DEF v
<1>6. Replaced(W, {h, t}, h, p) = [g \in Handles |-> IF g = h THEN p ELSE World[g]]
  <2>1. (DOMAIN W \ {h, t}) \cup {h} = Handles
    OBVIOUS
  <2> HIDE DEF p
  <2> QED
    BY <2>1 DEF Replaced
<1>7. World' = [g \in Handles |-> IF g = h THEN p ELSE World[g]]
  BY <1>4, <1>5, WorldIs
<1> QED
  BY <1>3, <1>5, <1>6, <1>7 DEF HeapKept

\* So does setting a member to an object that was just made.
LEMMA PutMemberKeeps ==
  ASSUME MInv, NEW h \in Handles, Keyed(values[h]),
         NEW k, NEW x, IsFlat(x), values' = [values EXCEPT ![h] = SetAt(values[h], k, x)],
         NEW new, Makes(heap, new, x), PutMember(h, k, new)
  PROVE  HeapKept
<1>1. PICK t : t \notin Handles
  BY NewName
<1> DEFINE b == ByKey(new.heap, root[h], k)
           W1 == Replaced(World, {t}, t, Pair(new.json, x))
           W2 == Replaced(W1, {h}, h, Pair(b.json, AtKey(values[h], k)))
<1>2. IsJson(values[h])
  BY AcceptsIfOpen DEF MInv
<1>3. Holds(new.heap, W1)
  BY <1>1, WorldIs, NewObject
<1>4. /\ DOMAIN W1 = Handles \cup {t} /\ W1[t] = Pair(new.json, x)
      /\ \A g \in Handles : W1[g] = World[g]
  BY <1>1, WorldIs DEF Replaced
<1>5. W1[h].obj = root[h] /\ W1[h].val = values[h]
  BY <1>4, WorldIs
<1>6. /\ b.fits /\ heap' = Assigned(b.heap, b.json.word, k, new.json)
      /\ root' = [root EXCEPT ![h] = b.json]
  BY DEF PutMember, Leaves
<1> HIDE DEF b, W1
<1>7. Holds(b.heap, W2)
  BY <1>2, <1>3, <1>4, <1>5, <1>6, ByKeyHolds DEF b
<1>8. /\ DOMAIN W2 = Handles \cup {t}
      /\ W2[h] = Pair(b.json, AtKey(values[h], k)) /\ W2[t] = Pair(new.json, x)
      /\ \A g \in Handles \ {h} : W2[g] = World[g]
  BY <1>1, <1>4 DEF Replaced
<1> HIDE DEF W2
<1>9. /\ W2[h].obj = b.json /\ W2[h].val = AtKey(values[h], k)
      /\ W2[t].obj = new.json /\ W2[t].val = x
  BY <1>8 DEF Pair
<1>10. /\ heap' = Assigned(b.heap, W2[h].obj.word, k, W2[t].obj)
       /\ root' = [root EXCEPT ![h] = W2[h].obj]
  BY <1>6, <1>9
<1>11. SwapsIn(b.heap, W2, h, t, k, x)
  BY <1>1, <1>7, <1>8, <1>9, <1>10 DEF SwapsIn
<1> QED
  BY <1>2, <1>11, SwappedIn

\* One lemma for each native.
LEMMA MSetScalarKeeps ==
  ASSUME MInv, NEW h \in Handles, NEW k \in Keys, NEW t \in Types, MSetScalar(h, k, t)
  PROVE  HeapKept
<1> DEFINE x == Scalar(t, GivenValue)
           new == Create(heap, x)
<1>1. x \in Atoms
  BY JsonConstants DEF Atoms, Scalar
<1>2. IsFlat(x) /\ IsTree(x)
  BY <1>1, AtomIsFlat, FlatIsJson DEF IsTree
<1>3. /\ Keyed(values[h]) /\ values' = [values EXCEPT ![h] = SetAt(values[h], k, x)]
      /\ PutMember(h, k, new)
  BY DEF MSetScalar, SetScalar, Change
<1> HIDE DEF x
<1>4. Makes(heap, new, x)
  BY <1>2, <1>3, CreateMakes DEF PutMember
<1> HIDE DEF new
<1> QED
  BY <1>2, <1>3, <1>4, PutMemberKeeps

\* With the copy made before operator[] or after it, and of the value itself.
LEMMA MSetJSONKeeps ==
  ASSUME MInv, NEW h \in Handles, NEW k \in Keys, NEW g \in Handles, NEW early \in BOOLEAN,
         MSetJSON(h, k, g, early)
  PROVE  HeapKept
<1> DEFINE x == IF early \/ h # g THEN values[g] ELSE AtKey(values[h], k)
<1>1. /\ Keyed(values[h]) /\ IsOpen(g) /\ Flat(values[g])
      /\ values' = [values EXCEPT ![h] = SetAt(values[h], k, x)]
  BY DEF MSetJSON, SetJSON, Change
<1>2. IsJson(values[h]) /\ IsFlat(values[g])
  BY <1>1, AcceptsIfOpen, GivenHandle DEF MInv
<1>3. IsFlat(x)
  BY <1>1, <1>2, ReadKey
<1>4. CASE early
  <2> DEFINE new == Copy(heap, root[g])
  <2>1. PutMember(h, k, new)
    BY <1>4 DEF MSetJSON
  <2>2. World[g].obj = root[g] /\ World[g].val = x /\ Holds(heap, World) /\ g \in DOMAIN World
    BY <1>4, WorldIs
  <2>3. Makes(heap, new, x)
    BY <2>1, <2>2, CopyOf DEF PutMember
  <2> HIDE DEF new, x
  <2> QED
    BY <1>1, <1>3, <2>1, <2>3, PutMemberKeeps
<1>5. CASE ~early
  <2>1. PICK t : t \notin Handles
    BY NewName
  <2> DEFINE b == ByKey(heap, root[h], k)
             s == IF h = g THEN b.json ELSE root[g]
             new == Copy(b.heap, s)
             W1 == Replaced(World, {h}, h, Pair(b.json, AtKey(values[h], k)))
             W2 == Replaced(W1, {t}, t, Pair(new.json, x))
  <2>2. /\ b.fits /\ new.fits /\ heap' = Assigned(new.heap, b.json.word, k, new.json)
        /\ root' = [root EXCEPT ![h] = b.json]
    BY <1>5 DEF MSetJSON, Leaves
  <2> HIDE DEF b, x, s
  <2>3. Holds(b.heap, W1)
    <3>1. /\ b = ByKey(heap, World[h].obj, k) /\ b.fits
          /\ World[h].val = values[h] /\ Holds(heap, World) /\ h \in DOMAIN World
      BY <2>2, WorldIs DEF b
    <3> QED
      BY <1>1, <1>2, <3>1, ByKeyHolds
  <2>4. /\ DOMAIN W1 = Handles /\ W1[h] = Pair(b.json, AtKey(values[h], k))
        /\ \A f \in Handles \ {h} : W1[f] = World[f]
    BY WorldIs DEF Replaced
  <2> HIDE DEF W1
  <2>5. W1[g].obj = s /\ W1[g].val = x
    <3>1. CASE h = g
      BY <1>5, <2>4, <3>1 DEF Pair, s, x
    <3>2. CASE h # g
      BY <2>4, <3>2, WorldIs DEF s, x
    <3> QED
      BY <3>1, <3>2
  <2>6. Makes(b.heap, new, x)
    BY <2>2, <2>3, <2>4, <2>5, CopyOf
  <2> HIDE DEF new
  <2>7. Holds(new.heap, W2)
    BY <2>1, <2>3, <2>4, <2>6, NewObject
  <2>8. /\ DOMAIN W2 = Handles \cup {t}
        /\ W2[h] = Pair(b.json, AtKey(values[h], k)) /\ W2[t] = Pair(new.json, x)
        /\ \A f \in Handles \ {h} : W2[f] = World[f]
    BY <2>1, <2>4 DEF Replaced
  <2> HIDE DEF W2
  <2>9. /\ W2[h].obj = b.json /\ W2[h].val = AtKey(values[h], k)
        /\ W2[t].obj = new.json /\ W2[t].val = x
    BY <2>8 DEF Pair
  <2>10. /\ heap' = Assigned(new.heap, W2[h].obj.word, k, W2[t].obj)
         /\ root' = [root EXCEPT ![h] = W2[h].obj]
    BY <2>2, <2>9
  <2>11. values' = [values EXCEPT ![h] = SetAt(values[h], k, x)]
    BY <1>1 DEF x
  <2>12. SwapsIn(new.heap, W2, h, t, k, x)
    BY <2>1, <2>7, <2>8, <2>9, <2>10, <2>11 DEF SwapsIn
  <2> QED
    BY <1>1, <1>2, <1>3, <2>12, SwappedIn
<1> QED
  BY <1>4, <1>5

\* A native that only reads leaves what operator[] has made.
LEMMA ReadKeeps ==
  ASSUME MInv, NEW h \in Handles, NEW b, NEW v,
         Holds(b.heap, Replaced(World, {h}, h, Pair(b.json, v))),
         values' = [values EXCEPT ![h] = v], Leaves(h, b, b.heap)
  PROVE  HeapKept
<1>1. heap' = b.heap /\ root' = [root EXCEPT ![h] = b.json]
  BY DEF Leaves
<1>2. /\ root' = [g \in Handles |-> IF g = h THEN b.json ELSE root[g]]
      /\ values' = [g \in Handles |-> IF g = h THEN v ELSE values[g]]
  BY <1>1, WorldIs
<1>3. World' = [g \in Handles |-> Pair(root'[g], values'[g])]
  BY DEF World
<1>4. World' = Replaced(World, {h}, h, Pair(b.json, v))
  BY <1>2, <1>3, WorldIs DEF Replaced
<1> QED
  BY <1>1, <1>2, <1>4 DEF HeapKept

\* Reading a scalar may leave a null behind.
LEMMA MGetScalarKeeps ==
  ASSUME MInv, NEW h \in Handles, NEW k \in Keys, MGetScalar(h, k)
  PROVE  HeapKept
<1> DEFINE b == ByKey(heap, root[h], k)
<1>1. /\ Keyed(values[h]) /\ values' = [values EXCEPT ![h] = AtKey(values[h], k)]
      /\ Leaves(h, b, b.heap)
  BY DEF MGetScalar, GetScalar, GetNoString, Change
<1>2. IsJson(values[h])
  BY <1>1, AcceptsIfOpen DEF MInv
<1> HIDE DEF b
<1>3. Holds(b.heap, Replaced(World, {h}, h, Pair(b.json, AtKey(values[h], k))))
  <2>1. /\ b = ByKey(heap, World[h].obj, k) /\ b.fits
        /\ World[h].val = values[h] /\ Holds(heap, World) /\ h \in DOMAIN World
    BY <1>1, WorldIs DEF b, Leaves
  <2> QED
    BY <1>1, <1>2, <2>1, ByKeyHolds
<1> QED
  BY <1>1, <1>3, ReadKeeps

\* So may reading one by its position.
LEMMA MGetArrayScalarKeeps ==
  ASSUME MInv, NEW h \in Handles, NEW i \in Nat, MGetArrayScalar(h, i)
  PROVE  HeapKept
<1> DEFINE b == ByIndex(heap, root[h], i)
<1>1. /\ Indexed(values[h]) /\ values' = [values EXCEPT ![h] = AtIndex(values[h], i)]
      /\ Leaves(h, b, b.heap)
  BY DEF MGetArrayScalar, GetArrayScalar, Change
<1>2. IsJson(values[h])
  BY <1>1, AcceptsIfOpen DEF MInv
<1> HIDE DEF b
<1>3. Holds(b.heap, Replaced(World, {h}, h, Pair(b.json, AtIndex(values[h], i))))
  <2>1. /\ b = ByIndex(heap, World[h].obj, i) /\ b.fits
        /\ World[h].val = values[h] /\ Holds(heap, World) /\ h \in DOMAIN World
    BY <1>1, WorldIs DEF b, Leaves
  <2> QED
    BY <1>1, <1>2, <2>1, ByIndexHolds
<1> QED
  BY <1>1, <1>3, ReadKeeps
\* A member is copied twice, to a local variable and from there to a new handle.
LEMMA GivenKeeps ==
  ASSUME MInv, NEW h \in Handles, NEW b, NEW v,
         Holds(b.heap, Replaced(World, {h}, h, Pair(b.json, v))),
         NEW k \in Places(v), NEW g \in Handles, OpenWith(g, v.val[k], h, v), IsOpen(h),
         GiveMember(h, b, k, g)
  PROVE  HeapKept
<1>1. PICK t : t \notin Handles
  BY NewName
<1> DEFINE res == Copy(b.heap, b.heap[b.json.word].val[k])
           new == Copy(res.heap, res.json)
           x == v.val[k]
           W1 == Replaced(World, {h}, h, Pair(b.json, v))
           W2 == Replaced(W1, {t}, t, Pair(res.json, x))
           W3 == Replaced(W2, {g}, g, Pair(new.json, x))
           W4 == Replaced(W3, {t}, t, Pair(NoJson, Closed))
           W5 == [i \in DOMAIN W4 \ {t} |-> W4[i]]
<1>2. /\ res.fits /\ new.fits
      /\ heap' = Destroyed(new.heap, res.json)
      /\ root' = [root EXCEPT ![h] = b.json, ![g] = new.json]
  BY DEF GiveMember
<1>3. g # h /\ values[g] = Closed /\ values' = [values EXCEPT ![h] = v, ![g] = x]
  BY DEF OpenWith, IsOpen
<1>4. /\ DOMAIN W1 = Handles /\ W1[h] = Pair(b.json, v)
      /\ \A f \in Handles \ {h} : W1[f] = World[f]
  BY WorldIs DEF Replaced
<1>5. Holds(b.heap, W1)
  OBVIOUS
<1> HIDE DEF W1
<1>6. W1[h].obj = b.json /\ W1[h].val = v
  BY <1>4 DEF Pair
<1>7. Makes(b.heap, res, x)
  <2>1. b.heap[b.json.word].val[k] = b.heap[W1[h].obj.word].val[k] /\ k \in Places(W1[h].val)
    BY <1>6
  <2>2. Copy(b.heap, b.heap[W1[h].obj.word].val[k]).fits
    BY <1>2, <1>6
  <2>3. Makes(b.heap, Copy(b.heap, b.heap[W1[h].obj.word].val[k]), W1[h].val.val[k])
    BY <1>4, <1>5, <2>1, <2>2, CopyOfMember
  <2> QED
    BY <1>6, <2>3
<1> HIDE DEF res, x
<1>8. Holds(res.heap, W2)
  BY <1>1, <1>4, <1>5, <1>7, NewObject
<1>9. /\ DOMAIN W2 = Handles \cup {t} /\ W2[t] = Pair(res.json, x)
      /\ \A f \in Handles : W2[f] = W1[f]
  BY <1>1, <1>4 DEF Replaced
<1> HIDE DEF W2
<1>10. W2[t].obj = res.json /\ W2[t].val = x /\ Stored(W2[g].val) = {}
  <2>1. W2[g].val = Closed
    BY <1>3, <1>4, <1>9, WorldIs
  <2> QED
    BY <1>9, <2>1, NothingStored DEF Pair
<1>11. Makes(res.heap, new, x)
  <2>1. Copy(res.heap, W2[t].obj).fits /\ t \in DOMAIN W2
    BY <1>2, <1>9, <1>10
  <2>2. Makes(res.heap, Copy(res.heap, W2[t].obj), W2[t].val)
    BY <1>8, <2>1, CopyOf
  <2> QED
    BY <1>10, <2>2
<1> HIDE DEF new
<1>12. Holds(new.heap, W3)
  BY <1>8, <1>10, <1>11, NewObject
<1>13. /\ DOMAIN W3 = Handles \cup {t} /\ W3[t] = W2[t] /\ W3[g] = Pair(new.json, x)
       /\ \A f \in Handles \ {g} : W3[f] = W2[f]
  BY <1>1, <1>9 DEF Replaced
<1> HIDE DEF W3
<1>14. Holds(heap', W4)
  BY <1>2, <1>10, <1>12, <1>13, ObjectGone
<1>15. /\ DOMAIN W4 = Handles \cup {t} /\ W4[t] = Pair(NoJson, Closed)
       /\ \A f \in Handles : W4[f] = W3[f]
  BY <1>1, <1>13 DEF Replaced
<1> HIDE DEF W4
<1>16. Holds(heap', W5)
  <2>1. Stored(W4[t].val) = {}
    BY <1>15, NothingStored DEF Pair
  <2> QED
    BY <1>14, <2>1, NameGone
<1>17. DOMAIN W5 = Handles /\ \A f \in Handles : W5[f] = W3[f]
  BY <1>1, <1>15
<1>18. W5 = [f \in Handles |-> W5[f]]
  BY <1>17
<1> HIDE DEF W5
<1>19. /\ root' = [f \in Handles |->
                     IF f = g THEN new.json ELSE IF f = h THEN b.json ELSE root[f]]
       /\ values' = [f \in Handles |-> IF f = g THEN x ELSE IF f = h THEN v ELSE values[f]]
  BY <1>2, <1>3, WorldIs
<1>20. World' = [f \in Handles |-> Pair(root'[f], values'[f])]
  BY DEF World
<1>21. \A f \in Handles : W5[f] = Pair(root'[f], values'[f])
  BY <1>4, <1>9, <1>13, <1>17, <1>19, WorldIs
<1>22. World' = W5
  BY <1>18, <1>20, <1>21
<1> QED
  BY <1>16, <1>19, <1>22 DEF HeapKept

\* A member given out by its key.
LEMMA MGetJSONKeeps ==
  ASSUME MInv, NEW h \in Handles, NEW k \in Keys, NEW g \in Handles, MGetJSON(h, k, g)
  PROVE  HeapKept
<1> DEFINE b == ByKey(heap, root[h], k)
           v == AtKey(values[h], k)
<1>1. /\ Keyed(values[h]) /\ OpenWith(g, v.val[k], h, v)
      /\ GiveMember(h, b, k, g)
  BY DEF MGetJSON, GetJSON
<1>2. IsJson(values[h]) /\ IsOpen(h)
  BY <1>1, AcceptsIfOpen DEF MInv
<1>3. k \in Places(v)
  BY DEF AtKey, Object, Places
<1> HIDE DEF b, v
<1>4. Holds(b.heap, Replaced(World, {h}, h, Pair(b.json, v)))
  <2>1. /\ b = ByKey(heap, World[h].obj, k) /\ b.fits
        /\ World[h].val = values[h] /\ Holds(heap, World) /\ h \in DOMAIN World
    BY <1>1, WorldIs DEF b, GiveMember
  <2> QED
    BY <1>1, <1>2, <2>1, ByKeyHolds DEF v
<1> QED
  BY <1>1, <1>2, <1>3, <1>4, GivenKeeps

\* A member given out by its position.
LEMMA MGetArrayJSONKeeps ==
  ASSUME MInv, NEW h \in Handles, NEW i \in Nat, NEW g \in Handles, MGetArrayJSON(h, i, g)
  PROVE  HeapKept
<1> DEFINE b == ByIndex(heap, root[h], i)
           v == AtIndex(values[h], i)
<1>1. /\ Indexed(values[h]) /\ OpenWith(g, v.val[i + 1], h, v)
      /\ GiveMember(h, b, i + 1, g)
  BY DEF MGetArrayJSON, GetArrayJSON
<1>2. IsJson(values[h]) /\ IsOpen(h)
  BY <1>1, AcceptsIfOpen DEF MInv
<1>3. i + 1 \in Places(v)
  <2>1. IsList(Elements(values[h]))
    BY <1>1, <1>2, ElementFacts DEF IsJson
  <2>2. PICK n \in Nat :
          /\ i < n
          /\ v = Array([j \in 1..n |->
                          IF j \in DOMAIN Elements(values[h]) THEN Elements(values[h])[j] ELSE Null])
    BY <2>1, AtIndexIs
  <2>3. i + 1 \in 1..n /\ v.kind = "array" /\ DOMAIN v.val = 1..n
    BY <2>2 DEF Array
  <2> HIDE DEF v
  <2> QED
    BY <2>3 DEF Places
<1> HIDE DEF b, v
<1>4. Holds(b.heap, Replaced(World, {h}, h, Pair(b.json, v)))
  <2>1. /\ b = ByIndex(heap, World[h].obj, i) /\ b.fits
        /\ World[h].val = values[h] /\ Holds(heap, World) /\ h \in DOMAIN World
    BY <1>1, WorldIs DEF b, GiveMember
  <2> QED
    BY <1>1, <1>2, <2>1, ByIndexHolds DEF v
<1> QED
  BY <1>1, <1>2, <1>3, <1>4, GivenKeeps

\* Pushing is putting behind the last element of the array that null becomes.
LEMMA PushIsPut ==
  ASSUME NEW v, IsJson(v), Indexed(v), NEW x
  PROVE  LET c == Contained(v, "array")
         IN  /\ c.kind = "array" /\ c.val = Elements(v) /\ IsList(c.val)
             /\ PushBack(v, x) = PutAt(c, Len(c.val) + 1, x)
<1> DEFINE c == Contained(v, "array")
<1>1. c.kind = "array" /\ c.val = Elements(v)
  BY DEF Contained, Cell, Elements
<1>2. IsList(Elements(v))
  BY ElementFacts DEF IsJson
<1> HIDE DEF c
<1>3. PushBack(v, x) = PutAt(c, Len(c.val) + 1, x)
  <2> DEFINE s == Elements(v)
             n == Len(s) + 1
             g == [j \in DOMAIN s \cup {n} |-> IF j = n THEN x ELSE s[j]]
  <2>1. PushBack(v, x) = Array(g)
    BY <1>2, PushBackIs
  <2>2. PutAt(c, n, x) = Array(g)
    <3> HIDE DEF s, n
    <3> QED
      BY <1>1 DEF PutAt, Array, s
  <2> QED
    BY <1>1, <2>1, <2>2
<1> QED
  BY <1>1, <1>2, <1>3 DEF c

\* What is to be pushed has been made, and null has become an array.
Pushes(m, W, h, t, x) ==
  /\ Holds(m, W)
  /\ t \notin Handles /\ DOMAIN W = Handles \cup {t}
  /\ W[h].val = Contained(values[h], "array") /\ W[t].val = x
  /\ \A g \in Handles \ {h} : W[g] = World[g]
  /\ heap' = [m EXCEPT ![W[h].obj.word].val = Append(m[W[h].obj.word].val, W[t].obj)]
  /\ root' = [root EXCEPT ![h] = W[h].obj]
  /\ values' = [values EXCEPT ![h] = PushBack(values[h], x)]

\* push_back keeps the invariant.
LEMMA PushedBack ==
  ASSUME MInv, NEW h \in Handles, IsJson(values[h]), Indexed(values[h]),
         NEW x, IsFlat(x), NEW m, NEW W, NEW t, Pushes(m, W, h, t, x)
  PROVE  HeapKept
<1> USE DEF Pushes
<1> DEFINE v == PushBack(values[h], x)
           p == Pair(W[h].obj, v)
           n == Len(W[h].val.val) + 1
<1>1. W[h].val.kind = "array" /\ IsList(W[h].val.val) /\ v = PutAt(W[h].val, n, W[t].val)
  BY PushIsPut
<1>2. IsJson(v)
  BY PushElement
<1> HIDE DEF v, n
<1>3. Holds(heap', Replaced(W, {h, t}, h, p))
  <2>1. t # h /\ h \in DOMAIN W /\ t \in DOMAIN W
    OBVIOUS
  <2> QED
    BY <1>1, <1>2, <2>1, PushedHolds DEF n
<1>4. World' = [g \in Handles |-> Pair(root'[g], values'[g])]
  BY DEF World
<1>5. /\ root' = [g \in Handles |-> IF g = h THEN W[h].obj ELSE root[g]]
      /\ values' = [g \in Handles |-> IF g = h THEN v ELSE values[g]]
  BY WorldIs DEF v
<1>6. Replaced(W, {h, t}, h, p) = [g \in Handles |-> IF g = h THEN p ELSE World[g]]
  <2>1. (DOMAIN W \ {h, t}) \cup {h} = Handles
    OBVIOUS
  <2> HIDE DEF p
  <2> QED
    BY <2>1 DEF Replaced
<1>7. World' = [g \in Handles |-> IF g = h THEN p ELSE World[g]]
  BY <1>4, <1>5, WorldIs
<1> QED
  BY <1>3, <1>5, <1>6, <1>7 DEF HeapKept

\* Pushing a scalar, which is made for it.
LEMMA MPushScalarKeeps ==
  ASSUME MInv, NEW h \in Handles, NEW t \in Types, MPushScalar(h, t)
  PROVE  HeapKept
<1> DEFINE x == Scalar(t, IF t = "string" THEN GivenValue ELSE HandleNumber)
           new == Create(heap, x)
           b == AsContainer(new.heap, root[h], "array")
<1>1. x \in Atoms
  BY JsonConstants DEF Atoms, Scalar
<1>2. IsFlat(x) /\ IsTree(x)
  BY <1>1, AtomIsFlat, FlatIsJson DEF IsTree
<1>3. /\ Indexed(values[h]) /\ values' = [values EXCEPT ![h] = PushBack(values[h], x)]
      /\ new.fits /\ b.fits /\ root' = [root EXCEPT ![h] = b.json]
      /\ heap' = [b.heap EXCEPT ![b.json.word].val = Append(b.heap[b.json.word].val, new.json)]
  BY DEF MPushScalar, PushScalar, Push, Change, PushObject, Appended, Leaves
<1>4. IsJson(values[h]) /\ values[h].kind \in {"null", "array"}
  BY <1>3, AcceptsIfOpen DEF MInv, Indexed
<1> HIDE DEF x
<1>5. Makes(heap, new, x)
  BY <1>2, <1>3, CreateMakes
<1> HIDE DEF new, b
<1>6. PICK n : n \notin Handles
  BY NewName
<1> DEFINE W1 == Replaced(World, {n}, n, Pair(new.json, x))
           c == Contained(values[h], "array")
           W2 == Replaced(W1, {h}, h, Pair(b.json, c))
<1>7. Holds(new.heap, W1)
  BY <1>5, <1>6, WorldIs, NewObject
<1>8. /\ DOMAIN W1 = Handles \cup {n} /\ W1[n] = Pair(new.json, x)
      /\ \A g \in Handles : W1[g] = World[g]
  BY <1>6, WorldIs DEF Replaced
<1> HIDE DEF W1, c
<1>9. Holds(b.heap, W2)
  <2>1. b = AsContainer(new.heap, W1[h].obj, "array") /\ W1[h].val = values[h]
    BY <1>8, WorldIs DEF b
  <2> QED
    BY <1>3, <1>4, <1>7, <1>8, <2>1, AsContainerHolds DEF c
<1>10. /\ DOMAIN W2 = Handles \cup {n}
       /\ W2[h] = Pair(b.json, c) /\ W2[n] = Pair(new.json, x)
       /\ \A g \in Handles \ {h} : W2[g] = World[g]
  BY <1>6, <1>8 DEF Replaced
<1> HIDE DEF W2
<1>11. W2[h].obj = b.json /\ W2[h].val = c /\ W2[n].obj = new.json /\ W2[n].val = x
  BY <1>10 DEF Pair
<1>12. Pushes(b.heap, W2, h, n, x)
  BY <1>3, <1>6, <1>9, <1>10, <1>11 DEF Pushes, c
<1> QED
  BY <1>2, <1>3, <1>4, <1>12, PushedBack

\* Pushing a value, which may be the array itself.
LEMMA MPushJSONKeeps ==
  ASSUME MInv, NEW h \in Handles, NEW g \in Handles,
         MPushJSON(h, g)
  PROVE  HeapKept
<1> DEFINE x == IF h = g THEN Array(Elements(values[g])) ELSE values[g]
           b == AsContainer(heap, root[h], "array")
           s == IF h = g THEN b.json ELSE root[g]
           new == Copy(b.heap, s)
           c == Contained(values[h], "array")
<1>1. /\ Indexed(values[h]) /\ values' = [values EXCEPT ![h] = PushBack(values[h], x)]
      /\ IsOpen(g) /\ Flat(values[g])
      /\ new.fits /\ b.fits /\ root' = [root EXCEPT ![h] = b.json]
      /\ heap' = [new.heap EXCEPT ![b.json.word].val = Append(new.heap[b.json.word].val, new.json)]
  BY DEF MPushJSON, PushJSON, Push, Change, PushObject, Appended, Leaves
<1>2. IsJson(values[h]) /\ values[h].kind \in {"null", "array"}
  BY <1>1, AcceptsIfOpen DEF MInv, Indexed
<1>3. IsFlat(values[g])
  BY <1>1, GivenHandle DEF MInv
<1>4. c = Array(Elements(values[h]))
  BY DEF Contained, Cell, Array, Elements
<1>5. IsFlat(x)
  BY <1>1, <1>3, ReadyIsFlat
<1> HIDE DEF x, b, s, c
<1>6. PICK n : n \notin Handles
  BY NewName
<1> DEFINE W1 == Replaced(World, {h}, h, Pair(b.json, c))
           W2 == Replaced(W1, {n}, n, Pair(new.json, x))
<1>7. Holds(b.heap, W1)
  <2>1. /\ b = AsContainer(heap, World[h].obj, "array") /\ World[h].val = values[h]
        /\ Holds(heap, World) /\ h \in DOMAIN World
    BY WorldIs DEF b
  <2> QED
    BY <1>1, <1>2, <2>1, AsContainerHolds DEF c
<1>8. /\ DOMAIN W1 = Handles /\ W1[h] = Pair(b.json, c)
      /\ \A f \in Handles \ {h} : W1[f] = World[f]
  BY WorldIs DEF Replaced
<1> HIDE DEF W1
<1>9. W1[g].obj = s /\ W1[g].val = x
  <2>1. CASE h = g
    BY <1>4, <1>8, <2>1 DEF Pair, s, x
  <2>2. CASE h # g
    BY <1>8, <2>2, WorldIs DEF s, x
  <2> QED
    BY <2>1, <2>2
<1>10. Makes(b.heap, new, x)
  BY <1>1, <1>7, <1>8, <1>9, CopyOf
<1> HIDE DEF new
<1>11. Holds(new.heap, W2)
  BY <1>6, <1>7, <1>8, <1>10, NewObject
<1>12. /\ DOMAIN W2 = Handles \cup {n}
       /\ W2[h] = Pair(b.json, c) /\ W2[n] = Pair(new.json, x)
       /\ \A f \in Handles \ {h} : W2[f] = World[f]
  BY <1>6, <1>8 DEF Replaced
<1> HIDE DEF W2
<1>13. W2[h].obj = b.json /\ W2[h].val = c /\ W2[n].obj = new.json /\ W2[n].val = x
  BY <1>12 DEF Pair
<1>14. Pushes(new.heap, W2, h, n, x)
  BY <1>1, <1>6, <1>11, <1>12, <1>13 DEF Pushes, c
<1> QED
  BY <1>1, <1>2, <1>5, <1>14, PushedBack

\* A handle is opened for an object that has just been made.
LEMMA OpenedKeeps ==
  ASSUME MInv, NEW g \in Handles, NEW b, NEW v, Makes(heap, b, v), OpenWith(g, v, g, v),
         heap' = b.heap, root' = [root EXCEPT ![g] = b.json]
  PROVE  HeapKept
<1> DEFINE W == Replaced(World, {g}, g, Pair(b.json, v))
<1>1. World[g].val = Closed
  BY WorldIs DEF OpenWith, IsOpen
<1>2. Holds(heap', W)
  BY <1>1, WorldIs, NothingStored, NewObject
<1>3. /\ root' = [f \in Handles |-> IF f = g THEN b.json ELSE root[f]]
      /\ values' = [f \in Handles |-> IF f = g THEN v ELSE values[f]]
  BY WorldIs DEF OpenWith
<1>4. World' = [f \in Handles |-> Pair(root'[f], values'[f])]
  BY DEF World
<1>5. World' = W
  BY <1>3, <1>4, WorldIs DEF Replaced
<1> HIDE DEF W
<1> QED
  BY <1>2, <1>3, <1>5 DEF HeapKept

\* A new handle has the null that its value is.
LEMMA MCreateJSONKeeps ==
  ASSUME MInv, NEW g \in Handles, MCreateJSON(g)
  PROVE  HeapKept
<1> DEFINE b == [json |-> NullJson, heap |-> heap]
           o == Thing(NullJson, Null, <<>>)
<1>1. o.obj = NullJson /\ o.val = Null /\ b.json = NullJson /\ b.heap = heap
  BY DEF Thing
<1>2. IsTree(Null)
  BY NullIsAtom, AtomIsFlat, FlatIsJson DEF IsTree
<1>3. Stored(Null) = {}
  <2>1. Places(Null) = {} /\ Null.kind \notin Pointed
    BY NullIsAtom, AtomPlaces DEF Null, Pointed
  <2>2. \A p \in Parts(Null) : p = Top
    BY <2>1, PartsAre
  <2> QED
    BY <2>1, <2>2, PartIs DEF Stored
<1>4. ObjectOf(Null, Top, o.at) = NullJson
  BY PartIs DEF ObjectOf, Null, NullJson, Pointed
<1> HIDE DEF b
<1>5. Lies(heap, o) /\ Taken(o) = {}
  <2> HIDE DEF o
  <2> QED
    BY <1>1, <1>2, <1>3, <1>4 DEF Lies, Taken, Injects
<1>6. IsHeap(heap)
  BY DEF MInv, Holds, Sound
<1>7. Makes(heap, b, Null)
  BY <1>1, <1>5, <1>6 DEF Makes
<1> QED
  BY <1>1, <1>7, OpenedKeeps DEF MCreateJSON, CreateJSON

\* What arrives is made for its handle.
LEMMA MArrivesKeeps ==
  ASSUME MInv, NEW g \in Handles, NEW v \in Arriving, MArrives(g, v)
  PROVE  HeapKept
<1> DEFINE b == Create(heap, v)
<1>1. /\ OpenWith(g, v, g, v) /\ b.fits /\ heap' = b.heap /\ root' = [root EXCEPT ![g] = b.json]
  BY DEF MArrives, Arrives, Leaves
<1>2. Makes(heap, b, v)
  BY <1>1, ArrivingJson, CreateMakes DEF IsTree
<1> HIDE DEF b
<1> QED
  BY <1>1, <1>2, OpenedKeeps

\* Closing a handle destroys its object.
LEMMA MCloseHandleKeeps ==
  ASSUME MInv, NEW h \in Handles, MCloseHandle(h)
  PROVE  HeapKept
<1> DEFINE W == Replaced(World, {h}, h, Pair(NoJson, Closed))
<1>1. /\ values' = [values EXCEPT ![h] = Closed]
      /\ heap' = Destroyed(heap, root[h]) /\ root' = [root EXCEPT ![h] = NoJson]
  BY DEF MCloseHandle, CloseHandle, Change
<1>2. Holds(heap', W)
  BY <1>1, WorldIs, ObjectGone
<1>3. /\ root' = [f \in Handles |-> IF f = h THEN NoJson ELSE root[f]]
      /\ values' = [f \in Handles |-> IF f = h THEN Closed ELSE values[f]]
  BY <1>1, WorldIs
<1>4. World' = [f \in Handles |-> Pair(root'[f], values'[f])]
  BY DEF World
<1>5. World' = W
  BY <1>3, <1>4, WorldIs DEF Replaced
<1> HIDE DEF W
<1> QED
  BY <1>2, <1>3, <1>5 DEF HeapKept

\* What throws changes nothing.
LEMMA MUnchangedKeeps ==
  ASSUME MInv, UNCHANGED <<values, heap, root>>
  PROVE  HeapKept
<1>1. World' = World
  BY DEF World
<1>2. root' = [h \in Handles |-> root'[h]]
  BY WorldIs
<1> QED
  BY <1>1, <1>2 DEF MInv, HeapKept

\* Every step of the natives with their memory is one of theirs without.
LEMMA MNextIsNext ==
  ASSUME MNext
  PROVE  Next
<1>1. PICK h \in Handles :
       \/ MCreateJSON(h)
       \/ \E v \in Arriving : MArrives(h, v)
       \/ MCloseHandle(h)
       \/ \E k \in Keys :
            \/ \E t \in Types : MSetScalar(h, k, t)
            \/ \E g \in Handles, early \in BOOLEAN : MSetJSON(h, k, g, early)
            \/ MGetScalar(h, k)
            \/ \E g \in Handles : MGetJSON(h, k, g)
       \/ \E t \in Types : MPushScalar(h, t)
       \/ \E g \in Handles : MPushJSON(h, g)
       \/ \E i \in 0..(MaxLen - 1) :
            MGetArrayScalar(h, i) \/ \E g \in Handles : MGetArrayJSON(h, i, g)
       \/ MFails(h)
  BY DEF MNext
<1>2. \/ CreateJSON(h)
      \/ \E v \in Arriving : Arrives(h, v)
      \/ CloseHandle(h)
      \/ \E k \in Keys : KeyNative(h, k)
      \/ NoKeys(h)
      \/ ArrayNative(h)
      \/ NoArray(h)
  <2>1. ASSUME NEW k \in Keys,
               \/ \E t \in Types : MSetScalar(h, k, t)
               \/ \E g \in Handles, early \in BOOLEAN : MSetJSON(h, k, g, early)
               \/ MGetScalar(h, k)
               \/ \E g \in Handles : MGetJSON(h, k, g)
        PROVE  KeyNative(h, k)
    BY <2>1 DEF MSetScalar, MSetJSON, MGetScalar, MGetJSON, KeyNative
  <2>2. ASSUME \/ \E t \in Types : MPushScalar(h, t)
               \/ \E g \in Handles : MPushJSON(h, g)
               \/ \E i \in 0..(MaxLen - 1) :
                    MGetArrayScalar(h, i) \/ \E g \in Handles : MGetArrayJSON(h, i, g)
        PROVE  ArrayNative(h)
    BY <2>2 DEF MPushScalar, MPushJSON, MGetArrayScalar, MGetArrayJSON, ArrayNative
  <2>3. MFails(h) => NoKeys(h) \/ NoArray(h) \/ ArrayNative(h)
    BY DEF MFails, ArrayNative
  <2>4. (MCreateJSON(h) => CreateJSON(h)) /\ (MCloseHandle(h) => CloseHandle(h))
    BY DEF MCreateJSON, MCloseHandle
  <2>5. \A v : MArrives(h, v) => Arrives(h, v)
    BY DEF MArrives
  <2> QED
    BY <1>1, <2>1, <2>2, <2>3, <2>4, <2>5
<1> QED
  BY <1>2 DEF MNext, Next

\* Every step keeps the invariant.
LEMMA MemoryStep ==
  ASSUME MInv, [MNext]_mvars
  PROVE  MInv'
<1>1. CASE UNCHANGED mvars
  <2>1. JInv'
    BY <1>1, JsonStep DEF MInv, mvars, vars
  <2>2. HeapKept
    BY <1>1, MUnchangedKeeps DEF mvars
  <2> QED
    BY <2>1, <2>2 DEF MInv, HeapKept
<1>2. CASE MNext
  <2>1. JInv'
    BY <1>2, MNextIsNext, JsonStep DEF MInv
  <2>2. PICK h \in Handles :
         \/ MCreateJSON(h)
         \/ \E v \in Arriving : MArrives(h, v)
         \/ MCloseHandle(h)
         \/ \E k \in Keys :
              \/ \E t \in Types : MSetScalar(h, k, t)
              \/ \E g \in Handles, early \in BOOLEAN : MSetJSON(h, k, g, early)
              \/ MGetScalar(h, k)
              \/ \E g \in Handles : MGetJSON(h, k, g)
         \/ \E t \in Types : MPushScalar(h, t)
         \/ \E g \in Handles : MPushJSON(h, g)
         \/ \E i \in 0..(MaxLen - 1) :
              MGetArrayScalar(h, i) \/ \E g \in Handles : MGetArrayJSON(h, i, g)
         \/ MFails(h)
    BY <1>2 DEF MNext
  <2>3. 0..(MaxLen - 1) \subseteq Nat
    BY JsonConstants
  <2>4. MFails(h) => HeapKept
    <3>1. MFails(h) => UNCHANGED <<values, heap, root>>
      BY DEF MFails, NoKeys, NoArray, NegativeIndex
    <3> QED
      BY <3>1, MUnchangedKeeps
  <2>5. MCreateJSON(h) \/ (\E v \in Arriving : MArrives(h, v)) \/ MCloseHandle(h) => HeapKept
    BY MCreateJSONKeeps, MArrivesKeeps, MCloseHandleKeeps
  <2>6. ASSUME NEW k \in Keys,
               \/ \E t \in Types : MSetScalar(h, k, t)
               \/ \E g \in Handles, early \in BOOLEAN : MSetJSON(h, k, g, early)
               \/ MGetScalar(h, k)
               \/ \E g \in Handles : MGetJSON(h, k, g)
        PROVE  HeapKept
    BY <2>6, MSetScalarKeeps, MSetJSONKeeps, MGetScalarKeeps, MGetJSONKeeps
  <2>7. (\E t \in Types : MPushScalar(h, t)) \/ (\E g \in Handles : MPushJSON(h, g))
          => HeapKept
    BY MPushScalarKeeps, MPushJSONKeeps
  <2>8. ASSUME NEW i \in Nat,
               MGetArrayScalar(h, i) \/ \E g \in Handles : MGetArrayJSON(h, i, g)
        PROVE  HeapKept
    BY <2>8, MGetArrayScalarKeeps, MGetArrayJSONKeeps
  <2>9. HeapKept
    BY <2>2, <2>3, <2>4, <2>5, <2>6, <2>7, <2>8
  <2> QED
    BY <2>1, <2>9 DEF MInv, HeapKept
<1> QED
  BY <1>1, <1>2

\* At the start every handle is closed and the heap is empty.
LEMMA MemoryInit == MInit => MInv
<1> SUFFICES ASSUME MInit PROVE MInv
  OBVIOUS
<1> DEFINE O == [h \in Handles |-> Nothing]
<1>1. JInv
  BY JsonInit DEF MInit
<1>2. \A a \in Addresses : heap[a] = Unused
  BY DEF MInit
<1>3. IsHeap(heap)
  BY DEF MInit, IsHeap
<1>4. Lies(heap, Nothing) /\ Taken(Nothing) = {}
  BY NothingLies
<1>5. Sound(heap, O)
  BY <1>2, <1>3, <1>4 DEF Sound
<1>6. Nothing.obj = NoJson /\ Nothing.val = Closed
  BY DEF Nothing, Thing
<1>7. \A h \in Handles : World[h] = Pair(NoJson, Closed)
  BY DEF World, MInit, Init
<1>8. Agrees(O, World)
  BY <1>6, <1>7 DEF Agrees, World, Pair
<1>9. root = [h \in Handles |-> root[h]]
  BY DEF MInit
<1> HIDE DEF O
<1> QED
  BY <1>1, <1>5, <1>8, <1>9 DEF MInv, Holds

-----------------------------------------------------------------------------
(* What the invariant says of pointers and of values. *)

\* Objects in heap, one for each handle.
Laid(O) == Sound(heap, O) /\ Agrees(O, World)

\* What it says of one handle.
LEMMA LaidIs ==
  ASSUME NEW O, Laid(O)
  PROVE  /\ IsHeap(heap) /\ DOMAIN O = Handles
         /\ \A h \in Handles : /\ Lies(heap, O[h])
                               /\ O[h].obj = root[h] /\ O[h].val = values[h]
         /\ \A g, h \in Handles : g # h => Taken(O[g]) \cap Taken(O[h]) = {}
         /\ \A a \in Used : \E h \in Handles : a \in Taken(O[h])
<1>1. DOMAIN O = Handles /\ \A h \in Handles : O[h].obj = root[h] /\ O[h].val = values[h]
  BY DEF Laid, Agrees, World, Pair
<1> QED
  BY <1>1 DEF Laid, Sound, Used

\* A pointer in a cell is one of an object's, at the path below that of the cell.
LEMMA PointerIs ==
  ASSUME NEW O, Laid(O), NEW b \in Addresses, NEW k \in Places(heap[b])
  PROVE  \E h \in Handles : \E q \in Stored(O[h].val) :
           /\ b = O[h].at[q] /\ k \in Places(Part(O[h].val, q))
           /\ Own(heap[b].val[k])
                = IF <<q, k>> \in Stored(O[h].val) THEN {O[h].at[<<q, k>>]} ELSE {}
<1>1. heap[b] # Unused
  BY DEF Unused, Cell, Places
<1>2. PICK h \in Handles : b \in Taken(O[h])
  BY <1>1, LaidIs DEF Used
<1>3. PICK q \in Stored(O[h].val) : b = O[h].at[q]
  BY <1>2 DEF Taken
<1> DEFINE v == O[h].val
           r == O[h].at
<1>4. heap[b] = CellOf(v, q, r) /\ IsTree(v)
  BY <1>3, LaidIs DEF Lies
<1> HIDE DEF v, r
<1>5. k \in Places(Part(v, q)) /\ heap[b].val[k] = ObjectOf(v, <<q, k>>, r)
  BY <1>4, CellIs
<1>6. <<q, k>> \in Parts(v)
  BY <1>3, <1>4, <1>5, ChildPart DEF Stored, v
<1>7. <<q, k>> \in Stored(v) <=> Part(v, <<q, k>>).kind \in Pointed
  BY <1>6, StoredIs
<1>8. Own(heap[b].val[k]) = IF <<q, k>> \in Stored(v) THEN {r[<<q, k>>]} ELSE {}
  BY <1>5, <1>7, ObjectIs
<1> QED
  BY <1>3, <1>5, <1>8 DEF v, r

\* Where the object of a handle points.
LEMMA RootIs ==
  ASSUME NEW O, Laid(O), NEW h \in Handles
  PROVE  Own(root[h]) = IF Top \in Stored(O[h].val) THEN {O[h].at[Top]} ELSE {}
<1> DEFINE v == O[h].val
           r == O[h].at
<1>1. root[h] = ObjectOf(v, Top, r)
  BY LaidIs DEF Lies
<1> HIDE DEF v, r
<1>2. Top \in Stored(v) <=> Part(v, Top).kind \in Pointed
  <2>1. Top \in Parts(v)
    BY DEF Parts
  <2> QED
    BY <2>1, StoredIs
<1>3. Own(root[h]) = IF Part(v, Top).kind \in Pointed THEN {r[Top]} ELSE {}
  BY <1>1, ObjectIs
<1>4. Own(root[h]) = IF Top \in Stored(v) THEN {r[Top]} ELSE {}
  BY <1>2, <1>3
<1> QED
  BY <1>4 DEF v, r

\* Pointing at a cell is owning it.
LEMMA PointsIs == \A s, a : Points(s, a) <=> a \in Own(s)
BY DEF Points, Own

\* A path of an object in the heap, by its address.
LEMMA OnePath ==
  ASSUME NEW O, Laid(O), NEW g \in Handles, NEW p \in Stored(O[g].val),
         NEW h \in Handles, NEW q \in Stored(O[h].val), O[g].at[p] = O[h].at[q]
  PROVE  g = h /\ p = q
<1>1. O[g].at[p] \in Taken(O[g]) /\ O[g].at[p] \in Taken(O[h])
  BY DEF Taken
<1>2. g = h
  BY <1>1, LaidIs
<1>3. Injects(O[h].at, Stored(O[h].val), Addresses)
  BY LaidIs DEF Lies
<1> QED
  BY <1>2, <1>3 DEF Injects

\* The places that point at a cell.
LEMMA InnerIs ==
  ASSUME NEW a
  PROVE  /\ \A b \in Addresses : \A k \in Places(heap[b]) :
              a \in Own(heap[b].val[k]) => <<b, k>> \in Inner(a)
         /\ \A x \in Inner(a) : \E b \in Addresses : \E k \in Places(heap[b]) :
              x = <<b, k>> /\ a \in Own(heap[b].val[k])
BY PointsIs DEF Inner

\* The cells in use are those that the things take up.
LEMMA UsedIs ==
  ASSUME NEW O, Laid(O)
  PROVE  \A a : a \in Used <=> \E h \in Handles : a \in Taken(O[h])
<1>1. \A h \in Handles : \A a \in Taken(O[h]) : a \in Used
  BY LaidIs, InUse DEF Used
<1> QED
  BY <1>1, LaidIs

\* A cell is taken by one part of one value: its owner is the handle if that part is
\* the value, and the place in the cell of the part above it otherwise.
LEMMA OwnedOnce ==
  ASSUME MInv
  PROVE  EachCellOwnedOnce
<1>1. PICK O : Laid(O)
  BY DEF MInv, Holds, Laid
<1>2. ASSUME NEW h \in Handles, NEW p \in Stored(O[h].val), NEW a, a = O[h].at[p]
      PROVE  \/ Inner(a) = {} /\ Roots(a) = {h}
             \/ /\ Roots(a) = {}
                /\ \E b \in Used : \E k \in Places(heap[b]) : Inner(a) = {<<b, k>>}
  <2> DEFINE v == O[h].val
             r == O[h].at
  <2>1. \A g \in Handles : g \in Roots(a) => g = h /\ p = Top
    <3>1. ASSUME NEW g \in Roots(a) PROVE g = h /\ p = Top
      <4>1. g \in Handles /\ a \in Own(root[g])
        BY PointsIs DEF Roots
      <4>2. Top \in Stored(O[g].val) /\ a = O[g].at[Top]
        BY <1>1, <4>1, RootIs
      <4>3. O[g].at[Top] = O[h].at[p] /\ p \in Stored(O[h].val)
        BY <1>2, <4>2
      <4> HIDE <1>2
      <4> QED
        BY <1>1, <4>1, <4>2, <4>3, OnePath
    <3> QED
      BY <3>1
  <2>2. ASSUME NEW b \in Addresses, NEW k \in Places(heap[b]), a \in Own(heap[b].val[k])
        PROVE  \E q \in Stored(v) : b = r[q] /\ p = <<q, k>>
    <3>1. PICK g \in Handles : \E q \in Stored(O[g].val) :
             /\ b = O[g].at[q]
             /\ Own(heap[b].val[k])
                  = IF <<q, k>> \in Stored(O[g].val) THEN {O[g].at[<<q, k>>]} ELSE {}
      BY <1>1, PointerIs
    <3>2. PICK q \in Stored(O[g].val) :
             /\ b = O[g].at[q]
             /\ <<q, k>> \in Stored(O[g].val) /\ a = O[g].at[<<q, k>>]
      BY <2>2, <3>1
    <3>3. g = h /\ p = <<q, k>>
      BY <1>1, <1>2, <3>2, OnePath
    <3> QED
      BY <3>2, <3>3
  <2>3. CASE p = Top
    <3>1. h \in Roots(a)
      BY <1>1, <1>2, <2>3, RootIs, PointsIs DEF Roots
    <3>2. Roots(a) = {h}
      BY <2>1, <3>1 DEF Roots
    <3>3. Inner(a) = {}
      BY <2>2, <2>3, InnerIs, PathsDiffer
    <3> QED
      BY <3>2, <3>3
  <2>4. CASE p # Top
    <3>1. Roots(a) = {}
      BY <2>1, <2>4 DEF Roots
    <3>2. p \in Parts(v) /\ IsTree(v)
      BY <1>1, LaidIs DEF Stored, Lies
    <3>3. PICK q \in Parts(v) : \E k \in Places(Part(v, q)) : p = <<q, k>>
      <4> HIDE DEF v
      <4> QED
        BY <2>4, <3>2, PartOfChild
    <3>4. PICK k \in Places(Part(v, q)) : p = <<q, k>>
      BY <3>3
    <3>5. q \in Stored(v)
      <4> HIDE DEF v
      <4> QED
        BY <3>2, <3>3, <3>4, TreeKinds
    <3> DEFINE b == r[q]
    <3>6. b \in Used /\ b \in Addresses
      <4>1. b \in Taken(O[h])
        BY <3>5 DEF Taken
      <4> QED
        BY <1>1, <4>1, UsedIs DEF Used
    <3>7. heap[b] = CellOf(v, q, r)
      BY <1>1, <3>5, LaidIs DEF Lies
    <3>8. k \in Places(heap[b]) /\ heap[b].val[k] = ObjectOf(v, <<q, k>>, r)
      <4> HIDE DEF v, r, b
      <4> QED
        BY <3>4, <3>7, CellIs
    <3>9. a \in Own(heap[b].val[k])
      <4>1. Part(v, p).kind \in Pointed
        BY DEF Stored
      <4> HIDE DEF v, b
      <4>2. Own(ObjectOf(v, p, r)) = {r[p]}
        BY <4>1, ObjectIs
      <4> QED
        BY <1>2, <3>4, <3>8, <4>2
    <3> HIDE DEF b
    <3>10. \A x \in Inner(a) : x = <<b, k>>
      <4>1. ASSUME NEW c \in Addresses, NEW j \in Places(heap[c]), a \in Own(heap[c].val[j])
            PROVE  c = b /\ j = k
        <5>1. PICK s \in Stored(v) : c = r[s] /\ p = <<s, j>>
          BY <2>2, <4>1
        <5>2. s = q /\ j = k
          BY <3>4, <5>1, PathsDiffer
        <5> QED
          BY <5>1, <5>2 DEF b
      <4> QED
        BY <4>1, InnerIs
    <3>11. <<b, k>> \in Inner(a)
      BY <3>6, <3>8, <3>9, InnerIs
    <3>12. Inner(a) = {<<b, k>>}
      BY <3>10, <3>11
    <3> QED
      BY <3>1, <3>6, <3>8, <3>12
  <2> QED
    BY <2>3, <2>4
<1>3. ASSUME NEW a \in Used
      PROVE  \/ Inner(a) = {} /\ \E h \in Handles : Roots(a) = {h}
             \/ /\ Roots(a) = {}
                /\ \E b \in Used : \E k \in Places(heap[b]) : Inner(a) = {<<b, k>>}
  <2>1. PICK h \in Handles : \E p \in Stored(O[h].val) : a = O[h].at[p]
    BY <1>1, UsedIs DEF Taken
  <2>2. PICK p \in Stored(O[h].val) : a = O[h].at[p]
    BY <2>1
  <2>3. \/ Inner(a) = {} /\ Roots(a) = {h}
        \/ /\ Roots(a) = {}
           /\ \E b \in Used : \E k \in Places(heap[b]) : Inner(a) = {<<b, k>>}
    BY <1>2, <2>2
  <2> QED
    BY <2>3
<1>4. ASSUME NEW h \in Handles PROVE Own(root[h]) \subseteq Used
  <2>1. Own(root[h]) \subseteq Taken(O[h])
    BY <1>1, RootIs DEF Taken
  <2> QED
    BY <1>1, <2>1, UsedIs
<1>5. ASSUME NEW b \in Used, NEW k \in Places(heap[b]) PROVE Own(heap[b].val[k]) \subseteq Used
  <2>1. b \in Addresses
    BY DEF Used
  <2>2. PICK h \in Handles : \E q \in Stored(O[h].val) :
          Own(heap[b].val[k])
            = IF <<q, k>> \in Stored(O[h].val) THEN {O[h].at[<<q, k>>]} ELSE {}
    BY <1>1, <1>5, <2>1, PointerIs
  <2>3. Own(heap[b].val[k]) \subseteq Taken(O[h])
    BY <2>2 DEF Taken
  <2> QED
    BY <1>1, <2>3, UsedIs
<1>6. Used = UNION {Cells(heap, root[h]) : h \in Handles}
  <2>1. \A h \in Handles : Cells(heap, root[h]) = Taken(O[h])
    BY <1>1, LaidIs, CellsAre
  <2> QED
    BY <1>1, <2>1, UsedIs
<1> QED
  BY <1>3, <1>4, <1>5, <1>6 DEF EachCellOwnedOnce
\* The cell of a part that is a container holds the objects of the parts below it.
LEMMA PartCell ==
  ASSUME NEW m, NEW o, Lies(m, o), NEW p \in Parts(o.val), IsContainer(Part(o.val, p))
  PROVE  LET s == ObjectOf(o.val, p, o.at)
             w == Part(o.val, p)
         IN  /\ s.type = w.kind /\ s.type \in {"object", "array"}
             /\ m[s.word].val = [k \in DOMAIN w.val |-> ObjectOf(o.val, <<p, k>>, o.at)]
             /\ \A k \in DOMAIN w.val :
                  <<p, k>> \in Parts(o.val) /\ Part(o.val, <<p, k>>) = w.val[k]
             /\ w = Cell(w.kind, [k \in DOMAIN w.val |-> w.val[k]])
<1> DEFINE v == o.val
           r == o.at
           w == Part(v, p)
           s == ObjectOf(v, p, r)
<1>1. IsTree(v) /\ IsTree(w)
  BY TreeKinds DEF Lies
<1>2. s.type = w.kind /\ w.kind \in {"object", "array"} /\ w.kind \in Pointed /\ s.word = r[p]
  BY ObjectIs DEF IsContainer, Pointed
<1>3. p \in Stored(v)
  BY <1>2, StoredIs
<1>4. m[s.word] = CellOf(v, p, r)
  BY <1>2, <1>3 DEF Lies
<1>5. m[s.word].val = [k \in DOMAIN w.val |-> ObjectOf(v, <<p, k>>, r)]
  BY <1>4 DEF CellOf, Cell
<1>6. Places(w) = DOMAIN w.val
  BY DEF Places, IsContainer
<1>7. \A k \in DOMAIN w.val : <<p, k>> \in Parts(v) /\ Part(v, <<p, k>>) = w.val[k]
  BY <1>1, <1>6, ChildPart
<1>8. w = Cell(w.kind, [k \in DOMAIN w.val |-> w.val[k]])
  <2>1. IsValue(w)
    BY <1>1 DEF IsTree, IsJson, Closed, IsContainer
  <2>2. IsMap(w.val) /\ w = [kind |-> w.kind, val |-> w.val]
    <3> HIDE DEF w
    <3> QED
      BY <1>2, <2>1, ValueFacts, ListIsMap DEF Object, Array
  <2> HIDE DEF w
  <2> QED
    BY <2>2 DEF IsMap, Cell
<1> QED
  BY <1>2, <1>5, <1>7, <1>8

\* Reading a scalar through its object gives its value.
LEMMA HeldAtomIs ==
  ASSUME NEW o, Lies(heap, o), NEW p \in Parts(o.val), ~IsContainer(Part(o.val, p))
  PROVE  HeldAtom(ObjectOf(o.val, p, o.at)) = Part(o.val, p)
<1> DEFINE v == o.val
           r == o.at
           w == Part(v, p)
           s == ObjectOf(v, p, r)
<1>1. w = [kind |-> w.kind, val |-> w.val]
  BY TreeKinds DEF Lies, IsContainer
<1>2. s.type = w.kind /\ s.word = IF w.kind \in Pointed THEN r[p] ELSE w.val
  BY ObjectIs
<1>3. CASE w.kind = "string"
  <2>1. p \in Stored(v) /\ s.word = r[p]
    BY <1>2, <1>3, StoredIs DEF Pointed
  <2>2. heap[r[p]].val = w.val
    <3>1. heap[r[p]] = CellOf(v, p, r)
      BY <2>1 DEF Lies
    <3>2. ~IsContainer(w)
      OBVIOUS
    <3> HIDE DEF w
    <3> QED
      BY <3>1, <3>2 DEF CellOf, Cell, w
  <2>3. HeldAtom(s) = [kind |-> "string", val |-> w.val]
    BY <1>2, <1>3, <2>1, <2>2 DEF HeldAtom, Scalar
  <2> QED
    BY <1>1, <1>3, <2>3
<1>4. CASE w.kind # "string"
  <2>1. s.word = w.val
    BY <1>2, <1>4 DEF Pointed, IsContainer
  <2>2. HeldAtom(s) = [kind |-> w.kind, val |-> w.val]
    BY <1>2, <1>4, <2>1 DEF HeldAtom, Cell
  <2> QED
    BY <1>1, <2>2
<1> QED
  BY <1>3, <1>4

\* Reading a part without deeper nesting gives its value.
LEMMA Held1Is ==
  ASSUME NEW o, Lies(heap, o), NEW p \in Parts(o.val), IsFlat(Part(o.val, p))
  PROVE  Held1(ObjectOf(o.val, p, o.at)) = Part(o.val, p)
<1> DEFINE v == o.val
           w == Part(v, p)
           s == ObjectOf(v, p, o.at)
<1>1. CASE IsContainer(w)
  <2>1. /\ s.type = w.kind /\ s.type \in {"object", "array"}
        /\ heap[s.word].val = [k \in DOMAIN w.val |-> ObjectOf(v, <<p, k>>, o.at)]
        /\ \A k \in DOMAIN w.val : <<p, k>> \in Parts(v) /\ Part(v, <<p, k>>) = w.val[k]
        /\ w = Cell(w.kind, [k \in DOMAIN w.val |-> w.val[k]])
    BY <1>1, PartCell
  <2>2. \A k \in DOMAIN w.val : ~IsContainer(w.val[k])
    BY <1>1, AtomFacts DEF IsFlat
  <2> HIDE DEF v, w, s
  <2>3. ASSUME NEW k \in DOMAIN w.val PROVE HeldAtom(heap[s.word].val[k]) = w.val[k]
    <3>1. heap[s.word].val[k] = ObjectOf(v, <<p, k>>, o.at)
      BY <2>1
    <3>2. <<p, k>> \in Parts(v) /\ ~IsContainer(Part(v, <<p, k>>))
      BY <2>1, <2>2
    <3> QED
      BY <2>1, <3>1, <3>2, HeldAtomIs DEF v
  <2>4. DOMAIN heap[s.word].val = DOMAIN w.val
    BY <2>1
  <2>5. Held1(s) = Cell(w.kind, [k \in DOMAIN w.val |-> w.val[k]])
    BY <2>1, <2>3, <2>4 DEF Held1
  <2> QED
    BY <2>1, <2>5 DEF s, w, v
<1>2. CASE ~IsContainer(w)
  <2>1. s.type = w.kind
    BY ObjectIs
  <2>2. Held1(s) = HeldAtom(s)
    BY <1>2, <2>1 DEF Held1, IsContainer
  <2> QED
    BY <1>2, <2>2, HeldAtomIs
<1> QED
  BY <1>1, <1>2

\* Reading an object that lies in the heap gives its value.
LEMMA HeldIs ==
  ASSUME NEW o, Lies(heap, o)
  PROVE  Held(o.obj) = o.val
<1> DEFINE v == o.val
           s == ObjectOf(v, Top, o.at)
<1>1. o.obj = s /\ IsTree(v) /\ Top \in Parts(v) /\ Part(v, Top) = v
  BY PartIs, PartsAre DEF Lies
<1>2. CASE IsContainer(v)
  <2>1. /\ s.type = v.kind /\ s.type \in {"object", "array"}
        /\ heap[s.word].val = [k \in DOMAIN v.val |-> ObjectOf(v, <<Top, k>>, o.at)]
        /\ \A k \in DOMAIN v.val : <<Top, k>> \in Parts(v) /\ Part(v, <<Top, k>>) = v.val[k]
        /\ v = Cell(v.kind, [k \in DOMAIN v.val |-> v.val[k]])
    <3>1. Top \in Parts(o.val) /\ IsContainer(Part(o.val, Top))
      BY <1>1, <1>2
    <3> DEFINE x == Part(o.val, Top)
    <3>2. /\ s.type = x.kind /\ s.type \in {"object", "array"}
          /\ heap[s.word].val = [k \in DOMAIN x.val |-> ObjectOf(o.val, <<Top, k>>, o.at)]
          /\ \A k \in DOMAIN x.val :
               <<Top, k>> \in Parts(o.val) /\ Part(o.val, <<Top, k>>) = x.val[k]
          /\ x = Cell(x.kind, [k \in DOMAIN x.val |-> x.val[k]])
      BY <3>1, PartCell
    <3>3. x = v
      BY <1>1
    <3> HIDE DEF s, x
    <3> QED
      BY <3>2, <3>3
  <2>2. \A k \in DOMAIN v.val : IsFlat(v.val[k])
    BY <1>1, <1>2 DEF IsTree, IsJson, Closed, IsContainer
  <2> HIDE DEF v, s
  <2>3. \A k \in DOMAIN v.val : Held1(heap[s.word].val[k]) = v.val[k]
    BY <2>1, <2>2, Held1Is DEF v
  <2>4. DOMAIN heap[s.word].val = DOMAIN v.val
    BY <2>1
  <2>5. Held(s) = Cell(v.kind, [k \in DOMAIN v.val |-> v.val[k]])
    BY <2>1, <2>3, <2>4 DEF Held
  <2> QED
    BY <1>1, <2>1, <2>5 DEF v
<1>3. CASE ~IsContainer(v)
  <2>1. s.type = v.kind
    BY <1>1, ObjectIs
  <2>2. Held(s) = HeldAtom(s)
    BY <1>3, <2>1 DEF Held, IsContainer
  <2> QED
    BY <1>1, <1>3, <2>2, HeldAtomIs
<1> QED
  BY <1>2, <1>3

\* So the invariant says what the objects of the handles hold.
LEMMA HoldsValues ==
  ASSUME MInv
  PROVE  HeapHoldsValues
<1>1. PICK O : Laid(O)
  BY DEF MInv, Holds, Laid
<1>2. \A h \in Handles : Lies(heap, O[h]) /\ O[h].obj = root[h] /\ O[h].val = values[h]
  BY <1>1, LaidIs
<1> QED
  BY <1>2, HeldIs DEF HeapHoldsValues

-----------------------------------------------------------------------------
(* The promise of rpc.inc, one step per kind of native. *)

\* What the handles lead to is what JsonValues says.
StoreHeld == Store = values

LEMMA StoreIs == MInv => StoreHeld
<1> SUFFICES ASSUME MInv PROVE Store = values
  BY DEF StoreHeld
<1>1. values = [h \in Handles |-> values[h]]
  BY DEF MInv, JInv, TypeOK
<1>2. \A h \in Handles : Held(root[h]) = values[h]
  BY HoldsValues DEF HeapHoldsValues
<1> QED
  BY <1>1, <1>2 DEF Store

Same == JInv /\ Store = values /\ Store' = values'

PromiseStep ==
  \/ Promise!Next
  \/ EntersWhatItReads
  \/ PushesItsHandle
  \/ PutsItselfChanged
  \/ Store' = Store

LEMMA OpenInStore ==
  ASSUME Same, NEW h \in Handles, IsOpen(h)
  PROVE  Promise!IsOpen(h) /\ values[h] \in Promise!Given
BY DEF Same, IsOpen, Promise!IsOpen, Promise!Given

LEMMA PromiseSet ==
  ASSUME Same, NEW h \in Handles, NEW k \in Keys, Keyed(values[h]),
         NEW x \in Promise!Given, Change(h, SetAt(values[h], k, x))
  PROVE  Promise!Next
<1> DEFINE f == Members(values[h])
<1>1. SetAt(values[h], k, x)
        = Object([j \in DOMAIN f \cup {k} |-> IF j = k THEN x ELSE f[j]])
  BY SetAtIs
<1>2. Promise!Inside(Store[h], "object") = f
  BY DEF Same, Promise!Inside, Members
<1>3. SetAt(values[h], k, x)
        = Promise!Container("object", Promise!With(Promise!Inside(Store[h], "object"), k, x))
  BY <1>1, <1>2 DEF Object, Promise!Container, Promise!With
<1>4. Promise!IsOpen(h) /\ Store[h].kind \in {"null", "object"}
  BY AcceptsIfOpen, OpenInStore DEF Same, Keyed
<1>5. Promise!Set(h, k, x)
  BY <1>3, <1>4 DEF Same, Change, Promise!Set, Promise!Change
<1> QED
  BY <1>5 DEF Promise!Next

LEMMA PromisePush ==
  ASSUME Same, NEW h \in Handles, NEW x \in Promise!Given, Push(h, x)
  PROVE  Promise!Next
<1>1. Indexed(values[h]) /\ values' = [values EXCEPT ![h] = PushBack(values[h], x)]
  BY DEF Push, Change
<1>2. PushBack(values[h], x)
        = Promise!Container("array", Append(Promise!Inside(Store[h], "array"), x))
  BY DEF Same, PushBack, Elements, Array, Promise!Container, Promise!Inside
<1>3. Promise!IsOpen(h) /\ Store[h].kind \in {"null", "array"}
  BY <1>1, AcceptsIfOpen, OpenInStore DEF Same, Indexed
<1>4. Promise!Push(h, x)
  BY <1>1, <1>2, <1>3 DEF Same, Promise!Push, Promise!Change
<1> QED
  BY <1>4 DEF Promise!Next

\* A handle is opened for a value that was there before.
LEMMA PromiseOpen ==
  ASSUME Same, NEW h \in Handles, NEW g \in Handles, NEW x, OpenWith(g, x, h, values[h])
  PROVE  Promise!Open(g, x)
<1>1. values = [f \in Handles |-> values[f]]
  BY DEF Same, JInv, TypeOK
<1>2. values' = [values EXCEPT ![g] = x]
  BY <1>1 DEF OpenWith
<1> QED
  BY <1>2 DEF Same, OpenWith, IsOpen, Promise!Open, Promise!IsOpen, Promise!Change

\* Reading a value out of another: a copy of a member, or a null that is entered for it.
LEMMA PromiseTake ==
  ASSUME Same, NEW h \in Handles, IsOpen(h), NEW g \in Handles,
         NEW kind \in {"object", "array"}, NEW k,
         NEW w \in Entered(values[h]), OpenWith(g, w.val[k], h, w),
         \/ /\ k \in DOMAIN Promise!Inside(values[h], kind)
            /\ w = values[h] /\ w.val[k] = Promise!Inside(values[h], kind)[k]
         \/ w.val[k] = Null
  PROVE  PromiseStep
<1>1. CASE /\ k \in DOMAIN Promise!Inside(values[h], kind)
           /\ w = values[h] /\ w.val[k] = Promise!Inside(values[h], kind)[k]
  <2>1. Promise!Open(g, Promise!Inside(values[h], kind)[k])
    BY <1>1, PromiseOpen
  <2>2. Promise!Take(h, g)
    BY <1>1, <2>1, OpenInStore DEF Same, Promise!Take
  <2> QED
    BY <2>2 DEF Promise!Next, PromiseStep
<1>2. CASE w.val[k] = Null
  <2>1. values[g] = Closed /\ values' = [values EXCEPT ![h] = w, ![g] = Null]
    BY <1>2 DEF OpenWith, IsOpen
  <2>2. EntersWhatItReads
    BY <2>1 DEF Same, EntersWhatItReads
  <2> QED
    BY <2>2 DEF PromiseStep
<1> QED
  BY <1>1, <1>2

\* operator[] on what is there leaves the value, and enters null otherwise.
LEMMA KeyRead ==
  ASSUME NEW v, IsValue(v), Keyed(v), NEW k
  PROVE  \/ /\ k \in DOMAIN Members(v)
            /\ AtKey(v, k) = v /\ AtKey(v, k).val[k] = Members(v)[k]
         \/ AtKey(v, k).val[k] = Null
<1> DEFINE f == Members(v)
<1>1. AtKey(v, k) = Object([j \in DOMAIN f \cup {k} |-> IF j \in DOMAIN f THEN f[j] ELSE Null])
  BY AtKeyIs
<1>2. CASE k \notin DOMAIN f
  BY <1>1, <1>2 DEF Object
<1>3. CASE k \in DOMAIN f
  <2>1. v = Object(f) /\ IsMap(f)
    <3>1. f # <<>>
      BY <1>3
    <3> QED
      BY <3>1, MemberFacts
  <2> HIDE DEF f
  <2>2. [j \in DOMAIN f \cup {k} |-> IF j \in DOMAIN f THEN f[j] ELSE Null] = f
    <3>1. DOMAIN f \cup {k} = DOMAIN f
      BY <1>3
    <3> QED
      BY <2>1, <3>1 DEF IsMap
  <2>3. AtKey(v, k) = v
    BY <1>1, <2>1, <2>2
  <2>4. v.val = f
    BY <2>1 DEF Object
  <2> QED
    BY <1>3, <2>3, <2>4 DEF f
<1> QED
  BY <1>2, <1>3

LEMMA IndexRead ==
  ASSUME NEW v, IsValue(v), Indexed(v), NEW i \in Nat
  PROVE  \/ /\ i + 1 \in DOMAIN Elements(v)
            /\ AtIndex(v, i) = v /\ AtIndex(v, i).val[i + 1] = Elements(v)[i + 1]
         \/ AtIndex(v, i).val[i + 1] = Null
<1> DEFINE s == Elements(v)
<1>1. IsList(s) /\ Len(s) \in Nat /\ DOMAIN s = 1..Len(s) /\ IsMap(s)
  BY ElementFacts, ListIsMap
<1>2. AtIndex(v, i) = Array([j \in 1..(IF i < Len(s) THEN Len(s) ELSE i + 1) |->
                               IF j <= Len(s) THEN s[j] ELSE Null])
  BY DEF AtIndex
<1> HIDE DEF s
<1>3. CASE ~(i < Len(s))
  <2>1. AtIndex(v, i).val = [j \in 1..(i + 1) |-> IF j <= Len(s) THEN s[j] ELSE Null]
    BY <1>2, <1>3 DEF Array
  <2>2. i + 1 \in 1..(i + 1) /\ ~(i + 1 <= Len(s))
    BY <1>1, <1>3
  <2> QED
    BY <2>1, <2>2
<1>4. CASE i < Len(s)
  <2>1. i + 1 \in DOMAIN s
    BY <1>1, <1>4
  <2>2. v = Array(s)
    <3>1. s # <<>>
      BY <2>1
    <3> QED
      BY <3>1, ElementFacts DEF s
  <2>3. [j \in 1..Len(s) |-> IF j <= Len(s) THEN s[j] ELSE Null] = s
    <3>1. \A j \in 1..Len(s) : j <= Len(s)
      BY <1>1
    <3>2. [j \in 1..Len(s) |-> IF j <= Len(s) THEN s[j] ELSE Null] = [j \in 1..Len(s) |-> s[j]]
      BY <3>1
    <3> QED
      BY <1>1, <3>2 DEF IsMap
  <2>4. AtIndex(v, i) = v
    BY <1>2, <1>4, <2>2, <2>3
  <2>5. v.val = s
    BY <2>2 DEF Array
  <2> QED
    BY <2>1, <2>4, <2>5 DEF s
<1> QED
  BY <1>3, <1>4

\* Setting.
LEMMA SetScalarPromised ==
  ASSUME Same, NEW h \in Handles, NEW k \in Keys, NEW t \in Types, SetScalar(h, k, t)
  PROVE  PromiseStep
<1>1. Scalar(t, GivenValue) \in Promise!Given
  BY DEF Promise!Given
<1>2. Promise!Next
  BY <1>1, PromiseSet DEF SetScalar
<1> QED
  BY <1>2 DEF PromiseStep

LEMMA SetJSONPromised ==
  ASSUME Same, NEW h \in Handles, NEW k \in Keys, NEW g \in Handles, NEW early \in BOOLEAN,
         SetJSON(h, k, g, early)
  PROVE  PromiseStep
<1>1. CASE early \/ h # g
  <2>1. values[g] \in Promise!Given
    BY OpenInStore DEF SetJSON
  <2>2. Promise!Next
    BY <1>1, <2>1, PromiseSet DEF SetJSON
  <2> QED
    BY <2>2 DEF PromiseStep
<1>2. CASE h = g /\ ~early
  <2>1. Keyed(values[h]) /\ Change(h, SetAt(values[h], k, AtKey(values[h], k)))
    BY <1>2 DEF SetJSON
  <2>2. PutsItselfChanged
    BY <2>1 DEF Same, Change, PutsItselfChanged
  <2> QED
    BY <2>2 DEF PromiseStep
<1> QED
  BY <1>1, <1>2

\* Reading by key or by index.
LEMMA GetsPromised ==
  ASSUME Same, NEW h \in Handles, NEW w \in Entered(values[h]), Change(h, w)
  PROVE  PromiseStep
BY DEF Same, Change, EntersWhatItReads, PromiseStep

LEMMA EnteredBy ==
  ASSUME NEW v
  PROVE  /\ Keyed(v) => \A k \in Keys : AtKey(v, k) \in Entered(v)
         /\ Indexed(v) => \A i \in 0..(MaxLen - 1) : AtIndex(v, i) \in Entered(v)
BY DEF Entered

LEMMA GetScalarPromised ==
  ASSUME Same, NEW h \in Handles, NEW k \in Keys, GetScalar(h, k) \/ GetNoString(h, k)
  PROVE  PromiseStep
<1>1. Keyed(values[h]) /\ Change(h, AtKey(values[h], k))
  BY DEF GetScalar, GetNoString
<1> QED
  BY <1>1, EnteredBy, GetsPromised

LEMMA GetArrayScalarPromised ==
  ASSUME Same, NEW h \in Handles, NEW i \in 0..(MaxLen - 1), GetArrayScalar(h, i)
  PROVE  PromiseStep
BY EnteredBy, GetsPromised DEF GetArrayScalar

LEMMA GetJSONPromised ==
  ASSUME Same, NEW h \in Handles, NEW k \in Keys, NEW g \in Handles, GetJSON(h, k, g)
  PROVE  PromiseStep
<1> DEFINE v == values[h]
           w == AtKey(v, k)
<1>1. Keyed(v) /\ OpenWith(g, w.val[k], h, w)
  BY DEF GetJSON
<1>2. IsOpen(h) /\ IsValue(v)
  BY <1>1, AcceptsIfOpen DEF Same, IsJson
<1>3. Promise!Inside(v, "object") = Members(v)
  BY DEF Promise!Inside, Members
<1>4. w \in Entered(v)
  BY <1>1, EnteredBy
<1>5. \/ k \in DOMAIN Members(v) /\ w = v /\ w.val[k] = Members(v)[k]
      \/ w.val[k] = Null
  BY <1>1, <1>2, KeyRead
<1> HIDE DEF w
<1> QED
  BY <1>1, <1>2, <1>3, <1>4, <1>5, PromiseTake

LEMMA GetArrayJSONPromised ==
  ASSUME Same, NEW h \in Handles, NEW i \in 0..(MaxLen - 1), NEW g \in Handles,
         GetArrayJSON(h, i, g)
  PROVE  PromiseStep
<1> DEFINE v == values[h]
           w == AtIndex(v, i)
<1>1. Indexed(v) /\ OpenWith(g, w.val[i + 1], h, w)
  BY DEF GetArrayJSON
<1>2. IsOpen(h) /\ IsValue(v)
  BY <1>1, AcceptsIfOpen DEF Same, IsJson
<1>3. Promise!Inside(v, "array") = Elements(v)
  BY DEF Promise!Inside, Elements
<1>4. w \in Entered(v)
  BY <1>1, EnteredBy
<1>5. i \in Nat
  BY JsonConstants
<1>6. \/ i + 1 \in DOMAIN Elements(v) /\ w = v /\ w.val[i + 1] = Elements(v)[i + 1]
      \/ w.val[i + 1] = Null
  BY <1>1, <1>2, <1>5, IndexRead
<1> HIDE DEF w
<1> QED
  BY <1>1, <1>2, <1>3, <1>4, <1>6, PromiseTake

\* Pushing.
LEMMA PushScalarPromised ==
  ASSUME Same, NEW h \in Handles, NEW t \in Types, PushScalar(h, t)
  PROVE  PromiseStep
<1>1. CASE t = "string"
  <2>1. Scalar(t, GivenValue) \in Promise!Given
    BY DEF Promise!Given
  <2>2. Promise!Next
    BY <1>1, <2>1, PromisePush DEF PushScalar
  <2> QED
    BY <2>2 DEF PromiseStep
<1>2. CASE t # "string"
  <2>1. Indexed(values[h])
    BY DEF PushScalar, Push
  <2>2. values' = [values EXCEPT ![h] = PushBack(values[h], Scalar(t, HandleNumber))]
    BY <1>2 DEF PushScalar, Push, Change
  <2>3. PushesItsHandle
    BY <1>2, <2>1, <2>2 DEF Same, PushesItsHandle
  <2> QED
    BY <2>3 DEF PromiseStep
<1> QED
  BY <1>1, <1>2

LEMMA PushJSONPromised ==
  ASSUME Same, NEW h \in Handles, NEW g \in Handles,
         PushJSON(h, g)
  PROVE  PromiseStep
<1>1. values[g] \in Promise!Given
  BY OpenInStore DEF PushJSON
<1>2. CASE Push(h, values[g])
  BY <1>1, <1>2, PromisePush DEF PromiseStep
<1>3. CASE h = g /\ values[h] = Null /\ Elements(values[h]) = <<>>
  <2>1. Push(h, Array(<<>>))
    BY <1>3 DEF PushJSON
  <2>2. Append(<<>>, Array(<<>>)) = <<Array(<<>>)>>
    OBVIOUS
  <2>3. values' = [values EXCEPT ![h] = Array(<<Array(<<>>)>>)]
    BY <1>3, <2>1, <2>2 DEF Push, Change, PushBack
  <2>4. PutsItselfChanged
    BY <1>3, <2>3 DEF Same, PutsItselfChanged
  <2> QED
    BY <2>4 DEF PromiseStep
<1>4. \/ Push(h, values[g])
      \/ h = g /\ values[h] = Null /\ Elements(values[h]) = <<>>
  <2>1. Indexed(values[h])
    BY DEF PushJSON, Push
  <2>2. IsValue(values[h])
    BY <2>1, AcceptsIfOpen DEF Same, IsJson
  <2> QED
    BY <2>1, <2>2, ElementFacts DEF PushJSON
<1> QED
  BY <1>2, <1>3, <1>4

\* Handles.
LEMMA OpenedPromised ==
  ASSUME Same, NEW g \in Handles, CreateJSON(g) \/ \E v \in Arriving : Arrives(g, v)
  PROVE  PromiseStep
<1>1. PICK x \in Arriving \cup {Null} : OpenWith(g, x, g, x)
  BY DEF CreateJSON, Arrives
<1>2. values' = [values EXCEPT ![g] = x]
  BY <1>1 DEF OpenWith, Same, JInv, TypeOK
<1>3. Promise!Open(g, x)
  BY <1>1, <1>2 DEF Same, OpenWith, IsOpen, Promise!Open, Promise!IsOpen, Promise!Change
<1> QED
  BY <1>3 DEF Promise!Next, PromiseStep

LEMMA ClosePromised ==
  ASSUME Same, NEW h \in Handles, CloseHandle(h)
  PROVE  PromiseStep
<1>1. Promise!Close(h)
  BY DEF Same, CloseHandle, Change, IsOpen, Promise!Close, Promise!IsOpen, Promise!Change
<1> QED
  BY <1>1 DEF Promise!Next, PromiseStep

LEMMA EveryStepPromised ==
  ASSUME Same, [Next]_vars
  PROVE  PromiseStep
<1>1. CASE UNCHANGED vars
  BY <1>1 DEF vars, Same, PromiseStep
<1>2. ASSUME NEW h \in Handles, NegativeIndex(h) \/ NoKeys(h) \/ NoArray(h)
      PROVE  PromiseStep
  BY <1>2 DEF NegativeIndex, NoKeys, NoArray, Same, PromiseStep
<1>3. ASSUME NEW h \in Handles, NEW k \in Keys, KeyNative(h, k)
      PROVE  PromiseStep
  BY <1>3, SetScalarPromised, SetJSONPromised, GetScalarPromised, GetJSONPromised
     DEF KeyNative
<1>4. ASSUME NEW h \in Handles, ArrayNative(h)
      PROVE  PromiseStep
  BY <1>2, <1>4, PushScalarPromised, PushJSONPromised, GetArrayScalarPromised,
     GetArrayJSONPromised DEF ArrayNative
<1>5. CASE Next
  BY <1>2, <1>3, <1>4, <1>5, OpenedPromised, ClosePromised DEF Next
<1> QED
  BY <1>1, <1>5

-----------------------------------------------------------------------------
(* The theorems. *)

\* The heap of json.hpp: one object lies at every handle, apart from the others,
\* and together they take up all the cells that are in use.
THEOREM MemoryInvariant == MSpec => []MInv
<1>1. MInit => MInv
  BY MemoryInit
<1>2. MInv /\ [MNext]_mvars => MInv'
  BY MemoryStep
<1> QED
  BY <1>1, <1>2, PTL DEF MSpec

\* No two objects share a cell, no pointer dangles, nothing is freed twice or lost:
\* the destructor of json.hpp can free whatever it reaches.
THEOREM EachCellOwnedOnceAlways == MSpec => []EachCellOwnedOnce
<1>1. MInv => EachCellOwnedOnce
  BY OwnedOnce
<1> QED
  BY <1>1, MemoryInvariant, PTL

\* The copies, swaps and moves of the natives give every handle the value that
\* JsonValues says it has.
THEOREM HeapHoldsValuesAlways == MSpec => []HeapHoldsValues
<1>1. MInv => HeapHoldsValues
  BY HoldsValues
<1> QED
  BY <1>1, MemoryInvariant, PTL

\* The natives with their memory are those of JsonValues.
THEOREM MemoryImplementsValues == MSpec => Spec
<1>1. MInit => Init
  BY DEF MInit
<1>2. [MNext]_mvars => [Next]_vars
  BY MNextIsNext DEF mvars, vars
<1> QED
  BY <1>1, <1>2, PTL DEF MSpec, Spec

\* The values that the heap holds for the handles change as rpc.inc says, element by
\* element, but where reading enters nulls, a number is pushed as its handle and a value
\* is put in itself.
THEOREM MemoryKeepsPromise == MSpec => KeepsPromise
<1>1. MInit => Promise!Init
  <2>1. MInit => Store = values
    BY MemoryInit, StoreIs DEF StoreHeld
  <2> QED
    BY <2>1 DEF MInit, Init, Promise!Init
<1>2. MInv /\ StoreHeld /\ StoreHeld' /\ [MNext]_mvars => PromiseStep
  <2> SUFFICES ASSUME MInv, StoreHeld, StoreHeld', [MNext]_mvars PROVE PromiseStep
    OBVIOUS
  <2>1. Same
    BY DEF Same, StoreHeld, MInv
  <2>2. [Next]_vars
    BY MNextIsNext DEF mvars, vars
  <2> QED
    BY <2>1, <2>2, EveryStepPromised
<1>3. MInv /\ StoreHeld /\ StoreHeld' /\ [MNext]_mvars =>
        [\/ Promise!Next
         \/ EntersWhatItReads
         \/ PushesItsHandle
         \/ PutsItselfChanged]_Store
  BY <1>2 DEF PromiseStep
<1>4. MSpec => []StoreHeld
  BY MemoryInvariant, StoreIs, PTL
<1> QED
  BY <1>1, <1>3, <1>4, MemoryInvariant, PTL DEF MSpec, KeepsPromise
=============================================================================
