----------------------------- MODULE JsonMemory -----------------------------
(***************************************************************************)
(* The memory behind the JSON natives.  A basic_json of json.hpp is a type *)
(* and a word: a number, or for objects, arrays and strings a pointer to a *)
(* cell of the heap, which holds the members, elements or characters.      *)
(* Copying, assigning and destroying a basic_json have to keep these       *)
(* pointers apart.  JsonValues says which value every handle has; here     *)
(* each of its natives does to the heap what its C++ does.                 *)
(*                                                                         *)
(* A native runs to its end or throws before it has changed anything that  *)
(* lives on: what throws in JsonValues leaves the heap alone, because the  *)
(* temporaries of the call are destroyed on the way out.                   *)
(***************************************************************************)
EXTENDS JsonValues

CONSTANTS
  Addresses,    \* bound: cells of the heap
  Place(_, _)   \* the allocator: addresses, out of a set, for the members of a set

VARIABLES
  heap,   \* address -> the cell there, or Unused
  root    \* handle -> the basic_json it leads to

mvars == <<values, fault, uses, made, heap, root>>

-----------------------------------------------------------------------------
(* Objects and cells. *)

Json(type, word) == [type |-> type, word |-> word]

NullJson == Json("null", None)
NoJson == Json("closed", None)

\* The types whose word is a pointer.
Pointed == {"object", "array", "string"}

Cell(kind, val) == [kind |-> kind, val |-> val]

Unused == Cell("unused", None)

Fresh(m) == {a \in Addresses : m[a] = Unused}

\* Where a cell holds other objects.
Places(c) == IF c.kind \in {"object", "array"} THEN DOMAIN c.val ELSE {}

Own(s) == IF s.type \in Pointed THEN {s.word} ELSE {}

\* The cells A and those that the objects in them own.
Under(m, A) == A \cup UNION {UNION {Own(m[a].val[k]) : k \in Places(m[a])} : a \in A}

\* The cells of an object, its members and theirs, which are nested no deeper.
Cells(m, s) == Under(m, Under(m, Own(s)))

-----------------------------------------------------------------------------
(* Operations of the library.  They return the heap, the object they make or *)
(* change, and whether the bound left cells for it.                          *)

Injects(r, S, T) ==
  /\ \A x \in S : r[x] \in T
  /\ \A x, y \in S : r[x] = r[y] => x = y

\* The parts of a value, it, its members and theirs, by their paths: <<>> is the
\* value, <<p, k>> the member at k of the part with path p.
Top == <<>>

Parts(v) ==
  {Top} \cup {<<Top, k>> : k \in Places(v)}
         \cup UNION {{<<<<Top, k>>, j>> : j \in Places(v.val[k])} : k \in Places(v)}

Part(v, p) ==
  IF p = Top THEN v
  ELSE IF p[1] = Top THEN v.val[p[2]]
  ELSE v.val[p[1][2]].val[p[2]]

\* The parts that need a cell.
Stored(v) == {p \in Parts(v) : Part(v, p).kind \in Pointed}

\* The constructors: parts are objects, and create puts those that need it in cells.
ObjectOf(v, p, r) ==
  LET w == Part(v, p) IN Json(w.kind, IF w.kind \in Pointed THEN r[p] ELSE w.val)

CellOf(v, p, r) ==
  LET w == Part(v, p)
  IN  Cell(w.kind, IF IsContainer(w)
                     THEN [k \in DOMAIN w.val |-> ObjectOf(v, <<p, k>>, r)]
                     ELSE w.val)

Create(m, v) ==
  LET r == Place(Stored(v), Fresh(m))
  IN  [fits |-> Injects(r, Stored(v), Fresh(m)),
       json |-> ObjectOf(v, Top, r),
       heap |-> [a \in Addresses |->
                   IF \E p \in Stored(v) : r[p] = a
                     THEN CellOf(v, CHOOSE p \in Stored(v) : r[p] = a, r) ELSE m[a]]]

Moved_Shared(r, s) == s  \* mutant: the pointer is copied, not what it points to

Moved(r, s) == IF s.type \in Pointed THEN Json(s.type, r[s.word]) ELSE s

CopiedCell(r, c) ==
  IF Places(c) = {} THEN c ELSE Cell(c.kind, [k \in DOMAIN c.val |-> Moved(r, c.val[k])])

\* The copy constructor.
Copy(m, s) ==
  LET r == Place(Cells(m, s), Fresh(m))
  IN  [fits |-> Injects(r, Cells(m, s), Fresh(m)),
       json |-> Moved(r, s),
       heap |-> [a \in Addresses |->
                   IF \E b \in Cells(m, s) : r[b] = a
                     THEN CopiedCell(r, m[CHOOSE b \in Cells(m, s) : r[b] = a]) ELSE m[a]]]

\* The destructor.
Destroyed(m, s) == [a \in Addresses |-> IF a \in Cells(m, s) THEN Unused ELSE m[a]]

Assigned_OldStays(m, a, k, new) == Destroyed(m, new)  \* mutant: nothing is swapped

\* operator= of the object at a place in a cell: new is swapped in, and what was
\* there is destroyed with the parameter.
Assigned(m, a, k, new) ==
  Destroyed([m EXCEPT ![a].val[k] = new], m[a].val[k])

\* Null becomes a container before it is used as one.
AsContainer(m, s, kind) ==
  IF s.type = "null" THEN Create(m, Cell(kind, <<>>))
  ELSE [fits |-> TRUE, json |-> s, heap |-> m]

\* operator[] with a key, and with an index.
ByKey(m, s, k) ==
  LET b == AsContainer(m, s, "object")
      f == b.heap[b.json.word].val
      g == [j \in DOMAIN f \cup {k} |-> IF j \in DOMAIN f THEN f[j] ELSE NullJson]
  IN  [b EXCEPT !.heap[b.json.word].val = g]

ByIndex(m, s, i) ==
  LET b == AsContainer(m, s, "array")
      f == b.heap[b.json.word].val
      g == [j \in 1..(IF i < Len(f) THEN Len(f) ELSE i + 1) |->
              IF j <= Len(f) THEN f[j] ELSE NullJson]
  IN  [b EXCEPT !.heap[b.json.word].val = g]

-----------------------------------------------------------------------------
(* What the natives do. *)

\* A native changes the object of handle h to what is left in b.
Leaves(h, b, m) ==
  /\ b.fits
  /\ heap' = m
  /\ root' = [root EXCEPT ![h] = b.json]

PutMember(h, k, new) ==
  LET b == ByKey(new.heap, root[h], k)
  IN  new.fits /\ Leaves(h, b, Assigned(b.heap, b.json.word, k, new.json))

MSetScalar(h, k, t) ==
  SetScalar(h, k, t) /\ PutMember(h, k, Create(heap, Scalar(t, GivenValue)))

MSetJSON_Moves(h, k, g, early) ==  \* mutant: the value is moved out of its handle
  /\ SetJSON(h, k, g, early)
  /\ h # g
  /\ LET b == ByKey(heap, root[h], k)
     IN  /\ b.fits
         /\ heap' = Assigned(b.heap, b.json.word, k, root[g])
         /\ root' = [root EXCEPT ![h] = b.json, ![g] = NullJson]

\* The parameter of operator= is a copy, made before or after operator[].
MSetJSON(h, k, g, early) ==
  /\ SetJSON(h, k, g, early)
  /\ IF early
     THEN PutMember(h, k, Copy(heap, root[g]))
     ELSE LET b == ByKey(heap, root[h], k)
              new == Copy(b.heap, IF h = g THEN b.json ELSE root[g])
          IN  new.fits /\ Leaves(h, b, Assigned(new.heap, b.json.word, k, new.json))

MGetScalar(h, k) ==
  /\ GetScalar(h, k) \/ GetNoString(h, k)
  /\ LET b == ByKey(heap, root[h], k) IN Leaves(h, b, b.heap)

\* A member is copied to a local variable, that to the new handle's object, and
\* the local one is destroyed.
GiveMember(h, b, k, g) ==
  LET res == Copy(b.heap, b.heap[b.json.word].val[k])
      new == Copy(res.heap, res.json)
  IN  /\ b.fits /\ res.fits /\ new.fits
      /\ heap' = Destroyed(new.heap, res.json)
      /\ root' = [root EXCEPT ![h] = b.json, ![g] = new.json]

MGetJSON(h, k, g) ==
  GetJSON(h, k, g) /\ GiveMember(h, ByKey(heap, root[h], k), k, g)

\* The vector moves or copies an object behind its last.  One that was moved is
\* null after that, and its destructor frees nothing.
Appended(m, a, s) == [m EXCEPT ![a].val = Append(m[a].val, s)]

\* push_back.
PushObject(h, b, m, s) == Leaves(h, b, Appended(m, b.json.word, s))

MPushScalar(h, t) ==
  /\ PushScalar(h, t)
  /\ LET new == Create(heap, Scalar(t, IF t = "string" THEN GivenValue ELSE HandleNumber))
         b == AsContainer(new.heap, root[h], "array")
     IN  new.fits /\ PushObject(h, b, b.heap, new.json)

MPushJSON(h, g) ==
  /\ PushJSON(h, g)
  /\ LET b == AsContainer(heap, root[h], "array")
         new == Copy(b.heap, IF h = g THEN b.json ELSE root[g])
     IN  new.fits /\ PushObject(h, b, new.heap, new.json)

MGetArrayScalar(h, i) ==
  /\ GetArrayScalar(h, i)
  /\ LET b == ByIndex(heap, root[h], i) IN Leaves(h, b, b.heap)

MGetArrayJSON(h, i, g) ==
  GetArrayJSON(h, i, g) /\ GiveMember(h, ByIndex(heap, root[h], i), i + 1, g)

MCreateJSON(g) ==
  /\ CreateJSON(g)
  /\ root' = [root EXCEPT ![g] = NullJson]
  /\ UNCHANGED heap

MArrives(g, v) ==
  Arrives(g, v) /\ LET new == Create(heap, v) IN Leaves(g, new, new.heap)

MCloseHandle(h) ==
  /\ CloseHandle(h)
  /\ heap' = Destroyed(heap, root[h])
  /\ root' = [root EXCEPT ![h] = NoJson]

\* What throws, and the index that never ends.
MFails(h) ==
  /\ NoKeys(h) \/ NoArray(h) \/ NegativeIndex(h)
  /\ UNCHANGED <<heap, root>>

-----------------------------------------------------------------------------
MInit ==
  /\ Init
  /\ heap = [a \in Addresses |-> Unused]
  /\ root = [h \in Handles |-> NoJson]

MNext ==
  /\ fault = "none"
  /\ \E h \in Handles :
       \/ MCreateJSON(h)
       \/ \E v \in Arriving : MArrives(h, v)
       \/ MCloseHandle(h)
       \/ \E k \in Keys :
            \/ \E t \in Types : MSetScalar(h, k, t)
            \/ \E g \in Handles, early \in BOOLEAN : MSetJSON(h, k, g, early)
            \/ MGetScalar(h, k)
            \/ \E g \in Handles : MGetJSON(h, k, g)
       \/ \E t \in Types : MPushScalar(h, t)
       \/ \E g \in Handles : MPushJSON(h, g)
       \/ \E i \in 0..(MaxLen - 1) :
            MGetArrayScalar(h, i) \/ \E g \in Handles : MGetArrayJSON(h, i, g)
       \/ MFails(h)

MSpec == MInit /\ [][MNext]_mvars

-----------------------------------------------------------------------------
(* Properties. *)

Points(s, a) == s.type \in Pointed /\ s.word = a

\* The handles, and the places in cells, whose objects point at a cell.
Roots(a) == {h \in Handles : Points(root[h], a)}

Inner(a) ==
  UNION {{<<b, k>> : k \in {j \in Places(heap[b]) : Points(heap[b].val[j], a)}} : b \in Addresses}

Used == {a \in Addresses : heap[a] # Unused}

\* Copies share nothing, nothing is freed twice or used after that, and nothing
\* leaks: a cell that is in use belongs to one object and can be reached from a
\* handle, and no object points at a cell that is not.
EachCellOwnedOnce ==
  /\ \A a \in Used :
       \/ Inner(a) = {} /\ \E h \in Handles : Roots(a) = {h}
       \/ Roots(a) = {} /\ \E b \in Used : \E k \in Places(heap[b]) : Inner(a) = {<<b, k>>}
  /\ \A h \in Handles : Own(root[h]) \subseteq Used
  /\ \A b \in Used : \A k \in Places(heap[b]) : Own(heap[b].val[k]) \subseteq Used
  /\ Used = UNION {Cells(heap, root[h]) : h \in Handles}

\* What the pointers lead to, as a value.
HeldAtom(s) ==
  IF s.type = "string" THEN Scalar("string", heap[s.word].val) ELSE Cell(s.type, s.word)

Held1(s) ==
  IF s.type \in {"object", "array"}
    THEN Cell(s.type, [k \in DOMAIN heap[s.word].val |-> HeldAtom(heap[s.word].val[k])])
    ELSE HeldAtom(s)

Held(s) ==
  IF s.type \in {"object", "array"}
    THEN Cell(s.type, [k \in DOMAIN heap[s.word].val |-> Held1(heap[s.word].val[k])])
    ELSE HeldAtom(s)

\* However values are set in each other and in themselves, read and closed, the
\* objects in the heap are the values of JsonValues.
HeapHoldsValues == \A h \in Handles : Held(root[h]) = values[h]

\* What the handles of a plugin lead to, read off the heap alone.
Store == [h \in Handles |-> Held(root[h])]

Promise == INSTANCE JsonStore WITH
  Scalars <- {Scalar(t, GivenValue) : t \in Types},
  Arriving <- Arriving \cup {Null},
  store <- Store

\* Where the natives do something else.  Reading what is not there enters it: null
\* under the key, or nulls up to the index, in the value that is read and nowhere else.
Entered(v) ==
  {AtKey(v, k) : k \in IF Keyed(v) THEN Keys ELSE {}}
    \cup {AtIndex(v, i) : i \in IF Indexed(v) THEN 0..(MaxLen - 1) ELSE {}}

EntersWhatItReads ==
  \E h \in Handles : \E v \in Entered(Store[h]) :
    \/ Store' = [Store EXCEPT ![h] = v]
    \/ \E g \in Handles :
         Store[g] = Closed /\ Store' = [Store EXCEPT ![h] = v, ![g] = Null]

\* A number is pushed as the number of the handle.
PushesItsHandle ==
  \E h \in Handles, t \in Types \ {"string"} :
    Indexed(Store[h]) /\ Store' = [Store EXCEPT ![h] = PushBack(@, Scalar(t, HandleNumber))]

\* A value that is set or pushed in itself is copied after it was made ready for that.
PutsItselfChanged ==
  \E h \in Handles :
    \/ \E k \in Keys :
         Keyed(Store[h]) /\ Store' = [Store EXCEPT ![h] = SetAt(@, k, AtKey(@, k))]
    \/ Store[h] = Null /\ Store' = [Store EXCEPT ![h] = Array(<<Array(<<>>)>>)]

\* The natives, down to the heap, do what rpc.inc says of them, and nothing else but
\* for these three: what is set or pushed is a value the plugin has, and stays as it
\* was ("The object pointed to by this handle is copied"), elements keep their places, a
\* value that is read out is a copy, and no handle's value changes with another's.  Which
\* of its values a plugin asked PushJSON for does not show in the values: that it pushes
\* another one, the word behind its arguments, is said at PushJSON and not here.
KeepsPromise ==
  Promise!Init /\ [][\/ Promise!Next
                     \/ EntersWhatItReads
                     \/ PushesItsHandle
                     \/ PutsItselfChanged]_Store
=============================================================================
