---------------------------- MODULE MCJsonMemory ----------------------------
(* JsonMemory for TLC: what arrives is a scalar or a list with a map in it.   *)
EXTENDS JsonMemory, SequencesExt

SomeArriving ==
  {Scalar("string", GivenValue),
   Array(<<Object([k \in Keys |-> Scalar("string", GivenValue)])>>)}

\* The lowest free cell for each.
Placed(x, r, T) ==
  LET left == T \ {r[y] : y \in DOMAIN r}
  IN  (x :> IF left = {} THEN 1 ELSE Min(left)) @@ r

FirstFree(S, T) == FoldSet(LAMBDA x, r : Placed(x, r, T), <<>>, S)

\* Cells have no names that a program could tell apart.  While both invariants hold,
\* the heap is the same for the same values up to these names; a state in which one
\* does not hold is looked at for itself.
UpToNames == <<values, fault, uses, made, EachCellOwnedOnce, HeapHoldsValues>>

Symmetry == Permutations(Handles) \cup Permutations(Keys)
=============================================================================
