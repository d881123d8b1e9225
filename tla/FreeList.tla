------------------------------ MODULE FreeList ------------------------------
(***************************************************************************)
(* The free list of mlos-arena as operators on a sequence of holes: what   *)
(* Arena::place takes from it, what Arena::release puts back, and how a    *)
(* returned run merges with its neighbours.  Arena and Manager share it.   *)
(***************************************************************************)
EXTENDS Integers, Sequences, SequencesExt

CONSTANT Align      \* Arena::ALIGN, what a placement is rounded up to

ASSUME AlignAssumption == Align \in Nat \ {0}

Hole == [at : Nat, len : Nat]
End(hole) == hole.at + hole.len

\* A byte is in some hole of the list.
Covers(free, b) == \E i \in 1 .. Len(free) : free[i].at <= b /\ b < End(free[i])

\* Sorted by address, inside the first `capacity` bytes, no hole empty and no
\* two touching: the invariant holes.rs states.
WellFormed(free, capacity) ==
  /\ \A i \in 1 .. Len(free) : free[i].len > 0 /\ End(free[i]) <= capacity
  /\ \A i, j \in 1 .. Len(free) : i < j => End(free[i]) < free[j].at

\* u32::next_multiple_of(ALIGN), as place, release and fits all round.
RoundUp(size) == ((size + Align - 1) \div Align) * Align

\* Occupancy::largest.
Largest(free) == IF free = <<>> THEN 0 ELSE Max({free[i].len : i \in DOMAIN free})

\* Occupancy::fits.
Fits(free, size) == Largest(free) >= RoundUp(size)

\* The hole a placement of want bytes comes from: the first long enough, or 0.
FirstFit(free, want) == SelectInSeq(free, LAMBDA hole : hole.len >= want)

\* Mutant: an exhausted hole stays in the list.
TakeKeepingEmpty(free, i, want) ==
  [free EXCEPT ![i] = [at |-> @.at + want, len |-> @.len - want]]

\* The list after want bytes are taken from the front of hole i.
Take(free, i, want) ==
  IF free[i].len = want
  THEN RemoveAt(free, i)
  ELSE [free EXCEPT ![i] = [at |-> @.at + want, len |-> @.len - want]]

\* Where a hole at offset `at` goes: before the first that begins after it.
Position(free, at) ==
  LET i == SelectInSeq(free, LAMBDA hole : hole.at > at)
  IN  IF i = 0 THEN Len(free) + 1 ELSE i

\* Hole i swallows hole i + 1.
Swallow(free, i) ==
  RemoveAt([free EXCEPT ![i] = [at |-> @.at, len |-> @.len + free[i + 1].len]], i + 1)

Touches(free, i) == i >= 1 /\ i + 1 <= Len(free) /\ End(free[i]) = free[i + 1].at

\* Mutant: only the later neighbour is looked at.
MergeNextOnly(free, i) == IF Touches(free, i) THEN Swallow(free, i) ELSE free

\* holes::merge: the later neighbour first, then the earlier one.
Merge(free, i) ==
  LET next == IF Touches(free, i) THEN Swallow(free, i) ELSE free
  IN  IF Touches(next, i - 1) THEN Swallow(next, i - 1) ELSE next

\* The list after a release of len bytes at offset `at`.
Give(free, at, len) ==
  LET i == Position(free, at)
  IN  Merge(InsertAt(free, i, [at |-> at, len |-> len]), i)
=============================================================================
