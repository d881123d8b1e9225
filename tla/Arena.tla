-------------------------------- MODULE Arena --------------------------------
(***************************************************************************)
(* mlos-arena: a fixed region of Capacity bytes, a sorted and coalesced    *)
(* free list of at most Holes holes, first fit.                            *)
(*                                                                         *)
(* Offsets are from the region's base, which the code adds to what it      *)
(* hands out and subtracts from what it is given back; held records what   *)
(* callers own, as the object table's resident_at and size do.  Callers    *)
(* give back what they hold, whole (Manager::evict) or its tail (the       *)
(* ladder's rewrite).                                                      *)
(***************************************************************************)
EXTENDS FreeList, FiniteSets

CONSTANTS Capacity,     \* bytes.len()
          Holes,        \* HOLES, how many holes the list can record
          Sizes         \* the sizes callers ask for

ASSUME CapacityAssumption == Capacity \in Nat \ {0}
ASSUME HolesAssumption == Holes \in Nat \ {0}
ASSUME SizesAssumption == Sizes \subseteq Nat \ {0}

VARIABLES free,     \* Arena::free[..holes]
          used,     \* Arena::used
          held,     \* the extents callers hold
          last      \* the last call and whether it succeeded

vars == <<free, used, held, last>>

Extent == [at : Nat, size : Sizes]
Call(op, size, ok) == [op |-> op, size |-> size, ok |-> ok]
Calls == [op : {"new"}] \cup [op : {"place", "release", "shrink"}, size : Sizes, ok : BOOLEAN]

Init ==
  /\ free = <<[at |-> 0, len |-> Capacity]>>
  /\ used = 0
  /\ held = {}
  /\ last = [op |-> "new"]

\* Mutant: what is counted as used is not rounded up.
PlaceUnrounded(size) ==
  LET want == RoundUp(size)
      i    == FirstFit(free, want)
  IN  /\ i # 0
      /\ free' = Take(free, i, want)
      /\ used' = used + size
      /\ held' = held \cup {[at |-> free[i].at, size |-> size]}
      /\ last' = Call("place", size, TRUE)

Place(size) ==
  LET want == RoundUp(size)
      i    == FirstFit(free, want)
  IN  \/ /\ i # 0
         /\ free' = Take(free, i, want)
         /\ used' = used + want
         /\ held' = held \cup {[at |-> free[i].at, size |-> size]}
         /\ last' = Call("place", size, TRUE)
      \/ /\ i = 0
         /\ last' = Call("place", size, FALSE)
         /\ UNCHANGED <<free, used, held>>

\* Arena::release of len bytes at offset `at`; the bytes are a multiple of
\* Align, so rounding them up changes nothing.
GiveBack(at, len) ==
  /\ Len(free) < Holes
  /\ free' = Give(free, at, len)
  /\ used' = used - len

\* The free list is full: the release is refused and nothing changes.
Refuse == Len(free) = Holes /\ UNCHANGED <<free, used, held>>

\* Mutant: a release that the list cannot record is forgotten, not refused.
ReleaseLeaking(x) ==
  /\ free' = IF Len(free) < Holes THEN Give(free, x.at, RoundUp(x.size)) ELSE free
  /\ used' = used - RoundUp(x.size)
  /\ held' = held \ {x}
  /\ last' = Call("release", x.size, TRUE)

Release(x) ==
  \/ /\ GiveBack(x.at, RoundUp(x.size))
     /\ held' = held \ {x}
     /\ last' = Call("release", x.size, TRUE)
  \/ /\ Refuse
     /\ last' = Call("release", x.size, FALSE)

\* The ladder keeps the first `size` bytes of x and gives the tail back.
Shrink(x, size) ==
  LET old == RoundUp(x.size)
      new == RoundUp(size)
  IN  /\ new < old
      /\ \/ /\ GiveBack(x.at + new, old - new)
            /\ held' = (held \ {x}) \cup {[at |-> x.at, size |-> size]}
            /\ last' = Call("shrink", x.size, TRUE)
         \/ /\ Refuse
            /\ last' = Call("shrink", x.size, FALSE)

Next ==
  \/ \E size \in Sizes : Place(size)
  \/ \E x \in held : Release(x) \/ \E size \in Sizes : Shrink(x, size)

Spec == Init /\ [][Next]_vars

-----------------------------------------------------------------------------
(* Properties. *)

Bytes == 0 .. Capacity - 1
Within(b, x) == x.at <= b /\ b < x.at + RoundUp(x.size)
HeldByte(b) == \E x \in held : Within(b, x)
HeldBytes == {b \in Bytes : HeldByte(b)}

\* The list fits its array, and holes, extents and counts are what they say.
TypeOK ==
  /\ free \in Seq(Hole)
  /\ Len(free) <= Holes
  /\ used \in Nat
  /\ held \in SUBSET Extent
  /\ last \in Calls

\* The invariant of holes.rs: sorted by address, never empty, and no two
\* holes touch, whatever order runs come back in.
Coalesced == WellFormed(free, Capacity)

\* Every byte of the region is either free or held, never both and never
\* neither: nothing is handed out twice, and nothing is leaked.
Partition ==
  /\ \A b \in Bytes : Covers(free, b) <=> ~HeldByte(b)
  /\ \A x \in held : x.at + RoundUp(x.size) <= Capacity

\* Two callers never hold the same byte.
HeldApart ==
  \A x, y \in held :
    x # y => \/ x.at + RoundUp(x.size) <= y.at
             \/ y.at + RoundUp(y.size) <= x.at

\* `used` is the number of bytes held, so `self.used -= len` cannot wrap and
\* Rm's numerator is right.
Accounted == used = Cardinality(HeldBytes)

\* The arena implements the byte space: in particular first fit over the
\* coalesced list refuses only when no contiguous run would do.
Space == INSTANCE ByteSpace
ImplementsSpace == Space!Spec
=============================================================================
