----------------------------- MODULE MemoryMap -----------------------------
(***************************************************************************)
(* Physical memory as the kernels record it at boot: a list of at most     *)
(* MaxRegions regions, each a run of bytes of one kind, from which what    *)
(* the loader put in memory is carved.  A region that does not fit is      *)
(* dropped.                                                                *)
(***************************************************************************)
EXTENDS Integers, Sequences, SequencesExt, FiniteSetsExt

CONSTANT MaxRegions     \* MAX_REGIONS

ASSUME MapAssumption == MaxRegions \in Nat \ {0}

MemoryRegion(base, len, kind) == [base |-> base, len |-> len, kind |-> kind]

\* The bytes [base, base + len).
Extent(base, len) == base .. base + len - 1

Bytes(region) == Extent(region.base, region.len)

\* Regions::push, of one region after another: those that fit.
Pushed(regions) == SubSeq(regions, 1, Min({Len(regions), MaxRegions}))

\* Regions::extend_usable, of the ranges a reg property gives.
ExtendUsable(map, ranges) ==
  Pushed(map \o [i \in DOMAIN ranges |-> MemoryRegion(ranges[i][1], ranges[i][2], "Usable")])

\* A region, unless it is empty.
Part(base, end, kind) == IF base < end THEN <<MemoryRegion(base, end - base, kind)>> ELSE <<>>

\* split: the part below, the overlap under its new kind, the part above.
Split(region, base, end, kind) ==
  LET finish == region.base + region.len
  IN  IF finish <= base \/ region.base >= end THEN <<region>>
      ELSE Part(region.base, base, region.kind)
             \o <<MemoryRegion(Max({region.base, base}),
                               Min({finish, end}) - Max({region.base, base}), kind)>>
             \o Part(end, finish, region.kind)

\* reserve: what does not fit when the regions are split is dropped.
Reserve(map, base, len, kind) ==
  Pushed(FlattenSeq([i \in DOMAIN map |-> Split(map[i], base, base + len, kind)]))

\* free: the range lies wholly inside one usable region.
Free(map, base, len) ==
  \E r \in ToSet(map) :
    r.kind = "Usable" /\ base >= r.base /\ base + len <= r.base + r.len

-----------------------------------------------------------------------------
\* The kinds the map gives a byte, and the bytes it describes.
KindsOf(map, byte) == {r.kind : r \in {q \in ToSet(map) : byte \in Bytes(q)}}

Described(map) == UNION {Bytes(r) : r \in ToSet(map)}

Disjoint(map) ==
  \A i, j \in DOMAIN map : i # j => Bytes(map[i]) \cap Bytes(map[j]) = {}
=============================================================================
