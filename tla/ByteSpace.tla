----------------------------- MODULE ByteSpace -----------------------------
(***************************************************************************)
(* What the arena promises: callers hold extents of a region, no byte is   *)
(* held twice, and a placement is refused only when no run of free bytes   *)
(* is long enough.  How the free bytes are recorded is the arena's affair. *)
(***************************************************************************)
EXTENDS Integers

CONSTANTS Capacity, Sizes, Align

VARIABLES held,     \* the extents callers hold: where, and the size asked for
          last      \* the last call and whether it succeeded

spaceVars == <<held, last>>

Rounded(size) == ((size + Align - 1) \div Align) * Align

Call(op, size, ok) == [op |-> op, size |-> size, ok |-> ok]

Within(b, x) == x.at <= b /\ b < x.at + Rounded(x.size)
HeldByte(b) == \E x \in held : Within(b, x)

\* at .. at + len - 1 is a run of bytes of the region that nobody holds.
FreeRun(at, len) ==
  /\ at + len <= Capacity
  /\ \A b \in at .. at + len - 1 : ~HeldByte(b)

Init == held = {} /\ last = [op |-> "new"]

Place(size) ==
  \/ \E at \in 0 .. Capacity :
       /\ FreeRun(at, Rounded(size))
       /\ held' = held \cup {[at |-> at, size |-> size]}
       /\ last' = Call("place", size, TRUE)
  \/ /\ \A at \in 0 .. Capacity : ~FreeRun(at, Rounded(size))
     /\ last' = Call("place", size, FALSE)
     /\ UNCHANGED held

\* The arena may lack the means to record a free run: then nothing changes.
Release(x) ==
  \/ /\ held' = held \ {x}
     /\ last' = Call("release", x.size, TRUE)
  \/ /\ last' = Call("release", x.size, FALSE)
     /\ UNCHANGED held

\* The tail of an extent is given back: what is left has the smaller size.
Shrink(x, size) ==
  /\ Rounded(size) < Rounded(x.size)
  /\ \/ /\ held' = (held \ {x}) \cup {[at |-> x.at, size |-> size]}
        /\ last' = Call("shrink", x.size, TRUE)
     \/ /\ last' = Call("shrink", x.size, FALSE)
        /\ UNCHANGED held

Next ==
  \/ \E size \in Sizes : Place(size)
  \/ \E x \in held : Release(x) \/ \E size \in Sizes : Shrink(x, size)

Spec == Init /\ [][Next]_spaceVars
=============================================================================
