------------------------------- MODULE Stream -------------------------------
(***************************************************************************)
(* mlos-stream: a declared sequence of objects, the chain of each object's *)
(* uses through it, and when an object is next wanted.  Positions count    *)
(* from zero and ticks from one, as in the code.                           *)
(***************************************************************************)
EXTENDS Integers, Sequences, SequencesExt

CONSTANTS MaxDeclared,      \* ACCESSES, how long a declaration may be
          MaxDistinct       \* DISTINCT, how many objects it may name

\* NextUse: not known to be wanted, or wanted at a tick.  The third, wanted with
\* some odds, is only ever read (Horizon in Policy).
Never == [when |-> "never"]
At(tick) == [when |-> "at", tick |-> tick]

NEVER == -1     \* u32::MAX, which no position is

\* One access, met from the last to the first: `seen` holds for each object
\* the position it was met at last, in the order they were first met.
Link(objects, met, at) ==
  LET object == objects[at + 1]
      k      == SelectInSeq(met.seen, LAMBDA held : held[1] = object)
  IN  [into |-> <<IF k = 0 THEN NEVER ELSE met.seen[k][2]>> \o met.into,
       seen |-> IF k = 0 THEN Append(met.seen, <<object, at>>)
                ELSE [met.seen EXCEPT ![k] = <<object, at>>]]

\* What is there once the last i accesses were met.
Links(objects) ==
  LET n == Len(objects)
      Met[i \in 0 .. n] ==
        IF i = 0 THEN [into |-> <<>>, seen |-> <<>>] ELSE Link(objects, Met[i - 1], n - i)
  IN  Met

\* The chain: for each position, where the same object is next.
Chain(objects) == Links(objects)[Len(objects)].into

\* chain does not answer NoBudget.
Chainable(objects) == Len(objects) <= MaxDeclared /\ Cardinality(ToSet(objects)) <= MaxDistinct

NoStream == [declared |-> <<>>, next |-> <<>>, cursor |-> 0]

\* Stream::declare, of a sequence and the chain over it.
Declare(objects) == [declared |-> objects, next |-> Chain(objects), cursor |-> 0]

\* Stream::advance.
Advance(stream, steps) == [stream EXCEPT !.cursor = @ + steps]

\* A position as an answer, or none.
TickOf(position) == IF position = NEVER THEN Never ELSE At(position + 1)

\* Mutant: the search begins at the cursor itself.
NextAfterInclusive(stream, id) ==
  LET at   == stream.cursor
      rest == SubSeq(stream.declared, at + 1, Len(stream.declared))
      k    == SelectInSeq(rest, LAMBDA held : held = id)
  IN  IF k = 0 THEN Never ELSE TickOf(at + k - 1)

\* Stream::next_after: the chain's answer for the access at the cursor, else
\* the first mention past it.
NextAfter(stream, id) ==
  LET at   == stream.cursor
      rest == SubSeq(stream.declared, at + 2, Len(stream.declared))
      k    == SelectInSeq(rest, LAMBDA held : held = id)
  IN  IF at < Len(stream.declared) /\ stream.declared[at + 1] = id
      THEN TickOf(stream.next[at + 1])
      ELSE IF k = 0 THEN Never ELSE TickOf(at + k)

\* Mutant: the tick is taken for a zero-based index.
WantedAtLater(next, tick) == IF tick + 1 \in DOMAIN next THEN TickOf(next[tick + 1]) ELSE Never

\* Foresight::after and wanted_at: the simulator asks by tick, not by cursor.
WantedAt(next, tick) == IF tick \in DOMAIN next THEN TickOf(next[tick]) ELSE Never
=============================================================================
