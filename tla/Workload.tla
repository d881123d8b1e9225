------------------------------ MODULE Workload ------------------------------
(***************************************************************************)
(* mlos-workload and mlos-lab's lanes: the tokens sessions ask for over    *)
(* the synthetic model (Decode) and over a real model's shape (Real), and  *)
(* the cut of a merged trace back into each session's tokens.              *)
(*                                                                         *)
(* Sessions count from zero, as the generators do; an object carries the   *)
(* fields of its ObjectId that differ.                                     *)
(***************************************************************************)
EXTENDS Integers, Sequences, FiniteSetsExt, SequencesExt

CONSTANTS Layers, Tiles         \* LAYERS and TILES of the synthetic model

ASSUME WorkloadAssumption == Layers \in Nat \ {0} /\ Tiles \in Nat \ {0}

Id(class, model, layer, tensor) ==
  [class |-> class, model |-> model, layer |-> layer, tensor |-> tensor]

\* mlos-synth: a weight tile, and a block of a session's cache.
Tile(layer, tensor) == Id("weight", 1, layer, tensor)
Block(session, layer, position) == Id("kv", session, layer, position)

\* f(0) to f(n - 1), one after the other.
Each(n, f(_)) == [i \in 1 .. n |-> f(i - 1)]

-----------------------------------------------------------------------------
(* Decode *)

\* Decode::length: how many rounds a session lasts, spread evenly.
Length(loop, s) == IF loop.sessions = 0 THEN 0 ELSE (loop.rounds * (s + 1)) \div loop.sessions

\* One token: every tile of every layer, then that layer's cache so far.
DecodeToken(s, round) ==
  LET layer(l) == Each(Tiles, LAMBDA t : Tile(l, t)) \o Each(round + 1, LAMBDA at : Block(s + 1, l, at))
  IN  FlattenSeq(Each(Layers, layer))

\* Decode::tokens.
DecodeTokens(loop, s) == Each(Length(loop, s), LAMBDA round : DecodeToken(s, round))

\* The lanes Decode::trace merges.
Decode(loop) == [s \in 0 .. loop.sessions - 1 |-> DecodeTokens(loop, s)]

-----------------------------------------------------------------------------
(* Real *)

Outside == -1           \* the layer of a name that has none

\* Shape::row: of a tensor's name, the layer it is in and whether it is the
\* value projection.
Row(layer, value) == [layer |-> layer, value |-> value]

\* The layers a sidecar's names speak of.
LayersOf(rows) == Max({0} \cup {row.layer + 1 : row \in {r \in ToSet(rows) : r.layer # Outside}})

\* Shape::place: each stream gets its ordinal within its layer, those outside
\* any are filed one past the last, and the first `rotating` rotate.
Place(rows, rotating) ==
  LET layers   == LayersOf(rows)
      filed(i) == IF rows[i].layer = Outside THEN layers ELSE rows[i].layer
  IN  [layers |-> layers,
       streams |-> [i \in DOMAIN rows |->
         [layer |-> filed(i), value |-> rows[i].value, rotating |-> i <= rotating,
          tensor |-> Cardinality({j \in 1 .. i - 1 : filed(j) = filed(i)})]]]

\* Shape::parse: the boundary is the last one the sidecar states, and a
\* sidecar that states none is no shape.
Parse(sidecar) ==
  LET rows   == SelectSeq(sidecar, LAMBDA line : line.kind = "row")
      stated == SelectSeq(sidecar, LAMBDA line : line.kind = "rotating")
  IN  IF stated = <<>> THEN {} ELSE {Place([i \in DOMAIN rows |-> rows[i].row], Last(stated).count)}

\* Real::object.
Object(stream) == Id("weight", 2, stream.layer, stream.tensor)

\* How many blocks a layer's cache has once this round's token is in it.
Cached(context, round) ==
  LET per == Max({1, context.per_block}) IN (context.prefix + round + 1 + per - 1) \div per

\* Real::token: the rotating streams in order, a layer's cache after its value
\* projection; the first token of session zero begins with the resident ones.
RealToken(shape, context, s, round) ==
  LET rotating == SelectSeq(shape.streams, LAMBDA stream : stream.rotating)
      resident == SelectSeq(shape.streams, LAMBDA stream : ~stream.rotating)
      read(stream) ==
        <<Object(stream)>> \o
        IF stream.layer < shape.layers /\ stream.value
        THEN Each(Cached(context, round), LAMBDA b : Block(s + 1, stream.layer, b)) ELSE <<>>
  IN  (IF s = 0 /\ round = 0 THEN [i \in DOMAIN resident |-> Object(resident[i])] ELSE <<>>)
      \o FlattenSeq([i \in DOMAIN rotating |-> read(rotating[i])])

\* Real::tokens.
RealTokens(shape, context, loop, s) ==
  Each(Length(loop, s), LAMBDA round : RealToken(shape, context, s, round))

\* The lanes Real::trace merges.
Real(shape, context, loop) == [s \in 0 .. loop.sessions - 1 |-> RealTokens(shape, context, loop, s)]

-----------------------------------------------------------------------------
(* mlos-trace: accesses <<session, object>> as text, which is its lines. *)

Field(key, value) == [key |-> key, value |-> value]

\* render: four header lines, then one line for each access.
Render(accesses) ==
  <<Field("mlos-trace", 1), Field("model", "synth"), Field("source", "Decode"),
    Field("accesses", Len(accesses))>>
    \o [i \in DOMAIN accesses |-> [session |-> accesses[i][1], object |-> accesses[i][2]]]

\* head: the header of these lines is one.
IsHead(lines) ==
  /\ Len(lines) >= 4
  /\ [i \in 1 .. 4 |-> lines[i].key] = <<"mlos-trace", "model", "source", "accesses">>
  /\ lines[1].value = 1

\* parse: as many accesses as the header counts, if there is room for them and
\* the text holds them; none otherwise.
ParseTrace(lines, room) ==
  LET count == lines[4].value
  IN  IF ~IsHead(lines) \/ count > room \/ count > Len(lines) - 4 THEN {}
      ELSE {[i \in 1 .. count |-> <<lines[i + 4].session, lines[i + 4].object>>]}

-----------------------------------------------------------------------------
(* mlos-lab, lanes.rs: a trace as lanes. *)

First == Tile(0, 0)     \* what the kernel cuts at

\* enrol: of the sessions a trace names, the first ones, as many as there are
\* slots for.
Enrolled(trace, slots) ==
  LET named == {trace[i][1] : i \in DOMAIN trace}
      at(s) == SelectInSeq(trace, LAMBDA access : access[1] = s)
  IN  {s \in named : Cardinality({t \in named : at(t) < at(s)}) < slots}

\* Where a session's accesses are in a trace.
Own(trace, s) == {i \in DOMAIN trace : trace[i][1] = s}

\* Mutant: the cut is after the object, not before it.
BeginsAfter(trace, s, i) ==
  LET before == {j \in Own(trace, s) : j < i} IN before = {} \/ trace[Max(before)][2] = First

\* The access at i, one of s, begins a token.
Begins(trace, s, i) ==
  LET before == {j \in Own(trace, s) : j < i} IN before = {} \/ trace[i][2] = First

\* The k-th of a set of numbers, from the least.
Nth(S, k) == CHOOSE i \in S : Cardinality({j \in S : j <= i}) = k

\* fill: one session's accesses in trace order, numbered by token; an access is
\* of the token that began last.
Fill(trace, s) ==
  LET begins == {i \in Own(trace, s) : Begins(trace, s, i)}
      of(t)  == {i \in Own(trace, s) : Cardinality({j \in begins : j <= i}) = t}
  IN  [t \in 1 .. Cardinality(begins) |->
         [k \in 1 .. Cardinality(of(t)) |-> trace[Nth(of(t), k)][2]]]

\* Lanes::build.
Build(trace, all, slots) == [s \in all |-> IF s \in Enrolled(trace, slots) THEN Fill(trace, s) ELSE <<>>]
=============================================================================
