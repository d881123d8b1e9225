-------------------------------- MODULE Lab --------------------------------
(***************************************************************************)
(* mlos-lab and the shell's verbs over it: one manager over a static       *)
(* arena, its acquire clock, declared stream, policy, event ring and       *)
(* counters, and the replay of a trace from the disk, with mlos-sim        *)
(* replaying the same order under the same budget beside it.               *)
(*                                                                         *)
(* The order a schedule makes of a trace is Schedule's subject; here it is *)
(* any sequence.  An object's costs follow from its class.  Every verb     *)
(* runs to its end before the shell reads the next, so a verb that loops   *)
(* (replay, sweep) is in `verb` while it runs.                             *)
(***************************************************************************)
EXTENDS Manager, Policy

CONSTANTS Class,        \* Class[id]: weight, activation or kv
          Tiles,        \* the weights, in the order a sweep takes them
          Budgets,      \* the budgets `model` is asked for
          Floor,        \* TILE_BYTES, below which a budget is raised
          TableRoom,    \* how many objects the table holds
          RingSize,     \* the ring's CAPACITY
          Policies,     \* the policies replays are run under
          Traces,       \* the orders a schedule made of the trace on the disk
          MaxTyped      \* bound: verbs typed and accesses replayed, together

\* An id is a number, and the all-zero word is none.  Every object has
\* something to be registered as, and a KV block's session names it; no read
\* fails (the simulator knows none that does).
ASSUME LabAssumption ==
  /\ Objects \subseteq Nat \ {0} /\ Policies \subseteq PolicyNames
  /\ \A id \in Objects : Templates[id] # {}
  /\ \A id \in Objects : Class[id] \in {"weight", "activation", "kv"}
  /\ \A id \in Objects : Class[id] = "kv" =>
       \A template \in Templates[id] : template.owner \in SessionIds
  /\ Tiles \in Seq(Objects) /\ Traces \subseteq Seq(Objects)
  /\ Budgets \subseteq Nat /\ Floor \in Nat
  /\ RingSize \in Nat \ {0} /\ TableRoom \in Nat /\ MaxTyped \in Nat
  /\ \A environment \in Envs : "read_fails" \notin environment

VARIABLES limit,        \* the arena's bytes; 0 while there is no manager
          clock,        \* Manager::clock
          hints,        \* ObjectMeta's placed_tick, used_tick and next_use
          stream,       \* Manager::stream
          policy,       \* Manager::policy
          ring,         \* Manager::events
          counts,       \* Counters (weights and KV) and Manager::evictions
          verb,         \* the verb that is running
          out,          \* Replayed
          sim,          \* the simulator's replay of the same order
          typed         \* verbs typed and accesses replayed

labvars == <<limit, clock, hints, stream, policy, ring, counts, verb, out, sim, typed>>
all == <<vars, labvars>>

\* mlos-synth: what an object is registered as, and what the kernel believes
\* it costs to have it again; a session's KV blocks are its own.
Meta0(id) == CHOOSE template \in Templates[id] : TRUE
IMPOSSIBLE == 429496
WeightCosts == [reload |-> 400, recompute |-> IMPOSSIBLE]
ActivationCosts == [reload |-> IMPOSSIBLE, recompute |-> 7]
KvCosts == [reload |-> 40, recompute |-> 200]
Costs(id) ==
  CASE Class[id] = "weight" -> WeightCosts
    [] Class[id] = "activation" -> ActivationCosts
    [] Class[id] = "kv" -> KvCosts
\* Decode's Model::meta.
Described(id) == [size |-> Meta0(id).size, class |-> Class[id],
                  reload |-> Costs(id).reload, recompute |-> Costs(id).recompute]

Sim == INSTANCE Simulator WITH Model <- Described

NoHint == [placed |-> 0, used |-> 0, next |-> Never]
Waiting == [name |-> "none"]
Replayed0 == [hits |-> 0, reads |-> 0, bytes |-> 0, evicted |-> 0, refused |-> 0]
Counts0 == [fetched |-> 0, hits |-> 0, evictions |-> 0]
NoRing == [events |-> <<>>, dropped |-> 0]

LabInit ==
  /\ Init
  /\ limit = 0 /\ clock = 0 /\ hints = [id \in Objects |-> NoHint]
  /\ stream = NoStream /\ policy = "demand"
  /\ ring = NoRing /\ counts = Counts0
  /\ verb = Waiting /\ out = Replayed0 /\ sim = Sim!Begin(Capacity, 0)
  /\ typed = 0

\* The shell reads a line; most verbs need a model.
Typed(cost) ==
  /\ verb = Waiting /\ job = Idle
  /\ typed + cost <= MaxTyped
  /\ typed' = typed + cost

-----------------------------------------------------------------------------
(* lib.rs *)

Clamp(budget) == Max({Floor, Min({budget, Capacity})})
InModel(id) == Class[id] # "kv"

\* register: a new manager over the same bytes, with everything populated.
Model(budget) ==
  /\ Typed(1)
  /\ limit' = Clamp(budget)
  /\ free' = <<[at |-> 0, len |-> Clamp(budget)]>> /\ used' = 0
  /\ table' = [id \in Objects |-> IF InModel(id) THEN Meta0(id) ELSE NoMeta]
  /\ sessions' = NoSessions /\ counted' = 0 /\ attached' = Providers
  /\ claims' = [id \in Objects |-> [valid |-> 0, stale |-> 0]]
  /\ clock' = 0 /\ hints' = [id \in Objects |-> NoHint]
  /\ stream' = NoStream /\ policy' = "demand" /\ ring' = NoRing /\ counts' = Counts0
  /\ UNCHANGED <<env, job, verb, out, sim>>

-----------------------------------------------------------------------------
(* mlos-events *)

\* Event::placed, hit, refused and evicted: of each, what a trace is made of.
Event(kind, id) == <<kind, id>>

\* Mutant: the newest is lost when the ring is full.
RecordFull(event) ==
  IF Len(ring.events) < RingSize
  THEN [ring EXCEPT !.events = Append(@, event)]
  ELSE [ring EXCEPT !.dropped = @ + 1]

\* Ring::record: the oldest is overwritten when the ring is full.
Record(event) ==
  IF Len(ring.events) < RingSize
  THEN [ring EXCEPT !.events = Append(@, event)]
  ELSE [events |-> Append(Tail(ring.events), event), dropped |-> ring.dropped + 1]

\* mlos-trace, from_events and dropped: the acquires a ring's dump holds, and
\* how many records it says were lost.
ACQUIRES == {"placed", "hit", "refused"}
Acquired(events) ==
  LET Found[n \in 0 .. Len(events)] ==
        IF n = 0 THEN <<>>
        ELSE IF events[n][1] \in ACQUIRES THEN Append(Found[n - 1], events[n][2]) ELSE Found[n - 1]
  IN  Found
FromEvents == Acquired(ring.events)[Len(ring.events)]
Dropped == ring.dropped

-----------------------------------------------------------------------------
(* mlos-objman: the acquire path with its clock, hints, events and counts. *)

Bytes0(id) == IF Class[id] = "weight" THEN Meta0(id).size ELSE 0

\* The access at the stream's cursor is done with: step returns, the stream
\* advances, and the simulator takes the same access.  A sweep only goes on.
Done(result) ==
  CASE verb.name = "replay" ->
         /\ out' = result
         /\ stream' = Advance(stream, 1)
         /\ sim' = Sim!Step(sim, stream.declared, verb.at, policy)
         /\ verb' = [verb EXCEPT !.at = @ + 1]
    [] verb.name = "sweep" -> verb' = [verb EXCEPT !.at = @ + 1] /\ UNCHANGED <<out, stream, sim>>
    [] OTHER -> UNCHANGED <<verb, out, stream, sim>>

\* Mutant: only a miss moves the clock.
AcquireHitUnclocked(id, lease, once) ==
  /\ Hit(id, lease, once)
  /\ hints' = [hints EXCEPT ![id].used = clock, ![id].next = NextAfter(stream, id)]
  /\ counts' = [counts EXCEPT !.hits = @ + Bytes0(id)]
  /\ ring' = Record(Event("hit", id))
  /\ Done([out EXCEPT !.hits = @ + 1])
  /\ UNCHANGED <<limit, clock, policy>>

\* acquire finds the object resident.
AcquireHit(id, lease, once) ==
  /\ Hit(id, lease, once)
  /\ clock' = clock + 1
  /\ hints' = [hints EXCEPT ![id].used = clock + 1, ![id].next = NextAfter(stream, id)]
  /\ counts' = [counts EXCEPT !.hits = @ + Bytes0(id)]
  /\ ring' = Record(Event("hit", id))
  /\ Done([out EXCEPT !.hits = @ + 1])
  /\ UNCHANGED <<limit, policy>>

\* acquire does not: service begins.
AcquireMiss(id, lease, once) ==
  /\ Miss(id, lease, once)
  /\ clock' = clock + 1
  /\ UNCHANGED <<limit, hints, stream, policy, ring, counts, verb, out, sim>>

AcquireBy(id, lease, once) == AcquireHit(id, lease, once) \/ AcquireMiss(id, lease, once)

\* evict.rs, Held: the resident entries of the table, as a policy sees them.
Held == [id \in ResidentSet |->
          [placed |-> hints[id].placed, used |-> hints[id].used, next |-> hints[id].next,
           reload |-> Costs(id).reload, recompute |-> Costs(id).recompute,
           share |-> table[id].share]]
Named == Victim(policy, Held, clock)

LabRoomFound == RoomFound /\ UNCHANGED labvars

LabEvictVictim ==
  /\ Named # 0
  /\ EvictVictim(Named)
  /\ ring' = Record(Event("evicted", Named))
  /\ counts' = [counts EXCEPT !.evictions = @ + 1]
  /\ out' = IF verb.name = "replay" THEN [out EXCEPT !.evicted = @ + 1] ELSE out
  /\ UNCHANGED <<limit, clock, hints, stream, policy, verb, sim, typed>>

LabStopEvicting ==
  /\ StopEvicting
  /\ Named = 0 \/ ~Evictable
  /\ UNCHANGED labvars

LabPlaced ==
  /\ Placed
  /\ hints' = [hints EXCEPT ![job.id] = [placed |-> clock, used |-> clock,
                                         next |-> NextAfter(stream, job.id)]]
  /\ counts' = [counts EXCEPT !.fetched = @ + Bytes0(job.id)]
  /\ ring' = Record(Event("placed", job.id))
  /\ Done([out EXCEPT !.reads = @ + 1, !.bytes = @ + table[job.id].size])
  /\ UNCHANGED <<limit, clock, policy, typed>>

LabNotPlaced ==
  /\ NotPlaced
  /\ ring' = Record(Event("refused", job.id))
  /\ \/ verb.name # "sweep" /\ Done([out EXCEPT !.refused = @ + 1])
     \/ \* a sweep stops where it was refused
        verb.name = "sweep" /\ verb' = Waiting /\ UNCHANGED <<out, stream, sim>>
  /\ UNCHANGED <<limit, clock, hints, policy, counts, typed>>

-----------------------------------------------------------------------------
(* replay.rs *)

\* Every session an order names, in a trace whose weights session 1 reads.
NamedIn(order) == {IF InModel(id) THEN 1 ELSE Meta0(id).owner : id \in ToSet(order)}

\* choose, prepare and declare.  Enough session slots and buffers are there;
\* where they are not, replay returns an error before it declares.
Replay(name, order) ==
  /\ Typed(Len(order))
  /\ limit # 0
  /\ Chainable(order)
  /\ policy' = name
  /\ sessions' = [s \in SessionIds |->
       IF s \in NamedIn(order) /\ ~Known(sessions, s)
       THEN Adopt(sessions, s, [ceiling |-> 0, context |-> 0, floor |-> 6])[s] ELSE sessions[s]]
  /\ stream' = Declare(order)
  /\ out' = Replayed0
  /\ verb' = [name |-> "replay", at |-> 1, fresh |-> clock = 0,
              before |-> Cardinality(LiveIn(sessions)),
              head |-> [ps |-> 0, ks |-> 0, ss |-> 0]]
  /\ sim' = Sim!Begin(limit, Cardinality(NamedIn(order)))
  /\ UNCHANGED <<table, free, used, counted, attached, env, job, claims>>
  /\ UNCHANGED <<limit, clock, hints, ring, counts>>

Running(name) == verb.name = name /\ job = Idle
Current == stream.declared[verb.at]

\* known: an object the table has not heard of is registered first.
Enter ==
  /\ Running("replay")
  /\ verb.at <= Len(stream.declared)
  /\ ~Entry(Current)
  /\ Cardinality({id \in Objects : Entry(id)}) < TableRoom
  /\ table' = [table EXCEPT ![Current] = Meta0(Current)]
  /\ hints' = [hints EXCEPT ![Current] = NoHint]
  /\ UNCHANGED <<free, used, sessions, counted, attached, env, job, claims>>
  /\ UNCHANGED <<limit, clock, stream, policy, ring, counts, verb, out, sim, typed>>

\* A table that will not take it: refused, and the clock stands still.
NotEntered ==
  /\ Running("replay")
  /\ verb.at <= Len(stream.declared)
  /\ ~Entry(Current)
  /\ Cardinality({id \in Objects : Entry(id)}) >= TableRoom
  /\ Done([out EXCEPT !.refused = @ + 1])
  /\ UNCHANGED <<vars, limit, clock, hints, policy, ring, counts, typed>>

ReplayStep ==
  /\ Running("replay")
  /\ verb.at <= Len(stream.declared)
  /\ AcquireBy(Current, "Streaming", TRUE)
  /\ UNCHANGED typed

\* mlos-metrics, Headline::of; Ss in sessions per thousand bytes.
Headline(applied, read, kv, live, budget) ==
  [ps |-> IF read = 0 THEN 0 ELSE (applied * 1000) \div read,
   ks |-> IF live = 0 THEN 0 ELSE kv \div live,
   ss |-> IF budget = 0 THEN 0 ELSE (live * 1000) \div budget]

\* Outcome::headline.
SimHeadline == Headline(sim.out.applied, sim.out.fetched, Sim!KvHeld(sim), sim.out.sessions, limit)

\* Manager::headline's KV bytes.
KvBytes == MapThenSumSet(LAMBDA id : table[id].size, {id \in ResidentSet : Class[id] = "kv"})

\* The last access is done: the headline, and then every session is destroyed.
ReplayEnds ==
  /\ Running("replay")
  /\ verb.at = Len(stream.declared) + 1
  /\ DestroyAllSessions
  /\ verb' = [verb EXCEPT !.at = @ + 1,
                !.head = Headline(counts.fetched + counts.hits, counts.fetched, KvBytes,
                                  Cardinality(LiveIn(sessions)), limit)]
  /\ UNCHANGED <<limit, clock, hints, stream, policy, ring, counts, out, sim, typed>>

ReplayReturns ==
  /\ Running("replay")
  /\ verb.at = Len(stream.declared) + 2
  /\ verb' = Waiting
  /\ UNCHANGED <<vars, limit, clock, hints, stream, policy, ring, counts, out, sim, typed>>

\* destroy_all_sessions, under the replay.
LabDestroyObject(id) ==
  /\ DestroyObject(id)
  /\ hints' = [hints EXCEPT ![id] = NoHint]
  /\ ring' = IF Resident(id) THEN Record(Event("evicted", id)) ELSE ring
  /\ counts' = IF Resident(id) THEN [counts EXCEPT !.evictions = @ + 1] ELSE counts
  /\ UNCHANGED <<limit, clock, stream, policy, verb, out, sim, typed>>

LabDestroyNext == (DestroyRefused \/ DestroyDone) /\ UNCHANGED labvars

-----------------------------------------------------------------------------
(* The other verbs: sweep, stream, get, evict and release. *)

SweepBegins ==
  /\ Typed(1)
  /\ limit # 0
  /\ verb' = [name |-> "sweep", at |-> 1]
  /\ UNCHANGED <<vars, limit, clock, hints, stream, policy, ring, counts, out, sim>>

SweepStep ==
  /\ Running("sweep")
  /\ verb.at <= Len(Tiles)
  /\ AcquireBy(Tiles[verb.at], "Streaming", TRUE)
  /\ UNCHANGED typed

SweepReturns ==
  /\ Running("sweep")
  /\ verb.at > Len(Tiles)
  /\ verb' = Waiting
  /\ UNCHANGED <<vars, limit, clock, hints, stream, policy, ring, counts, out, sim, typed>>

\* `stream`, and `stream N`.
StreamVerb ==
  /\ Typed(1)
  /\ limit # 0
  /\ \/ Chainable(Tiles) /\ stream' = Declare(Tiles)
     \/ stream' = Advance(stream, 1)
  /\ UNCHANGED <<vars, limit, clock, hints, policy, ring, counts, verb, out, sim>>

\* `get L T` pins one tile; `release L T` lets the pin go.
Get(id) ==
  /\ Typed(1)
  /\ limit # 0 /\ Class[id] = "weight"
  /\ MayClaim(id, "Pin")
  /\ AcquireBy(id, "Pin", FALSE)

LetGo(id) ==
  /\ Typed(1)
  /\ Class[id] = "weight"
  /\ Release(id)
  /\ UNCHANGED <<limit, clock, hints, stream, policy, ring, counts, verb, out, sim>>

EvictVerb(id) ==
  /\ Typed(1)
  /\ Class[id] = "weight"
  /\ EvictOne(id)
  /\ ring' = Record(Event("evicted", id))
  /\ counts' = [counts EXCEPT !.evictions = @ + 1]
  /\ UNCHANGED <<limit, clock, hints, stream, policy, verb, out, sim>>

-----------------------------------------------------------------------------
\* A step of the verb that is running.
Goes ==
  \/ LabRoomFound \/ LabEvictVictim \/ LabStopEvicting \/ LabPlaced \/ LabNotPlaced
  \/ LabDestroyNext \/ \E id \in Objects : LabDestroyObject(id)
  \/ Enter \/ NotEntered \/ ReplayStep \/ ReplayEnds \/ ReplayReturns
  \/ SweepStep \/ SweepReturns

LabNext ==
  \/ Goes
  \/ \E budget \in Budgets : Model(budget)
  \/ /\ verb = Waiting /\ limit # 0 /\ typed < MaxTyped
     /\ \E order \in Traces : Len(order) <= MaxTyped - typed /\ \E name \in Policies : Replay(name, order)
  \/ SweepBegins \/ StreamVerb
  \/ \E id \in Objects : Get(id) \/ LetGo(id) \/ EvictVerb(id)

LabSpec == LabInit /\ [][LabNext]_all
-----------------------------------------------------------------------------
(* Properties. *)

\* A replay on a manager nothing was acquired from, of objects the table has
\* room for: what the simulator stands for.
Comparable ==
  /\ verb.name = "replay" /\ verb.fresh
  /\ Cardinality({id \in Objects : InModel(id)} \cup ToSet(stream.declared)) <= TableRoom

AccessesDone == Min({verb.at - 1, Len(stream.declared)})

\* mlsh: the counts must match mlos-sim's for the same trace and budget
\* exactly.  After every access the kernel and the simulator have hit, read,
\* evicted and refused the same and hold the same objects at the same
\* offsets; at the end the headlines agree.
KernelIsSim ==
  Comparable /\ job = Idle =>
    /\ \A count \in DOMAIN out : out[count] = sim.out[count]
    /\ out.hits + out.reads + out.refused = AccessesDone
    /\ verb.at <= Len(stream.declared) + 1 =>
         {<<id, table[id].at - Base>> : id \in ResidentSet} =
         {<<entry.id, entry.at>> : entry \in ToSet(sim.held)}
    /\ verb.at = Len(stream.declared) + 2 =>
         verb.head = SimHeadline

\* When the access in progress, or the next one, is over, is id wanted again,
\* and at which access.
WantedFrom(id) == {t \in verb.at .. Len(stream.declared) : stream.declared[t] = id}

\* What the table says of a resident object's next use is its next use in the
\* declared order, and on the clock a policy measures it against: as many
\* ticks away as there are accesses to it.
NextUseTrue ==
  Comparable /\ verb.at <= Len(stream.declared) =>
    \A id \in ResidentSet :
      Horizon(hints[id].next, clock) =
        IF WantedFrom(id) = {} THEN Undeclared
        ELSE Min(WantedFrom(id)) - verb.at + (IF job = Idle THEN 1 ELSE 0)

\* baselines.rs: ticks are unique, so the tie-break of FIFO and LRU never
\* decides, in any order the table is scanned.
TicksUnique ==
  \A id, other \in ResidentSet : id # other =>
    hints[id].used # hints[other].used /\ hints[id].placed # hints[other].placed

\* mlos-trace's from_events: the acquires the ring holds are the last accesses
\* of the replay in order, and all of them when nothing was dropped.
TraceDerived ==
  Comparable =>
    LET done == SubSeq(stream.declared, 1, AccessesDone)
    IN  IsSuffix(FromEvents, done) /\ (Dropped = 0 => FromEvents = done)

\* nextuse.rs: of objects that cost the same to recover, the one wanted
\* furthest away is evicted.
FurthestEvicted ==
  Comparable /\ policy = "next-use" /\ job.phase = "room" /\ ~Fits(free, table[job.id].size) =>
    \A id \in ResidentSet : Class[id] = Class[Named] =>
      Horizon(hints[id].next, clock) <= Horizon(hints[Named].next, clock)
=============================================================================
