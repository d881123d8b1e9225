----------------------------- MODULE Simulator -----------------------------
(***************************************************************************)
(* mlos-sim: the host's replay of an access sequence against one policy.   *)
(* A simulation is a record: the resident objects in the order the vector  *)
(* holds them, the arena's free list, the cursor, and the outcome.         *)
(***************************************************************************)
EXTENDS FreeList, Policy, Functions

CONSTANTS Model(_),     \* what Model::meta says of an id: size, class, costs
          Holes         \* HOLES

Outcome0 == [hits |-> 0, reads |-> 0, bytes |-> 0, evicted |-> 0, refused |-> 0, cost |-> 0,
             applied |-> 0, fetched |-> 0, sessions |-> 0]

\* replay's start: an arena of `budget` bytes, and how many sessions it adopted.
Begin(budget, sessions) ==
  [held |-> <<>>, free |-> <<[at |-> 0, len |-> budget]>>, cursor |-> 0,
   out |-> [Outcome0 EXCEPT !.sessions = sessions]]

\* Where index says id is in held; 0 if it is not resident.
IndexOf(sim, id) == SelectInSeq(sim.held, LAMBDA entry : entry.id = id)

\* The resident objects by id, and what a policy sees of them: at(index), for every index.
ById(sim) == [id \in {entry.id : entry \in ToSet(sim.held)} |-> sim.held[IndexOf(sim, id)]]
View(sim) == LET held == ById(sim) IN [id \in DOMAIN held |-> Seen(held[id])]

WeightBytes(id) == IF Model(id).class = "weight" THEN Model(id).size ELSE 0

\* Vec::swap_remove: the last entry takes the place of the one taken out.
SwapRemove(held, i) ==
  LET last == Len(held)
  IN  SubSeq([held EXCEPT ![i] = held[last]], 1, last - 1)

\* Resident::remove; the arena refuses when its list is full.
Removable(sim) == Len(sim.free) < Holes
ThrowOut(sim, id) ==
  LET i == IndexOf(sim, id)
  IN  [sim EXCEPT !.free = Give(sim.free, sim.held[i].at, RoundUp(sim.held[i].size)),
                  !.held = SwapRemove(sim.held, i),
                  !.out.evicted = @ + 1]

\* One turn of make_room: until it fits, the policy declines, or a release is refused.
MakeTurn(sim, size, policy) ==
  LET victim == Victim(policy, View(sim), sim.cursor)
  IN  IF Fits(sim.free, size) \/ victim = 0 \/ ~Removable(sim) THEN sim ELSE ThrowOut(sim, victim)

\* Run::make_room, turn by turn; after as many turns as objects none is left to throw out.
Turns(sim, size, policy) ==
  LET After[turns \in 0 .. Len(sim.held)] ==
        IF turns = 0 THEN sim ELSE MakeTurn(After[turns - 1], size, policy)
  IN  After
MakeRoom(sim, size, policy) == Turns(sim, size, policy)[Len(sim.held)]

\* Resident::insert, and what fetch counts; a placement that fails is a refusal.
Insert(sim, id, now, next) ==
  LET meta == Model(id)
      want == RoundUp(meta.size)
      i    == FirstFit(sim.free, want)
      entry == [id |-> id, at |-> sim.free[i].at, size |-> meta.size, placed |-> now, used |-> now,
                next |-> next, reload |-> meta.reload, recompute |-> meta.recompute, share |-> 0]
  IN  IF i = 0 THEN [sim EXCEPT !.out.refused = @ + 1]
      ELSE [sim EXCEPT !.free = Take(sim.free, i, want), !.held = Append(@, entry),
                       !.out.reads = @ + 1, !.out.bytes = @ + meta.size,
                       !.out.cost = @ + meta.reload,
                       !.out.applied = @ + WeightBytes(id), !.out.fetched = @ + WeightBytes(id)]

\* Resident::touch, where it finds the object.
Touch(sim, id, now, next) ==
  [sim EXCEPT !.held[IndexOf(sim, id)] = [@ EXCEPT !.used = now, !.next = next],
              !.out.hits = @ + 1, !.out.applied = @ + WeightBytes(id)]

\* Run::step: the access at tick `now` of the sequence.
Step(sim, objects, now, policy) ==
  LET id   == objects[now]
      next == WantedAt(Chain(objects), now)
      met  == [sim EXCEPT !.cursor = now]
  IN  IF IndexOf(sim, id) # 0 THEN Touch(met, id, now, next)
      ELSE Insert(MakeRoom(met, Model(id).size, policy), id, now, next)

\* Resident::held_of, of the KV blocks.
KvHeld(sim) ==
  LET held == ById(sim)
  IN  MapThenSumSet(LAMBDA id : held[id].size, {id \in DOMAIN held : Model(id).class = "kv"})
=============================================================================
