------------------------------ MODULE Manager ------------------------------
(***************************************************************************)
(* mlos-objman: the object table, the arena, the session accounts and the  *)
(* fault path between them.                                                *)
(*                                                                         *)
(* The manager runs one call at a time.  A call that loops (make room for  *)
(* a fault by evicting, destroy a session object by object) is a job: its  *)
(* iterations are steps, and nothing else starts until it ends, so the     *)
(* invariants also say what holds between two iterations.                  *)
(*                                                                         *)
(* The table is the map that ObjectTable implements; the order in which a  *)
(* scan meets its entries is the hash's, so any order is possible.  A      *)
(* policy may name any resident object, or none; no policy is demand       *)
(* paging.  The acquire clock, the ticks and next_use it chooses by, the   *)
(* event ring, last_fault and the counters of faults and hits are not      *)
(* read by anything here and are left out.                                 *)
(*                                                                         *)
(* env says which of the things the code allows for the environment does:  *)
(*   "read_fails"      a provider's read can fail;                         *)
(*   "register_again"  an id may be registered while it is known;          *)
(*   "stale_release"   a holder may release a lease an eviction voided;    *)
(*   "orphans"         an object's owner need not be a live session.       *)
(***************************************************************************)
EXTENDS FreeList, Sessions

CONSTANTS Objects,          \* the ObjectIds in use
          Templates,        \* Templates[id]: what id may be registered as
          Base,             \* the address of the arena's first byte
          Capacity,         \* the arena's bytes
          Holes,            \* HOLES
          Providers,        \* the providers there are, by number
          MaxProviders,     \* MAX_PROVIDERS
          Contracts,        \* the contracts sessions ask for
          Leases,           \* the kinds of lease in use
          ShareMax,         \* u16::MAX, where share_count saturates
          MaxClaims,        \* bound: leases outstanding on one object
          Envs              \* the environments there may be

ASSUME ManagerAssumption ==
  /\ Capacity \in Nat \ {0} /\ Holes \in Nat \ {0}
  /\ Base \in Nat \ {0}     \* a slice never begins at address zero
  /\ Contracts \subseteq Contract /\ Leases \subseteq {"Pin", "Borrow", "Streaming", "Speculative"}
  /\ Envs \subseteq SUBSET {"read_fails", "register_again", "stale_release", "orphans"}
  /\ IsFiniteSet(Objects)   \* the table has so many slots
  \* fewer leases on one object than share_count can count
  /\ ShareMax \in Nat /\ MaxClaims \in Nat /\ MaxClaims < ShareMax

VARIABLES table,        \* Manager::table
          free, used,   \* Manager::arena
          sessions,     \* Manager::sessions
          counted,      \* counters.held, over all classes
          attached,     \* the providers that are not None
          env,          \* the environment
          job,          \* the call in progress
          claims        \* the counted leases callers hold, and those void

vars == <<table, free, used, sessions, counted, attached, env, job, claims>>

NoMeta == [size |-> 0]
Tier == {"Hot", "Warm", "Cold", "Stream", "Archive"}
Meta == [size : Nat, owner : 0 .. MaxId, precision : Precision, provider : Providers,
         home : Tier, tier : Tier, at : Nat, share : 0 .. ShareMax]

\* An object is registered as not resident, and held by nobody, and is not
\* empty: what callers register are tiles, blocks and activations.
ASSUME TemplatesAssumption ==
  \A id \in Objects : \A meta \in Templates[id] :
    meta \in Meta /\ meta.size # 0 /\ meta.at = 0 /\ meta.share = 0

Entry(id) == table[id] # NoMeta
Resident(id) == Entry(id) /\ table[id].at # 0

Idle == [phase |-> "idle"]
Fault(phase, id, lease, once, fits) ==
  [phase |-> phase, id |-> id, lease |-> lease, once |-> once, fits |-> fits]
Destroy(s, rest, gone) == [phase |-> "destroy", session |-> s, rest |-> rest, gone |-> gone]

Init ==
  /\ table = [id \in Objects |-> NoMeta]
  /\ free = <<[at |-> 0, len |-> Capacity]>> /\ used = 0
  /\ sessions = NoSessions
  /\ counted = 0
  /\ attached = {} /\ env \in Envs
  /\ job = Idle
  /\ claims = [id \in Objects |-> [valid |-> 0, stale |-> 0]]

-----------------------------------------------------------------------------
(* lib.rs: providers, registration, and the fast path. *)

Attach(p) ==
  /\ job = Idle
  /\ p < MaxProviders
  /\ attached' = attached \cup {p}
  /\ UNCHANGED <<table, free, used, sessions, counted, env, job, claims>>

\* A table that refuses a new id changes nothing, which is a stutter.
Register(id, template) ==
  /\ job = Idle
  /\ Entry(id) => "register_again" \in env
  /\ template.owner = 0 \/ Known(sessions, template.owner) \/ "orphans" \in env
  /\ table' = [table EXCEPT ![id] = template]
  /\ UNCHANGED <<free, used, sessions, counted, attached, env, job, claims>>

\* Lease::counts, as the number share_count moves by.
Weight(lease) == IF lease = "Speculative" THEN 0 ELSE 1
SatAdd(a, b) == Min({a + b, ShareMax})

\* Bound: a caller takes no lease on id beyond MaxClaims.
MayClaim(id, lease) == claims[id].valid + claims[id].stale + Weight(lease) <= MaxClaims

\* A hit: the claim is counted, and dropped again by consume (once).
Hit(id, lease, once) ==
  LET raised == SatAdd(table[id].share, Weight(lease))
  IN  /\ Resident(id)
      /\ table' = [table EXCEPT ![id].share =
                     IF once THEN SatSub(raised, Weight(lease)) ELSE raised]
      /\ claims' = IF once THEN claims ELSE [claims EXCEPT ![id].valid = @ + Weight(lease)]
      /\ UNCHANGED <<free, used, sessions, counted, attached, env, job>>

\* A miss that is not refused: the owner is charged before anything else.
Miss(id, lease, once) ==
  /\ Entry(id) /\ ~Resident(id)
  /\ table[id].provider \in attached
  /\ Chargeable(sessions, table[id].owner, table[id].size)
  /\ sessions' = Charge(sessions, table[id].owner, table[id].size, table[id].precision)
  /\ job' = Fault("room", id, lease, once, FALSE)
  /\ UNCHANGED <<table, free, used, counted, attached, env, claims>>

\* BadObject, NoProvider and Refused leave everything as it was.
Acquire(id, lease) ==
  /\ job = Idle
  /\ MayClaim(id, lease)
  /\ Hit(id, lease, FALSE) \/ Miss(id, lease, FALSE)

\* A streaming lease, taken and released at once.
Consume(id) ==
  /\ job = Idle
  /\ Hit(id, "Streaming", TRUE) \/ Miss(id, "Streaming", TRUE)

-----------------------------------------------------------------------------
(* evict.rs *)

\* An eviction voids every lease; a holder that may yet release is kept.
Void(id) == [valid |-> 0,
             stale |-> IF "stale_release" \in env THEN claims[id].stale + claims[id].valid ELSE 0]

\* Arena::release does not answer full.
Evictable == Len(free) < Holes

\* Mutant: the arena is given back the object's size, not what it was placed as.
EvictUnrounded(id, entry) ==
  /\ Resident(id) /\ Evictable
  /\ free' = Give(free, table[id].at - Base, table[id].size)
  /\ used' = used - table[id].size
  /\ counted' = SatSub(counted, table[id].size)
  /\ sessions' = Credit(sessions, table[id].owner, table[id].size)
  /\ table' = [table EXCEPT ![id] = entry]
  /\ claims' = [claims EXCEPT ![id] = Void(id)]

\* The arena, the counters, the account and the table change together; entry
\* is what the table is left with.
Evict(id, entry) ==
  /\ Resident(id) /\ Evictable
  /\ free' = Give(free, table[id].at - Base, RoundUp(table[id].size))
  /\ used' = used - RoundUp(table[id].size)
  /\ counted' = SatSub(counted, table[id].size)
  /\ sessions' = Credit(sessions, table[id].owner, table[id].size)
  /\ table' = [table EXCEPT ![id] = entry]
  /\ claims' = [claims EXCEPT ![id] = Void(id)]

\* Mutant: the address stays, and with it the look of residency.
HomeStillPlaced(id) == [table[id] EXCEPT !.share = 0, !.tier = table[id].home]

\* What an evicted object's entry is left as.
Home(id) == [table[id] EXCEPT !.at = 0, !.share = 0, !.tier = table[id].home]

\* Manager::evict called by hand; refused when the free list is full.
EvictOne(id) ==
  /\ job = Idle
  /\ Evict(id, Home(id))
  /\ UNCHANGED <<attached, env, job>>

\* One turn of make_room: the size fits, or the policy names a victim, or it
\* names none, or the arena cannot take the victim's bytes back.
RoomFound ==
  /\ job.phase = "room"
  /\ Fits(free, table[job.id].size)
  /\ job' = [job EXCEPT !.phase = "place", !.fits = TRUE]
  /\ UNCHANGED <<table, free, used, sessions, counted, attached, env, claims>>

EvictVictim(victim) ==
  /\ job.phase = "room"
  /\ ~Fits(free, table[job.id].size)
  /\ Evict(victim, Home(victim))
  /\ UNCHANGED <<attached, env, job>>

StopEvicting ==
  /\ job.phase = "room"
  /\ ~Fits(free, table[job.id].size)
  /\ job' = [job EXCEPT !.phase = "place"]
  /\ UNCHANGED <<table, free, used, sessions, counted, attached, env, claims>>

-----------------------------------------------------------------------------
(* fault.rs: placing what was faulted on. *)

\* Mutant: a fault that fails keeps its charge.
NotPlacedCharged ==
  /\ job.phase = "place"
  /\ FirstFit(free, RoundUp(table[job.id].size)) = 0
  /\ job' = Idle
  /\ UNCHANGED <<table, free, used, sessions, counted, attached, env, claims>>

\* No run is long enough: the charge is given back.
NotPlaced ==
  /\ job.phase = "place"
  /\ FirstFit(free, RoundUp(table[job.id].size)) = 0
  /\ sessions' = Credit(sessions, table[job.id].owner, table[job.id].size)
  /\ job' = Idle
  /\ UNCHANGED <<table, free, used, counted, attached, env, claims>>

\* place: the arena's bytes, the provider's read into them, the table.
Placed ==
  LET id   == job.id
      want == RoundUp(table[id].size)
      i    == FirstFit(free, want)
  IN  /\ job.phase = "place"
      /\ i # 0
      /\ free' = Take(free, i, want)
      /\ used' = used + want
      /\ job' = Idle
      /\ \/ /\ counted' = counted + table[id].size
            /\ table' = [table EXCEPT ![id] =
                 [@ EXCEPT !.at = Base + free[i].at, !.tier = "Warm",
                           !.share = IF job.once THEN 0 ELSE Weight(job.lease)]]
            /\ claims' = IF job.once THEN claims
                         ELSE [claims EXCEPT ![id].valid = @ + Weight(job.lease)]
            /\ UNCHANGED sessions
         \/ \* the read fails after the bytes are placed
            /\ "read_fails" \in env
            /\ sessions' = Credit(sessions, table[id].owner, table[id].size)
            /\ UNCHANGED <<counted, table, claims>>
      /\ UNCHANGED <<attached, env>>

-----------------------------------------------------------------------------
(* lease.rs *)

\* Mutant: the count is not lowered.
LoweredNot(id) == table[id]

\* What release does to an entry: lower the count if the object is resident.
\* The release of a Speculative lease changes nothing.
Lowered(id) == IF Resident(id) THEN [table[id] EXCEPT !.share = SatSub(@, 1)] ELSE table[id]

\* The holder of a counted lease lets go, or one whose lease was voided.
Release(id) ==
  /\ job = Idle
  /\ Entry(id)
  /\ table' = [table EXCEPT ![id] = Lowered(id)]
  /\ \/ claims[id].valid > 0 /\ claims' = [claims EXCEPT ![id].valid = @ - 1]
     \/ claims[id].stale > 0 /\ claims' = [claims EXCEPT ![id].stale = @ - 1]
  /\ UNCHANGED <<free, used, sessions, counted, attached, env, job>>

-----------------------------------------------------------------------------
(* session.rs *)

\* Admission, where it refuses, changes nothing.
CreateSession(contract) ==
  /\ job = Idle
  /\ LiveIn(sessions) # SessionIds
  /\ Adoptable(sessions, LowestFree(sessions))
  /\ sessions' = Adopt(sessions, LowestFree(sessions), contract)
  /\ UNCHANGED <<table, free, used, counted, attached, env, job, claims>>

\* Sessions::adopt: a replayed trace names its sessions itself.
AdoptSession(s, contract) ==
  /\ job = Idle
  /\ Adoptable(sessions, s)
  /\ sessions' = Adopt(sessions, s, contract)
  /\ UNCHANGED <<table, free, used, counted, attached, env, job, claims>>

DestroySession(s) ==
  /\ job = Idle
  /\ job' = Destroy(s, {}, 0)
  /\ UNCHANGED <<table, free, used, sessions, counted, attached, env, claims>>

\* destroy_all_sessions: one after another, a refusal skipped.
DestroyAllSessions ==
  /\ job = Idle
  /\ \E s \in LiveIn(sessions) : job' = Destroy(s, LiveIn(sessions) \ {s}, 0)
  /\ UNCHANGED <<table, free, used, sessions, counted, attached, env, claims>>

Owned(id) == Entry(id) /\ table[id].owner = job.session /\ job.session # 0

\* The call ends, or goes on with the next session of destroy_all_sessions.
DestroyNext ==
  IF job.rest = {} THEN job' = Idle
  ELSE \E s \in job.rest : job' = Destroy(s, job.rest \ {s}, 0)

\* One object of the session: out of the arena if it is there, then out of
\* the table.
DestroyObject(id) ==
  /\ job.phase = "destroy"
  /\ Owned(id)
  /\ \/ Evict(id, NoMeta)
     \/ /\ ~Resident(id)
        /\ table' = [table EXCEPT ![id] = NoMeta]
        /\ claims' = [claims EXCEPT ![id] = Void(id)]
        /\ UNCHANGED <<free, used, counted, sessions>>
  /\ job' = [job EXCEPT !.gone = @ + 1]
  /\ UNCHANGED <<attached, env>>

\* Mutant: the refused eviction is tried again.
DestroyRefusedRetry ==
  /\ job.phase = "destroy"
  /\ ~Evictable
  /\ \E id \in Objects : Owned(id) /\ Resident(id)
  /\ UNCHANGED vars

\* The arena refuses to take an object back: the session stays.
DestroyRefused ==
  /\ job.phase = "destroy"
  /\ ~Evictable
  /\ \E id \in Objects : Owned(id) /\ Resident(id)
  /\ DestroyNext
  /\ UNCHANGED <<table, free, used, sessions, counted, attached, env, claims>>

\* Mutant: the session is forgotten before its objects are.
DestroyDoneEarly ==
  /\ job.phase = "destroy"
  /\ sessions' = IF Known(sessions, job.session) THEN Forget(sessions, job.session) ELSE sessions
  /\ DestroyNext
  /\ UNCHANGED <<table, free, used, counted, attached, env, claims>>

DestroyDone ==
  /\ job.phase = "destroy"
  /\ \A id \in Objects : ~Owned(id)
  /\ sessions' = IF Known(sessions, job.session) THEN Forget(sessions, job.session) ELSE sessions
  /\ DestroyNext
  /\ UNCHANGED <<table, free, used, counted, attached, env, claims>>

-----------------------------------------------------------------------------
\* A step of the call in progress.
JobStep ==
  \/ RoomFound \/ StopEvicting \/ \E id \in Objects : EvictVictim(id)
  \/ NotPlaced \/ Placed
  \/ DestroyRefused \/ DestroyDone \/ \E id \in Objects : DestroyObject(id)

Next ==
  \/ JobStep
  \/ \E p \in Providers : Attach(p)
  \/ \E id \in Objects :
       \/ \E template \in Templates[id] : Register(id, template)
       \/ \E lease \in Leases : Acquire(id, lease)
       \/ Consume(id)
       \/ EvictOne(id)
       \/ Release(id)
  \/ \E contract \in Contracts :
       CreateSession(contract) \/ \E s \in SessionIds : AdoptSession(s, contract)
  \/ \E s \in 0 .. MaxId : DestroySession(s)
  \/ DestroyAllSessions

\* A call that has begun goes on: the manager is called, never preempted.
Spec == Init /\ [][Next]_vars /\ WF_vars(JobStep)

-----------------------------------------------------------------------------
(* Properties. *)

\* The table, the arena and the accounts hold what their records can hold.
TypeOK ==
  /\ table \in [Objects -> {NoMeta} \cup Meta]
  /\ free \in Seq(Hole) /\ WellFormed(free, Capacity) /\ Len(free) <= Holes
  /\ used \in 0 .. Capacity
  /\ sessions \in [SessionIds -> Session]
  /\ counted \in Nat /\ attached \subseteq Providers /\ env \in Envs
  /\ claims \in [Objects -> [valid : 0 .. MaxClaims, stale : 0 .. MaxClaims]]

Bytes == 0 .. Capacity - 1
ResidentSet == {id \in Objects : Resident(id)}
Beyond(id) == table[id].at + RoundUp(table[id].size)
Within(b, id) == table[id].at <= Base + b /\ Base + b < Beyond(id)
HeldBytes == {b \in Bytes : \E id \in ResidentSet : Within(b, id)}
SizeOf(ids) == MapThenSumSet(LAMBDA id : table[id].size, ids)
OwnedBy(s) == {id \in ResidentSet : table[id].owner = s}

\* The charge of a fault whose bytes are not placed yet.
Pending(s) ==
  IF job.phase \in {"room", "place"} /\ table[job.id].owner = s THEN table[job.id].size ELSE 0

\* No two resident objects share a byte, none lies on a byte the arena would
\* hand out, and none runs past the end: a hit returns the object's own bytes.
ResidentApart ==
  /\ \A id \in ResidentSet :
       /\ Base <= table[id].at /\ Beyond(id) <= Base + Capacity
       /\ \A i \in DOMAIN free : Beyond(id) <= Base + free[i].at \/ Base + End(free[i]) <= table[id].at
  /\ \A id, other \in ResidentSet :
       id = other \/ Beyond(id) <= table[other].at \/ Beyond(other) <= table[id].at

\* The arena's count of used bytes is the bytes that are not free, and each of
\* those belongs to a resident object: no sequence of faults, evictions and
\* destroyed sessions loses memory, where reads succeed and an id is not
\* registered over a resident object.
NothingLeaked ==
  /\ used = Cardinality({b \in Bytes : ~Covers(free, b)})
  /\ env \subseteq {"stale_release", "orphans"} =>
       \A b \in Bytes : Covers(free, b) \/ \E id \in Objects : Resident(id) /\ Within(b, id)

\* A session's account is the bytes it owns that are resident, with the
\* charge of a fault in progress, on every path: placed, refused, failed,
\* evicted; and the residency counter is the bytes of every resident object.
AccountExact ==
  "register_again" \notin env =>
    /\ \A s \in LiveIn(sessions) :
         "orphans" \notin env => sessions[s].resident = SizeOf(OwnedBy(s)) + Pending(s)
    /\ counted = SizeOf(ResidentSet)

\* share_count is the number of leases that hold the object right now, and
\* never more, whatever a holder of a voided lease releases: no policy spares
\* an object on the word of a holder that is gone.
ShareExact ==
  \A id \in Objects : Entry(id) =>
    IF Resident(id) /\ env \cap {"stale_release", "register_again"} = {}
    THEN table[id].share = claims[id].valid ELSE table[id].share <= claims[id].valid

\* A session never holds more than its ceiling, not even while it is faulting.
CeilingKept ==
  \A s \in LiveIn(sessions) : sessions[s].contract.ceiling # 0 => sessions[s].resident <= sessions[s].contract.ceiling

\* A destroyed session leaves no object of its own in the table, and a live
\* one's objects are never left to nobody.
NoOrphans ==
  "orphans" \notin env =>
    \A id \in Objects : Entry(id) /\ table[id].owner # 0 => Known(sessions, table[id].owner)

\* Every call returns: make_room runs out of victims, or of refusals, and a
\* session being destroyed runs out of objects.
CallsReturn == job.phase # "idle" ~> job.phase = "idle"

\* mlos-arena of Occupancy::used: the bytes currently holding objects.
UsedHoldsObjects == used = Cardinality(HeldBytes)
=============================================================================
