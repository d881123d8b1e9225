---------------------------- MODULE LadderProofs ----------------------------
(***************************************************************************)
(* For every arena, shape, budget and set of contracts: no session is ever *)
(* degraded past its contract's quality floor, none is terminated while    *)
(* one could still be degraded, and every squeeze makes at most as many    *)
(* moves as there are rungs and session ids.  What a session holds is      *)
(* within what the walk plans with, and the walk, which rewrites objects   *)
(* that lie in the arena, keeps everything the manager promises.           *)
(***************************************************************************)
EXTENDS Ladder, ManagerProofs

-----------------------------------------------------------------------------
(* The inductive invariant. *)

\* A block's entry, of which only the size, the owner and the precision
\* matter here: wherever it lies in the arena, and whoever leases it.
BlockMeta(any) ==
  [size : Nat, owner : 0 .. MaxId, precision : Precision,
   provider : any, home : any, tier : any, at : any, share : any]
IsBlock(e) == \E any : e \in BlockMeta(any)
IsTable(t) == t = [id \in Objects |-> t[id]] /\ \A id \in Objects : t[id] = NoMeta \/ IsBlock(t[id])

\* A block is owned by the session its id names, and that session is live.
Blocked ==
  /\ IsTable(table)
  /\ \A id \in Objects : Entry(id) => table[id].owner = id[1] /\ Known(sessions, id[1])

\* Where arrive or squeeze can be.  A block that arrives is the session's
\* own; a rewrite goes over entries of its session, towards a rung whose
\* quality the contract permits.
ArrivingWalk ==
  /\ walk \in [at : {"register", "consume", "placed"}, session : SessionIds, block : Nat]
  /\ Known(sessions, walk.session)
  /\ walk.at # "register" => <<walk.session, walk.block>> \in Objects
RewriteWalk ==
  /\ walk \in [at : {"rewrite"}, rung : 1 .. 5, session : SessionIds,
               left : SUBSET Objects, coarsest : Precision]
  /\ Known(sessions, walk.session)
  /\ \A id \in walk.left : Entry(id) /\ id[1] = walk.session
  /\ Quality(walk.rung) <= sessions[walk.session].contract.floor
  /\ walk.coarsest <= sessions[walk.session].contract.floor
Walking ==
  \/ walk = Off
  \/ ArrivingWalk
  \/ walk = [at |-> "next"]
  \/ walk \in [at : {"deepen"}, rung : 1 .. 5]
  \/ RewriteWalk
  \/ walk \in [at : {"terminate"}, session : SessionIds]

\* The manager's call in progress: a fault is a caller's or arrive's, the
\* destruction of a session is a caller's or the walk's last resort.
Calling ==
  \/ job = Idle
  \/ /\ job.phase \in {"room", "place"}
     /\ job.id \in Objects /\ Entry(job.id)
     /\ walk.at \in {"off", "placed"}
  \/ /\ job.phase = "destroy"
     /\ job.rest = {} /\ job.session \in SessionIds
     /\ walk.at \in {"off", "terminate"}

\* The moves there may yet be: one for each of the rungs r .. 5 if no session
\* can be moved but to one of those, and one for each id a session that
\* holds a context has, since the highest goes first.
NoneAbove(r) == \A s \in LiveIn(sessions) : Movable(s, sessions[s].rung + 1) => r <= sessions[s].rung + 1
Spare(left, ids) == moves + left <= 5 + MaxId /\ \A s \in ids : moves + left + s <= 5 + MaxId
Counting ==
  /\ moves \in 0 .. 5 + MaxId
  /\ walk.at = "next" => \E r \in 1 .. 6 : NoneAbove(r) /\ Spare(6 - r, Holding)
  /\ walk.at \in {"deepen", "rewrite"} => NoneAbove(walk.rung) /\ Spare(5 - walk.rung, Holding)
  /\ walk.at = "terminate" => Spare(0, Holding \ {walk.session})

LInv ==
  /\ Blocked /\ sessions \in [SessionIds -> Session]
  /\ Walking /\ Calling /\ Counting /\ FloorKept /\ LastResort

-----------------------------------------------------------------------------
(* What a rung asks for: qualities get coarser, and a kept block is never    *)
(* coarser than its rung's quality.                                          *)

LEMMA QualityRises ==
  ASSUME NEW q \in 1 .. 5, NEW r \in 1 .. 5, q <= r
  PROVE  Quality(q) \in Nat /\ Quality(r) \in Nat /\ Quality(q) <= Quality(r)
  <1>1. \A x \in 1 .. 5 : x = 1 \/ x = 2 \/ x = 3 \/ x = 4 \/ x = 5
    OBVIOUS
  <1>2. Quality(1) = 3 /\ Quality(2) = 4 /\ Quality(3) = 6 /\ Quality(4) = 6 /\ Quality(5) = 6
    BY DEF Quality, Fp16, Q8, Q4, Ternary
  <1> QED
    BY <1>1, <1>2

LEMMA FateFine ==
  ASSUME NEW rung \in 1 .. 5, NEW at \in Nat, NEW blocks \in Int,
         Fate(rung, at, blocks) # Dropped
  PROVE  /\ FatePrecision(Fate(rung, at, blocks)) \in Precision
         /\ FatePrecision(Fate(rung, at, blocks)) <= Quality(rung)
         /\ Fate(rung, at, blocks) \in {Fp16, Q8, Q4, Summary}
  <1> DEFINE cold == Cold(blocks)
             fate == Fate(rung, at, blocks)
  <1>1. cold \in Int
    BY LadderAssumption DEF Cold, SatSub
  <1>2. Quality(1) = 3 /\ Quality(2) = 4 /\ Quality(3) = 6 /\ Quality(4) = 6 /\ Quality(5) = 6
    BY DEF Quality, Fp16, Q8, Q4, Ternary
  <1>3. rung = 1 \/ rung = 2 \/ rung = 3 \/ rung = 4 \/ rung = 5
    OBVIOUS
  <1>4. CASE at >= cold
    <2>1. fate = Fp16
      BY <1>1, <1>4 DEF Fate
    <2> QED
      BY <1>2, <1>3, <2>1 DEF FatePrecision, Fp16, Summary, Precision
  <1>5. CASE at < cold /\ rung = 1
    <2>1. fate = Q8
      BY <1>1, <1>5 DEF Fate
    <2> QED
      BY <1>2, <1>5, <2>1 DEF FatePrecision, Q8, Summary, Precision
  <1>6. CASE at < cold /\ rung = 2
    <2>1. fate = Q4
      BY <1>1, <1>6 DEF Fate
    <2> QED
      BY <1>2, <1>6, <2>1 DEF FatePrecision, Q4, Summary, Precision
  <1>7. CASE at < cold /\ rung \in {3, 4}
    <2>1. fate \in {Summary, Dropped, Q4}
      BY <1>1, <1>7 DEF Fate
    <2> QED
      BY <1>2, <1>7, <2>1 DEF FatePrecision, Q4, Summary, Precision
  <1>8. CASE at < cold /\ rung = 5
    <2>1. fate = Dropped
      BY <1>1, <1>8 DEF Fate
    <2> QED
      BY <2>1
  <1> HIDE DEF cold
  <1> QED
    BY <1>1, <1>3, <1>4, <1>5, <1>6, <1>7, <1>8

LEMMA BlocksCounted ==
  ASSUME NEW context \in Nat
  PROVE  Blocks(context) \in Int
  <1>1. PerBlock \in Nat \ {0}
    BY LadderAssumption
  <1> DEFINE n == context + PerBlock - 1
  <1>2. n \in Int
    BY <1>1
  <1> HIDE DEF n
  <1>3. n \div PerBlock \in Int
    BY <1>1, <1>2
  <1> QED
    BY <1>3 DEF Blocks, n

-----------------------------------------------------------------------------
(* Sessions.  Crediting and forgetting leave the others' terms alone. *)

\* Every session of after is one of ss, on the same terms and the same rung.
Lesser(ss, after) ==
  /\ after \in [SessionIds -> Session]
  /\ \A s \in LiveIn(after) :
       /\ s \in LiveIn(ss)
       /\ after[s].contract = ss[s].contract /\ after[s].rung = ss[s].rung
       /\ after[s].coarsest = ss[s].coarsest

LEMMA LiveTerms ==
  ASSUME NEW ss \in [SessionIds -> Session], NEW s \in LiveIn(ss)
  PROVE  /\ s \in SessionIds /\ Known(ss, s) /\ ss[s] \in LiveRecord
         /\ ss[s].rung \in 0 .. 5 /\ ss[s].coarsest \in Precision
         /\ ss[s].deepest \in 0 .. 5
         /\ ss[s].contract \in Contract
         /\ ss[s].contract.context \in Nat /\ ss[s].contract.floor \in Precision
  <1>1. s \in SessionIds /\ Known(ss, s)
    BY DEF LiveIn, Known
  <1>2. ss[s] \in LiveRecord /\ ss[s].contract \in Contract
    BY <1>1, LiveSession
  <1> QED
    BY <1>1, <1>2 DEF LiveRecord, Contract

LEMMA CreditTerms ==
  ASSUME NEW ss \in [SessionIds -> Session], NEW owner, NEW size \in Nat
  PROVE  Lesser(ss, Credit(ss, owner, size)) /\ LiveIn(Credit(ss, owner, size)) = LiveIn(ss)
  <1> DEFINE after == Credit(ss, owner, size)
  <1>1. OnlyResident(ss, after, owner)
    BY CreditKeeps
  <1>2. LiveIn(after) = LiveIn(ss) /\ after \in [SessionIds -> Session]
    BY <1>1 DEF OnlyResident, LiveIn, Known
  <1>3. ASSUME NEW s \in LiveIn(ss)
        PROVE  /\ after[s].contract = ss[s].contract /\ after[s].rung = ss[s].rung
               /\ after[s].coarsest = ss[s].coarsest
    <2>1. s \in SessionIds /\ Known(ss, s) /\ ss[s] \in LiveRecord
      BY LiveTerms
    <2>2. CASE s # owner
      BY <1>1, <2>1, <2>2 DEF OnlyResident
    <2>3. CASE s = owner
      <3>1. after[s] = [ss[s] EXCEPT !.resident = SatSub(ss[s].resident, size)]
        BY <2>1, <2>3 DEF Credit
      <3> QED
        BY <2>1, <3>1 DEF LiveRecord
    <2> QED
      BY <2>2, <2>3
  <1> HIDE DEF after
  <1>4. Lesser(ss, after)
    BY <1>2, <1>3 DEF Lesser
  <1> QED
    BY <1>2, <1>4 DEF after

LEMMA ForgetTerms ==
  ASSUME NEW ss \in [SessionIds -> Session], NEW s \in SessionIds
  PROVE  Lesser(ss, Forget(ss, s)) /\ LiveIn(Forget(ss, s)) = LiveIn(ss) \ {s}
  <1> DEFINE after == Forget(ss, s)
  <1>1. /\ after \in [SessionIds -> Session]
        /\ \A r : Known(after, r) <=> Known(ss, r) /\ r # s
        /\ \A r \in SessionIds : r # s => after[r] = ss[r]
    BY ForgetKeeps
  <1> HIDE DEF after
  <1>2. LiveIn(after) = LiveIn(ss) \ {s}
    BY <1>1 DEF LiveIn, Known
  <1>3. Lesser(ss, after)
    BY <1>1, <1>2 DEF Lesser, LiveIn
  <1> QED
    BY <1>2, <1>3 DEF after

LEMMA SameLesser ==
  ASSUME NEW ss \in [SessionIds -> Session]
  PROVE  Lesser(ss, ss)
  BY DEF Lesser

\* The same sessions on the same terms, but that what owner was delivered may
\* be as coarse as precision.
Coarser(ss, after, owner, precision) ==
  /\ after \in [SessionIds -> Session] /\ LiveIn(after) = LiveIn(ss)
  /\ \A s \in LiveIn(ss) :
       /\ after[s].contract = ss[s].contract /\ after[s].rung = ss[s].rung
       /\ after[s].coarsest = ss[s].coarsest \/ (s = owner /\ after[s].coarsest = precision)

LEMMA ChargeTerms ==
  ASSUME NEW ss \in [SessionIds -> Session], NEW owner, NEW size \in Nat, NEW precision \in Precision
  PROVE  Coarser(ss, Charge(ss, owner, size, precision), owner, precision)
  <1> DEFINE after == Charge(ss, owner, size, precision)
  <1>1. OnlyResident(ss, after, owner)
    BY ChargeKeeps
  <1>2. LiveIn(after) = LiveIn(ss) /\ after \in [SessionIds -> Session]
    BY <1>1 DEF OnlyResident, LiveIn, Known
  <1>3. ASSUME NEW s \in LiveIn(ss)
        PROVE  /\ after[s].contract = ss[s].contract /\ after[s].rung = ss[s].rung
               /\ \/ after[s].coarsest = ss[s].coarsest
                  \/ s = owner /\ after[s].coarsest = precision
    <2>1. s \in SessionIds /\ Known(ss, s) /\ ss[s] \in LiveRecord /\ ss[s].coarsest \in Precision
      BY LiveTerms
    <2>2. CASE s # owner
      BY <1>1, <2>1, <2>2 DEF OnlyResident
    <2>3. CASE s = owner
      <3> DEFINE held == ss[s].resident + size
                 top == Max({ss[s].peak, held})
                 worst == Max({ss[s].coarsest, precision})
      <3>1. after[s] = [ss[s] EXCEPT !.resident = held, !.peak = top, !.coarsest = worst]
        BY <2>1, <2>3 DEF Charge
      <3>2. worst = ss[s].coarsest \/ worst = precision
        <4>1. ss[s].coarsest \in Nat /\ precision \in Nat
          BY <2>1 DEF Precision
        <4> QED
          BY <4>1, MaxOfTwo
      <3> HIDE DEF held, top, worst
      <3> QED
        BY <2>1, <2>3, <3>1, <3>2 DEF LiveRecord
    <2> QED
      BY <2>2, <2>3
  <1> HIDE DEF after
  <1>4. Coarser(ss, after, owner, precision)
    BY <1>2, <1>3 DEF Coarser
  <1> QED
    BY <1>4 DEF after

-----------------------------------------------------------------------------
(* What steps leave alone. *)

LEMMA MovableKept ==
  ASSUME Lesser(sessions, sessions'), NEW s \in LiveIn(sessions'), NEW r
  PROVE  Movable(s, r)' <=> Movable(s, r)
  <1>1. sessions'[s].contract = sessions[s].contract /\ sessions'[s].rung = sessions[s].rung
    BY DEF Lesser
  <1> QED
    BY <1>1 DEF Movable

LEMMA HoldingShrinks ==
  ASSUME Lesser(sessions, sessions')
  PROVE  Holding' \subseteq Holding /\ \A r : NoneAbove(r) => NoneAbove(r)'
  <1>1. ASSUME NEW s \in Holding' PROVE s \in Holding
    BY <1>1 DEF Lesser, Holding
  <1>2. ASSUME NEW r, NoneAbove(r) PROVE NoneAbove(r)'
    <2> SUFFICES ASSUME NEW s \in LiveIn(sessions'), Movable(s, sessions[s].rung + 1)'
                 PROVE  r <= sessions'[s].rung + 1
      BY DEF NoneAbove
    <2>1. s \in LiveIn(sessions) /\ sessions'[s].rung = sessions[s].rung
      BY DEF Lesser
    <2>2. Movable(s, sessions[s].rung + 1)
      BY <2>1 DEF Movable, Lesser
    <2> QED
      BY <1>2, <2>1, <2>2 DEF NoneAbove
  <1> QED
    BY <1>1, <1>2

\* The table loses entries or keeps them, with owner, precision and size.
Alike(new, e) == new.owner = e.owner /\ new.precision = e.precision /\ new.size = e.size
FewerBlocks ==
  /\ IsTable(table')
  /\ \A id \in Objects : Entry(id)' =>
       Entry(id) /\ Known(sessions', id[1]) /\ Alike(table'[id], table[id])

\* Nobody arrives or is moved, and no block is added or rewritten.
SameTerms ==
  \A s \in LiveIn(sessions') :
    /\ s \in LiveIn(sessions)
    /\ sessions'[s].contract = sessions[s].contract /\ sessions'[s].rung = sessions[s].rung
Softly == FewerBlocks /\ SameTerms

LEMMA StillSoft ==
  ASSUME LInv, (table' = table /\ sessions' = sessions) \/ UNCHANGED vars
  PROVE  Softly
  <1>1. table' = table /\ sessions' = sessions
    BY DEF vars
  <1>2. \A id \in Objects : Entry(id)' => Entry(id) /\ Alike(table'[id], table[id])
    BY <1>1 DEF Entry, Alike
  <1>3. FewerBlocks
    BY <1>1, <1>2 DEF FewerBlocks, LInv, Blocked
  <1> QED
    BY <1>1, <1>3 DEF Softly, SameTerms

LEMMA BlocksFrame ==
  ASSUME LInv, Lesser(sessions, sessions'), FewerBlocks
  PROVE  Blocked' /\ sessions' \in [SessionIds -> Session] /\ FloorKept'
  <1>1. Blocked'
    BY DEF LInv, Blocked, FewerBlocks, Alike
  <1>2. FloorKept'
    <2> SUFFICES ASSUME NEW s \in LiveIn(sessions')
                 PROVE  /\ sessions'[s].coarsest <= sessions'[s].contract.floor
                        /\ \A id \in Objects : id[1] = s /\ Entry(id)' =>
                             table'[id].precision <= sessions'[s].contract.floor
      BY DEF FloorKept, Entry
    <2>1. /\ s \in LiveIn(sessions) /\ sessions'[s].contract = sessions[s].contract
          /\ sessions'[s].coarsest = sessions[s].coarsest
      BY DEF Lesser
    <2> QED
      BY <2>1 DEF LInv, FloorKept, FewerBlocks, Alike
  <1> QED
    BY <1>1, <1>2 DEF Lesser

LEMMA CountFrame ==
  ASSUME LInv, Lesser(sessions, sessions'), walk' = walk, moves' = moves
  PROVE  Counting' /\ LastResort'
  <1>1. Holding' \subseteq Holding /\ \A r : NoneAbove(r) => NoneAbove(r)'
    BY HoldingShrinks
  <1>2. \A left, big, small : Spare(left, big) /\ small \subseteq big => Spare(left, small)'
    BY DEF Spare
  <1>3. Counting'
    <2>1. Counting
      BY DEF LInv
    <2>2. moves' \in 0 .. 5 + MaxId
      BY <2>1 DEF Counting
    <2>3. CASE walk.at = "next"
      <3>1. PICK r \in 1 .. 6 : NoneAbove(r) /\ Spare(6 - r, Holding)
        BY <2>1, <2>3 DEF Counting
      <3>2. NoneAbove(r)' /\ Spare(6 - r, Holding)'
        BY <1>1, <3>1 DEF Spare
      <3> QED
        BY <2>2, <2>3, <3>2 DEF Counting
    <2>4. CASE walk.at \in {"deepen", "rewrite"}
      <3>1. NoneAbove(walk.rung) /\ Spare(5 - walk.rung, Holding)
        BY <2>1, <2>4 DEF Counting
      <3>2. NoneAbove(walk.rung)' /\ Spare(5 - walk.rung, Holding)'
        <4> PICK q : q = walk.rung
          OBVIOUS
        <4>1. NoneAbove(q) /\ Spare(5 - q, Holding)
          BY <3>1
        <4>2. NoneAbove(q)' /\ Spare(5 - q, Holding)'
          BY <1>1, <4>1 DEF Spare
        <4> QED
          BY <4>2
      <3> QED
        BY <2>2, <2>4, <3>2 DEF Counting
    <2>5. CASE walk.at = "terminate"
      <3>1. Spare(0, Holding \ {walk.session})
        BY <2>1, <2>5 DEF Counting
      <3>2. Spare(0, Holding \ {walk.session})'
        BY <1>1, <3>1 DEF Spare
      <3> QED
        BY <2>2, <2>5, <3>2 DEF Counting
    <2>6. CASE walk.at \notin {"next", "deepen", "rewrite", "terminate"}
      BY <2>2, <2>6 DEF Counting
    <2> QED
      BY <2>3, <2>4, <2>5, <2>6
  <1>4. LastResort'
    <2> SUFFICES ASSUME walk.at = "terminate", NEW s \in LiveIn(sessions'), NEW rung \in 0 .. 7
                 PROVE  ~Movable(s, rung)'
      BY DEF LastResort
    <2>1. s \in LiveIn(sessions)
      BY DEF Lesser
    <2>2. ~Movable(s, rung)
      BY <2>1 DEF LInv, LastResort
    <2> QED
      BY <2>2, MovableKept
  <1> QED
    BY <1>3, <1>4

\* Where only the walk moves, off the squeeze, nothing is left to count.
LEMMA OffFrame ==
  ASSUME LInv, moves' = moves, walk'.at \notin {"next", "deepen", "rewrite", "terminate"}
  PROVE  Counting' /\ LastResort'
  BY DEF LInv, Counting, LastResort

LEMMA WalkFrame ==
  ASSUME LInv, walk' = walk, Lesser(sessions, sessions'), LiveIn(sessions') = LiveIn(sessions),
         \A o \in Objects : Entry(o) => Entry(o)'
  PROVE  Walking'
  <1>1. Walking
    BY DEF LInv
  <1>2. \A s : Known(sessions, s) => Known(sessions', s)
    BY DEF LiveIn, Known
  <1>3. CASE ArrivingWalk
    <2>1. ArrivingWalk'
      BY <1>2, <1>3 DEF ArrivingWalk
    <2> QED
      BY <2>1 DEF Walking
  <1>4. CASE RewriteWalk
    <2>1. walk.session \in LiveIn(sessions')
      BY <1>2, <1>4 DEF RewriteWalk, Known, LiveIn
    <2>2. sessions'[walk.session].contract = sessions[walk.session].contract
      BY <2>1 DEF Lesser
    <2>3. walk.left \subseteq Objects
      BY <1>4 DEF RewriteWalk
    <2>4. RewriteWalk'
      BY <1>2, <1>4, <2>2, <2>3 DEF RewriteWalk, Entry
    <2> QED
      BY <2>4 DEF Walking
  <1> QED
    BY <1>1, <1>3, <1>4 DEF Walking

\* Blocks, and what writing their fields leaves.
LEMMA BlockFields ==
  ASSUME NEW e, IsBlock(e)
  PROVE  e # NoMeta /\ e.size \in Nat /\ e.owner \in 0 .. MaxId /\ e.precision \in Precision
  <1>1. PICK any : e \in BlockMeta(any)
    BY DEF IsBlock
  <1> QED
    BY <1>1 DEF BlockMeta, NoMeta

LEMMA MetaIsBlock ==
  ASSUME NEW e \in Meta
  PROVE  IsBlock(e)
  <1>1. e \in BlockMeta(Providers \cup Tier \cup Nat \cup 0 .. ShareMax)
    BY DEF Meta, BlockMeta
  <1> QED
    BY <1>1 DEF IsBlock

Moved(e, at, tier, share) == [e EXCEPT !.at = at, !.tier = tier, !.share = share]
Shared(e, share) == [e EXCEPT !.share = share]
Resized(e, size, precision) == [e EXCEPT !.size = size, !.precision = precision]

LEMMA BlockMoved ==
  ASSUME NEW e, IsBlock(e), NEW at, NEW tier, NEW share
  PROVE  LET new == Moved(e, at, tier, share)
         IN  IsBlock(new) /\ Alike(new, e)
  <1> DEFINE new == Moved(e, at, tier, share)
  <1>1. PICK any : e \in BlockMeta(any)
    BY DEF IsBlock
  <1>2. /\ new \in BlockMeta(any \cup {at, tier, share})
        /\ Alike(new, e)
    BY <1>1 DEF BlockMeta, Moved, Alike
  <1> QED
    BY <1>2 DEF IsBlock

LEMMA BlockShared ==
  ASSUME NEW e, IsBlock(e), NEW share
  PROVE  LET new == Shared(e, share)
         IN  IsBlock(new) /\ Alike(new, e)
  <1> DEFINE new == Shared(e, share)
  <1>1. PICK any : e \in BlockMeta(any)
    BY DEF IsBlock
  <1>2. new \in BlockMeta(any \cup {share}) /\ Alike(new, e)
    BY <1>1 DEF BlockMeta, Shared, Alike
  <1> QED
    BY <1>2 DEF IsBlock

LEMMA BlockRewritten ==
  ASSUME NEW e, IsBlock(e), NEW size \in Nat, NEW precision \in Precision
  PROVE  LET new == Resized(e, size, precision)
         IN  IsBlock(new) /\ new.owner = e.owner /\ new.precision = precision /\ new.size = size
  <1> DEFINE new == Resized(e, size, precision)
  <1>1. PICK any : e \in BlockMeta(any)
    BY DEF IsBlock
  <1>2. new \in BlockMeta(any) /\ new.owner = e.owner /\ new.precision = precision /\ new.size = size
    BY <1>1 DEF BlockMeta, Resized
  <1> QED
    BY <1>2 DEF IsBlock

\* A block that is an entry, and what it is.
LEMMA BlockEntry ==
  ASSUME LInv, NEW id \in Objects, Entry(id)
  PROVE  /\ IsBlock(table[id])
         /\ table[id].size \in Nat /\ table[id].precision \in Precision
         /\ table[id].owner = id[1] /\ id[1] \in LiveIn(sessions) /\ id[1] \in SessionIds
  <1>1. IsBlock(table[id])
    BY DEF LInv, Blocked, Entry, IsTable
  <1>2. table[id].owner = id[1] /\ Known(sessions, id[1])
    BY DEF LInv, Blocked
  <1> QED
    BY <1>1, <1>2, BlockFields DEF Known, LiveIn

LEMMA TableWritten ==
  ASSUME IsTable(table), NEW id \in Objects, NEW e, table' = [table EXCEPT ![id] = e],
         e = NoMeta \/ IsBlock(e)
  PROVE  IsTable(table') /\ table'[id] = e /\ \A o \in Objects : o # id => table'[o] = table[o]
  <1>1. table'[id] = e /\ \A o \in Objects : o # id => table'[o] = table[o]
    BY DEF IsTable
  <1>2. table' = [o \in Objects |-> table'[o]]
    BY DEF IsTable
  <1> QED
    BY <1>1, <1>2 DEF IsTable

\* One entry is written or removed.
LEMMA BlockWritten ==
  ASSUME LInv, NEW id \in Objects, Entry(id), NEW e, table' = [table EXCEPT ![id] = e],
         LiveIn(sessions') = LiveIn(sessions),
         \/ e = NoMeta
         \/ IsBlock(e) /\ Alike(e, table[id])
  PROVE  /\ FewerBlocks
         /\ \A o \in Objects : o # id => (Entry(o)' <=> Entry(o))
         /\ Entry(id)' <=> e # NoMeta
  <1>1. IsTable(table') /\ table'[id] = e /\ \A o \in Objects : o # id => table'[o] = table[o]
    BY TableWritten DEF LInv, Blocked
  <1>2. \A o \in Objects : Entry(o) => Known(sessions', o[1])
    BY DEF LInv, Blocked, Known, LiveIn
  <1> QED
    BY <1>1, <1>2 DEF FewerBlocks, Entry, Alike

LEMMA EvictBlocks ==
  ASSUME LInv, NEW id \in Objects, NEW e, e = NoMeta \/ e = Home(id), Evict(id, e)
  PROVE  /\ Lesser(sessions, sessions') /\ LiveIn(sessions') = LiveIn(sessions)
         /\ FewerBlocks
         /\ \A o \in Objects : o # id => (Entry(o)' <=> Entry(o))
         /\ e = Home(id) => Entry(id)'
         /\ e = NoMeta => ~Entry(id)'
  <1>1. Entry(id)
    BY DEF Evict, Resident
  <1>2. IsBlock(table[id]) /\ table[id].size \in Nat
    BY <1>1, BlockEntry
  <1>3. Lesser(sessions, sessions') /\ LiveIn(sessions') = LiveIn(sessions)
    BY <1>2, CreditTerms DEF Evict, LInv
  <1>4. IsBlock(Home(id)) /\ Alike(Home(id), table[id])
    <2>1. Home(id) = Moved(table[id], 0, table[id].home, 0)
      BY DEF Home, Moved
    <2> QED
      BY <1>2, <2>1, BlockMoved
  <1>5. Home(id) # NoMeta
    BY <1>4, BlockFields
  <1>6. table' = [table EXCEPT ![id] = e]
    BY DEF Evict
  <1>7. e = NoMeta \/ (IsBlock(e) /\ Alike(e, table[id]))
    BY <1>4
  <1>8. /\ FewerBlocks
        /\ \A o \in Objects : o # id => (Entry(o)' <=> Entry(o))
        /\ Entry(id)' <=> e # NoMeta
    BY <1>1, <1>3, <1>6, <1>7, BlockWritten
  <1> QED
    BY <1>3, <1>5, <1>8

-----------------------------------------------------------------------------
(* The manager's calls, between two of their steps. *)

\* A fault in progress, or a session being destroyed.
LEMMA FaultCall ==
  ASSUME LInv, job.phase \in {"room", "place"}
  PROVE  job.id \in Objects /\ Entry(job.id) /\ walk.at \in {"off", "placed"}
  BY DEF LInv, Calling, Idle

LEMMA DestroyCall ==
  ASSUME LInv, job.phase = "destroy"
  PROVE  job.rest = {} /\ job.session \in SessionIds /\ walk.at \in {"off", "terminate"}
  BY DEF LInv, Calling, Idle

\* A step that eases the sessions and the table and leaves the walk.
LEMMA Eased ==
  ASSUME LInv, Lesser(sessions, sessions'), FewerBlocks, walk' = walk, moves' = moves,
         Walking', Calling'
  PROVE  LInv' /\ Softly
  <1>1. SameTerms
    BY DEF Lesser, SameTerms
  <1> QED
    BY <1>1, BlocksFrame, CountFrame DEF LInv, Softly

LEMMA RoomSteps ==
  ASSUME LInv, RoomFound \/ StopEvicting, walk' = walk, moves' = moves
  PROVE  LInv' /\ Softly
  <1>1. job.id \in Objects /\ Entry(job.id) /\ walk.at \in {"off", "placed"}
    BY FaultCall DEF RoomFound, StopEvicting
  <1>2. table' = table /\ sessions' = sessions
    BY DEF RoomFound, StopEvicting
  <1>3. Lesser(sessions, sessions') /\ FewerBlocks
    BY <1>2, SameLesser DEF LInv, Blocked, FewerBlocks, Alike, Entry
  <1>4. Walking'
    BY <1>2, <1>3, WalkFrame DEF Entry
  <1>5. Calling'
    <2>1. CASE RoomFound
      <3>1. job' = [job EXCEPT !.phase = "place", !.fits = TRUE] /\ job.phase = "room"
        BY <2>1 DEF RoomFound
      <3> QED
        BY <1>1, <1>2, <3>1 DEF LInv, Calling, Entry, Idle
    <2>2. CASE StopEvicting
      <3>1. job' = [job EXCEPT !.phase = "place"] /\ job.phase = "room"
        BY <2>2 DEF StopEvicting
      <3> QED
        BY <1>1, <1>2, <3>1 DEF LInv, Calling, Entry, Idle
    <2> QED
      BY <2>1, <2>2
  <1> QED
    BY <1>3, <1>4, <1>5, Eased

LEMMA VictimStep ==
  ASSUME LInv, NEW id \in Objects, EvictVictim(id), walk' = walk, moves' = moves
  PROVE  LInv' /\ Softly
  <1>1. Evict(id, Home(id)) /\ job' = job /\ job.phase = "room"
    BY DEF EvictVictim
  <1>2. job.id \in Objects /\ Entry(job.id) /\ walk.at \in {"off", "placed"}
    BY <1>1, FaultCall
  <1>3. /\ Lesser(sessions, sessions') /\ LiveIn(sessions') = LiveIn(sessions)
        /\ FewerBlocks
        /\ \A o \in Objects : Entry(o) => Entry(o)'
    BY <1>1, EvictBlocks
  <1>4. Walking'
    BY <1>3, WalkFrame
  <1>5. Entry(job.id)'
    <2> PICK x \in Objects : x = job.id
      BY <1>2
    <2>1. Entry(x)'
      BY <1>2, <1>3
    <2> QED
      BY <1>1, <2>1
  <1>6. Calling'
    BY <1>1, <1>2, <1>5 DEF Calling
  <1> QED
    BY <1>3, <1>4, <1>6, Eased

LEMMA NotPlacedStep ==
  ASSUME LInv, NotPlaced, walk' = walk, moves' = moves
  PROVE  LInv' /\ Softly
  <1>1. job.id \in Objects /\ Entry(job.id)
    BY FaultCall DEF NotPlaced
  <1>2. table[job.id].size \in Nat
    BY <1>1, BlockEntry
  <1>3. table' = table /\ job' = Idle /\ sessions' = Credit(sessions, table[job.id].owner, table[job.id].size)
    BY DEF NotPlaced
  <1>4. Lesser(sessions, sessions') /\ LiveIn(sessions') = LiveIn(sessions)
    BY <1>2, <1>3, CreditTerms DEF LInv
  <1>5. FewerBlocks
    BY <1>3, <1>4 DEF LInv, Blocked, FewerBlocks, Alike, Entry, Known, LiveIn
  <1>6. Walking'
    BY <1>3, <1>4, WalkFrame DEF Entry
  <1> QED
    BY <1>3, <1>4, <1>5, <1>6, Eased DEF Calling

LEMMA PlacedStep ==
  ASSUME LInv, Placed, walk' = walk, moves' = moves
  PROVE  LInv' /\ Softly
  <1>1. PICK id \in Objects : id = job.id /\ Entry(id)
    BY FaultCall DEF Placed
  <1>2. IsBlock(table[id]) /\ table[id].size \in Nat
    BY <1>1, BlockEntry
  <1>3. sessions \in [SessionIds -> Session] /\ job' = Idle
    BY DEF LInv, Placed
  <1>4. Lesser(sessions, sessions') /\ LiveIn(sessions') = LiveIn(sessions)
    <2>1. sessions' = sessions \/ sessions' = Credit(sessions, table[id].owner, table[id].size)
      BY <1>1 DEF Placed
    <2> QED
      BY <1>2, <1>3, <2>1, CreditTerms, SameLesser
  <1>5. FewerBlocks /\ \A o \in Objects : Entry(o)' <=> Entry(o)
    <2>1. CASE table' = table
      BY <1>4, <2>1 DEF LInv, Blocked, FewerBlocks, Alike, Entry, Known, LiveIn
    <2>2. CASE table' # table
      <3> DEFINE m == table[id]
                 at == Base + free[FirstFit(free, RoundUp(m.size))].at
                 share == IF job.once THEN 0 ELSE Weight(job.lease)
                 e == Moved(m, at, "Warm", share)
      <3>1. table' = [table EXCEPT ![id] = e]
        BY <1>1, <2>2 DEF Placed, Moved
      <3> HIDE DEF at, share
      <3>2. IsBlock(e) /\ Alike(e, m)
        BY <1>2, BlockMoved
      <3>3. e # NoMeta
        BY <3>2, BlockFields
      <3> HIDE DEF e
      <3> QED
        BY <1>1, <1>4, <3>1, <3>2, <3>3, BlockWritten
    <2> QED
      BY <2>1, <2>2
  <1>6. Walking'
    BY <1>4, <1>5, WalkFrame
  <1> QED
    BY <1>3, <1>4, <1>5, <1>6, Eased DEF Calling

\* Outside of arrive and of a rewrite the walk names no block.
LEMMA WalkAtRest ==
  ASSUME LInv, walk' = walk, walk.at \in {"off", "next", "deepen", "terminate"}
  PROVE  Walking'
  BY DEF LInv, Walking, ArrivingWalk, RewriteWalk

LEMMA DestroyObjectStep ==
  ASSUME LInv, NEW id \in Objects, DestroyObject(id), walk' = walk, moves' = moves
  PROVE  LInv' /\ Softly
  <1>1. job.rest = {} /\ job.session \in SessionIds /\ walk.at \in {"off", "terminate"}
    BY DestroyCall DEF DestroyObject
  <1>2. Entry(id) /\ job.phase = "destroy" /\ job' = [job EXCEPT !.gone = @ + 1]
    BY DEF DestroyObject, Owned
  <1>3. Lesser(sessions, sessions') /\ FewerBlocks
    <2>1. CASE Evict(id, NoMeta)
      BY <2>1, EvictBlocks
    <2>2. CASE ~Evict(id, NoMeta)
      <3>1. table' = [table EXCEPT ![id] = NoMeta] /\ sessions' = sessions
        BY <2>2 DEF DestroyObject
      <3> QED
        BY <1>2, <3>1, BlockWritten, SameLesser DEF LInv
    <2> QED
      BY <2>1, <2>2
  <1>4. Walking'
    BY <1>1, WalkAtRest
  <1>5. Calling'
    <2>1. job'.phase = "destroy" /\ job'.rest = {} /\ job'.session \in SessionIds
      <3>1. job # Idle
        BY <1>2 DEF Idle
      <3> QED
        BY <1>1, <1>2, <3>1
    <2> QED
      BY <1>1, <2>1 DEF Calling
  <1> QED
    BY <1>3, <1>4, <1>5, Eased

LEMMA DestroyRefusedStep ==
  ASSUME LInv, DestroyRefused, walk' = walk, moves' = moves
  PROVE  LInv' /\ Softly
  <1>1. job.rest = {} /\ walk.at \in {"off", "terminate"}
    BY DestroyCall DEF DestroyRefused
  <1>2. job' = Idle /\ table' = table /\ sessions' = sessions
    BY <1>1 DEF DestroyRefused, DestroyNext
  <1>3. Lesser(sessions, sessions') /\ FewerBlocks
    BY <1>2, SameLesser DEF LInv, Blocked, FewerBlocks, Alike, Entry
  <1>4. Walking'
    BY <1>1, WalkAtRest
  <1> QED
    BY <1>2, <1>3, <1>4, Eased DEF Calling

LEMMA DestroyDoneStep ==
  ASSUME LInv, DestroyDone, walk' = walk, moves' = moves
  PROVE  LInv' /\ Softly
  <1>1. job.rest = {} /\ job.session \in SessionIds /\ walk.at \in {"off", "terminate"}
    BY DestroyCall DEF DestroyDone
  <1>2. /\ job' = Idle /\ table' = table
        /\ sessions' = IF Known(sessions, job.session) THEN Forget(sessions, job.session) ELSE sessions
        /\ \A id \in Objects : ~Owned(id)
    BY <1>1 DEF DestroyDone, DestroyNext
  <1>3. sessions \in [SessionIds -> Session]
    BY DEF LInv
  <1>4. Lesser(sessions, sessions') /\ LiveIn(sessions) \ {job.session} \subseteq LiveIn(sessions')
    BY <1>1, <1>2, <1>3, ForgetTerms, SameLesser
  <1>5. FewerBlocks
    <2>1. IsTable(table')
      BY <1>2 DEF LInv, Blocked
    <2>2. ASSUME NEW id \in Objects, Entry(id)' PROVE Entry(id) /\ Known(sessions', id[1])
      <3>1. Entry(id)
        BY <1>2, <2>2 DEF Entry
      <3>2. table[id].owner = id[1] /\ id[1] \in LiveIn(sessions) /\ id[1] \in SessionIds
        BY <3>1, BlockEntry
      <3>3. id[1] # job.session
        <4>1. job.session # 0
          BY <1>1 DEF SessionIds
        <4> QED
          BY <1>2, <3>1, <3>2, <4>1 DEF Owned
      <3>4. id[1] \in LiveIn(sessions')
        BY <1>4, <3>2, <3>3
      <3> QED
        BY <3>1, <3>4 DEF LiveIn, Known
    <2> QED
      BY <1>2, <2>1, <2>2 DEF FewerBlocks, Alike
  <1>6. Walking'
    BY <1>1, WalkAtRest
  <1> QED
    BY <1>2, <1>4, <1>5, <1>6, Eased DEF Calling

LEMMA JobSteps ==
  ASSUME LInv, JobStep, walk' = walk, moves' = moves
  PROVE  LInv' /\ Softly
  BY RoomSteps, VictimStep, NotPlacedStep, PlacedStep, DestroyObjectStep,
     DestroyRefusedStep, DestroyDoneStep DEF JobStep

-----------------------------------------------------------------------------
(* arrive, and callers' calls between two walks. *)

\* A hit, or the beginning of a fault, on a block.
LEMMA ConsumeStep ==
  ASSUME LInv, NEW id \in Objects, Consume(id), moves' = moves,
         walk'.at \notin {"next", "deepen", "rewrite", "terminate"},
         walk'.at \in {"off", "placed"}
  PROVE  /\ Blocked' /\ sessions' \in [SessionIds -> Session] /\ FloorKept'
         /\ Calling' /\ Counting' /\ LastResort'
         /\ LiveIn(sessions') = LiveIn(sessions) /\ Softly
  <1>1. job = Idle
    BY DEF Consume
  <1>2. sessions \in [SessionIds -> Session]
    BY DEF LInv
  <1>3. CASE Hit(id, "Streaming", TRUE)
    <2>1. Entry(id) /\ sessions' = sessions /\ job' = job
      BY <1>3 DEF Hit, Resident
    <2> DEFINE m == table[id]
               share == SatSub(SatAdd(m.share, Weight("Streaming")), Weight("Streaming"))
               e == Shared(m, share)
    <2>2. table' = [table EXCEPT ![id] = e]
      BY <1>3 DEF Hit, Shared
    <2> HIDE DEF share
    <2>3. IsBlock(m)
      BY <2>1, BlockEntry
    <2>4. IsBlock(e) /\ Alike(e, m)
      BY <2>3, BlockShared
    <2> HIDE DEF e
    <2>5. FewerBlocks
      BY <2>1, <2>2, <2>4, BlockWritten
    <2> QED
      BY <1>1, <1>2, <2>1, <2>5, BlocksFrame, OffFrame, SameLesser DEF Calling, Softly, SameTerms
  <1>4. CASE Miss(id, "Streaming", TRUE)
    <2>1. Entry(id) /\ table' = table /\ job' = Fault("room", id, "Streaming", TRUE, FALSE)
      BY <1>4 DEF Miss
    <2>2. /\ table[id].size \in Nat /\ table[id].precision \in Precision
          /\ table[id].owner = id[1] /\ id[1] \in LiveIn(sessions)
      BY <2>1, BlockEntry
    <2>3. sessions' = Charge(sessions, table[id].owner, table[id].size, table[id].precision)
      BY <1>4 DEF Miss
    <2>4. Coarser(sessions, sessions', table[id].owner, table[id].precision)
      BY <1>2, <2>2, <2>3, ChargeTerms
    <2>5. Blocked'
      BY <2>1, <2>4 DEF LInv, Blocked, Entry, Known, LiveIn, Coarser
    <2>6. FloorKept'
      BY <2>1, <2>2, <2>4 DEF LInv, FloorKept, Entry, Coarser
    <2>7. Calling'
      <3>1. job'.phase = "room" /\ job'.id = id
        BY <2>1 DEF Fault
      <3>2. Entry(id)'
        BY <2>1 DEF Entry
      <3> QED
        BY <3>1, <3>2 DEF Calling, Entry
    <2>8. Softly
      <3>1. \A o \in Objects : Entry(o)' => Entry(o) /\ Alike(table'[o], table[o])
        BY <2>1 DEF Entry, Alike
      <3>2. FewerBlocks
        BY <2>1, <2>5, <3>1 DEF FewerBlocks, Blocked
      <3> QED
        BY <2>4, <3>2 DEF Coarser, Softly, SameTerms
    <2> QED
      BY <2>4, <2>5, <2>6, <2>7, <2>8, OffFrame DEF Coarser
  <1> QED
    BY <1>3, <1>4 DEF Consume

LEMMA ArriveStep ==
  ASSUME LInv, NEW contract \in Contracts, Arrive(contract)
  PROVE  LInv'
  <1> DEFINE s == LowestFree(sessions)
  <1>1. /\ s \in SessionIds /\ ~Known(sessions, s)
        /\ job = Idle /\ job' = Idle /\ table' = table /\ moves' = moves
        /\ sessions' = Adopt(sessions, s, contract)
        /\ walk' = Arriving("register", s, 0)
    BY DEF Arrive, CreateSession, Adoptable
  <1>2. contract \in Contract
    BY ManagerAssumption
  <1>3. sessions \in [SessionIds -> Session]
    BY DEF LInv
  <1> HIDE DEF s
  <1>4. /\ sessions' \in [SessionIds -> Session]
        /\ \A r : Known(sessions', r) <=> Known(sessions, r) \/ r = s
        /\ \A r \in SessionIds : r # s => sessions'[r] = sessions[r]
    BY <1>1, <1>2, <1>3, AdoptKeeps
  <1>5. sessions'[s].coarsest = 1 /\ sessions'[s].contract = contract
    BY <1>1, <1>3 DEF Adopt
  <1>6. Blocked'
    BY <1>1, <1>4 DEF LInv, Blocked, Entry
  <1>7. FloorKept'
    <2> SUFFICES ASSUME NEW r \in LiveIn(sessions')
                 PROVE  /\ sessions'[r].coarsest <= sessions'[r].contract.floor
                        /\ \A id \in Objects : id[1] = r /\ Entry(id) =>
                             table[id].precision <= sessions'[r].contract.floor
      BY <1>1 DEF FloorKept, Entry
    <2>1. CASE r = s
      <3>1. \A id \in Objects : id[1] = r => ~Entry(id)
        BY <1>1, <2>1, BlockEntry DEF LiveIn, Known
      <3>2. contract.floor \in 1 .. 6
        BY <1>2 DEF Contract, Precision
      <3> QED
        BY <1>5, <2>1, <3>1, <3>2
    <2>2. CASE r # s
      <3>1. r \in LiveIn(sessions) /\ sessions'[r] = sessions[r]
        BY <1>4, <2>2 DEF LiveIn, Known
      <3> QED
        BY <3>1 DEF LInv, FloorKept
    <2> QED
      BY <2>1, <2>2
  <1>8. Walking'
    <2>1. ArrivingWalk'
      BY <1>1, <1>4 DEF ArrivingWalk, Arriving
    <2> QED
      BY <2>1 DEF Walking
  <1>9. Counting' /\ LastResort'
    BY <1>1, OffFrame DEF Arriving
  <1> QED
    BY <1>1, <1>4, <1>6, <1>7, <1>8, <1>9 DEF LInv, Calling

LEMMA FullBytesTyped ==
  ASSUME NEW at \in Nat, NEW context \in Nat, NEW kv \in Nat
  PROVE  FullBytes(at, context, kv) \in Nat
  <1> DEFINE left == SatSub(context, at * PerBlock)
             n == Min({PerBlock, left})
  <1>1. PerBlock \in Nat
    BY LadderAssumption
  <1>2. left \in Nat
    <2>1. at * PerBlock \in Nat
      BY <1>1
    <2> QED
      BY <2>1 DEF SatSub
  <1> HIDE DEF left
  <1>3. n \in {PerBlock, left}
    BY <1>1, <1>2, LeastMember
  <1>4. n \in Nat
    BY <1>1, <1>2, <1>3
  <1> HIDE DEF n
  <1>5. n * kv \in Nat
    BY <1>4
  <1> QED
    BY <1>5 DEF FullBytes, n, left

\* Where arrive is, if it is anywhere.
LEMMA ArrivingNow ==
  ASSUME LInv, walk.at \in {"register", "consume", "placed"}
  PROVE  ArrivingWalk
  BY DEF LInv, Walking, RewriteWalk, Off

LEMMA ArriveRegisterStep ==
  ASSUME LInv, NEW id \in Objects, NEW template \in Templates[id], walk.at = "register",
         id = <<walk.session, walk.block>>, ArriveRegister(template)
  PROVE  LInv'
  <1> DEFINE s == walk.session
             context == sessions[s].contract.context
             size == FullBytes(walk.block, context, template.size)
             e == [template EXCEPT !.owner = s, !.size = size]
  <1>1. ArrivingWalk
    BY ArrivingNow
  <1>2. /\ s \in SessionIds /\ walk.block \in Nat /\ Known(sessions, s) /\ s \in LiveIn(sessions)
    BY <1>1 DEF ArrivingWalk, Known, LiveIn
  <1>3. /\ job = Idle /\ job' = Idle /\ sessions' = sessions /\ moves' = moves
        /\ table' = [table EXCEPT ![id] = e] /\ walk' = [walk EXCEPT !.at = "consume"]
    BY DEF ArriveRegister, Register
  <1>4. sessions \in [SessionIds -> Session] /\ IsTable(table)
    BY DEF LInv, Blocked
  <1>5. context \in Nat /\ sessions[s].contract.floor \in 1 .. 6
    BY <1>2, <1>4, LiveTerms DEF Precision
  <1>6. template \in Meta /\ template.precision = 1 /\ template.size \in Nat
    BY TemplatesAssumption, LadderAssumption DEF Meta
  <1>7. size \in Nat
    BY <1>2, <1>5, <1>6, FullBytesTyped
  <1>8. s \in 0 .. MaxId
    BY <1>2 DEF SessionIds
  <1> HIDE DEF size, context
  <1>9. e \in Meta /\ e.owner = s /\ e.precision = 1
    BY <1>6, <1>7, <1>8 DEF Meta
  <1>10. IsBlock(e)
    BY <1>9, MetaIsBlock
  <1> HIDE DEF e
  <1>11. IsTable(table') /\ table'[id] = e /\ \A o \in Objects : o # id => table'[o] = table[o]
    BY <1>3, <1>4, <1>10, TableWritten
  <1>12. id[1] = s
    OBVIOUS
  <1>13. Blocked'
    <2> SUFFICES ASSUME NEW o \in Objects, Entry(o)' PROVE table'[o].owner = o[1] /\ Known(sessions', o[1])
      BY <1>11 DEF Blocked
    <2>1. CASE o = id
      BY <1>2, <1>3, <1>9, <1>11, <1>12, <2>1
    <2>2. CASE o # id
      BY <1>3, <1>11, <2>2 DEF LInv, Blocked, Entry
    <2> QED
      BY <2>1, <2>2
  <1>14. FloorKept'
    <2> SUFFICES ASSUME NEW r \in LiveIn(sessions)
                 PROVE  /\ sessions[r].coarsest <= sessions[r].contract.floor
                        /\ \A o \in Objects : o[1] = r /\ Entry(o)' =>
                             table'[o].precision <= sessions[r].contract.floor
      BY <1>3 DEF FloorKept, Entry
    <2>1. sessions[r].contract.floor \in 1 .. 6
      BY <1>4, LiveTerms DEF Precision
    <2>2. \A o \in Objects : o # id => (Entry(o)' <=> Entry(o))
      BY <1>11 DEF Entry
    <2> QED
      BY <1>9, <1>11, <2>1, <2>2 DEF LInv, FloorKept
  <1>15. Walking'
    <2>1. ArrivingWalk'
      BY <1>1, <1>3 DEF ArrivingWalk
    <2> QED
      BY <2>1 DEF Walking
  <1>16. Counting' /\ LastResort'
    <2>1. walk'.at = "consume"
      BY <1>1, <1>3 DEF ArrivingWalk
    <2> QED
      BY <1>3, <2>1, OffFrame
  <1> QED
    BY <1>3, <1>4, <1>13, <1>14, <1>15, <1>16 DEF LInv, Calling

\* Only the walk moves, and not into a squeeze.
LEMMA WalkOnly ==
  ASSUME LInv, job = Idle, UNCHANGED vars, moves' = moves, Walking',
         walk'.at \notin {"next", "deepen", "rewrite", "terminate"}
  PROVE  LInv'
  <1>1. job' = Idle /\ table' = table /\ sessions' = sessions
    BY DEF vars
  <1>2. Counting' /\ LastResort'
    BY OffFrame
  <1> QED
    BY <1>1, <1>2 DEF LInv, Blocked, FloorKept, Calling, Entry

LEMMA ArriveConsumeStep ==
  ASSUME LInv, ArriveConsume
  PROVE  LInv' /\ Softly /\ LiveIn(sessions') = LiveIn(sessions)
  <1>1. ArrivingWalk /\ walk.at = "consume"
    BY ArrivingNow DEF ArriveConsume
  <1>2. PICK id \in Objects : id = <<walk.session, walk.block>>
    BY <1>1 DEF ArrivingWalk
  <1>3. job = Idle /\ walk' = [walk EXCEPT !.at = "placed"] /\ moves' = moves
    BY DEF ArriveConsume
  <1>4. walk'.at = "placed"
    BY <1>1, <1>3 DEF ArrivingWalk
  <1>5. LiveIn(sessions') = LiveIn(sessions) => Walking'
    <2>1. LiveIn(sessions') = LiveIn(sessions) => ArrivingWalk'
      BY <1>1, <1>3 DEF ArrivingWalk, Known, LiveIn
    <2> QED
      BY <2>1 DEF Walking
  <1>6. CASE Consume(id)
    <2>1. /\ Blocked' /\ sessions' \in [SessionIds -> Session] /\ FloorKept'
          /\ Calling' /\ Counting' /\ LastResort' /\ LiveIn(sessions') = LiveIn(sessions) /\ Softly
      BY <1>3, <1>4, <1>6, ConsumeStep
    <2> QED
      BY <1>5, <2>1 DEF LInv
  <1>7. CASE UNCHANGED vars
    <2>1. sessions' = sessions
      BY <1>7 DEF vars
    <2> QED
      BY <1>3, <1>4, <1>5, <1>7, <2>1, WalkOnly, StillSoft
  <1> QED
    BY <1>2, <1>6, <1>7 DEF ArriveConsume

LEMMA ArriveEnds ==
  ASSUME LInv, ArrivePlaced \/ ArriveDone
  PROVE  LInv'
  <1>1. /\ job = Idle /\ UNCHANGED vars /\ moves' = moves
    BY DEF ArrivePlaced, ArriveDone
  <1>2. \/ walk' = Off
        \/ walk.at = "placed" /\ walk' = Arriving("register", walk.session, walk.block + 1)
    BY DEF ArrivePlaced, ArriveDone
  <1>3. CASE walk' = Off
    BY <1>1, <1>3, WalkOnly DEF Off, Walking
  <1>4. CASE walk.at = "placed" /\ walk' = Arriving("register", walk.session, walk.block + 1)
    <2>1. ArrivingWalk
      BY <1>4, ArrivingNow
    <2>2. sessions' = sessions
      BY <1>1 DEF vars
    <2>3. ArrivingWalk'
      BY <1>4, <2>1, <2>2 DEF ArrivingWalk, Arriving
    <2> QED
      BY <1>1, <1>4, <2>3, WalkOnly DEF Walking, Arriving
  <1> QED
    BY <1>2, <1>3, <1>4

\* What callers do between two walks: consume, attach a provider, end a session.
LEMMA BetweenWalks ==
  ASSUME LInv, walk = Off, walk' = walk, moves' = moves,
         \/ \E id \in Objects : Consume(id)
         \/ \E p \in Providers : Attach(p)
         \/ \E s \in SessionIds : DestroySession(s)
  PROVE  LInv' /\ Softly
  <1>0. walk.at = "off" /\ Walking'
    BY DEF Off, Walking
  <1>1. ASSUME NEW id \in Objects, Consume(id) PROVE LInv' /\ Softly
    BY <1>0, <1>1, ConsumeStep DEF LInv
  <1>2. CASE \E p \in Providers : Attach(p)
    <2>1. table' = table /\ sessions' = sessions /\ job' = Idle
      BY <1>2 DEF Attach
    <2>2. Counting' /\ LastResort'
      BY <1>0, OffFrame
    <2> QED
      BY <1>0, <2>1, <2>2, StillSoft DEF LInv, Blocked, FloorKept, Calling, Entry
  <1>3. ASSUME NEW s \in SessionIds, DestroySession(s) PROVE LInv' /\ Softly
    <2>1. table' = table /\ sessions' = sessions /\ job' = Destroy(s, {}, 0)
      BY <1>3 DEF DestroySession
    <2>2. Counting' /\ LastResort'
      BY <1>0, OffFrame
    <2>3. Calling'
      BY <1>0, <2>1 DEF Calling, Destroy
    <2> QED
      BY <1>0, <2>1, <2>2, <2>3, StillSoft DEF LInv, Blocked, FloorKept, Entry
  <1> QED
    BY <1>1, <1>2, <1>3

-----------------------------------------------------------------------------
(* squeeze *)

\* The manager is as it was; the walk moves on, and keeps its own invariants.
LEMMA SqueezeOnly ==
  ASSUME LInv, job = Idle, UNCHANGED vars, Walking', Counting', LastResort'
  PROVE  LInv'
  <1>1. job' = Idle /\ table' = table /\ sessions' = sessions
    BY DEF vars
  <1> QED
    BY <1>1 DEF LInv, Blocked, FloorKept, Calling, Entry

LEMMA SqueezeStep ==
  ASSUME LInv, NEW bytes \in Budgets, Squeeze(bytes)
  PROVE  LInv'
  <1>1. /\ job = Idle /\ UNCHANGED vars /\ walk' = [at |-> "next"] /\ moves' = 0
    BY DEF Squeeze
  <1>2. sessions' = sessions /\ sessions \in [SessionIds -> Session]
    BY <1>1 DEF vars, LInv
  <1>3. Counting'
    <2>1. NoneAbove(1)'
      <3> SUFFICES ASSUME NEW s \in LiveIn(sessions) PROVE 1 <= sessions[s].rung + 1
        BY <1>2 DEF NoneAbove
      <3> QED
        BY <1>2, LiveTerms
    <2>2. Spare(6 - 1, Holding)'
      BY <1>1, MaxIdAssumption DEF Spare, Holding, LiveIn, SessionIds
    <2>3. moves' \in 0 .. 5 + MaxId
      BY <1>1, MaxIdAssumption
    <2> QED
      BY <1>1, <2>1, <2>2, <2>3 DEF Counting
  <1>4. Walking' /\ LastResort'
    BY <1>1 DEF Walking, LastResort
  <1> QED
    BY <1>1, <1>3, <1>4, SqueezeOnly

LEMMA SqueezeFitsStep ==
  ASSUME LInv, SqueezeFits
  PROVE  LInv'
  BY WalkOnly DEF SqueezeFits, Off, Walking

\* The least rung that some session could be moved to.
LEMMA LeastDeeper ==
  ASSUME LInv, Deeper # {}
  PROVE  /\ Min(Deeper) \in 1 .. 5 /\ NoneAbove(Min(Deeper))
         /\ \E s \in LiveIn(sessions) : Movable(s, sessions[s].rung + 1) /\ Min(Deeper) = sessions[s].rung + 1
  <1>1. sessions \in [SessionIds -> Session]
    BY DEF LInv
  <1>2. \A s \in LiveIn(sessions) : sessions[s].rung \in 0 .. 5
    BY <1>1, LiveTerms
  <1>3. Deeper \subseteq Nat
    BY <1>2 DEF Deeper
  <1>4. Min(Deeper) \in Deeper /\ \A r \in Deeper : Min(Deeper) <= r
    BY <1>3, LeastMember
  <1>5. PICK s \in LiveIn(sessions) : Movable(s, sessions[s].rung + 1) /\ Min(Deeper) = sessions[s].rung + 1
    BY <1>4 DEF Deeper
  <1>6. Min(Deeper) \in 1 .. 5
    BY <1>2, <1>5 DEF Movable
  <1>7. NoneAbove(Min(Deeper))
    <2> SUFFICES ASSUME NEW t \in LiveIn(sessions), Movable(t, sessions[t].rung + 1)
                 PROVE  Min(Deeper) <= sessions[t].rung + 1
      BY DEF NoneAbove
    <2>1. sessions[t].rung + 1 \in Deeper
      BY DEF Deeper
    <2> QED
      BY <1>4, <2>1
  <1> QED
    BY <1>5, <1>6, <1>7

LEMMA SqueezeDeepenStep ==
  ASSUME LInv, SqueezeDeepen
  PROVE  LInv'
  <1>1. PICK q : q = Min(Deeper)
    OBVIOUS
  <1>2. /\ job = Idle /\ UNCHANGED vars /\ walk.at = "next" /\ Deeper # {}
        /\ walk' = [at |-> "deepen", rung |-> q] /\ moves' = moves + 1
    BY <1>1 DEF SqueezeDeepen
  <1>3. /\ q \in 1 .. 5 /\ NoneAbove(q)
        /\ \E s \in LiveIn(sessions) : Movable(s, sessions[s].rung + 1) /\ q = sessions[s].rung + 1
    BY <1>1, <1>2, LeastDeeper
  <1>4. sessions' = sessions
    BY <1>2 DEF vars
  <1>5. Counting'
    <2>1. PICK r \in 1 .. 6 : NoneAbove(r) /\ Spare(6 - r, Holding)
      BY <1>2 DEF LInv, Counting
    <2>2. r <= q
      BY <1>3, <2>1 DEF NoneAbove
    <2>3. moves \in Nat /\ MaxId \in Nat
      BY MaxIdAssumption DEF LInv, Counting
    <2>4. Holding \subseteq Nat
      BY DEF Holding, LiveIn, SessionIds
    <2>5. Spare(5 - q, Holding)'
      <3>1. Holding' = Holding
        BY <1>4 DEF Holding
      <3> QED
        BY <1>2, <1>3, <2>1, <2>2, <2>3, <2>4, <3>1 DEF Spare
    <2>6. NoneAbove(q)'
      BY <1>3, <1>4 DEF NoneAbove, Movable
    <2>7. moves' \in 0 .. 5 + MaxId
      BY <1>2, <1>3, <2>3, <2>5 DEF Spare
    <2> QED
      BY <1>2, <2>5, <2>6, <2>7 DEF Counting
  <1>6. Walking' /\ LastResort'
    BY <1>2, <1>3 DEF Walking, LastResort
  <1> QED
    BY <1>2, <1>5, <1>6, SqueezeOnly

\* No session that could go one rung deeper: none could go to any rung, since
\* the qualities only get coarser.
LEMMA NoDeeper ==
  ASSUME LInv, Deeper = {}, NEW s \in LiveIn(sessions), NEW rung \in 0 .. 7
  PROVE  ~Movable(s, rung)
  <1> SUFFICES ASSUME Movable(s, rung) PROVE FALSE
    OBVIOUS
  <1>1. sessions \in [SessionIds -> Session]
    BY DEF LInv
  <1>2. sessions[s].rung \in 0 .. 5 /\ sessions[s].contract.floor \in 1 .. 6
    BY <1>1, LiveTerms DEF Precision
  <1>3. PICK q : q = sessions[s].rung + 1
    OBVIOUS
  <1>4. rung \in 1 .. 5 /\ q \in 1 .. 5 /\ q <= rung
    BY <1>2, <1>3 DEF Movable
  <1>5. Quality(q) \in Nat /\ Quality(rung) \in Nat /\ Quality(q) <= Quality(rung)
    BY <1>4, QualityRises
  <1>6. Movable(s, q)
    BY <1>2, <1>3, <1>4, <1>5 DEF Movable
  <1>7. q \in Deeper
    BY <1>3, <1>6 DEF Deeper
  <1> QED
    BY <1>7

LEMMA GreatestMember ==
  ASSUME NEW N \in Nat, NEW S \in SUBSET (1 .. N), S # {}
  PROVE  Max(S) \in S /\ \A x \in S : x <= Max(S)
  <1> DEFINE below == {N - x : x \in S}
  <1>0. \A x \in S : x \in Int /\ 1 <= x /\ x <= N /\ N - x \in Nat
    OBVIOUS
  <1>1. below \in SUBSET Nat /\ below # {}
    <2>1. \A y \in below : y \in Nat
      BY <1>0
    <2>2. PICK x \in S : TRUE
      OBVIOUS
    <2>3. N - x \in below
      OBVIOUS
    <2> QED
      BY <2>1, <2>3
  <1>2. PICK d \in below : \A y \in below : d <= y
    BY <1>1, LeastMember
  <1>3. PICK m \in S : d = N - m
    OBVIOUS
  <1>4. \A x \in S : m >= x
    <2> SUFFICES ASSUME NEW x \in S PROVE m >= x
      OBVIOUS
    <2>1. N - x \in below
      OBVIOUS
    <2>2. N - m <= N - x
      BY <1>2, <1>3, <2>1
    <2>3. m \in Int /\ x \in Int
      OBVIOUS
    <2> QED
      BY <2>2, <2>3
  <1>5. Max(S) \in S /\ \A x \in S : Max(S) >= x
    <2>1. \E z \in S : \A x \in S : z >= x
      BY <1>4
    <2> QED
      BY <2>1, Zenon DEF Max
  <1>6. Max(S) \in Int /\ \A x \in S : x \in Int
    BY <1>0, <1>5
  <1> QED
    BY <1>5, <1>6

LEMMA SqueezeTerminateStep ==
  ASSUME LInv, SqueezeTerminate
  PROVE  LInv'
  <1>1. PICK m : m = Max(Holding)
    OBVIOUS
  <1>2. /\ walk.at = "next" /\ Deeper = {} /\ Holding # {}
        /\ DestroySession(m) /\ moves' = moves + 1
        /\ walk' = [at |-> "terminate", session |-> m]
    BY <1>1 DEF SqueezeTerminate
  <1>3. table' = table /\ sessions' = sessions /\ job' = Destroy(m, {}, 0)
    BY <1>2 DEF DestroySession
  <1>4. Holding \subseteq SessionIds /\ MaxId \in Nat \ {0} /\ moves \in Nat
    BY MaxIdAssumption DEF Holding, LiveIn, LInv, Counting
  <1>5. m \in Holding /\ \A s \in Holding : s <= m
    BY <1>1, <1>2, <1>4, GreatestMember DEF SessionIds
  <1>6. Walking' /\ Calling'
    BY <1>2, <1>3, <1>4, <1>5 DEF Walking, Calling, Destroy
  <1>7. LastResort'
    BY <1>3, NoDeeper, <1>2 DEF LastResort, Movable
  <1>8. Counting'
    <2>1. PICK r \in 1 .. 6 : Spare(6 - r, Holding)
      BY <1>2 DEF LInv, Counting
    <2>2. \A s \in Holding : s \in Nat /\ s >= 1 /\ s <= m
      BY <1>4, <1>5 DEF SessionIds
    <2>3. Spare(0, Holding \ {m})'
      <3>1. Holding' = Holding
        BY <1>3 DEF Holding
      <3>2. moves + (6 - r) + m <= 5 + MaxId
        BY <1>5, <2>1 DEF Spare
      <3> QED
        BY <1>2, <1>4, <1>5, <2>2, <3>1, <3>2 DEF Spare
    <2>4. moves' \in 0 .. 5 + MaxId
      BY <1>2, <1>4, <2>3 DEF Spare
    <2> QED
      BY <1>2, <2>3, <2>4 DEF Counting
  <1> QED
    BY <1>3, <1>6, <1>7, <1>8 DEF LInv, Blocked, FloorKept, Entry

LEMMA TerminatedStep ==
  ASSUME LInv, Terminated
  PROVE  LInv'
  <1>1. /\ job = Idle /\ UNCHANGED vars /\ walk.at = "terminate" /\ moves' = moves
        /\ IF Known(sessions, walk.session) THEN walk' = Off ELSE walk' = [at |-> "next"]
    BY DEF Terminated
  <1>2. CASE walk' = Off
    BY <1>1, <1>2, WalkOnly DEF Off, Walking
  <1>3. CASE ~Known(sessions, walk.session)
    <2>1. walk' = [at |-> "next"] /\ sessions' = sessions
      BY <1>1, <1>3 DEF vars
    <2>2. Spare(0, Holding \ {walk.session}) /\ moves \in 0 .. 5 + MaxId
      BY <1>1 DEF LInv, Counting
    <2>3. walk.session \notin Holding
      BY <1>3 DEF Holding, LiveIn, Known
    <2>4. Spare(0, Holding)'
      BY <1>1, <2>1, <2>2, <2>3 DEF Spare, Holding
    <2>5. NoneAbove(6)'
      <3> SUFFICES ASSUME NEW s \in LiveIn(sessions) PROVE ~Movable(s, sessions[s].rung + 1)
        BY <2>1 DEF NoneAbove, Movable
      <3>1. sessions[s].rung + 1 \in 0 .. 7
        BY LiveTerms DEF LInv
      <3> QED
        BY <1>1, <3>1 DEF LInv, LastResort
    <2>6. Counting'
      <3>1. Spare(6 - 6, Holding)'
        BY <2>4
      <3> QED
        BY <1>1, <2>1, <2>2, <2>5, <3>1 DEF Counting
    <2>7. Walking' /\ LastResort'
      BY <2>1 DEF Walking, LastResort
    <2> QED
      BY <1>1, <2>6, <2>7, SqueezeOnly
  <1> QED
    BY <1>1, <1>2, <1>3

\* Where deepen is, and where the rewrite of a session's blocks is.
LEMMA DeepeningNow ==
  ASSUME LInv, walk.at = "deepen"
  PROVE  walk.rung \in 1 .. 5 /\ NoneAbove(walk.rung) /\ Spare(5 - walk.rung, Holding)
  BY DEF LInv, Walking, ArrivingWalk, RewriteWalk, Off, Counting

LEMMA RewritingNow ==
  ASSUME LInv, walk.at = "rewrite"
  PROVE  RewriteWalk /\ NoneAbove(walk.rung) /\ Spare(5 - walk.rung, Holding)
  BY DEF LInv, Walking, ArrivingWalk, Off, Counting

\* The same sessions and moves, the walk at the same rung.
LEMMA SameRung ==
  ASSUME LInv, walk.at \in {"deepen", "rewrite"}, walk'.at \in {"deepen", "rewrite"},
         walk'.rung = walk.rung, moves' = moves, Lesser(sessions, sessions')
  PROVE  Counting' /\ LastResort'
  <1>1. PICK q : q = walk.rung
    OBVIOUS
  <1>2. NoneAbove(q) /\ Spare(5 - q, Holding) /\ moves \in 0 .. 5 + MaxId
    BY <1>1 DEF LInv, Counting
  <1>3. NoneAbove(q)' /\ Holding' \subseteq Holding
    BY <1>2, HoldingShrinks
  <1>4. Spare(5 - q, Holding)'
    BY <1>2, <1>3 DEF Spare
  <1> QED
    BY <1>1, <1>2, <1>3, <1>4 DEF Counting, LastResort

LEMMA DeepenSessionStep ==
  ASSUME LInv, NEW s \in SessionIds, DeepenSession(s)
  PROVE  LInv'
  <1> DEFINE left == {id \in Objects : id[1] = s /\ Entry(id)}
             coarsest == sessions[s].coarsest
  <1>1. /\ job = Idle /\ UNCHANGED vars /\ moves' = moves /\ walk.at = "deepen"
        /\ s \in LiveIn(sessions) /\ Movable(s, walk.rung)
        /\ walk' = [at |-> "rewrite", rung |-> walk.rung, session |-> s,
                    left |-> left, coarsest |-> coarsest]
    BY DEF DeepenSession
  <1>2. sessions' = sessions /\ table' = table /\ sessions \in [SessionIds -> Session]
    BY <1>1 DEF vars, LInv
  <1>3. walk.rung \in 1 .. 5
    BY <1>1, DeepeningNow
  <1>4. coarsest \in Precision /\ coarsest <= sessions[s].contract.floor /\ Known(sessions, s)
    BY <1>1, <1>2, LiveTerms DEF LInv, FloorKept
  <1>5. Quality(walk.rung) <= sessions[s].contract.floor
    BY <1>1 DEF Movable
  <1>6. left \in SUBSET Objects /\ \A id \in left : Entry(id) /\ id[1] = s
    OBVIOUS
  <1> HIDE DEF left, coarsest
  <1>7. /\ walk'.at = "rewrite" /\ walk'.rung = walk.rung /\ walk'.session = s
        /\ walk'.left = left /\ walk'.coarsest = coarsest
    BY <1>1
  <1>8. RewriteWalk'
    <2>1. walk' \in [at : {"rewrite"}, rung : 1 .. 5, session : SessionIds,
                     left : SUBSET Objects, coarsest : Precision]
      BY <1>1, <1>3, <1>4, <1>6
    <2>2. \A id \in left : Entry(id)' /\ id[1] = s
      BY <1>2, <1>6 DEF Entry
    <2> QED
      BY <1>2, <1>4, <1>5, <1>7, <2>1, <2>2 DEF RewriteWalk
  <1>9. Counting' /\ LastResort'
    BY <1>1, <1>2, <1>7, SameRung, SameLesser
  <1> QED
    BY <1>1, <1>8, <1>9, SqueezeOnly DEF Walking

LEMMA DeepenDoneStep ==
  ASSUME LInv, DeepenDone
  PROVE  LInv'
  <1>1. PICK q : q = walk.rung
    OBVIOUS
  <1>2. /\ job = Idle /\ UNCHANGED vars /\ moves' = moves /\ walk.at = "deepen"
        /\ walk' = [at |-> "next"] /\ \A s \in LiveIn(sessions) : ~Movable(s, q)
    BY <1>1 DEF DeepenDone
  <1>3. q \in 1 .. 5 /\ NoneAbove(q) /\ Spare(5 - q, Holding)
    BY <1>1, <1>2, DeepeningNow
  <1>4. sessions' = sessions /\ sessions \in [SessionIds -> Session]
    BY <1>2 DEF vars, LInv
  <1>5. NoneAbove(q + 1)'
    <2> SUFFICES ASSUME NEW s \in LiveIn(sessions), Movable(s, sessions[s].rung + 1)
                 PROVE  q + 1 <= sessions[s].rung + 1
      BY <1>4 DEF NoneAbove, Movable
    <2>1. sessions[s].rung \in 0 .. 5
      BY <1>4, LiveTerms
    <2>2. q <= sessions[s].rung + 1 /\ q # sessions[s].rung + 1
      BY <1>2, <1>3 DEF NoneAbove
    <2> QED
      BY <1>3, <2>1, <2>2
  <1>6. Spare(6 - (q + 1), Holding)'
    <2>1. 6 - (q + 1) = 5 - q
      BY <1>3
    <2>2. Spare(5 - q, Holding)'
      BY <1>2, <1>3, <1>4 DEF Spare, Holding
    <2> QED
      BY <2>1, <2>2
  <1>7. Counting'
    <2>1. q + 1 \in 1 .. 6
      BY <1>3
    <2>2. moves' \in 0 .. 5 + MaxId
      BY <1>2 DEF LInv, Counting
    <2> QED
      BY <1>2, <1>5, <1>6, <2>1, <2>2 DEF Counting
  <1>8. Walking' /\ LastResort'
    BY <1>2 DEF Walking, LastResort
  <1> QED
    BY <1>2, <1>7, <1>8, SqueezeOnly

LEMMA RewriteRefusedStep ==
  ASSUME LInv, NEW id \in Objects, RewriteRefused(id)
  PROVE  LInv'
  <1>1. /\ job = Idle /\ UNCHANGED vars /\ moves' = moves /\ walk.at = "rewrite"
        /\ walk' = [walk EXCEPT !.left = @ \ {id}]
    BY DEF RewriteRefused
  <1>2. sessions' = sessions /\ table' = table /\ sessions \in [SessionIds -> Session]
    BY <1>1 DEF vars, LInv
  <1>3. RewriteWalk
    BY <1>1, RewritingNow
  <1>4. RewriteWalk' /\ walk'.rung = walk.rung /\ walk'.at = "rewrite"
    BY <1>1, <1>2, <1>3 DEF RewriteWalk, Entry
  <1>5. Counting' /\ LastResort'
    BY <1>1, <1>2, <1>4, SameRung, SameLesser
  <1> QED
    BY <1>1, <1>4, <1>5, SqueezeOnly DEF Walking

LEMMA StepDoneStep ==
  ASSUME LInv, StepDone
  PROVE  LInv'
  <1>1. RewriteWalk /\ NoneAbove(walk.rung) /\ Spare(5 - walk.rung, Holding)
    BY RewritingNow DEF StepDone
  <1>2. PICK s, q, c : s = walk.session /\ q = walk.rung /\ c = walk.coarsest
    OBVIOUS
  <1>3. /\ s \in SessionIds /\ q \in 1 .. 5 /\ c \in Precision /\ Known(sessions, s)
        /\ s \in LiveIn(sessions) /\ c <= sessions[s].contract.floor
    BY <1>1, <1>2 DEF RewriteWalk, Known, LiveIn
  <1>4. sessions \in [SessionIds -> Session]
    BY DEF LInv
  <1> DEFINE old == sessions[s]
             deepest == Max({old.deepest, q})
             new == [old EXCEPT !.rung = q, !.coarsest = c, !.deepest = deepest]
  <1>5. old \in LiveRecord /\ old.deepest \in 0 .. 5
    BY <1>3, <1>4, LiveTerms
  <1>6. deepest \in 0 .. 5
    <2>1. PICK d : d = old.deepest
      OBVIOUS
    <2>2. d \in Nat /\ q \in Nat /\ d \in 0 .. 5
      BY <1>3, <1>5, <2>1
    <2>3. Max({d, q}) \in {d, q}
      BY <2>2, MaxOfTwo
    <2> QED
      BY <1>3, <2>1, <2>2, <2>3
  <1>7. /\ job = Idle /\ job' = Idle /\ table' = table /\ moves' = moves
        /\ sessions' = [sessions EXCEPT ![s] = new]
        /\ walk' = [at |-> "deepen", rung |-> q]
    BY <1>2 DEF StepDone
  <1> HIDE DEF deepest
  <1>8. /\ new \in LiveRecord /\ new.live = TRUE /\ new.contract = old.contract
        /\ new.rung = q /\ new.coarsest = c
    <2> HIDE DEF old
    <2>1. q \in 0 .. 5
      BY <1>3
    <2> QED
      BY <1>3, <1>5, <1>6, <2>1 DEF LiveRecord
  <1> HIDE DEF new
  <1>9. sessions' \in [SessionIds -> Session]
    BY <1>3, <1>4, <1>7, <1>8 DEF Session, LiveRecord
  <1>10. sessions'[s] = new /\ \A r \in SessionIds : r # s => sessions'[r] = sessions[r]
    BY <1>3, <1>4, <1>7
  <1>11. LiveIn(sessions') = LiveIn(sessions)
    BY <1>3, <1>8, <1>10 DEF LiveIn
  <1>12. Blocked'
    BY <1>7, <1>11 DEF LInv, Blocked, Entry, Known, LiveIn
  <1>13. FloorKept'
    <2> SUFFICES ASSUME NEW r \in LiveIn(sessions)
                 PROVE  /\ sessions'[r].coarsest <= sessions'[r].contract.floor
                        /\ \A id \in Objects : id[1] = r /\ Entry(id) =>
                             table[id].precision <= sessions'[r].contract.floor
      BY <1>7, <1>11 DEF FloorKept, Entry
    <2>1. r \in SessionIds
      BY DEF LiveIn
    <2>2. CASE r = s
      BY <1>3, <1>8, <1>10, <2>2 DEF LInv, FloorKept
    <2>3. CASE r # s
      BY <1>10, <2>1, <2>3 DEF LInv, FloorKept
    <2> QED
      BY <2>2, <2>3
  <1>14. Counting' /\ LastResort'
    <2>1. NoneAbove(q)'
      <3> SUFFICES ASSUME NEW r \in LiveIn(sessions), Movable(r, sessions[r].rung + 1)'
                   PROVE  q <= sessions'[r].rung + 1
        BY <1>11 DEF NoneAbove
      <3>1. r \in SessionIds
        BY DEF LiveIn
      <3>2. CASE r = s
        BY <1>3, <1>8, <1>10, <3>2
      <3>3. CASE r # s
        <4>1. sessions'[r] = sessions[r]
          BY <1>10, <3>1, <3>3
        <4>2. Movable(r, sessions[r].rung + 1)
          BY <4>1 DEF Movable
        <4> QED
          BY <1>1, <1>2, <4>1, <4>2 DEF NoneAbove
      <3> QED
        BY <3>2, <3>3
    <2>2. Holding' = Holding
      <3>1. \A r \in LiveIn(sessions) : sessions'[r].contract = sessions[r].contract
        BY <1>8, <1>10 DEF LiveIn
      <3> QED
        BY <1>11, <3>1 DEF Holding
    <2>3. Spare(5 - q, Holding)' /\ moves' \in 0 .. 5 + MaxId
      BY <1>1, <1>2, <1>7, <2>2 DEF Spare, LInv, Counting
    <2> QED
      BY <1>7, <2>1, <2>3 DEF Counting, LastResort
  <1>15. Walking'
    BY <1>3, <1>7 DEF Walking
  <1> QED
    BY <1>7, <1>9, <1>12, <1>13, <1>14, <1>15 DEF LInv, Calling

\* The sizes rewrite computes.
LEMMA FateBytesTyped ==
  ASSUME NEW fate \in Precision \cup {Summary}, NEW full \in Nat
  PROVE  FateBytes(fate, full) \in Nat
  <1>1. FatePrecision(fate) \in 1 .. 6
    BY DEF FatePrecision, Precision, Summary, Q4
  <1>2. PICK p \in 1 .. 6 : p = FatePrecision(fate)
    BY <1>1
  <1>3. Bits[p] \in Nat
    <2>1. Bits[1] = 16 /\ Bits[2] = 16 /\ Bits[3] = 8 /\ Bits[4] = 4 /\ Bits[5] = 3 /\ Bits[6] = 2
      BY DEF Bits
    <2>2. p = 1 \/ p = 2 \/ p = 3 \/ p = 4 \/ p = 5 \/ p = 6
      OBVIOUS
    <2> QED
      BY <2>1, <2>2
  <1>4. PICK n \in Nat : n = full * Bits[p]
    BY <1>3
  <1>5. n \div 16 \in Nat
    OBVIOUS
  <1>6. fate # Dropped
    BY DEF Dropped, Precision, Summary
  <1> QED
    BY <1>2, <1>4, <1>5, <1>6 DEF FateBytes

LEMMA RewrittenTyped ==
  ASSUME LInv, NEW id \in Objects, Entry(id), NEW fate \in Precision \cup {Summary}
  PROVE  Rewritten(id, fate) \in Nat /\ Rewritten(id, fate) <= table[id].size
  <1>1. PICK size \in Nat, precision \in Precision : size = table[id].size /\ precision = table[id].precision
    BY BlockEntry
  <1>2. PICK b \in Nat : b = FateBytes(precision, 16)
    BY FateBytesTyped
  <1>3. PICK d \in Nat : d = Max({1, b}) /\ d >= 1
    BY MaxOfTwo
  <1>4. PICK full \in Nat : full = (16 * size) \div d
    <2>1. PICK n \in Nat : n = 16 * size
      OBVIOUS
    <2>2. n \div d \in Nat
      BY <1>3
    <2> QED
      BY <2>1, <2>2
  <1>5. PICK new \in Nat : new = FateBytes(fate, full)
    BY FateBytesTyped
  <1>6. Rewritten(id, fate) = Min({new, size})
    BY <1>1, <1>2, <1>3, <1>4, <1>5 DEF Rewritten
  <1>7. Min({new, size}) \in {new, size} /\ \A z \in {new, size} : Min({new, size}) <= z
    BY LeastMember
  <1> QED
    BY <1>1, <1>6, <1>7

\* A rewrite of a kept block: the entry gets its size and its precision, and
\* the owner at most some bytes back.
LEMMA KeptBlock ==
  ASSUME LInv, NEW id \in Objects, Entry(id), NEW fate \in Precision \cup {Summary},
         FatePrecision(fate) \in Precision, RewriteKept(id, fate)
  PROVE  /\ Lesser(sessions, sessions') /\ LiveIn(sessions') = LiveIn(sessions)
         /\ IsTable(table')
         /\ table'[id] # NoMeta /\ table'[id].owner = table[id].owner
         /\ table'[id].precision = FatePrecision(fate) /\ table'[id].size = Rewritten(id, fate)
         /\ \A o \in Objects : o # id => table'[o] = table[o]
  <1>1. PICK size \in Nat : size = Rewritten(id, fate) /\ size <= table[id].size
    BY RewrittenTyped
  <1>2. IsBlock(table[id]) /\ table[id].size \in Nat
    BY BlockEntry
  <1>3. sessions \in [SessionIds -> Session] /\ IsTable(table)
    BY DEF LInv, Blocked
  <1>4. Lesser(sessions, sessions') /\ LiveIn(sessions') = LiveIn(sessions)
    <2>1. \/ sessions' = sessions
          \/ sessions' = Credit(sessions, table[id].owner, table[id].size - size)
      BY <1>1 DEF RewriteKept
    <2>2. table[id].size - size \in Nat
      BY <1>1, <1>2
    <2> QED
      BY <1>3, <2>1, <2>2, CreditTerms, SameLesser
  <1> DEFINE precision == FatePrecision(fate)
             e == Resized(table[id], size, precision)
  <1>5. table' = [table EXCEPT ![id] = e]
    BY <1>1 DEF RewriteKept, Resized
  <1> HIDE DEF precision
  <1>6. IsBlock(e) /\ e.owner = table[id].owner /\ e.precision = precision /\ e.size = size
    BY <1>2, BlockRewritten DEF precision
  <1>7. e # NoMeta
    BY <1>6, BlockFields
  <1> HIDE DEF e
  <1>8. IsTable(table') /\ table'[id] = e /\ \A o \in Objects : o # id => table'[o] = table[o]
    BY <1>3, <1>5, <1>6, TableWritten
  <1> QED
    BY <1>1, <1>4, <1>6, <1>7, <1>8 DEF precision

LEMMA RewriteStep ==
  ASSUME LInv, NEW id \in Objects, Rewrite(id)
  PROVE  LInv'
  <1>1. RewriteWalk /\ walk.at = "rewrite" /\ id \in walk.left
    BY RewritingNow DEF Rewrite
  <1>2. PICK s, q, blocks, fate : /\ s = walk.session /\ q = walk.rung
                                  /\ blocks = Blocks(sessions[walk.session].contract.context)
                                  /\ fate = Fate(walk.rung, id[2], blocks)
    OBVIOUS
  <1>3. /\ s \in SessionIds /\ q \in 1 .. 5 /\ Entry(id) /\ id[1] = s /\ s \in LiveIn(sessions)
        /\ Quality(q) <= sessions[s].contract.floor
        /\ walk.coarsest \in Precision /\ walk.coarsest <= sessions[s].contract.floor
    BY <1>1, <1>2 DEF RewriteWalk, Known, LiveIn
  <1>4. sessions \in [SessionIds -> Session]
    BY DEF LInv
  <1>5. blocks \in Int /\ id[2] \in Nat /\ sessions[s].contract.floor \in 1 .. 6
    <2>1. sessions[s].contract.context \in Nat /\ sessions[s].contract.floor \in Precision
      BY <1>3, <1>4, LiveTerms
    <2>2. id \in SessionIds \X Nat
      BY LadderAssumption
    <2> QED
      BY <1>2, <2>1, <2>2, BlocksCounted DEF Precision
  <1>6. job = Idle /\ job' = Idle /\ moves' = moves
    BY DEF Rewrite
  <1>7. CASE fate = Dropped
    <2>1. RewriteDropped(id) /\ walk' = [walk EXCEPT !.left = @ \ {id}]
      BY <1>2, <1>7 DEF Rewrite
    <2>2. /\ Lesser(sessions, sessions') /\ LiveIn(sessions') = LiveIn(sessions) /\ FewerBlocks
          /\ \A o \in Objects : o # id => (Entry(o)' <=> Entry(o))
      <3>1. CASE Evict(id, NoMeta)
        BY <3>1, EvictBlocks
      <3>2. CASE ~Evict(id, NoMeta)
        <4>1. table' = [table EXCEPT ![id] = NoMeta] /\ sessions' = sessions
          BY <2>1, <3>2 DEF RewriteDropped
        <4> QED
          BY <1>3, <1>4, <4>1, BlockWritten, SameLesser
      <3> QED
        BY <3>1, <3>2
    <2>3. RewriteWalk' /\ walk'.at = "rewrite" /\ walk'.rung = walk.rung
      <3>1. /\ walk' \in [at : {"rewrite"}, rung : 1 .. 5, session : SessionIds,
                          left : SUBSET Objects, coarsest : Precision]
            /\ walk'.session = walk.session /\ walk'.rung = walk.rung /\ walk'.at = "rewrite"
            /\ walk'.left = walk.left \ {id} /\ walk'.coarsest = walk.coarsest
            /\ walk.left \subseteq Objects
        BY <1>1, <2>1 DEF RewriteWalk
      <3>2. sessions'[s].contract = sessions[s].contract /\ Known(sessions', s)
        BY <1>3, <2>2 DEF Lesser, LiveIn, Known
      <3>3. \A o \in walk'.left : Entry(o)' /\ o[1] = s
        BY <1>1, <1>2, <2>2, <3>1 DEF RewriteWalk
      <3> QED
        BY <1>2, <1>3, <3>1, <3>2, <3>3 DEF RewriteWalk
    <2>4. Counting' /\ LastResort'
      BY <1>1, <1>6, <2>2, <2>3, SameRung
    <2> QED
      BY <1>6, <2>2, <2>3, <2>4, BlocksFrame DEF LInv, Walking, Calling
  <1>8. CASE fate # Dropped
    <2> DEFINE p == FatePrecision(fate)
    <2>1. p \in Precision /\ p <= Quality(q) /\ fate \in {Fp16, Q8, Q4, Summary}
      BY <1>2, <1>3, <1>5, <1>8, FateFine
    <2>2. fate \in Precision \cup {Summary}
      BY <2>1 DEF Precision, Fp16, Q8, Q4
    <2>3. p \in 1 .. 6 /\ p <= sessions[s].contract.floor
      <3>1. Quality(q) \in Nat
        BY <1>3, QualityRises
      <3> QED
        BY <1>3, <1>5, <2>1, <3>1 DEF Precision
    <2>4. RewriteKept(id, fate) /\ walk' = [walk EXCEPT !.left = @ \ {id}, !.coarsest = Max({@, p})]
      BY <1>2, <1>8 DEF Rewrite
    <2>5. /\ Lesser(sessions, sessions') /\ LiveIn(sessions') = LiveIn(sessions)
          /\ IsTable(table')
          /\ table'[id] # NoMeta /\ table'[id].owner = table[id].owner /\ table'[id].precision = p
          /\ \A o \in Objects : o # id => table'[o] = table[o]
      BY <1>3, <2>1, <2>2, <2>4, KeptBlock
    <2> DEFINE worst == Max({walk.coarsest, p})
    <2>6. worst \in Precision /\ worst <= sessions[s].contract.floor
      <3>1. PICK c \in Nat : c = walk.coarsest /\ c \in 1 .. 6
        BY <1>3 DEF Precision
      <3>2. PICK r \in Nat : r = p /\ r \in 1 .. 6
        BY <2>3
      <3>3. Max({c, r}) \in {c, r}
        BY MaxOfTwo
      <3> QED
        BY <1>3, <2>3, <3>1, <3>2, <3>3 DEF Precision
    <2>7. walk' = [walk EXCEPT !.left = @ \ {id}, !.coarsest = worst]
      BY <2>4
    <2> HIDE DEF p, worst
    <2>8. RewriteWalk' /\ walk'.at = "rewrite" /\ walk'.rung = walk.rung
      <3>1. /\ walk' \in [at : {"rewrite"}, rung : 1 .. 5, session : SessionIds,
                          left : SUBSET Objects, coarsest : Precision]
            /\ walk'.session = walk.session /\ walk'.rung = walk.rung /\ walk'.at = "rewrite"
            /\ walk'.left = walk.left \ {id} /\ walk'.coarsest = worst
            /\ walk.left \subseteq Objects
        BY <1>1, <2>6, <2>7 DEF RewriteWalk
      <3>2. sessions'[s].contract = sessions[s].contract /\ Known(sessions', s)
        BY <1>3, <2>5 DEF Lesser, LiveIn, Known
      <3>3. \A o \in walk'.left : Entry(o)' /\ o[1] = s
        BY <1>1, <1>2, <2>5, <3>1 DEF RewriteWalk, Entry
      <3> QED
        BY <1>2, <1>3, <2>6, <3>1, <3>2, <3>3 DEF RewriteWalk
    <2>9. Counting' /\ LastResort'
      BY <1>1, <1>6, <2>5, <2>8, SameRung
    <2>10. Blocked'
      <3> SUFFICES ASSUME NEW o \in Objects, Entry(o)'
                   PROVE  table'[o].owner = o[1] /\ Known(sessions', o[1])
        BY <2>5 DEF Blocked
      <3>1. Entry(o) /\ table'[o].owner = table[o].owner
        BY <1>3, <2>5 DEF Entry
      <3>2. table[o].owner = o[1] /\ o[1] \in LiveIn(sessions)
        BY <3>1, BlockEntry
      <3> QED
        BY <2>5, <3>1, <3>2 DEF Known, LiveIn
    <2>11. FloorKept'
      <3> SUFFICES ASSUME NEW r \in LiveIn(sessions)
                   PROVE  /\ sessions'[r].coarsest <= sessions'[r].contract.floor
                          /\ \A o \in Objects : o[1] = r /\ Entry(o)' =>
                               table'[o].precision <= sessions'[r].contract.floor
        BY <2>5 DEF FloorKept, Entry
      <3>1. sessions'[r].coarsest = sessions[r].coarsest /\ sessions'[r].contract = sessions[r].contract
        BY <2>5 DEF Lesser
      <3>2. sessions[r].coarsest <= sessions[r].contract.floor
        BY DEF LInv, FloorKept
      <3>3. ASSUME NEW o \in Objects, o[1] = r, Entry(o)'
            PROVE  table'[o].precision <= sessions[r].contract.floor
        <4>1. CASE o = id
          BY <1>3, <2>3, <2>5, <3>3, <4>1
        <4>2. CASE o # id
          BY <2>5, <3>3, <4>2 DEF LInv, FloorKept, Entry
        <4> QED
          BY <4>1, <4>2
      <3> QED
        BY <3>1, <3>2, <3>3
    <2> QED
      BY <1>6, <2>5, <2>8, <2>9, <2>10, <2>11 DEF LInv, Walking, Calling, Lesser
  <1> QED
    BY <1>7, <1>8

-----------------------------------------------------------------------------
(* The ladder. *)

LEMMA LadderStarts == LadderInit => LInv
  <1> SUFFICES ASSUME LadderInit PROVE LInv
    OBVIOUS
  <1>1. /\ table = [id \in Objects |-> NoMeta] /\ sessions = NoSessions
        /\ job = Idle /\ walk = Off /\ moves = 0
    BY DEF LadderInit, Init
  <1>2. \A id \in Objects : ~Entry(id)
    BY <1>1 DEF Entry
  <1>3. LiveIn(sessions) = {}
    BY <1>1 DEF LiveIn, NoSessions, NoSession
  <1>4. sessions \in [SessionIds -> Session]
    BY <1>1 DEF NoSessions, Session
  <1>5. Blocked
    <2>1. IsTable(table)
      BY <1>1 DEF IsTable
    <2> QED
      BY <1>2, <2>1 DEF Blocked
  <1>6. Counting
    BY <1>1, MaxIdAssumption DEF Counting, Off
  <1> QED
    BY <1>1, <1>3, <1>4, <1>5, <1>6 DEF LInv, Walking, Calling, FloorKept, LastResort, Off

LEMMA LadderSteps == LInv /\ [LadderNext]_ladderVars => LInv'
  <1> SUFFICES ASSUME LInv, [LadderNext]_ladderVars PROVE LInv'
    OBVIOUS
  <1>1. CASE JobStep /\ UNCHANGED <<budget, walk, fitted, skipped, moves, calls>>
    BY <1>1, JobSteps
  <1>2. CASE WalkStep
    <2>1. CASE \E id \in Objects : \E template \in Templates[id] :
                 walk.at = "register" /\ id = <<walk.session, walk.block>> /\ ArriveRegister(template)
      BY <2>1, ArriveRegisterStep
    <2>2. CASE ArriveConsume \/ ArrivePlaced \/ ArriveDone
      BY <2>2, ArriveConsumeStep, ArriveEnds
    <2>3. CASE SqueezeFits \/ SqueezeDeepen \/ SqueezeTerminate \/ Terminated
      BY <2>3, SqueezeFitsStep, SqueezeDeepenStep, SqueezeTerminateStep, TerminatedStep
    <2>4. CASE DeepenDone \/ StepDone \/ \E s \in SessionIds : DeepenSession(s)
      BY <2>4, DeepenDoneStep, StepDoneStep, DeepenSessionStep
    <2>5. CASE \E id \in Objects : Rewrite(id) \/ RewriteRefused(id)
      BY <2>5, RewriteStep, RewriteRefusedStep
    <2> QED
      BY <1>2, <2>1, <2>2, <2>3, <2>4, <2>5 DEF WalkStep
  <1>3. CASE \E contract \in Contracts : Arrive(contract)
    BY <1>3, ArriveStep
  <1>4. CASE \E bytes \in Budgets : Squeeze(bytes)
    BY <1>4, SqueezeStep
  <1>5. CASE /\ walk = Off
             /\ \/ \E p \in Providers : Attach(p)
                \/ \E id \in Objects : Consume(id)
             /\ UNCHANGED <<budget, walk, fitted, skipped, moves, calls>>
    BY <1>5, BetweenWalks
  <1>6. CASE \E s \in SessionIds : EndSession(s)
    BY <1>6, BetweenWalks DEF EndSession
  <1>7. CASE UNCHANGED ladderVars
    <2>1. UNCHANGED <<table, sessions, job, walk, moves>>
      BY <1>7 DEF ladderVars, vars
    <2> QED
      BY <2>1 DEF LInv, Blocked, Entry, Walking, ArrivingWalk, RewriteWalk, Calling, Counting,
                  NoneAbove, Spare, Holding, Movable, FloorKept, LastResort
  <1> QED
    BY <1>1, <1>2, <1>3, <1>4, <1>5, <1>6, <1>7 DEF LadderNext

LEMMA LadderInductive == LadderSpec => []LInv
  BY LadderStarts, LadderSteps, PTL DEF LadderSpec

\* However deep the walk goes, and whoever arrives, faults, or is refused by
\* the arena in between: no block of a live session, and nothing it was
\* delivered, is coarser than the quality its contract permits.
THEOREM FloorsHold == LadderSpec => []FloorKept
  <1>1. LInv => FloorKept
    BY DEF LInv
  <1> QED
    BY <1>1, LadderInductive, PTL

\* squeeze terminates a session only when no live session could be moved to
\* any rung, and while that session's objects go, none can be moved still.
THEOREM TerminationIsLast == LadderSpec => []LastResort
  <1>1. LInv => LastResort
    BY DEF LInv
  <1> QED
    BY <1>1, LadderInductive, PTL

\* squeeze never makes more moves than there are rungs to go down and session
\* ids to terminate: its loop ends, also where the arena refuses.
THEOREM SqueezeBounded == LadderSpec => []WalkEnds
  <1>1. LInv => WalkEnds
    BY MaxIdAssumption DEF LInv, Counting, WalkEnds
  <1> QED
    BY <1>1, LadderInductive, PTL
-----------------------------------------------------------------------------
(* The plan and the table: a second invariant, over the first. *)

\* The rung whose fates a block is at: its session's, or, once a rewrite has
\* met it, the one the session is on its way to.
RungOf(id) ==
  IF walk.at = "rewrite" /\ walk.session = id[1] /\ id \notin walk.left
  THEN walk.rung ELSE sessions[id[1]].rung

\* A block is there, at the precision of its fate, and no larger.
AsPlanned(e, at, rung, context) ==
  LET fate == Fate(rung, at, Blocks(context))
  IN  /\ at < Blocks(context) /\ fate # Dropped
      /\ e.precision = FatePrecision(fate)
      /\ e.size <= FateBytes(fate, FullBytes(at, context, KvPerToken))
ContextOf(id) == sessions[id[1]].contract.context
Planned(id) == AsPlanned(table[id], id[2], RungOf(id), ContextOf(id))

PInv ==
  /\ LInv
  /\ \A s \in LiveIn(sessions) : sessions[s].contract \in Contracts
  /\ walk.at \in {"register", "consume", "placed"} => sessions[walk.session].rung = 0
  /\ \A id \in Objects : Entry(id) /\ id[1] \notin skipped => Planned(id)

\* The bits of each precision.
LEMMA BitsOf ==
  ASSUME NEW p \in Precision
  PROVE  Bits[p] \in {16, 8, 4, 3, 2} /\ FatePrecision(p) = p /\ p # Dropped
  <1>1. p = 1 \/ p = 2 \/ p = 3 \/ p = 4 \/ p = 5 \/ p = 6
    BY DEF Precision
  <1>2. Bits[1] = 16 /\ Bits[2] = 16 /\ Bits[3] = 8 /\ Bits[4] = 4 /\ Bits[5] = 3 /\ Bits[6] = 2
    BY DEF Bits
  <1> QED
    BY <1>1, <1>2 DEF FatePrecision, Summary, Dropped

\* What a fate that is not Dropped keeps of a block, in bits.
LEMMA FateBits ==
  ASSUME NEW fate, fate # Dropped, FatePrecision(fate) \in Precision, NEW full \in Nat
  PROVE  \E b \in {16, 8, 4, 3, 2} :
           /\ b = Bits[FatePrecision(fate)]
           /\ FateBytes(fate, full) = (full * b) \div 16
  BY BitsOf DEF FateBytes

\* A block's bytes at full precision are recovered from its size, rounded
\* down, and then given a fate: never more than the fate's bytes of the whole.
LEMMA RecoveredBytes ==
  ASSUME NEW size \in Nat, NEW full \in Nat, NEW b \in {16, 8, 4, 3, 2}, size <= (full * b) \div 16
  PROVE  (16 * size) \div b \in 0 .. full
  <1>1. CASE b = 16
    BY <1>1
  <1>2. CASE b = 8
    BY <1>2
  <1>3. CASE b = 4
    BY <1>3
  <1>4. CASE b = 3
    BY <1>4
  <1>5. CASE b = 2
    BY <1>5
  <1> QED
    BY <1>1, <1>2, <1>3, <1>4, <1>5

LEMMA FateBytesRise ==
  ASSUME NEW less \in Nat, NEW full \in Nat, less <= full, NEW b \in {16, 8, 4, 3, 2}
  PROVE  /\ (less * b) \div 16 \in Nat /\ (full * b) \div 16 \in Nat
         /\ (less * b) \div 16 <= (full * b) \div 16 /\ (full * b) \div 16 <= full
  <1>1. CASE b = 16
    BY <1>1
  <1>2. CASE b = 8
    BY <1>2
  <1>3. CASE b = 4
    BY <1>3
  <1>4. CASE b = 3
    BY <1>4
  <1>5. CASE b = 2
    BY <1>5
  <1> QED
    BY <1>1, <1>2, <1>3, <1>4, <1>5

LEMMA RewrittenBounded ==
  ASSUME NEW id \in Objects, NEW full \in Nat, NEW old, NEW fate,
         table[id].size \in Nat, table[id].precision \in Precision,
         old # Dropped, table[id].precision = FatePrecision(old),
         table[id].size <= FateBytes(old, full),
         fate # Dropped, FatePrecision(fate) \in Precision
  PROVE  Rewritten(id, fate) <= FateBytes(fate, full)
  <1>1. PICK size \in Nat, p \in Precision : size = table[id].size /\ p = table[id].precision
    OBVIOUS
  <1>2. PICK b \in {16, 8, 4, 3, 2} : b = Bits[p] /\ size <= (full * b) \div 16
    BY <1>1, FateBits
  <1>3. FateBytes(p, 16) = b
    <2>1. FateBytes(p, 16) = (16 * b) \div 16
      BY <1>2, BitsOf DEF FateBytes
    <2>2. (16 * b) \div 16 = b
      OBVIOUS
    <2> QED
      BY <2>1, <2>2
  <1>4. Max({1, b}) = b
    <2>1. b \in Nat /\ b >= 1
      OBVIOUS
    <2>2. Max({1, b}) \in {1, b} /\ Max({1, b}) >= b
      BY <2>1, MaxOfTwo
    <2> QED
      BY <2>1, <2>2
  <1>5. PICK part \in 0 .. full : part = (16 * size) \div b
    BY <1>2, RecoveredBytes
  <1>6. Rewritten(id, fate) = Min({FateBytes(fate, part), size})
    BY <1>1, <1>3, <1>4, <1>5 DEF Rewritten
  <1>7. PICK c \in {16, 8, 4, 3, 2} :
          FateBytes(fate, full) = (full * c) \div 16 /\ FateBytes(fate, part) = (part * c) \div 16
    <2>1. PICK c \in {16, 8, 4, 3, 2} :
            c = Bits[FatePrecision(fate)] /\ FateBytes(fate, full) = (full * c) \div 16
      BY FateBits
    <2>2. part \in Nat
      BY <1>5
    <2>3. FateBytes(fate, part) = (part * c) \div 16
      BY <2>1, <2>2, FateBits, Zenon
    <2> QED
      BY <2>1, <2>3
  <1>8. /\ FateBytes(fate, part) \in Nat /\ FateBytes(fate, full) \in Nat
        /\ FateBytes(fate, part) <= FateBytes(fate, full)
    <2>1. part \in Nat /\ part <= full
      BY <1>5
    <2>2. /\ (part * c) \div 16 \in Nat /\ (full * c) \div 16 \in Nat
          /\ (part * c) \div 16 <= (full * c) \div 16
      BY <2>1, FateBytesRise
    <2> QED
      BY <1>7, <2>2, Zenon
  <1>9. PICK new \in Nat : new = FateBytes(fate, part)
    BY <1>8
  <1>10. Min({new, size}) \in {new, size} /\ \A z \in {new, size} : Min({new, size}) <= z
    BY LeastMember
  <1>11. PICK all \in Nat : all = FateBytes(fate, full)
    BY <1>8
  <1>12. Min({new, size}) <= new /\ new <= all /\ Min({new, size}) \in Nat
    BY <1>8, <1>9, <1>10, <1>11
  <1> QED
    BY <1>6, <1>9, <1>11, <1>12
\* A step that only eases sessions and table, and does not begin or end a
\* rewrite, leaves every block as planned.
LEMMA AlikePlanned ==
  ASSUME NEW e, NEW new, Alike(new, e), NEW at, NEW rung, NEW context, AsPlanned(e, at, rung, context)
  PROVE  AsPlanned(new, at, rung, context)
  BY DEF Alike, AsPlanned

LEMMA PlanFrame ==
  ASSUME PInv, LInv', Softly, skipped' = skipped,
         walk' = walk \/ (walk.at # "rewrite" /\ walk'.at # "rewrite"),
         walk'.at \in {"register", "consume", "placed"} =>
           walk.at \in {"register", "consume", "placed"} /\ walk'.session = walk.session
  PROVE  PInv'
  <1>1. \A s \in LiveIn(sessions') : sessions'[s].contract \in Contracts
    BY DEF PInv, Softly, SameTerms
  <1>2. ASSUME walk'.at \in {"register", "consume", "placed"}
        PROVE  sessions'[walk'.session].rung = 0
    <2>1. (LInv /\ walk.at \in {"register", "consume", "placed"} => ArrivingWalk)'
      BY ArrivingNow, PTL
    <2>2. walk'.session \in LiveIn(sessions')
      BY <1>2, <2>1 DEF ArrivingWalk, Known, LiveIn
    <2> QED
      BY <1>2, <2>2 DEF PInv, Softly, SameTerms
  <1>3. ASSUME NEW id \in Objects, Entry(id)', id[1] \notin skipped PROVE Planned(id)'
    <2>1. Entry(id) /\ Alike(table'[id], table[id]) /\ id[1] \in LiveIn(sessions')
      BY <1>3 DEF Softly, FewerBlocks, Known, LiveIn
    <2>2. sessions'[id[1]].contract = sessions[id[1]].contract /\ sessions'[id[1]].rung = sessions[id[1]].rung
      BY <2>1 DEF Softly, SameTerms
    <2>3. RungOf(id)' = RungOf(id) /\ ContextOf(id)' = ContextOf(id)
      BY <2>2 DEF RungOf, ContextOf
    <2>4. AsPlanned(table[id], id[2], RungOf(id), ContextOf(id))
      BY <1>3, <2>1 DEF PInv, Planned
    <2>5. AsPlanned(table'[id], id[2], RungOf(id), ContextOf(id))
      BY <2>1, <2>4, AlikePlanned
    <2>6. AsPlanned(table'[id], id[2], RungOf(id)', ContextOf(id)')
      BY <2>3, <2>5
    <2> QED
      BY <2>6 DEF Planned, AsPlanned
  <1> QED
    BY <1>1, <1>2, <1>3 DEF PInv

LEMMA PlanArrive ==
  ASSUME PInv, LInv', NEW contract \in Contracts, Arrive(contract)
  PROVE  PInv'
  <1> DEFINE s == LowestFree(sessions)
  <1>1. /\ s \in SessionIds /\ ~Known(sessions, s) /\ table' = table
        /\ sessions' = Adopt(sessions, s, contract)
        /\ walk = Off /\ walk' = Arriving("register", s, 0)
        /\ skipped' = skipped \ {s}
    BY DEF Arrive, CreateSession, Adoptable
  <1>2. contract \in Contract
    BY ManagerAssumption
  <1>3. sessions \in [SessionIds -> Session]
    BY DEF PInv, LInv
  <1> HIDE DEF s
  <1>4. /\ \A r : Known(sessions', r) <=> Known(sessions, r) \/ r = s
        /\ \A r \in SessionIds : r # s => sessions'[r] = sessions[r]
    BY <1>1, <1>2, <1>3, AdoptKeeps
  <1>5. sessions'[s].rung = 0 /\ sessions'[s].contract = contract
    BY <1>1, <1>3 DEF Adopt
  <1>6. walk.at = "off" /\ walk'.at = "register" /\ walk'.session = s
    BY <1>1 DEF Off, Arriving
  <1>7. \A r \in LiveIn(sessions') : sessions'[r].contract \in Contracts
    <2> SUFFICES ASSUME NEW r \in LiveIn(sessions'), r # s PROVE sessions'[r].contract \in Contracts
      BY <1>5
    <2>1. r \in LiveIn(sessions) /\ sessions'[r] = sessions[r]
      BY <1>4 DEF LiveIn, Known
    <2> QED
      BY <2>1 DEF PInv
  <1>8. ASSUME NEW id \in Objects, Entry(id)', id[1] \notin skipped' PROVE Planned(id)'
    <2>1. Entry(id)
      BY <1>1, <1>8 DEF Entry
    <2>2. id[1] \in LiveIn(sessions) /\ id[1] \in SessionIds
      BY <2>1, BlockEntry DEF PInv
    <2>3. id[1] # s
      BY <1>1, <2>2 DEF LiveIn, Known
    <2>4. sessions'[id[1]] = sessions[id[1]]
      BY <1>4, <2>2, <2>3
    <2>5. Planned(id)
      BY <1>1, <1>8, <2>1, <2>3 DEF PInv
    <2> QED
      BY <1>1, <1>6, <2>4, <2>5 DEF Planned, AsPlanned, RungOf, ContextOf
  <1> QED
    BY <1>5, <1>6, <1>7, <1>8 DEF PInv

\* On rung zero every block is kept whole.
LEMMA WholeFate ==
  ASSUME NEW at \in Nat, NEW blocks \in Int, NEW full \in Nat
  PROVE  /\ Fate(0, at, blocks) = Fp16 /\ Fp16 # Dropped /\ FatePrecision(Fp16) = 1
         /\ FateBytes(Fp16, full) = full
  <1>1. Fate(0, at, blocks) = Fp16
    BY DEF Fate
  <1>2. (full * 16) \div 16 = full
    OBVIOUS
  <1>3. Bits[1] = 16
    BY DEF Bits
  <1> QED
    BY <1>1, <1>2, <1>3 DEF FateBytes, FatePrecision, Fp16, Dropped, Summary

LEMMA PlanRegister ==
  ASSUME PInv, LInv', NEW id \in Objects, NEW template \in Templates[id], walk.at = "register",
         id = <<walk.session, walk.block>>, ArriveRegister(template)
  PROVE  PInv'
  <1>1. ArrivingWalk
    BY ArrivingNow DEF PInv
  <1>2. PICK s \in SessionIds, at \in Nat, context \in Contexts :
          /\ s = walk.session /\ at = walk.block /\ context = sessions[s].contract.context
          /\ s \in LiveIn(sessions)
    <2>1. walk.session \in SessionIds /\ walk.block \in Nat /\ walk.session \in LiveIn(sessions)
      BY <1>1 DEF ArrivingWalk, Known, LiveIn
    <2>2. sessions[walk.session].contract.context \in Contexts
      BY <2>1 DEF PInv, Contexts
    <2> QED
      BY <2>1, <2>2
  <1>3. id[1] = s /\ id[2] = at
    BY <1>2
  <1>4. sessions \in [SessionIds -> Session] /\ IsTable(table) /\ sessions[s].rung = 0
    BY <1>2 DEF PInv, LInv, Blocked
  <1>5. context \in Nat
    BY <1>2, <1>4, LiveTerms
  <1>6. template \in Meta /\ template.precision = 1 /\ template.size = KvPerToken /\ KvPerToken \in Nat
    BY TemplatesAssumption, LadderAssumption
  <1>7. PICK full \in Nat : full = FullBytes(at, context, KvPerToken)
    BY <1>2, <1>5, <1>6, FullBytesTyped
  <1> DEFINE e == [template EXCEPT !.owner = s, !.size = full]
  <1>8. /\ at < Blocks(context) /\ sessions' = sessions /\ skipped' = skipped
        /\ table' = [table EXCEPT ![id] = e] /\ walk' = [walk EXCEPT !.at = "consume"]
    BY <1>2, <1>6, <1>7 DEF ArriveRegister, Register
  <1>9. e.precision = 1 /\ e.size = full
    BY <1>6, <1>7 DEF Meta
  <1> HIDE DEF e
  <1>10. table'[id] = e /\ \A o \in Objects : o # id => table'[o] = table[o]
    BY <1>4, <1>8 DEF IsTable
  <1>11. walk'.at = "consume" /\ walk'.session = s
    BY <1>1, <1>2, <1>8 DEF ArrivingWalk
  <1>12. Blocks(context) \in Int
    BY <1>5, BlocksCounted
  <1>13. AsPlanned(e, at, 0, context)
    BY <1>2, <1>7, <1>8, <1>9, <1>12, WholeFate DEF AsPlanned
  <1>14. Planned(id)'
    <2>1. RungOf(id)' = 0 /\ ContextOf(id)' = context
      BY <1>2, <1>3, <1>4, <1>8, <1>11 DEF RungOf, ContextOf
    <2>2. AsPlanned(table'[id], id[2], RungOf(id)', ContextOf(id)')
      BY <1>3, <1>10, <1>13, <2>1
    <2> QED
      BY <2>2 DEF Planned, AsPlanned
  <1>15. ASSUME NEW o \in Objects, o # id, Entry(o)', o[1] \notin skipped PROVE Planned(o)'
    <2>1. Planned(o)
      BY <1>10, <1>15 DEF PInv, Entry
    <2> QED
      BY <1>8, <1>10, <1>11, <1>15, <2>1 DEF Planned, AsPlanned, RungOf, ContextOf
  <1> QED
    BY <1>2, <1>4, <1>8, <1>11, <1>14, <1>15 DEF PInv
LEMMA PlanDeepen ==
  ASSUME PInv, LInv', NEW s \in SessionIds, DeepenSession(s)
  PROVE  PInv'
  <1>1. /\ UNCHANGED vars /\ skipped' = skipped /\ walk.at = "deepen"
        /\ walk'.at = "rewrite" /\ walk'.session = s
        /\ walk'.left = {id \in Objects : id[1] = s /\ Entry(id)}
    BY DEF DeepenSession
  <1>2. table' = table /\ sessions' = sessions
    BY <1>1 DEF vars
  <1>3. ASSUME NEW id \in Objects, Entry(id)', id[1] \notin skipped PROVE Planned(id)'
    <2>1. Entry(id) /\ Planned(id)
      BY <1>2, <1>3 DEF PInv, Entry
    <2>2. RungOf(id)' = RungOf(id)
      BY <1>1, <1>2, <2>1 DEF RungOf
    <2> QED
      BY <1>2, <2>1, <2>2 DEF Planned, AsPlanned, ContextOf
  <1> QED
    BY <1>1, <1>2, <1>3 DEF PInv

\* What a step of a rewrite leaves of the blocks it does not write.
LEMMA OthersPlanned ==
  ASSUME PInv, walk.at = "rewrite", NEW id, NEW o \in Objects, o # id, Entry(o)', o[1] \notin skipped,
         SameTerms, Entry(o)' => Entry(o) /\ Alike(table'[o], table[o]) /\ o[1] \in LiveIn(sessions'),
         walk'.at = "rewrite", walk'.session = walk.session, walk'.rung = walk.rung,
         walk'.left = walk.left \ {id}
  PROVE  Planned(o)'
  <1>1. Entry(o) /\ Alike(table'[o], table[o]) /\ o[1] \in LiveIn(sessions')
    OBVIOUS
  <1>2. RungOf(o)' = RungOf(o) /\ ContextOf(o)' = ContextOf(o)
    BY <1>1 DEF RungOf, ContextOf, SameTerms
  <1>3. AsPlanned(table[o], o[2], RungOf(o), ContextOf(o))
    BY <1>1 DEF PInv, Planned
  <1>4. AsPlanned(table'[o], o[2], RungOf(o)', ContextOf(o)')
    BY <1>1, <1>2, <1>3, AlikePlanned
  <1> QED
    BY <1>4 DEF Planned, AsPlanned

LEMMA PlanRefused ==
  ASSUME PInv, LInv', NEW id \in Objects, RewriteRefused(id)
  PROVE  PInv'
  <1>1. /\ UNCHANGED vars /\ walk.at = "rewrite" /\ id \in walk.left
        /\ walk' = [walk EXCEPT !.left = @ \ {id}]
        /\ skipped' = skipped \cup {walk.session}
    BY DEF RewriteRefused
  <1>2. table' = table /\ sessions' = sessions
    BY <1>1 DEF vars
  <1>3. RewriteWalk
    BY <1>1, RewritingNow DEF PInv
  <1>4. /\ walk'.at = "rewrite" /\ walk'.session = walk.session /\ walk'.rung = walk.rung
        /\ walk'.left = walk.left \ {id} /\ id[1] = walk.session
    BY <1>1, <1>3 DEF RewriteWalk
  <1>5. SameTerms /\ \A o \in Objects : Entry(o)' => Entry(o) /\ Alike(table'[o], table[o]) /\ o[1] \in LiveIn(sessions')
    <2>1. Softly
      BY <1>1, StillSoft DEF PInv
    <2> QED
      BY <2>1 DEF Softly, FewerBlocks, Known, LiveIn
  <1>6. ASSUME NEW o \in Objects, Entry(o)', o[1] \notin skipped' PROVE Planned(o)'
    <2>1. o[1] \notin skipped /\ o # id
      BY <1>1, <1>4, <1>6
    <2> QED
      BY <1>1, <1>4, <1>5, <1>6, <2>1, OthersPlanned
  <1> QED
    BY <1>2, <1>4, <1>6 DEF PInv

LEMMA PlanStepDone ==
  ASSUME PInv, LInv', StepDone
  PROVE  PInv'
  <1>1. RewriteWalk
    BY RewritingNow DEF PInv, StepDone
  <1>2. PICK s \in SessionIds, q \in 1 .. 5 : s = walk.session /\ q = walk.rung /\ s \in LiveIn(sessions)
    BY <1>1 DEF RewriteWalk, Known, LiveIn
  <1>3. sessions \in [SessionIds -> Session]
    BY DEF PInv, LInv
  <1> DEFINE old == sessions[s]
             coarsest == walk.coarsest
             deepest == Max({old.deepest, q})
             new == [old EXCEPT !.rung = q, !.coarsest = coarsest, !.deepest = deepest]
  <1>4. /\ table' = table /\ skipped' = skipped /\ walk.at = "rewrite" /\ walk.left = {}
        /\ sessions' = [sessions EXCEPT ![s] = new]
        /\ walk' = [at |-> "deepen", rung |-> q]
    BY <1>2 DEF StepDone
  <1>5. old \in LiveRecord
    BY <1>2, <1>3, LiveTerms
  <1> HIDE DEF deepest, coarsest
  <1>6. new.live = TRUE /\ new.contract = old.contract /\ new.rung = q
    <2> HIDE DEF old
    <2> QED
      BY <1>5 DEF LiveRecord
  <1> HIDE DEF new
  <1>7. sessions'[s] = new /\ \A r \in SessionIds : r # s => sessions'[r] = sessions[r]
    BY <1>2, <1>3, <1>4
  <1>8. \A r \in LiveIn(sessions') :
          /\ r \in LiveIn(sessions) /\ sessions'[r].contract = sessions[r].contract
          /\ sessions'[r].rung = IF r = s THEN q ELSE sessions[r].rung
    BY <1>2, <1>6, <1>7 DEF LiveIn
  <1>9. LiveIn(sessions) \subseteq LiveIn(sessions')
    BY <1>6, <1>7 DEF LiveIn
  <1>10. ASSUME NEW o \in Objects, Entry(o)', o[1] \notin skipped PROVE Planned(o)'
    <2>1. Entry(o) /\ Planned(o)
      BY <1>4, <1>10 DEF PInv, Entry
    <2>2. o[1] \in LiveIn(sessions')
      BY <1>9, <2>1, BlockEntry DEF PInv
    <2>3. RungOf(o)' = RungOf(o) /\ ContextOf(o)' = ContextOf(o)
      BY <1>2, <1>4, <1>8, <2>2 DEF RungOf, ContextOf
    <2> QED
      BY <1>4, <2>1, <2>3 DEF Planned, AsPlanned
  <1> QED
    BY <1>4, <1>8, <1>10 DEF PInv
LEMMA PlanRewrite ==
  ASSUME PInv, LInv', NEW id \in Objects, Rewrite(id)
  PROVE  PInv'
  <1>0. LInv
    BY DEF PInv
  <1>1. RewriteWalk /\ walk.at = "rewrite" /\ id \in walk.left
    BY <1>0, RewritingNow DEF Rewrite
  <1>2. PICK s, q, context, blocks, fate :
          /\ s \in SessionIds /\ s = walk.session /\ s \in LiveIn(sessions)
          /\ q \in 1 .. 5 /\ q = walk.rung
          /\ context = sessions[s].contract.context /\ blocks = Blocks(context)
          /\ fate = Fate(q, id[2], blocks)
    BY <1>1 DEF RewriteWalk, Known, LiveIn
  <1>3. /\ Entry(id) /\ id[1] = s /\ id[2] \in Nat
        /\ IsBlock(table[id]) /\ table[id].size \in Nat /\ table[id].precision \in Precision
    BY <1>0, <1>1, <1>2, BlockEntry, LadderAssumption DEF RewriteWalk
  <1>4. context \in Nat /\ blocks \in Int
    BY <1>0, <1>2, LiveTerms, BlocksCounted DEF LInv
  <1>5. skipped' = skipped
    BY DEF Rewrite
  <1>6. CASE fate = Dropped
    <2>1. RewriteDropped(id) /\ walk' = [walk EXCEPT !.left = @ \ {id}]
      BY <1>2, <1>6 DEF Rewrite
    <2>2. FewerBlocks /\ Lesser(sessions, sessions') /\ ~Entry(id)'
      <3>1. CASE Evict(id, NoMeta)
        BY <1>0, <3>1, EvictBlocks
      <3>2. CASE ~Evict(id, NoMeta)
        <4>1. table' = [table EXCEPT ![id] = NoMeta] /\ sessions' = sessions
          BY <2>1, <3>2 DEF RewriteDropped
        <4> QED
          BY <1>0, <1>3, <4>1, BlockWritten, SameLesser DEF LInv
      <3> QED
        BY <3>1, <3>2
    <2>3. /\ walk'.at = "rewrite" /\ walk'.session = walk.session /\ walk'.rung = walk.rung
          /\ walk'.left = walk.left \ {id}
      BY <1>1, <2>1 DEF RewriteWalk
    <2>4. SameTerms /\ \A o \in Objects : Entry(o)' => Entry(o) /\ Alike(table'[o], table[o]) /\ o[1] \in LiveIn(sessions')
      BY <2>2 DEF Lesser, SameTerms, FewerBlocks, Known, LiveIn
    <2>5. ASSUME NEW o \in Objects, Entry(o)', o[1] \notin skipped PROVE Planned(o)'
      BY <1>1, <2>2, <2>3, <2>4, <2>5, OthersPlanned
    <2> QED
      BY <1>5, <2>3, <2>4, <2>5 DEF PInv, SameTerms
  <1>7. CASE fate # Dropped
    <2>1. FatePrecision(fate) \in Precision /\ fate \in {Fp16, Q8, Q4, Summary}
      BY <1>2, <1>3, <1>4, <1>7, FateFine
    <2>2. fate \in Precision \cup {Summary}
      BY <2>1 DEF Precision, Fp16, Q8, Q4
    <2> DEFINE coarsest == Max({walk.coarsest, FatePrecision(fate)})
    <2>3. RewriteKept(id, fate) /\ walk' = [walk EXCEPT !.left = @ \ {id}, !.coarsest = coarsest]
      BY <1>2, <1>7 DEF Rewrite
    <2> HIDE DEF coarsest
    <2>4. /\ Lesser(sessions, sessions') /\ LiveIn(sessions') = LiveIn(sessions)
          /\ table'[id].precision = FatePrecision(fate) /\ table'[id].size = Rewritten(id, fate)
          /\ \A o \in Objects : o # id => table'[o] = table[o]
      BY <1>0, <1>3, <2>1, <2>2, <2>3, KeptBlock
    <2>5. /\ walk'.at = "rewrite" /\ walk'.session = walk.session /\ walk'.rung = walk.rung
          /\ walk'.left = walk.left \ {id}
      BY <1>1, <2>3 DEF RewriteWalk
    <2>6. SameTerms
      BY <2>4 DEF Lesser, SameTerms
    <2>7. ASSUME NEW o \in Objects, o # id, Entry(o)', o[1] \notin skipped PROVE Planned(o)'
      <3>1. Entry(o) /\ Alike(table'[o], table[o]) /\ o[1] \in LiveIn(sessions')
        BY <1>0, <2>4, <2>7, BlockEntry DEF Entry, Alike
      <3> QED
        BY <1>1, <2>5, <2>6, <2>7, <3>1, OthersPlanned
    <2>8. ASSUME id[1] \notin skipped PROVE Planned(id)'
      <3>1. PICK full \in Nat : full = FullBytes(id[2], context, KvPerToken)
        BY <1>3, <1>4, FullBytesTyped, LadderAssumption
      <3>2. AsPlanned(table[id], id[2], sessions[s].rung, context)
        <4>1. RungOf(id) = sessions[s].rung /\ ContextOf(id) = context
          BY <1>1, <1>2, <1>3 DEF RungOf, ContextOf
        <4>2. AsPlanned(table[id], id[2], RungOf(id), ContextOf(id))
          BY <1>3, <2>8 DEF PInv, Planned
        <4> QED
          BY <4>1, <4>2
      <3>3. PICK old : /\ old # Dropped /\ table[id].precision = FatePrecision(old)
                       /\ table[id].size <= FateBytes(old, full) /\ id[2] < blocks
        BY <1>2, <3>1, <3>2 DEF AsPlanned
      <3>4. Rewritten(id, fate) <= FateBytes(fate, full)
        BY <1>3, <1>7, <2>1, <3>3, RewrittenBounded
      <3>5. AsPlanned(table'[id], id[2], q, context)
        BY <1>2, <1>7, <2>4, <3>1, <3>3, <3>4 DEF AsPlanned
      <3>6. RungOf(id)' = q /\ ContextOf(id)' = context
        <4>1. id \notin walk'.left
          BY <2>5
        <4>2. sessions'[s].contract = sessions[s].contract
          BY <1>2, <2>4 DEF Lesser
        <4> QED
          BY <1>2, <1>3, <2>5, <4>1, <4>2 DEF RungOf, ContextOf
      <3>7. AsPlanned(table'[id], id[2], RungOf(id)', ContextOf(id)')
        BY <3>5, <3>6
      <3> QED
        BY <3>7 DEF Planned, AsPlanned
    <2> QED
      BY <1>5, <2>5, <2>6, <2>7, <2>8 DEF PInv, SameTerms
  <1> QED
    BY <1>6, <1>7
LEMMA PlanStarts == LadderInit => PInv
  <1> SUFFICES ASSUME LadderInit PROVE PInv
    OBVIOUS
  <1>1. table = [id \in Objects |-> NoMeta] /\ sessions = NoSessions /\ walk = Off
    BY DEF LadderInit, Init
  <1>2. LiveIn(sessions) = {} /\ (\A id \in Objects : ~Entry(id)) /\ walk.at = "off"
    BY <1>1 DEF LiveIn, NoSessions, NoSession, Entry, Off
  <1> QED
    BY <1>2, LadderStarts DEF PInv

\* The moves of the walk that touch no block.
LEMMA PlanWalks ==
  ASSUME PInv, LInv',
         \/ ArriveConsume \/ ArrivePlaced \/ ArriveDone
         \/ SqueezeFits \/ SqueezeDeepen \/ SqueezeTerminate \/ Terminated \/ DeepenDone
         \/ \E bytes \in Budgets : Squeeze(bytes)
  PROVE  PInv'
  <1>0. LInv
    BY DEF PInv
  <1>1. CASE ArriveConsume
    <2>1. ArrivingWalk /\ walk' = [walk EXCEPT !.at = "placed"] /\ skipped' = skipped /\ walk.at = "consume"
      BY <1>0, <1>1, ArrivingNow DEF ArriveConsume
    <2>2. walk'.at = "placed" /\ walk'.session = walk.session
      BY <2>1 DEF ArrivingWalk
    <2> QED
      BY <1>0, <1>1, <2>1, <2>2, ArriveConsumeStep, PlanFrame
  <1>2. CASE ArrivePlaced \/ ArriveDone
    <2>1. UNCHANGED vars /\ skipped' = skipped /\ walk.at \in {"register", "placed"}
      BY <1>2 DEF ArrivePlaced, ArriveDone
    <2>2. walk' = Off \/ walk' = Arriving("register", walk.session, walk.block + 1)
      BY <1>2 DEF ArrivePlaced, ArriveDone
    <2>3. walk'.at = "off" \/ (walk'.at = "register" /\ walk'.session = walk.session)
      BY <2>2 DEF Off, Arriving
    <2> QED
      BY <1>0, <2>1, <2>3, StillSoft, PlanFrame
  <1>3. CASE SqueezeFits \/ SqueezeDeepen \/ Terminated \/ DeepenDone \/ \E bytes \in Budgets : Squeeze(bytes)
    <2>1. UNCHANGED vars /\ skipped' = skipped /\ walk.at \in {"off", "next", "terminate", "deepen"}
      BY <1>3 DEF SqueezeFits, SqueezeDeepen, Terminated, DeepenDone, Squeeze, Off
    <2>2. walk'.at \in {"off", "next", "deepen"}
      BY <1>3 DEF SqueezeFits, SqueezeDeepen, Terminated, DeepenDone, Squeeze, Off
    <2> QED
      BY <1>0, <2>1, <2>2, StillSoft, PlanFrame
  <1>4. CASE SqueezeTerminate
    <2>1. table' = table /\ sessions' = sessions /\ skipped' = skipped /\ walk.at = "next" /\ walk'.at = "terminate"
      BY <1>4 DEF SqueezeTerminate, DestroySession
    <2> QED
      BY <1>0, <2>1, StillSoft, PlanFrame
  <1> QED
    BY <1>1, <1>2, <1>3, <1>4

LEMMA PlanSteps == PInv /\ [LadderNext]_ladderVars => PInv'
  <1> SUFFICES ASSUME PInv, [LadderNext]_ladderVars PROVE PInv'
    OBVIOUS
  <1>0. LInv /\ LInv'
    BY LadderSteps DEF PInv
  <1>1. CASE JobStep /\ UNCHANGED <<budget, walk, fitted, skipped, moves, calls>>
    BY <1>0, <1>1, JobSteps, PlanFrame
  <1>2. CASE WalkStep
    <2>1. CASE \E id \in Objects : \E template \in Templates[id] :
                 walk.at = "register" /\ id = <<walk.session, walk.block>> /\ ArriveRegister(template)
      BY <1>0, <2>1, PlanRegister
    <2>2. CASE \/ ArriveConsume \/ ArrivePlaced \/ ArriveDone
               \/ SqueezeFits \/ SqueezeDeepen \/ SqueezeTerminate \/ Terminated \/ DeepenDone
      BY <1>0, <2>2, PlanWalks
    <2>3. CASE StepDone \/ \E s \in SessionIds : DeepenSession(s)
      BY <1>0, <2>3, PlanStepDone, PlanDeepen
    <2>4. CASE \E id \in Objects : Rewrite(id) \/ RewriteRefused(id)
      BY <1>0, <2>4, PlanRewrite, PlanRefused
    <2> QED
      BY <1>2, <2>1, <2>2, <2>3, <2>4 DEF WalkStep
  <1>3. CASE \E contract \in Contracts : Arrive(contract)
    BY <1>0, <1>3, PlanArrive
  <1>4. CASE \E bytes \in Budgets : Squeeze(bytes)
    BY <1>0, <1>4, PlanWalks
  <1>5. CASE /\ walk = Off
             /\ \/ \E p \in Providers : Attach(p)
                \/ \E id \in Objects : Consume(id)
             /\ UNCHANGED <<budget, walk, fitted, skipped, moves, calls>>
    BY <1>0, <1>5, BetweenWalks, PlanFrame
  <1>6. CASE \E s \in SessionIds : EndSession(s)
    <2>1. PICK s \in SessionIds : EndSession(s)
      BY <1>6
    <2>2. walk = Off /\ walk' = walk /\ moves' = moves /\ skipped' = skipped /\ DestroySession(s)
      BY <2>1 DEF EndSession
    <2> QED
      BY <1>0, <2>2, BetweenWalks, PlanFrame
  <1>7. CASE UNCHANGED ladderVars
    <2>1. UNCHANGED vars /\ walk' = walk /\ skipped' = skipped
      BY <1>7 DEF ladderVars
    <2> QED
      BY <1>0, <2>1, StillSoft, PlanFrame
  <1> QED
    BY <1>1, <1>2, <1>3, <1>4, <1>5, <1>6, <1>7 DEF LadderNext

LEMMA PlanInductive == LadderSpec => []PInv
  BY PlanStarts, PlanSteps, PTL DEF LadderSpec

-----------------------------------------------------------------------------
(* The sum a rung needs bounds the sum the table holds. *)

\* Sizes taken one to one, each into one at least as large, sum to no more.
LEMMA SumReindexed ==
  ASSUME NEW t, NEW u, NEW S, NEW U, NEW into, IsFiniteSet(S), IsFiniteSet(U),
         \A x \in S : into[x] \in U /\ t[x].size \in Nat /\ t[x].size <= u[into[x]].size,
         \A x \in S, y \in S : into[x] = into[y] => x = y,
         \A at \in U : u[at].size \in Nat
  PROVE  SizeSum(t, S) <= SizeSum(u, U)
  <1> DEFINE Into(R, V) == \A x \in R : into[x] \in V
             Good(R, V) == SizeSum(t, R) <= SizeSum(u, V)
             Bad == {n \in Nat : \E R \in SUBSET S, V \in SUBSET U :
                                   Cardinality(R) = n /\ Into(R, V) /\ ~Good(R, V)}
  <1>1. ASSUME NEW R \in SUBSET S
        PROVE  IsFiniteSet(R) /\ Cardinality(R) \in Nat /\ \A x \in R : t[x].size \in Nat
    BY FS_Subset, FS_CardinalityType
  <1>2. ASSUME NEW V \in SUBSET U
        PROVE  IsFiniteSet(V) /\ \A at \in V : u[at].size \in Nat
    BY FS_Subset
  <1>3. Bad = {}
    <2> SUFFICES ASSUME Bad # {} PROVE FALSE
      OBVIOUS
    <2> DEFINE m == Min(Bad)
    <2>1. m \in Bad /\ \A n \in Bad : m <= n
      BY LeastMember
    <2> HIDE DEF m
    <2>2. PICK R \in SUBSET S, V \in SUBSET U : Cardinality(R) = m /\ Into(R, V) /\ ~Good(R, V)
      BY <2>1
    <2>3. SizeSum(u, V) \in Nat
      BY <1>2, SumWithout
    <2>4. R # {}
      <3>1. SizeSum(t, {}) <= SizeSum(u, V)
        BY <2>3, SumOfNone
      <3> QED
        BY <2>2, <3>1
    <2>5. PICK x \in R : TRUE
      BY <2>4
    <2> DEFINE Q == R \ {x}
               W == V \ {into[x]}
    <2>6. Q \in SUBSET S /\ W \in SUBSET U /\ Into(Q, W)
      BY <2>2, <2>5
    <2>7. Cardinality(Q) = m - 1 /\ Cardinality(Q) \in Nat /\ m \in Nat
      <3>1. IsFiniteSet(R)
        BY <1>1
      <3>2. Cardinality(Q) = Cardinality(R) - 1
        BY <2>5, <3>1, FS_RemoveElement
      <3> QED
        BY <1>1, <2>2, <2>6, <3>2
    <2>8. m - 1 \notin Bad
      BY <2>1, <2>7
    <2>9. Good(Q, W)
      <3> HIDE DEF Good, Into, Q, W
      <3> QED
        BY <2>6, <2>7, <2>8
    <2>10. SizeSum(t, Q) \in Nat /\ SizeSum(t, R) = SizeSum(t, Q) + t[x].size
      BY <1>1, <2>5, SumWithout
    <2>11. into[x] \in V
      BY <2>2, <2>5
    <2>12. SizeSum(u, W) \in Nat /\ SizeSum(u, V) = SizeSum(u, W) + u[into[x]].size
      BY <1>2, <2>11, SumWithout
    <2>13. t[x].size \in Nat /\ u[into[x]].size \in Nat /\ t[x].size <= u[into[x]].size
      BY <2>5, <2>11
    <2>14. Good(R, V)
      BY <2>9, <2>10, <2>12, <2>13
    <2> QED
      BY <2>2, <2>14
  <1>4. Cardinality(S) \in Nat /\ Into(S, U)
    BY FS_CardinalityType
  <1> QED
    <2> HIDE DEF Good, Into
    <2>1. Good(S, U)
      BY <1>3, <1>4
    <2> QED
      BY <2>1 DEF Good

\* Fewer sizes, and none larger.
LEMMA SumLesser ==
  ASSUME NEW t, NEW u, NEW S, NEW U, IsFiniteSet(U), S \subseteq U,
         \A x \in S : t[x].size \in Nat /\ t[x].size <= u[x].size, \A x \in U : u[x].size \in Nat
  PROVE  SizeSum(t, S) <= SizeSum(u, U)
  <1>1. PICK into : into = [x \in S |-> x]
    OBVIOUS
  <1>2. IsFiniteSet(S)
    BY FS_Subset
  <1>3. \A x \in S : into[x] = x
    BY <1>1
  <1>4. \A x \in S : into[x] \in U /\ t[x].size \in Nat /\ t[x].size <= u[into[x]].size
    BY <1>3
  <1>5. \A x \in S, y \in S : into[x] = into[y] => x = y
    BY <1>3
  <1> QED
    BY <1>2, <1>4, <1>5, SumReindexed

\* What a rung needs of one block, and of a context as a sum of sizes.
NeedAt(rung, context, at) == FateBytes(Fate(rung, at, Blocks(context)), FullBytes(at, context, KvPerToken))
NeedSizes(rung, context) == [at \in 0 .. Blocks(context) - 1 |-> [size |-> NeedAt(rung, context, at)]]
IsNeed(rung, context, S, f) ==
  f = [s \in SUBSET S |-> IF s = {} THEN 0 ELSE NeedAt(rung, context, Pick(s)) + f[s \ {Pick(s)}]]

LEMMA NeedIsSum ==
  ASSUME NEW rung \in 0 .. 5, NEW context \in Contexts
  PROVE  Need[rung][context] = SizeSum(NeedSizes(rung, context), 0 .. Blocks(context) - 1)
  <1> DEFINE U == 0 .. Blocks(context) - 1
             u == NeedSizes(rung, context)
  <1>1. Need[rung][context] = (CHOOSE f : IsNeed(rung, context, U, f))[U]
    BY DEF Need, MapThenSumSet, MapThenFoldSet, IsNeed, NeedAt, Pick
  <1>2. ASSUME NEW f PROVE IsNeed(rung, context, U, f) <=> IsSum(u, U, f)
    <2>1. ASSUME NEW s \in SUBSET U, s # {}
          PROVE  u[Pick(s)].size = NeedAt(rung, context, Pick(s))
      <3>1. Pick(s) \in U
        BY <2>1 DEF Pick
      <3> QED
        BY <3>1 DEF NeedSizes
    <2> HIDE DEF U, u
    <2>2. \A s \in SUBSET U :
            (IF s = {} THEN 0 ELSE NeedAt(rung, context, Pick(s)) + f[s \ {Pick(s)}])
          = (IF s = {} THEN 0 ELSE u[Pick(s)].size + f[s \ {Pick(s)}])
      BY <2>1, Zenon
    <2> QED
      BY <2>2, Zenon DEF IsNeed, IsSum
  <1>3. (CHOOSE f : IsNeed(rung, context, U, f)) = (CHOOSE f : IsSum(u, U, f))
    <2> HIDE DEF U, u
    <2> QED
      BY <1>2, Zenon
  <1> QED
    BY <1>1, <1>3, SumUnfolds DEF SumTable

LEMMA NeedOfBlock ==
  ASSUME NEW rung \in 0 .. 5, NEW context \in Nat, NEW at \in 0 .. Blocks(context) - 1
  PROVE  /\ NeedAt(rung, context, at) \in Nat /\ FullBytes(at, context, KvPerToken) \in Nat
         /\ NeedAt(rung, context, at) <= FullBytes(at, context, KvPerToken)
  <1>1. at \in Nat /\ KvPerToken \in Nat
    BY LadderAssumption
  <1>2. PICK full \in Nat : full = FullBytes(at, context, KvPerToken)
    BY <1>1, FullBytesTyped
  <1> DEFINE fate == Fate(rung, at, Blocks(context))
  <1>3. CASE fate = Dropped
    BY <1>2, <1>3 DEF NeedAt, FateBytes
  <1>4. CASE fate # Dropped
    <2>1. Blocks(context) \in Int
      BY BlocksCounted
    <2>2. FatePrecision(fate) \in Precision
      <3>1. CASE rung = 0
        BY <1>1, <2>1, <3>1, WholeFate DEF Precision
      <3>2. CASE rung \in 1 .. 5
        BY <1>1, <1>4, <2>1, <3>2, FateFine
      <3> QED
        BY <3>1, <3>2
    <2> HIDE DEF fate
    <2>3. PICK b \in {16, 8, 4, 3, 2} : FateBytes(fate, full) = (full * b) \div 16
      BY <1>4, <2>2, FateBits
    <2>4. (full * b) \div 16 \in Nat /\ (full * b) \div 16 <= full
      BY FateBytesRise
    <2>5. FateBytes(fate, full) \in Nat /\ FateBytes(fate, full) <= full
      BY <2>3, <2>4, Zenon
    <2> QED
      BY <1>2, <2>5 DEF NeedAt, fate
  <1> QED
    BY <1>3, <1>4

LEMMA TableHeld ==
  ASSUME PInv, walk.at \in {"off", "next"}
  PROVE  PlanIsTable
  <1> SUFFICES ASSUME NEW s \in LiveIn(sessions) \ skipped
               PROVE  Held(s) <= Need[sessions[s].rung][sessions[s].contract.context]
    BY DEF PlanIsTable
  <1> DEFINE S == {id \in Objects : id[1] = s /\ Entry(id)}
  <1>1. s \in SessionIds /\ Known(sessions, s) /\ sessions \in [SessionIds -> Session]
    BY DEF LiveIn, Known, PInv, LInv
  <1>2. sessions[s].rung \in 0 .. 5 /\ sessions[s].contract.context \in Nat
    BY <1>1, LiveSession, LiveTerms DEF LiveRecord
  <1>3. PICK rung \in 0 .. 5, context \in Nat :
          rung = sessions[s].rung /\ context = sessions[s].contract.context
    BY <1>2
  <1>4. context \in Contexts
    BY <1>3 DEF PInv, Contexts
  <1> DEFINE U == 0 .. Blocks(context) - 1
             u == NeedSizes(rung, context)
  <1>5. Need[rung][context] = SizeSum(u, U)
    BY <1>4, NeedIsSum
  <1>6. Held(s) = SizeSum(table, S)
    BY DEF Held, SizeSum
  <1>7. Blocks(context) \in Int
    BY BlocksCounted
  <1>8. IsFiniteSet(S) /\ IsFiniteSet(U)
    BY <1>7, ManagerAssumption, FS_Subset, FS_Interval
  <1>9. ASSUME NEW at \in U
        PROVE  u[at].size = NeedAt(rung, context, at) /\ u[at].size \in Nat
    BY <1>9, NeedOfBlock DEF NeedSizes
  <1>10. ASSUME NEW id \in S
         PROVE  id[2] \in U /\ table[id].size \in Nat /\ table[id].size <= u[id[2]].size
    <2>1. id \in Objects /\ id[1] = s /\ Entry(id) /\ id[2] \in Nat
      BY LadderAssumption
    <2>2. RungOf(id) = rung /\ ContextOf(id) = context
      BY <1>3, <2>1 DEF RungOf, ContextOf
    <2>3. AsPlanned(table[id], id[2], rung, context)
      BY <2>1, <2>2 DEF PInv, Planned
    <2>4. id[2] \in U /\ table[id].size <= NeedAt(rung, context, id[2])
      BY <1>7, <2>1, <2>3 DEF AsPlanned, NeedAt
    <2>5. table[id].size \in Nat
      BY <2>1, BlockEntry DEF PInv
    <2> QED
      BY <1>9, <2>4, <2>5
  <1>11. \A x \in S, y \in S : x[2] = y[2] => x = y
    BY LadderAssumption
  <1> HIDE DEF S, U, u
  <1>12. SizeSum(table, S) <= SizeSum(u, U)
    <2>1. PICK into : into = [id \in S |-> id[2]]
      OBVIOUS
    <2>2. \A id \in S : into[id] = id[2]
      BY <2>1
    <2>3. \A id \in S : into[id] \in U /\ table[id].size \in Nat /\ table[id].size <= u[into[id]].size
      BY <1>10, <2>2
    <2>4. \A x \in S, y \in S : into[x] = into[y] => x = y
      <3>1. ASSUME NEW x \in S, NEW y \in S, into[x] = into[y] PROVE x = y
        BY <1>11, <2>2, <3>1
      <3> QED
        BY <3>1
    <2>5. \A at \in U : u[at].size \in Nat
      BY <1>9
    <2> QED
      BY <1>8, <2>3, <2>4, <2>5, SumReindexed
  <1> QED
    BY <1>3, <1>5, <1>6, <1>12

\* Whenever no move is under way, the bytes a session's blocks are entered
\* with are never more than what its rung needs, the number squeeze plans
\* with, unless the arena refused to take a block's tail back.
THEOREM PlanHolds == LadderSpec => []PlanIsTable
  <1>1. PInv => PlanIsTable
    BY TableHeld DEF PlanIsTable
  <1> QED
    BY <1>1, PlanInductive, PTL
-----------------------------------------------------------------------------
(* The budget, where the kernel's shape of blocks is kept: whole blocks are  *)
(* cut to a half and a quarter without a remainder, and these are placed     *)
(* without rounding.                                                         *)

\* A block of PerBlock tokens is a multiple of four alignments, and the last
\* block, which may be shorter, is hot.
WholeBlocks == Hot # 0 /\ \E n \in Nat : PerBlock * KvPerToken = 4 * (n * Align)

\* Multiplying keeps the order.
LEMMA ProductsRise ==
  ASSUME NEW x \in Nat, NEW y \in Nat, NEW k \in Nat, x <= y
  PROVE  x * k \in Nat /\ y * k \in Nat /\ x * k <= y * k
  <1>1. PICK d \in Nat : y = x + d
    <2>1. y - x \in Nat /\ y = x + (y - x)
      OBVIOUS
    <2> QED
      BY <2>1
  <1>2. x * k \in Nat /\ d * k \in Nat /\ y * k = x * k + d * k
    BY <1>1
  <1> QED
    BY <1>2

\* Blocks is the first position past the context.
LEMMA BlockBegins ==
  ASSUME NEW context \in Nat, NEW at \in Nat
  PROVE  /\ Blocks(context) \in Nat /\ at * PerBlock \in Nat
         /\ at < Blocks(context) <=> at * PerBlock < context
  <1>1. PICK p \in Nat \ {0} : p = PerBlock
    BY LadderAssumption
  <1>2. PICK b \in Nat : b = (context + p - 1) \div p /\ b * p >= context /\ b * p < context + p
    <2> DEFINE n == context + p - 1
               q == n \div p
    <2>1. n \in Nat
      OBVIOUS
    <2>2. q \in Nat /\ q * p <= n /\ n < q * p + p
      BY <2>1
    <2> QED
      BY <2>2
  <1>3. Blocks(context) = b
    BY <1>1, <1>2 DEF Blocks
  <1>4. ASSUME at < b PROVE at * p < context
    <2>1. (at + 1) * p <= b * p
      BY <1>4, ProductsRise
    <2>2. (at + 1) * p = at * p + p /\ at * p \in Nat /\ b * p \in Nat
      OBVIOUS
    <2> QED
      BY <1>2, <2>1, <2>2
  <1>5. ASSUME b <= at PROVE ~(at * p < context)
    <2>1. b * p <= at * p /\ b * p \in Nat /\ at * p \in Nat
      BY <1>5, ProductsRise
    <2> QED
      BY <1>2, <2>1
  <1> QED
    BY <1>1, <1>3, <1>4, <1>5

\* What FullBytes is of a block of the context: it is not empty, and whole if
\* it is not the last.
LEMMA FullBytesValue ==
  ASSUME NEW context \in Nat, NEW at \in Nat, at < Blocks(context)
  PROVE  /\ FullBytes(at, context, KvPerToken) \in Nat \ {0}
         /\ at + 1 < Blocks(context) => FullBytes(at, context, KvPerToken) = PerBlock * KvPerToken
  <1>1. PICK p \in Nat \ {0}, kv \in Nat \ {0}, begin \in Nat :
          p = PerBlock /\ kv = KvPerToken /\ begin = at * PerBlock
    BY LadderAssumption, BlockBegins
  <1>2. begin < context
    BY <1>1, BlockBegins
  <1>3. PICK left \in Nat \ {0} : left = context - begin /\ left = SatSub(context, begin)
    BY <1>2 DEF SatSub
  <1>4. PICK tokens \in Nat \ {0} : tokens = Min({p, left}) /\ (p <= left => tokens = p)
    <2>1. Min({p, left}) \in {p, left} /\ \A z \in {p, left} : Min({p, left}) <= z
      BY LeastMember
    <2>2. p <= left => Min({p, left}) = p
      BY MinOfTwo
    <2> QED
      BY <2>1, <2>2
  <1>5. FullBytes(at, context, KvPerToken) = tokens * kv
    BY <1>1, <1>3, <1>4 DEF FullBytes
  <1>6. tokens * kv \in Nat \ {0}
    OBVIOUS
  <1>7. ASSUME at + 1 < Blocks(context) PROVE p <= left
    <2>1. (at + 1) * p < context
      BY <1>1, <1>7, BlockBegins
    <2>2. (at + 1) * p = begin + p
      BY <1>1
    <2> QED
      BY <1>3, <2>1, <2>2
  <1> QED
    BY <1>1, <1>4, <1>5, <1>6, <1>7

\* A multiple of the alignment is placed as it is.
LEMMA RoundedMultiple ==
  ASSUME NEW k \in Nat
  PROVE  k * Align \in Nat /\ RoundUp(k * Align) = k * Align
  <1>1. PICK a \in Nat \ {0}, n \in Nat : a = Align /\ n = k * a
    BY AlignAssumption
  <1>2. PICK q \in Int : q = (n + a - 1) \div a
    BY <1>1
  <1>3. q * a <= n + a - 1 /\ n + a - 1 < q * a + a
    BY <1>1, <1>2
  <1>4. q = k
    <2>1. CASE q < k
      <3>1. CASE q < 0
        BY <1>1, <1>3, <3>1
      <3>2. CASE q >= 0
        <4>1. (q + 1) * a <= k * a
          BY <2>1, <3>2, ProductsRise
        <4>2. (q + 1) * a = q * a + a /\ q * a \in Int
          OBVIOUS
        <4> QED
          BY <1>1, <1>3, <4>1, <4>2
      <3> QED
        BY <3>1, <3>2
    <2>2. CASE k < q
      <3>1. (k + 1) * a <= q * a
        BY <2>2, ProductsRise
      <3>2. (k + 1) * a = k * a + a /\ q * a \in Int
        OBVIOUS
      <3> QED
        BY <1>1, <1>3, <3>1, <3>2
    <2> QED
      BY <2>1, <2>2
  <1> QED
    BY <1>1, <1>2, <1>4 DEF RoundUp

\* The precision a rung keeps cold blocks at.
Grade(rung) == IF rung = 0 THEN Fp16 ELSE IF rung = 1 THEN Q8 ELSE Q4

LEMMA GradeRises ==
  ASSUME NEW low \in 0 .. 5, NEW high \in 0 .. 5, low <= high
  PROVE  Grade(low) \in {Fp16, Q8, Q4} /\ Grade(high) \in {Fp16, Q8, Q4} /\ Grade(low) <= Grade(high)
  BY DEF Grade, Fp16, Q8, Q4

\* The cold blocks are the first ones, and if any are hot the last is not cold.
LEMMA ColdBlocks ==
  ASSUME NEW blocks \in Nat
  PROVE  Cold(blocks) \in Nat /\ (Hot # 0 => \A at \in Nat : at < Cold(blocks) => at + 1 < blocks)
  <1>1. PICK hot \in Nat : hot = Hot
    BY LadderAssumption
  <1> QED
    BY <1>1 DEF Cold, SatSub

\* A kept block is at the grade of its rung if it is cold, and else at Fp16.
LEMMA FateGrade ==
  ASSUME NEW rung \in 1 .. 5, NEW at \in Nat, NEW blocks \in Nat, Fate(rung, at, blocks) # Dropped
  PROVE  FatePrecision(Fate(rung, at, blocks)) = IF at < Cold(blocks) THEN Grade(rung) ELSE Fp16
  <1>1. PICK cold \in Nat : cold = Cold(blocks)
    BY ColdBlocks
  <1>2. CASE at >= cold
    BY <1>1, <1>2 DEF Fate, FatePrecision, Fp16, Summary
  <1>3. CASE at < cold
    <2>1. Fate(rung, at, blocks) \in {IF rung = 1 THEN Q8 ELSE Q4, Summary}
          /\ (rung = 1 => Fate(rung, at, blocks) = Q8)
      <3>1. CASE rung = 1
        BY <1>1, <1>3, <3>1 DEF Fate
      <3>2. CASE rung = 2
        BY <1>1, <1>3, <3>2 DEF Fate
      <3>3. CASE rung \in {3, 4}
        BY <1>1, <1>3, <3>3 DEF Fate
      <3>4. CASE rung = 5
        BY <1>1, <1>3, <3>4 DEF Fate
      <3> QED
        BY <3>1, <3>2, <3>3, <3>4
    <2> QED
      BY <1>1, <1>3, <2>1 DEF FatePrecision, Grade, Summary, Q8, Q4
  <1> QED
    BY <1>1, <1>2, <1>3

\* The bytes of the precisions there are.
LEMMA GradedBytes ==
  ASSUME NEW full \in Nat
  PROVE  /\ FateBytes(Fp16, full) = full
         /\ FateBytes(Q8, full) = (full * 8) \div 16
         /\ FateBytes(Q4, full) = (full * 4) \div 16
  <1>1. Bits[1] = 16 /\ Bits[3] = 8 /\ Bits[4] = 4
    BY DEF Bits
  <1>2. (full * 16) \div 16 = full
    OBVIOUS
  <1> QED
    BY <1>1, <1>2 DEF FateBytes, FatePrecision, Fp16, Q8, Q4, Dropped, Summary

\* A whole block, its half and its quarter are placed as they are.
LEMMA WholeSizes ==
  ASSUME WholeBlocks
  PROVE  \E part \in Nat \ {0} :
           /\ PerBlock * KvPerToken = 4 * part
           /\ RoundUp(part) = part /\ RoundUp(2 * part) = 2 * part /\ RoundUp(4 * part) = 4 * part
           /\ FateBytes(Fp16, 4 * part) = 4 * part
           /\ FateBytes(Q8, 4 * part) = 2 * part /\ FateBytes(Q4, 4 * part) = part
  <1>1. PICK n \in Nat : PerBlock * KvPerToken = 4 * (n * Align)
    BY DEF WholeBlocks
  <1>2. PICK part \in Nat : part = n * Align
    BY RoundedMultiple
  <1>3. 2 * part = (2 * n) * Align /\ 4 * part = (4 * n) * Align /\ 2 * n \in Nat /\ 4 * n \in Nat
    BY <1>2, AlignAssumption
  <1>4. RoundUp(part) = part /\ RoundUp(2 * part) = 2 * part /\ RoundUp(4 * part) = 4 * part
    <2>1. RoundUp(part) = part
      BY <1>2, RoundedMultiple
    <2>2. RoundUp(2 * part) = 2 * part
      BY <1>3, RoundedMultiple, Zenon
    <2>3. RoundUp(4 * part) = 4 * part
      BY <1>3, RoundedMultiple, Zenon
    <2> QED
      BY <2>1, <2>2, <2>3
  <1>5. PerBlock * KvPerToken \in Nat \ {0}
    <2>1. PICK p \in Nat \ {0}, kv \in Nat \ {0} : p = PerBlock /\ kv = KvPerToken
      BY LadderAssumption
    <2>2. p * kv \in Nat \ {0}
      OBVIOUS
    <2> QED
      BY <2>1, <2>2
  <1>6. part # 0 /\ PerBlock * KvPerToken = 4 * part
    BY <1>1, <1>2, <1>5
  <1>7. PICK full \in Nat : full = 4 * part
    OBVIOUS
  <1>8. (full * 8) \div 16 = 2 * part /\ (full * 4) \div 16 = part
    BY <1>7
  <1>9. FateBytes(Fp16, full) = full /\ FateBytes(Q8, full) = 2 * part /\ FateBytes(Q4, full) = part
    BY <1>8, GradedBytes
  <1> QED
    BY <1>4, <1>6, <1>7, <1>9

\* A block is as large as its precision makes its bytes, no coarser than the
\* rung's grade, and degraded only if it is cold.
AsSized(e, at, rung, context) ==
  /\ at < Blocks(context)
  /\ e.precision \in {Fp16, Q8, Q4} /\ e.precision <= Grade(rung)
  /\ e.precision # Fp16 => at < Cold(Blocks(context))
  /\ e.size = FateBytes(e.precision, FullBytes(at, context, KvPerToken))
Sized(id) == AsSized(table[id], id[2], RungOf(id), ContextOf(id))

\* The size of such a block, before and after it is rewritten for a deeper
\* rung: it is as large as its new precision makes its bytes, and if it is
\* smaller than it was, then by as much when both are rounded.
LEMMA RewrittenSize ==
  ASSUME WholeBlocks, NEW id, NEW at \in Nat, NEW context \in Nat, NEW low \in 0 .. 5, NEW high \in 1 .. 5,
         low < high, AsSized(table[id], at, low, context), NEW fate, fate = Fate(high, at, Blocks(context)),
         fate # Dropped
  PROVE  LET size == Rewritten(id, fate)
             p    == FatePrecision(fate)
         IN  /\ table[id].size \in Nat /\ size \in Nat \ {0} /\ size <= table[id].size
             /\ size # table[id].size =>
                  RoundUp(size) = size /\ RoundUp(table[id].size) = table[id].size
             /\ \A e : e.precision = p /\ e.size = size => AsSized(e, at, high, context)
  <1> DEFINE p == FatePrecision(fate)
  <1>1. PICK b \in Nat, cold \in Nat : b = Blocks(context) /\ cold = Cold(b)
    BY BlockBegins, ColdBlocks
  <1>2. at < b /\ p = IF at < cold THEN Grade(high) ELSE Fp16
    BY <1>1, FateGrade DEF AsSized
  <1>3. PICK full \in Nat \ {0} : /\ full = FullBytes(at, context, KvPerToken)
                                  /\ at < cold => full = PerBlock * KvPerToken
    <2>1. at < cold => at + 1 < b
      BY <1>1, ColdBlocks DEF WholeBlocks
    <2> QED
      BY <1>1, <1>2, <2>1, FullBytesValue
  <1>4. PICK old \in {Fp16, Q8, Q4} : /\ old = table[id].precision /\ old <= Grade(low)
                                      /\ old # Fp16 => at < cold
                                      /\ table[id].size = FateBytes(old, full)
    BY <1>1, <1>3 DEF AsSized
  <1>5. \A x \in Nat : FateBytes(fate, x) = FateBytes(p, x)
    <2>1. p \in {Fp16, Q8, Q4}
      BY <1>2 DEF Grade
    <2>2. p # Dropped /\ FatePrecision(p) = p
      BY <2>1 DEF FatePrecision, Fp16, Q8, Q4, Dropped, Summary
    <2> QED
      BY <2>2 DEF FateBytes
  <1>6. FateBytes(Fp16, 16) = 16 /\ FateBytes(Q8, 16) = 8 /\ FateBytes(Q4, 16) = 4
    <2>1. (16 * 8) \div 16 = 8 /\ (16 * 4) \div 16 = 4
      OBVIOUS
    <2> QED
      BY <2>1, GradedBytes
  <1>7. Max({1, 16}) = 16 /\ Max({1, 8}) = 8 /\ Max({1, 4}) = 4
    <2>1. ASSUME NEW x \in Nat, x > 1 PROVE Max({1, x}) = x
      <3>1. Max({1, x}) \in {1, x} /\ Max({1, x}) >= x
        BY <2>1, MaxOfTwo
      <3> QED
        BY <2>1, <3>1
    <2> QED
      BY <2>1
  <1>8. CASE at >= cold
    <2>1. p = Fp16 /\ old = Fp16 /\ table[id].size = full
      BY <1>2, <1>3, <1>4, <1>8, GradedBytes
    <2>2. (16 * full) \div 16 = full
      OBVIOUS
    <2>3. (16 * table[id].size) \div Max({1, FateBytes(old, 16)}) = full
      BY <1>6, <1>7, <2>1, <2>2
    <2>a. FateBytes(fate, full) = full
      BY <1>5, <2>1, GradedBytes
    <2>b. Rewritten(id, fate) = Min({full, full})
      BY <1>4, <2>1, <2>3, <2>a DEF Rewritten
    <2>4. Min({full, full}) = full
      BY MinOfTwo
    <2>5. Fp16 <= Grade(high)
      BY DEF Grade, Fp16, Q8, Q4
    <2>6. \A e : e.precision = p /\ e.size = full => AsSized(e, at, high, context)
      BY <1>1, <1>2, <1>3, <2>1, <2>5, GradedBytes DEF AsSized
    <2> QED
      BY <1>3, <1>8, <2>1, <2>4, <2>6, <2>b
  <1>9. CASE at < cold
    <2>1. PICK part \in Nat \ {0} :
            /\ full = 4 * part
            /\ RoundUp(part) = part /\ RoundUp(2 * part) = 2 * part /\ RoundUp(4 * part) = 4 * part
            /\ FateBytes(Fp16, 4 * part) = 4 * part
            /\ FateBytes(Q8, 4 * part) = 2 * part /\ FateBytes(Q4, 4 * part) = part
      BY <1>3, <1>9, WholeSizes
    <2>2. p = Grade(high) /\ p \in {Fp16, Q8, Q4} /\ old <= p
      <3>1. Grade(low) \in {Fp16, Q8, Q4} /\ Grade(high) \in {Fp16, Q8, Q4} /\ Grade(low) <= Grade(high)
        BY GradeRises
      <3>2. p = Grade(high)
        BY <1>2, <1>9
      <3> QED
        BY <1>4, <3>1, <3>2 DEF Fp16, Q8, Q4
    <2>3. (16 * table[id].size) \div Max({1, FateBytes(old, 16)}) = full
      <3>1. CASE old = Fp16
        <4>1. (16 * full) \div 16 = full
          OBVIOUS
        <4> QED
          BY <1>4, <1>6, <1>7, <2>1, <3>1, <4>1
      <3>2. CASE old = Q8
        <4>1. (16 * (2 * part)) \div 8 = full
          BY <2>1
        <4> QED
          BY <1>4, <1>6, <1>7, <2>1, <3>2, <4>1
      <3>3. CASE old = Q4
        <4>1. (16 * part) \div 4 = full
          BY <2>1
        <4> QED
          BY <1>4, <1>6, <1>7, <2>1, <3>3, <4>1
      <3> QED
        BY <3>1, <3>2, <3>3
    <2>4. Rewritten(id, fate) = Min({FateBytes(p, full), table[id].size})
      BY <1>4, <1>5, <2>3 DEF Rewritten
    <2>5. PICK new \in Nat \ {0}, size \in Nat :
            /\ new = FateBytes(p, full) /\ size = table[id].size
            /\ new <= size /\ RoundUp(new) = new /\ RoundUp(size) = size
      <3>1. FateBytes(p, full) \in {4 * part, 2 * part, part}
            /\ RoundUp(FateBytes(p, full)) = FateBytes(p, full)
        BY <2>1, <2>2
      <3>2. table[id].size \in {4 * part, 2 * part, part} /\ RoundUp(table[id].size) = table[id].size
        BY <1>4, <2>1
      <3>3. FateBytes(p, full) <= table[id].size
        BY <1>4, <2>1, <2>2 DEF Fp16, Q8, Q4
      <3> QED
        BY <3>1, <3>2, <3>3
    <2>6. Rewritten(id, fate) = new
      BY <2>4, <2>5, MinOfTwo
    <2>7. Grade(high) <= Grade(high)
      BY <2>2 DEF Fp16, Q8, Q4
    <2>8. \A e : e.precision = p /\ e.size = new => AsSized(e, at, high, context)
      BY <1>1, <1>2, <1>3, <1>9, <2>2, <2>5, <2>7 DEF AsSized
    <2> QED
      BY <2>5, <2>6, <2>8
  <1> QED
    BY <1>1, <1>8, <1>9

-----------------------------------------------------------------------------
(* Every block is sized by its precision, as a third invariant. *)

\* Where arrive is with a session's blocks: those before its position are
\* entered, and the one at it once it is registered.
FreshAt(w) ==
  /\ w.at = "register" => \A id \in Objects : Entry(id) /\ id[1] = w.session => id[2] < w.block
  /\ w.at \in {"consume", "placed"} => \A id \in Objects : Entry(id) /\ id[1] = w.session => id[2] <= w.block

SInv ==
  /\ PInv
  /\ \A id \in Objects : Entry(id) => Sized(id)
  /\ walk.at = "rewrite" => sessions[walk.session].rung < walk.rung
  /\ FreshAt(walk)

LEMMA AlikeSized ==
  ASSUME NEW e, NEW new, Alike(new, e), NEW at, NEW rung, NEW context, AsSized(e, at, rung, context)
  PROVE  AsSized(new, at, rung, context)
  BY DEF Alike, AsSized

\* A step that only eases sessions and table, and does not begin or end a
\* rewrite.
LEMMA SizedFrame ==
  ASSUME SInv, PInv', Softly, FreshAt(walk'),
         walk' = walk \/ (walk.at # "rewrite" /\ walk'.at # "rewrite")
  PROVE  SInv'
  <1>1. ASSUME NEW id \in Objects, Entry(id)' PROVE Sized(id)'
    <2>1. Entry(id) /\ Alike(table'[id], table[id]) /\ id[1] \in LiveIn(sessions')
      BY <1>1 DEF Softly, FewerBlocks, Known, LiveIn
    <2>2. sessions'[id[1]].contract = sessions[id[1]].contract /\ sessions'[id[1]].rung = sessions[id[1]].rung
      BY <2>1 DEF Softly, SameTerms
    <2>3. RungOf(id)' = RungOf(id) /\ ContextOf(id)' = ContextOf(id)
      BY <2>2 DEF RungOf, ContextOf
    <2>4. AsSized(table[id], id[2], RungOf(id), ContextOf(id))
      BY <1>1, <2>1 DEF SInv, Sized
    <2>5. AsSized(table'[id], id[2], RungOf(id), ContextOf(id))
      BY <2>1, <2>4, AlikeSized
    <2>6. AsSized(table'[id], id[2], RungOf(id)', ContextOf(id)')
      BY <2>3, <2>5
    <2> QED
      BY <2>6 DEF Sized, AsSized
  <1>2. FreshAt(walk)'
    BY DEF FreshAt, Softly, FewerBlocks
  <1>3. ASSUME walk'.at = "rewrite" PROVE sessions'[walk'.session].rung < walk'.rung
    <2>1. walk' = walk /\ sessions[walk.session].rung < walk.rung
      BY <1>3 DEF SInv
    <2>2. (LInv /\ walk.at = "rewrite" => RewriteWalk)'
      BY RewritingNow, PTL
    <2>3. walk'.session \in LiveIn(sessions')
      BY <1>3, <2>2 DEF PInv, RewriteWalk, Known, LiveIn
    <2> QED
      BY <2>1, <2>3 DEF Softly, SameTerms
  <1> QED
    BY <1>1, <1>2, <1>3 DEF SInv

LEMMA SizedArrive ==
  ASSUME SInv, PInv', NEW contract \in Contracts, Arrive(contract)
  PROVE  SInv'
  <1> DEFINE s == LowestFree(sessions)
  <1>1. /\ s \in SessionIds /\ ~Known(sessions, s) /\ table' = table
        /\ sessions' = Adopt(sessions, s, contract)
        /\ walk = Off /\ walk' = Arriving("register", s, 0)
    BY DEF Arrive, CreateSession, Adoptable
  <1>2. contract \in Contract
    BY ManagerAssumption
  <1>3. sessions \in [SessionIds -> Session]
    BY DEF SInv, PInv, LInv
  <1> HIDE DEF s
  <1>4. /\ \A r : Known(sessions', r) <=> Known(sessions, r) \/ r = s
        /\ \A r \in SessionIds : r # s => sessions'[r] = sessions[r]
    BY <1>1, <1>2, <1>3, AdoptKeeps
  <1>5. walk.at = "off" /\ walk'.at = "register" /\ walk'.session = s
    BY <1>1 DEF Off, Arriving
  <1>6. ASSUME NEW id \in Objects, Entry(id)' PROVE Sized(id)' /\ id[1] # s
    <2>1. Entry(id)
      BY <1>1, <1>6 DEF Entry
    <2>2. id[1] \in LiveIn(sessions) /\ id[1] \in SessionIds
      BY <2>1, BlockEntry DEF SInv, PInv
    <2>3. id[1] # s
      BY <1>1, <2>2 DEF LiveIn, Known
    <2>4. sessions'[id[1]] = sessions[id[1]]
      BY <1>4, <2>2, <2>3
    <2>5. Sized(id)
      BY <2>1 DEF SInv
    <2> QED
      BY <1>1, <1>5, <2>3, <2>4, <2>5 DEF Sized, AsSized, RungOf, ContextOf
  <1>7. FreshAt(walk)'
    BY <1>5, <1>6 DEF FreshAt, Entry
  <1> QED
    BY <1>5, <1>6, <1>7 DEF SInv

LEMMA SizedRegister ==
  ASSUME SInv, PInv', NEW id \in Objects, NEW template \in Templates[id], walk.at = "register",
         id = <<walk.session, walk.block>>, ArriveRegister(template)
  PROVE  SInv'
  <1>0. PInv /\ LInv
    BY DEF SInv, PInv
  <1>1. ArrivingWalk
    BY <1>0, ArrivingNow
  <1>2. PICK s \in SessionIds, at \in Nat, context \in Nat :
          /\ s = walk.session /\ at = walk.block /\ context = sessions[s].contract.context
          /\ s \in LiveIn(sessions)
    <2>1. walk.session \in SessionIds /\ walk.block \in Nat /\ walk.session \in LiveIn(sessions)
      BY <1>1 DEF ArrivingWalk, Known, LiveIn
    <2>2. sessions[walk.session].contract.context \in Nat
      BY <1>0, <2>1, LiveTerms DEF LInv
    <2> QED
      BY <2>1, <2>2
  <1>3. id[1] = s /\ id[2] = at
    BY <1>2
  <1>4. sessions \in [SessionIds -> Session] /\ IsTable(table) /\ sessions[s].rung = 0
    BY <1>0, <1>2 DEF PInv, LInv, Blocked
  <1>6. template \in Meta /\ template.precision = 1 /\ template.size = KvPerToken /\ KvPerToken \in Nat
    BY TemplatesAssumption, LadderAssumption
  <1>7. PICK full \in Nat : full = FullBytes(at, context, KvPerToken)
    BY <1>2, <1>6, FullBytesTyped
  <1> DEFINE e == [template EXCEPT !.owner = s, !.size = full]
  <1>8. /\ at < Blocks(context) /\ sessions' = sessions
        /\ table' = [table EXCEPT ![id] = e] /\ walk' = [walk EXCEPT !.at = "consume"]
    BY <1>2, <1>6, <1>7 DEF ArriveRegister, Register
  <1>9. e.precision = 1 /\ e.size = full
    BY <1>6, <1>7 DEF Meta
  <1> HIDE DEF e
  <1>10. table'[id] = e /\ \A o \in Objects : o # id => table'[o] = table[o]
    BY <1>4, <1>8 DEF IsTable
  <1>11. walk'.at = "consume" /\ walk'.session = s /\ walk'.block = at
    BY <1>1, <1>2, <1>8 DEF ArrivingWalk
  <1>13. AsSized(e, at, 0, context)
    <2>1. Grade(0) = Fp16
      BY DEF Grade
    <2>2. FateBytes(Fp16, full) = full
      BY GradedBytes
    <2> QED
      BY <1>7, <1>8, <1>9, <2>1, <2>2 DEF AsSized, Fp16
  <1>14. Sized(id)'
    <2>1. RungOf(id)' = 0 /\ ContextOf(id)' = context
      BY <1>2, <1>3, <1>4, <1>8, <1>11 DEF RungOf, ContextOf
    <2>2. AsSized(table'[id], id[2], RungOf(id)', ContextOf(id)')
      BY <1>3, <1>10, <1>13, <2>1
    <2> QED
      BY <2>2 DEF Sized, AsSized
  <1>15. ASSUME NEW o \in Objects, o # id, Entry(o)' PROVE Sized(o)'
    <2>1. Sized(o)
      BY <1>10, <1>15 DEF SInv, Entry
    <2> QED
      BY <1>8, <1>10, <1>11, <1>15, <2>1 DEF Sized, AsSized, RungOf, ContextOf
  <1>16. FreshAt(walk)'
    <2> SUFFICES ASSUME NEW o \in Objects, Entry(o)', o[1] = s PROVE o[2] <= at
      BY <1>11 DEF FreshAt, Entry
    <2>1. CASE o = id
      BY <1>2, <1>3, <2>1
    <2>2. CASE o # id
      <3>1. o[2] < at
        BY <1>2, <1>10, <2>2 DEF SInv, FreshAt, Entry
      <3>2. o[2] \in Nat
        BY LadderAssumption
      <3> QED
        BY <1>2, <3>1, <3>2
    <2> QED
      BY <2>1, <2>2
  <1> QED
    BY <1>11, <1>14, <1>15, <1>16 DEF SInv

LEMMA SizedDeepen ==
  ASSUME SInv, PInv', NEW s \in SessionIds, DeepenSession(s)
  PROVE  SInv'
  <1>1. /\ UNCHANGED vars /\ walk.at = "deepen" /\ Movable(s, walk.rung)
        /\ walk'.at = "rewrite" /\ walk'.session = s /\ walk'.rung = walk.rung
        /\ walk'.left = {id \in Objects : id[1] = s /\ Entry(id)}
    BY DEF DeepenSession
  <1>2. table' = table /\ sessions' = sessions
    BY <1>1 DEF vars
  <1>3. ASSUME NEW id \in Objects, Entry(id)' PROVE Sized(id)'
    <2>1. Entry(id) /\ Sized(id)
      BY <1>2, <1>3 DEF SInv, Entry
    <2>2. RungOf(id)' = RungOf(id)
      BY <1>1, <1>2, <2>1 DEF RungOf
    <2> QED
      BY <1>2, <2>1, <2>2 DEF Sized, AsSized, ContextOf
  <1>4. sessions'[walk'.session].rung < walk'.rung
    BY <1>1, <1>2 DEF Movable
  <1> QED
    BY <1>1, <1>3, <1>4 DEF SInv, FreshAt

\* What a step of a rewrite leaves of the blocks it does not write.
LEMMA OthersSized ==
  ASSUME SInv, walk.at = "rewrite", NEW id, NEW o \in Objects, o # id, Entry(o)', SameTerms,
         Entry(o) /\ Alike(table'[o], table[o]) /\ o[1] \in LiveIn(sessions'),
         walk'.at = "rewrite", walk'.session = walk.session, walk'.rung = walk.rung,
         walk'.left = walk.left \ {id}
  PROVE  Sized(o)'
  <1>1. RungOf(o)' = RungOf(o) /\ ContextOf(o)' = ContextOf(o)
    BY DEF RungOf, ContextOf, SameTerms
  <1>2. AsSized(table[o], o[2], RungOf(o), ContextOf(o))
    BY DEF SInv, Sized
  <1>3. AsSized(table'[o], o[2], RungOf(o)', ContextOf(o)')
    BY <1>1, <1>2, AlikeSized
  <1> QED
    BY <1>3 DEF Sized, AsSized

\* A block keeps its size as its rung deepens.
LEMMA SizedDeeper ==
  ASSUME NEW e, NEW at, NEW low \in 0 .. 5, NEW high \in 0 .. 5, low <= high, NEW context,
         AsSized(e, at, low, context)
  PROVE  AsSized(e, at, high, context)
  <1>1. Grade(low) \in {Fp16, Q8, Q4} /\ Grade(high) \in {Fp16, Q8, Q4} /\ Grade(low) <= Grade(high)
    BY GradeRises
  <1> QED
    BY <1>1 DEF AsSized, Fp16, Q8, Q4

LEMMA SizedRefused ==
  ASSUME SInv, PInv', NEW id \in Objects, RewriteRefused(id)
  PROVE  SInv'
  <1>0. PInv /\ LInv
    BY DEF SInv, PInv
  <1>1. /\ UNCHANGED vars /\ walk.at = "rewrite" /\ id \in walk.left
        /\ walk' = [walk EXCEPT !.left = @ \ {id}]
    BY DEF RewriteRefused
  <1>2. table' = table /\ sessions' = sessions
    BY <1>1 DEF vars
  <1>3. RewriteWalk
    BY <1>0, <1>1, RewritingNow
  <1>4. /\ walk'.at = "rewrite" /\ walk'.session = walk.session /\ walk'.rung = walk.rung
        /\ walk'.left = walk.left \ {id} /\ id[1] = walk.session /\ Entry(id)
    BY <1>1, <1>3 DEF RewriteWalk
  <1>5. SameTerms /\ \A o \in Objects : Entry(o)' => Entry(o) /\ Alike(table'[o], table[o]) /\ o[1] \in LiveIn(sessions')
    <2>1. Softly
      BY <1>0, <1>1, StillSoft
    <2> QED
      BY <2>1 DEF Softly, FewerBlocks, Known, LiveIn
  <1>6. ASSUME NEW o \in Objects, o # id, Entry(o)' PROVE Sized(o)'
    BY <1>1, <1>4, <1>5, <1>6, OthersSized
  <1>7. Sized(id)'
    <2>1. PICK low \in 0 .. 5, high \in 0 .. 5 :
            low = sessions[walk.session].rung /\ high = walk.rung /\ low <= high
      <3>1. walk.session \in LiveIn(sessions) /\ walk.rung \in 1 .. 5
        BY <1>3 DEF RewriteWalk, Known, LiveIn
      <3>2. sessions[walk.session].rung \in 0 .. 5
        BY <1>0, <3>1, LiveTerms DEF LInv
      <3> QED
        BY <1>1, <3>1, <3>2 DEF SInv
    <2>2. AsSized(table[id], id[2], low, ContextOf(id))
      <3>1. RungOf(id) = low
        BY <1>1, <1>4, <2>1 DEF RungOf
      <3> QED
        BY <1>4, <3>1 DEF SInv, Sized
    <2>3. AsSized(table[id], id[2], high, ContextOf(id))
      BY <2>1, <2>2, SizedDeeper
    <2>4. RungOf(id)' = high /\ ContextOf(id)' = ContextOf(id)
      BY <1>2, <1>4, <2>1 DEF RungOf, ContextOf
    <2> QED
      BY <1>2, <2>3, <2>4 DEF Sized, AsSized
  <1>8. sessions'[walk'.session].rung < walk'.rung
    BY <1>1, <1>2, <1>4 DEF SInv
  <1> QED
    BY <1>4, <1>6, <1>7, <1>8 DEF SInv, FreshAt

LEMMA SizedStepDone ==
  ASSUME SInv, PInv', StepDone
  PROVE  SInv'
  <1>0. PInv /\ LInv
    BY DEF SInv, PInv
  <1>1. RewriteWalk
    BY <1>0, RewritingNow DEF StepDone
  <1>2. PICK s \in SessionIds, q \in 1 .. 5 : s = walk.session /\ q = walk.rung /\ s \in LiveIn(sessions)
    BY <1>1 DEF RewriteWalk, Known, LiveIn
  <1>3. sessions \in [SessionIds -> Session]
    BY <1>0 DEF LInv
  <1> DEFINE old == sessions[s]
             coarsest == walk.coarsest
             deepest == Max({old.deepest, q})
             new == [old EXCEPT !.rung = q, !.coarsest = coarsest, !.deepest = deepest]
  <1>4. /\ table' = table /\ walk.at = "rewrite" /\ walk.left = {}
        /\ sessions' = [sessions EXCEPT ![s] = new]
        /\ walk' = [at |-> "deepen", rung |-> q]
    BY <1>2 DEF StepDone
  <1>5. old \in LiveRecord
    BY <1>2, <1>3, LiveTerms
  <1> HIDE DEF deepest, coarsest
  <1>6. new.contract = old.contract /\ new.rung = q
    <2> HIDE DEF old
    <2> QED
      BY <1>5 DEF LiveRecord
  <1> HIDE DEF new
  <1>7. sessions'[s] = new /\ \A r \in SessionIds : r # s => sessions'[r] = sessions[r]
    BY <1>2, <1>3, <1>4
  <1>10. ASSUME NEW o \in Objects, Entry(o)' PROVE Sized(o)'
    <2>1. Entry(o) /\ Sized(o)
      BY <1>4, <1>10 DEF SInv, Entry
    <2>2. o[1] \in SessionIds
      BY <1>0, <2>1, BlockEntry
    <2>3. RungOf(o)' = RungOf(o) /\ ContextOf(o)' = ContextOf(o)
      BY <1>2, <1>4, <1>6, <1>7, <2>2 DEF RungOf, ContextOf
    <2> QED
      BY <1>4, <2>1, <2>3 DEF Sized, AsSized
  <1> QED
    BY <1>4, <1>10 DEF SInv, FreshAt

LEMMA SizedStarts == LadderInit => SInv
  <1> SUFFICES ASSUME LadderInit PROVE SInv
    OBVIOUS
  <1>1. table = [id \in Objects |-> NoMeta] /\ walk = Off
    BY DEF LadderInit, Init
  <1>2. (\A id \in Objects : ~Entry(id)) /\ walk.at = "off"
    BY <1>1 DEF Entry, Off
  <1> QED
    BY <1>2, PlanStarts DEF SInv, FreshAt

\* The moves of the walk that touch no block.
LEMMA SizedWalks ==
  ASSUME SInv, PInv',
         \/ ArriveConsume \/ ArrivePlaced \/ ArriveDone
         \/ SqueezeFits \/ SqueezeDeepen \/ SqueezeTerminate \/ Terminated \/ DeepenDone
         \/ \E bytes \in Budgets : Squeeze(bytes)
  PROVE  SInv'
  <1>0. PInv /\ LInv
    BY DEF SInv, PInv
  <1>1. CASE ArriveConsume
    <2>1. ArrivingWalk /\ walk' = [walk EXCEPT !.at = "placed"] /\ walk.at = "consume"
      BY <1>0, <1>1, ArrivingNow DEF ArriveConsume
    <2>2. walk'.at = "placed" /\ walk'.session = walk.session /\ walk'.block = walk.block
      BY <2>1 DEF ArrivingWalk
    <2>3. FreshAt(walk')
      BY <2>1, <2>2 DEF SInv, FreshAt
    <2> QED
      BY <1>0, <1>1, <2>1, <2>2, <2>3, ArriveConsumeStep, SizedFrame
  <1>2. CASE ArrivePlaced
    <2>1. UNCHANGED vars /\ walk.at = "placed"
      BY <1>2 DEF ArrivePlaced
    <2>2. walk' = Off \/ walk' = Arriving("register", walk.session, walk.block + 1)
      BY <1>2 DEF ArrivePlaced
    <2>3. walk'.at = "off" \/ (walk'.at = "register" /\ walk'.session = walk.session /\ walk'.block = walk.block + 1)
      BY <2>2 DEF Off, Arriving
    <2>4. FreshAt(walk')
      <3>1. \A id \in Objects : id[2] \in Nat
        BY LadderAssumption
      <3>2. walk.block \in Nat
        BY <1>0, <2>1, ArrivingNow DEF ArrivingWalk
      <3>3. ASSUME walk'.at = "register", NEW id \in Objects, Entry(id), id[1] = walk'.session
            PROVE  id[2] < walk'.block
        <4>1. id[2] <= walk.block /\ id[2] \in Nat
          BY <2>1, <2>3, <3>1, <3>3 DEF SInv, FreshAt
        <4> QED
          BY <2>3, <3>2, <3>3, <4>1
      <3> QED
        BY <2>3, <3>3 DEF FreshAt
    <2> QED
      BY <1>0, <2>1, <2>3, <2>4, StillSoft, SizedFrame
  <1>3. CASE ArriveDone \/ SqueezeFits \/ SqueezeDeepen \/ Terminated \/ DeepenDone \/ \E bytes \in Budgets : Squeeze(bytes)
    <2>1. UNCHANGED vars /\ walk.at \in {"register", "off", "next", "terminate", "deepen"}
      BY <1>3 DEF ArriveDone, SqueezeFits, SqueezeDeepen, Terminated, DeepenDone, Squeeze, Off
    <2>2. walk'.at \in {"off", "next", "deepen"}
      BY <1>3 DEF ArriveDone, SqueezeFits, SqueezeDeepen, Terminated, DeepenDone, Squeeze, Off
    <2>3. FreshAt(walk')
      BY <2>2 DEF FreshAt
    <2> QED
      BY <1>0, <2>1, <2>2, <2>3, StillSoft, SizedFrame
  <1>4. CASE SqueezeTerminate
    <2>1. table' = table /\ sessions' = sessions /\ walk.at = "next" /\ walk'.at = "terminate"
      BY <1>4 DEF SqueezeTerminate, DestroySession
    <2>2. FreshAt(walk')
      BY <2>1 DEF FreshAt
    <2> QED
      BY <1>0, <2>1, <2>2, StillSoft, SizedFrame
  <1> QED
    BY <1>1, <1>2, <1>3, <1>4

LEMMA SizedRewrite ==
  ASSUME WholeBlocks, SInv, PInv', NEW id \in Objects, Rewrite(id)
  PROVE  SInv'
  <1>0. PInv /\ LInv
    BY DEF SInv, PInv
  <1>1. RewriteWalk /\ walk.at = "rewrite" /\ id \in walk.left
    BY <1>0, RewritingNow DEF Rewrite
  <1>2. PICK s, q, context, low, fate :
          /\ s \in SessionIds /\ s = walk.session /\ s \in LiveIn(sessions)
          /\ q \in 1 .. 5 /\ q = walk.rung
          /\ context = sessions[s].contract.context /\ low = sessions[s].rung
          /\ fate = Fate(q, id[2], Blocks(context))
    BY <1>1 DEF RewriteWalk, Known, LiveIn
  <1>3. /\ Entry(id) /\ id[1] = s /\ id[2] \in Nat
        /\ IsBlock(table[id]) /\ table[id].size \in Nat /\ table[id].precision \in Precision
    BY <1>0, <1>1, <1>2, BlockEntry, LadderAssumption DEF RewriteWalk
  <1>4. context \in Nat /\ Blocks(context) \in Int /\ low \in 0 .. 5
    BY <1>0, <1>2, LiveTerms, BlocksCounted DEF LInv
  <1>5. low < q
    BY <1>1, <1>2 DEF SInv
  <1>6. CASE fate = Dropped
    <2>1. RewriteDropped(id) /\ walk' = [walk EXCEPT !.left = @ \ {id}]
      BY <1>2, <1>6 DEF Rewrite
    <2>2. FewerBlocks /\ Lesser(sessions, sessions') /\ ~Entry(id)'
      <3>1. CASE Evict(id, NoMeta)
        BY <1>0, <3>1, EvictBlocks
      <3>2. CASE ~Evict(id, NoMeta)
        <4>1. table' = [table EXCEPT ![id] = NoMeta] /\ sessions' = sessions
          BY <2>1, <3>2 DEF RewriteDropped
        <4> QED
          BY <1>0, <1>3, <4>1, BlockWritten, SameLesser DEF LInv
      <3> QED
        BY <3>1, <3>2
    <2>3. /\ walk'.at = "rewrite" /\ walk'.session = walk.session /\ walk'.rung = walk.rung
          /\ walk'.left = walk.left \ {id}
      BY <1>1, <2>1 DEF RewriteWalk
    <2>4. SameTerms /\ \A o \in Objects : Entry(o)' => Entry(o) /\ Alike(table'[o], table[o]) /\ o[1] \in LiveIn(sessions')
      BY <2>2 DEF Lesser, SameTerms, FewerBlocks, Known, LiveIn
    <2>5. ASSUME NEW o \in Objects, Entry(o)' PROVE Sized(o)'
      BY <1>1, <2>2, <2>3, <2>4, <2>5, OthersSized
    <2>6. sessions'[walk'.session].rung < walk'.rung
      <3>1. walk'.session \in LiveIn(sessions')
        <4>1. (LInv /\ walk.at = "rewrite" => RewriteWalk)'
          BY RewritingNow, PTL
        <4> QED
          BY <2>3, <4>1 DEF PInv, RewriteWalk, Known, LiveIn
      <3> QED
        BY <1>2, <1>5, <2>3, <2>4, <3>1 DEF SameTerms
    <2> QED
      BY <2>3, <2>5, <2>6 DEF SInv, FreshAt
  <1>7. CASE fate # Dropped
    <2>1. FatePrecision(fate) \in Precision /\ fate \in {Fp16, Q8, Q4, Summary}
      BY <1>2, <1>3, <1>4, <1>7, FateFine
    <2>2. fate \in Precision \cup {Summary}
      BY <2>1 DEF Precision, Fp16, Q8, Q4
    <2> DEFINE coarsest == Max({walk.coarsest, FatePrecision(fate)})
    <2>3. RewriteKept(id, fate) /\ walk' = [walk EXCEPT !.left = @ \ {id}, !.coarsest = coarsest]
      BY <1>2, <1>7 DEF Rewrite
    <2> HIDE DEF coarsest
    <2>4. /\ Lesser(sessions, sessions') /\ LiveIn(sessions') = LiveIn(sessions)
          /\ table'[id].precision = FatePrecision(fate) /\ table'[id].size = Rewritten(id, fate)
          /\ \A o \in Objects : o # id => table'[o] = table[o]
      BY <1>0, <1>3, <2>1, <2>2, <2>3, KeptBlock
    <2>5. /\ walk'.at = "rewrite" /\ walk'.session = walk.session /\ walk'.rung = walk.rung
          /\ walk'.left = walk.left \ {id}
      BY <1>1, <2>3 DEF RewriteWalk
    <2>6. SameTerms /\ s \in LiveIn(sessions')
      BY <1>2, <2>4 DEF Lesser, SameTerms
    <2>7. ASSUME NEW o \in Objects, o # id, Entry(o)' PROVE Sized(o)'
      <3>1. Entry(o) /\ Alike(table'[o], table[o]) /\ o[1] \in LiveIn(sessions')
        BY <1>0, <2>4, <2>7, BlockEntry DEF Entry, Alike
      <3> QED
        BY <1>1, <2>5, <2>6, <2>7, <3>1, OthersSized
    <2>8. Sized(id)'
      <3>1. AsSized(table[id], id[2], low, context)
        <4>1. RungOf(id) = low /\ ContextOf(id) = context
          BY <1>1, <1>2, <1>3 DEF RungOf, ContextOf
        <4>2. AsSized(table[id], id[2], RungOf(id), ContextOf(id))
          BY <1>3 DEF SInv, Sized
        <4> QED
          BY <4>1, <4>2
      <3>2. PICK at \in Nat : at = id[2]
        BY <1>3
      <3>3. \A e : e.precision = FatePrecision(fate) /\ e.size = Rewritten(id, fate) => AsSized(e, at, q, context)
        <4>1. AsSized(table[id], at, low, context) /\ fate = Fate(q, at, Blocks(context))
          BY <1>2, <3>1, <3>2
        <4>2. PICK tokens \in Nat, before \in 0 .. 5, after \in 1 .. 5 :
                tokens = context /\ before = low /\ after = q
          BY <1>2, <1>4
        <4>3. /\ before < after /\ AsSized(table[id], at, before, tokens)
              /\ fate = Fate(after, at, Blocks(tokens))
          BY <1>5, <4>1, <4>2
        <4> QED
          BY <1>7, <4>2, <4>3, RewrittenSize
      <3>5. AsSized(table'[id], at, q, context)
        BY <2>4, <3>3
      <3>6. RungOf(id)' = q /\ ContextOf(id)' = context
        <4>1. id \notin walk'.left
          BY <2>5
        <4>2. sessions'[s].contract = sessions[s].contract
          BY <1>2, <2>4 DEF Lesser
        <4> QED
          BY <1>2, <1>3, <2>5, <4>1, <4>2 DEF RungOf, ContextOf
      <3>7. AsSized(table'[id], id[2], RungOf(id)', ContextOf(id)')
        BY <3>2, <3>5, <3>6
      <3> QED
        BY <3>7 DEF Sized, AsSized
    <2>9. sessions'[walk'.session].rung < walk'.rung
      BY <1>2, <1>5, <2>5, <2>6 DEF SameTerms
    <2> QED
      BY <2>5, <2>7, <2>8, <2>9 DEF SInv, FreshAt
  <1> QED
    BY <1>6, <1>7

LEMMA SizedSteps == WholeBlocks /\ SInv /\ [LadderNext]_ladderVars => SInv'
  <1> SUFFICES ASSUME WholeBlocks, SInv, [LadderNext]_ladderVars PROVE SInv'
    OBVIOUS
  <1>0. LInv /\ PInv' /\ PInv
    BY PlanSteps DEF SInv, PInv
  <1>1. CASE JobStep /\ UNCHANGED <<budget, walk, fitted, skipped, moves, calls>>
    <2>1. FreshAt(walk')
      BY <1>1 DEF SInv
    <2> QED
      BY <1>0, <1>1, <2>1, JobSteps, SizedFrame
  <1>2. CASE WalkStep
    <2>1. CASE \E id \in Objects : \E template \in Templates[id] :
                 walk.at = "register" /\ id = <<walk.session, walk.block>> /\ ArriveRegister(template)
      BY <1>0, <2>1, SizedRegister
    <2>2. CASE \/ ArriveConsume \/ ArrivePlaced \/ ArriveDone
               \/ SqueezeFits \/ SqueezeDeepen \/ SqueezeTerminate \/ Terminated \/ DeepenDone
      BY <1>0, <2>2, SizedWalks
    <2>3. CASE StepDone \/ \E s \in SessionIds : DeepenSession(s)
      BY <1>0, <2>3, SizedStepDone, SizedDeepen
    <2>4. CASE \E id \in Objects : Rewrite(id) \/ RewriteRefused(id)
      BY <1>0, <2>4, SizedRewrite, SizedRefused
    <2> QED
      BY <1>2, <2>1, <2>2, <2>3, <2>4 DEF WalkStep
  <1>3. CASE \E contract \in Contracts : Arrive(contract)
    BY <1>0, <1>3, SizedArrive
  <1>4. CASE \E bytes \in Budgets : Squeeze(bytes)
    BY <1>0, <1>4, SizedWalks
  <1>5. CASE /\ walk = Off
             /\ \/ \E p \in Providers : Attach(p)
                \/ \E id \in Objects : Consume(id)
             /\ UNCHANGED <<budget, walk, fitted, skipped, moves, calls>>
    <2>1. FreshAt(walk')
      BY <1>5 DEF SInv
    <2> QED
      BY <1>0, <1>5, <2>1, BetweenWalks, SizedFrame
  <1>6. CASE \E s \in SessionIds : EndSession(s)
    <2>1. PICK s \in SessionIds : EndSession(s)
      BY <1>6
    <2>2. walk = Off /\ walk' = walk /\ moves' = moves /\ DestroySession(s)
      BY <2>1 DEF EndSession
    <2>3. FreshAt(walk')
      BY <2>2 DEF SInv
    <2> QED
      BY <1>0, <2>2, <2>3, BetweenWalks, SizedFrame
  <1>7. CASE UNCHANGED ladderVars
    <2>1. UNCHANGED vars /\ walk' = walk
      BY <1>7 DEF ladderVars
    <2>2. FreshAt(walk')
      BY <2>1 DEF SInv
    <2> QED
      BY <1>0, <2>1, <2>2, StillSoft, SizedFrame
  <1> QED
    BY <1>1, <1>2, <1>3, <1>4, <1>5, <1>6, <1>7 DEF LadderNext

-----------------------------------------------------------------------------
(* The manager's invariants, under the ladder: arrive and squeeze call the   *)
(* manager, but for the blocks squeeze rewrites in place.                    *)

\* An object that gives its tail back keeps the bytes before it.
LEMMA ShrinkSpace ==
  ASSUME Space, Tabled, NEW id \in Objects, Resident(id), Evictable, UNCHANGED env,
         NEW e, table' = [table EXCEPT ![id] = e], e # NoMeta, e.at = table[id].at,
         NEW old, NEW new \in Nat \ {0}, old = RoundUp(table[id].size), new = RoundUp(e.size), new < old,
         free' = Give(free, table[id].at - Base + new, old - new), used' = used - (old - new)
  PROVE  Space'
  <1> USE ManagerAssumption
  <1> DEFINE from == table[id].at - Base
  <1>1. /\ old \in Nat \ {0} /\ from \in Nat /\ from + old <= Capacity /\ ClearOf(free, from, old)
        /\ table[id].at \in Nat /\ table[id].at = Base + from
    BY ResidentObject
  <1>2. PICK at \in Nat, len \in Nat \ {0} : at = from + new /\ len = old - new
    BY <1>1
  <1>3. Len(free) < Holes
    BY DEF Evictable
  <1>4. free \in Seq(Hole) /\ WellFormed(free, Capacity) /\ used \in 0 .. Capacity /\ Len(free) \in Nat
    BY DEF Space
  <1>5. at + len <= Capacity /\ \A b \in Int : at <= b /\ b < at + len => ~Covers(free, b)
    <2>1. at + len = from + old
      BY <1>1, <1>2
    <2>2. \A b \in Int : at <= b => from <= b
      BY <1>1, <1>2
    <2> QED
      BY <1>1, <2>1, <2>2 DEF ClearOf
  <1>6. free' = Give(free, at, len) /\ used' = used - len
    BY <1>2
  <1> HIDE DEF from
  <1>7. /\ free' \in Seq(Hole) /\ Len(free') <= Len(free) + 1 /\ WellFormed(free', Capacity)
        /\ \A b \in Int : Covers(free', b) <=> Covers(free, b) \/ (at <= b /\ b < at + len)
    BY <1>4, <1>5, <1>6, GiveKeeps
  <1>8. Cardinality(NotFree(free', Capacity)) = Cardinality(NotFree(free, Capacity)) - len
    BY <1>4, <1>5, <1>6, GiveCounts
  <1>9. used' = Cardinality(NotFree(free', Capacity)) /\ used' \in 0 .. Capacity
    <2>1. used = Cardinality(NotFree(free, Capacity))
      BY DEF Space, NothingLeaked, NotFree, Region, Bytes
    <2>2. NotFree(free', Capacity) \in SUBSET Region(Capacity)
      BY DEF NotFree
    <2>3. Cardinality(NotFree(free', Capacity)) \in 0 .. Capacity
      BY <2>2, BytesFinite
    <2> QED
      BY <1>6, <1>8, <2>1, <2>3
  <1>10. Len(free') <= Holes
    BY <1>3, <1>4, <1>7
  <1>11. table'[id] = e /\ \A other \in Objects : other # id => table'[other] = table[other]
    BY DEF Tabled
  <1>12. \A other \in Objects : Resident(other)' => Resident(other)
    BY <1>11 DEF Resident, Entry
  <1>13. Resident(id)' /\ Beyond(id)' = Base + at /\ table'[id].at = Base + from
    BY <1>1, <1>2, <1>11 DEF Resident, Entry, Beyond
  <1>14. ASSUME NEW other \in Objects, Resident(other)'
         PROVE  /\ Base <= table'[other].at /\ Beyond(other)' <= Base + Capacity
                /\ \A i \in DOMAIN free' :
                     Beyond(other)' <= Base + free'[i].at \/ Base + End(free'[i]) <= table'[other].at
    <2>1. PICK o \in Nat, n \in Nat \ {0} :
            /\ table'[other].at = Base + o /\ Beyond(other)' = Base + o + n
            /\ o + n <= Capacity /\ ClearOf(free, o, n)
            /\ at + len <= o \/ o + n <= at
      <3>1. CASE other = id
        <4>1. ClearOf(free, from, new)
          BY <1>1 DEF ClearOf
        <4>2. from + new <= Capacity /\ from + new <= at
          BY <1>1, <1>2
        <4> QED
          BY <1>1, <1>2, <1>13, <3>1, <4>1, <4>2
      <3>2. CASE other # id
        <4> DEFINE o == table[other].at - Base
                   n == RoundUp(table[other].size)
        <4>1. Resident(other) /\ table'[other] = table[other]
          BY <1>11, <1>12, <1>14, <3>2
        <4>2. /\ n \in Nat \ {0} /\ o \in Nat /\ o + n <= Capacity /\ ClearOf(free, o, n)
              /\ table[other].at \in Nat
          BY <4>1, ResidentObject
        <4>3. table[id].at + old <= table[other].at \/ table[other].at + n <= table[id].at
          BY <3>2, <4>1, ResidentsApart
        <4>4. at + len <= o \/ o + n <= at
          <5>1. table[other].at = Base + o
            BY <4>2
          <5> HIDE DEF o, n
          <5> QED
            BY <1>1, <1>2, <4>2, <4>3, <5>1
        <4>5. table'[other].at = Base + o /\ Beyond(other)' = Base + o + n
          BY <4>1, <4>2 DEF Beyond
        <4> HIDE DEF o, n
        <4> QED
          BY <4>2, <4>4, <4>5
      <3> QED
        BY <3>1, <3>2
    <2>2. ClearOf(free', o, n)
      <3> SUFFICES ASSUME NEW b \in Int, o <= b, b < o + n
                   PROVE  ~Covers(free', b)
        BY DEF ClearOf
      <3>1. ~Covers(free, b)
        BY <2>1 DEF ClearOf
      <3>2. ~(at <= b /\ b < at + len)
        BY <2>1
      <3> QED
        BY <1>7, <3>1, <3>2
    <2>3. \A i \in 1 .. Len(free') : o + n <= free'[i].at \/ End(free'[i]) <= o
      BY <1>7, <2>1, <2>2, ClearIsApart
    <2>4. ASSUME NEW i \in DOMAIN free'
          PROVE  Beyond(other)' <= Base + free'[i].at \/ Base + End(free'[i]) <= table'[other].at
      <3>1. i \in 1 .. Len(free')
        BY <1>7
      <3>2. free'[i].at \in Nat /\ End(free'[i]) \in Nat
        BY <1>7, <3>1, HoleOf
      <3>3. o + n <= free'[i].at \/ End(free'[i]) <= o
        BY <2>3, <3>1
      <3> QED
        BY <2>1, <3>2, <3>3
    <2> QED
      BY <2>1, <2>4
  <1>15. ResidentApart'
    <2>1. ASSUME NEW x \in Objects, NEW y \in Objects, Resident(x)', Resident(y)', x # y
          PROVE  Beyond(x)' <= table'[y].at \/ Beyond(y)' <= table'[x].at
      <3>1. Resident(x) /\ Resident(y)
        BY <1>12, <2>1
      <3>2. /\ table[x].at \in Nat /\ table[y].at \in Nat
            /\ RoundUp(table[x].size) \in Nat /\ RoundUp(table[y].size) \in Nat
        BY <3>1, ResidentObject
      <3>3. \/ table[x].at + RoundUp(table[x].size) <= table[y].at
            \/ table[y].at + RoundUp(table[y].size) <= table[x].at
        BY <2>1, <3>1, ResidentsApart
      <3>4. CASE x = id
        <4>1. table'[y] = table[y] /\ table'[x].at = table[x].at /\ RoundUp(table'[x].size) = new
          BY <1>11, <2>1, <3>4
        <4>2. new < RoundUp(table[x].size)
          BY <3>4
        <4> QED
          BY <3>2, <3>3, <4>1, <4>2 DEF Beyond
      <3>5. CASE y = id
        <4>1. table'[x] = table[x] /\ table'[y].at = table[y].at /\ RoundUp(table'[y].size) = new
          BY <1>11, <2>1, <3>5
        <4>2. new < RoundUp(table[y].size)
          BY <3>5
        <4> QED
          BY <3>2, <3>3, <4>1, <4>2 DEF Beyond
      <3>6. CASE x # id /\ y # id
        BY <1>11, <3>3, <3>6 DEF Beyond
      <3> QED
        BY <3>4, <3>5, <3>6
    <2> QED
      BY <1>14, <2>1 DEF ResidentApart, ResidentSet
  <1>16. NothingLeaked'
    <2>1. ASSUME env \subseteq {"stale_release", "orphans"}, NEW b \in Bytes
          PROVE  Covers(free', b) \/ \E o \in Objects : Resident(o)' /\ Within(b, o)'
      <3>1. b \in Int
        BY DEF Bytes
      <3>2. CASE Covers(free, b)
        BY <1>7, <3>1, <3>2
      <3>3. ASSUME NEW o \in Objects, Resident(o), Within(b, o)
            PROVE  Covers(free', b) \/ (Resident(o)' /\ Within(b, o)')
        <4>1. CASE o = id
          <5>1. from <= b /\ b < from + old
            BY <1>1, <3>1, <3>3, <4>1 DEF Within, Beyond
          <5>2. CASE b < at
            BY <1>13, <3>1, <4>1, <5>1, <5>2, <1>1, <1>2 DEF Within
          <5>3. CASE at <= b
            <6>1. b < at + len
              BY <1>1, <1>2, <3>1, <5>1
            <6> QED
              BY <1>7, <3>1, <5>3, <6>1
          <5> QED
            BY <1>2, <3>1, <5>2, <5>3
        <4>2. CASE o # id
          <5>1. table'[o] = table[o]
            BY <1>11, <4>2
          <5> QED
            BY <3>3, <5>1 DEF Resident, Entry, Within, Beyond
        <4> QED
          BY <4>1, <4>2
      <3> QED
        BY <2>1, <3>2, <3>3 DEF Space, NothingLeaked
    <2> QED
      BY <1>9, <2>1 DEF NothingLeaked, NotFree, Region, Bytes
  <1> QED
    BY <1>7, <1>9, <1>10, <1>15, <1>16 DEF Space

\* What a rewrite makes of the size of a block it keeps.
LEMMA KeptSize ==
  ASSUME WholeBlocks, SInv, NEW id \in Objects, walk.at = "rewrite", id \in walk.left,
         NEW fate, fate = Fate(walk.rung, id[2], Blocks(sessions[walk.session].contract.context)),
         fate # Dropped
  PROVE  /\ \E old \in Nat \ {0}, size \in Nat \ {0} :
              /\ old = table[id].size /\ size = Rewritten(id, fate) /\ size <= old
              /\ size # old => RoundUp(size) = size /\ RoundUp(old) = old
         /\ FatePrecision(fate) \in Precision /\ IsBlock(table[id]) /\ Entry(id)
  <1>0. PInv /\ LInv
    BY DEF SInv, PInv
  <1>1. RewriteWalk
    BY <1>0, RewritingNow
  <1>2. PICK s \in SessionIds, q \in 1 .. 5, at \in Nat :
          s = walk.session /\ s \in LiveIn(sessions) /\ q = walk.rung /\ at = id[2] /\ id[1] = s /\ Entry(id)
    BY <1>1, LadderAssumption DEF RewriteWalk, Known, LiveIn
  <1>3. PICK context \in Nat, low \in 0 .. 5 :
          context = sessions[s].contract.context /\ low = sessions[s].rung /\ low < q
    <2>1. sessions[s].contract.context \in Nat /\ sessions[s].rung \in 0 .. 5
      BY <1>0, <1>2, LiveTerms DEF LInv
    <2> QED
      BY <1>2, <2>1 DEF SInv
  <1>4. AsSized(table[id], at, low, context) /\ fate = Fate(q, at, Blocks(context))
    <2>1. RungOf(id) = low /\ ContextOf(id) = context
      BY <1>2, <1>3 DEF RungOf, ContextOf
    <2>2. AsSized(table[id], id[2], RungOf(id), ContextOf(id))
      BY <1>2 DEF SInv, Sized
    <2> QED
      BY <1>2, <1>3, <2>1, <2>2
  <1>5. /\ table[id].size \in Nat /\ Rewritten(id, fate) \in Nat \ {0} /\ Rewritten(id, fate) <= table[id].size
        /\ Rewritten(id, fate) # table[id].size =>
             RoundUp(Rewritten(id, fate)) = Rewritten(id, fate) /\ RoundUp(table[id].size) = table[id].size
    BY <1>3, <1>4, RewrittenSize
  <1>6. PICK old \in Nat, size \in Nat \ {0} : old = table[id].size /\ size = Rewritten(id, fate) /\ size <= old
    BY <1>5
  <1>7. old \in Nat \ {0}
    BY <1>6
  <1>8. FatePrecision(fate) \in Precision
    <2>1. Blocks(context) \in Int
      BY BlocksCounted
    <2> QED
      BY <1>4, <2>1, FateFine
  <1>9. size # old => RoundUp(size) = size /\ RoundUp(old) = old
    BY <1>5, <1>6
  <1> QED
    BY <1>0, <1>2, <1>6, <1>7, <1>8, <1>9, BlockEntry

\* An entry of the manager, once it is given another size and precision.
LEMMA MetaRewritten ==
  ASSUME NEW e \in Meta, NEW size \in Nat \ {0}, NEW precision \in Precision
  PROVE  LET new == Resized(e, size, precision)
         IN  /\ new \in Meta /\ new.size = size /\ new.size # 0 /\ new # NoMeta
             /\ new.at = e.at /\ new.share = e.share /\ new.owner = e.owner
  <1> DEFINE new == Resized(e, size, precision)
  <1>1. /\ new \in Meta /\ new.size = size
        /\ new.at = e.at /\ new.share = e.share /\ new.owner = e.owner /\ e.owner \in 0 .. MaxId
    BY DEF Meta, Resized
  <1>2. IsBlock(new)
    BY <1>1, MetaIsBlock
  <1>3. new # NoMeta
    BY <1>2, BlockFields
  <1> QED
    BY <1>1, <1>3

\* A rewrite of a block that is kept, as the one entry it writes and what it
\* gives back: the tail, if the block is resident and smaller.
KeptWrites(id, e, old, size) ==
  /\ old = table[id].size /\ size <= old
  /\ size # old => RoundUp(size) = size /\ RoundUp(old) = old
  /\ e \in Meta /\ e.size = size /\ e.size # 0 /\ e # NoMeta
  /\ e.at = table[id].at /\ e.share = table[id].share /\ e.owner = table[id].owner
  /\ Entry(id) /\ Entry(id)' /\ (Resident(id)' <=> Resident(id))
  /\ Tabled' /\ Writes(id, e) /\ table' = [table EXCEPT ![id] = e] /\ claims' = claims
  /\ \/ /\ Resident(id) /\ RoundUp(size) < RoundUp(old) /\ Evictable
        /\ free' = Give(free, table[id].at - Base + RoundUp(size), RoundUp(old) - RoundUp(size))
        /\ used' = used - (RoundUp(old) - RoundUp(size))
        /\ counted' = SatSub(counted, old - size)
        /\ sessions' = Credit(sessions, table[id].owner, old - size)
     \/ /\ ~(Resident(id) /\ RoundUp(size) < RoundUp(old))
        /\ UNCHANGED <<free, used, sessions, counted>>

LEMMA RewriteKeptWrites ==
  ASSUME WholeBlocks, SInv, IInv, NEW id \in Objects, walk.at = "rewrite", id \in walk.left,
         NEW fate, fate = Fate(walk.rung, id[2], Blocks(sessions[walk.session].contract.context)),
         fate # Dropped, RewriteKept(id, fate)
  PROVE  \E old \in Nat \ {0}, size \in Nat \ {0}, e \in Meta : KeptWrites(id, e, old, size)
  <1>1. PICK old \in Nat \ {0}, size \in Nat \ {0} :
          /\ old = table[id].size /\ size = Rewritten(id, fate) /\ size <= old
          /\ size # old => RoundUp(size) = size /\ RoundUp(old) = old
    BY KeptSize
  <1>2. PICK precision \in Precision : precision = FatePrecision(fate)
    BY KeptSize
  <1>3. Entry(id) /\ table[id] \in Meta
    BY KeptSize, EntryObject DEF IInv
  <1> DEFINE e == Resized(table[id], size, precision)
  <1>4. /\ table' = [table EXCEPT ![id] = e] /\ claims' = claims
        /\ \/ /\ Resident(id) /\ RoundUp(size) < RoundUp(old) /\ Evictable
              /\ free' = Give(free, table[id].at - Base + RoundUp(size), RoundUp(old) - RoundUp(size))
              /\ used' = used - (RoundUp(old) - RoundUp(size))
              /\ counted' = SatSub(counted, old - size)
              /\ sessions' = Credit(sessions, table[id].owner, old - size)
           \/ /\ ~(Resident(id) /\ RoundUp(size) < RoundUp(old))
              /\ UNCHANGED <<free, used, sessions, counted>>
    <2>1. table' = [table EXCEPT ![id] = Resized(table[id], Rewritten(id, fate), FatePrecision(fate))]
      BY DEF RewriteKept, Resized
    <2>2. table' = [table EXCEPT ![id] = e]
      BY <1>1, <1>2, <2>1
    <2> HIDE DEF e
    <2> QED
      BY <1>1, <2>2 DEF RewriteKept
  <1>5. /\ e \in Meta /\ e.size = size /\ e.size # 0 /\ e # NoMeta
        /\ e.at = table[id].at /\ e.share = table[id].share /\ e.owner = table[id].owner
    BY <1>3, MetaRewritten
  <1> HIDE DEF e
  <1>6. Tabled' /\ Writes(id, e)
    BY <1>4, <1>5, WriteKeeps DEF IInv
  <1>7. Entry(id)' /\ (Resident(id)' <=> Resident(id))
    BY <1>3, <1>5, <1>6 DEF Writes, Entry, Resident
  <1>8. KeptWrites(id, e, old, size)
    BY <1>1, <1>3, <1>4, <1>5, <1>6, <1>7 DEF KeptWrites
  <1> QED
    BY <1>5, <1>8

LEMMA RewriteKeptKeeps ==
  ASSUME WholeBlocks, SInv, IInv, NEW id \in Objects, walk.at = "rewrite", id \in walk.left, job = Idle,
         NEW fate, fate = Fate(walk.rung, id[2], Blocks(sessions[walk.session].contract.context)),
         fate # Dropped, RewriteKept(id, fate), UNCHANGED <<attached, env, job>>
  PROVE  IInv'
  <1> USE ManagerAssumption
  <1>1. PICK old \in Nat \ {0}, size \in Nat \ {0}, e \in Meta : KeptWrites(id, e, old, size)
    BY RewriteKeptWrites
  <1>2. /\ old = table[id].size /\ size <= old
        /\ size # old => RoundUp(size) = size /\ RoundUp(old) = old
    BY <1>1 DEF KeptWrites
  <1>3. Entry(id) /\ table[id] \in Meta
    BY <1>1, EntryObject DEF KeptWrites, IInv
  <1>4. /\ table' = [table EXCEPT ![id] = e] /\ claims' = claims
        /\ \/ /\ Resident(id) /\ RoundUp(size) < RoundUp(old) /\ Evictable
              /\ free' = Give(free, table[id].at - Base + RoundUp(size), RoundUp(old) - RoundUp(size))
              /\ used' = used - (RoundUp(old) - RoundUp(size))
              /\ counted' = SatSub(counted, old - size)
              /\ sessions' = Credit(sessions, table[id].owner, old - size)
           \/ /\ ~(Resident(id) /\ RoundUp(size) < RoundUp(old))
              /\ UNCHANGED <<free, used, sessions, counted>>
    BY <1>1 DEF KeptWrites
  <1>5. /\ e \in Meta /\ e.size = size /\ e.size # 0 /\ e # NoMeta
        /\ e.at = table[id].at /\ e.share = table[id].share /\ e.owner = table[id].owner
    BY <1>1 DEF KeptWrites
  <1>6. Tabled' /\ Writes(id, e)
    BY <1>1 DEF KeptWrites
  <1>7. Entry(id)' /\ (Resident(id)' <=> Resident(id))
    BY <1>1 DEF KeptWrites
  <1>8. Leased'
    <2>1. LeasesOf(id) /\ ShareOf(id)
      BY LeasesOfOne DEF IInv
    <2>2. LeasesOf(id)'
      BY <1>3, <1>4, <1>5, <1>6, <1>7, <2>1 DEF LeasesOf, Writes
    <2>3. ShareOf(id)'
      BY <1>3, <1>4, <1>5, <1>6, <1>7, <2>1 DEF ShareOf, Writes
    <2>4. claims' \in [Objects -> [valid : Nat, stale : Nat]] /\ \A o \in Objects : claims'[o] = claims[o]
      BY <1>4 DEF IInv, Leased
    <2> QED
      BY <1>6, <2>2, <2>3, <2>4, LeasesKept DEF IInv
  <1>9. Space' /\ Accounts' /\ counted' \in Nat /\ \A s : Known(sessions', s) <=> Known(sessions, s)
    <2>1. CASE Resident(id) /\ RoundUp(size) < RoundUp(old)
      <3>1. RoundUp(old) \in Nat /\ RoundUp(size) \in Nat \ {0}
        BY RoundUpValue
      <3>2. PICK more, new \in Nat \ {0} : more = RoundUp(old) /\ new = RoundUp(size) /\ new < more
        BY <2>1, <3>1
      <3>3. Space'
        BY <1>2, <1>4, <1>5, <2>1, <3>2, ShrinkSpace DEF IInv
      <3>4. PICK back \in Nat : back = old - size
        BY <1>2
      <3>5. sessions \in [SessionIds -> Session] /\ counted \in Nat /\ Capped(sessions)
        BY CappedIsKept DEF IInv, Accounts, Rest
      <3>6. OnlyResident(sessions, sessions', table[id].owner) /\ Capped(sessions')
        BY <1>4, <2>1, <3>4, <3>5, CreditKeeps
      <3>7. Accounts'
        BY <3>6 DEF Accounts, CeilingKept, Capped, OnlyResident
      <3>8. counted' \in Nat
        BY <1>4, <2>1, <3>4, <3>5 DEF SatSub
      <3> QED
        BY <3>3, <3>6, <3>7, <3>8 DEF OnlyResident
    <2>2. CASE ~(Resident(id) /\ RoundUp(size) < RoundUp(old))
      <3>1. UNCHANGED <<free, used, sessions, counted>>
        BY <1>4, <2>2
      <3>2. Resident(id) => e.size = table[id].size
        BY <1>2, <1>5, <2>2
      <3>3. SameSpace
        <4> SUFFICES ASSUME NEW o \in Objects
                     PROVE  /\ Resident(o)' => Resident(o) /\ table'[o].at = table[o].at /\ table'[o].size = table[o].size
                            /\ Resident(o) => Resident(o)'
          BY <3>1 DEF SameSpace
        <4>1. CASE o = id
          BY <1>5, <1>6, <1>7, <3>2, <4>1 DEF Writes
        <4>2. CASE o # id
          BY <1>6, <4>2 DEF Writes
        <4> QED
          BY <4>1, <4>2
      <3>4. Space'
        BY <3>3, SameSpaceKeeps DEF IInv
      <3> QED
        BY <3>1, <3>4 DEF IInv, Accounts, CeilingKept, Rest, LiveIn
    <2> QED
      BY <2>1, <2>2
  <1>10. NoOrphans'
    <2> SUFFICES ASSUME "orphans" \notin env, NEW o \in Objects, Entry(o)', table'[o].owner # 0
                 PROVE  Known(sessions', table'[o].owner)
      BY DEF NoOrphans
    <2>1. Entry(o) /\ table'[o].owner = table[o].owner
      BY <1>3, <1>5, <1>6 DEF Writes, Entry
    <2> QED
      BY <1>9, <2>1 DEF IInv, NoOrphans
  <1>11. Working'
    BY StaysIdle
  <1>12. Rest'
    BY <1>9 DEF IInv, Rest
  <1> QED
    BY <1>6, <1>8, <1>9, <1>10, <1>11, <1>12 DEF IInv

\* A block that is dropped is evicted, or was not resident and loses its entry.
LEMMA RewriteDroppedKeeps ==
  ASSUME IInv, NEW id \in Objects, job = Idle, RewriteDropped(id), UNCHANGED <<attached, env, job>>
  PROVE  IInv'
  <1>1. Working'
    BY StaysIdle
  <1>2. CASE Evict(id, NoMeta)
    <2>1. Space' /\ Tabled' /\ Accounts' /\ Leased' /\ Rest' /\ NoOrphans'
      BY <1>2, EvictKeeps
    <2> QED
      BY <1>1, <2>1 DEF IInv
  <1>3. CASE ~Evict(id, NoMeta)
    <2>1. /\ ~Resident(id) /\ table' = [table EXCEPT ![id] = NoMeta]
          /\ UNCHANGED <<free, used, sessions, counted, claims>>
      BY <1>3 DEF RewriteDropped
    <2>2. Tabled' /\ Writes(id, NoMeta)
      BY <2>1, WriteKeeps DEF IInv
    <2>3. ~Entry(id)' /\ ~Resident(id)'
      BY <2>2 DEF Writes, Entry, Resident
    <2>4. SameSpace
      <3> SUFFICES ASSUME NEW o \in Objects
                   PROVE  /\ Resident(o)' => Resident(o) /\ table'[o].at = table[o].at /\ table'[o].size = table[o].size
                          /\ Resident(o) => Resident(o)'
        BY <2>1 DEF SameSpace
      <3>1. CASE o = id
        BY <2>1, <2>3, <3>1
      <3>2. CASE o # id
        BY <2>2, <3>2 DEF Writes
      <3> QED
        BY <3>1, <3>2
    <2>5. Space'
      BY <2>4, SameSpaceKeeps DEF IInv
    <2>6. Leased'
      <3>1. LeasesOf(id)
        BY DEF IInv, Leased
      <3>2. LeasesOf(id)' /\ ShareOf(id)'
        BY <2>1, <2>3, <3>1 DEF LeasesOf, ShareOf
      <3>3. claims' \in [Objects -> [valid : Nat, stale : Nat]] /\ \A o \in Objects : claims'[o] = claims[o]
        BY <2>1 DEF IInv, Leased
      <3> QED
        BY <2>2, <3>2, <3>3, LeasesKept DEF IInv
    <2>7. NoOrphans'
      <3> SUFFICES ASSUME "orphans" \notin env, NEW o \in Objects, Entry(o)', table'[o].owner # 0
                   PROVE  Known(sessions', table'[o].owner)
        BY DEF NoOrphans
      <3>1. Entry(o) /\ table'[o] = table[o]
        BY <2>2, <2>3 DEF Writes
      <3> QED
        BY <2>1, <3>1 DEF IInv, NoOrphans
    <2> QED
      BY <1>1, <2>1, <2>2, <2>5, <2>6, <2>7 DEF IInv, Accounts, CeilingKept, Rest, LiveIn
  <1> QED
    BY <1>2, <1>3

\* The last of a rewrite: no account and no contract changes.
LEMMA StepDoneRecords ==
  ASSUME LInv, StepDone
  PROVE  /\ LiveIn(sessions') = LiveIn(sessions)
         /\ \A s : Known(sessions', s) <=> Known(sessions, s)
         /\ \A s \in LiveIn(sessions) : /\ sessions'[s].contract = sessions[s].contract
                                        /\ sessions'[s].resident = sessions[s].resident
                                        /\ sessions'[s].rung = IF s = walk.session THEN walk.rung ELSE sessions[s].rung
  <1>1. RewriteWalk
    BY RewritingNow DEF StepDone
  <1>2. PICK s \in SessionIds, q \in 1 .. 5 : s = walk.session /\ q = walk.rung /\ s \in LiveIn(sessions)
    BY <1>1 DEF RewriteWalk, Known, LiveIn
  <1>3. sessions \in [SessionIds -> Session]
    BY DEF LInv
  <1> DEFINE old == sessions[s]
             coarsest == walk.coarsest
             deepest == Max({old.deepest, q})
             new == [old EXCEPT !.rung = q, !.coarsest = coarsest, !.deepest = deepest]
  <1>4. sessions' = [sessions EXCEPT ![s] = new]
    BY <1>2 DEF StepDone
  <1>5. old \in LiveRecord
    BY <1>2, <1>3, LiveTerms
  <1> HIDE DEF deepest, coarsest
  <1>6. new.live = TRUE /\ new.contract = old.contract /\ new.rung = q /\ new.resident = old.resident
    <2> HIDE DEF old
    <2> QED
      BY <1>5 DEF LiveRecord
  <1> HIDE DEF new
  <1>7. sessions'[s] = new /\ \A r \in SessionIds : r # s => sessions'[r] = sessions[r]
    BY <1>2, <1>3, <1>4
  <1>8. old.live = TRUE
    BY <1>5 DEF LiveRecord
  <1>9. LiveIn(sessions') = LiveIn(sessions)
    BY <1>2, <1>6, <1>7 DEF LiveIn
  <1> QED
    BY <1>2, <1>6, <1>7, <1>9 DEF LiveIn, Known

LEMMA StepDoneKeeps ==
  ASSUME LInv, LInv', IInv, StepDone
  PROVE  IInv'
  <1>1. job = Idle /\ UNCHANGED <<table, free, used, counted, attached, env, job, claims>>
    BY DEF StepDone
  <1>2. Space'
    BY <1>1, SameSpaceKeeps DEF IInv, SameSpace, Resident, Entry
  <1>3. Leased'
    BY <1>1, LeasesSame DEF IInv
  <1>4. Working'
    BY <1>1, StaysIdle
  <1>5. Accounts'
    <2>1. CeilingKept'
      BY StepDoneRecords DEF IInv, Accounts, CeilingKept
    <2> QED
      BY <2>1 DEF Accounts, LInv
  <1>6. NoOrphans'
    BY <1>1, StepDoneRecords DEF IInv, NoOrphans, Entry
  <1> QED
    BY <1>1, <1>2, <1>3, <1>4, <1>5, <1>6 DEF IInv, Tabled, Rest, Entry

\* What arrive registers: an entry of the manager that is not empty.
ArrivingMeta(template, s, size) == [template EXCEPT !.owner = s, !.size = size]

LEMMA ArrivingEntry ==
  ASSUME NEW template \in Meta, template.at = 0, template.share = 0,
         NEW s \in SessionIds, NEW size \in Nat \ {0}
  PROVE  LET e == ArrivingMeta(template, s, size)
         IN  /\ e \in Meta /\ e.size = size /\ e.size # 0 /\ e.at = 0 /\ e.share = 0 /\ e.owner = s
  <1>1. s \in 0 .. MaxId
    BY DEF SessionIds
  <1> QED
    BY <1>1 DEF Meta, ArrivingMeta

\* The block arrive registers, as a call of the manager.
LEMMA RegisterCall ==
  ASSUME LInv, NEW id \in Objects, NEW template \in Templates[id], walk.at = "register",
         id = <<walk.session, walk.block>>, ArriveRegister(template)
  PROVE  \E s \in SessionIds, size \in Nat \ {0} :
           /\ s = walk.session /\ id[1] = s
           /\ LET e == ArrivingMeta(template, s, size)
              IN  /\ e \in Meta /\ e.size # 0 /\ e.at = 0 /\ e.share = 0 /\ e.owner = s
                  /\ Register(id, e)
  <1>1. ArrivingWalk
    BY ArrivingNow
  <1>2. PICK s \in SessionIds, at \in Nat, context \in Nat :
          /\ s = walk.session /\ at = walk.block /\ context = sessions[s].contract.context
    <2>1. walk.session \in SessionIds /\ walk.block \in Nat /\ walk.session \in LiveIn(sessions)
      BY <1>1 DEF ArrivingWalk, Known, LiveIn
    <2>2. sessions[walk.session].contract.context \in Nat
      BY <2>1, LiveTerms DEF LInv
    <2> QED
      BY <2>1, <2>2
  <1>3. template \in Meta /\ template.size = KvPerToken /\ template.at = 0 /\ template.share = 0
    BY TemplatesAssumption, LadderAssumption
  <1>4. at < Blocks(context)
    BY <1>2 DEF ArriveRegister
  <1>5. PICK size \in Nat \ {0} : size = FullBytes(at, context, KvPerToken)
    BY <1>4, FullBytesValue
  <1> DEFINE e == ArrivingMeta(template, s, size)
  <1>6. e \in Meta /\ e.size # 0 /\ e.at = 0 /\ e.share = 0 /\ e.owner = s
    BY <1>3, ArrivingEntry
  <1>7. Register(id, e)
    BY <1>2, <1>3, <1>5 DEF ArriveRegister, ArrivingMeta
  <1>8. id[1] = s
    BY <1>2
  <1> QED
    BY <1>2, <1>6, <1>7, <1>8

\* The ladder's steps that are the manager's own.
ManagersStep ==
  \/ JobStep
  \/ \E p \in Providers : Attach(p)
  \/ \E id \in Objects : Consume(id)
  \/ \E contract \in Contracts : CreateSession(contract)
  \/ \E s \in 0 .. MaxId : DestroySession(s)

\* What the ladder does that is not, to the manager's state.
BlockStep ==
  \/ \E id \in Objects : \E template \in Templates[id] :
       walk.at = "register" /\ id = <<walk.session, walk.block>> /\ ArriveRegister(template)
  \/ \E id \in Objects : Rewrite(id)
  \/ StepDone

LEMMA LadderCalls ==
  ASSUME LInv, [LadderNext]_ladderVars
  PROVE  ManagersStep \/ UNCHANGED vars \/ BlockStep
  <1>1. CASE JobStep
    BY <1>1 DEF ManagersStep
  <1>2. CASE WalkStep
    <2>1. CASE ArriveConsume
      <3>1. ArrivingWalk /\ walk.at = "consume"
        BY <2>1, ArrivingNow DEF ArriveConsume
      <3>2. PICK id \in Objects : id = <<walk.session, walk.block>>
        BY <3>1 DEF ArrivingWalk
      <3>3. Consume(id) \/ UNCHANGED vars
        BY <2>1, <3>2 DEF ArriveConsume
      <3> QED
        BY <3>3 DEF ManagersStep
    <2>2. CASE SqueezeTerminate
      <3>1. Holding # {} /\ DestroySession(Max(Holding))
        BY <2>2 DEF SqueezeTerminate
      <3>2. Holding \subseteq SessionIds
        BY DEF Holding, LiveIn
      <3>3. PICK n \in Nat : n = MaxId
        BY MaxIdAssumption
      <3>4. Holding \in SUBSET (1 .. n)
        BY <3>2, <3>3 DEF SessionIds
      <3>5. Max(Holding) \in Holding
        BY <3>1, <3>4, GreatestMember
      <3>6. Max(Holding) \in 0 .. MaxId
        <4>1. \A m \in 1 .. n : m \in 0 .. n
          OBVIOUS
        <4> QED
          BY <3>3, <3>4, <3>5, <4>1
      <3> QED
        BY <3>1, <3>6 DEF ManagersStep
    <2>3. CASE ArrivePlaced \/ ArriveDone \/ SqueezeFits \/ SqueezeDeepen \/ Terminated \/ DeepenDone
               \/ (\E s \in SessionIds : DeepenSession(s)) \/ \E id \in Objects : RewriteRefused(id)
      BY <2>3 DEF ArrivePlaced, ArriveDone, SqueezeFits, SqueezeDeepen, Terminated, DeepenDone,
                  DeepenSession, RewriteRefused
    <2>4. CASE \/ \E id \in Objects : \E template \in Templates[id] :
                    walk.at = "register" /\ id = <<walk.session, walk.block>> /\ ArriveRegister(template)
               \/ \E id \in Objects : Rewrite(id)
               \/ StepDone
      BY <2>4 DEF BlockStep
    <2> QED
      BY <1>2, <2>1, <2>2, <2>3, <2>4 DEF WalkStep
  <1>3. CASE \E contract \in Contracts : Arrive(contract)
    BY <1>3 DEF Arrive, ManagersStep
  <1>4. CASE \E bytes \in Budgets : Squeeze(bytes)
    BY <1>4 DEF Squeeze
  <1>5. CASE (\E p \in Providers : Attach(p)) \/ \E id \in Objects : Consume(id)
    BY <1>5 DEF ManagersStep
  <1>6. CASE \E s \in SessionIds : EndSession(s)
    <2>1. PICK s \in SessionIds : DestroySession(s)
      BY <1>6 DEF EndSession
    <2>2. s \in 0 .. MaxId
      BY DEF SessionIds
    <2> QED
      BY <2>1, <2>2 DEF ManagersStep
  <1>7. CASE UNCHANGED ladderVars
    BY <1>7 DEF ladderVars
  <1> QED
    BY <1>1, <1>2, <1>3, <1>4, <1>5, <1>6, <1>7 DEF LadderNext

\* The whole system's invariant.
MInv == SInv /\ IInv

LEMMA WholeStarts == LadderInit => MInv
  BY SizedStarts, InitSafe DEF LadderInit, MInv

LEMMA WholeSteps == WholeBlocks /\ MInv /\ [LadderNext]_ladderVars => MInv'
  <1> SUFFICES ASSUME WholeBlocks, MInv, [LadderNext]_ladderVars PROVE MInv'
    OBVIOUS
  <1>1. SInv /\ IInv /\ SInv'
    BY SizedSteps DEF MInv
  <1>2. LInv /\ LInv'
    BY <1>1 DEF SInv, PInv
  <1>3. CASE ManagersStep \/ UNCHANGED vars
    <2>1. [Next]_vars
      BY <1>3 DEF ManagersStep, Next
    <2> QED
      BY <1>1, <2>1, StepSafe DEF MInv
  <1>4. CASE BlockStep
    <2>1. ASSUME NEW id \in Objects, NEW template \in Templates[id], walk.at = "register",
                 id = <<walk.session, walk.block>>, ArriveRegister(template)
          PROVE  IInv'
      <3>1. PICK s \in SessionIds, size \in Nat \ {0} :
              LET e == ArrivingMeta(template, s, size)
              IN  /\ e \in Meta /\ e.size # 0 /\ e.at = 0 /\ e.share = 0 /\ e.owner = s
                  /\ Register(id, e)
        BY <1>2, <2>1, RegisterCall
      <3> QED
        BY <1>1, <3>1, RegisterKeeps
    <2>2. ASSUME NEW id \in Objects, Rewrite(id)
          PROVE  IInv'
      <3>1. PICK fate : fate = Fate(walk.rung, id[2], Blocks(sessions[walk.session].contract.context))
        OBVIOUS
      <3>2. /\ job = Idle /\ UNCHANGED <<attached, env, job>> /\ walk.at = "rewrite" /\ id \in walk.left
            /\ (fate = Dropped /\ RewriteDropped(id)) \/ (fate # Dropped /\ RewriteKept(id, fate))
        BY <2>2, <3>1 DEF Rewrite
      <3> QED
        BY <1>1, <3>1, <3>2, RewriteDroppedKeeps, RewriteKeptKeeps
    <2> QED
      BY <1>1, <1>2, <1>4, <2>1, <2>2, StepDoneKeeps DEF BlockStep, MInv
  <1> QED
    BY <1>1, <1>2, <1>3, <1>4, LadderCalls

LEMMA WholeInductive == WholeBlocks => (LadderSpec => []MInv)
  <1>1. ASSUME WholeBlocks PROVE LadderSpec => []MInv
    <2>1. MInv /\ [LadderNext]_ladderVars => MInv'
      BY <1>1, WholeSteps
    <2> QED
      BY <2>1, WholeStarts, PTL DEF LadderSpec
  <1> QED
    BY <1>1

\* What the manager keeps it keeps under the ladder: while squeeze rewrites
\* blocks in place and gives their tails back, and arrive places new ones
\* between, no two resident blocks share a byte, none is lost, share_count is
\* exact, no session passes its ceiling and no block outlives its session.
THEOREM LadderKeepsManager ==
  WholeBlocks => (LadderSpec => [](ResidentApart /\ NothingLeaked /\ ShareExact /\ CeilingKept /\ NoOrphans))
  <1>1. MInv => ResidentApart /\ NothingLeaked /\ ShareExact /\ CeilingKept /\ NoOrphans
    BY DEF MInv, IInv, Space, Leased, Accounts
  <1>2. ASSUME WholeBlocks
        PROVE  LadderSpec => [](ResidentApart /\ NothingLeaked /\ ShareExact /\ CeilingKept /\ NoOrphans)
    <2>1. LadderSpec => []MInv
      BY <1>2, WholeInductive
    <2> QED
      BY <1>1, <2>1, PTL
  <1> QED
    BY <1>2
-----------------------------------------------------------------------------
(* The accounts, under the walk: arrive and squeeze leave them exact. *)

\* One of the sizes is another: what that changes of the sum.
LEMMA SumResized ==
  ASSUME NEW t, NEW u, NEW S, NEW x \in S, IsFiniteSet(S), HasSizes(t, S),
         SameSizes(t, u, S \ {x}), u[x].size \in Nat
  PROVE  SizeSum(u, S) \in Nat /\ SizeSum(t, S) + u[x].size = SizeSum(u, S) + t[x].size
  <1>1. HasSizes(u, S)
    BY DEF HasSizes, SameSizes
  <1>2. SameSizes(u, u, S \ {x})
    BY DEF SameSizes
  <1>3. PICK rest : rest = SizeSum(u, S \ {x})
    OBVIOUS
  <1>4. rest \in Nat
    BY <1>3, SumWithOne
  <1>5. SizeSum(t, S) = rest + t[x].size
    <2>1. SizeSum(t, S) = SizeSum(t, S \ {x}) + t[x].size
      BY SumWithout DEF HasSizes
    <2>2. IsFiniteSet(S \ {x})
      BY FS_Subset
    <2>3. SizeSum(t, S \ {x}) = SizeSum(u, S \ {x})
      BY <2>2, SumSame
    <2> QED
      BY <1>3, <2>1, <2>3
  <1>6. SizeSum(u, S) = rest + u[x].size
    BY <1>1, <1>2, <1>3, SumWithOne
  <1> QED
    BY <1>4, <1>5, <1>6 DEF HasSizes

\* An object is cut where it lies.
LEMMA SumsShrunk ==
  ASSUME IInv, NEW id \in Objects, NEW e, Writes(id, e), Resident(id), Resident(id)',
         e.owner = table[id].owner, NEW old \in Nat, NEW size \in Nat,
         old = table[id].size, size = e.size, size <= old
  PROVE  /\ SizeOf(ResidentSet)' \in Nat /\ SizeOf(ResidentSet) = SizeOf(ResidentSet)' + (old - size)
         /\ \A s : /\ OwnedSize(s)' \in Nat
                   /\ OwnedSize(s) = OwnedSize(s)' + IF table[id].owner = s THEN old - size ELSE 0
  <1>1. ResidentSet' = ResidentSet /\ id \in ResidentSet
    BY DEF Writes, ResidentSet
  <1>2. \A s : OwnedBy(s)' = OwnedBy(s)
    BY <1>1 DEF OwnedBy, Writes, ResidentSet
  <1>3. table'[id].size = size /\ \A o \in Objects : o # id => table'[o] = table[o]
    BY DEF Writes
  <1>4. ASSUME NEW S, S \subseteq ResidentSet, IsFiniteSet(S), id \in S
        PROVE  SizeSum(table', S) \in Nat /\ SizeSum(table, S) = SizeSum(table', S) + (old - size)
    <2>1. PICK before, after : before = table /\ after = table'
      OBVIOUS
    <2>2. SameSizes(before, after, S \ {id}) /\ after[id].size \in Nat
      BY <1>3, <1>4, <2>1 DEF SameSizes, ResidentSet
    <2>3. HasSizes(before, S)
      BY <1>4, <2>1, SumsTyped DEF HasSizes
    <2>4. SizeSum(after, S) \in Nat
      BY <1>4, <2>2, <2>3, SumResized
    <2>5. SizeSum(before, S) + after[id].size = SizeSum(after, S) + before[id].size
      BY <1>4, <2>2, <2>3, SumResized
    <2>6. SizeSum(before, S) \in Nat
      BY <1>4, <2>3, SumWithout DEF HasSizes
    <2> QED
      BY <1>3, <2>1, <2>4, <2>5, <2>6
  <1>5. SizeOf(ResidentSet)' \in Nat /\ SizeOf(ResidentSet) = SizeOf(ResidentSet)' + (old - size)
    <2>1. IsFiniteSet(ResidentSet)
      BY SumsTyped
    <2> QED
      BY <1>1, <1>4, <2>1, ResidentSums
  <1>6. ASSUME NEW s
        PROVE  /\ OwnedSize(s)' \in Nat
               /\ OwnedSize(s) = OwnedSize(s)' + IF table[id].owner = s THEN old - size ELSE 0
    <2>1. IsFiniteSet(OwnedBy(s)) /\ OwnedBy(s) \subseteq ResidentSet /\ OwnedSize(s) \in Nat
      BY SumsTyped DEF OwnedBy
    <2>2. CASE table[id].owner = s
      <3>1. id \in OwnedBy(s)
        BY <1>1, <2>2 DEF OwnedBy
      <3> QED
        BY <1>2, <1>4, <2>1, <2>2, <3>1, ResidentSums
    <2>3. CASE table[id].owner # s
      <3>1. SameSizes(table', table, OwnedBy(s))
        BY <1>3, <2>3 DEF SameSizes, OwnedBy, ResidentSet
      <3>2. SizeSum(table', OwnedBy(s)) = SizeSum(table, OwnedBy(s))
        BY <2>1, <3>1, SumSame
      <3>3. OwnedSize(s)' = OwnedSize(s)
        BY <1>2, <3>2, ResidentSums
      <3> QED
        BY <2>1, <2>3, <3>3
    <2> QED
      BY <2>2, <2>3
  <1> QED
    BY <1>5, <1>6

\* A block that is kept: what the arena gets back the owner is credited.
LEMMA RewriteKeptAccounts ==
  ASSUME WholeBlocks, SInv, IInv, NEW sure, Exact(sure), NEW id \in Objects,
         walk.at = "rewrite", id \in walk.left, job = Idle,
         NEW fate, fate = Fate(walk.rung, id[2], Blocks(sessions[walk.session].contract.context)),
         fate # Dropped, RewriteKept(id, fate), UNCHANGED <<attached, env, job>>
  PROVE  Exact(sure)'
  <1>1. PICK old \in Nat \ {0}, size \in Nat \ {0}, e \in Meta : KeptWrites(id, e, old, size)
    BY RewriteKeptWrites
  <1>2. /\ old = table[id].size /\ size <= old /\ e.size = size /\ e.owner = table[id].owner
        /\ Writes(id, e) /\ (Resident(id)' <=> Resident(id))
        /\ size # old => RoundUp(size) = size /\ RoundUp(old) = old
    BY <1>1 DEF KeptWrites
  <1>3. \A s : Pending(s) = 0 /\ Pending(s)' = 0
    BY Idles DEF Pending
  <1>4. CASE Resident(id) /\ RoundUp(size) < RoundUp(old)
    <2> DEFINE owner == table[id].owner
    <2>1. PICK back \in Nat : back = old - size
      BY <1>2
    <2>2. counted' = SatSub(counted, back) /\ sessions' = Credit(sessions, owner, back)
      BY <1>1, <1>4, <2>1 DEF KeptWrites
    <2>3. sessions \in [SessionIds -> Session]
      BY DEF IInv, Accounts
    <2>4. /\ OnlyResident(sessions, sessions', owner)
          /\ Known(sessions, owner) => sessions'[owner].resident = SatSub(sessions[owner].resident, back)
      BY <2>2, <2>3, CreditKeeps
    <2>5. /\ SizeOf(ResidentSet)' \in Nat /\ SizeOf(ResidentSet) = SizeOf(ResidentSet)' + back
          /\ \A s : /\ OwnedSize(s)' \in Nat
                    /\ OwnedSize(s) = OwnedSize(s)' + IF owner = s THEN back ELSE 0
      BY <1>2, <1>4, <2>1, SumsShrunk
    <2> HIDE DEF owner
    <2>6. "counter" \in sure => counted' = SizeOf(ResidentSet)'
      BY <2>2, <2>5 DEF Exact, SatSub
    <2>7. ASSUME NEW s, Known(sessions', s), "accounts" \in sure
          PROVE  AccountOf(s)'
      <3>1. Known(sessions, s) /\ AccountOf(s) /\ OwnedSize(s) \in Nat
        BY <2>4, <2>7, AccountKnown, SumsTyped DEF OnlyResident
      <3>2. CASE s = owner
        BY <1>3, <2>4, <2>5, <3>1, <3>2 DEF AccountOf, SatSub
      <3>3. CASE s # owner
        BY <1>3, <2>4, <2>5, <3>1, <3>3 DEF AccountOf, OnlyResident
      <3> QED
        BY <3>2, <3>3
    <2> QED
      BY <2>6, <2>7, AccountsAfter
  <1>5. CASE ~(Resident(id) /\ RoundUp(size) < RoundUp(old))
    <2>1. UNCHANGED <<sessions, counted>>
      BY <1>1, <1>5 DEF KeptWrites
    <2>2. Resident(id) => e.size = table[id].size
      BY <1>2, <1>5
    <2>3. SameResidents
      BY <1>2, <2>2 DEF SameResidents, Writes
    <2> QED
      BY <1>3, <2>1, <2>3, AccountsFrame
  <1> QED
    BY <1>4, <1>5

LEMMA RewriteDroppedAccounts ==
  ASSUME IInv, NEW sure, Exact(sure), NEW id \in Objects, job = Idle, RewriteDropped(id),
         UNCHANGED <<attached, env, job>>
  PROVE  Exact(sure)'
  <1>1. \A s : Pending(s) = 0 /\ Pending(s)' = 0
    BY Idles DEF Pending
  <1>2. CASE Evict(id, NoMeta)
    BY <1>1, <1>2, EvictAccounts
  <1>3. CASE ~Evict(id, NoMeta)
    <2>1. /\ ~Resident(id) /\ table' = [table EXCEPT ![id] = NoMeta] /\ UNCHANGED <<sessions, counted>>
      BY <1>3 DEF RewriteDropped
    <2>2. Writes(id, NoMeta)
      BY <2>1, WriteKeeps DEF IInv
    <2>3. ~Resident(id)'
      BY <2>2 DEF Writes, Resident, Entry
    <2>4. SameResidents
      BY <2>1, <2>2, <2>3 DEF SameResidents, Writes
    <2> QED
      BY <1>1, <2>1, <2>4, AccountsFrame
  <1> QED
    BY <1>2, <1>3

LEMMA StepDoneAccounts ==
  ASSUME LInv, IInv, NEW sure, Exact(sure), StepDone
  PROVE  Exact(sure)'
  <1>1. UNCHANGED <<table, counted, env, job>> /\ job = Idle
    BY DEF StepDone
  <1>2. SizeOf(ResidentSet)' = SizeOf(ResidentSet) /\ \A s : OwnedSize(s)' = OwnedSize(s)
    BY <1>1, SameTable, SumsSame
  <1>3. \A s : Pending(s) = 0 /\ Pending(s)' = 0
    BY <1>1, Idles DEF Pending
  <1>4. "counter" \in sure => counted' = SizeOf(ResidentSet)'
    BY <1>1, <1>2 DEF Exact
  <1>5. ASSUME NEW s, Known(sessions', s), "accounts" \in sure
        PROVE  AccountOf(s)'
    <2>1. Known(sessions, s) /\ s \in LiveIn(sessions)
      BY <1>5, StepDoneRecords DEF Known, LiveIn
    <2>2. AccountOf(s) /\ sessions'[s].resident = sessions[s].resident
      BY <1>5, <2>1, AccountKnown, StepDoneRecords
    <2> QED
      BY <1>2, <1>3, <2>2 DEF AccountOf
  <1> QED
    BY <1>1, <1>4, <1>5, AccountsAfter

\* The accounts survive every step, whatever was sure of them.
LEMMA LadderAccounts ==
  ASSUME WholeBlocks, MInv, NEW sure, Exact(sure), [LadderNext]_ladderVars
  PROVE  Exact(sure)'
  <1>1. SInv /\ IInv /\ LInv
    BY DEF MInv, SInv, PInv
  <1>2. CASE ManagersStep \/ UNCHANGED vars
    <2>1. OtherStep
      BY <1>2 DEF ManagersStep, OtherStep
    <2>2. ASSUME NEW s \in SessionIds, ~Known(sessions, s), NEW o \in Objects, Entry(o)
          PROVE  table[o].owner # s
      BY <1>1, <2>2 DEF LInv, Blocked
    <2> QED
      BY <1>1, <2>1, <2>2, OtherAccounts
  <1>3. CASE BlockStep
    <2>1. ASSUME NEW id \in Objects, NEW template \in Templates[id], walk.at = "register",
                 id = <<walk.session, walk.block>>, ArriveRegister(template)
          PROVE  Exact(sure)'
      <3>1. PICK s \in SessionIds, size \in Nat \ {0} :
              LET e == ArrivingMeta(template, s, size)
              IN  /\ e \in Meta /\ e.size # 0 /\ e.at = 0 /\ e.share = 0 /\ e.owner = s
                  /\ Register(id, e)
        BY <1>1, <2>1, RegisterCall
      <3>2. ~Entry(id)
        <4>1. walk.block \in Nat
          BY <1>1, <2>1, ArrivingNow DEF ArrivingWalk
        <4> QED
          BY <1>1, <2>1, <4>1 DEF SInv, FreshAt
      <3> QED
        BY <1>1, <3>1, <3>2, RegisterAccounts
    <2>2. ASSUME NEW id \in Objects, Rewrite(id)
          PROVE  Exact(sure)'
      <3>1. PICK fate : fate = Fate(walk.rung, id[2], Blocks(sessions[walk.session].contract.context))
        OBVIOUS
      <3>2. /\ job = Idle /\ UNCHANGED <<attached, env, job>> /\ walk.at = "rewrite" /\ id \in walk.left
            /\ (fate = Dropped /\ RewriteDropped(id)) \/ (fate # Dropped /\ RewriteKept(id, fate))
        BY <2>2, <3>1 DEF Rewrite
      <3> QED
        BY <1>1, <3>1, <3>2, RewriteDroppedAccounts, RewriteKeptAccounts
    <2> QED
      BY <1>1, <1>3, <2>1, <2>2, StepDoneAccounts DEF BlockStep
  <1> QED
    BY <1>1, <1>2, <1>3, LadderCalls

\* The whole system's invariant and the accounts it needs no more for.
AccountsSure == Exact({"counter", "accounts"})

LEMMA AccountsStart == LadderInit => AccountsSure
  <1> SUFFICES ASSUME LadderInit PROVE AccountsSure
    OBVIOUS
  <1>1. \A s : ~Known(sessions, s)
    BY DEF LadderInit, Init, NoSessions, NoSession, Known
  <1>2. ResidentSet = {} /\ counted = 0
    BY DEF LadderInit, Init, ResidentSet, Resident, Entry
  <1>3. SizeOf(ResidentSet) = 0
    BY <1>2, ResidentSums, SumOfNone
  <1> QED
    BY <1>1, <1>2, <1>3 DEF AccountsSure, Exact

\* A session's account is what it has in the arena and the fault in progress,
\* through every rewrite of its blocks: what squeeze takes from the arena it
\* credits, byte for byte, and the residency counter with it.
THEOREM LadderKeepsAccounts == WholeBlocks => (LadderSpec => []AccountExact)
  <1>1. AccountsSure => AccountExact
    BY DEF AccountsSure, AccountExact, Exact, AccountOf, OwnedSize, Known, LiveIn
  <1>2. ASSUME WholeBlocks PROVE LadderSpec => []AccountExact
    <2>1. MInv /\ AccountsSure /\ [LadderNext]_ladderVars => MInv' /\ AccountsSure'
      BY <1>2, WholeSteps, LadderAccounts DEF AccountsSure
    <2> QED
      BY <1>1, <2>1, WholeStarts, AccountsStart, PTL DEF LadderSpec
  <1> QED
    BY <1>2
-----------------------------------------------------------------------------
(* The budget: once a squeeze has ended in a fit, admission keeps it. *)

\* The tokens of the first k blocks, and one block more.
TokensBefore(k, context) == Min({k * PerBlock, context})

LEMMA OneBlockMore ==
  ASSUME NEW context \in Nat, NEW k \in Nat, k < Blocks(context)
  PROVE  /\ TokensBefore(k, context) * KvPerToken \in Nat
         /\ TokensBefore(k, context) * KvPerToken + FullBytes(k, context, KvPerToken)
              = TokensBefore(k + 1, context) * KvPerToken
  <1>1. PICK p \in Nat \ {0}, kv \in Nat \ {0}, begin \in Nat :
          p = PerBlock /\ kv = KvPerToken /\ begin = k * PerBlock /\ begin < context
    BY LadderAssumption, BlockBegins
  <1>2. (k + 1) * p = begin + p
    BY <1>1
  <1>3. PICK left \in Nat \ {0} : left = context - begin /\ left = SatSub(context, begin)
    BY <1>1 DEF SatSub
  <1>4. TokensBefore(k, context) = begin
    BY <1>1, MinOfTwo DEF TokensBefore
  <1>5. PICK tokens \in Nat : tokens = Min({p, left}) /\ Min({begin + p, context}) = begin + tokens
    <2>1. CASE p <= left
      <3>1. Min({p, left}) = p /\ Min({begin + p, context}) = begin + p
        BY <1>3, <2>1, MinOfTwo
      <3> QED
        BY <3>1
    <2>2. CASE left <= p
      <3>1. Min({left, p}) = left /\ Min({context, begin + p}) = context
        BY <1>3, <2>2, MinOfTwo
      <3>2. {left, p} = {p, left} /\ {context, begin + p} = {begin + p, context} /\ context = begin + left
        BY <1>3
      <3> QED
        BY <3>1, <3>2
    <2> QED
      BY <1>3, <2>1, <2>2
  <1>6. FullBytes(k, context, KvPerToken) = tokens * kv
    BY <1>1, <1>3, <1>5 DEF FullBytes
  <1>7. TokensBefore(k + 1, context) = begin + tokens
    BY <1>1, <1>2, <1>5 DEF TokensBefore
  <1>8. begin * kv \in Nat /\ begin * kv + tokens * kv = (begin + tokens) * kv
    OBVIOUS
  <1> QED
    BY <1>1, <1>4, <1>6, <1>7, <1>8

\* Whatever the rung, a context needs no more than it was admitted with.
LEMMA NeedWithin ==
  ASSUME NEW rung \in 0 .. 5, NEW context \in Contexts, context \in Nat
  PROVE  Need[rung][context] \in Nat /\ Need[rung][context] <= context * KvPerToken
  <1> DEFINE u == NeedSizes(rung, context)
             Sum(k) == SizeSum(u, 0 .. k - 1)
  <1>1. PICK b \in Nat : b = Blocks(context)
    BY BlockBegins
  <1>2. ASSUME NEW at \in 0 .. b - 1
        PROVE  /\ u[at].size \in Nat /\ FullBytes(at, context, KvPerToken) \in Nat
               /\ u[at].size <= FullBytes(at, context, KvPerToken)
    BY <1>1, NeedOfBlock DEF NeedSizes
  <1> HIDE DEF u
  <1>3. ASSUME NEW k \in 0 .. b
        PROVE  /\ Sum(k) \in Nat
               /\ k # 0 => Sum(k - 1) \in Nat /\ Sum(k) = Sum(k - 1) + u[k - 1].size
    <2>0. k - 1 \in Int /\ 0 \in Int
      OBVIOUS
    <2>1. IsFiniteSet(0 .. k - 1)
      BY <2>0, FS_Interval
    <2>a. \A y \in 0 .. k - 1 : u[y].size \in Nat
      <3>1. \A y \in 0 .. k - 1 : y \in 0 .. b - 1
        OBVIOUS
      <3> QED
        BY <1>2, <3>1
    <2>2. k # 0 => k - 1 \in 0 .. k - 1 /\ (0 .. k - 1) \ {k - 1} = 0 .. (k - 1) - 1
      OBVIOUS
    <2> QED
      BY <2>1, <2>a, <2>2, SumWithout
  <1> DEFINE Good(k) == Sum(k) <= TokensBefore(k, context) * KvPerToken
             Bad == {k \in 0 .. b : ~Good(k)}
  <1>4. Bad = {}
    <2> SUFFICES ASSUME Bad # {} PROVE FALSE
      OBVIOUS
    <2> DEFINE m == Min(Bad)
    <2>0. Bad \in SUBSET Nat
      <3> HIDE DEF Good
      <3> QED
        OBVIOUS
    <2>1. m \in Bad /\ \A k \in Bad : m <= k
      <3> HIDE DEF Bad
      <3> QED
        BY <2>0, LeastMember
    <2> HIDE DEF m
    <2>2. CASE m = 0
      <3>1. 0 .. 0 - 1 = {}
        OBVIOUS
      <3>2. Sum(0) = 0
        BY <3>1, SumOfNone
      <3>3. TokensBefore(0, context) * KvPerToken \in Nat
        <4>1. PICK p \in Nat, kv \in Nat : p = PerBlock /\ kv = KvPerToken
          BY LadderAssumption
        <4>2. TokensBefore(0, context) = 0
          BY <4>1, MinOfTwo DEF TokensBefore
        <4> QED
          BY <4>1, <4>2
      <3>4. Good(0)
        BY <3>2, <3>3
      <3> QED
        BY <2>1, <2>2, <3>4
    <2>3. CASE m # 0
      <3>1. PICK k \in 0 .. b - 1 : m = k + 1 /\ k \in Nat
        <4>1. m - 1 \in 0 .. b - 1 /\ m - 1 \in Nat /\ m = (m - 1) + 1
          BY <2>1, <2>3
        <4> QED
          BY <4>1
      <3>2. k \notin Bad
        BY <2>1, <3>1
      <3>3. Good(k)
        <4> HIDE DEF Good
        <4> QED
          BY <3>1, <3>2
      <3>4. Sum(k) \in Nat /\ Sum(k + 1) = Sum(k) + u[k].size
        <4> HIDE DEF Sum
        <4>1. k + 1 \in 0 .. b /\ k + 1 # 0 /\ (k + 1) - 1 = k
          BY <3>1
        <4> QED
          BY <1>3, <4>1
      <3>5. /\ TokensBefore(k, context) * KvPerToken \in Nat
            /\ TokensBefore(k, context) * KvPerToken + FullBytes(k, context, KvPerToken)
                 = TokensBefore(k + 1, context) * KvPerToken
        BY <1>1, <3>1, OneBlockMore
      <3>6. u[k].size \in Nat /\ FullBytes(k, context, KvPerToken) \in Nat /\ u[k].size <= FullBytes(k, context, KvPerToken)
        BY <1>2
      <3>7. PICK before \in Nat, full \in Nat, size \in Nat, sum \in Nat :
              /\ before = TokensBefore(k, context) * KvPerToken /\ full = FullBytes(k, context, KvPerToken)
              /\ size = u[k].size /\ sum = Sum(k)
        BY <3>4, <3>5, <3>6
      <3> HIDE DEF Sum
      <3>8. Sum(k + 1) = sum + size /\ TokensBefore(k + 1, context) * KvPerToken = before + full
            /\ sum <= before /\ size <= full
        BY <3>3, <3>4, <3>5, <3>6, <3>7
      <3>9. Good(k + 1)
        BY <3>8
      <3> HIDE DEF Good
      <3> QED
        BY <2>1, <3>1, <3>9
    <2> QED
      BY <2>2, <2>3
  <1>5. Sum(b) \in Nat /\ Good(b)
    <2>1. b \in 0 .. b
      OBVIOUS
    <2> HIDE DEF Good, Sum
    <2> QED
      BY <1>3, <1>4, <2>1
  <1>6. Need[rung][context] = Sum(b)
    BY <1>1, NeedIsSum DEF u
  <1>7. TokensBefore(b, context) * KvPerToken <= context * KvPerToken
    <2>1. PICK p \in Nat, kv \in Nat, end \in Nat : p = PerBlock /\ kv = KvPerToken /\ end = b * PerBlock
      BY LadderAssumption, BlockBegins
    <2>2. PICK tokens \in Nat : tokens = Min({end, context}) /\ tokens <= context
      BY LeastMember
    <2> QED
      BY <2>1, <2>2, ProductsRise DEF TokensBefore
  <1>8. PICK limit \in Nat, filled \in Nat :
          limit = context * KvPerToken /\ filled = TokensBefore(b, context) * KvPerToken
    <2>1. PICK kv \in Nat, end \in Nat : kv = KvPerToken /\ end = b * PerBlock
      BY LadderAssumption, BlockBegins
    <2>2. PICK tokens \in Nat : tokens = Min({end, context})
      BY LeastMember
    <2>3. context * kv \in Nat /\ tokens * kv \in Nat
      OBVIOUS
    <2> QED
      BY <2>1, <2>2, <2>3 DEF TokensBefore
  <1> QED
    BY <1>5, <1>6, <1>7, <1>8

\* What each session needs, was promised and holds, as sizes to sum over the
\* sessions there are.
DemandSizes(ss) == [s \in SessionIds |-> [size |-> Need[ss[s].rung][ss[s].contract.context]]]
PromisedSizes(ss) == [s \in SessionIds |-> [size |-> ss[s].contract.context * KvPerToken]]
HeldSizes(ss) == [s \in SessionIds |-> [size |-> ss[s].resident]]

IsDemand(S, f) ==
  f = [x \in SUBSET S |-> IF x = {} THEN 0 ELSE Need[sessions[Pick(x)].rung][sessions[Pick(x)].contract.context] + f[x \ {Pick(x)}]]

LEMMA DemandIsSum ==
  Demand = SizeSum(DemandSizes(sessions), LiveIn(sessions))
  <1> DEFINE S == LiveIn(sessions)
             u == DemandSizes(sessions)
  <1>1. Demand = (CHOOSE f : IsDemand(S, f))[S]
    BY DEF Demand, MapThenSumSet, MapThenFoldSet, IsDemand, Pick
  <1>2. ASSUME NEW f PROVE IsDemand(S, f) <=> IsSum(u, S, f)
    <2>1. ASSUME NEW x \in SUBSET S, x # {}
          PROVE  u[Pick(x)].size = Need[sessions[Pick(x)].rung][sessions[Pick(x)].contract.context]
      <3>1. Pick(x) \in SessionIds
        BY <2>1 DEF Pick, LiveIn
      <3> QED
        BY <3>1 DEF DemandSizes
    <2> HIDE DEF S, u
    <2>2. \A x \in SUBSET S :
            (IF x = {} THEN 0 ELSE Need[sessions[Pick(x)].rung][sessions[Pick(x)].contract.context] + f[x \ {Pick(x)}])
          = (IF x = {} THEN 0 ELSE u[Pick(x)].size + f[x \ {Pick(x)}])
      BY <2>1, Zenon
    <2> QED
      BY <2>2, Zenon DEF IsDemand, IsSum
  <1>3. (CHOOSE f : IsDemand(S, f)) = (CHOOSE f : IsSum(u, S, f))
    <2> HIDE DEF S, u
    <2> QED
      BY <1>2, Zenon
  <1> QED
    BY <1>1, <1>3, SumUnfolds DEF SumTable

IsPromised(S, f) ==
  f = [x \in SUBSET S |-> IF x = {} THEN 0 ELSE sessions[Pick(x)].contract.context * KvPerToken + f[x \ {Pick(x)}]]

LEMMA PromisedIsSum ==
  Promised = SizeSum(PromisedSizes(sessions), LiveIn(sessions))
  <1> DEFINE S == LiveIn(sessions)
             u == PromisedSizes(sessions)
  <1>1. Promised = (CHOOSE f : IsPromised(S, f))[S]
    BY DEF Promised, MapThenSumSet, MapThenFoldSet, IsPromised, Pick
  <1>2. ASSUME NEW f PROVE IsPromised(S, f) <=> IsSum(u, S, f)
    <2>1. ASSUME NEW x \in SUBSET S, x # {}
          PROVE  u[Pick(x)].size = sessions[Pick(x)].contract.context * KvPerToken
      <3>1. Pick(x) \in SessionIds
        BY <2>1 DEF Pick, LiveIn
      <3> QED
        BY <3>1 DEF PromisedSizes
    <2> HIDE DEF S, u
    <2>2. \A x \in SUBSET S :
            (IF x = {} THEN 0 ELSE sessions[Pick(x)].contract.context * KvPerToken + f[x \ {Pick(x)}])
          = (IF x = {} THEN 0 ELSE u[Pick(x)].size + f[x \ {Pick(x)}])
      BY <2>1, Zenon
    <2> QED
      BY <2>2, Zenon DEF IsPromised, IsSum
  <1>3. (CHOOSE f : IsPromised(S, f)) = (CHOOSE f : IsSum(u, S, f))
    <2> HIDE DEF S, u
    <2> QED
      BY <1>2, Zenon
  <1> QED
    BY <1>1, <1>3, SumUnfolds DEF SumTable

\* What the sessions hold resident, all together.
HeldByAll == MapThenSumSet(LAMBDA s : sessions[s].resident, LiveIn(sessions))

IsHeldByAll(S, f) ==
  f = [x \in SUBSET S |-> IF x = {} THEN 0 ELSE sessions[Pick(x)].resident + f[x \ {Pick(x)}]]

LEMMA HeldByAllIsSum ==
  HeldByAll = SizeSum(HeldSizes(sessions), LiveIn(sessions))
  <1> DEFINE S == LiveIn(sessions)
             u == HeldSizes(sessions)
  <1>1. HeldByAll = (CHOOSE f : IsHeldByAll(S, f))[S]
    BY DEF HeldByAll, MapThenSumSet, MapThenFoldSet, IsHeldByAll, Pick
  <1>2. ASSUME NEW f PROVE IsHeldByAll(S, f) <=> IsSum(u, S, f)
    <2>1. ASSUME NEW x \in SUBSET S, x # {}
          PROVE  u[Pick(x)].size = sessions[Pick(x)].resident
      <3>1. Pick(x) \in SessionIds
        BY <2>1 DEF Pick, LiveIn
      <3> QED
        BY <3>1 DEF HeldSizes
    <2> HIDE DEF S, u
    <2>2. \A x \in SUBSET S :
            (IF x = {} THEN 0 ELSE sessions[Pick(x)].resident + f[x \ {Pick(x)}])
          = (IF x = {} THEN 0 ELSE u[Pick(x)].size + f[x \ {Pick(x)}])
      BY <2>1, Zenon
    <2> QED
      BY <2>2, Zenon DEF IsHeldByAll, IsSum
  <1>3. (CHOOSE f : IsHeldByAll(S, f)) = (CHOOSE f : IsSum(u, S, f))
    <2> HIDE DEF S, u
    <2> QED
      BY <1>2, Zenon
  <1> QED
    BY <1>1, <1>3, SumUnfolds DEF SumTable

\* The sessions there are, each with a contract that may be asked for.
Contracted(ss) ==
  /\ ss \in [SessionIds -> Session]
  /\ \A s \in LiveIn(ss) : ss[s].contract \in Contracts
DemandOf(ss) == SizeSum(DemandSizes(ss), LiveIn(ss))
PromisedOf(ss) == SizeSum(PromisedSizes(ss), LiveIn(ss))

LEMMA SessionNeeds ==
  ASSUME NEW ss, Contracted(ss), NEW s \in LiveIn(ss)
  PROVE  /\ DemandSizes(ss)[s].size = Need[ss[s].rung][ss[s].contract.context]
         /\ DemandSizes(ss)[s].size \in Nat
         /\ PromisedSizes(ss)[s].size \in Nat /\ DemandSizes(ss)[s].size <= PromisedSizes(ss)[s].size
  <1>1. s \in SessionIds /\ ss[s].rung \in 0 .. 5 /\ ss[s].contract.context \in Nat
    BY LiveTerms DEF Contracted
  <1>2. PICK rung \in 0 .. 5, context \in Nat : rung = ss[s].rung /\ context = ss[s].contract.context
    BY <1>1
  <1>3. context \in Contexts
    BY <1>2 DEF Contracted, Contexts
  <1>4. PICK kv \in Nat : kv = KvPerToken
    BY LadderAssumption
  <1>5. PICK need \in Nat, full \in Nat : need = Need[rung][context] /\ full = context * KvPerToken /\ need <= full
    <2>1. context * kv \in Nat
      OBVIOUS
    <2> QED
      BY <1>3, <1>4, <2>1, NeedWithin
  <1> QED
    BY <1>1, <1>2, <1>5 DEF DemandSizes, PromisedSizes

LEMMA LiveFinite ==
  ASSUME NEW ss
  PROVE  IsFiniteSet(LiveIn(ss))
  <1>1. PICK n \in Nat : n = MaxId
    BY MaxIdAssumption
  <1>2. IsFiniteSet(1 .. n) /\ LiveIn(ss) \subseteq 1 .. n
    BY <1>1, FS_Interval DEF LiveIn, SessionIds
  <1> QED
    BY <1>2, FS_Subset

LEMMA DemandPromised ==
  ASSUME NEW ss, Contracted(ss)
  PROVE  DemandOf(ss) \in Nat /\ PromisedOf(ss) \in Nat /\ DemandOf(ss) <= PromisedOf(ss)
  <1>1. PICK S, need, full : S = LiveIn(ss) /\ need = DemandSizes(ss) /\ full = PromisedSizes(ss)
    OBVIOUS
  <1>2. IsFiniteSet(S)
    BY <1>1, LiveFinite
  <1>3. \A s \in S : need[s].size \in Nat /\ full[s].size \in Nat /\ need[s].size <= full[s].size
    BY <1>1, SessionNeeds
  <1>4. SizeSum(need, S) \in Nat
    BY <1>2, <1>3, SumWithout
  <1>5. SizeSum(full, S) \in Nat
    BY <1>2, <1>3, SumWithout
  <1>6. SizeSum(need, S) <= SizeSum(full, S)
    BY <1>2, <1>3, SumLesser
  <1> QED
    BY <1>1, <1>4, <1>5, <1>6 DEF DemandOf, PromisedOf

\* Sessions that go take their need with them, and the others need the same.
LEMMA DemandFalls ==
  ASSUME NEW ss, NEW after, Contracted(ss), Contracted(after),
         \A s \in LiveIn(after) : /\ s \in LiveIn(ss)
                                  /\ after[s].contract = ss[s].contract /\ after[s].rung = ss[s].rung
  PROVE  DemandOf(after) <= DemandOf(ss)
  <1>1. PICK S, U, need, old : /\ S = LiveIn(after) /\ U = LiveIn(ss)
                               /\ need = DemandSizes(after) /\ old = DemandSizes(ss)
    OBVIOUS
  <1>2. IsFiniteSet(U) /\ S \subseteq U
    BY <1>1, LiveFinite
  <1>3. \A s \in U : old[s].size \in Nat
    BY <1>1, SessionNeeds
  <1>4. ASSUME NEW s \in S PROVE need[s].size \in Nat /\ need[s].size <= old[s].size
    <2>1. need[s].size \in Nat /\ need[s].size = Need[after[s].rung][after[s].contract.context]
      BY <1>1, SessionNeeds
    <2>2. old[s].size = Need[ss[s].rung][ss[s].contract.context]
      BY <1>1, <1>2, SessionNeeds
    <2>3. need[s].size = old[s].size
      BY <1>1, <2>1, <2>2
    <2> QED
      BY <2>1, <2>3
  <1>5. SizeSum(need, S) <= SizeSum(old, U)
    BY <1>2, <1>3, <1>4, SumLesser
  <1> QED
    BY <1>1, <1>5 DEF DemandOf

\* A session that arrives needs its context at rung zero.
LEMMA DemandArrives ==
  ASSUME NEW ss, Contracted(ss), NEW s \in SessionIds, ~Known(ss, s), NEW contract \in Contracts,
         NEW after, after = Adopt(ss, s, contract)
  PROVE  Contracted(after) /\ DemandOf(after) = DemandOf(ss) + Need[0][contract.context]
  <1>1. contract \in Contract /\ ss \in [SessionIds -> Session]
    BY ManagerAssumption DEF Contracted
  <1>2. /\ after \in [SessionIds -> Session]
        /\ \A r : Known(after, r) <=> Known(ss, r) \/ r = s
    BY <1>1, AdoptKeeps
  <1>3. /\ \A r \in SessionIds : r # s => after[r] = ss[r]
        /\ after[s].contract = contract /\ after[s].rung = 0
    BY <1>1 DEF Adopt
  <1>4. LiveIn(after) = LiveIn(ss) \cup {s} /\ s \notin LiveIn(ss)
    BY <1>2 DEF LiveIn, Known
  <1>5. Contracted(after)
    BY <1>2, <1>3, <1>4 DEF Contracted, LiveIn
  <1>6. PICK S, U, need, old : /\ S = LiveIn(after) /\ U = LiveIn(ss)
                               /\ need = DemandSizes(after) /\ old = DemandSizes(ss)
    OBVIOUS
  <1>7. IsFiniteSet(S) /\ IsFiniteSet(U) /\ s \in S /\ U = S \ {s}
    BY <1>4, <1>6, LiveFinite
  <1>8. \A r \in S : need[r].size \in Nat
    BY <1>5, <1>6, SessionNeeds
  <1>9. SizeSum(need, S) = SizeSum(need, U) + need[s].size
    BY <1>7, <1>8, SumWithout
  <1>10. need[s].size = Need[0][contract.context]
    BY <1>3, <1>5, <1>6, <1>7, SessionNeeds
  <1>11. SizeSum(need, U) = SizeSum(old, U)
    <2>1. ASSUME NEW r \in U PROVE need[r].size = old[r].size
      <3>1. r \in SessionIds /\ r # s
        BY <1>4, <1>6, <2>1 DEF LiveIn
      <3> QED
        BY <1>3, <1>6, <3>1 DEF DemandSizes
    <2>2. SameSizes(need, old, U)
      BY <2>1 DEF SameSizes
    <2> QED
      BY <1>7, <2>2, SumSame
  <1> QED
    BY <1>5, <1>6, <1>9, <1>10, <1>11 DEF DemandOf

\* Where the walk is when a fit is relied on: between calls, and while a
\* session arrives.
Settled(w) == w.at \in {"off", "register", "consume", "placed"}
Fitting == fitted /\ budget # 0 /\ Settled(walk) => Demand <= Room
FInv == PInv /\ budget \in Nat /\ Fitting

LEMMA DemandNow ==
  Demand = DemandOf(sessions) /\ Promised = PromisedOf(sessions)
  BY DemandIsSum, PromisedIsSum DEF DemandOf, PromisedOf

LEMMA DemandNext ==
  Demand' = DemandOf(sessions')
  <1>1. (Demand = DemandOf(sessions))'
    BY DemandNow, PTL
  <1> QED
    BY <1>1

LEMMA NowContracted ==
  ASSUME PInv
  PROVE  Contracted(sessions)
  BY DEF PInv, LInv, Contracted

\* No move under way that relies on a fit, or no fit to rely on.
LEMMA FitVoid ==
  ASSUME PInv', budget' \in Nat, ~Settled(walk') \/ ~fitted'
  PROVE  FInv'
  BY DEF FInv, Fitting, Settled

LEMMA FitFrame ==
  ASSUME FInv, PInv', SameTerms, budget' = budget, fitted' = fitted, Settled(walk)
  PROVE  FInv'
  <1>1. Contracted(sessions)
    BY NowContracted DEF FInv
  <1>2. Contracted(sessions')
    <2>1. (PInv => Contracted(sessions))'
      BY NowContracted, PTL
    <2> QED
      BY <2>1
  <1>3. PICK ss, after : ss = sessions /\ after = sessions'
    OBVIOUS
  <1>4. DemandOf(after) <= DemandOf(ss)
    <2>1. \A s \in LiveIn(after) : /\ s \in LiveIn(ss)
                                   /\ after[s].contract = ss[s].contract /\ after[s].rung = ss[s].rung
      BY <1>3 DEF SameTerms
    <2> QED
      BY <1>1, <1>2, <1>3, <2>1, DemandFalls
  <1>5. Demand' = DemandOf(after) /\ Demand = DemandOf(ss)
    BY <1>3, DemandNow, DemandNext
  <1>6. DemandOf(after) \in Nat /\ DemandOf(ss) \in Nat
    BY <1>1, <1>2, <1>3, DemandPromised
  <1>7. PICK room \in Nat : room = Room /\ Room' = room
    <2>1. Reserved \in Nat /\ budget \in Nat
      BY LadderAssumption DEF FInv
    <2>2. Room \in Nat
      BY <2>1 DEF Room, SatSub
    <2>3. Room' = Room
      BY DEF Room
    <2> QED
      BY <2>2, <2>3
  <1> QED
    BY <1>4, <1>5, <1>6, <1>7 DEF FInv, Fitting

\* Admission leaves room for what was promised, which is at least what is needed.
LEMMA FitArrives ==
  ASSUME FInv, PInv', NEW contract \in Contracts, Arrive(contract)
  PROVE  FInv'
  <1> DEFINE s == LowestFree(sessions)
  <1>1. /\ s \in SessionIds /\ ~Known(sessions, s) /\ sessions' = Adopt(sessions, s, contract)
        /\ walk = Off /\ budget' = budget /\ fitted' = fitted /\ Admits(contract)
    BY DEF Arrive, CreateSession, Adoptable
  <1> HIDE DEF s
  <1>2. Contracted(sessions)
    BY NowContracted DEF FInv
  <1>3. PICK ss, after : ss = sessions /\ after = sessions'
    OBVIOUS
  <1>4. DemandOf(after) = DemandOf(ss) + Need[0][contract.context]
    BY <1>1, <1>2, <1>3, DemandArrives
  <1>5. contract.context \in Contexts /\ contract.context \in Nat
    BY ManagerAssumption DEF Contexts, Contract
  <1>6. PICK demand \in Nat, promised \in Nat :
          demand = DemandOf(ss) /\ promised = PromisedOf(ss) /\ demand <= promised
    BY <1>2, <1>3, DemandPromised
  <1>7. PICK need \in Nat, full \in Nat :
          need = Need[0][contract.context] /\ full = contract.context * KvPerToken /\ need <= full
    <2>1. PICK context \in Nat, kv \in Nat : context = contract.context /\ kv = KvPerToken
      BY <1>5, LadderAssumption
    <2>2. context * kv \in Nat
      OBVIOUS
    <2>3. Need[0][context] \in Nat /\ Need[0][context] <= context * KvPerToken
      BY <1>5, <2>1, NeedWithin
    <2> QED
      BY <2>1, <2>2, <2>3
  <1>8. PICK room \in Nat : room = Room /\ Room' = room
    <2>1. Reserved \in Nat /\ budget \in Nat
      BY LadderAssumption DEF FInv
    <2>2. Room \in Nat
      BY <2>1 DEF Room, SatSub
    <2>3. Room' = Room
      BY <1>1 DEF Room
    <2> QED
      BY <2>2, <2>3
  <1>9. Demand = demand /\ Demand' = demand + need /\ Promised = promised
    BY <1>3, <1>4, <1>6, <1>7, DemandNow, DemandNext
  <1>10. ASSUME fitted, budget # 0
         PROVE  demand + need <= room
    <2>1. demand <= room
      <3>1. Settled(walk)
        BY <1>1 DEF Settled, Off
      <3> QED
        BY <1>8, <1>9, <1>10, <3>1 DEF FInv, Fitting
    <2>2. full <= SatSub(room, promised)
      BY <1>1, <1>7, <1>8, <1>9, <1>10 DEF Admits
    <2> QED
      BY <1>6, <1>7, <2>1, <2>2 DEF SatSub
  <1> QED
    BY <1>1, <1>8, <1>9, <1>10 DEF FInv, Fitting

LEMMA FitStarts == LadderInit => FInv
  <1> SUFFICES ASSUME LadderInit PROVE FInv
    OBVIOUS
  <1>1. LiveIn(sessions) = {}
    BY DEF LadderInit, Init, NoSessions, NoSession, LiveIn
  <1>2. Demand = 0
    BY <1>1, DemandNow, SumOfNone DEF DemandOf
  <1>3. budget \in Nat /\ Reserved \in Nat
    BY LadderAssumption DEF LadderInit
  <1>4. Room \in Nat
    BY <1>3 DEF Room, SatSub
  <1> QED
    BY <1>2, <1>3, <1>4, PlanStarts DEF FInv, Fitting

LEMMA FitWalks ==
  ASSUME FInv, PInv', WalkStep
  PROVE  FInv'
  <1>0. PInv /\ LInv /\ budget \in Nat
    BY DEF FInv, PInv
  <1>1. CASE \E id \in Objects : \E template \in Templates[id] :
               walk.at = "register" /\ id = <<walk.session, walk.block>> /\ ArriveRegister(template)
    <2>1. sessions' = sessions /\ budget' = budget /\ fitted' = fitted /\ walk.at = "register"
      BY <1>1 DEF ArriveRegister, Register
    <2> QED
      BY <2>1, FitFrame DEF SameTerms, Settled
  <1>2. CASE ArriveConsume
    BY <1>0, <1>2, ArriveConsumeStep, FitFrame DEF ArriveConsume, Softly, Settled
  <1>3. CASE ArrivePlaced \/ ArriveDone
    <2>1. sessions' = sessions /\ budget' = budget /\ fitted' = fitted /\ walk.at \in {"placed", "register"}
      BY <1>3 DEF ArrivePlaced, ArriveDone, vars
    <2> QED
      BY <2>1, FitFrame DEF SameTerms, Settled
  <1>4. CASE SqueezeFits
    <2>1. sessions' = sessions /\ budget' = budget /\ FitsBudget
      BY <1>4 DEF SqueezeFits, vars
    <2>2. Demand' = Demand /\ Room' = Room
      BY <2>1, DemandNow, DemandNext DEF Room
    <2> QED
      BY <1>0, <2>1, <2>2 DEF FInv, Fitting, FitsBudget
  <1>5. CASE SqueezeDeepen \/ SqueezeTerminate \/ Terminated \/ DeepenDone \/ StepDone
             \/ \E s \in SessionIds : DeepenSession(s)
    <2>1. budget' = budget
      BY <1>5 DEF SqueezeDeepen, SqueezeTerminate, Terminated, DeepenDone, StepDone, DeepenSession
    <2>2. walk'.at \in {"deepen", "terminate", "next", "rewrite"} \/ ~fitted'
      BY <1>5 DEF SqueezeDeepen, SqueezeTerminate, Terminated, DeepenDone, StepDone, DeepenSession
    <2> QED
      BY <1>0, <2>1, <2>2, FitVoid DEF Settled
  <1>6. ASSUME NEW id \in Objects, Rewrite(id) \/ RewriteRefused(id)
        PROVE  FInv'
    <2>1. walk.at = "rewrite" /\ budget' = budget
      BY <1>6 DEF Rewrite, RewriteRefused
    <2>2. RewriteWalk
      BY <1>0, <2>1, RewritingNow
    <2>3. walk'.at = "rewrite"
      <3>1. (\E left, coarsest : walk' = [walk EXCEPT !.left = left, !.coarsest = coarsest])
            \/ \E left : walk' = [walk EXCEPT !.left = left]
        BY <1>6 DEF Rewrite, RewriteRefused
      <3> QED
        BY <2>1, <2>2, <3>1 DEF RewriteWalk
    <2> QED
      BY <1>0, <2>1, <2>3, FitVoid DEF Settled
  <1> QED
    BY <1>1, <1>2, <1>3, <1>4, <1>5, <1>6 DEF WalkStep

LEMMA FitSteps == FInv /\ [LadderNext]_ladderVars => FInv'
  <1> SUFFICES ASSUME FInv, [LadderNext]_ladderVars PROVE FInv'
    OBVIOUS
  <1>0. LInv /\ PInv /\ PInv' /\ budget \in Nat
    BY PlanSteps DEF FInv, PInv
  <1>1. CASE Settled(walk)
    <2>1. CASE SameTerms /\ budget' = budget /\ fitted' = fitted
      BY <1>0, <1>1, <2>1, FitFrame
    <2>2. CASE JobStep /\ UNCHANGED <<budget, walk, fitted, skipped, moves, calls>>
      BY <1>0, <2>1, <2>2, JobSteps DEF Softly
    <2>3. CASE WalkStep
      BY <1>0, <2>3, FitWalks
    <2>4. CASE \E contract \in Contracts : Arrive(contract)
      BY <1>0, <2>4, FitArrives
    <2>5. ASSUME NEW bytes \in Budgets, Squeeze(bytes) PROVE FInv'
      <3>1. walk'.at = "next" /\ budget' = bytes /\ bytes \in Nat
        BY <2>5, LadderAssumption DEF Squeeze
      <3> QED
        BY <1>0, <3>1, FitVoid DEF Settled
    <2>6. CASE /\ walk = Off
               /\ \/ \E p \in Providers : Attach(p)
                  \/ \E id \in Objects : Consume(id)
               /\ UNCHANGED <<budget, walk, fitted, skipped, moves, calls>>
      BY <1>0, <2>1, <2>6, BetweenWalks DEF Softly
    <2>7. ASSUME NEW s \in SessionIds, EndSession(s) PROVE FInv'
      BY <1>0, <2>1, <2>7, BetweenWalks DEF Softly, EndSession
    <2>8. CASE UNCHANGED ladderVars
      BY <2>1, <2>8 DEF ladderVars, vars, SameTerms
    <2> QED
      BY <2>2, <2>3, <2>4, <2>5, <2>6, <2>7, <2>8 DEF LadderNext
  <1>2. CASE ~Settled(walk)
    <2>1. CASE WalkStep
      BY <1>0, <2>1, FitWalks
    <2>2. CASE walk' = walk /\ budget' = budget
      BY <1>0, <1>2, <2>2, FitVoid
    <2>3. walk # Off
      BY <1>2 DEF Settled, Off
    <2> QED
      BY <2>1, <2>2, <2>3 DEF LadderNext, Arrive, Squeeze, EndSession, ladderVars
  <1> QED
    BY <1>1, <1>2

LEMMA FitInductive == LadderSpec => []FInv
  BY FitStarts, FitSteps, PTL DEF LadderSpec

\* A session never has more resident, with the fault in progress, than its
\* blocks are entered with: what it owns is its own blocks, and the block
\* faulted on is none of those resident.
LEMMA ResidentHeld ==
  ASSUME LInv, IInv, NEW s, Known(sessions, s), AccountOf(s)
  PROVE  sessions[s].resident \in Nat /\ Held(s) \in Nat /\ sessions[s].resident <= Held(s)
  <1> DEFINE S == {id \in Objects : id[1] = s /\ Entry(id)}
  <1>1. Held(s) = SizeSum(table, S)
    BY DEF Held, SizeSum
  <1>2. IsFiniteSet(S) /\ \A id \in S : table[id].size \in Nat
    <2>1. IsFiniteSet(S)
      BY ManagerAssumption, FS_Subset
    <2>2. \A id \in S : table[id].size \in Nat
      BY EntryObject DEF IInv
    <2> QED
      BY <2>1, <2>2
  <1>3. \A id \in Objects : Entry(id) => table[id].owner = id[1]
    BY DEF LInv, Blocked
  <1>4. OwnedBy(s) \subseteq S
    BY <1>3 DEF OwnedBy, ResidentSet, Resident
  <1>5. OwnedSize(s) = SizeSum(table, OwnedBy(s)) /\ OwnedSize(s) \in Nat
    BY SumsTyped, ResidentSums
  <1>6. SizeSum(table, S) \in Nat
    BY <1>2, SumWithout
  <1>7. sessions[s].resident = OwnedSize(s) + Pending(s)
    BY DEF AccountOf
  <1>8. CASE job.phase \in {"room", "place"} /\ table[job.id].owner = s
    <2>1. FaultJob
      BY <1>8, NotWorking DEF IInv
    <2>2. PICK id \in Objects : id = job.id /\ Entry(id) /\ ~Resident(id)
      BY <2>1 DEF FaultJob
    <2>3. id \in S /\ id \notin OwnedBy(s)
      BY <1>3, <1>8, <2>2 DEF OwnedBy, ResidentSet
    <2>4. PICK size \in Nat : size = table[id].size /\ Pending(s) = size
      BY <1>2, <1>8, <2>2, <2>3 DEF Pending
    <2> DEFINE R == S \ {id}
    <2>5. SizeSum(table, R) \in Nat /\ SizeSum(table, S) = SizeSum(table, R) + size
      BY <1>2, <2>3, <2>4, SumWithout
    <2>6. IsFiniteSet(R) /\ OwnedBy(s) \subseteq R /\ \A o \in R : table[o].size \in Nat
      BY <1>2, <1>4, <2>3, FS_Subset
    <2> HIDE DEF R, S
    <2>7. SizeSum(table, OwnedBy(s)) <= SizeSum(table, R)
      <3>1. \A o \in OwnedBy(s) : table[o].size \in Nat /\ table[o].size <= table[o].size
        BY <2>6
      <3> QED
        BY <2>6, <3>1, SumLesser
    <2> QED
      BY <1>1, <1>5, <1>6, <1>7, <2>4, <2>5, <2>7
  <1>9. CASE ~(job.phase \in {"room", "place"} /\ table[job.id].owner = s)
    <2>1. Pending(s) = 0
      BY <1>9 DEF Pending
    <2> HIDE DEF S
    <2>2. SizeSum(table, OwnedBy(s)) <= SizeSum(table, S)
      <3>1. \A o \in OwnedBy(s) : table[o].size \in Nat /\ table[o].size <= table[o].size
        BY <1>2, <1>4
      <3> QED
        BY <1>2, <1>4, <3>1, SumLesser
    <2> QED
      BY <1>1, <1>5, <1>6, <1>7, <2>1, <2>2
  <1> QED
    BY <1>8, <1>9

\* What all sessions hold resident is within what their rungs need, and that
\* within the room.
LEMMA ResidentWithin ==
  ASSUME FInv, MInv, AccountsSure
  PROVE  FitsKept
  <1> SUFFICES ASSUME walk.at = "off", fitted, skipped \cap LiveIn(sessions) = {}, budget # 0
               PROVE  HeldByAll <= Room
    BY DEF FitsKept, HeldByAll
  <1>0. PInv /\ LInv /\ IInv /\ Contracted(sessions)
    BY NowContracted DEF FInv, PInv, MInv
  <1>1. Demand <= Room
    BY DEF FInv, Fitting, Settled
  <1>2. PICK S, held, need : S = LiveIn(sessions) /\ held = HeldSizes(sessions) /\ need = DemandSizes(sessions)
    OBVIOUS
  <1>3. IsFiniteSet(S) /\ \A s \in S : need[s].size \in Nat
    BY <1>0, <1>2, LiveFinite, SessionNeeds
  <1>4. ASSUME NEW s \in S
        PROVE  held[s].size \in Nat /\ held[s].size <= need[s].size
    <2>1. s \in SessionIds /\ s \in LiveIn(sessions) \ skipped /\ Known(sessions, s)
      BY <1>2 DEF LiveIn, Known
    <2>2. AccountOf(s)
      BY <2>1, AccountKnown DEF AccountsSure
    <2>3. sessions[s].resident \in Nat /\ Held(s) \in Nat /\ sessions[s].resident <= Held(s)
      BY <1>0, <2>1, <2>2, ResidentHeld
    <2>4. Held(s) <= Need[sessions[s].rung][sessions[s].contract.context]
      BY <1>0, <2>1, TableHeld DEF PlanIsTable
    <2>5. need[s].size = Need[sessions[s].rung][sessions[s].contract.context] /\ need[s].size \in Nat
      BY <1>0, <1>2, <1>3, SessionNeeds
    <2>6. held[s].size = sessions[s].resident
      BY <1>2, <2>1 DEF HeldSizes
    <2> QED
      BY <2>3, <2>4, <2>5, <2>6
  <1>5. SizeSum(held, S) <= SizeSum(need, S)
    BY <1>3, <1>4, SumLesser
  <1>6. SizeSum(held, S) \in Nat
    BY <1>3, <1>4, SumWithout
  <1>7. SizeSum(need, S) \in Nat
    BY <1>3, SumWithout
  <1>8. HeldByAll = SizeSum(held, S) /\ Demand = SizeSum(need, S)
    BY <1>2, HeldByAllIsSum, DemandIsSum
  <1>9. Room \in Nat
    BY LadderAssumption DEF FInv, Room, SatSub
  <1> QED
    BY <1>1, <1>5, <1>6, <1>7, <1>8, <1>9

\* Once a squeeze has ended in a fit, what the sessions hold resident is
\* within the budget less the reserve until the next squeeze, however many
\* sessions are admitted and fault their blocks in meanwhile.
THEOREM FitsHold == WholeBlocks => (LadderSpec => []FitsKept)
  <1>1. ASSUME WholeBlocks PROVE LadderSpec => []FitsKept
    <2>1. MInv /\ AccountsSure /\ [LadderNext]_ladderVars => MInv' /\ AccountsSure'
      BY <1>1, WholeSteps, LadderAccounts DEF AccountsSure
    <2> QED
      BY <2>1, WholeStarts, AccountsStart, FitInductive, ResidentWithin, PTL DEF LadderSpec
  <1> QED
    BY <1>1
=============================================================================
