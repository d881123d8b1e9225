------------------------------- MODULE Ladder -------------------------------
(***************************************************************************)
(* mlos-ladder over the manager: sessions that arrive with a cached        *)
(* context, and the walk that degrades their caches rung by rung, and in   *)
(* the end terminates sessions, when the budget shrinks.                   *)
(*                                                                         *)
(* Objects are KV blocks <<session, position>>, zero oldest, of one layer. *)
(* walk says where arrive or squeeze is; the manager's calls they make are *)
(* the manager's own actions.  A table scan meets blocks in the hash's     *)
(* order, so any order is possible.  The bytes read to degrade, which      *)
(* nothing here spends, are left out.                                      *)
(***************************************************************************)
EXTENDS Manager

CONSTANTS PerBlock,         \* Shape::per_block
          Hot,              \* Shape::hot
          KvPerToken,       \* Capacity::kv_per_token
          Reserved,         \* Capacity::reserved
          Budgets,          \* the values Capacity::bytes takes
          MaxCalls          \* bound: sessions created, squeezes and sessions ended

ASSUME LadderAssumption ==
  /\ PerBlock \in Nat \ {0} /\ Hot \in Nat /\ KvPerToken \in Nat \ {0}
  /\ Reserved \in Nat /\ Budgets \subseteq Nat /\ MaxCalls \in Nat
  \* block(session, layer, position), and kv::meta: a token of one layer
  /\ Objects \subseteq SessionIds \X Nat
  /\ \A id \in Objects : \A template \in Templates[id] :
       template.precision = 1 /\ template.size = KvPerToken

VARIABLES budget,       \* Capacity::bytes
          walk,         \* where arrive or squeeze is
          fitted,       \* the last squeeze ended because the sessions fit
          skipped,      \* the sessions a rewrite of whose blocks was refused
          moves,        \* how many moves the walk has made
          calls         \* how many calls were made

ladderVars == <<vars, budget, walk, fitted, skipped, moves, calls>>

-----------------------------------------------------------------------------
(* fate.rs, lib.rs: what each rung makes of each block. *)

Fp16 == 1
Q8 == 3
Q4 == 4
Ternary == 6

\* A fate is the precision a block is kept at, or one of these.
Summary == 7
Dropped == 0

Bits == <<16, 16, 8, 4, 3, 2>>
FatePrecision(fate) == IF fate = Summary THEN Q4 ELSE fate
FateBytes(fate, full) ==
  IF fate = Dropped THEN 0 ELSE (full * Bits[FatePrecision(fate)]) \div 16

Blocks(context) == (context + PerBlock - 1) \div PerBlock
FullBytes(at, context, kv) == Min({PerBlock, SatSub(context, at * PerBlock)}) * kv

Cold(blocks) == SatSub(blocks, Hot)
\* The older half of the cold blocks, when that is two or more.
Span(cold) == IF cold \div 2 >= 2 THEN cold \div 2 ELSE 0
\* The older half of the cold blocks that are not in the span.
Cut(cold) == (cold - Span(cold)) - (cold - Span(cold)) \div 2

\* Shape::fate.
Fate(rung, at, blocks) ==
  LET cold == Cold(blocks)
      gone == Span(cold) + IF rung = 4 THEN Cut(cold) ELSE 0
  IN  CASE rung = 0 \/ at >= cold               -> Fp16
        [] rung = 1 /\ at < cold                -> Q8
        [] rung = 2 /\ at < cold                -> Q4
        [] rung \in {3, 4} /\ at < cold         ->
             IF at = 0 /\ Span(cold) # 0 THEN Summary
             ELSE IF at < gone THEN Dropped ELSE Q4
        [] rung >= 5 /\ at < cold               -> Dropped

\* Shape::need of the contexts there are, by rung.
Contexts == {contract.context : contract \in Contracts}
Need == [rung \in 0 .. 5 |-> [context \in Contexts |->
  MapThenSumSet(LAMBDA at : FateBytes(Fate(rung, at, Blocks(context)),
                                      FullBytes(at, context, KvPerToken)),
                0 .. Blocks(context) - 1)]]

-----------------------------------------------------------------------------
(* walk.rs *)

\* Rung::quality.
Quality(rung) == <<Fp16, Q8, Q4, Ternary, Ternary, Ternary, Ternary, Ternary>>[rung + 1]

\* Mutant: the floor is not asked.
MovableAnywhere(s, rung) ==
  /\ sessions[s].contract.context # 0
  /\ sessions[s].rung < rung /\ rung <= 5

Movable(s, rung) ==
  /\ sessions[s].contract.context # 0
  /\ sessions[s].rung < rung /\ rung <= 5
  /\ Quality(rung) <= sessions[s].contract.floor

\* The rungs some session may be moved to next.
Deeper == {sessions[s].rung + 1 : s \in {t \in LiveIn(sessions) : Movable(t, sessions[t].rung + 1)}}

Holding == {s \in LiveIn(sessions) : sessions[s].contract.context # 0}

Room == SatSub(budget, Reserved)
Demand == MapThenSumSet(LAMBDA s : Need[sessions[s].rung][sessions[s].contract.context],
                        LiveIn(sessions))

\* Mutant: the reserve is given out too.
FitsBudgetUnreserved == budget = 0 \/ Demand <= budget

FitsBudget == budget = 0 \/ Demand <= Room

-----------------------------------------------------------------------------
(* admission, and arrive *)

Promised == MapThenSumSet(LAMBDA s : sessions[s].contract.context * KvPerToken, LiveIn(sessions))

\* Capacity::admit, of slots, the contract's own ceiling, and bytes.
Admits(contract) ==
  LET need == contract.context * KvPerToken
  IN  /\ contract.ceiling = 0 \/ need <= contract.ceiling
      /\ budget = 0 \/ need <= SatSub(Room, Promised)

Off == [at |-> "off"]
Arriving(at, s, block) == [at |-> at, session |-> s, block |-> block]

LadderInit ==
  /\ Init
  /\ budget \in Budgets
  /\ walk = Off
  /\ fitted = TRUE /\ skipped = {}
  /\ moves = 0
  /\ calls = 0

\* One more of the calls that MaxCalls bounds.
Called == calls < MaxCalls /\ calls' = calls + 1

Arrive(contract) ==
  /\ walk = Off
  /\ Admits(contract)
  /\ CreateSession(contract)
  /\ walk' = Arriving("register", LowestFree(sessions), 0)
  /\ skipped' = skipped \ {LowestFree(sessions)}
  /\ Called
  /\ UNCHANGED <<budget, fitted, moves>>

\* One turn of arrive: a block is registered, then consumed; the prefill
\* ends with the context, or at the first block that is not placed.
ArriveRegister(template) ==
  LET s       == walk.session
      context == sessions[s].contract.context
  IN  /\ job = Idle /\ walk.at = "register"
      /\ walk.block < Blocks(context)
      /\ Register(<<s, walk.block>>,
                  [template EXCEPT !.owner = s,
                                   !.size = FullBytes(walk.block, context, template.size)])
      /\ walk' = [walk EXCEPT !.at = "consume"]
      /\ UNCHANGED <<budget, fitted, skipped, moves>>

ArriveConsume ==
  LET id == <<walk.session, walk.block>>
  IN  /\ job = Idle /\ walk.at = "consume"
      /\ \/ Consume(id)
         \/ /\ \/ table[id].provider \notin attached
               \/ ~Chargeable(sessions, table[id].owner, table[id].size)
            /\ UNCHANGED vars
      /\ walk' = [walk EXCEPT !.at = "placed"]
      /\ UNCHANGED <<budget, fitted, skipped, moves>>

ArrivePlaced ==
  /\ job = Idle /\ walk.at = "placed"
  /\ walk' = IF Resident(<<walk.session, walk.block>>)
             THEN Arriving("register", walk.session, walk.block + 1) ELSE Off
  /\ UNCHANGED <<vars, budget, fitted, skipped, moves>>

ArriveDone ==
  /\ job = Idle /\ walk.at = "register"
  /\ walk.block = Blocks(sessions[walk.session].contract.context)
  /\ walk' = Off
  /\ UNCHANGED <<vars, budget, fitted, skipped, moves>>

\* mlsh's `session end`.
EndSession(s) ==
  /\ walk = Off
  /\ DestroySession(s)
  /\ Called
  /\ UNCHANGED <<budget, walk, fitted, skipped, moves>>

-----------------------------------------------------------------------------
(* squeeze.rs *)

Squeeze(bytes) ==
  /\ job = Idle /\ walk = Off
  /\ budget' = bytes
  /\ walk' = [at |-> "next"] /\ moves' = 0
  /\ Called
  /\ UNCHANGED <<vars, fitted, skipped>>

\* The loop's head: the move that walk::next names.  It never names
\* Exhausted: with no session holding a context the demand is zero, and zero
\* fits whatever room is left.
SqueezeFits ==
  /\ job = Idle /\ walk.at = "next"
  /\ FitsBudget
  /\ walk' = Off /\ fitted' = TRUE
  /\ UNCHANGED <<vars, budget, skipped, moves>>

SqueezeDeepen ==
  /\ job = Idle /\ walk.at = "next"
  /\ ~FitsBudget /\ Deeper # {}
  /\ walk' = [at |-> "deepen", rung |-> Min(Deeper)]
  /\ moves' = moves + 1
  /\ UNCHANGED <<vars, budget, fitted, skipped>>

\* Mutant: a session goes as soon as the others do not fit.
SqueezeTerminateEagerly ==
  /\ job = Idle /\ walk.at = "next"
  /\ ~FitsBudget /\ Holding # {}
  /\ DestroySession(Max(Holding))
  /\ walk' = [at |-> "terminate", session |-> Max(Holding)]
  /\ moves' = moves + 1
  /\ UNCHANGED <<budget, fitted, skipped>>

SqueezeTerminate ==
  /\ job = Idle /\ walk.at = "next"
  /\ ~FitsBudget /\ Deeper = {} /\ Holding # {}
  /\ DestroySession(Max(Holding))
  /\ walk' = [at |-> "terminate", session |-> Max(Holding)]
  /\ moves' = moves + 1
  /\ UNCHANGED <<budget, fitted, skipped>>

\* Mutant: a refusal is tried again.
TerminatedRetry ==
  /\ job = Idle /\ walk.at = "terminate"
  /\ walk' = [at |-> "next"]
  /\ UNCHANGED <<vars, budget, fitted, skipped, moves>>

\* Whether destroy_session ended the session; a refusal ends the walk.
Terminated ==
  /\ job = Idle /\ walk.at = "terminate"
  /\ IF Known(sessions, walk.session)
     THEN walk' = Off /\ fitted' = FALSE
     ELSE walk' = [at |-> "next"] /\ UNCHANGED fitted
  /\ UNCHANGED <<vars, budget, skipped, moves>>

\* deepen: the next session the rung would move, or back to the head.
DeepenSession(s) ==
  /\ job = Idle /\ walk.at = "deepen"
  /\ s \in LiveIn(sessions) /\ Movable(s, walk.rung)
  /\ walk' = [at |-> "rewrite", rung |-> walk.rung, session |-> s,
              left |-> {id \in Objects : id[1] = s /\ Entry(id)},
              coarsest |-> sessions[s].coarsest]
  /\ UNCHANGED <<vars, budget, fitted, skipped, moves>>

DeepenDone ==
  /\ job = Idle /\ walk.at = "deepen"
  /\ \A s \in LiveIn(sessions) : ~Movable(s, walk.rung)
  /\ walk' = [at |-> "next"]
  /\ UNCHANGED <<vars, budget, fitted, skipped, moves>>

\* Mutant: a dropped block is evicted and keeps its entry.
RewriteDroppedKept(id) ==
  \/ Evict(id, Home(id))
  \/ ~Resident(id) /\ UNCHANGED <<table, free, used, sessions, counted, claims>>

\* rewrite of a block that is dropped: evicted if it is resident, removed.
RewriteDropped(id) ==
  \/ Evict(id, NoMeta)
  \/ /\ ~Resident(id)
     /\ table' = [table EXCEPT ![id] = NoMeta]
     /\ UNCHANGED <<free, used, sessions, counted, claims>>

\* The size of a block once fate has been applied to it.
Rewritten(id, fate) ==
  LET full == (16 * table[id].size) \div Max({1, FateBytes(table[id].precision, 16)})
  IN  Min({FateBytes(fate, full), table[id].size})

\* rewrite of a block that is kept: the tail goes back to the arena if it is
\* resident and the rounded sizes differ.
RewriteKept(id, fate) ==
  LET size == Rewritten(id, fate)
      old  == RoundUp(table[id].size)
      new  == RoundUp(size)
  IN  /\ table' = [table EXCEPT ![id].size = size, ![id].precision = FatePrecision(fate)]
      /\ \/ /\ Resident(id) /\ new < old
            /\ Evictable
            /\ free' = Give(free, table[id].at - Base + new, old - new)
            /\ used' = used - (old - new)
            /\ counted' = SatSub(counted, table[id].size - size)
            /\ sessions' = Credit(sessions, table[id].owner, table[id].size - size)
         \/ /\ ~(Resident(id) /\ new < old)
            /\ UNCHANGED <<free, used, sessions, counted>>
      /\ UNCHANGED claims

\* One block of step's scan.
Rewrite(id) ==
  LET fate == Fate(walk.rung, id[2], Blocks(sessions[walk.session].contract.context))
  IN  /\ job = Idle /\ walk.at = "rewrite"
      /\ id \in walk.left
      /\ \/ /\ fate = Dropped
            /\ RewriteDropped(id)
            /\ walk' = [walk EXCEPT !.left = @ \ {id}]
         \/ /\ fate # Dropped
            /\ RewriteKept(id, fate)
            /\ walk' = [walk EXCEPT !.left = @ \ {id},
                                    !.coarsest = Max({@, FatePrecision(fate)})]
      /\ UNCHANGED <<attached, env, job, budget, fitted, skipped, moves>>

\* A release the arena refuses changes nothing, and the scan goes on.
RewriteRefused(id) ==
  LET fate == Fate(walk.rung, id[2], Blocks(sessions[walk.session].contract.context))
  IN  /\ job = Idle /\ walk.at = "rewrite"
      /\ id \in walk.left
      /\ Resident(id) /\ ~Evictable
      /\ fate # Dropped => RoundUp(Rewritten(id, fate)) < RoundUp(table[id].size)
      /\ walk' = [walk EXCEPT !.left = @ \ {id}]
      /\ skipped' = skipped \cup {walk.session}
      /\ UNCHANGED <<vars, budget, fitted, moves>>

\* The end of step: the rung and the coarsest precision are recorded.
StepDone ==
  /\ job = Idle /\ walk.at = "rewrite"
  /\ walk.left = {}
  /\ sessions' = [sessions EXCEPT ![walk.session].rung = walk.rung,
                                  ![walk.session].coarsest = walk.coarsest,
                                  ![walk.session].deepest = Max({@, walk.rung})]
  /\ walk' = [at |-> "deepen", rung |-> walk.rung]
  /\ UNCHANGED <<table, free, used, counted, attached, env, job, claims, budget, fitted, skipped, moves>>

-----------------------------------------------------------------------------
WalkStep ==
  \/ \E id \in Objects : \E template \in Templates[id] :
       walk.at = "register" /\ id = <<walk.session, walk.block>> /\ ArriveRegister(template)
  \/ ArriveConsume \/ ArrivePlaced \/ ArriveDone
  \/ SqueezeFits \/ SqueezeDeepen \/ SqueezeTerminate \/ Terminated
  \/ DeepenDone \/ StepDone
  \/ \E s \in SessionIds : DeepenSession(s)
  \/ \E id \in Objects : Rewrite(id) \/ RewriteRefused(id)

LadderNext ==
  \/ JobStep /\ UNCHANGED <<budget, walk, fitted, skipped, moves, calls>>
  \/ WalkStep /\ UNCHANGED calls
  \/ \E contract \in Contracts : Arrive(contract)
  \/ \E bytes \in Budgets : Squeeze(bytes)
  \/ /\ walk = Off
     /\ \/ \E p \in Providers : Attach(p)
        \/ \E id \in Objects : Consume(id)
     /\ UNCHANGED <<budget, walk, fitted, skipped, moves, calls>>
  \/ \E s \in SessionIds : EndSession(s)

LadderSpec == LadderInit /\ [][LadderNext]_ladderVars

-----------------------------------------------------------------------------
(* Properties. *)

Held(s) == MapThenSumSet(LAMBDA id : table[id].size, {id \in Objects : id[1] = s /\ Entry(id)})

\* What the table says a session's blocks hold is never more than what its
\* rung needs, which is what the walk plans with, unless the arena refused to
\* take the tail of one of them back.
PlanIsTable ==
  walk.at \in {"off", "next"} =>
    \A s \in LiveIn(sessions) \ skipped : Held(s) <= Need[sessions[s].rung][sessions[s].contract.context]

\* Once a squeeze has ended in a fit, what sessions hold resident stays
\* within the budget less the reserve, whoever arrives or faults after it.
FitsKept ==
  walk.at = "off" /\ fitted /\ skipped \cap LiveIn(sessions) = {} /\ budget # 0 =>
    MapThenSumSet(LAMBDA s : sessions[s].resident, LiveIn(sessions)) <= Room

\* No block of a session is coarser than its contract's quality floor, and
\* neither is what it was delivered.
FloorKept ==
  \A s \in LiveIn(sessions) :
    /\ sessions[s].coarsest <= sessions[s].contract.floor
    /\ \A id \in Objects : id[1] = s /\ Entry(id) => table[id].precision <= sessions[s].contract.floor

\* A session is terminated only when every live session is as deep as its
\* contract lets it be: no rung at all would still move one.
LastResort ==
  walk.at = "terminate" => \A s \in LiveIn(sessions), rung \in 0 .. 7 : ~Movable(s, rung)

\* Every squeeze ends: it goes down each rung at most once and ends each session
\* at most once, also where the arena refuses, and it is never stuck between
\* two moves, since nothing else runs until it returns.
WalkEnds == moves <= 5 + MaxId
=============================================================================
