------------------------------- MODULE Policy -------------------------------
(***************************************************************************)
(* mlos-policy: which resident object to throw away.  A policy sees the    *)
(* resident set as a function from ids to what the table says of each, and *)
(* the current tick, and keeps nothing of its own; ids are numbers, as     *)
(* ObjectId is.                                                            *)
(***************************************************************************)
EXTENDS Stream

CONSTANTS Scale,        \* SCALE, in the unit the costs are given in
          Undeclared,   \* UNDECLARED, a horizon past every real one
          Hint,         \* HINT
          Certain       \* u16::MAX, the odds of a certain next use

ASSUME PolicyAssumption ==
  Scale \in Nat \ {0} /\ Undeclared \in Nat /\ Hint \in Nat \ {0} /\ Certain \in Nat

PolicyNames == {"demand", "fifo", "lru", "next-use"}

Lesser(a, b) == IF a < b THEN a ELSE b
Greater(a, b) == IF a < b THEN b ELSE a

\* Of what is known of an object, what the policies read.
Seen(meta) ==
  [placed |-> meta.placed, used |-> meta.used, next |-> meta.next,
   reload |-> meta.reload, recompute |-> meta.recompute, share |-> meta.share]

\* How far away the next use is; a guess is discounted.
Horizon(next, now) ==
  CASE next.when = "never" -> Undeclared
    [] next.when = "at" -> Greater(next.tick - now, 0)
    [] next.when = "odds" -> IF next.odds = 0 THEN Undeclared \div Hint
                             ELSE (Certain \div next.odds) \div Hint

\* The cheaper way to have it again; free counts as one.
Recovery(meta) == Greater(Lesser(meta.reload, meta.recompute), 1)

\* Distance per unit of recovery cost, for each holder.
Evictability(meta, now) ==
  (Horizon(meta.next, now) * Scale) \div (Recovery(meta) * Greater(meta.share, 1))

\* What a policy maximises.  Oldest is the least of its ticks.
Rating(policy, meta, now) ==
  CASE policy = "fifo" -> 0 - meta.placed
    [] policy = "lru" -> 0 - meta.used
    [] policy = "next-use" -> Evictability(meta, now)

\* The best rated, and of equals the lowest id; 0 declines, as demand does.
Victim(policy, held, now) ==
  IF policy = "demand" \/ DOMAIN held = {} THEN 0
  ELSE CHOOSE id \in DOMAIN held : \A other \in DOMAIN held \ {id} :
         LET mine == Rating(policy, held[id], now)
             its  == Rating(policy, held[other], now)
         IN  mine > its \/ (mine = its /\ id < other)
=============================================================================
