------------------------------ MODULE Sessions ------------------------------
(***************************************************************************)
(* The session table of mlos-session as operators on a function from       *)
(* session ids to records: creating, adopting and forgetting sessions,     *)
(* and charging and crediting the bytes a session holds resident.          *)
(*                                                                         *)
(* Of a contract the latency ceiling is not here (see Schedule); of what   *)
(* was delivered the peak, the coarsest precision and the deepest rung     *)
(* are.  A precision is its discriminant, from Fp16 = 1 to Ternary = 6,    *)
(* and a rung is its number.  Which slot a session sits in only decides    *)
(* the order they are visited in, which callers leave open.                *)
(***************************************************************************)
EXTENDS Integers, FiniteSets, FiniteSetsExt

CONSTANTS MaxId,            \* u16::MAX, the last session id
          MaxSessions       \* MAX_SESSIONS, how many slots there are

ASSUME MaxIdAssumption == MaxId \in Nat \ {0}
ASSUME MaxSessionsAssumption == MaxSessions \in Nat \ {0}

SessionIds == 1 .. MaxId
NoSession == [live |-> FALSE]
NoSessions == [s \in SessionIds |-> NoSession]

Precision == 1 .. 6
Contract == [ceiling : Nat, context : Nat, floor : Precision]
Session == {NoSession} \cup
           [live : {TRUE}, contract : Contract, resident : Nat, peak : Nat,
            coarsest : Precision, rung : 0 .. 5, deepest : 0 .. 5]

\* Sessions::find succeeds; id zero names no session.
Known(sessions, s) == s \in SessionIds /\ sessions[s].live
LiveIn(sessions) == {s \in SessionIds : sessions[s].live}

\* u64::saturating_sub.
SatSub(a, b) == IF a > b THEN a - b ELSE 0

-----------------------------------------------------------------------------
(* table.rs *)

Adoptable(sessions, s) ==
  /\ s \in SessionIds
  /\ ~Known(sessions, s)
  /\ Cardinality(LiveIn(sessions)) < MaxSessions

Adopt(sessions, s, contract) ==
  [sessions EXCEPT ![s] = [live |-> TRUE, contract |-> contract, resident |-> 0, peak |-> 0,
                           coarsest |-> 1, rung |-> 0, deepest |-> 0]]

\* The id Sessions::create gives: the lowest that no session has.
LowestFree(sessions) == Min(SessionIds \ LiveIn(sessions))

Forget(sessions, s) == [sessions EXCEPT ![s] = NoSession]

-----------------------------------------------------------------------------
(* budget.rs *)

\* Mutant: the ceiling is compared with what is held already.
ChargeableLate(sessions, owner, size) ==
  Known(sessions, owner) =>
    \/ sessions[owner].contract.ceiling = 0
    \/ sessions[owner].resident <= sessions[owner].contract.ceiling

\* charge does not answer Refused.
Chargeable(sessions, owner, size) ==
  Known(sessions, owner) =>
    \/ sessions[owner].contract.ceiling = 0
    \/ sessions[owner].resident + size <= sessions[owner].contract.ceiling

\* charge, once it has not refused; an unknown owner is not counted.
Charge(sessions, owner, size, precision) ==
  IF ~Known(sessions, owner) THEN sessions
  ELSE LET after == sessions[owner].resident + size
       IN  [sessions EXCEPT ![owner].resident = after,
                            ![owner].peak = Max({@, after}),
                            ![owner].coarsest = Max({@, precision})]

Credit(sessions, owner, size) ==
  IF ~Known(sessions, owner) THEN sessions
  ELSE [sessions EXCEPT ![owner].resident = SatSub(@, size)]
=============================================================================
