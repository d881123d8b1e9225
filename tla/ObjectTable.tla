---------------------------- MODULE ObjectTable ----------------------------
(***************************************************************************)
(* mlos-objtab: a fixed array of N slots, open addressing with linear      *)
(* probing.  A slot is Vacant (never used; a probe stops there), Removed   *)
(* (a tombstone; a probe passes through) or Live.                          *)
(*                                                                         *)
(* Every operation is one walk along the id's probe sequence that returns  *)
(* at the first slot that answers it.  The walk is written without a loop: *)
(* Walks(id, k) says that it gets as far as step k.                        *)
(*                                                                         *)
(* The hash (probe::start) scatters 64-bit ids; all that the table relies  *)
(* on is that it is a fixed function of the id into the slots, so it is    *)
(* the constant Start, arbitrary in the proofs.                            *)
(***************************************************************************)
EXTENDS Integers

CONSTANTS Ids, Metas, NoMeta, N, Start

ASSUME SlotsAssumption == N \in Nat \ {0}
ASSUME StartAssumption == Start \in [Ids -> 0 .. N - 1]
ASSUME NoneAssumption == NoMeta \notin Metas

VARIABLES slots,    \* Table::slots
          reply     \* the last call and what it returned

tableVars == <<slots, reply>>

Slots == 0 .. N - 1
Vacant == [state |-> "Vacant"]
Removed == [state |-> "Removed"]
Live(id, meta) == [state |-> "Live", id |-> id, meta |-> meta]
Slot == {Vacant, Removed} \cup [state : {"Live"}, id : Ids, meta : Metas]

Answer(op, id, ok, meta) == [op |-> op, id |-> id, ok |-> ok, meta |-> meta]
Reply == [op : {"EMPTY"}] \cup
         [op : {"insert", "get", "get_mut", "remove"}, id : Ids,
          ok : BOOLEAN, meta : Metas \cup {NoMeta}]

-----------------------------------------------------------------------------
(* The probe sequence. *)

\* The slot that step k of the probe for id looks at.
Probe(id, k) == (Start[id] + k) % N

Holds(slot, id) == slot.state = "Live" /\ slot.id = id

\* The probe for id goes on from slot: the two match arms that return or
\* stop do not apply.
Passes(slot, id) == slot # Vacant /\ ~Holds(slot, id)

\* The probe for id reaches step k.
Walks(id, k) == \A j \in 0 .. k - 1 : Passes(slots[Probe(id, j)], id)

\* The walk ends at step k because id lives there.
FoundAt(id, k) == Walks(id, k) /\ Holds(slots[Probe(id, k)], id)

\* The walk ends at step k because that slot was never used.
VacantAt(id, k) == Walks(id, k) /\ slots[Probe(id, k)] = Vacant

\* insert's `reusable.unwrap_or(at)`: the first tombstone passed on the way
\* to the vacant slot of step k, or that slot.
WritesAt(id, k, t) ==
  /\ t = k \/ slots[Probe(id, t)] = Removed
  /\ \A j \in 0 .. t - 1 : slots[Probe(id, j)] # Removed

-----------------------------------------------------------------------------
(* The operations. *)

TableInit ==
  /\ slots = [s \in Slots |-> Vacant]
  /\ reply = [op |-> "EMPTY"]

\* Mutant: an insert that takes the first tombstone it meets, and so never
\* learns that id lives further along.
InsertEagerly(id, meta) ==
  \E k \in Slots :
    /\ Walks(id, k)
    /\ \A j \in 0 .. k - 1 : slots[Probe(id, j)] # Removed
    /\ ~Passes(slots[Probe(id, k)], id) \/ slots[Probe(id, k)] = Removed
    /\ slots' = [slots EXCEPT ![Probe(id, k)] = Live(id, meta)]
    /\ reply' = Answer("insert", id, TRUE, NoMeta)

Insert(id, meta) ==
  \/ \E k \in Slots :
       /\ FoundAt(id, k)
       /\ slots' = [slots EXCEPT ![Probe(id, k)] = Live(id, meta)]
       /\ reply' = Answer("insert", id, TRUE, NoMeta)
  \/ \E k \in Slots : \E t \in 0 .. k :
       /\ VacantAt(id, k)
       /\ WritesAt(id, k, t)
       /\ slots' = [slots EXCEPT ![Probe(id, t)] = Live(id, meta)]
       /\ reply' = Answer("insert", id, TRUE, NoMeta)
  \/ /\ Walks(id, N)
     /\ reply' = Answer("insert", id, FALSE, NoMeta)
     /\ UNCHANGED slots

Absent(id) == Walks(id, N) \/ \E k \in Slots : VacantAt(id, k)

Get(id) ==
  /\ \/ \E k \in Slots :
          /\ FoundAt(id, k)
          /\ reply' = Answer("get", id, TRUE, slots[Probe(id, k)].meta)
     \/ /\ Absent(id)
        /\ reply' = Answer("get", id, FALSE, NoMeta)
  /\ UNCHANGED slots

\* get_mut, and the caller's write of meta through the reference it returns.
GetMut(id, meta) ==
  \/ \E k \in Slots :
       /\ FoundAt(id, k)
       /\ slots' = [slots EXCEPT ![Probe(id, k)] = Live(id, meta)]
       /\ reply' = Answer("get_mut", id, TRUE, slots[Probe(id, k)].meta)
  \/ /\ Absent(id)
     /\ reply' = Answer("get_mut", id, FALSE, NoMeta)
     /\ UNCHANGED slots

\* Mutant: a remove that gives the slot back as never used.
RemoveToVacant(id) ==
  \E k \in Slots :
    /\ FoundAt(id, k)
    /\ slots' = [slots EXCEPT ![Probe(id, k)] = Vacant]
    /\ reply' = Answer("remove", id, TRUE, NoMeta)

RemoveId(id) ==
  \/ \E k \in Slots :
       /\ FoundAt(id, k)
       /\ slots' = [slots EXCEPT ![Probe(id, k)] = Removed]
       /\ reply' = Answer("remove", id, TRUE, NoMeta)
  \/ /\ Absent(id)
     /\ reply' = Answer("remove", id, FALSE, NoMeta)
     /\ UNCHANGED slots

TableNext ==
  \E id \in Ids :
    \/ \E meta \in Metas : Insert(id, meta) \/ GetMut(id, meta)
    \/ Get(id)
    \/ RemoveId(id)

TableSpec == TableInit /\ [][TableNext]_tableVars

-----------------------------------------------------------------------------
(* What Table::at shows a scan of every slot, which is how policies and    *)
(* destroy_session see the table: the entry under id, if any slot has one. *)

ScannedIn(table, id) ==
  LET here == {s \in Slots : Holds(table[s], id)}
  IN  IF here = {} THEN NoMeta ELSE table[CHOOSE s \in here : TRUE].meta

Scanned(id) == ScannedIn(slots, id)

-----------------------------------------------------------------------------
(* Properties. *)

\* Slots hold one of the three states, and every reply is a call's answer.
TableTyped == slots \in [Slots -> Slot] /\ reply \in Reply

\* No id has two entries, however inserts, removals and tombstone reuse
\* interleave: an insert that stopped at a tombstone before finding its own
\* entry further along would make a second one.
OneEntry ==
  \A s, t \in Slots : \A id \in Ids :
    Holds(slots[s], id) /\ Holds(slots[t], id) => s = t

\* The invariant of table.rs: the chain of a live entry is never cut, so no
\* vacant slot lies between where its id hashes and where it lives.
ChainUncut ==
  \A id \in Ids : \A k \in Slots :
    Holds(slots[Probe(id, k)], id) =>
      \A j \in 0 .. k - 1 : slots[Probe(id, j)] # Vacant

\* A keyed lookup and a scan of every slot see the same objects: get finds
\* what at(0..N) would list, and proves absent exactly what it would not.
LookupSeesScan ==
  \A id \in Ids :
    /\ Scanned(id) = NoMeta => Absent(id)
    /\ Scanned(id) # NoMeta =>
         \E k \in Slots : FoundAt(id, k) /\ slots[Probe(id, k)].meta = Scanned(id)

\* The table implements the map: every call changes the contents, and answers,
\* as the map does, wherever collisions and tombstones have put the entries.
Map == INSTANCE ObjectMap WITH map <- [id \in Ids |-> Scanned(id)]
ImplementsMap == Map!Spec
=============================================================================
