----------------------------- MODULE ObjectMap -----------------------------
(***************************************************************************)
(* What mlos-objtab promises its callers: a map from object ids to         *)
(* metadata, and the answer each call gives.  An insert under a new id may *)
(* be refused (the table has a fixed capacity); an insert under a known id *)
(* may not.  ObjectTable implements this with an open-addressed array.     *)
(***************************************************************************)
CONSTANTS Ids,      \* the ObjectIds a caller can name
          Metas,    \* the values an ObjectMeta can take
          NoMeta    \* the answer None

VARIABLES map,      \* map[id]: what is recorded under id, or NoMeta
          reply     \* the last call and what it returned

mapVars == <<map, reply>>

Answer(op, id, ok, meta) == [op |-> op, id |-> id, ok |-> ok, meta |-> meta]

Init ==
  /\ map = [id \in Ids |-> NoMeta]
  /\ reply = [op |-> "EMPTY"]

Insert(id, meta) ==
  \/ /\ map' = [map EXCEPT ![id] = meta]
     /\ reply' = Answer("insert", id, TRUE, NoMeta)
  \/ /\ map[id] = NoMeta
     /\ reply' = Answer("insert", id, FALSE, NoMeta)
     /\ UNCHANGED map

Get(id) ==
  /\ reply' = Answer("get", id, map[id] # NoMeta, map[id])
  /\ UNCHANGED map

GetMut(id, meta) ==
  /\ map' = [map EXCEPT ![id] = IF @ = NoMeta THEN NoMeta ELSE meta]
  /\ reply' = Answer("get_mut", id, map[id] # NoMeta, map[id])

Remove(id) ==
  /\ map' = [map EXCEPT ![id] = NoMeta]
  /\ reply' = Answer("remove", id, map[id] # NoMeta, NoMeta)

Next ==
  \E id \in Ids :
    \/ \E meta \in Metas : Insert(id, meta) \/ GetMut(id, meta)
    \/ Get(id)
    \/ Remove(id)

Spec == Init /\ [][Next]_mapVars
=============================================================================
