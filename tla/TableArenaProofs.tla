-------------------------- MODULE TableArenaProofs --------------------------
(***************************************************************************)
(* The two structures the manager is made of, for every capacity.          *)
(*                                                                         *)
(* The table, for every set of ids and every hash: it is well typed, keeps *)
(* one entry per id, never cuts a probe chain, and so answers lookups      *)
(* exactly as a scan of its slots would.                                   *)
(*                                                                         *)
(* The arena, for every alignment, list length and set of sizes: the free  *)
(* list stays sorted and coalesced, every byte is free or held and never   *)
(* both, and the arena refuses a placement only when no run would do.      *)
(***************************************************************************)
EXTENDS ObjectTable, Arena, FreeListProofs, TLAPS

-----------------------------------------------------------------------------
(* The table. *)

USE SlotsAssumption, StartAssumption, NoneAssumption

\* A step of the probe is a slot, and it wraps at most once.
LEMMA ProbeValue ==
  ASSUME NEW id \in Ids, NEW k \in Slots
  PROVE  /\ Probe(id, k) \in Slots
         /\ Start[id] \in Slots
         /\ Start[id] + k < N => Probe(id, k) = Start[id] + k
         /\ Start[id] + k >= N => Probe(id, k) = Start[id] + k - N
  <1> DEFINE x == Start[id] + k
  <1>1. x \in Nat /\ x < 2 * N /\ Start[id] \in Slots
    BY DEF Slots
  <1>2. x < N => x % N = x
    BY <1>1
  <1>3. x >= N => x % N = x - N
    BY <1>1
  <1> QED
    BY <1>1, <1>2, <1>3 DEF Probe, Slots

\* Two steps of one probe look at different slots.
LEMMA ProbeInjective ==
  ASSUME NEW id \in Ids, NEW j \in Slots, NEW k \in Slots,
         Probe(id, j) = Probe(id, k)
  PROVE  j = k
  BY ProbeValue DEF Slots

\* Some step of the probe looks at any given slot.
LEMMA ProbeOnto ==
  ASSUME NEW id \in Ids, NEW s \in Slots
  PROVE  \E k \in Slots : Probe(id, k) = s
  <1> DEFINE k == IF s >= Start[id] THEN s - Start[id] ELSE s - Start[id] + N
  <1>1. k \in Slots
    BY DEF Slots
  <1>2. Probe(id, k) = s
    BY <1>1, ProbeValue DEF Slots
  <1> QED
    BY <1>1, <1>2

\* A nonempty set of naturals has a least member.
-----------------------------------------------------------------------------
\* The inductive invariant: uniqueness needs the chains (an insert that meets
\* a vacant slot knows that id is nowhere only because no chain is cut), and
\* a chain stays uncut because no operation makes a slot vacant.
TableInv == TableTyped /\ OneEntry /\ ChainUncut

\* A walk that ends at a vacant slot, or goes all the way round, has proved
\* that no slot holds id.
LEMMA AbsentIsNowhere ==
  ASSUME TableInv, NEW id \in Ids, Absent(id), NEW s \in Slots
  PROVE  ~Holds(slots[s], id)
  <1> SUFFICES ASSUME Holds(slots[s], id) PROVE FALSE
    OBVIOUS
  <1>1. PICK k \in Slots : Probe(id, k) = s
    BY ProbeOnto
  <1>2. \A j \in 0 .. k - 1 : slots[Probe(id, j)] # Vacant
    BY <1>1 DEF TableInv, ChainUncut
  <1>3. CASE Walks(id, N)
    BY <1>1, <1>3 DEF Walks, Passes, Slots
  <1>4. CASE \E v \in Slots : VacantAt(id, v)
    <2>1. PICK v \in Slots : VacantAt(id, v)
      BY <1>4
    <2>2. CASE k < v
      BY <1>1, <2>1, <2>2 DEF VacantAt, Walks, Passes, Slots
    <2>3. CASE k = v
      BY <1>1, <2>1, <2>3 DEF VacantAt, Holds, Vacant
    <2>4. CASE v < k
      BY <1>2, <2>1, <2>4 DEF VacantAt, Slots
    <2> QED
      BY <2>2, <2>3, <2>4 DEF Slots
  <1> QED
    BY <1>3, <1>4 DEF Absent

\* Writing over an entry of id, or over a slot of id's chain when id has no
\* entry, keeps the invariant.
LEMMA WriteKeeps ==
  ASSUME TableInv, NEW id \in Ids, NEW t \in Slots, NEW meta \in Metas,
         slots' = [slots EXCEPT ![Probe(id, t)] = Live(id, meta)],
         \A j \in 0 .. t - 1 : slots[Probe(id, j)] # Vacant,
         \A s \in Slots : Holds(slots[s], id) => s = Probe(id, t),
         ~(slots[Probe(id, t)].state = "Live" /\ slots[Probe(id, t)].id # id),
         reply' \in Reply
  PROVE  TableInv'
  <1> DEFINE p == Probe(id, t)
  <1>0. p \in Slots
    BY ProbeValue
  <1>1. slots \in [Slots -> Slot]
    BY DEF TableInv, TableTyped
  <1>2. /\ slots'[p] = Live(id, meta)
        /\ \A s \in Slots : s # p => slots'[s] = slots[s]
    BY <1>0, <1>1
  <1>3. Live(id, meta) \in Slot /\ Live(id, meta) # Vacant
    BY DEF Slot, Live, Vacant
  <1>4. slots' \in [Slots -> Slot]
    BY <1>0, <1>1, <1>3
  <1>5. TableTyped'
    BY <1>4 DEF TableTyped
  <1>6. \A s \in Slots : \A i \in Ids :
          Holds(slots'[s], i) => (i = id /\ s = p) \/ (s # p /\ i # id /\ Holds(slots[s], i))
    BY <1>2 DEF Holds, Live
  <1>7. OneEntry'
    BY <1>6 DEF TableInv, OneEntry
  <1>8. ASSUME NEW i \in Ids, NEW k \in Slots, Holds(slots'[Probe(i, k)], i),
               NEW j \in 0 .. k - 1
        PROVE  slots'[Probe(i, j)] # Vacant
    <2>1. j \in Slots /\ Probe(i, j) \in Slots /\ Probe(i, k) \in Slots
      BY ProbeValue DEF Slots
    <2>2. CASE Probe(i, j) = p
      BY <1>2, <1>3, <2>2
    <2>3. CASE Probe(i, j) # p /\ i = id
      <3>1. Probe(id, k) = Probe(id, t)
        BY <1>6, <1>8, <2>1, <2>3
      <3>2. k = t
        BY <3>1, ProbeInjective
      <3> QED
        BY <1>2, <2>1, <2>3, <3>2
    <2>4. CASE Probe(i, j) # p /\ i # id
      <3>1. Holds(slots[Probe(i, k)], i)
        BY <1>6, <1>8, <2>1, <2>4
      <3>2. slots[Probe(i, j)] # Vacant
        BY <3>1 DEF TableInv, ChainUncut
      <3> QED
        BY <1>2, <2>1, <2>4, <3>2
    <2> QED
      BY <2>2, <2>3, <2>4
  <1>9. ChainUncut'
    BY <1>8 DEF ChainUncut, Probe
  <1> QED
    BY <1>5, <1>7, <1>9 DEF TableInv

\* An answer is a reply.
LEMMA AnswerTyped ==
  ASSUME NEW op \in {"insert", "get", "get_mut", "remove"}, NEW id \in Ids,
         NEW ok \in BOOLEAN, NEW meta \in Metas \cup {NoMeta}
  PROVE  Answer(op, id, ok, meta) \in Reply
  BY DEF Answer, Reply

\* A step that leaves the slots alone keeps the invariant.
LEMMA SameSlotsKeep ==
  ASSUME TableInv, UNCHANGED slots, reply' \in Reply
  PROVE  TableInv'
  BY DEF TableInv, TableTyped, OneEntry, ChainUncut, Probe

\* A found entry carries metadata.
LEMMA FoundMeta ==
  ASSUME TableInv, NEW id \in Ids, NEW k \in Slots, FoundAt(id, k)
  PROVE  slots[Probe(id, k)].meta \in Metas
  BY ProbeValue DEF TableInv, TableTyped, Slot, FoundAt, Holds, Vacant, Removed

\* Replacing the metadata of the entry a walk found keeps the invariant.
LEMMA FoundWriteKeeps ==
  ASSUME TableInv, NEW id \in Ids, NEW k \in Slots, NEW meta \in Metas, FoundAt(id, k),
         slots' = [slots EXCEPT ![Probe(id, k)] = Live(id, meta)], reply' \in Reply
  PROVE  TableInv'
  <1>1. \A j \in 0 .. k - 1 : slots[Probe(id, j)] # Vacant
    BY DEF FoundAt, Walks, Passes
  <1>2. \A s \in Slots : Holds(slots[s], id) => s = Probe(id, k)
    BY ProbeValue DEF FoundAt, TableInv, OneEntry
  <1>3. ~(slots[Probe(id, k)].state = "Live" /\ slots[Probe(id, k)].id # id)
    BY DEF FoundAt, Holds
  <1> QED
    BY <1>1, <1>2, <1>3, WriteKeeps

\* TableInv is inductive: the three conjuncts preserve one another.
LEMMA TableInductive == TableSpec => []TableInv
  <1>1. TableInit => TableInv
    BY ProbeValue DEF TableInit, TableInv, TableTyped, OneEntry, ChainUncut, Holds, Vacant, Slot, Reply
  <1>2. TableInv /\ [TableNext]_tableVars => TableInv'
    <2> SUFFICES ASSUME TableInv, [TableNext]_tableVars PROVE TableInv'
      OBVIOUS
    <2>1. ASSUME NEW id \in Ids, NEW meta \in Metas, Insert(id, meta)
          PROVE  TableInv'
      <3>1. reply' \in Reply
        BY <2>1, AnswerTyped DEF Insert
      <3>2. ASSUME NEW k \in Slots, FoundAt(id, k),
                   slots' = [slots EXCEPT ![Probe(id, k)] = Live(id, meta)]
            PROVE  TableInv'
        BY <3>1, <3>2, FoundWriteKeeps
      <3>3. ASSUME NEW k \in Slots, NEW t \in 0 .. k, VacantAt(id, k), WritesAt(id, k, t),
                   slots' = [slots EXCEPT ![Probe(id, t)] = Live(id, meta)]
            PROVE  TableInv'
        <4>1. t \in Slots
          BY DEF Slots
        <4>2. \A s \in Slots : ~Holds(slots[s], id)
          BY <3>3, AbsentIsNowhere DEF Absent
        <4>3. \A j \in 0 .. t - 1 : slots[Probe(id, j)] # Vacant
          BY <3>3 DEF VacantAt, Walks, Passes, Slots
        <4>4. slots[Probe(id, t)] = Vacant \/ slots[Probe(id, t)] = Removed
          BY <3>3 DEF VacantAt, WritesAt
        <4>5. slots[Probe(id, t)].state # "Live"
          BY <4>4 DEF Vacant, Removed
        <4> QED
          BY <3>1, <3>3, <4>1, <4>2, <4>3, <4>5, WriteKeeps
      <3>4. CASE UNCHANGED slots
        BY <3>1, <3>4, SameSlotsKeep
      <3> QED
        BY <2>1, <3>2, <3>3, <3>4 DEF Insert
    <2>2. ASSUME NEW id \in Ids, NEW meta \in Metas, GetMut(id, meta)
          PROVE  TableInv'
      <3>1. CASE UNCHANGED slots /\ reply' = Answer("get_mut", id, FALSE, NoMeta)
        BY <3>1, SameSlotsKeep, AnswerTyped
      <3>2. ASSUME NEW k \in Slots, FoundAt(id, k),
                   slots' = [slots EXCEPT ![Probe(id, k)] = Live(id, meta)],
                   reply' = Answer("get_mut", id, TRUE, slots[Probe(id, k)].meta)
            PROVE  TableInv'
        <4>1. reply' \in Reply
          BY <3>2, FoundMeta, AnswerTyped
        <4> QED
          BY <3>2, <4>1, FoundWriteKeeps
      <3> QED
        BY <2>2, <3>1, <3>2 DEF GetMut
    <2>3. ASSUME NEW id \in Ids, Get(id)
          PROVE  TableInv'
      <3>1. reply' \in Reply
        BY <2>3, FoundMeta, AnswerTyped DEF Get
      <3> QED
        BY <2>3, <3>1, SameSlotsKeep DEF Get
    <2>4. ASSUME NEW id \in Ids, RemoveId(id)
          PROVE  TableInv'
      <3>1. reply' \in Reply
        BY <2>4, AnswerTyped DEF RemoveId
      <3>2. CASE UNCHANGED slots
        BY <3>1, <3>2, SameSlotsKeep
      <3>3. ASSUME NEW k \in Slots, FoundAt(id, k),
                   slots' = [slots EXCEPT ![Probe(id, k)] = Removed]
            PROVE  TableInv'
        <4>1. /\ slots' \in [Slots -> Slot]
              /\ \A s \in Slots : slots'[s] = slots[s] \/ slots'[s] = Removed
          BY <3>3, ProbeValue DEF TableInv, TableTyped, Slot
        <4>2. \A s \in Slots : \A i \in Ids : Holds(slots'[s], i) => Holds(slots[s], i)
          BY <4>1 DEF Holds, Removed
        <4>3. \A s \in Slots : slots'[s] = Vacant => slots[s] = Vacant
          BY <4>1 DEF Removed, Vacant
        <4>4. \A i \in Ids : \A j \in Slots : Probe(i, j) \in Slots
          BY ProbeValue
        <4>5. OneEntry'
          BY <4>2 DEF TableInv, OneEntry
        <4>6. ChainUncut'
          BY <4>2, <4>3, <4>4 DEF TableInv, ChainUncut, Slots, Probe
        <4> QED
          BY <3>1, <4>1, <4>5, <4>6 DEF TableInv, TableTyped
      <3> QED
        BY <2>4, <3>2, <3>3 DEF RemoveId
    <2>5. CASE UNCHANGED tableVars
      BY <2>5, SameSlotsKeep DEF tableVars, TableInv, TableTyped
    <2> QED
      BY <2>1, <2>2, <2>3, <2>4, <2>5 DEF TableNext
  <1> QED
    BY <1>1, <1>2, PTL DEF TableSpec

\* The type invariant, one entry per id and the uncut chains, for every
\* capacity and hash: the invariant the module doc of table.rs states.
THEOREM TableSafe == TableSpec => [](TableTyped /\ OneEntry /\ ChainUncut)
  <1>1. TableInv => TableTyped /\ OneEntry /\ ChainUncut
    BY DEF TableInv
  <1> QED
    BY <1>1, TableInductive, PTL

-----------------------------------------------------------------------------
\* What a scan of a table f shows of an id that one slot holds,
LEMMA ScanFinds ==
  ASSUME NEW f \in [Slots -> Slot], NEW id \in Ids, NEW s \in Slots, Holds(f[s], id),
         \A t \in Slots : Holds(f[t], id) => t = s
  PROVE  ScannedIn(f, id) = f[s].meta /\ f[s].meta \in Metas
  <1> DEFINE here == {t \in Slots : Holds(f[t], id)}
  <1>1. here = {s}
    OBVIOUS
  <1>2. (CHOOSE t \in here : TRUE) = s
    BY <1>1
  <1>3. f[s].meta \in Metas
    BY DEF Holds, Slot, Vacant, Removed
  <1> QED
    BY <1>1, <1>2, <1>3 DEF ScannedIn

\* of an id that no slot holds,
LEMMA ScanMisses ==
  ASSUME NEW f, NEW id \in Ids, \A t \in Slots : ~Holds(f[t], id)
  PROVE  ScannedIn(f, id) = NoMeta
  BY DEF ScannedIn

\* and of an id whose slots a step left alone.
LEMMA ScanSame ==
  ASSUME NEW f, NEW g, NEW id \in Ids,
         \A t \in Slots : Holds(g[t], id) <=> Holds(f[t], id),
         \A t \in Slots : Holds(f[t], id) => g[t] = f[t]
  PROVE  ScannedIn(g, id) = ScannedIn(f, id)
  <1> DEFINE F == {t \in Slots : Holds(f[t], id)}
             G == {t \in Slots : Holds(g[t], id)}
  <1>1. F = G
    OBVIOUS
  <1>2. CASE F = {}
    BY <1>1, <1>2 DEF ScannedIn
  <1>3. CASE F # {}
    <2>1. (CHOOSE t \in F : TRUE) \in F
      BY <1>3
    <2>2. (CHOOSE t \in G : TRUE) = (CHOOSE t \in F : TRUE)
      BY <1>1
    <2> HIDE DEF F, G
    <2>3. g[CHOOSE t \in F : TRUE] = f[CHOOSE t \in F : TRUE]
      BY <2>1 DEF F
    <2> QED
      BY <1>1, <1>3, <2>2, <2>3 DEF ScannedIn, F, G
  <1> QED
    BY <1>2, <1>3

\* An entry that a scan sees, a walk finds; and the other way round.
LEMMA WalkFinds ==
  ASSUME TableInv, NEW id \in Ids, NEW k \in Slots, Holds(slots[Probe(id, k)], id)
  PROVE  FoundAt(id, k) /\ Scanned(id) = slots[Probe(id, k)].meta
  <1>1. ASSUME NEW j \in 0 .. k - 1
        PROVE  Passes(slots[Probe(id, j)], id)
    <2>1. j \in Slots /\ j # k
      BY DEF Slots
    <2>2. Probe(id, j) # Probe(id, k)
      BY <2>1, ProbeInjective
    <2>3. ~Holds(slots[Probe(id, j)], id)
      BY <2>1, <2>2, ProbeValue DEF TableInv, OneEntry
    <2>4. slots[Probe(id, j)] # Vacant
      BY DEF TableInv, ChainUncut
    <2> QED
      BY <2>3, <2>4 DEF Passes
  <1>2. Scanned(id) = slots[Probe(id, k)].meta
    BY ProbeValue, ScanFinds DEF TableInv, TableTyped, OneEntry, Scanned
  <1> QED
    BY <1>1, <1>2 DEF FoundAt, Walks

\* A walk that finds nothing to stop it before a vacant slot ends at the first.
LEMMA WalkEnds ==
  ASSUME NEW id \in Ids, \A s \in Slots : ~Holds(slots[s], id)
  PROVE  Absent(id)
  <1> DEFINE V == {k \in Slots : slots[Probe(id, k)] = Vacant}
  <1>1. CASE V = {}
    BY <1>1, ProbeValue DEF Absent, Walks, Passes, Slots
  <1>2. CASE V # {}
    <2>0. V \in SUBSET Nat
      BY DEF Slots
    <2>1. PICK k \in V : \A j \in V : k <= j
      <3> HIDE DEF V
      <3> QED
        BY <1>2, <2>0, LeastMember
    <2>2. VacantAt(id, k)
      BY <2>1, ProbeValue DEF VacantAt, Walks, Passes, Slots
    <2> QED
      BY <2>1, <2>2 DEF Absent
  <1> QED
    BY <1>1, <1>2

\* A keyed lookup and a scan of every slot agree in every reachable state: what
\* get answers is what at(0..N) lists.
THEOREM LookupsAgree == TableSpec => []LookupSeesScan
  <1>1. TableInv => LookupSeesScan
    <2> SUFFICES ASSUME TableInv, NEW id \in Ids
                 PROVE  /\ Scanned(id) = NoMeta => Absent(id)
                        /\ Scanned(id) # NoMeta =>
                             \E k \in Slots : FoundAt(id, k) /\ slots[Probe(id, k)].meta = Scanned(id)
      BY DEF LookupSeesScan
    <2>1. CASE \A s \in Slots : ~Holds(slots[s], id)
      BY <2>1, WalkEnds, ScanMisses DEF Scanned
    <2>2. CASE \E s \in Slots : Holds(slots[s], id)
      <3>1. PICK k \in Slots : Holds(slots[Probe(id, k)], id)
        BY <2>2, ProbeOnto
      <3>2. FoundAt(id, k) /\ Scanned(id) = slots[Probe(id, k)].meta
        BY <3>1, WalkFinds
      <3>3. Scanned(id) \in Metas
        BY <3>2, FoundMeta
      <3> QED
        BY <3>2, <3>3
    <2> QED
      BY <2>1, <2>2
  <1> QED
    BY <1>1, TableInductive, PTL

-----------------------------------------------------------------------------
\* A call that writes under id, where it found the entry or a free slot of
\* the chain, changes what a scan shows of id and of nothing else.
LEMMA WriteMaps ==
  ASSUME TableInv, TableInv', NEW id \in Ids, NEW t \in Slots, NEW meta \in Metas,
         slots' = [slots EXCEPT ![Probe(id, t)] = Live(id, meta)],
         slots[Probe(id, t)].state = "Live" => slots[Probe(id, t)].id = id
  PROVE  [i \in Ids |-> Scanned(i)]' = [[i \in Ids |-> Scanned(i)] EXCEPT ![id] = meta]
  <1> DEFINE p == Probe(id, t)
  <1>1. p \in Slots /\ slots \in [Slots -> Slot] /\ slots' \in [Slots -> Slot]
    BY ProbeValue DEF TableInv, TableTyped
  <1>2. slots'[p] = Live(id, meta) /\ \A s \in Slots : s # p => slots'[s] = slots[s]
    BY <1>1
  <1>3. Holds(slots'[p], id) /\ slots'[p].meta = meta
    BY <1>2 DEF Holds, Live
  <1>4. \A s \in Slots : Holds(slots'[s], id) => s = p
    BY <1>1, <1>3 DEF TableInv, OneEntry
  <1>5. ScannedIn(slots', id) = meta
    <2> HIDE DEF p
    <2>1. ScannedIn(slots', id) = slots'[p].meta
      BY <1>1, <1>3, <1>4, ScanFinds, Zenon
    <2> QED
      BY <1>3, <2>1
  <1>6. ASSUME NEW i \in Ids, i # id
        PROVE  ScannedIn(slots', i) = ScannedIn(slots, i)
    <2>1. ~Holds(slots[p], i) /\ ~Holds(slots'[p], i)
      BY <1>2, <1>6 DEF Holds, Live
    <2> HIDE DEF p
    <2>2. \A s \in Slots : Holds(slots'[s], i) <=> Holds(slots[s], i)
      BY <1>2, <2>1
    <2>3. \A s \in Slots : Holds(slots[s], i) => slots'[s] = slots[s]
      BY <1>2, <2>1
    <2> QED
      BY <2>2, <2>3, ScanSame
  <1> QED
    BY <1>5, <1>6 DEF Scanned

\* A step that leaves the slots alone leaves the map alone.
LEMMA SameMaps ==
  ASSUME UNCHANGED slots
  PROVE  [i \in Ids |-> Scanned(i)]' = [i \in Ids |-> Scanned(i)]
  BY DEF Scanned

\* The table implements the map, for every capacity and every hash: each call
\* changes the contents and answers as the map's call does.
THEOREM TableImplementsMap == TableSpec => ImplementsMap
  <1> DEFINE M == [i \in Ids |-> Scanned(i)]
  <1>1. TableInit => Map!Init
    <2> SUFFICES ASSUME TableInit PROVE Map!Init
      OBVIOUS
    <2>1. \A i \in Ids : \A s \in Slots : ~Holds(slots[s], i)
      BY DEF TableInit, Holds, Vacant
    <2>2. \A i \in Ids : Scanned(i) = NoMeta
      BY <2>1, ScanMisses DEF Scanned
    <2> QED
      BY <2>2 DEF TableInit, Map!Init
  <1>2. TableInv /\ TableInv' /\ [TableNext]_tableVars => [Map!Next]_(Map!mapVars)
    <2> SUFFICES ASSUME TableInv, TableInv', [TableNext]_tableVars PROVE [Map!Next]_(Map!mapVars)
      OBVIOUS
    <2>0. \A id \in Ids : Absent(id) => M[id] = NoMeta
      BY AbsentIsNowhere, ScanMisses DEF Scanned
    <2>1. \A id \in Ids : \A k \in Slots :
            FoundAt(id, k) => M[id] = slots[Probe(id, k)].meta /\ M[id] # NoMeta
      BY WalkFinds, FoundMeta DEF FoundAt
    <2>2. \A id \in Ids : \A k \in Slots :
            FoundAt(id, k) => (slots[Probe(id, k)].state = "Live" => slots[Probe(id, k)].id = id)
      BY DEF FoundAt, Holds
    <2>3. ASSUME NEW id \in Ids, NEW meta \in Metas, Insert(id, meta)
          PROVE  Map!Insert(id, meta)
      <3>1. ASSUME NEW k \in Slots, FoundAt(id, k),
                   slots' = [slots EXCEPT ![Probe(id, k)] = Live(id, meta)]
            PROVE  M' = [M EXCEPT ![id] = meta]
        BY <2>2, <3>1, WriteMaps
      <3>2. ASSUME NEW k \in Slots, NEW t \in 0 .. k, VacantAt(id, k), WritesAt(id, k, t),
                   slots' = [slots EXCEPT ![Probe(id, t)] = Live(id, meta)]
            PROVE  M' = [M EXCEPT ![id] = meta]
        <4>1. t \in Slots
          BY DEF Slots
        <4>2. slots[Probe(id, t)].state # "Live"
          BY <3>2 DEF VacantAt, WritesAt, Vacant, Removed
        <4> QED
          BY <3>2, <4>1, <4>2, WriteMaps
      <3>3. Walks(id, N) /\ UNCHANGED slots => M[id] = NoMeta /\ M' = M
        BY <2>0, SameMaps DEF Absent
      <3> HIDE DEF M
      <3> QED
        BY <2>3, <3>1, <3>2, <3>3 DEF Insert, Map!Insert, Answer, Map!Answer, M
    <2>4. ASSUME NEW id \in Ids, NEW meta \in Metas, GetMut(id, meta)
          PROVE  Map!GetMut(id, meta)
      <3>1. CASE /\ Absent(id)
                 /\ reply' = Answer("get_mut", id, FALSE, NoMeta)
                 /\ UNCHANGED slots
        BY <2>0, <3>1, SameMaps DEF Map!GetMut, Answer, Map!Answer
      <3>2. ASSUME NEW k \in Slots, FoundAt(id, k),
                   slots' = [slots EXCEPT ![Probe(id, k)] = Live(id, meta)],
                   reply' = Answer("get_mut", id, TRUE, slots[Probe(id, k)].meta)
            PROVE  Map!GetMut(id, meta)
        <4>1. M' = [M EXCEPT ![id] = meta]
          BY <2>2, <3>2, WriteMaps
        <4> QED
          BY <2>1, <3>2, <4>1 DEF Map!GetMut, Answer, Map!Answer
      <3> QED
        BY <2>4, <3>1, <3>2 DEF GetMut
    <2>5. ASSUME NEW id \in Ids, Get(id)
          PROVE  Map!Get(id)
      <3>1. M' = M
        BY <2>5, SameMaps DEF Get
      <3>2. \/ reply' = Answer("get", id, TRUE, M[id]) /\ M[id] # NoMeta
            \/ reply' = Answer("get", id, FALSE, M[id]) /\ M[id] = NoMeta
        <4> HIDE DEF M
        <4> QED
          BY <2>0, <2>1, <2>5 DEF Get
      <3> QED
        BY <3>1, <3>2 DEF Map!Get, Answer, Map!Answer
    <2>6. ASSUME NEW id \in Ids, RemoveId(id)
          PROVE  Map!Remove(id)
      <3>1. CASE /\ Absent(id)
                 /\ reply' = Answer("remove", id, FALSE, NoMeta)
                 /\ UNCHANGED slots
        BY <2>0, <3>1, SameMaps DEF Map!Remove, Answer, Map!Answer
      <3>2. ASSUME NEW k \in Slots, FoundAt(id, k),
                   slots' = [slots EXCEPT ![Probe(id, k)] = Removed],
                   reply' = Answer("remove", id, TRUE, NoMeta)
            PROVE  Map!Remove(id)
        <4> DEFINE p == Probe(id, k)
        <4>1. p \in Slots /\ slots \in [Slots -> Slot] /\ Holds(slots[p], id)
          BY <3>2, ProbeValue DEF TableInv, TableTyped, FoundAt
        <4>2. slots'[p] = Removed /\ \A s \in Slots : s # p => slots'[s] = slots[s]
          BY <3>2, <4>1
        <4>3. \A i \in Ids : ~Holds(slots'[p], i)
          BY <4>2 DEF Holds, Removed
        <4>4. \A i \in Ids : i # id => ~Holds(slots[p], i)
          BY <4>1 DEF Holds
        <4>5. \A s \in Slots : Holds(slots[s], id) => s = p
          BY <4>1 DEF TableInv, OneEntry
        <4> HIDE DEF p
        <4>6. ScannedIn(slots', id) = NoMeta
          <5>1. \A s \in Slots : ~Holds(slots'[s], id)
            BY <4>2, <4>3, <4>5
          <5> QED
            BY <5>1, ScanMisses
        <4>7. ASSUME NEW i \in Ids, i # id
              PROVE  ScannedIn(slots', i) = ScannedIn(slots, i)
          <5>1. \A s \in Slots : Holds(slots'[s], i) <=> Holds(slots[s], i)
            BY <4>2, <4>3, <4>4, <4>7
          <5>2. \A s \in Slots : Holds(slots[s], i) => slots'[s] = slots[s]
            BY <4>2, <4>4, <4>7
          <5> QED
            BY <5>1, <5>2, ScanSame
        <4>8. M' = [M EXCEPT ![id] = NoMeta]
          BY <4>6, <4>7 DEF Scanned
        <4> QED
          BY <2>1, <3>2, <4>8 DEF Map!Remove, Answer, Map!Answer
      <3> QED
        BY <2>6, <3>1, <3>2 DEF RemoveId
    <2>7. CASE UNCHANGED tableVars
      BY <2>7, SameMaps DEF tableVars, Map!mapVars
    <2> QED
      BY <2>3, <2>4, <2>5, <2>6, <2>7 DEF TableNext, Map!Next
  <1> QED
    BY <1>1, <1>2, TableInductive, PTL DEF TableSpec, ImplementsMap, Map!Spec

-----------------------------------------------------------------------------
(* The arena. *)

USE AlignAssumption, CapacityAssumption, HolesAssumption, SizesAssumption

-----------------------------------------------------------------------------
(* The inductive invariant, and what each operation does to it. *)

IInv == TypeOK /\ Coalesced /\ Partition /\ HeldApart /\ Accounted

LEMMA ExtentOf ==
  ASSUME NEW x \in Extent
  PROVE  x.at \in Nat /\ x.size \in Sizes /\ RoundUp(x.size) \in Nat \ {0}
  <1>1. x.at \in Nat /\ x.size \in Sizes
    BY DEF Extent
  <1>2. x.size \in Nat \ {0}
    BY <1>1
  <1> QED
    BY <1>1, <1>2, RoundUpValue

LEMMA NewExtent ==
  ASSUME NEW at \in Nat, NEW size \in Sizes
  PROVE  LET x == [at |-> at, size |-> size]
         IN  x \in Extent /\ x.at = at /\ x.size = size
  BY DEF Extent

LEMMA CallTyped ==
  ASSUME NEW op \in {"place", "release", "shrink"}, NEW size \in Sizes, NEW ok \in BOOLEAN
  PROVE  Call(op, size, ok) \in Calls
  BY DEF Call, Calls

\* Giving back a run that is held, and that exactly stops being held.
LEMMA GivenBack ==
  ASSUME TypeOK, Coalesced, Partition, Accounted,
         NEW at \in Nat, NEW len \in Nat \ {0}, at + len <= Capacity,
         \A b \in Bytes : at <= b /\ b < at + len => HeldByte(b),
         \A b \in Bytes : HeldByte(b)' <=> HeldByte(b) /\ ~(at <= b /\ b < at + len),
         GiveBack(at, len)
  PROVE  /\ free' \in Seq(Hole) /\ Len(free') <= Holes
         /\ used' \in Nat
         /\ Coalesced'
         /\ \A b \in Bytes : Covers(free', b) <=> ~HeldByte(b)'
         /\ Accounted'
  <1>1. free \in Seq(Hole) /\ WellFormed(free, Capacity) /\ Len(free) < Holes /\ Len(free) \in Nat
    BY DEF TypeOK, Coalesced, GiveBack
  <1>2. ASSUME NEW b \in Int, at <= b, b < at + len
        PROVE  ~Covers(free, b)
    <2>1. b \in Bytes
      BY <1>2 DEF Bytes
    <2> QED
      BY <1>2, <2>1 DEF Partition
  <1>3. free' = Give(free, at, len) /\ used' = used - len
    BY DEF GiveBack
  <1>4. /\ free' \in Seq(Hole)
        /\ Len(free') <= Len(free) + 1
        /\ WellFormed(free', Capacity)
        /\ \A b \in Int : Covers(free', b) <=> Covers(free, b) \/ (at <= b /\ b < at + len)
    BY <1>1, <1>2, <1>3, GiveKeeps
  <1>5. ASSUME NEW b \in Bytes
        PROVE  Covers(free', b) <=> ~HeldByte(b)'
    <2>1. b \in Int
      BY DEF Bytes
    <2>2. Covers(free, b) <=> ~HeldByte(b)
      BY DEF Partition
    <2>3. Covers(free', b) <=> Covers(free, b) \/ (at <= b /\ b < at + len)
      BY <1>4, <2>1
    <2>4. HeldByte(b)' <=> HeldByte(b) /\ ~(at <= b /\ b < at + len)
      OBVIOUS
    <2> QED
      BY <2>2, <2>3, <2>4
  <1>6. HeldBytes' = HeldBytes \ Run(at, len)
    BY DEF HeldBytes, Run, Bytes
  <1>7. HeldBytes \in SUBSET Region(Capacity) /\ Run(at, len) \subseteq HeldBytes
    BY DEF HeldBytes, Run, Region, Bytes
  <1>8. Cardinality(HeldBytes') = Cardinality(HeldBytes) - len
    BY <1>6, <1>7, GivenCount
  <1>9. Cardinality(HeldBytes') \in Nat
    <2>1. HeldBytes' \in SUBSET Region(Capacity)
      BY <1>6, <1>7
    <2> QED
      BY <2>1, BytesFinite
  <1>10. used' = Cardinality(HeldBytes')
    BY <1>3, <1>8 DEF Accounted
  <1>11. Len(free') <= Holes
    BY <1>1, <1>4
  <1> QED
    BY <1>4, <1>5, <1>9, <1>10, <1>11 DEF Coalesced, Accounted

LEMMA PlaceKeeps ==
  ASSUME IInv, NEW size \in Sizes, Place(size)
  PROVE  IInv'
  <1> DEFINE want == RoundUp(size)
             i == FirstFit(free, want)
             x == [at |-> free[i].at, size |-> size]
  <1>0. size \in Nat \ {0} /\ want \in Nat \ {0}
    BY RoundUpValue
  <1>1. free \in Seq(Hole) /\ WellFormed(free, Capacity) /\ Len(free) <= Holes
        /\ used \in Nat /\ held \subseteq Extent
    BY DEF IInv, TypeOK, Coalesced
  <1> HIDE DEF want
  <1>2. CASE i = 0
    <2>1. UNCHANGED <<free, used, held>> /\ last' = Call("place", size, FALSE)
      BY <1>2 DEF Place, want
    <2>2. last' \in Calls
      BY <2>1, CallTyped
    <2> QED
      BY <2>1, <2>2 DEF IInv, TypeOK, Coalesced, Partition, HeldApart, Accounted, HeldBytes, HeldByte
  <1>3. CASE i # 0
    <2>1. /\ free' = Take(free, i, want)
          /\ used' = used + want
          /\ held' = held \cup {x}
          /\ last' = Call("place", size, TRUE)
      BY <1>3 DEF Place, want
    <2>2. i \in 1 .. Len(free) /\ free[i].len >= want
      <3> HIDE DEF i
      <3> QED
        BY <1>0, <1>1, <1>3, FirstFitValue DEF i
    <2>3. /\ free[i].at \in Nat /\ free[i].len \in Nat /\ free[i].at + free[i].len <= Capacity
          /\ \A b \in Int : free[i].at <= b /\ b < free[i].at + free[i].len => Covers(free, b)
      <3>1. free[i].at \in Nat /\ free[i].len \in Nat
        BY <1>1, <2>2, HoleOf
      <3>2. End(free[i]) <= Capacity
        BY <1>1, <2>2 DEF WellFormed
      <3> QED
        BY <2>2, <3>1, <3>2 DEF Covers, End
    <2> DEFINE at == free[i].at
    <2>4. at \in Nat /\ at + want <= Capacity
      BY <1>0, <2>2, <2>3
    <2>5. /\ free' \in Seq(Hole)
          /\ Len(free') <= Len(free)
          /\ WellFormed(free', Capacity)
          /\ \A b \in Int : Covers(free', b) <=> Covers(free, b) /\ ~(at <= b /\ b < at + want)
      BY <1>0, <1>1, <2>1, <2>2, TakeKeeps
    <2>6. \A b \in Int : at <= b /\ b < at + want => Covers(free, b)
      BY <1>0, <2>2, <2>3
    <2> HIDE DEF i
    <2>7. x \in Extent /\ x.at = at /\ x.size = size
      BY <2>4, NewExtent
    <2> HIDE DEF x, at
    <2>8. \A b : HeldByte(b)' <=> HeldByte(b) \/ (at <= b /\ b < at + want)
      BY <2>1, <2>7 DEF HeldByte, Within, want
    <2>9. \A b \in Bytes : Covers(free, b) <=> ~HeldByte(b)
      BY DEF IInv, Partition
    <2>10. \A b \in Bytes : Covers(free', b) <=> ~HeldByte(b)'
      <3> SUFFICES ASSUME NEW b \in Bytes
                   PROVE  Covers(free', b) <=> ~HeldByte(b)'
        OBVIOUS
      <3>1. b \in Int
        BY DEF Bytes
      <3> QED
        BY <2>5, <2>8, <2>9, <3>1
    <2>11. TypeOK'
      <3>1. last' \in Calls
        BY <2>1, CallTyped
      <3>2. Len(free') <= Holes
        BY <1>1, <2>5
      <3>3. used' \in Nat
        BY <1>0, <1>1, <2>1
      <3> QED
        BY <1>1, <2>1, <2>5, <2>7, <3>1, <3>2, <3>3 DEF TypeOK
    <2>12. \A y \in held' : y.at + RoundUp(y.size) <= Capacity
      BY <2>1, <2>4, <2>7 DEF IInv, Partition, want
    <2>13. ASSUME NEW y \in held
           PROVE  x.at + RoundUp(x.size) <= y.at \/ y.at + RoundUp(y.size) <= x.at
      <3>1. y.at \in Nat /\ RoundUp(y.size) \in Nat \ {0}
        BY <1>1, ExtentOf
      <3>2. y.at + RoundUp(y.size) <= Capacity
        BY DEF IInv, Partition
      <3>3. \A b \in Bytes : y.at <= b /\ b < y.at + RoundUp(y.size) => HeldByte(b)
        BY DEF HeldByte, Within
      <3>4. \A b \in Bytes : at <= b /\ b < at + want => ~HeldByte(b)
        BY <2>6, <2>9 DEF Bytes
      <3>a. \A b \in Nat : ~(at <= b /\ b < at + want /\ y.at <= b /\ b < y.at + RoundUp(y.size))
        BY <1>0, <2>4, <3>1, <3>2, <3>3, <3>4 DEF Bytes
      <3>5. at + want <= y.at \/ y.at + RoundUp(y.size) <= at
        BY <1>0, <2>4, <3>1, <3>a, ApartFromBytes
      <3> QED
        BY <2>7, <3>5 DEF want
    <2>14. HeldApart'
      BY <2>1, <2>13 DEF IInv, HeldApart
    <2>15. Accounted'
      <3>1. HeldBytes' = HeldBytes \cup Run(at, want)
        BY <1>0, <2>4, <2>8 DEF HeldBytes, Run, Bytes
      <3>2. HeldBytes \in SUBSET Region(Capacity)
        BY DEF HeldBytes, Region, Bytes
      <3>3. HeldBytes \cap Run(at, want) = {}
        BY <1>0, <2>4, <2>6, <2>9 DEF HeldBytes, Run, Bytes
      <3>4. Cardinality(HeldBytes') = Cardinality(HeldBytes) + want
        BY <1>0, <2>4, <3>1, <3>2, <3>3, TakenCount
      <3> QED
        BY <2>1, <3>4 DEF IInv, Accounted
    <2> QED
      BY <2>5, <2>10, <2>11, <2>12, <2>14, <2>15 DEF IInv, Coalesced, Partition, Bytes
  <1> QED
    BY <1>2, <1>3

\* What IInv says of one extent: where it lies, that its bytes are held, and
\* that nobody else's are among them.
LEMMA HeldExtent ==
  ASSUME IInv, NEW x \in held
  PROVE  /\ x \in Extent
         /\ x.at \in Nat /\ x.size \in Sizes /\ RoundUp(x.size) \in Nat \ {0}
         /\ x.at + RoundUp(x.size) <= Capacity
         /\ \A b \in Bytes : Within(b, x) => HeldByte(b)
         /\ \A b \in Bytes : \A y \in held : Within(b, x) /\ Within(b, y) => x = y
  <1>1. x \in Extent
    BY DEF IInv, TypeOK
  <1>2. x.at \in Nat /\ x.size \in Sizes /\ RoundUp(x.size) \in Nat \ {0}
    BY <1>1, ExtentOf
  <1>3. x.at + RoundUp(x.size) <= Capacity
    BY DEF IInv, Partition
  <1>4. \A b \in Bytes : Within(b, x) => HeldByte(b)
    BY DEF HeldByte
  <1>5. ASSUME NEW b \in Bytes, NEW y \in held, Within(b, x), Within(b, y), x # y
        PROVE  FALSE
    <2>1. y \in Extent
      BY DEF IInv, TypeOK
    <2>2. y.at \in Nat /\ RoundUp(y.size) \in Nat \ {0}
      BY <2>1, ExtentOf
    <2>3. x.at + RoundUp(x.size) <= y.at \/ y.at + RoundUp(y.size) <= x.at
      BY <1>5 DEF IInv, HeldApart
    <2> QED
      BY <1>2, <1>5, <2>2, <2>3 DEF Within, Bytes
  <1> QED
    BY <1>1, <1>2, <1>3, <1>4, <1>5

LEMMA RefuseKeeps ==
  ASSUME IInv, Refuse, last' \in Calls
  PROVE  IInv'
  BY DEF IInv, Refuse, TypeOK, Coalesced, Partition, HeldApart, Accounted, HeldBytes, HeldByte

LEMMA ReleaseKeeps ==
  ASSUME IInv, NEW x \in held, Release(x)
  PROVE  IInv'
  <1> DEFINE len == RoundUp(x.size)
  <1>1. /\ x.at \in Nat /\ x.size \in Sizes /\ len \in Nat \ {0} /\ x.at + len <= Capacity
        /\ \A b \in Bytes : x.at <= b /\ b < x.at + len => HeldByte(b)
        /\ \A b \in Bytes : \A y \in held : Within(b, x) /\ Within(b, y) => x = y
    BY HeldExtent DEF Within
  <1>2. CASE Refuse /\ last' = Call("release", x.size, FALSE)
    BY <1>1, <1>2, CallTyped, RefuseKeeps
  <1>3. CASE /\ GiveBack(x.at, len)
             /\ held' = held \ {x}
             /\ last' = Call("release", x.size, TRUE)
    <2>1. \A b \in Bytes : HeldByte(b)' <=> HeldByte(b) /\ ~Within(b, x)
      BY <1>1, <1>3 DEF HeldByte
    <2>2. \A b \in Bytes : HeldByte(b)' <=> HeldByte(b) /\ ~(x.at <= b /\ b < x.at + len)
      BY <2>1 DEF Within
    <2> HIDE DEF len
    <2>3. /\ free' \in Seq(Hole) /\ Len(free') <= Holes /\ used' \in Nat
          /\ Coalesced'
          /\ \A b \in Bytes : Covers(free', b) <=> ~HeldByte(b)'
          /\ Accounted'
      BY <1>1, <1>3, <2>2, GivenBack DEF IInv
    <2>4. last' \in Calls
      BY <1>1, <1>3, CallTyped
    <2>5. TypeOK'
      BY <1>3, <2>3, <2>4 DEF IInv, TypeOK
    <2>6. \A y \in held' : y.at + RoundUp(y.size) <= Capacity
      BY <1>3 DEF IInv, Partition
    <2>7. HeldApart'
      BY <1>3 DEF IInv, HeldApart
    <2> QED
      BY <2>3, <2>5, <2>6, <2>7 DEF IInv, Partition, Bytes
  <1> QED
    BY <1>2, <1>3 DEF Release

LEMMA ShrinkKeeps ==
  ASSUME IInv, NEW x \in held, NEW size \in Sizes, Shrink(x, size)
  PROVE  IInv'
  <1> DEFINE old == RoundUp(x.size)
             new == RoundUp(size)
             y == [at |-> x.at, size |-> size]
  <1>1. /\ x.at \in Nat /\ x.size \in Sizes /\ old \in Nat \ {0} /\ x.at + old <= Capacity
        /\ \A b \in Bytes : x.at <= b /\ b < x.at + old => HeldByte(b)
        /\ \A b \in Bytes : \A z \in held : Within(b, x) /\ Within(b, z) => x = z
    BY HeldExtent DEF Within
  <1>2. size \in Nat \ {0} /\ new \in Nat \ {0} /\ new < old
    BY RoundUpValue DEF Shrink
  <1>3. CASE Refuse /\ last' = Call("shrink", x.size, FALSE)
    BY <1>1, <1>3, CallTyped, RefuseKeeps
  <1>4. CASE /\ GiveBack(x.at + new, old - new)
             /\ held' = (held \ {x}) \cup {y}
             /\ last' = Call("shrink", x.size, TRUE)
    <2>1. y \in Extent /\ y.at = x.at /\ RoundUp(y.size) = new
      BY <1>1, NewExtent
    <2> HIDE DEF y
    <2>2. \A b \in Bytes : Within(b, x) <=> x.at <= b /\ b < x.at + old
      BY DEF Within
    <2>3. \A b \in Bytes : Within(b, y) <=> x.at <= b /\ b < x.at + new
      BY <2>1 DEF Within
    <2> HIDE DEF old, new
    <2>4. ASSUME NEW b \in Bytes
          PROVE  HeldByte(b)' <=> HeldByte(b) /\ ~(x.at + new <= b /\ b < (x.at + new) + (old - new))
      <3>1. HeldByte(b)' <=> (HeldByte(b) /\ ~Within(b, x)) \/ Within(b, y)
        BY <1>1, <1>4 DEF HeldByte
      <3>2. Within(b, x) => HeldByte(b)
        BY <1>1, <2>2
      <3>3. b \in Int /\ (Within(b, y) <=> Within(b, x) /\ ~(x.at + new <= b /\ b < x.at + old))
        BY <1>1, <1>2, <2>2, <2>3 DEF Bytes
      <3>4. x.at + new <= b /\ b < x.at + old => Within(b, x)
        BY <1>1, <1>2, <2>2, <3>3
      <3>5. (x.at + new) + (old - new) = x.at + old
        BY <1>1, <1>2
      <3> QED
        BY <3>1, <3>2, <3>3, <3>4, <3>5
    <2>5. /\ x.at + new \in Nat /\ old - new \in Nat \ {0}
          /\ (x.at + new) + (old - new) <= Capacity
      BY <1>1, <1>2
    <2>6. \A b \in Bytes : x.at + new <= b /\ b < (x.at + new) + (old - new) => HeldByte(b)
      <3> SUFFICES ASSUME NEW b \in Bytes, x.at + new <= b, b < (x.at + new) + (old - new)
                   PROVE  x.at <= b /\ b < x.at + old
        BY <1>1
      <3> QED
        BY <1>1, <1>2 DEF Bytes
    <2>7. /\ free' \in Seq(Hole) /\ Len(free') <= Holes /\ used' \in Nat
          /\ Coalesced'
          /\ \A b \in Bytes : Covers(free', b) <=> ~HeldByte(b)'
          /\ Accounted'
      BY <1>4, <2>4, <2>5, <2>6, GivenBack DEF IInv
    <2>8. last' \in Calls
      BY <1>1, <1>4, CallTyped
    <2>9. TypeOK'
      BY <1>4, <2>1, <2>7, <2>8 DEF IInv, TypeOK
    <2>10. \A z \in held' : z.at + RoundUp(z.size) <= Capacity
      <3>1. y.at + RoundUp(y.size) <= Capacity
        BY <1>1, <1>2, <2>1
      <3> QED
        BY <1>4, <3>1 DEF IInv, Partition
    <2>11. ASSUME NEW z \in held, z # x
           PROVE  y.at + RoundUp(y.size) <= z.at \/ z.at + RoundUp(z.size) <= y.at
      <3>1. x.at + old <= z.at \/ z.at + RoundUp(z.size) <= x.at
        BY <2>11 DEF IInv, HeldApart, old
      <3>2. z.at \in Nat /\ RoundUp(z.size) \in Nat \ {0}
        BY HeldExtent
      <3> QED
        BY <1>1, <1>2, <2>1, <3>1, <3>2
    <2>12. HeldApart'
      BY <1>4, <2>11 DEF IInv, HeldApart
    <2> QED
      BY <2>7, <2>9, <2>10, <2>12 DEF IInv, Partition, Bytes
  <1> QED
    BY <1>3, <1>4 DEF Shrink

-----------------------------------------------------------------------------
(* The theorems. *)

\* The arena is empty at first: one hole, and nothing held.
LEMMA InitSafe == Init => IInv
  <1> SUFFICES ASSUME Init PROVE IInv
    OBVIOUS
  <1> DEFINE h == [at |-> 0, len |-> Capacity]
  <1>1. free = <<h>> /\ used = 0 /\ held = {} /\ last = [op |-> "new"]
    BY DEF Init
  <1>2. h \in Hole /\ h.at = 0 /\ h.len = Capacity /\ End(h) = Capacity
    BY NewHole
  <1> HIDE DEF h
  <1>3. free \in Seq(Hole) /\ Len(free) = 1 /\ free[1] = h
    BY <1>1, <1>2
  <1>4. \A b : ~HeldByte(b)
    BY <1>1 DEF HeldByte
  <1>5. TypeOK
    BY <1>1, <1>3 DEF TypeOK, Calls
  <1>6. Coalesced
    BY <1>2, <1>3 DEF Coalesced, WellFormed
  <1>7. Partition
    BY <1>1, <1>2, <1>3, <1>4 DEF Partition, Covers, Bytes
  <1>8. HeldApart
    BY <1>1 DEF HeldApart
  <1>9. Accounted
    <2>1. HeldBytes = {}
      BY <1>4 DEF HeldBytes
    <2> QED
      BY <1>1, <2>1, FS_EmptySet DEF Accounted
  <1> QED
    BY <1>5, <1>6, <1>7, <1>8, <1>9 DEF IInv

\* Arena::place, release and the ladder's release of a tail keep the free
\* list sorted and coalesced, keep every byte either free or held by exactly
\* one caller, and keep `used` the number of bytes held.
THEOREM ArenaSafe == Spec => [](TypeOK /\ Coalesced /\ Partition /\ HeldApart /\ Accounted)
  <1>1. IInv /\ [Next]_vars => IInv'
    <2> SUFFICES ASSUME IInv, [Next]_vars PROVE IInv'
      OBVIOUS
    <2>1. ASSUME NEW size \in Sizes, Place(size) PROVE IInv'
      BY <2>1, PlaceKeeps
    <2>2. ASSUME NEW x \in held, Release(x) PROVE IInv'
      BY <2>2, ReleaseKeeps
    <2>3. ASSUME NEW x \in held, NEW size \in Sizes, Shrink(x, size) PROVE IInv'
      BY <2>3, ShrinkKeeps
    <2>4. CASE UNCHANGED vars
      BY <2>4 DEF vars, IInv, TypeOK, Coalesced, Partition, HeldApart, Accounted, HeldBytes, HeldByte
    <2> QED
      BY <2>1, <2>2, <2>3, <2>4 DEF Next
  <1>2. Spec => []IInv
    BY InitSafe, <1>1, PTL DEF Spec
  <1>3. IInv <=> TypeOK /\ Coalesced /\ Partition /\ HeldApart /\ Accounted
    BY DEF IInv
  <1> QED
    BY <1>2, <1>3, PTL

\* give joins what it takes back to the holes that touch it: in the free list
\* no two holes touch or overlap, so a hole is as large as the bytes around it
\* allow, whatever the order of the releases.
COROLLARY FreeListCoalesced == Spec => []Coalesced
  BY ArenaSafe, PTL

\* Arena::used is the number of bytes callers hold, each as RoundUp of what was
\* asked for, also where a full free list refused a release.
COROLLARY UsedIsHeld == Spec => []Accounted
  BY ArenaSafe, PTL

\* Because no two holes touch, a run of free bytes lies inside one hole.
LEMMA RunInOneHole ==
  ASSUME IInv, NEW at \in Nat, NEW len \in Nat \ {0}, at + len <= Capacity,
         \A b \in at .. at + len - 1 : ~HeldByte(b)
  PROVE  \E j \in 1 .. Len(free) : free[j].len >= len
  <1> DEFINE n == Len(free)
             A(j) == free[j].at
             E(j) == End(free[j])
  <1>0. free \in Seq(Hole) /\ WellFormed(free, Capacity)
    BY DEF IInv, TypeOK, Coalesced
  <1>1. \A j \in 1 .. n : A(j) \in Nat /\ E(j) \in Nat
    BY <1>0, HoleOf
  <1>2. \A j, k \in 1 .. n : j < k => E(j) < A(k)
    BY <1>0 DEF WellFormed
  <1>3. \A b \in at .. at + len - 1 : \E j \in 1 .. n : A(j) <= b /\ b < E(j)
    <2> SUFFICES ASSUME NEW b \in at .. at + len - 1
                 PROVE  Covers(free, b)
      BY DEF Covers
    <2>1. b \in Bytes
      BY DEF Bytes
    <2> QED
      BY <2>1 DEF IInv, Partition
  <1> HIDE DEF n, A, E
  <1>4. at \in at .. at + len - 1
    OBVIOUS
  <1>5. PICK j \in 1 .. n : A(j) <= at /\ at < E(j)
    BY <1>3, <1>4
  <1>6. CASE E(j) < at + len
    <2>1. E(j) \in at .. at + len - 1
      BY <1>1, <1>5, <1>6
    <2>2. PICK k \in 1 .. n : A(k) <= E(j) /\ E(j) < E(k)
      BY <1>3, <2>1
    <2>3. n \in Nat
      BY <1>0 DEF n
    <2>4. j < k \/ k < j
      BY <1>1, <2>2, <2>3
    <2> QED
      BY <1>1, <1>2, <1>5, <2>2, <2>4
  <1>7. CASE E(j) >= at + len
    <2>1. free[j].at \in Nat /\ free[j].len \in Nat
      BY <1>0, HoleOf DEF n
    <2>2. free[j].len >= len
      BY <1>5, <1>7, <2>1 DEF A, E, End
    <2> QED
      BY <2>2 DEF n
  <1> QED
    BY <1>1, <1>5, <1>6, <1>7

\* The arena implements the byte space: an extent is only ever placed on
\* bytes nobody holds, and Arena::place answers NoBudget only when no run of
\* free bytes anywhere in the region is long enough.
THEOREM ArenaImplementsSpace == Spec => ImplementsSpace
  <1>1. Init => Space!Init
    BY DEF Init, Space!Init
  <1>2. IInv /\ [Next]_vars => [Space!Next]_(Space!spaceVars)
    <2> SUFFICES ASSUME IInv, [Next]_vars PROVE [Space!Next]_(Space!spaceVars)
      OBVIOUS
    <2>0. \A size : RoundUp(size) = Space!Rounded(size)
      BY DEF RoundUp, Space!Rounded
    <2>a. \A op, size, ok : Call(op, size, ok) = Space!Call(op, size, ok)
      BY DEF Call, Space!Call
    <2>b. \A b : HeldByte(b) <=> Space!HeldByte(b)
      BY <2>0 DEF HeldByte, Within, Space!HeldByte, Space!Within
    <2>1. ASSUME NEW size \in Sizes, Place(size) PROVE Space!Place(size)
      <3> DEFINE want == RoundUp(size)
                 i == FirstFit(free, want)
      <3>0. size \in Nat \ {0} /\ want \in Nat \ {0}
        BY RoundUpValue
      <3>1. free \in Seq(Hole) /\ WellFormed(free, Capacity)
        BY DEF IInv, TypeOK, Coalesced
      <3> HIDE DEF want
      <3>2. CASE i = 0
        <4>1. \A j \in 1 .. Len(free) : free[j].len < want /\ free[j].len \in Nat
          <5>1. \A j \in 1 .. Len(free) : free[j].len \in Nat
            BY <3>1, HoleOf
          <5> HIDE DEF i
          <5> QED
            BY <3>0, <3>1, <3>2, <5>1, FirstFitValue DEF i
        <4>2. ASSUME NEW at \in 0 .. Capacity, Space!FreeRun(at, want)
              PROVE  FALSE
          <5>1. at \in Nat /\ at + want <= Capacity /\ \A b \in at .. at + want - 1 : ~HeldByte(b)
            BY <2>b, <4>2 DEF Space!FreeRun
          <5>2. PICK j \in 1 .. Len(free) : free[j].len >= want
            BY <3>0, <5>1, RunInOneHole
          <5> QED
            BY <3>0, <4>1, <5>2
        <4>3. UNCHANGED held /\ last' = Space!Call("place", size, FALSE)
          BY <2>1, <2>a, <3>2 DEF Place, want
        <4> QED
          BY <2>0, <4>2, <4>3 DEF Space!Place, want
      <3>3. CASE i # 0
        <4>1. i \in 1 .. Len(free) /\ free[i].len >= want
          <5> HIDE DEF i
          <5> QED
            BY <3>0, <3>1, <3>3, FirstFitValue DEF i
        <4>2. free[i].at \in Nat /\ free[i].len \in Nat
          BY <3>1, <4>1, HoleOf
        <4>3. End(free[i]) <= Capacity
          BY <3>1, <4>1 DEF WellFormed
        <4>4. free[i].at \in 0 .. Capacity /\ free[i].at + want <= Capacity
          BY <3>0, <4>1, <4>2, <4>3 DEF End
        <4>5. ASSUME NEW b \in free[i].at .. free[i].at + want - 1
              PROVE  ~HeldByte(b)
          <5>1. b \in Bytes /\ free[i].at <= b /\ b < free[i].at + free[i].len
            BY <3>0, <4>1, <4>2, <4>4 DEF Bytes
          <5>2. Covers(free, b)
            BY <4>1, <5>1 DEF Covers, End
          <5> QED
            BY <5>1, <5>2 DEF IInv, Partition
        <4>6. Space!FreeRun(free[i].at, want)
          BY <2>b, <4>4, <4>5 DEF Space!FreeRun
        <4>7. /\ held' = held \cup {[at |-> free[i].at, size |-> size]}
              /\ last' = Space!Call("place", size, TRUE)
          BY <2>1, <2>a, <3>3 DEF Place, want
        <4> HIDE DEF i
        <4> QED
          BY <2>0, <4>4, <4>6, <4>7 DEF Space!Place, want
      <3> QED
        BY <3>2, <3>3
    <2>2. ASSUME NEW x \in held, Release(x) PROVE Space!Release(x)
      BY <2>2, <2>a DEF Release, Refuse, Space!Release
    <2>3. ASSUME NEW x \in held, NEW size \in Sizes, Shrink(x, size) PROVE Space!Shrink(x, size)
      <3>1. Space!Rounded(size) < Space!Rounded(x.size)
        BY <2>0, <2>3 DEF Shrink
      <3>2. \/ /\ held' = (held \ {x}) \cup {[at |-> x.at, size |-> size]}
               /\ last' = Call("shrink", x.size, TRUE)
            \/ last' = Call("shrink", x.size, FALSE) /\ UNCHANGED held
        BY <2>3 DEF Shrink, Refuse
      <3> QED
        BY <2>a, <3>1, <3>2 DEF Space!Shrink
    <2>4. CASE UNCHANGED vars
      BY <2>4 DEF vars, Space!spaceVars
    <2> QED
      BY <2>1, <2>2, <2>3, <2>4 DEF Next, Space!Next
  <1>3. Spec => []IInv
    <2>1. IInv <=> TypeOK /\ Coalesced /\ Partition /\ HeldApart /\ Accounted
      BY DEF IInv
    <2> QED
      BY <2>1, ArenaSafe, PTL
  <1> QED
    BY <1>1, <1>2, <1>3, PTL DEF Spec, ImplementsSpace, Space!Spec
=============================================================================
