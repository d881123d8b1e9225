--------------------------- MODULE ManagerProofs ---------------------------
(***************************************************************************)
(* For every arena, set of objects and sessions, and whatever the          *)
(* environment does: resident objects never share a byte, no byte is lost, *)
(* accounts are exact, a session stays under its ceiling, share_count is   *)
(* the leases held, and no object outlives its session.                    *)
(***************************************************************************)
EXTENDS Manager, FreeListProofs, TLAPS

-----------------------------------------------------------------------------
(* The inductive invariant, by the part of the state it is about. *)

\* The arena: its list, its count, and where the resident objects lie in it.
Space ==
  /\ free \in Seq(Hole) /\ WellFormed(free, Capacity) /\ Len(free) <= Holes
  /\ used \in 0 .. Capacity
  /\ ResidentApart
  /\ NothingLeaked

\* The table: no entry is of an empty object.
Tabled ==
  /\ table \in [Objects -> {NoMeta} \cup Meta]
  /\ \A id \in Objects : Entry(id) => table[id].size # 0

Accounts == sessions \in [SessionIds -> Session] /\ CeilingKept

\* The leases of one object, where it is resident and where it is not.
LeasesOf(id) ==
  /\ claims[id] \in [valid : Nat, stale : Nat]
  /\ claims[id].valid + claims[id].stale <= MaxClaims
  /\ "stale_release" \notin env => claims[id].stale = 0
  /\ ~Resident(id) =>
       /\ Entry(id) => table[id].share = 0
       /\ "register_again" \notin env => claims[id].valid = 0

Leased ==
  /\ claims \in [Objects -> [valid : Nat, stale : Nat]]
  /\ \A id \in Objects : LeasesOf(id)
  /\ ShareExact

\* The call in progress: a fault is on an object that is not resident, and
\* its lease, once counted, is still within the bound.
LeaseKinds == {"Pin", "Borrow", "Streaming", "Speculative"}
FaultJob ==
  /\ job \in [phase : {"room", "place"}, id : Objects, lease : LeaseKinds,
              once : BOOLEAN, fits : BOOLEAN]
  /\ Entry(job.id) /\ ~Resident(job.id)
  /\ ~job.once => MayClaim(job.id, job.lease)
DestroyJob ==
  job \in [phase : {"destroy"}, session : 0 .. MaxId, rest : SUBSET SessionIds, gone : Nat]
Working == job = Idle \/ FaultJob \/ DestroyJob

Rest == counted \in Nat /\ attached \subseteq Providers /\ env \in Envs

IInv == Space /\ Tabled /\ Accounts /\ Leased /\ Working /\ Rest /\ NoOrphans

-----------------------------------------------------------------------------
(* Sums of sizes over a set of objects.  MapThenSumSet is a recursion over  *)
(* subsets; induction on their number of elements is by the least number    *)
(* that fails.                                                              *)

Pick(s) == CHOOSE x \in s : TRUE
SizeSum(t, S) == MapThenSumSet(LAMBDA id : t[id].size, S)
IsSum(t, S, f) == f = [s \in SUBSET S |-> IF s = {} THEN 0 ELSE t[Pick(s)].size + f[s \ {Pick(s)}]]
SumTable(t, S) == CHOOSE f : IsSum(t, S, f)

LEMMA SumUnfolds ==
  ASSUME NEW t, NEW S
  PROVE  SizeSum(t, S) = SumTable(t, S)[S]
  BY DEF SizeSum, MapThenSumSet, MapThenFoldSet, SumTable, IsSum, Pick

\* Taking the chosen element out of a set leaves one element fewer.
LEMMA PickedOut ==
  ASSUME NEW s, IsFiniteSet(s), s # {}
  PROVE  /\ Pick(s) \in s /\ IsFiniteSet(s \ {Pick(s)})
         /\ Cardinality(s) \in Nat \ {0} /\ Cardinality(s \ {Pick(s)}) = Cardinality(s) - 1
  <1>1. Pick(s) \in s
    BY DEF Pick
  <1>2. IsFiniteSet(s \ {Pick(s)}) /\ Cardinality(s \ {Pick(s)}) = Cardinality(s) - 1
    BY <1>1, FS_RemoveElement
  <1>3. Cardinality(s) \in Nat /\ Cardinality(s \ {Pick(s)}) \in Nat
    BY <1>2, FS_CardinalityType
  <1> QED
    BY <1>1, <1>2, <1>3

\* The recursion, cut off at subsets of more than n elements.
IsSumUpTo(t, U, n, f) ==
  f = [s \in SUBSET U |-> IF s = {} \/ Cardinality(s) > n THEN 0
                          ELSE t[Pick(s)].size + f[s \ {Pick(s)}]]

\* From n to n + 1: a set of n + 1 elements is summed by what was before.
LEMMA SumUpToNext ==
  ASSUME NEW t, NEW U, IsFiniteSet(U), NEW n \in Nat, NEW f, IsSumUpTo(t, U, n, f)
  PROVE  \E g : IsSumUpTo(t, U, n + 1, g)
  <1> DEFINE g == [s \in SUBSET U |-> IF s = {} \/ Cardinality(s) > n + 1 THEN 0
                                      ELSE t[Pick(s)].size + f[s \ {Pick(s)}]]
             h == [s \in SUBSET U |-> IF s = {} \/ Cardinality(s) > n + 1 THEN 0
                                      ELSE t[Pick(s)].size + g[s \ {Pick(s)}]]
  <1>1. ASSUME NEW s \in SUBSET U, s # {}, ~(Cardinality(s) > n + 1)
        PROVE  g[s \ {Pick(s)}] = f[s \ {Pick(s)}]
    <2> DEFINE r == s \ {Pick(s)}
    <2>1. IsFiniteSet(s)
      BY FS_Subset
    <2>2. r \in SUBSET U /\ Cardinality(r) = Cardinality(s) - 1 /\ Cardinality(s) \in Nat \ {0}
      BY <1>1, <2>1, PickedOut
    <2>3. ~(Cardinality(r) > n) /\ ~(Cardinality(r) > n + 1)
      BY <1>1, <2>2
    <2> HIDE DEF r
    <2>4. f[r] = IF r = {} THEN 0 ELSE t[Pick(r)].size + f[r \ {Pick(r)}]
      BY <2>2, <2>3 DEF IsSumUpTo
    <2>5. g[r] = IF r = {} THEN 0 ELSE t[Pick(r)].size + f[r \ {Pick(r)}]
      BY <2>2, <2>3
    <2> QED
      BY <2>4, <2>5 DEF r
  <1>2. \A s \in SUBSET U : g[s] = h[s]
    BY <1>1
  <1>3. g = h
    BY <1>2
  <1> QED
    BY <1>3 DEF IsSumUpTo

\* The recursion has a solution on every finite set.
LEMMA SumExists ==
  ASSUME NEW t, NEW U, IsFiniteSet(U)
  PROVE  IsSum(t, U, SumTable(t, U))
  <1> DEFINE Bad == {n \in Nat : ~\E f : IsSumUpTo(t, U, n, f)}
  <1>1. Bad = {}
    <2> SUFFICES ASSUME Bad # {} PROVE FALSE
      OBVIOUS
    <2> DEFINE m == Min(Bad)
    <2>1. m \in Bad /\ \A y \in Bad : m <= y
      BY LeastMember
    <2> HIDE DEF m
    <2>2. m # 0
      <3> DEFINE z == [s \in SUBSET U |-> 0]
                 y == [s \in SUBSET U |-> IF s = {} \/ Cardinality(s) > 0 THEN 0
                                          ELSE t[Pick(s)].size + z[s \ {Pick(s)}]]
      <3>1. ASSUME NEW s \in SUBSET U
            PROVE  s = {} \/ Cardinality(s) > 0
        <4>1. IsFiniteSet(s)
          BY FS_Subset
        <4>2. s # {} => Cardinality(s) \in Nat \ {0}
          BY <4>1, PickedOut
        <4> QED
          BY <4>2
      <3>2. \A s \in SUBSET U : z[s] = y[s]
        BY <3>1
      <3>3. z = y
        BY <3>2
      <3>4. IsSumUpTo(t, U, 0, z)
        BY <3>3 DEF IsSumUpTo
      <3> QED
        BY <2>1, <3>4
    <2>3. m - 1 \in Nat /\ m - 1 \notin Bad
      BY <2>1, <2>2
    <2>4. PICK f : IsSumUpTo(t, U, m - 1, f)
      BY <2>3
    <2>5. \E g : IsSumUpTo(t, U, (m - 1) + 1, g)
      BY <2>3, <2>4, SumUpToNext
    <2>6. (m - 1) + 1 = m
      BY <2>1
    <2> QED
      BY <2>1, <2>5, <2>6
  <1>2. Cardinality(U) \in Nat
    BY FS_CardinalityType
  <1>3. PICK f : IsSumUpTo(t, U, Cardinality(U), f)
    BY <1>1, <1>2
  <1>4. IsSum(t, U, f)
    <2>1. ASSUME NEW s \in SUBSET U
          PROVE  ~(Cardinality(s) > Cardinality(U))
      <3>1. IsFiniteSet(s) /\ Cardinality(s) <= Cardinality(U)
        BY FS_Subset
      <3>2. Cardinality(s) \in Nat
        BY <3>1, FS_CardinalityType
      <3> QED
        BY <1>2, <3>1, <3>2
    <2> DEFINE g == [s \in SUBSET U |-> IF s = {} \/ Cardinality(s) > Cardinality(U) THEN 0
                                        ELSE t[Pick(s)].size + f[s \ {Pick(s)}]]
               h == [s \in SUBSET U |-> IF s = {} THEN 0 ELSE t[Pick(s)].size + f[s \ {Pick(s)}]]
    <2>2. f = g
      BY <1>3 DEF IsSumUpTo
    <2>3. \A s \in SUBSET U : g[s] = h[s]
      BY <2>1
    <2>4. g = h
      BY <2>3
    <2> QED
      BY <2>2, <2>4 DEF IsSum
  <1> QED
    BY <1>4 DEF SumTable

SameSizes(t, u, S) == \A x \in S : t[x].size = u[x].size

\* Two solutions agree where both are defined, if the sizes do.
LEMMA SumsAgree ==
  ASSUME NEW t, NEW u, NEW S, NEW U, IsFiniteSet(S), NEW f, NEW g, IsSum(t, S, f), IsSum(u, U, g),
         S \subseteq U, SameSizes(t, u, S)
  PROVE  \A s \in SUBSET S : f[s] = g[s]
  <1> DEFINE Bad == {n \in Nat : \E s \in SUBSET S : Cardinality(s) = n /\ f[s] # g[s]}
  <1>1. ASSUME NEW s \in SUBSET S
        PROVE  IsFiniteSet(s) /\ Cardinality(s) \in Nat
    BY FS_Subset, FS_CardinalityType
  <1>2. Bad = {}
    <2> SUFFICES ASSUME Bad # {} PROVE FALSE
      OBVIOUS
    <2> DEFINE m == Min(Bad)
    <2>1. m \in Bad /\ \A y \in Bad : m <= y
      BY LeastMember
    <2> HIDE DEF m
    <2>2. PICK s \in SUBSET S : Cardinality(s) = m /\ f[s] # g[s]
      BY <2>1
    <2>3. s # {}
      BY <2>2 DEF IsSum
    <2> DEFINE r == s \ {Pick(s)}
    <2>4. Pick(s) \in s /\ r \in SUBSET S /\ m \in Nat /\ Cardinality(r) = m - 1 /\ Cardinality(r) \in Nat
      BY <1>1, <2>2, <2>3, PickedOut
    <2>5. f[r] = g[r]
      <3>1. Cardinality(r) \notin Bad
        BY <2>1, <2>4
      <3> HIDE DEF r
      <3> QED
        BY <2>4, <3>1
    <2>6. f[s] = t[Pick(s)].size + f[r] /\ g[s] = u[Pick(s)].size + g[r]
      BY <2>3 DEF IsSum
    <2> QED
      BY <2>2, <2>4, <2>5, <2>6 DEF SameSizes
  <1> QED
    BY <1>1, <1>2

LEMMA SumSame ==
  ASSUME NEW t, NEW u, NEW S, IsFiniteSet(S), SameSizes(t, u, S)
  PROVE  SizeSum(t, S) = SizeSum(u, S)
  <1> DEFINE f == SumTable(t, S)
             g == SumTable(u, S)
  <1>1. IsSum(t, S, f) /\ IsSum(u, S, g) /\ S \subseteq S
    BY SumExists
  <1>2. SizeSum(t, S) = f[S] /\ SizeSum(u, S) = g[S]
    BY SumUnfolds
  <1> HIDE DEF f, g
  <1>3. \A s \in SUBSET S : f[s] = g[s]
    BY <1>1, SumsAgree
  <1> QED
    BY <1>2, <1>3

LEMMA SumOfNone ==
  ASSUME NEW t
  PROVE  SizeSum(t, {}) = 0
  <1>1. IsSum(t, {}, SumTable(t, {}))
    BY SumExists, FS_EmptySet
  <1>2. SumTable(t, {})[{}] = 0
    BY <1>1 DEF IsSum
  <1> QED
    BY <1>2, SumUnfolds

\* A sum is the chosen element's size and the sum of the rest.
LEMMA SumPicked ==
  ASSUME NEW t, NEW S, IsFiniteSet(S), S # {}
  PROVE  SizeSum(t, S) = t[Pick(S)].size + SizeSum(t, S \ {Pick(S)})
  <1> DEFINE r == S \ {Pick(S)}
             f == SumTable(t, S)
             g == SumTable(t, r)
  <1>1. IsFiniteSet(r) /\ r \subseteq S
    BY PickedOut
  <1>2. IsSum(t, S, f) /\ IsSum(t, r, g)
    BY <1>1, SumExists
  <1>3. f[S] = t[Pick(S)].size + f[r]
    BY <1>2 DEF IsSum
  <1> HIDE DEF f, g, r
  <1>4. g[r] = f[r]
    <2>1. SameSizes(t, t, r)
      BY DEF SameSizes
    <2> QED
      BY <1>1, <1>2, <2>1, SumsAgree
  <1>5. SizeSum(t, S) = f[S] /\ SizeSum(t, r) = g[r]
    BY SumUnfolds DEF f, g
  <1> QED
    BY <1>3, <1>4, <1>5 DEF r

\* The order does not matter: any element's size can be taken out.
LEMMA SumWithout ==
  ASSUME NEW t, NEW U, IsFiniteSet(U), \A y \in U : t[y].size \in Nat
  PROVE  /\ SizeSum(t, U) \in Nat
         /\ \A x \in U : /\ SizeSum(t, U \ {x}) \in Nat
                         /\ SizeSum(t, U) = SizeSum(t, U \ {x}) + t[x].size
  <1> DEFINE Good(S) == /\ SizeSum(t, S) \in Nat
                        /\ \A x \in S : SizeSum(t, S) = SizeSum(t, S \ {x}) + t[x].size
             Bad == {n \in Nat : \E S \in SUBSET U : Cardinality(S) = n /\ ~Good(S)}
  <1>1. ASSUME NEW S \in SUBSET U
        PROVE  IsFiniteSet(S) /\ Cardinality(S) \in Nat
    BY FS_Subset, FS_CardinalityType
  <1>2. Bad = {}
    <2> SUFFICES ASSUME Bad # {} PROVE FALSE
      OBVIOUS
    <2> DEFINE m == Min(Bad)
    <2>1. m \in Bad /\ \A y \in Bad : m <= y
      BY LeastMember
    <2> HIDE DEF m
    <2>2. PICK S \in SUBSET U : Cardinality(S) = m /\ ~Good(S)
      BY <2>1
    <2>3. ASSUME NEW x \in S
          PROVE  S \ {x} \in SUBSET U /\ Good(S \ {x})
      <3>1. IsFiniteSet(S) /\ m \in Nat
        BY <1>1, <2>2
      <3>2. Cardinality(S \ {x}) = m - 1
        BY <2>2, <3>1, FS_RemoveElement
      <3>3. S \ {x} \in SUBSET U /\ Cardinality(S \ {x}) \in Nat
        BY <1>1
      <3>4. m - 1 \notin Bad
        BY <2>1, <3>1
      <3> HIDE DEF Good
      <3> QED
        BY <3>2, <3>3, <3>4
    <2>4. S # {}
      BY <2>2, SumOfNone
    <2> DEFINE c == Pick(S)
    <2>5. c \in S /\ SizeSum(t, S) = t[c].size + SizeSum(t, S \ {c})
      BY <1>1, <2>4, PickedOut, SumPicked
    <2> HIDE DEF c
    <2>6. SizeSum(t, S \ {c}) \in Nat /\ t[c].size \in Nat
      BY <2>3, <2>5
    <2>7. SizeSum(t, S) \in Nat
      BY <2>5, <2>6
    <2>8. ASSUME NEW x \in S
          PROVE  SizeSum(t, S) = SizeSum(t, S \ {x}) + t[x].size
      <3>1. CASE x = c
        BY <2>5, <2>6, <3>1
      <3>2. CASE x # c
        <4>1. x \in S \ {c} /\ c \in S \ {x} /\ (S \ {c}) \ {x} = (S \ {x}) \ {c}
          BY <2>5, <3>2
        <4>2. SizeSum(t, S \ {c}) = SizeSum(t, (S \ {c}) \ {x}) + t[x].size
          BY <2>3, <2>5, <4>1
        <4>3. SizeSum(t, S \ {x}) = SizeSum(t, (S \ {x}) \ {c}) + t[c].size
          BY <2>3, <4>1
        <4>4. SizeSum(t, (S \ {c}) \ {x}) \in Nat /\ t[x].size \in Nat
          <5>1. IsFiniteSet(S \ {c}) /\ Good(S \ {c})
            BY <1>1, <2>3, <2>5
          <5>2. Cardinality((S \ {c}) \ {x}) = m - 2 /\ Cardinality((S \ {c}) \ {x}) \in Nat /\ m \in Nat
            <6>1. Cardinality(S \ {c}) = m - 1 /\ m \in Nat
              BY <1>1, <2>2, <2>5, FS_RemoveElement
            <6>2. Cardinality((S \ {c}) \ {x}) = Cardinality(S \ {c}) - 1
              BY <4>1, <5>1, FS_RemoveElement
            <6>3. Cardinality((S \ {c}) \ {x}) \in Nat
              BY <1>1
            <6> QED
              BY <6>1, <6>2, <6>3
          <5>3. m - 2 \notin Bad
            BY <2>1, <5>2
          <5>4. (S \ {c}) \ {x} \in SUBSET U
            OBVIOUS
          <5>5. Good((S \ {c}) \ {x})
            <6> HIDE DEF Good
            <6> QED
              BY <5>2, <5>3, <5>4
          <5> QED
            BY <5>5
        <4> QED
          <5> DEFINE all == SizeSum(t, S)
                     noc == SizeSum(t, S \ {c})
                     nox == SizeSum(t, S \ {x})
                     two == SizeSum(t, (S \ {c}) \ {x})
                     sc == t[c].size
                     sx == t[x].size
          <5>1. all = sc + noc /\ noc = two + sx /\ nox = two + sc /\ two \in Nat /\ sx \in Nat /\ sc \in Nat
            BY <2>5, <2>6, <4>1, <4>2, <4>3, <4>4
          <5> HIDE DEF all, noc, nox, two, sc, sx
          <5>2. all = nox + sx
            BY <5>1
          <5> QED
            BY <5>2 DEF all, nox, sx
      <3> QED
        BY <3>1, <3>2
    <2> QED
      BY <2>2, <2>7, <2>8
  <1>3. ASSUME NEW S \in SUBSET U
        PROVE  Good(S)
    <2> HIDE DEF Good
    <2> QED
      BY <1>1, <1>2
  <1>4. \A x \in U : U \ {x} \in SUBSET U
    OBVIOUS
  <1> QED
    BY <1>3, <1>4

HasSizes(t, U) == \A y \in U : t[y].size \in Nat

\* One object more: what its size adds.
LEMMA SumWithOne ==
  ASSUME NEW t, NEW u, NEW U, NEW x \in U, IsFiniteSet(U), HasSizes(t, U), SameSizes(t, u, U \ {x})
  PROVE  SizeSum(u, U \ {x}) \in Nat /\ SizeSum(t, U) = SizeSum(u, U \ {x}) + t[x].size
  <1> DEFINE W == U \ {x}
  <1>0. \A y \in U : t[y].size \in Nat
    BY DEF HasSizes
  <1>1. SizeSum(t, W) \in Nat /\ SizeSum(t, U) = SizeSum(t, W) + t[x].size
    BY <1>0, SumWithout
  <1>2. IsFiniteSet(W)
    BY FS_RemoveElement
  <1>3. SizeSum(t, W) = SizeSum(u, W)
    BY <1>2, SumSame
  <1> QED
    BY <1>1, <1>3

-----------------------------------------------------------------------------
(* Sessions: what charging, crediting, adopting and forgetting do. *)

LEMMA MaxOfTwo ==
  ASSUME NEW x \in Nat, NEW y \in Nat
  PROVE  Max({x, y}) \in {x, y} /\ Max({x, y}) >= x /\ Max({x, y}) >= y
  <1>1. \E z \in {x, y} : \A w \in {x, y} : z >= w
    OBVIOUS
  <1> QED
    BY <1>1 DEF Max

LEMMA MinOfTwo ==
  ASSUME NEW x \in Nat, NEW y \in Nat, x <= y
  PROVE  Min({x, y}) = x
  <1>1. Min({x, y}) \in {x, y} /\ \A z \in {x, y} : Min({x, y}) <= z
    BY LeastMember
  <1> QED
    BY <1>1

LiveRecord ==
  [live : {TRUE}, contract : Contract, resident : Nat, peak : Nat,
   coarsest : Precision, rung : 0 .. 5, deepest : 0 .. 5]

\* A session that is found has a record.
LEMMA LiveSession ==
  ASSUME NEW ss \in [SessionIds -> Session], NEW s, Known(ss, s)
  PROVE  /\ s \in SessionIds /\ ss[s] \in LiveRecord /\ s \in LiveIn(ss)
         /\ ss[s].resident \in Nat /\ ss[s].peak \in Nat /\ ss[s].coarsest \in Precision
         /\ ss[s].contract \in Contract /\ ss[s].contract.ceiling \in Nat
  <1>1. s \in SessionIds /\ ss[s].live
    BY DEF Known
  <1>2. ss[s] # NoSession
    BY <1>1 DEF NoSession
  <1>3. ss[s] \in LiveRecord
    BY <1>1, <1>2 DEF Session, LiveRecord
  <1> QED
    BY <1>1, <1>3 DEF LiveRecord, LiveIn, Contract

\* No session of ss holds more than its ceiling.
Capped(ss) ==
  \A s \in LiveIn(ss) : ss[s].contract.ceiling # 0 => ss[s].resident <= ss[s].contract.ceiling

\* after has the sessions of ss, and only the resident bytes of owner differ.
OnlyResident(ss, after, owner) ==
  /\ after \in [SessionIds -> Session]
  /\ \A s : Known(after, s) <=> Known(ss, s)
  /\ \A s : Known(ss, s) => after[s].contract = ss[s].contract
  /\ \A s : Known(ss, s) /\ s # owner => after[s] = ss[s]

LEMMA ChargeKeeps ==
  ASSUME NEW ss \in [SessionIds -> Session], NEW owner, NEW size \in Nat, NEW precision \in Precision
  PROVE  LET after == Charge(ss, owner, size, precision)
         IN  /\ OnlyResident(ss, after, owner)
             /\ Known(ss, owner) => after[owner].resident = ss[owner].resident + size
             /\ Capped(ss) /\ Chargeable(ss, owner, size) => Capped(after)
  <1> DEFINE after == Charge(ss, owner, size, precision)
  <1>1. CASE ~Known(ss, owner)
    BY <1>1 DEF Charge, OnlyResident
  <1>2. CASE Known(ss, owner)
    <2> DEFINE old == ss[owner]
               held == old.resident + size
               top == Max({old.peak, held})
               worst == Max({old.coarsest, precision})
               new == [old EXCEPT !.resident = held, !.peak = top, !.coarsest = worst]
    <2>1. /\ owner \in SessionIds /\ old \in LiveRecord /\ old.resident \in Nat /\ old.peak \in Nat
          /\ old.coarsest \in Precision /\ old.contract.ceiling \in Nat
      BY <1>2, LiveSession
    <2>2. top \in Nat
      <3>1. held \in Nat
        BY <2>1
      <3> HIDE DEF held
      <3> QED
        BY <2>1, <3>1, MaxOfTwo
    <2>3. worst \in Precision
      <3>1. old.coarsest \in Nat /\ precision \in Nat
        BY <2>1 DEF Precision
      <3> QED
        BY <2>1, <3>1, MaxOfTwo
    <2>4. after = [ss EXCEPT ![owner] = new]
      BY <1>2 DEF Charge
    <2> HIDE DEF top, worst
    <2>5. /\ new \in LiveRecord /\ new.live = TRUE /\ new.contract = old.contract
          /\ new.resident = old.resident + size
      <3> HIDE DEF old
      <3>1. held \in Nat
        BY <2>1
      <3> QED
        BY <2>1, <2>2, <2>3, <3>1 DEF LiveRecord
    <2> HIDE DEF new, after
    <2>6. OnlyResident(ss, after, owner)
      <3>1. after \in [SessionIds -> Session]
        BY <2>1, <2>4, <2>5 DEF Session, LiveRecord
      <3>2. \A s \in SessionIds : after[s] = IF s = owner THEN new ELSE ss[s]
        BY <2>1, <2>4
      <3> QED
        BY <1>2, <2>1, <2>5, <3>1, <3>2 DEF OnlyResident, Known
    <2>7. after[owner] = new
      BY <2>1, <2>4
    <2>8. ASSUME Capped(ss), Chargeable(ss, owner, size)
          PROVE  Capped(after)
      <3> SUFFICES ASSUME NEW s \in LiveIn(after), after[s].contract.ceiling # 0
                   PROVE  after[s].resident <= after[s].contract.ceiling
        BY DEF Capped
      <3>1. Known(ss, s) /\ s \in LiveIn(ss)
        BY <2>6 DEF OnlyResident, LiveIn, Known
      <3>2. CASE s = owner
        BY <1>2, <2>1, <2>5, <2>7, <2>8, <3>2 DEF Chargeable
      <3>3. CASE s # owner
        BY <2>6, <2>8, <3>1, <3>3 DEF OnlyResident, Capped
      <3> QED
        BY <3>2, <3>3
    <2> QED
      BY <2>5, <2>6, <2>7, <2>8 DEF after
  <1> QED
    BY <1>1, <1>2

LEMMA CreditKeeps ==
  ASSUME NEW ss \in [SessionIds -> Session], NEW owner, NEW size \in Nat
  PROVE  LET after == Credit(ss, owner, size)
         IN  /\ OnlyResident(ss, after, owner)
             /\ Known(ss, owner) => after[owner].resident = SatSub(ss[owner].resident, size)
             /\ Capped(ss) => Capped(after)
  <1> DEFINE after == Credit(ss, owner, size)
  <1>1. CASE ~Known(ss, owner)
    BY <1>1 DEF Credit, OnlyResident
  <1>2. CASE Known(ss, owner)
    <2> DEFINE old == ss[owner]
               left == SatSub(old.resident, size)
               new == [old EXCEPT !.resident = left]
    <2>1. /\ owner \in SessionIds /\ old \in LiveRecord /\ old.resident \in Nat
          /\ old.contract.ceiling \in Nat
      BY <1>2, LiveSession
    <2>2. left \in Nat /\ left <= old.resident
      BY <2>1 DEF SatSub
    <2>4. after = [ss EXCEPT ![owner] = new]
      BY <1>2 DEF Credit
    <2> HIDE DEF left
    <2>5. /\ new \in LiveRecord /\ new.live = TRUE /\ new.contract = old.contract
          /\ new.resident = left
      BY <2>1, <2>2 DEF LiveRecord
    <2> HIDE DEF new, after
    <2>6. OnlyResident(ss, after, owner)
      <3>1. after \in [SessionIds -> Session]
        BY <2>1, <2>4, <2>5 DEF Session, LiveRecord
      <3>2. \A s \in SessionIds : after[s] = IF s = owner THEN new ELSE ss[s]
        BY <2>1, <2>4
      <3> QED
        BY <1>2, <2>1, <2>5, <3>1, <3>2 DEF OnlyResident, Known
    <2>7. after[owner] = new
      BY <2>1, <2>4
    <2>8. ASSUME Capped(ss)
          PROVE  Capped(after)
      <3> SUFFICES ASSUME NEW s \in LiveIn(after), after[s].contract.ceiling # 0
                   PROVE  after[s].resident <= after[s].contract.ceiling
        BY DEF Capped
      <3>1. Known(ss, s) /\ s \in LiveIn(ss)
        BY <2>6 DEF OnlyResident, LiveIn, Known
      <3>2. CASE s = owner
        BY <2>1, <2>2, <2>5, <2>7, <2>8, <3>1, <3>2 DEF Capped
      <3>3. CASE s # owner
        BY <2>6, <2>8, <3>1, <3>3 DEF OnlyResident, Capped
      <3> QED
        BY <3>2, <3>3
    <2> QED
      BY <2>5, <2>6, <2>7, <2>8 DEF after, left
  <1> QED
    BY <1>1, <1>2

LEMMA AdoptKeeps ==
  ASSUME NEW ss \in [SessionIds -> Session], NEW s \in SessionIds, NEW contract \in Contract
  PROVE  LET after == Adopt(ss, s, contract)
         IN  /\ after \in [SessionIds -> Session]
             /\ \A r : Known(after, r) <=> Known(ss, r) \/ r = s
             /\ \A r \in SessionIds : r # s => after[r] = ss[r]
             /\ after[s].resident = 0
             /\ Capped(ss) => Capped(after)
  <1> DEFINE after == Adopt(ss, s, contract)
             new == [live |-> TRUE, contract |-> contract, resident |-> 0, peak |-> 0,
                     coarsest |-> 1, rung |-> 0, deepest |-> 0]
  <1>1. after = [ss EXCEPT ![s] = new]
    BY DEF Adopt
  <1>2. new \in Session /\ new.live = TRUE /\ new.contract = contract /\ new.resident = 0
    BY DEF Session, Precision
  <1> HIDE DEF new, after
  <1>3. \A r \in SessionIds : after[r] = IF r = s THEN new ELSE ss[r]
    BY <1>1
  <1>4. after \in [SessionIds -> Session]
    BY <1>1, <1>2
  <1>5. \A r : Known(after, r) <=> Known(ss, r) \/ r = s
    BY <1>2, <1>3 DEF Known
  <1>6. Capped(ss) => Capped(after)
    BY <1>2, <1>3 DEF Capped, LiveIn, Contract
  <1> QED
    BY <1>2, <1>3, <1>4, <1>5, <1>6 DEF after

LEMMA ForgetKeeps ==
  ASSUME NEW ss \in [SessionIds -> Session], NEW s \in SessionIds
  PROVE  LET after == Forget(ss, s)
         IN  /\ after \in [SessionIds -> Session]
             /\ \A r : Known(after, r) <=> Known(ss, r) /\ r # s
             /\ \A r \in SessionIds : r # s => after[r] = ss[r]
             /\ Capped(ss) => Capped(after)
  <1> DEFINE after == Forget(ss, s)
  <1>1. \A r \in SessionIds : after[r] = IF r = s THEN NoSession ELSE ss[r]
    BY DEF Forget
  <1>2. after \in [SessionIds -> Session]
    BY DEF Forget, Session
  <1>3. NoSession.live = FALSE
    BY DEF NoSession
  <1> HIDE DEF after
  <1>4. \A r : Known(after, r) <=> Known(ss, r) /\ r # s
    BY <1>1, <1>3 DEF Known
  <1>5. Capped(ss) => Capped(after)
    BY <1>1, <1>3 DEF Capped, LiveIn
  <1> QED
    BY <1>1, <1>2, <1>4, <1>5 DEF after

-----------------------------------------------------------------------------
(* The arena: where resident objects lie, and what placing and evicting do. *)

\* No byte of the run is in a hole.
ClearOf(f, at, len) == \A b \in Int : at <= b /\ b < at + len => ~Covers(f, b)

\* A run with no byte in a hole lies before or after each hole, and conversely.
LEMMA ClearIsApart ==
  ASSUME NEW f \in Seq(Hole), WellFormed(f, Capacity), NEW at \in Nat, NEW len \in Nat \ {0}
  PROVE  ClearOf(f, at, len) <=>
           \A i \in 1 .. Len(f) : at + len <= f[i].at \/ End(f[i]) <= at
  <1>1. \A i \in 1 .. Len(f) :
          f[i].at \in Nat /\ f[i].len \in Nat \ {0} /\ End(f[i]) = f[i].at + f[i].len
    <2> TAKE i \in 1 .. Len(f)
    <2>1. f[i].at \in Nat /\ f[i].len \in Nat
      BY HoleOf
    <2>2. f[i].len > 0
      BY DEF WellFormed
    <2> QED
      BY <2>1, <2>2 DEF End
  <1>2. ASSUME ClearOf(f, at, len), NEW i \in 1 .. Len(f)
        PROVE  at + len <= f[i].at \/ End(f[i]) <= at
    <2>1. \A b \in Nat : ~(at <= b /\ b < at + len /\ f[i].at <= b /\ b < f[i].at + f[i].len)
      BY <1>1, <1>2 DEF ClearOf, Covers
    <2>2. at + len <= f[i].at \/ f[i].at + f[i].len <= at
      BY <1>1, <2>1, ApartFromBytes
    <2> QED
      BY <1>1, <2>2
  <1>3. ASSUME \A i \in 1 .. Len(f) : at + len <= f[i].at \/ End(f[i]) <= at
        PROVE  ClearOf(f, at, len)
    BY <1>1, <1>3 DEF ClearOf, Covers
  <1> QED
    BY <1>2, <1>3

\* What the invariant says of one resident object.
LEMMA ResidentObject ==
  ASSUME Space, Tabled, NEW id \in Objects, Resident(id)
  PROVE  /\ table[id] \in Meta
         /\ table[id].size \in Nat \ {0} /\ RoundUp(table[id].size) \in Nat \ {0}
         /\ table[id].at \in Nat /\ table[id].at - Base \in Nat
         /\ (table[id].at - Base) + RoundUp(table[id].size) <= Capacity
         /\ ClearOf(free, table[id].at - Base, RoundUp(table[id].size))
  <1> USE ManagerAssumption
  <1>1. table[id] \in Meta
    BY DEF Tabled, Resident, Entry
  <1>2. table[id].size \in Nat \ {0} /\ table[id].at \in Nat
    BY <1>1 DEF Tabled, Meta, Resident
  <1>3. RoundUp(table[id].size) \in Nat \ {0}
    BY <1>2, RoundUpValue
  <1> DEFINE at == table[id].at - Base
             len == RoundUp(table[id].size)
  <1>4. id \in ResidentSet
    BY DEF ResidentSet
  <1>5. Base <= table[id].at /\ table[id].at + len <= Base + Capacity
    BY <1>4 DEF Space, ResidentApart, Beyond
  <1>6. at \in Nat /\ at + len <= Capacity
    BY <1>2, <1>3, <1>5
  <1>7. ClearOf(free, at, len)
    <2>1. free \in Seq(Hole) /\ WellFormed(free, Capacity)
      BY DEF Space
    <2>2. ASSUME NEW i \in 1 .. Len(free)
          PROVE  at + len <= free[i].at \/ End(free[i]) <= at
      <3>1. i \in DOMAIN free
        BY <2>1
      <3>2. table[id].at + len <= Base + free[i].at \/ Base + End(free[i]) <= table[id].at
        BY <1>4, <3>1 DEF Space, ResidentApart, Beyond
      <3>3. free[i].at \in Nat /\ End(free[i]) \in Nat
        BY <2>1, HoleOf
      <3> QED
        BY <1>2, <1>3, <3>2, <3>3
    <2> QED
      BY <1>3, <1>6, <2>1, <2>2, ClearIsApart
  <1> QED
    BY <1>1, <1>2, <1>3, <1>6, <1>7

\* An entry that is not resident has a size.
LEMMA EntryObject ==
  ASSUME Tabled, NEW id \in Objects, Entry(id)
  PROVE  /\ table[id] \in Meta
         /\ table[id].size \in Nat \ {0} /\ RoundUp(table[id].size) \in Nat \ {0}
         /\ table[id].owner \in 0 .. MaxId /\ table[id].precision \in Precision
         /\ table[id].share \in 0 .. ShareMax /\ table[id].at \in Nat
  <1>1. table[id] \in Meta
    BY DEF Tabled, Entry
  <1>2. table[id].size \in Nat \ {0}
    BY <1>1 DEF Tabled, Meta
  <1> QED
    BY <1>1, <1>2, RoundUpValue DEF Meta

\* The arena is as it was, and so is every resident object, but that one may
\* be registered over.
SameSpace ==
  /\ UNCHANGED <<free, used, env>>
  /\ \A id \in Objects :
       /\ Resident(id)' => Resident(id) /\ table'[id].at = table[id].at /\ table'[id].size = table[id].size
       /\ Resident(id) /\ "register_again" \notin env => Resident(id)'

LEMMA SameSpaceKeeps ==
  ASSUME Space, SameSpace
  PROVE  Space'
  <1>1. ASSUME NEW id \in ResidentSet'
        PROVE  id \in ResidentSet /\ table'[id].at = table[id].at /\ Beyond(id)' = Beyond(id)
    BY <1>1 DEF SameSpace, ResidentSet, Beyond
  <1>2. ResidentApart'
    <2>1. ResidentApart /\ free' = free
      BY DEF Space, SameSpace
    <2> QED
      BY <1>1, <2>1 DEF ResidentApart
  <1>3. NothingLeaked'
    <2>1. NothingLeaked /\ free' = free /\ used' = used /\ env' = env
      BY DEF Space, SameSpace
    <2>2. ASSUME NEW b \in Bytes, NEW id \in Objects, Resident(id), Within(b, id), "register_again" \notin env
          PROVE  Resident(id)' /\ Within(b, id)'
      <3>1. Resident(id)'
        BY <2>2 DEF SameSpace
      <3>2. id \in ResidentSet'
        BY <3>1 DEF ResidentSet
      <3> QED
        BY <1>1, <2>2, <3>1, <3>2 DEF Within
    <2>3. env \subseteq {"stale_release", "orphans"} => "register_again" \notin env
      OBVIOUS
    <2> QED
      BY <2>1, <2>2, <2>3 DEF NothingLeaked, Bytes
  <1> QED
    BY <1>2, <1>3 DEF Space, SameSpace

\* Two resident objects have no byte in common.
LEMMA ResidentsApart ==
  ASSUME Space, Tabled, NEW id \in Objects, NEW other \in Objects, Resident(id), Resident(other), id # other
  PROVE  \/ table[id].at + RoundUp(table[id].size) <= table[other].at
         \/ table[other].at + RoundUp(table[other].size) <= table[id].at
  <1>1. id \in ResidentSet /\ other \in ResidentSet
    BY DEF ResidentSet
  <1> QED
    BY <1>1 DEF Space, ResidentApart, Beyond

\* Evicting gives the object's bytes back, and only those.
LEMMA EvictSpace ==
  ASSUME Space, Tabled, NEW id \in Objects, NEW entry, Evict(id, entry), UNCHANGED env, ~Resident(id)'
  PROVE  Space'
  <1> USE ManagerAssumption
  <1> DEFINE at == table[id].at - Base
             len == RoundUp(table[id].size)
  <1>1. Resident(id) /\ Len(free) < Holes
    BY DEF Evict, Evictable
  <1>2. /\ len \in Nat \ {0} /\ at \in Nat /\ at + len <= Capacity /\ ClearOf(free, at, len)
        /\ table[id].at \in Nat
    BY <1>1, ResidentObject
  <1>3. free' = Give(free, at, len) /\ used' = used - len /\ table' = [table EXCEPT ![id] = entry]
    BY DEF Evict
  <1>4. free \in Seq(Hole) /\ WellFormed(free, Capacity) /\ used \in 0 .. Capacity /\ Len(free) \in Nat
    BY DEF Space
  <1> HIDE DEF at, len
  <1>5. \A b \in Int : at <= b /\ b < at + len => ~Covers(free, b)
    BY <1>2 DEF ClearOf
  <1>6. /\ free' \in Seq(Hole) /\ Len(free') <= Len(free) + 1 /\ WellFormed(free', Capacity)
        /\ \A b \in Int : Covers(free', b) <=> Covers(free, b) \/ (at <= b /\ b < at + len)
    BY <1>2, <1>3, <1>4, <1>5, GiveKeeps
  <1>7. Cardinality(NotFree(free', Capacity)) = Cardinality(NotFree(free, Capacity)) - len
    BY <1>2, <1>3, <1>4, <1>5, GiveCounts
  <1>8. used' = Cardinality(NotFree(free', Capacity)) /\ used' \in 0 .. Capacity
    <2>1. used = Cardinality(NotFree(free, Capacity))
      BY DEF Space, NothingLeaked, NotFree, Region, Bytes
    <2>2. NotFree(free', Capacity) \in SUBSET Region(Capacity)
      BY DEF NotFree
    <2>3. Cardinality(NotFree(free', Capacity)) \in 0 .. Capacity
      BY <2>2, BytesFinite
    <2> QED
      BY <1>3, <1>7, <2>1, <2>3
  <1>9. Len(free') <= Holes
    BY <1>1, <1>4, <1>6
  <1>10. ASSUME NEW other \in Objects, Resident(other)'
         PROVE  other # id /\ Resident(other) /\ table'[other] = table[other]
    <2>1. other # id
      BY <1>10
    <2>2. table'[other] = table[other]
      BY <1>3, <2>1 DEF Tabled
    <2> QED
      BY <1>10, <2>1, <2>2 DEF Resident, Entry
  <1>11. ASSUME NEW other \in Objects, Resident(other)'
         PROVE  /\ Base <= table'[other].at /\ Beyond(other)' <= Base + Capacity
                /\ \A i \in DOMAIN free' :
                     Beyond(other)' <= Base + free'[i].at \/ Base + End(free'[i]) <= table'[other].at
    <2> DEFINE o == table[other].at - Base
               n == RoundUp(table[other].size)
    <2>1. Resident(other) /\ other # id /\ table'[other] = table[other]
      BY <1>10, <1>11
    <2>2. /\ n \in Nat \ {0} /\ o \in Nat /\ o + n <= Capacity /\ ClearOf(free, o, n)
          /\ table[other].at \in Nat
      BY <2>1, ResidentObject
    <2>3. table[id].at + len <= table[other].at \/ table[other].at + n <= table[id].at
      BY <1>1, <2>1, ResidentsApart DEF len
    <2>4. ClearOf(free', o, n)
      <3> SUFFICES ASSUME NEW b \in Int, o <= b, b < o + n
                   PROVE  ~Covers(free', b)
        BY DEF ClearOf
      <3>1. ~Covers(free, b)
        BY <2>2 DEF ClearOf
      <3>2. ~(at <= b /\ b < at + len)
        BY <1>2, <2>2, <2>3 DEF at
      <3> QED
        BY <1>6, <3>1, <3>2
    <2>5. Beyond(other)' = table[other].at + n /\ table'[other].at = table[other].at
      BY <2>1 DEF Beyond
    <2>6. \A i \in 1 .. Len(free') : o + n <= free'[i].at \/ End(free'[i]) <= o
      <3> HIDE DEF o, n
      <3> QED
        BY <1>6, <2>2, <2>4, ClearIsApart
    <2>7. ASSUME NEW i \in DOMAIN free'
          PROVE  table[other].at + n <= Base + free'[i].at \/ Base + End(free'[i]) <= table[other].at
      <3>1. i \in 1 .. Len(free')
        BY <1>6
      <3>2. free'[i].at \in Nat /\ End(free'[i]) \in Nat
        BY <1>6, <3>1, HoleOf
      <3>3. o + n <= free'[i].at \/ End(free'[i]) <= o
        BY <2>6, <3>1
      <3> QED
        BY <2>2, <3>2, <3>3
    <2> QED
      BY <2>2, <2>5, <2>7
  <1>12. ResidentApart'
    <2>1. ASSUME NEW x \in Objects, NEW y \in Objects, Resident(x)', Resident(y)', x # y
          PROVE  Beyond(x)' <= table'[y].at \/ Beyond(y)' <= table'[x].at
      BY <1>10, <2>1, ResidentsApart DEF Beyond
    <2> QED
      BY <1>11, <2>1 DEF ResidentApart, ResidentSet
  <1>13. NothingLeaked'
    <2>1. ASSUME env \subseteq {"stale_release", "orphans"}, NEW b \in Bytes
          PROVE  Covers(free', b) \/ \E o \in Objects : Resident(o)' /\ Within(b, o)'
      <3>1. b \in Int
        BY DEF Bytes
      <3>2. CASE Covers(free, b)
        BY <1>6, <3>1, <3>2
      <3>3. ASSUME NEW o \in Objects, Resident(o), Within(b, o)
            PROVE  Covers(free', b) \/ (Resident(o)' /\ Within(b, o)')
        <4>1. CASE o = id
          <5>1. at <= b /\ b < at + len
            BY <1>2, <3>1, <3>3, <4>1 DEF Within, Beyond, at, len
          <5>2. Covers(free', b)
            BY <1>6, <3>1, <5>1
          <5> QED
            BY <5>2
        <4>2. CASE o # id
          <5>1. table'[o] = table[o]
            BY <1>3, <4>2 DEF Tabled
          <5> QED
            BY <3>3, <5>1 DEF Resident, Entry, Within, Beyond
        <4> QED
          BY <4>1, <4>2
      <3> QED
        BY <2>1, <3>2, <3>3 DEF Space, NothingLeaked
    <2> QED
      BY <1>8, <2>1 DEF NothingLeaked, NotFree, Region, Bytes
  <1> QED
    BY <1>6, <1>8, <1>9, <1>12, <1>13 DEF Space

\* Placing takes free bytes, and they are the object's, or, where the read
\* fails, nobody's.
LEMMA PlaceSpace ==
  ASSUME Space, Tabled, NEW id \in Objects, Entry(id), ~Resident(id), UNCHANGED env,
         NEW i, i = FirstFit(free, RoundUp(table[id].size)), i # 0,
         free' = Take(free, i, RoundUp(table[id].size)),
         used' = used + RoundUp(table[id].size),
         \/ /\ table' \in [Objects -> {NoMeta} \cup Meta]
            /\ \A o \in Objects : o # id => table'[o] = table[o]
            /\ table'[id].at = Base + free[i].at /\ table'[id].size = table[id].size /\ Entry(id)'
         \/ UNCHANGED table /\ "read_fails" \in env
  PROVE  Space'
  <1> USE ManagerAssumption
  <1> DEFINE at == free[i].at
             len == RoundUp(table[id].size)
  <1>1. free \in Seq(Hole) /\ WellFormed(free, Capacity) /\ used \in 0 .. Capacity /\ Len(free) <= Holes
    BY DEF Space
  <1>2. len \in Nat \ {0}
    BY EntryObject
  <1>3. i \in 1 .. Len(free) /\ free[i].len >= len
    <2> HIDE DEF len
    <2> QED
      BY <1>1, <1>2, FirstFitValue DEF len
  <1>4. at \in Nat /\ free[i].len \in Nat /\ at + len <= Capacity
    <2>1. at \in Nat /\ free[i].len \in Nat
      BY <1>1, <1>3, HoleOf
    <2>2. End(free[i]) <= Capacity
      BY <1>1, <1>3 DEF WellFormed
    <2> QED
      BY <1>2, <1>3, <2>1, <2>2 DEF End
  <1>5. \A b \in Int : at <= b /\ b < at + len => Covers(free, b)
    BY <1>2, <1>3, <1>4 DEF Covers, End
  <1>6. /\ free' \in Seq(Hole) /\ Len(free') <= Len(free) /\ WellFormed(free', Capacity)
        /\ \A b \in Int : Covers(free', b) <=> Covers(free, b) /\ ~(at <= b /\ b < at + len)
    BY <1>1, <1>2, <1>3, TakeKeeps
  <1>7. Cardinality(NotFree(free', Capacity)) = Cardinality(NotFree(free, Capacity)) + len
    BY <1>1, <1>2, <1>3, TakeCounts
  <1>8. used' = Cardinality(NotFree(free', Capacity)) /\ used' \in 0 .. Capacity
    <2>1. used = Cardinality(NotFree(free, Capacity))
      BY DEF Space, NothingLeaked, NotFree, Region, Bytes
    <2>2. NotFree(free', Capacity) \in SUBSET Region(Capacity)
      BY DEF NotFree
    <2>3. Cardinality(NotFree(free', Capacity)) \in 0 .. Capacity
      BY <2>2, BytesFinite
    <2> QED
      BY <1>7, <2>1, <2>3
  <1>9. Len(free') <= Holes
    BY <1>1, <1>6
  <1> HIDE DEF at, len
  \* What the invariant needs of a resident object that was so before.
  <1>10. ASSUME NEW other \in Objects, other # id, Resident(other)'
         PROVE  Resident(other) /\ table'[other] = table[other]
    BY <1>10 DEF Resident, Entry
  <1>11. ASSUME NEW o \in Nat, NEW n \in Nat \ {0}, ClearOf(free', o, n), NEW j \in DOMAIN free'
         PROVE  (Base + o) + n <= Base + free'[j].at \/ Base + End(free'[j]) <= Base + o
    <2>1. j \in 1 .. Len(free')
      BY <1>6
    <2>2. o + n <= free'[j].at \/ End(free'[j]) <= o
      BY <1>6, <1>11, <2>1, ClearIsApart
    <2>3. free'[j].at \in Nat /\ End(free'[j]) \in Nat
      BY <1>6, <2>1, HoleOf
    <2> QED
      BY <2>2, <2>3
  <1>12. ASSUME NEW other \in Objects, other # id, Resident(other)'
         PROVE  /\ Base <= table'[other].at /\ Beyond(other)' <= Base + Capacity
                /\ \A j \in DOMAIN free' :
                     Beyond(other)' <= Base + free'[j].at \/ Base + End(free'[j]) <= table'[other].at
                /\ at + len <= table'[other].at - Base \/ Beyond(other)' - Base <= at
    <2> DEFINE o == table[other].at - Base
               n == RoundUp(table[other].size)
    <2>1. Resident(other) /\ table'[other] = table[other]
      BY <1>10, <1>12
    <2>2. /\ n \in Nat \ {0} /\ o \in Nat /\ o + n <= Capacity /\ ClearOf(free, o, n)
          /\ table[other].at \in Nat
      BY <2>1, ResidentObject
    <2>3. ClearOf(free', o, n)
      BY <1>6, <2>2 DEF ClearOf
    <2>4. Beyond(other)' = table[other].at + n /\ table'[other].at = table[other].at
          /\ table[other].at = Base + o
      BY <2>1, <2>2 DEF Beyond
    <2>5. at + len <= o \/ o + n <= at
      <3>1. \A b \in Nat : ~(at <= b /\ b < at + len /\ o <= b /\ b < o + n)
        BY <1>5, <2>2 DEF ClearOf
      <3> HIDE DEF o, n
      <3> QED
        BY <1>2, <1>4, <2>2, <3>1, ApartFromBytes
    <2> HIDE DEF o, n
    <2>6. \A j \in DOMAIN free' :
             (Base + o) + n <= Base + free'[j].at \/ Base + End(free'[j]) <= Base + o
      BY <1>11, <2>2, <2>3
    <2> QED
      BY <1>2, <1>4, <2>2, <2>4, <2>5, <2>6
  <1>13. ASSUME Resident(id)'
         PROVE  /\ table'[id].at = Base + at /\ Beyond(id)' = Base + at + len
                /\ \A j \in DOMAIN free' :
                     Beyond(id)' <= Base + free'[j].at \/ Base + End(free'[j]) <= table'[id].at
    <2>1. table'[id].at = Base + at /\ table'[id].size = table[id].size
      BY <1>13 DEF Resident, Entry, at
    <2>2. ClearOf(free', at, len)
      BY <1>6 DEF ClearOf
    <2>3. Beyond(id)' = Base + at + len
      BY <2>1 DEF Beyond, len
    <2>4. \A j \in DOMAIN free' :
            (Base + at) + len <= Base + free'[j].at \/ Base + End(free'[j]) <= Base + at
      BY <1>2, <1>4, <1>11, <2>2
    <2> QED
      BY <2>1, <2>3, <2>4
  <1>14. ResidentApart'
    <2>1. ASSUME NEW x \in Objects, Resident(x)'
          PROVE  /\ Base <= table'[x].at /\ Beyond(x)' <= Base + Capacity
                 /\ \A j \in DOMAIN free' :
                      Beyond(x)' <= Base + free'[j].at \/ Base + End(free'[j]) <= table'[x].at
      <3>1. CASE x # id
        BY <1>12, <2>1, <3>1
      <3>2. CASE x = id
        BY <1>2, <1>4, <1>13, <2>1, <3>2
      <3> QED
        BY <3>1, <3>2
    <2>2. ASSUME NEW x \in Objects, x # id, Resident(x)', Resident(id)'
          PROVE  Beyond(x)' <= table'[id].at \/ Beyond(id)' <= table'[x].at
      <3>1. Resident(x) /\ table'[x] = table[x]
        BY <1>10, <2>2
      <3>2. table[x].at \in Nat /\ RoundUp(table[x].size) \in Nat
        BY <3>1, ResidentObject
      <3>3. Beyond(x)' \in Nat /\ table'[x].at \in Nat
        BY <3>1, <3>2 DEF Beyond
      <3> QED
        BY <1>2, <1>4, <1>12, <1>13, <2>2, <3>3
    <2>3. ASSUME NEW x \in Objects, NEW y \in Objects, Resident(x)', Resident(y)', x # y, x # id, y # id
          PROVE  Beyond(x)' <= table'[y].at \/ Beyond(y)' <= table'[x].at
      BY <1>10, <2>3, ResidentsApart DEF Beyond
    <2> QED
      BY <2>1, <2>2, <2>3 DEF ResidentApart, ResidentSet
  <1>15. NothingLeaked'
    <2>1. ASSUME env \subseteq {"stale_release", "orphans"}, NEW b \in Bytes
          PROVE  Covers(free', b) \/ \E o \in Objects : Resident(o)' /\ Within(b, o)'
      <3>1. b \in Int
        BY DEF Bytes
      <3>2. /\ \A o \in Objects : o # id => table'[o] = table[o]
            /\ table'[id].at = Base + at /\ table'[id].size = table[id].size /\ Entry(id)'
        BY <2>1 DEF at
      <3>3. CASE Covers(free, b) /\ ~(at <= b /\ b < at + len)
        BY <1>6, <3>1, <3>3
      <3>4. CASE at <= b /\ b < at + len
        <4>1. Resident(id)'
          BY <1>4, <3>2 DEF Resident
        <4>2. Within(b, id)'
          BY <1>2, <1>4, <3>1, <3>2, <3>4 DEF Within, Beyond, len
        <4> QED
          BY <4>1, <4>2
      <3>5. ASSUME NEW o \in Objects, Resident(o), Within(b, o)
            PROVE  Resident(o)' /\ Within(b, o)'
        <4>1. o # id
          BY <3>5
        <4>2. table'[o] = table[o]
          BY <3>2, <4>1
        <4> QED
          BY <3>5, <4>2 DEF Resident, Entry, Within, Beyond
      <3>6. Covers(free, b) \/ \E o \in Objects : Resident(o) /\ Within(b, o)
        BY <2>1 DEF Space, NothingLeaked
      <3> QED
        BY <3>3, <3>4, <3>5, <3>6
    <2> QED
      BY <1>8, <2>1 DEF NothingLeaked, NotFree, Region, Bytes
  <1> QED
    BY <1>6, <1>8, <1>9, <1>14, <1>15 DEF Space

-----------------------------------------------------------------------------
(* The table and the leases: a step writes the entry of one object. *)

\* Only the entry of id is written, with e.
Writes(id, e) ==
  /\ table'[id] = e
  /\ \A o \in Objects : o # id =>
       /\ table'[o] = table[o]
       /\ Entry(o)' <=> Entry(o)
       /\ Resident(o)' <=> Resident(o)

LEMMA WriteKeeps ==
  ASSUME Tabled, NEW id \in Objects, NEW e, table' = [table EXCEPT ![id] = e],
         e = NoMeta \/ (e \in Meta /\ e.size # 0)
  PROVE  Tabled' /\ Writes(id, e)
  <1>1. table'[id] = e /\ \A o \in Objects : o # id => table'[o] = table[o]
    BY DEF Tabled
  <1>2. \A o \in Objects : o # id => (Entry(o)' <=> Entry(o)) /\ (Resident(o)' <=> Resident(o))
    BY <1>1 DEF Entry, Resident
  <1>3. table' \in [Objects -> {NoMeta} \cup Meta]
    BY DEF Tabled
  <1>4. \A o \in Objects : Entry(o)' => table'[o].size # 0
    BY <1>1, <1>2 DEF Tabled, Entry
  <1> QED
    BY <1>1, <1>2, <1>3, <1>4 DEF Tabled, Writes

\* ShareExact, of one object.
ShareOf(id) ==
  Entry(id) =>
    IF Resident(id) /\ env \cap {"stale_release", "register_again"} = {}
    THEN table[id].share = claims[id].valid ELSE table[id].share <= claims[id].valid

\* What Leased says of one object, in numbers.
LEMMA LeasesOfOne ==
  ASSUME Leased, Tabled, NEW id \in Objects
  PROVE  /\ claims[id] \in [valid : Nat, stale : Nat]
         /\ claims[id].valid \in Nat /\ claims[id].stale \in Nat
         /\ claims[id].valid + claims[id].stale <= MaxClaims
         /\ LeasesOf(id) /\ ShareOf(id)
         /\ Entry(id) => table[id].share \in Nat /\ table[id].share <= claims[id].valid
  <1>1. /\ claims[id] \in [valid : Nat, stale : Nat] /\ LeasesOf(id) /\ ShareOf(id)
    BY DEF Leased, ShareExact, ShareOf
  <1>2. claims[id].valid \in Nat /\ claims[id].stale \in Nat
    BY <1>1
  <1>3. Entry(id) => table[id].share \in Nat
    BY EntryObject, ManagerAssumption
  <1>4. Entry(id) => table[id].share <= claims[id].valid
    BY <1>1, <1>2, <1>3 DEF ShareOf
  <1> QED
    BY <1>1, <1>2, <1>3, <1>4 DEF LeasesOf

\* A step that writes one entry and its leases keeps Leased if it does so there.
LEMMA LeasesKept ==
  ASSUME Leased, NEW id \in Objects, NEW e, Writes(id, e), UNCHANGED env,
         claims' \in [Objects -> [valid : Nat, stale : Nat]],
         \A o \in Objects : o # id => claims'[o] = claims[o],
         LeasesOf(id)', ShareOf(id)'
  PROVE  Leased'
  <1>1. ASSUME NEW o \in Objects, o # id
        PROVE  LeasesOf(o)' /\ ShareOf(o)'
    <2>1. /\ claims'[o] = claims[o] /\ table'[o] = table[o] /\ env' = env
          /\ (Entry(o)' <=> Entry(o)) /\ (Resident(o)' <=> Resident(o))
      BY <1>1 DEF Writes
    <2>2. LeasesOf(o) /\ ShareOf(o)
      BY DEF Leased, ShareExact, ShareOf
    <2>3. LeasesOf(o)'
      BY <2>1, <2>2 DEF LeasesOf
    <2>4. ShareOf(o)'
      BY <2>1, <2>2 DEF ShareOf
    <2> QED
      BY <2>3, <2>4
  <1>2. \A o \in Objects : LeasesOf(o)' /\ ShareOf(o)'
    BY <1>1
  <1> QED
    BY <1>2 DEF Leased, ShareExact, ShareOf

LEMMA LeasesSame ==
  ASSUME Leased, UNCHANGED <<table, claims, env>>
  PROVE  Leased'
  BY DEF Leased, LeasesOf, ShareExact, Entry, Resident

\* An object's leases when it stops being resident, or was not and is gone.
LEMMA VoidedLeases ==
  ASSUME Leased, Tabled, NEW id \in Objects, NEW e, Writes(id, e), UNCHANGED env,
         claims' = [claims EXCEPT ![id] = Void(id)], ~Resident(id)', Entry(id)' => table'[id].share = 0
  PROVE  Leased'
  <1>1. /\ claims[id].valid \in Nat /\ claims[id].stale \in Nat
        /\ claims[id].valid + claims[id].stale <= MaxClaims /\ LeasesOf(id)
    BY LeasesOfOne
  <1>2. /\ Void(id) \in [valid : Nat, stale : Nat] /\ Void(id).valid = 0
        /\ Void(id).stale = IF "stale_release" \in env THEN claims[id].stale + claims[id].valid ELSE 0
    BY <1>1 DEF Void
  <1>3. claims \in [Objects -> [valid : Nat, stale : Nat]]
    BY DEF Leased
  <1>4. /\ claims' \in [Objects -> [valid : Nat, stale : Nat]] /\ claims'[id] = Void(id)
        /\ \A o \in Objects : o # id => claims'[o] = claims[o]
    BY <1>2, <1>3
  <1>5. LeasesOf(id)'
    BY <1>1, <1>2, <1>4, ManagerAssumption DEF LeasesOf
  <1>6. ShareOf(id)'
    BY <1>2, <1>4 DEF ShareOf
  <1> QED
    BY <1>4, <1>5, <1>6, LeasesKept

LEMMA WeightValue ==
  ASSUME NEW lease
  PROVE  Weight(lease) \in {0, 1}
  BY DEF Weight

-----------------------------------------------------------------------------
(* The actions, one by one. *)

USE ManagerAssumption, MaxIdAssumption

LEMMA NotWorking ==
  ASSUME job.phase = "room" \/ job.phase = "place", Working
  PROVE  FaultJob
  BY DEF Working, Idle, DestroyJob

LEMMA NotFaulting ==
  ASSUME job.phase = "destroy", Working
  PROVE  DestroyJob
  BY DEF Working, Idle, FaultJob

\* A step of an idle manager that starts no job.
LEMMA StaysIdle ==
  ASSUME job = Idle, UNCHANGED job
  PROVE  Working'
  BY DEF Working

LEMMA AttachKeeps ==
  ASSUME IInv, NEW p \in Providers, Attach(p)
  PROVE  IInv'
  <1>1. UNCHANGED <<table, free, used, sessions, counted, env, job, claims>> /\ job = Idle
    BY DEF Attach
  <1>2. Space'
    BY <1>1, SameSpaceKeeps DEF IInv, SameSpace, Resident, Entry
  <1>3. Leased'
    BY <1>1, LeasesSame DEF IInv
  <1>4. Working'
    BY <1>1, StaysIdle
  <1>5. Rest'
    BY <1>1 DEF IInv, Rest, Attach
  <1> QED
    BY <1>1, <1>2, <1>3, <1>4, <1>5
    DEF IInv, Tabled, Accounts, CeilingKept, NoOrphans, Entry, LiveIn, Known

LEMMA RegisterKeeps ==
  ASSUME IInv, NEW id \in Objects, NEW template \in Meta,
         template.size # 0, template.at = 0, template.share = 0, Register(id, template)
  PROVE  IInv'
  <1>1. /\ UNCHANGED <<free, used, sessions, counted, attached, env, job, claims>> /\ job = Idle
        /\ Entry(id) => "register_again" \in env
        /\ table' = [table EXCEPT ![id] = template]
        /\ template.owner = 0 \/ Known(sessions, template.owner) \/ "orphans" \in env
    BY DEF Register
  <1>2. template \in Meta /\ template.size # 0 /\ template.at = 0 /\ template.share = 0
    OBVIOUS
  <1>3. Tabled' /\ Writes(id, template)
    BY <1>1, <1>2, WriteKeeps DEF IInv
  <1>4. ~Resident(id)' /\ table'[id] = template
    BY <1>2, <1>3 DEF Writes, Resident
  <1>5. Space'
    <2>1. SameSpace
      <3> SUFFICES ASSUME NEW o \in Objects
                   PROVE  /\ Resident(o)' => Resident(o) /\ table'[o].at = table[o].at /\ table'[o].size = table[o].size
                          /\ Resident(o) /\ "register_again" \notin env => Resident(o)'
        BY <1>1 DEF SameSpace
      <3>1. CASE o = id
        BY <1>1, <1>4, <3>1 DEF Resident
      <3>2. CASE o # id
        BY <1>3, <3>2 DEF Writes
      <3> QED
        BY <3>1, <3>2
    <2> QED
      BY <2>1, SameSpaceKeeps DEF IInv
  <1>6. Leased'
    <2>1. /\ claims[id].valid \in Nat /\ LeasesOf(id) /\ claims' = claims /\ env' = env
          /\ claims[id].valid + claims[id].stale <= MaxClaims
      BY <1>1, LeasesOfOne DEF IInv
    <2>2. "register_again" \notin env => ~Resident(id)
      BY <1>1 DEF Resident
    <2>3. LeasesOf(id)'
      BY <1>2, <1>4, <2>1, <2>2 DEF LeasesOf
    <2>4. ShareOf(id)'
      BY <1>2, <1>4, <2>1 DEF ShareOf
    <2>5. claims' \in [Objects -> [valid : Nat, stale : Nat]] /\ \A o \in Objects : claims'[o] = claims[o]
      BY <2>1 DEF IInv, Leased
    <2> QED
      BY <1>1, <1>3, <2>3, <2>4, <2>5, LeasesKept DEF IInv
  <1>7. NoOrphans'
    <2> SUFFICES ASSUME "orphans" \notin env, NEW o \in Objects, Entry(o)', table'[o].owner # 0
                 PROVE  Known(sessions, table'[o].owner)
      BY <1>1 DEF NoOrphans, Known
    <2>1. CASE o = id
      BY <1>1, <1>4, <2>1
    <2>2. CASE o # id
      BY <1>3, <2>2 DEF IInv, NoOrphans, Writes
    <2> QED
      BY <2>1, <2>2
  <1>8. Working'
    BY <1>1, StaysIdle
  <1> QED
    BY <1>1, <1>3, <1>5, <1>6, <1>7, <1>8 DEF IInv, Accounts, CeilingKept, Rest, LiveIn

\* The same objects are resident, of the same sizes and owners.
SameResidents ==
  \A id \in Objects :
    /\ Resident(id)' <=> Resident(id)
    /\ Resident(id) => table'[id].size = table[id].size /\ table'[id].owner = table[id].owner

LEMMA HitKeeps ==
  ASSUME IInv, job = Idle, NEW id \in Objects, NEW lease, NEW once \in BOOLEAN,
         ~once => MayClaim(id, lease), Hit(id, lease, once)
  PROVE  IInv' /\ SameResidents
  <1> DEFINE w == Weight(lease)
             share == table[id].share
             raised == SatAdd(share, w)
             after == IF once THEN SatSub(raised, w) ELSE raised
             e == [table[id] EXCEPT !.share = after]
  <1>1. /\ UNCHANGED <<free, used, sessions, counted, attached, env, job>> /\ Resident(id) /\ Entry(id)
        /\ table' = [table EXCEPT ![id].share = after]
        /\ claims' = IF once THEN claims ELSE [claims EXCEPT ![id].valid = @ + w]
    BY DEF Hit, Resident
  <1>2. w \in {0, 1}
    BY WeightValue
  <1>3. /\ claims[id].valid \in Nat /\ claims[id].stale \in Nat /\ claims[id] \in [valid : Nat, stale : Nat]
        /\ claims[id].valid + claims[id].stale <= MaxClaims /\ LeasesOf(id) /\ ShareOf(id)
        /\ share \in Nat /\ share <= claims[id].valid
    BY <1>1, LeasesOfOne DEF IInv
  <1>4. ~once => claims[id].valid + claims[id].stale + w <= MaxClaims
    BY DEF MayClaim
  <1> HIDE DEF w
  <1>5. raised = share + w
    <2>1. share + w <= ShareMax /\ share + w \in Nat
      BY <1>2, <1>3, <1>4
    <2> HIDE DEF share
    <2> QED
      BY <2>1, MinOfTwo DEF SatAdd
  <1>6. after = IF once THEN share ELSE share + w
    BY <1>2, <1>3, <1>5 DEF SatSub
  <1>7. after \in 0 .. ShareMax
    BY <1>2, <1>3, <1>4, <1>6
  <1>8. table[id] \in Meta /\ table[id].size # 0
    BY <1>1, EntryObject DEF IInv
  <1> HIDE DEF after
  <1>9. /\ e \in Meta /\ e.size = table[id].size /\ e.at = table[id].at /\ e.share = after
        /\ e.owner = table[id].owner
    BY <1>7, <1>8 DEF Meta
  <1>10. table' = [table EXCEPT ![id] = e]
    BY <1>1
  <1> HIDE DEF e
  <1>11. Tabled' /\ Writes(id, e)
    BY <1>8, <1>9, <1>10, WriteKeeps DEF IInv
  <1>12. table'[id] = e
    BY <1>11 DEF Writes
  <1>13. Resident(id)'
    <2>1. e # NoMeta
      BY <1>8, <1>9 DEF NoMeta
    <2> QED
      BY <1>1, <1>9, <1>12, <2>1 DEF Resident, Entry
  <1>14. Space'
    <2>1. ASSUME NEW o \in Objects
          PROVE  /\ Resident(o)' => Resident(o) /\ table'[o].at = table[o].at /\ table'[o].size = table[o].size
                 /\ Resident(o) => Resident(o)'
      <3>1. CASE o = id
        BY <1>1, <1>9, <1>12, <1>13, <3>1
      <3>2. CASE o # id
        BY <1>11, <3>2 DEF Writes
      <3> QED
        BY <3>1, <3>2
    <2> QED
      BY <1>1, <2>1, SameSpaceKeeps DEF IInv, SameSpace
  <1>15. Leased'
    <2> DEFINE new == IF once THEN claims[id].valid ELSE claims[id].valid + w
    <2>1. /\ claims' \in [Objects -> [valid : Nat, stale : Nat]]
          /\ \A o \in Objects : o # id => claims'[o] = claims[o]
          /\ claims'[id].valid = new /\ claims'[id].stale = claims[id].stale
      <3>0. claims \in [Objects -> [valid : Nat, stale : Nat]]
        BY DEF IInv, Leased
      <3>1. CASE once
        BY <1>1, <3>0, <3>1
      <3>2. CASE ~once
        <4> DEFINE c == [claims[id] EXCEPT !.valid = new]
        <4>1. new \in Nat
          BY <1>2, <1>3
        <4>2. claims' = [claims EXCEPT ![id] = c]
          BY <1>1, <3>2
        <4>3. c \in [valid : Nat, stale : Nat] /\ c.valid = new /\ c.stale = claims[id].stale
          BY <1>3, <4>1
        <4> HIDE DEF c, new
        <4> QED
          BY <3>0, <4>2, <4>3
      <3> QED
        BY <3>1, <3>2
    <2>2. new + claims[id].stale <= MaxClaims
      BY <1>2, <1>3, <1>4
    <2>3. claims'[id] \in [valid : Nat, stale : Nat]
      BY <2>1
    <2>4. LeasesOf(id)'
      BY <1>1, <1>3, <1>13, <2>1, <2>2, <2>3 DEF LeasesOf
    <2>5. ShareOf(id)'
      BY <1>1, <1>2, <1>3, <1>6, <1>9, <1>12, <1>13, <2>1 DEF ShareOf
    <2> QED
      BY <1>1, <1>11, <2>1, <2>4, <2>5, LeasesKept DEF IInv
  <1>16. NoOrphans'
    <2> SUFFICES ASSUME "orphans" \notin env, NEW o \in Objects, Entry(o)', table'[o].owner # 0
                 PROVE  Known(sessions, table'[o].owner)
      BY <1>1 DEF NoOrphans, Known
    <2>1. Entry(o) /\ table'[o].owner = table[o].owner
      BY <1>1, <1>9, <1>11, <1>12 DEF Writes
    <2> QED
      BY <2>1 DEF IInv, NoOrphans
  <1>17. Working'
    BY <1>1, StaysIdle
  <1>18. SameResidents
    BY <1>1, <1>9, <1>11, <1>12, <1>13 DEF SameResidents, Writes
  <1> QED
    BY <1>1, <1>11, <1>14, <1>15, <1>16, <1>17, <1>18 DEF IInv, Accounts, CeilingKept, Rest, LiveIn

\* CeilingKept and Capped are the same formula.
LEMMA CappedIsKept == CeilingKept <=> Capped(sessions)
  BY DEF CeilingKept, Capped

\* A step that charges or credits an owner, and touches nothing of the table.
LEMMA SessionsStep ==
  ASSUME Accounts, NoOrphans, NEW owner, UNCHANGED <<table, env>>,
         OnlyResident(sessions, sessions', owner), Capped(sessions) => Capped(sessions')
  PROVE  Accounts' /\ NoOrphans'
  <1>1. CeilingKept'
    BY CappedIsKept DEF Accounts, CeilingKept, Capped
  <1>2. Accounts'
    BY <1>1 DEF Accounts, OnlyResident
  <1>3. NoOrphans'
    BY DEF NoOrphans, OnlyResident, Entry
  <1> QED
    BY <1>2, <1>3

LEMMA MissKeeps ==
  ASSUME IInv, job = Idle, NEW id \in Objects, NEW lease \in LeaseKinds, NEW once \in BOOLEAN,
         ~once => MayClaim(id, lease), Miss(id, lease, once)
  PROVE  IInv'
  <1>1. /\ UNCHANGED <<table, free, used, counted, attached, env, claims>> /\ Entry(id) /\ ~Resident(id)
        /\ job' = Fault("room", id, lease, once, FALSE)
        /\ sessions' = Charge(sessions, table[id].owner, table[id].size, table[id].precision)
        /\ Chargeable(sessions, table[id].owner, table[id].size)
    BY DEF Miss
  <1>2. table[id].size \in Nat /\ table[id].precision \in Precision
    BY <1>1, EntryObject DEF IInv
  <1>3. sessions \in [SessionIds -> Session]
    BY DEF IInv, Accounts
  <1>4. OnlyResident(sessions, sessions', table[id].owner) /\ (Capped(sessions) => Capped(sessions'))
    BY <1>1, <1>2, <1>3, ChargeKeeps
  <1>5. Accounts' /\ NoOrphans'
    BY <1>1, <1>4, SessionsStep DEF IInv
  <1>6. Working'
    BY <1>1 DEF Working, FaultJob, Fault, MayClaim, Entry, Resident
  <1>7. Space'
    BY <1>1, SameSpaceKeeps DEF IInv, SameSpace, Resident, Entry
  <1>8. Leased'
    BY <1>1, LeasesSame DEF IInv
  <1> QED
    BY <1>1, <1>5, <1>6, <1>7, <1>8 DEF IInv, Tabled, Rest, Entry

LEMMA AcquireKeeps ==
  ASSUME IInv, NEW id \in Objects, NEW lease \in Leases, Acquire(id, lease)
  PROVE  IInv'
  <1>1. lease \in LeaseKinds
    BY DEF LeaseKinds
  <1>2. job = Idle /\ MayClaim(id, lease) /\ (Hit(id, lease, FALSE) \/ Miss(id, lease, FALSE))
    BY DEF Acquire
  <1> QED
    BY <1>1, <1>2, HitKeeps, MissKeeps

LEMMA ConsumeKeeps ==
  ASSUME IInv, NEW id \in Objects, Consume(id)
  PROVE  IInv'
  <1>1. "Streaming" \in LeaseKinds
    BY DEF LeaseKinds
  <1>2. job = Idle /\ (Hit(id, "Streaming", TRUE) \/ Miss(id, "Streaming", TRUE))
    BY DEF Consume
  <1> QED
    BY <1>1, <1>2, HitKeeps, MissKeeps

\* Evicting, whatever the entry becomes: everything but the job.
LEMMA EvictKeeps ==
  ASSUME IInv, NEW id \in Objects, NEW entry, Evict(id, entry), entry = Home(id) \/ entry = NoMeta,
         UNCHANGED <<attached, env>>
  PROVE  Space' /\ Tabled' /\ Accounts' /\ Leased' /\ Rest' /\ NoOrphans' /\ Writes(id, entry) /\ Resident(id)
  <1>1. /\ Resident(id) /\ Entry(id)
        /\ table' = [table EXCEPT ![id] = entry]
        /\ claims' = [claims EXCEPT ![id] = Void(id)]
        /\ counted' = SatSub(counted, table[id].size)
        /\ sessions' = Credit(sessions, table[id].owner, table[id].size)
    BY DEF Evict, Resident
  <1>2. table[id] \in Meta /\ table[id].size \in Nat \ {0}
    BY <1>1, EntryObject DEF IInv
  <1>3. entry = NoMeta \/ (entry \in Meta /\ entry.size # 0 /\ entry.at = 0 /\ entry.share = 0
                           /\ entry.owner = table[id].owner)
    <2>1. CASE entry = Home(id)
      <3> DEFINE m == table[id]
                 home == m.home
      <3>1. home \in Tier
        BY <1>2 DEF Meta
      <3>2. entry = [m EXCEPT !.at = 0, !.share = 0, !.tier = home]
        BY <2>1 DEF Home
      <3> HIDE DEF home, m
      <3>3. m \in Meta /\ m.size # 0 /\ m = table[id]
        BY <1>2 DEF m
      <3>4. entry \in Meta
        <4>1. 0 \in 0 .. ShareMax /\ 0 \in Nat
          OBVIOUS
        <4> QED
          BY <3>1, <3>2, <3>3, <4>1 DEF Meta
      <3>5. entry.size # 0 /\ entry.at = 0 /\ entry.share = 0 /\ entry.owner = m.owner
        BY <3>2, <3>3 DEF Meta
      <3> QED
        BY <3>3, <3>4, <3>5
    <2>2. CASE entry = NoMeta
      BY <2>2
    <2> QED
      BY <2>1, <2>2
  <1>4. Tabled' /\ Writes(id, entry)
    BY <1>1, <1>3, WriteKeeps DEF IInv
  <1>5. table'[id] = entry /\ ~Resident(id)' /\ (Entry(id)' => table'[id].share = 0)
    BY <1>3, <1>4 DEF Writes, Resident, Entry
  <1>6. Space'
    BY <1>5, EvictSpace DEF IInv
  <1>7. Leased'
    BY <1>1, <1>4, <1>5, VoidedLeases DEF IInv
  <1>8. OnlyResident(sessions, sessions', table[id].owner) /\ (Capped(sessions) => Capped(sessions'))
    <2>1. sessions \in [SessionIds -> Session]
      BY DEF IInv, Accounts
    <2> QED
      BY <1>1, <1>2, <2>1, CreditKeeps
  <1>9. Accounts'
    BY <1>8, CappedIsKept DEF IInv, Accounts, CeilingKept, Capped, OnlyResident
  <1>10. NoOrphans'
    <2> SUFFICES ASSUME "orphans" \notin env, NEW o \in Objects, Entry(o)', table'[o].owner # 0
                 PROVE  Known(sessions', table'[o].owner)
      BY DEF NoOrphans
    <2>1. Entry(o) /\ table'[o].owner = table[o].owner
      BY <1>1, <1>3, <1>4, <1>5 DEF Writes, Entry
    <2> QED
      BY <1>8, <2>1 DEF IInv, NoOrphans, OnlyResident
  <1>11. Rest'
    BY <1>1, <1>2 DEF IInv, Rest, SatSub
  <1> QED
    BY <1>1, <1>4, <1>6, <1>7, <1>9, <1>10, <1>11

LEMMA EvictOneKeeps ==
  ASSUME IInv, NEW id \in Objects, EvictOne(id)
  PROVE  IInv'
  <1>1. job = Idle /\ Evict(id, Home(id)) /\ UNCHANGED <<attached, env, job>>
    BY DEF EvictOne
  <1>2. Space' /\ Tabled' /\ Accounts' /\ Leased' /\ Rest' /\ NoOrphans'
    BY <1>1, EvictKeeps
  <1>3. Working'
    BY <1>1, StaysIdle
  <1> QED
    BY <1>2, <1>3 DEF IInv

\* The victim is resident and what is being faulted in is not.
LEMMA EvictVictimKeeps ==
  ASSUME IInv, NEW victim \in Objects, EvictVictim(victim)
  PROVE  IInv'
  <1>1. job.phase = "room" /\ Evict(victim, Home(victim)) /\ UNCHANGED <<attached, env, job>>
    BY DEF EvictVictim
  <1>2. /\ Space' /\ Tabled' /\ Accounts' /\ Leased' /\ Rest' /\ NoOrphans'
        /\ Writes(victim, Home(victim)) /\ Resident(victim)
    BY <1>1, EvictKeeps
  <1>3. FaultJob
    BY <1>1, NotWorking DEF IInv
  <1>4. job.id \in Objects /\ job.id # victim
    BY <1>2, <1>3 DEF FaultJob
  <1>5. claims'[job.id] = claims[job.id]
    <2>1. claims' = [claims EXCEPT ![victim] = Void(victim)]
      BY <1>1 DEF Evict
    <2>2. claims \in [Objects -> [valid : Nat, stale : Nat]]
      BY DEF IInv, Leased
    <2> QED
      BY <1>4, <2>1, <2>2
  <1>6. table'[job.id] = table[job.id]
    BY <1>2, <1>4 DEF Writes
  <1>7. FaultJob'
    BY <1>1, <1>3, <1>5, <1>6 DEF FaultJob, MayClaim, Entry, Resident
  <1> QED
    BY <1>2, <1>7 DEF IInv, Working

\* The table, the arena, the accounts and the leases are as they were.
LEMMA OnlyJob ==
  ASSUME IInv, UNCHANGED <<table, free, used, sessions, counted, attached, env, claims>>, Working'
  PROVE  IInv'
  <1>1. Space'
    BY SameSpaceKeeps DEF IInv, SameSpace, Resident, Entry
  <1>2. Leased'
    BY LeasesSame DEF IInv
  <1> QED
    BY <1>1, <1>2 DEF IInv, Tabled, Accounts, CeilingKept, Rest, NoOrphans, Entry, LiveIn, Known

LEMMA RoomKeeps ==
  ASSUME IInv, RoomFound \/ StopEvicting
  PROVE  IInv'
  <1>1. /\ UNCHANGED <<table, free, used, sessions, counted, attached, env, claims>>
        /\ job.phase = "room"
        /\ \/ job' = [job EXCEPT !.phase = "place", !.fits = TRUE]
           \/ job' = [job EXCEPT !.phase = "place"]
    BY DEF RoomFound, StopEvicting
  <1>2. FaultJob
    BY <1>1, NotWorking DEF IInv
  <1>3. /\ job' \in [phase : {"room", "place"}, id : Objects, lease : LeaseKinds,
                     once : BOOLEAN, fits : BOOLEAN]
        /\ job'.id = job.id /\ job'.lease = job.lease /\ job'.once = job.once
    <2>1. job \in [phase : {"room", "place"}, id : Objects, lease : LeaseKinds,
                   once : BOOLEAN, fits : BOOLEAN]
      BY <1>2 DEF FaultJob
    <2>2. CASE job' = [job EXCEPT !.phase = "place", !.fits = TRUE]
      BY <2>1, <2>2
    <2>3. CASE job' = [job EXCEPT !.phase = "place"]
      BY <2>1, <2>3
    <2> QED
      BY <1>1, <2>2, <2>3
  <1>4. FaultJob'
    BY <1>1, <1>2, <1>3 DEF FaultJob, MayClaim, Entry, Resident
  <1> QED
    BY <1>1, <1>4, OnlyJob DEF Working

LEMMA NotPlacedKeeps ==
  ASSUME IInv, NotPlaced
  PROVE  IInv'
  <1>1. /\ UNCHANGED <<table, free, used, counted, attached, env, claims>> /\ job.phase = "place"
        /\ job' = Idle
        /\ sessions' = Credit(sessions, table[job.id].owner, table[job.id].size)
    BY DEF NotPlaced
  <1>2. FaultJob
    BY <1>1, NotWorking DEF IInv
  <1>3. table[job.id].size \in Nat
    BY <1>2, EntryObject DEF IInv, FaultJob
  <1>4. OnlyResident(sessions, sessions', table[job.id].owner) /\ (Capped(sessions) => Capped(sessions'))
    <2>1. sessions \in [SessionIds -> Session]
      BY DEF IInv, Accounts
    <2> QED
      BY <1>1, <1>3, <2>1, CreditKeeps
  <1>5. Accounts' /\ NoOrphans'
    BY <1>1, <1>4, SessionsStep DEF IInv
  <1>6. Space'
    BY <1>1, SameSpaceKeeps DEF IInv, SameSpace, Resident, Entry
  <1>7. Leased'
    BY <1>1, LeasesSame DEF IInv
  <1> QED
    BY <1>1, <1>5, <1>6, <1>7 DEF IInv, Working, Tabled, Rest, Entry

\* What placing writes into the table.
LEMMA PlacedWrites ==
  ASSUME IInv, FaultJob, NEW id \in Objects, id = job.id, NEW i, free[i].at \in Nat,
         table' = [table EXCEPT ![id] =
                     [table[id] EXCEPT !.at = Base + free[i].at, !.tier = "Warm",
                                       !.share = IF job.once THEN 0 ELSE Weight(job.lease)]]
  PROVE  /\ Tabled' /\ Writes(id, table'[id]) /\ Entry(id)' /\ Resident(id)'
         /\ table'[id].at = Base + free[i].at /\ table'[id].size = table[id].size
         /\ table'[id].owner = table[id].owner
         /\ table'[id].share = IF job.once THEN 0 ELSE Weight(job.lease)
  <1> DEFINE share == IF job.once THEN 0 ELSE Weight(job.lease)
             home == Base + free[i].at
             e == [table[id] EXCEPT !.at = home, !.tier = "Warm", !.share = share]
  <1>1. table[id] \in Meta /\ table[id].size # 0
    BY EntryObject DEF IInv, FaultJob
  <1>2. share \in 0 .. ShareMax /\ home \in Nat \ {0}
    <2>1. Weight(job.lease) \in {0, 1} /\ job.once \in BOOLEAN
      BY WeightValue DEF FaultJob
    <2> QED
      BY <2>1
  <1>3. table' = [table EXCEPT ![id] = e]
    OBVIOUS
  <1> HIDE DEF home, share
  <1>4. /\ e \in Meta /\ e.size = table[id].size /\ e.at = home /\ e.share = share
        /\ e.owner = table[id].owner
    BY <1>1, <1>2 DEF Meta, Tier
  <1> HIDE DEF e
  <1>5. Tabled' /\ Writes(id, e)
    BY <1>1, <1>3, <1>4, WriteKeeps DEF IInv
  <1>6. e # NoMeta /\ table'[id] = e
    BY <1>1, <1>4, <1>5 DEF NoMeta, Writes
  <1>7. Entry(id)' /\ Resident(id)'
    BY <1>2, <1>4, <1>6 DEF Entry, Resident
  <1> QED
    BY <1>4, <1>5, <1>6, <1>7 DEF home, share

LEMMA PlacedKeeps ==
  ASSUME IInv, Placed
  PROVE  IInv'
  <1>0. job.phase = "place" /\ FaultJob
    BY NotWorking DEF IInv, Placed
  <1>a. PICK id \in Objects : id = job.id
    BY <1>0 DEF FaultJob
  <1> DEFINE want == RoundUp(table[id].size)
             i == FirstFit(free, want)
             w == Weight(job.lease)
             e == [table[id] EXCEPT !.at = Base + free[i].at, !.tier = "Warm",
                                    !.share = IF job.once THEN 0 ELSE w]
  <1>1. /\ i # 0 /\ free' = Take(free, i, want) /\ used' = used + want
        /\ job' = Idle /\ UNCHANGED <<attached, env>>
    BY <1>a DEF Placed
  <1>2. FaultJob /\ Entry(id) /\ ~Resident(id) /\ job.once \in BOOLEAN
    BY <1>0, <1>a DEF FaultJob
  <1>3. table[id] \in Meta /\ table[id].size \in Nat \ {0} /\ want \in Nat \ {0}
    BY <1>2, EntryObject DEF IInv
  <1>4. i \in 1 .. Len(free) /\ free[i].at \in Nat
    <2>1. free \in Seq(Hole)
      BY DEF IInv, Space
    <2>2. i \in 1 .. Len(free)
      <3> HIDE DEF want
      <3>1. i = 0 \/ i \in 1 .. Len(free)
        BY <1>3, <2>1, FirstFitValue
      <3> QED
        BY <1>1, <3>1
    <2> QED
      BY <2>1, <2>2, HoleOf
  <1>5. w \in {0, 1}
    BY WeightValue
  <1>6. Working'
    BY <1>1 DEF Working
  <1>7. CASE /\ counted' = counted + table[id].size
             /\ table' = [table EXCEPT ![id] = e]
             /\ claims' = IF job.once THEN claims ELSE [claims EXCEPT ![id].valid = @ + w]
             /\ UNCHANGED sessions
    <2> HIDE DEF i, w, want
    <2>3. /\ Tabled' /\ Writes(id, table'[id]) /\ Entry(id)' /\ Resident(id)'
          /\ table'[id].at = Base + free[i].at /\ table'[id].size = table[id].size
          /\ table'[id].owner = table[id].owner
          /\ table'[id].share = IF job.once THEN 0 ELSE Weight(job.lease)
      BY <1>2, <1>4, <1>7, <1>a, PlacedWrites DEF w
    <2>4. Tabled' /\ Writes(id, table'[id]) /\ Entry(id)' /\ Resident(id)'
      BY <2>3
    <2>5. /\ table'[id].at = Base + free[i].at /\ table'[id].size = table[id].size
          /\ table'[id].owner = table[id].owner
          /\ table'[id].share = IF job.once THEN 0 ELSE w
      BY <2>3 DEF w
    <2>6. Space'
      <3>1. /\ table' \in [Objects -> {NoMeta} \cup Meta]
            /\ \A o \in Objects : o # id => table'[o] = table[o]
            /\ table'[id].at = Base + free[i].at /\ table'[id].size = table[id].size
        BY <2>4, <2>5 DEF Tabled, Writes
      <3>2. /\ free' = Take(free, i, RoundUp(table[id].size)) /\ used' = used + RoundUp(table[id].size)
            /\ i = FirstFit(free, RoundUp(table[id].size)) /\ i # 0 /\ env' = env
        BY <1>1 DEF i, want
      <3> QED
        BY <1>2, <2>4, <3>1, <3>2, PlaceSpace DEF IInv
    <2>7. Leased'
      <3>1. /\ claims[id].valid \in Nat /\ claims[id].stale \in Nat /\ claims[id] \in [valid : Nat, stale : Nat]
            /\ claims[id].valid + claims[id].stale <= MaxClaims /\ LeasesOf(id)
        BY <1>2, LeasesOfOne DEF IInv
      <3>2. ~job.once => claims[id].valid + claims[id].stale + w <= MaxClaims
        BY <1>2, <1>a DEF FaultJob, MayClaim, w
      <3>3. "register_again" \notin env => claims[id].valid = 0
        BY <1>2, <3>1 DEF LeasesOf
      <3> DEFINE new == IF job.once THEN claims[id].valid ELSE claims[id].valid + w
      <3>4. /\ claims' \in [Objects -> [valid : Nat, stale : Nat]]
            /\ \A o \in Objects : o # id => claims'[o] = claims[o]
            /\ claims'[id].valid = new /\ claims'[id].stale = claims[id].stale
        <4>0. claims \in [Objects -> [valid : Nat, stale : Nat]]
          BY DEF IInv, Leased
        <4>1. CASE job.once
          BY <1>7, <4>0, <4>1
        <4>2. CASE ~job.once
          <5> DEFINE c == [claims[id] EXCEPT !.valid = new]
          <5>1. new \in Nat
            BY <1>5, <3>1
          <5>2. claims' = [claims EXCEPT ![id] = c]
            BY <1>7, <4>2
          <5>3. c \in [valid : Nat, stale : Nat] /\ c.valid = new /\ c.stale = claims[id].stale
            BY <3>1, <5>1
          <5> HIDE DEF c, new
          <5> QED
            BY <1>2, <4>0, <5>2, <5>3
        <4> QED
          BY <1>2, <4>1, <4>2
      <3>5. new + claims[id].stale <= MaxClaims
        BY <1>5, <3>1, <3>2
      <3>6. claims'[id] \in [valid : Nat, stale : Nat]
        BY <1>2, <3>4
      <3>7. LeasesOf(id)'
        BY <1>1, <2>4, <3>1, <3>4, <3>5, <3>6 DEF LeasesOf
      <3>8. ShareOf(id)'
        BY <1>1, <1>2, <1>5, <2>4, <2>5, <3>1, <3>3, <3>4 DEF ShareOf
      <3> QED
        BY <1>1, <1>2, <2>4, <3>4, <3>7, <3>8, LeasesKept DEF IInv
    <2>8. NoOrphans'
      <3> SUFFICES ASSUME "orphans" \notin env, NEW o \in Objects, Entry(o)', table'[o].owner # 0
                   PROVE  Known(sessions, table'[o].owner)
        BY <1>1, <1>7 DEF NoOrphans, Known
      <3>1. Entry(o) /\ table'[o].owner = table[o].owner
        BY <1>2, <2>4, <2>5 DEF Writes
      <3> QED
        BY <3>1 DEF IInv, NoOrphans
    <2>9. Rest'
      BY <1>1, <1>3, <1>7 DEF IInv, Rest
    <2>10. Accounts'
      BY <1>7 DEF IInv, Accounts, CeilingKept, LiveIn
    <2> QED
      BY <1>6, <2>4, <2>6, <2>7, <2>8, <2>9, <2>10 DEF IInv
  <1>8. CASE /\ "read_fails" \in env
             /\ sessions' = Credit(sessions, table[id].owner, table[id].size)
             /\ UNCHANGED <<counted, table, claims>>
    <2>1. OnlyResident(sessions, sessions', table[id].owner) /\ (Capped(sessions) => Capped(sessions'))
      <3>1. sessions \in [SessionIds -> Session]
        BY DEF IInv, Accounts
      <3> QED
        BY <1>3, <1>8, <3>1, CreditKeeps
    <2>2. Accounts' /\ NoOrphans'
      BY <1>1, <1>8, <2>1, SessionsStep DEF IInv
    <2>3. Space'
      BY <1>1, <1>2, <1>8, PlaceSpace DEF IInv
    <2>4. Leased'
      BY <1>1, <1>8, LeasesSame DEF IInv
    <2> QED
      BY <1>1, <1>6, <1>8, <2>2, <2>3, <2>4 DEF IInv, Tabled, Rest, Entry
  <1> QED
    BY <1>7, <1>8, <1>a DEF Placed

LEMMA ReleaseKeeps ==
  ASSUME IInv, NEW id \in Objects, Release(id)
  PROVE  IInv' /\ SameResidents
  <1> DEFINE e == Lowered(id)
  <1>1. /\ UNCHANGED <<free, used, sessions, counted, attached, env, job>> /\ job = Idle /\ Entry(id)
        /\ table' = [table EXCEPT ![id] = e]
    BY DEF Release
  <1>2. /\ table[id] \in Meta /\ table[id].size # 0 /\ table[id].share \in 0 .. ShareMax
    BY <1>1, EntryObject DEF IInv
  <1>3. /\ e \in Meta /\ e.size = table[id].size /\ e.at = table[id].at /\ e.owner = table[id].owner
        /\ e.share = IF Resident(id) THEN SatSub(table[id].share, 1) ELSE table[id].share
    <2> DEFINE m == table[id]
               less == SatSub(m.share, 1)
    <2>1. less \in 0 .. ShareMax
      BY <1>2 DEF SatSub
    <2>2. CASE Resident(id)
      <3>1. e = [m EXCEPT !.share = less]
        BY <2>2 DEF Lowered
      <3> HIDE DEF m, less, e
      <3>2. m \in Meta
        BY <1>2 DEF m
      <3>3. e \in Meta /\ e.size = m.size /\ e.at = m.at /\ e.owner = m.owner /\ e.share = less
        BY <2>1, <3>1, <3>2 DEF Meta
      <3> QED
        BY <2>2, <3>3 DEF m, less
    <2>3. CASE ~Resident(id)
      BY <1>2, <2>3 DEF Lowered
    <2> QED
      BY <2>2, <2>3
  <1> HIDE DEF e
  <1>4. Tabled' /\ Writes(id, e)
    BY <1>1, <1>2, <1>3, WriteKeeps DEF IInv
  <1>5. table'[id] = e /\ Entry(id)' /\ (Resident(id)' <=> Resident(id))
    <2>1. e # NoMeta
      BY <1>2, <1>3 DEF NoMeta
    <2> QED
      BY <1>1, <1>3, <1>4, <2>1 DEF Writes, Entry, Resident
  <1>6. Space'
    <2>1. ASSUME NEW o \in Objects
          PROVE  /\ Resident(o)' => Resident(o) /\ table'[o].at = table[o].at /\ table'[o].size = table[o].size
                 /\ Resident(o) => Resident(o)'
      <3>1. CASE o = id
        BY <1>3, <1>5, <3>1
      <3>2. CASE o # id
        BY <1>4, <3>2 DEF Writes
      <3> QED
        BY <3>1, <3>2
    <2> QED
      BY <1>1, <2>1, SameSpaceKeeps DEF IInv, SameSpace
  <1>7. Leased'
    <2> DEFINE v == claims[id].valid
               s == claims[id].stale
    <2>1. /\ v \in Nat /\ s \in Nat /\ claims[id] \in [valid : Nat, stale : Nat]
          /\ v + s <= MaxClaims /\ LeasesOf(id) /\ ShareOf(id)
          /\ table[id].share \in Nat /\ table[id].share <= v
      BY <1>1, LeasesOfOne DEF IInv
    <2>2. claims \in [Objects -> [valid : Nat, stale : Nat]]
      BY DEF IInv, Leased
    <2>3. CASE v > 0 /\ claims' = [claims EXCEPT ![id].valid = @ - 1]
      <3> DEFINE c == [claims[id] EXCEPT !.valid = v - 1]
      <3>1. claims' = [claims EXCEPT ![id] = c]
        BY <2>3
      <3>2. v - 1 \in Nat
        BY <2>1, <2>3
      <3>3. c \in [valid : Nat, stale : Nat] /\ c.valid = v - 1 /\ c.stale = s
        BY <2>1, <3>2
      <3> HIDE DEF c
      <3>4. /\ claims' \in [Objects -> [valid : Nat, stale : Nat]] /\ claims'[id] = c
            /\ \A o \in Objects : o # id => claims'[o] = claims[o]
        BY <2>2, <3>1, <3>3
      <3>5. LeasesOf(id)'
        BY <1>1, <1>3, <1>5, <2>1, <2>3, <3>3, <3>4 DEF LeasesOf
      <3>6. ShareOf(id)'
        BY <1>1, <1>3, <1>5, <2>1, <2>3, <3>3, <3>4 DEF ShareOf, LeasesOf, SatSub
      <3> QED
        BY <1>1, <1>4, <3>4, <3>5, <3>6, LeasesKept DEF IInv
    <2>4. CASE s > 0 /\ claims' = [claims EXCEPT ![id].stale = @ - 1]
      <3> DEFINE c == [claims[id] EXCEPT !.stale = s - 1]
      <3>1. claims' = [claims EXCEPT ![id] = c]
        BY <2>4
      <3>2. s - 1 \in Nat
        BY <2>1, <2>4
      <3>3. c \in [valid : Nat, stale : Nat] /\ c.valid = v /\ c.stale = s - 1
        BY <2>1, <3>2
      <3> HIDE DEF c
      <3>4. /\ claims' \in [Objects -> [valid : Nat, stale : Nat]] /\ claims'[id] = c
            /\ \A o \in Objects : o # id => claims'[o] = claims[o]
        BY <2>2, <3>1, <3>3
      <3>5. "stale_release" \in env
        BY <2>1, <2>4 DEF LeasesOf
      <3>6. LeasesOf(id)'
        BY <1>1, <1>3, <1>5, <2>1, <2>4, <3>3, <3>4, <3>5 DEF LeasesOf
      <3>7. ShareOf(id)'
        BY <1>1, <1>3, <1>5, <2>1, <2>4, <3>3, <3>4, <3>5 DEF ShareOf, SatSub
      <3> QED
        BY <1>1, <1>4, <3>4, <3>6, <3>7, LeasesKept DEF IInv
    <2> QED
      BY <2>3, <2>4 DEF Release
  <1>8. NoOrphans'
    <2> SUFFICES ASSUME "orphans" \notin env, NEW o \in Objects, Entry(o)', table'[o].owner # 0
                 PROVE  Known(sessions, table'[o].owner)
      BY <1>1 DEF NoOrphans, Known
    <2>1. Entry(o) /\ table'[o].owner = table[o].owner
      BY <1>1, <1>3, <1>4, <1>5 DEF Writes
    <2> QED
      BY <2>1 DEF IInv, NoOrphans
  <1>9. Working'
    BY <1>1, StaysIdle
  <1>10. SameResidents
    BY <1>1, <1>3, <1>4, <1>5 DEF SameResidents, Writes
  <1> QED
    BY <1>1, <1>4, <1>6, <1>7, <1>8, <1>9, <1>10 DEF IInv, Accounts, CeilingKept, Rest, LiveIn

\* A step that makes a session of an id that has none.
LEMMA AdoptStep ==
  ASSUME IInv, job = Idle, NEW s \in SessionIds, NEW contract \in Contracts,
         sessions' = Adopt(sessions, s, contract),
         UNCHANGED <<table, free, used, counted, attached, env, job, claims>>
  PROVE  IInv'
  <1>1. sessions \in [SessionIds -> Session] /\ contract \in Contract /\ Capped(sessions)
    BY CappedIsKept DEF IInv, Accounts
  <1>2. /\ sessions' \in [SessionIds -> Session] /\ Capped(sessions')
        /\ \A r : Known(sessions', r) <=> Known(sessions, r) \/ r = s
    BY <1>1, AdoptKeeps
  <1>3. Accounts'
    BY <1>2 DEF Accounts, CeilingKept, Capped
  <1>4. NoOrphans'
    BY <1>2 DEF IInv, NoOrphans, Entry
  <1>5. Space'
    BY SameSpaceKeeps DEF IInv, SameSpace, Resident, Entry
  <1>6. Leased'
    BY LeasesSame DEF IInv
  <1>7. Working'
    BY StaysIdle
  <1> QED
    BY <1>3, <1>4, <1>5, <1>6, <1>7 DEF IInv, Tabled, Rest, Entry

LEMMA SessionKeeps ==
  ASSUME IInv, NEW contract \in Contracts,
         CreateSession(contract) \/ \E s \in SessionIds : AdoptSession(s, contract)
  PROVE  IInv'
  <1>1. ASSUME CreateSession(contract)
        PROVE  IInv'
    <2>1. LowestFree(sessions) \in SessionIds
      BY <1>1 DEF CreateSession, Adoptable
    <2> QED
      BY <1>1, <2>1, AdoptStep DEF CreateSession
  <1>2. ASSUME NEW s \in SessionIds, AdoptSession(s, contract)
        PROVE  IInv'
    BY <1>2, AdoptStep DEF AdoptSession
  <1> QED
    BY <1>1, <1>2

LEMMA DestroyJobTyped ==
  ASSUME NEW s \in 0 .. MaxId, NEW rest \in SUBSET SessionIds, job' = Destroy(s, rest, 0)
  PROVE  Working'
  BY DEF Working, DestroyJob, Destroy

LEMMA DestroyBegins ==
  ASSUME IInv, (\E s \in 0 .. MaxId : DestroySession(s)) \/ DestroyAllSessions
  PROVE  IInv'
  <1>1. UNCHANGED <<table, free, used, sessions, counted, attached, env, claims>>
    BY DEF DestroySession, DestroyAllSessions
  <1>2. Working'
    <2>1. ASSUME NEW s \in 0 .. MaxId, DestroySession(s)
          PROVE  Working'
      BY <2>1, DestroyJobTyped DEF DestroySession
    <2>2. ASSUME DestroyAllSessions
          PROVE  Working'
      <3>1. PICK s \in LiveIn(sessions) : job' = Destroy(s, LiveIn(sessions) \ {s}, 0)
        BY <2>2 DEF DestroyAllSessions
      <3>2. s \in 0 .. MaxId /\ LiveIn(sessions) \ {s} \in SUBSET SessionIds
        BY DEF LiveIn, SessionIds
      <3> QED
        BY <3>1, <3>2, DestroyJobTyped
    <2> QED
      BY <2>1, <2>2
  <1> QED
    BY <1>1, <1>2, OnlyJob

\* Where a destroy job goes once it is done with a session.
LEMMA DestroyNextTyped ==
  ASSUME DestroyJob, DestroyNext
  PROVE  Working'
  <1>1. job.rest \in SUBSET SessionIds
    BY DEF DestroyJob
  <1>2. CASE job.rest = {}
    BY <1>2 DEF DestroyNext, Working
  <1>3. CASE job.rest # {}
    <2>1. PICK s \in job.rest : job' = Destroy(s, job.rest \ {s}, 0)
      BY <1>3 DEF DestroyNext
    <2>2. s \in 0 .. MaxId /\ job.rest \ {s} \in SUBSET SessionIds
      BY <1>1 DEF SessionIds
    <2> QED
      BY <2>1, <2>2, DestroyJobTyped
  <1> QED
    BY <1>2, <1>3

LEMMA DestroyObjectKeeps ==
  ASSUME IInv, NEW id \in Objects, DestroyObject(id)
  PROVE  IInv'
  <1>1. job.phase = "destroy" /\ job' = [job EXCEPT !.gone = @ + 1] /\ UNCHANGED <<attached, env>> /\ Entry(id)
    BY DEF DestroyObject, Owned
  <1>2. Working'
    <2>1. job \in [phase : {"destroy"}, session : 0 .. MaxId, rest : SUBSET SessionIds, gone : Nat]
      BY <1>1, NotFaulting DEF IInv, DestroyJob
    <2>2. job.gone + 1 \in Nat
      BY <2>1
    <2>3. job' \in [phase : {"destroy"}, session : 0 .. MaxId, rest : SUBSET SessionIds, gone : Nat]
      BY <1>1, <2>1, <2>2
    <2> QED
      BY <2>3 DEF Working, DestroyJob
  <1>3. CASE Evict(id, NoMeta)
    <2>1. Space' /\ Tabled' /\ Accounts' /\ Leased' /\ Rest' /\ NoOrphans'
      BY <1>1, <1>3, EvictKeeps
    <2> QED
      BY <1>2, <2>1 DEF IInv
  <1>4. CASE /\ ~Resident(id)
             /\ table' = [table EXCEPT ![id] = NoMeta]
             /\ claims' = [claims EXCEPT ![id] = Void(id)]
             /\ UNCHANGED <<free, used, counted, sessions>>
    <2>1. Tabled' /\ Writes(id, NoMeta)
      BY <1>4, WriteKeeps DEF IInv
    <2>2. ~Entry(id)' /\ ~Resident(id)'
      BY <2>1 DEF Writes, Entry, Resident
    <2>3. Leased'
      BY <1>1, <1>4, <2>1, <2>2, VoidedLeases DEF IInv
    <2>4. Space'
      <3>1. ASSUME NEW o \in Objects
            PROVE  /\ Resident(o)' => Resident(o) /\ table'[o].at = table[o].at /\ table'[o].size = table[o].size
                   /\ Resident(o) => Resident(o)'
        <4>1. CASE o = id
          BY <1>4, <2>2, <4>1
        <4>2. CASE o # id
          BY <2>1, <4>2 DEF Writes
        <4> QED
          BY <4>1, <4>2
      <3> QED
        BY <1>1, <1>4, <3>1, SameSpaceKeeps DEF IInv, SameSpace
    <2>5. NoOrphans'
      <3> SUFFICES ASSUME "orphans" \notin env, NEW o \in Objects, Entry(o)', table'[o].owner # 0
                   PROVE  Known(sessions, table'[o].owner)
        BY <1>1, <1>4 DEF NoOrphans, Known
      <3>1. Entry(o) /\ table'[o] = table[o]
        BY <2>1, <2>2 DEF Writes
      <3> QED
        BY <3>1 DEF IInv, NoOrphans
    <2> QED
      BY <1>1, <1>2, <1>4, <2>1, <2>3, <2>4, <2>5 DEF IInv, Accounts, CeilingKept, Rest, LiveIn
  <1> QED
    BY <1>3, <1>4 DEF DestroyObject

LEMMA DestroyRefusedKeeps ==
  ASSUME IInv, DestroyRefused
  PROVE  IInv'
  <1>1. /\ UNCHANGED <<table, free, used, sessions, counted, attached, env, claims>>
        /\ job.phase = "destroy" /\ DestroyNext
    BY DEF DestroyRefused
  <1>2. Working'
    BY <1>1, NotFaulting, DestroyNextTyped DEF IInv
  <1> QED
    BY <1>1, <1>2, OnlyJob

\* A session is forgotten only when the table has no object of its own.
LEMMA DestroyDoneKeeps ==
  ASSUME IInv, DestroyDone
  PROVE  IInv'
  <1>1. /\ UNCHANGED <<table, free, used, counted, attached, env, claims>>
        /\ job.phase = "destroy" /\ DestroyNext /\ \A id \in Objects : ~Owned(id)
    BY DEF DestroyDone
  <1>2. Working'
    BY <1>1, NotFaulting, DestroyNextTyped DEF IInv
  <1>3. CASE ~Known(sessions, job.session)
    <2>1. sessions' = sessions
      BY <1>3 DEF DestroyDone
    <2> QED
      BY <1>1, <1>2, <2>1, OnlyJob
  <1>4. CASE Known(sessions, job.session)
    <2>1. sessions' = Forget(sessions, job.session) /\ job.session \in SessionIds
      BY <1>4 DEF DestroyDone, Known
    <2>2. sessions \in [SessionIds -> Session] /\ Capped(sessions)
      BY CappedIsKept DEF IInv, Accounts
    <2>3. /\ sessions' \in [SessionIds -> Session] /\ Capped(sessions')
          /\ \A r : Known(sessions', r) <=> Known(sessions, r) /\ r # job.session
      BY <2>1, <2>2, ForgetKeeps
    <2>4. Accounts'
      BY <2>3 DEF Accounts, CeilingKept, Capped
    <2>5. NoOrphans'
      <3> SUFFICES ASSUME "orphans" \notin env, NEW o \in Objects, Entry(o), table[o].owner # 0
                   PROVE  Known(sessions', table[o].owner)
        BY <1>1 DEF NoOrphans, Entry
      <3>1. Known(sessions, table[o].owner)
        BY DEF IInv, NoOrphans
      <3>2. job.session # 0
        BY <2>1 DEF SessionIds
      <3>3. table[o].owner # job.session
        BY <1>1, <3>2 DEF Owned
      <3> QED
        BY <2>3, <3>1, <3>3
    <2>6. Space'
      BY <1>1, SameSpaceKeeps DEF IInv, SameSpace, Resident, Entry
    <2>7. Leased'
      BY <1>1, LeasesSame DEF IInv
    <2> QED
      BY <1>1, <1>2, <2>4, <2>5, <2>6, <2>7 DEF IInv, Tabled, Rest, Entry
  <1> QED
    BY <1>3, <1>4

-----------------------------------------------------------------------------
(* The theorems. *)

\* At first the arena is one hole, the table is empty and nobody is there.
LEMMA InitSafe == Init => IInv
  <1> SUFFICES ASSUME Init PROVE IInv
    OBVIOUS
  <1> DEFINE h == [at |-> 0, len |-> Capacity]
  <1>1. /\ free = <<h>> /\ used = 0 /\ job = Idle /\ counted = 0 /\ attached = {} /\ env \in Envs
        /\ sessions = NoSessions
        /\ table = [id \in Objects |-> NoMeta]
        /\ claims = [id \in Objects |-> [valid |-> 0, stale |-> 0]]
    BY DEF Init
  <1>2. h \in Hole /\ h.at = 0 /\ h.len = Capacity /\ End(h) = Capacity
    BY NewHole
  <1> HIDE DEF h
  <1>3. free \in Seq(Hole) /\ Len(free) = 1 /\ free[1] = h
    BY <1>1, <1>2
  <1>4. \A id \in Objects : ~Entry(id) /\ ~Resident(id)
    BY <1>1 DEF Entry, Resident
  <1>5. Space
    <2>1. WellFormed(free, Capacity)
      BY <1>2, <1>3 DEF WellFormed
    <2>2. ResidentApart
      BY <1>4 DEF ResidentApart, ResidentSet
    <2>3. \A b \in Bytes : Covers(free, b)
      BY <1>2, <1>3 DEF Bytes, Covers
    <2>4. {b \in Bytes : ~Covers(free, b)} = {}
      BY <2>3
    <2>5. NothingLeaked
      BY <1>1, <2>3, <2>4, FS_EmptySet DEF NothingLeaked
    <2> QED
      BY <1>1, <1>3, <2>1, <2>2, <2>5 DEF Space
  <1>6. Tabled
    BY <1>1, <1>4 DEF Tabled
  <1>7. Accounts
    <2>1. \A s \in SessionIds : sessions[s].live = FALSE
      BY <1>1 DEF NoSessions, NoSession
    <2>2. CeilingKept
      BY <2>1 DEF CeilingKept, LiveIn
    <2> QED
      BY <1>1, <2>2 DEF Accounts, NoSessions, Session
  <1>8. Leased
    <2>1. \A id \in Objects : LeasesOf(id)
      BY <1>1, <1>4 DEF LeasesOf
    <2> QED
      BY <1>1, <1>4, <2>1 DEF Leased, ShareExact
  <1>9. Working /\ Rest
    BY <1>1 DEF Working, Rest
  <1>10. NoOrphans
    BY <1>4 DEF NoOrphans
  <1> QED
    BY <1>5, <1>6, <1>7, <1>8, <1>9, <1>10 DEF IInv

LEMMA StepSafe == IInv /\ [Next]_vars => IInv'
  <1> SUFFICES ASSUME IInv, [Next]_vars PROVE IInv'
    OBVIOUS
  <1>1. CASE JobStep
    BY <1>1, RoomKeeps, EvictVictimKeeps, NotPlacedKeeps, PlacedKeeps, DestroyRefusedKeeps,
       DestroyDoneKeeps, DestroyObjectKeeps DEF JobStep
  <1>2. ASSUME NEW p \in Providers, Attach(p) PROVE IInv'
    BY <1>2, AttachKeeps
  <1>3. ASSUME NEW id \in Objects, NEW template \in Templates[id], Register(id, template) PROVE IInv'
    BY <1>3, TemplatesAssumption, RegisterKeeps
  <1>4. ASSUME NEW id \in Objects, NEW lease \in Leases, Acquire(id, lease) PROVE IInv'
    BY <1>4, AcquireKeeps
  <1>5. ASSUME NEW id \in Objects, Consume(id) PROVE IInv'
    BY <1>5, ConsumeKeeps
  <1>6. ASSUME NEW id \in Objects, EvictOne(id) PROVE IInv'
    BY <1>6, EvictOneKeeps
  <1>7. ASSUME NEW id \in Objects, Release(id) PROVE IInv'
    BY <1>7, ReleaseKeeps
  <1>8. ASSUME NEW contract \in Contracts,
               CreateSession(contract) \/ \E s \in SessionIds : AdoptSession(s, contract)
        PROVE  IInv'
    BY <1>8, SessionKeeps
  <1>9. CASE (\E s \in 0 .. MaxId : DestroySession(s)) \/ DestroyAllSessions
    BY <1>9, DestroyBegins
  <1>10. CASE UNCHANGED vars
    <2>1. Working'
      BY <1>10 DEF vars, IInv, Working, FaultJob, DestroyJob, MayClaim, Entry, Resident
    <2> QED
      BY <1>10, <2>1, OnlyJob DEF vars
  <1> QED
    BY <1>1, <1>2, <1>3, <1>4, <1>5, <1>6, <1>7, <1>8, <1>9, <1>10 DEF Next

LEMMA ManagerInductive == Spec => []IInv
  BY InitSafe, StepSafe, PTL DEF Spec

\* The manager's records stay within their types: in particular the free list
\* never outgrows its array and `used` never passes the arena's size.
THEOREM ManagerTyped == Spec => []TypeOK
  <1>1. IInv => TypeOK
    <2> SUFFICES ASSUME IInv PROVE TypeOK
      OBVIOUS
    <2>1. claims \in [Objects -> [valid : 0 .. MaxClaims, stale : 0 .. MaxClaims]]
      <3>1. ASSUME NEW id \in Objects
            PROVE  claims[id] \in [valid : 0 .. MaxClaims, stale : 0 .. MaxClaims]
        <4>1. /\ claims[id] \in [valid : Nat, stale : Nat]
              /\ claims[id].valid \in 0 .. MaxClaims /\ claims[id].stale \in 0 .. MaxClaims
          <5>1. /\ claims[id] \in [valid : Nat, stale : Nat]
                /\ claims[id].valid \in Nat /\ claims[id].stale \in Nat
                /\ claims[id].valid + claims[id].stale <= MaxClaims
            BY LeasesOfOne DEF IInv
          <5> QED
            BY <5>1
        <4> QED
          BY <4>1
      <3> QED
        BY <3>1 DEF IInv, Leased
    <2> QED
      BY <2>1 DEF IInv, TypeOK, Space, Tabled, Accounts, Rest
  <1> QED
    BY <1>1, ManagerInductive, PTL

\* Whatever is faulted in, evicted, registered over or destroyed, in an arena
\* of any size: no two resident objects share a byte, and none lies on a byte
\* the arena would hand out.
THEOREM ResidentsNeverOverlap == Spec => []ResidentApart
  <1>1. IInv => ResidentApart
    BY DEF IInv, Space
  <1> QED
    BY <1>1, ManagerInductive, PTL

\* Arena::used is the bytes that are not free, and where reads succeed and no
\* id is registered twice each of those bytes is a resident object's.
THEOREM NoByteLost == Spec => []NothingLeaked
  <1>1. IInv => NothingLeaked
    BY DEF IInv, Space
  <1> QED
    BY <1>1, ManagerInductive, PTL

\* share_count is the number of counted leases on a resident object, through
\* hits, faults, consumes, releases and evictions.
THEOREM SharesCounted == Spec => []ShareExact
  <1>1. IInv => ShareExact
    BY DEF IInv, Leased
  <1> QED
    BY <1>1, ManagerInductive, PTL

\* No session passes its ceiling, not even between the charge of a fault and
\* the credit of the one that fails.
THEOREM SessionsUnderCeiling == Spec => []CeilingKept
  <1>1. IInv => CeilingKept
    BY DEF IInv, Accounts
  <1> QED
    BY <1>1, ManagerInductive, PTL

\* No object outlives its session, whatever refusals a destroy meets on the
\* way, where objects are registered to sessions that exist.
THEOREM ObjectsHaveOwners == Spec => []NoOrphans
  <1>1. IInv => NoOrphans
    BY DEF IInv
  <1> QED
    BY <1>1, ManagerInductive, PTL
-----------------------------------------------------------------------------
(* The accounts are exact: a second invariant, which needs the first. *)

OwnedSize(s) == SizeOf(OwnedBy(s))
AccountOf(s) == sessions[s].resident = OwnedSize(s) + Pending(s)

\* The sums of a state, before and after a step.
LEMMA ResidentSums ==
  /\ SizeOf(ResidentSet) = SizeSum(table, ResidentSet)
  /\ SizeOf(ResidentSet)' = SizeSum(table', ResidentSet')
  /\ \A s : OwnedSize(s) = SizeSum(table, OwnedBy(s)) /\ OwnedSize(s)' = SizeSum(table', OwnedBy(s)')
  <1>1. SizeOf(ResidentSet) = SizeSum(table, ResidentSet) /\ \A s : OwnedSize(s) = SizeSum(table, OwnedBy(s))
    BY DEF SizeOf, SizeSum, OwnedSize
  <1>2. SizeOf(ResidentSet)' = SizeSum(table', ResidentSet')
    BY DEF SizeOf, SizeSum, MapThenSumSet, MapThenFoldSet
  <1>3. \A s : OwnedSize(s)' = SizeSum(table', OwnedBy(s)')
    BY DEF SizeOf, SizeSum, MapThenSumSet, MapThenFoldSet, OwnedSize
  <1> QED
    BY <1>1, <1>2, <1>3

\* What there is to sum over is finite and has sizes.
LEMMA SumsTyped ==
  ASSUME IInv
  PROVE  /\ IsFiniteSet(ResidentSet) /\ SizeOf(ResidentSet) \in Nat
         /\ \A s : IsFiniteSet(OwnedBy(s)) /\ OwnedSize(s) \in Nat
         /\ \A id \in ResidentSet : table[id].size \in Nat
  <1>1. \A id \in ResidentSet : table[id].size \in Nat
    BY EntryObject DEF IInv, ResidentSet, Resident
  <1>2. ASSUME NEW S, S \subseteq ResidentSet
        PROVE  IsFiniteSet(S) /\ SizeOf(S) \in Nat
    <2>1. S \subseteq Objects
      BY <1>2 DEF ResidentSet
    <2>2. IsFiniteSet(S)
      BY <2>1, FS_Subset
    <2>3. \A y \in S : table[y].size \in Nat
      BY <1>1, <1>2
    <2>4. SizeSum(table, S) \in Nat
      BY <2>2, <2>3, SumWithout
    <2> QED
      BY <2>2, <2>4 DEF SizeSum, SizeOf
  <1>3. \A s : OwnedBy(s) \subseteq ResidentSet
    BY DEF OwnedBy
  <1> QED
    BY <1>1, <1>2, <1>3 DEF OwnedSize

LEMMA SumsSame ==
  ASSUME IInv, SameResidents
  PROVE  SizeOf(ResidentSet)' = SizeOf(ResidentSet) /\ \A s : OwnedSize(s)' = OwnedSize(s)
  <1>1. ResidentSet' = ResidentSet /\ \A s : OwnedBy(s)' = OwnedBy(s)
    BY DEF SameResidents, ResidentSet, OwnedBy
  <1>2. ASSUME NEW S, S \subseteq ResidentSet, IsFiniteSet(S)
        PROVE  SizeSum(table', S) = SizeSum(table, S)
    <2>1. SameSizes(table', table, S)
      BY <1>2 DEF SameSizes, SameResidents, ResidentSet
    <2> QED
      BY <1>2, <2>1, SumSame
  <1>3. SizeSum(table', ResidentSet) = SizeSum(table, ResidentSet)
    BY <1>2, SumsTyped
  <1>4. ASSUME NEW s
        PROVE  SizeSum(table', OwnedBy(s)) = SizeSum(table, OwnedBy(s))
    BY <1>2, SumsTyped DEF OwnedBy
  <1> QED
    BY <1>1, <1>3, <1>4, ResidentSums

\* An object leaves the arena.
LEMMA SumsWithout ==
  ASSUME IInv, NEW id \in Objects, NEW e, Writes(id, e), Resident(id), ~Resident(id)'
  PROVE  /\ SizeOf(ResidentSet)' \in Nat /\ SizeOf(ResidentSet) = SizeOf(ResidentSet)' + table[id].size
         /\ \A s : /\ OwnedSize(s)' \in Nat
                   /\ OwnedSize(s) = OwnedSize(s)' + IF table[id].owner = s THEN table[id].size ELSE 0
  <1>1. ResidentSet' = ResidentSet \ {id} /\ id \in ResidentSet
    BY DEF Writes, ResidentSet
  <1>2. ASSUME NEW S, S \subseteq ResidentSet, IsFiniteSet(S), id \in S
        PROVE  SizeSum(table', S \ {id}) \in Nat /\ SizeSum(table, S) = SizeSum(table', S \ {id}) + table[id].size
    <2>1. SameSizes(table, table', S \ {id})
      BY <1>2 DEF SameSizes, Writes, ResidentSet
    <2>2. HasSizes(table, S)
      BY <1>2, SumsTyped DEF HasSizes
    <2> QED
      BY <1>2, <2>1, <2>2, SumWithOne
  <1>3. SizeOf(ResidentSet)' \in Nat /\ SizeOf(ResidentSet) = SizeOf(ResidentSet)' + table[id].size
    <2>1. IsFiniteSet(ResidentSet)
      BY SumsTyped
    <2> QED
      BY <1>1, <1>2, <2>1, ResidentSums
  <1>4. ASSUME NEW s
        PROVE  /\ OwnedSize(s)' \in Nat
               /\ OwnedSize(s) = OwnedSize(s)' + IF table[id].owner = s THEN table[id].size ELSE 0
    <2>1. IsFiniteSet(OwnedBy(s)) /\ OwnedBy(s) \subseteq ResidentSet /\ OwnedSize(s) \in Nat
      BY SumsTyped DEF OwnedBy
    <2>2. OwnedBy(s)' = OwnedBy(s) \ {id}
      BY <1>1 DEF OwnedBy, Writes, ResidentSet
    <2>3. CASE table[id].owner = s
      <3>1. id \in OwnedBy(s)
        BY <1>1, <2>3 DEF OwnedBy
      <3> QED
        BY <1>2, <2>1, <2>2, <2>3, <3>1, ResidentSums
    <2>4. CASE table[id].owner # s
      <3>1. OwnedBy(s)' = OwnedBy(s)
        BY <2>2, <2>4 DEF OwnedBy
      <3>2. SameSizes(table', table, OwnedBy(s))
        BY <2>4 DEF SameSizes, OwnedBy, Writes, ResidentSet
      <3>3. SizeSum(table', OwnedBy(s)) = SizeSum(table, OwnedBy(s))
        BY <2>1, <3>2, SumSame
      <3>4. OwnedSize(s)' = OwnedSize(s)
        BY <3>1, <3>3, ResidentSums
      <3> QED
        BY <2>1, <2>4, <3>4
    <2> QED
      BY <2>3, <2>4
  <1> QED
    BY <1>3, <1>4

\* An object comes into the arena.
LEMMA SumsWith ==
  ASSUME IInv, IInv', NEW id \in Objects, NEW e, Writes(id, e), ~Resident(id), Resident(id)',
         table'[id].size = table[id].size, table'[id].owner = table[id].owner
  PROVE  /\ SizeOf(ResidentSet)' = SizeOf(ResidentSet) + table[id].size
         /\ \A s : OwnedSize(s)' = OwnedSize(s) + IF table[id].owner = s THEN table[id].size ELSE 0
  <1>1. ResidentSet = ResidentSet' \ {id} /\ id \in ResidentSet'
    BY DEF Writes, ResidentSet
  <1>0. /\ IsFiniteSet(ResidentSet') /\ \A y \in ResidentSet' : table'[y].size \in Nat
    <2>1. \A y \in ResidentSet' : table'[y].size \in Nat
      <3>1. \A y \in ResidentSet : table[y].size \in Nat
        BY SumsTyped
      <3>2. table[id].size \in Nat
        <4>1. Entry(id)' /\ Tabled'
          BY DEF Resident, IInv
        <4>2. table' \in [Objects -> {NoMeta} \cup Meta] /\ table'[id] # NoMeta
          BY <4>1 DEF Tabled, Entry
        <4> QED
          BY <4>2 DEF Meta
      <3> QED
        BY <1>1, <3>1, <3>2 DEF Writes, ResidentSet
    <2>2. IsFiniteSet(ResidentSet')
      BY FS_Subset DEF ResidentSet
    <2> QED
      BY <2>1, <2>2
  <1>2. ASSUME NEW S, S \subseteq ResidentSet', IsFiniteSet(S), id \in S
        PROVE  SizeSum(table', S) = SizeSum(table, S \ {id}) + table[id].size
    <2>1. SameSizes(table', table, S \ {id})
      BY <1>2 DEF SameSizes, Writes, ResidentSet
    <2>2. HasSizes(table', S)
      BY <1>0, <1>2 DEF HasSizes
    <2>3. PICK after, before : after = table' /\ before = table
      OBVIOUS
    <2>4. SizeSum(after, S) = SizeSum(before, S \ {id}) + after[id].size
      BY <1>2, <2>1, <2>2, <2>3, SumWithOne
    <2> QED
      BY <2>3, <2>4
  <1>3. SizeOf(ResidentSet)' = SizeOf(ResidentSet) + table[id].size
    BY <1>0, <1>1, <1>2, ResidentSums
  <1>4. ASSUME NEW s
        PROVE  OwnedSize(s)' = OwnedSize(s) + IF table[id].owner = s THEN table[id].size ELSE 0
    <2>1. IsFiniteSet(OwnedBy(s)') /\ OwnedBy(s)' \subseteq ResidentSet' /\ OwnedSize(s) \in Nat
      <3>1. OwnedBy(s)' \subseteq ResidentSet'
        BY DEF OwnedBy
      <3> QED
        BY <1>0, <3>1, SumsTyped, FS_Subset
    <2>2. OwnedBy(s) = OwnedBy(s)' \ {id}
      BY <1>1 DEF OwnedBy, Writes, ResidentSet
    <2>3. CASE table[id].owner = s
      <3>1. id \in OwnedBy(s)'
        BY <1>1, <2>3 DEF OwnedBy
      <3> QED
        BY <1>2, <2>1, <2>2, <2>3, <3>1, ResidentSums
    <2>4. CASE table[id].owner # s
      <3>1. OwnedBy(s)' = OwnedBy(s)
        BY <2>2, <2>4 DEF OwnedBy
      <3>2. SameSizes(table', table, OwnedBy(s))
        BY <1>1 DEF SameSizes, OwnedBy, Writes, ResidentSet
      <3>3. SizeSum(table', OwnedBy(s)) = SizeSum(table, OwnedBy(s))
        BY <3>2, SumSame, SumsTyped
      <3>4. OwnedSize(s)' = OwnedSize(s)
        BY <3>1, <3>3, ResidentSums
      <3> QED
        BY <2>1, <2>4, <3>4
    <2> QED
      BY <2>3, <2>4
  <1> QED
    BY <1>3, <1>4

\* No fault is in progress, and no charge is pending.
LEMMA NonePending ==
  ASSUME job.phase \notin {"room", "place"}
  PROVE  \A s : Pending(s) = 0
  BY DEF Pending

LEMMA Idles == Idle.phase \notin {"room", "place"}
  BY DEF Idle

\* The accounts that are sure to be exact, of the counter's and the sessions'.
Exact(sure) ==
  /\ "counter" \in sure => counted = SizeOf(ResidentSet)
  /\ "accounts" \in sure => \A s : Known(sessions, s) => AccountOf(s)

\* What a session known in an exact state holds.
LEMMA AccountKnown ==
  ASSUME NEW sure, Exact(sure), "accounts" \in sure, NEW s, Known(sessions, s)
  PROVE  AccountOf(s)
  BY DEF Exact

\* Exact after a step, session by session.
LEMMA AccountsAfter ==
  ASSUME NEW sure, Exact(sure), UNCHANGED env,
         "counter" \in sure => counted' = SizeOf(ResidentSet)',
         ASSUME NEW s, Known(sessions', s), "accounts" \in sure
         PROVE  AccountOf(s)'
  PROVE  Exact(sure)'
  BY DEF Exact

\* A step that changes nothing an account is about.
LEMMA AccountsFrame ==
  ASSUME IInv, NEW sure, Exact(sure), SameResidents, UNCHANGED <<sessions, counted, env>>,
         \A s : Pending(s)' = Pending(s)
  PROVE  Exact(sure)'
  <1>1. SizeOf(ResidentSet)' = SizeOf(ResidentSet) /\ \A s : OwnedSize(s)' = OwnedSize(s)
    BY SumsSame
  <1>2. "counter" \in sure => counted' = SizeOf(ResidentSet)'
    BY <1>1 DEF Exact
  <1>3. ASSUME NEW s, Known(sessions', s), "accounts" \in sure
        PROVE  AccountOf(s)'
    <2>1. AccountOf(s)
      BY <1>3, AccountKnown
    <2> QED
      BY <1>1, <2>1 DEF AccountOf
  <1> QED
    BY <1>2, <1>3, AccountsAfter

LEMMA SameTable ==
  ASSUME UNCHANGED table
  PROVE  SameResidents
  BY DEF SameResidents, Resident, Entry

\* Neither before nor after is there a fault.
LEMMA FrameAtRest ==
  ASSUME IInv, NEW sure, Exact(sure), SameResidents, UNCHANGED <<sessions, counted, env>>,
         job.phase \notin {"room", "place"}, job'.phase \notin {"room", "place"}
  PROVE  Exact(sure)'
  <1>1. \A s : Pending(s) = 0 /\ Pending(s)' = 0
    BY DEF Pending
  <1> QED
    BY <1>1, AccountsFrame

\* A fault charges what it has not placed.
LEMMA MissAccounts ==
  ASSUME IInv, NEW sure, Exact(sure), job = Idle, NEW id \in Objects, NEW lease, NEW once, Miss(id, lease, once)
  PROVE  Exact(sure)'
  <1> DEFINE owner == table[id].owner
             size == table[id].size
  <1>1. /\ UNCHANGED <<table, counted, env>> /\ Entry(id)
        /\ sessions' = Charge(sessions, owner, size, table[id].precision)
        /\ job' = Fault("room", id, lease, once, FALSE)
    BY DEF Miss
  <1>2. size \in Nat /\ table[id].precision \in Precision /\ sessions \in [SessionIds -> Session]
    BY <1>1, EntryObject DEF IInv, Accounts
  <1>3. \A s : Pending(s) = 0 /\ Pending(s)' = IF owner = s THEN size ELSE 0
    BY <1>1, Idles DEF Pending, Fault
  <1>4. /\ OnlyResident(sessions, sessions', owner)
        /\ Known(sessions, owner) => sessions'[owner].resident = sessions[owner].resident + size
    BY <1>1, <1>2, ChargeKeeps
  <1>5. SizeOf(ResidentSet)' = SizeOf(ResidentSet) /\ \A s : OwnedSize(s)' = OwnedSize(s)
    BY <1>1, SameTable, SumsSame
  <1> HIDE DEF owner, size
  <1>6. "counter" \in sure => counted' = SizeOf(ResidentSet)'
    BY <1>1, <1>5 DEF Exact
  <1>7. ASSUME NEW s, Known(sessions', s), "accounts" \in sure
        PROVE  AccountOf(s)'
    <2>1. Known(sessions, s) /\ AccountOf(s) /\ OwnedSize(s) \in Nat
      BY <1>4, <1>7, AccountKnown, SumsTyped DEF OnlyResident
    <2>2. CASE s = owner
      BY <1>2, <1>3, <1>4, <1>5, <2>1, <2>2 DEF AccountOf
    <2>3. CASE s # owner
      BY <1>3, <1>4, <1>5, <2>1, <2>3 DEF AccountOf, OnlyResident
    <2> QED
      BY <2>2, <2>3
  <1> QED
    BY <1>1, <1>6, <1>7, AccountsAfter

\* A fault that fails gives its charge back.
LEMMA CreditBack ==
  ASSUME IInv, NEW sure, Exact(sure), FaultJob, NEW id \in Objects, id = job.id,
         sessions' = Credit(sessions, table[id].owner, table[id].size), job' = Idle,
         UNCHANGED <<table, counted, env>>
  PROVE  Exact(sure)'
  <1> DEFINE owner == table[id].owner
             size == table[id].size
  <1>2. size \in Nat /\ sessions \in [SessionIds -> Session]
    BY EntryObject DEF IInv, Accounts, FaultJob
  <1>3. \A s : Pending(s)' = 0 /\ Pending(s) = IF owner = s THEN size ELSE 0
    BY Idles DEF Pending, FaultJob
  <1>4. /\ OnlyResident(sessions, sessions', owner)
        /\ Known(sessions, owner) => sessions'[owner].resident = SatSub(sessions[owner].resident, size)
    BY <1>2, CreditKeeps
  <1>5. SizeOf(ResidentSet)' = SizeOf(ResidentSet) /\ \A s : OwnedSize(s)' = OwnedSize(s)
    BY SameTable, SumsSame
  <1> HIDE DEF owner, size
  <1>6. "counter" \in sure => counted' = SizeOf(ResidentSet)'
    BY <1>5 DEF Exact
  <1>7. ASSUME NEW s, Known(sessions', s), "accounts" \in sure
        PROVE  AccountOf(s)'
    <2>1. Known(sessions, s) /\ AccountOf(s) /\ OwnedSize(s) \in Nat
      BY <1>4, <1>7, AccountKnown, SumsTyped DEF OnlyResident
    <2>2. CASE s = owner
      BY <1>2, <1>3, <1>4, <1>5, <2>1, <2>2 DEF AccountOf, SatSub
    <2>3. CASE s # owner
      BY <1>3, <1>4, <1>5, <2>1, <2>3 DEF AccountOf, OnlyResident
    <2> QED
      BY <2>2, <2>3
  <1> QED
    BY <1>6, <1>7, AccountsAfter

\* A fault that is placed turns its pending charge into resident bytes.
LEMMA PlacedAccounts ==
  ASSUME IInv, NEW sure, Exact(sure), Placed
  PROVE  Exact(sure)'
  <1>0. job.phase = "place" /\ FaultJob
    BY NotWorking DEF IInv, Placed
  <1>a. PICK id \in Objects : id = job.id
    BY <1>0 DEF FaultJob
  <1> DEFINE want == RoundUp(table[id].size)
             i == FirstFit(free, want)
             owner == table[id].owner
             size == table[id].size
  <1>1. i # 0 /\ job' = Idle /\ UNCHANGED env
    BY <1>a DEF Placed
  <1>2. Entry(id) /\ ~Resident(id) /\ size \in Nat /\ want \in Nat \ {0}
    BY <1>0, <1>a, EntryObject DEF IInv, FaultJob
  <1>3. free[i].at \in Nat
    <2>1. free \in Seq(Hole)
      BY DEF IInv, Space
    <2> HIDE DEF want
    <2>2. i \in 1 .. Len(free)
      BY <1>1, <1>2, <2>1, FirstFitValue
    <2> QED
      BY <2>1, <2>2, HoleOf
  <1>4. CASE /\ counted' = counted + size
             /\ table' = [table EXCEPT ![id] =
                  [table[id] EXCEPT !.at = Base + free[i].at, !.tier = "Warm",
                                    !.share = IF job.once THEN 0 ELSE Weight(job.lease)]]
             /\ UNCHANGED sessions
    <2> HIDE DEF i
    <2>1. /\ Writes(id, table'[id]) /\ Resident(id)'
          /\ table'[id].size = table[id].size /\ table'[id].owner = table[id].owner
      BY <1>0, <1>a, <1>3, <1>4, PlacedWrites
    <2>2. IInv'
      BY PlacedKeeps
    <2>3. /\ SizeOf(ResidentSet)' = SizeOf(ResidentSet) + size
          /\ \A s : OwnedSize(s)' = OwnedSize(s) + IF owner = s THEN size ELSE 0
      BY <1>2, <2>1, <2>2, SumsWith
    <2>4. \A s : Pending(s)' = 0 /\ Pending(s) = IF owner = s THEN size ELSE 0
      BY <1>0, <1>1, <1>a, Idles DEF Pending
    <2> HIDE DEF owner, size
    <2>5. "counter" \in sure => counted' = SizeOf(ResidentSet)'
      BY <1>4, <2>3 DEF Exact
    <2>6. ASSUME NEW s, Known(sessions', s), "accounts" \in sure
          PROVE  AccountOf(s)'
      <3>1. AccountOf(s) /\ OwnedSize(s) \in Nat
        BY <1>4, <2>6, AccountKnown, SumsTyped
      <3> QED
        BY <1>2, <1>4, <2>3, <2>4, <3>1 DEF AccountOf
    <2> QED
      BY <1>1, <2>5, <2>6, AccountsAfter
  <1>5. CASE sessions' = Credit(sessions, table[id].owner, table[id].size) /\ UNCHANGED <<counted, table>>
    BY <1>0, <1>1, <1>5, <1>a, CreditBack
  <1> QED
    BY <1>4, <1>5, <1>a DEF Placed

\* An eviction takes the same bytes out of the arena, the account and the counter.
LEMMA EvictAccounts ==
  ASSUME IInv, NEW sure, Exact(sure), NEW id \in Objects, NEW entry, Evict(id, entry),
         entry = Home(id) \/ entry = NoMeta, UNCHANGED <<attached, env>>,
         \A s : Pending(s)' = Pending(s)
  PROVE  Exact(sure)'
  <1> DEFINE owner == table[id].owner
             size == table[id].size
  <1>1. /\ counted' = SatSub(counted, size) /\ sessions' = Credit(sessions, owner, size)
        /\ Writes(id, entry) /\ Resident(id) /\ Entry(id)
    BY EvictKeeps DEF Evict, Resident
  <1>2. size \in Nat /\ sessions \in [SessionIds -> Session] /\ table[id] \in Meta
    BY <1>1, EntryObject DEF IInv, Accounts
  <1>3. ~Resident(id)'
    <2>1. table'[id] = entry
      BY <1>1 DEF Writes
    <2>2. CASE entry = NoMeta
      BY <2>1, <2>2 DEF Resident, Entry
    <2>3. CASE entry = Home(id)
      <3>1. Home(id).at = 0
        BY <1>2 DEF Home, Meta
      <3> QED
        BY <2>1, <2>3, <3>1 DEF Resident
    <2> QED
      BY <2>2, <2>3
  <1>4. /\ OnlyResident(sessions, sessions', owner)
        /\ Known(sessions, owner) => sessions'[owner].resident = SatSub(sessions[owner].resident, size)
    BY <1>1, <1>2, CreditKeeps
  <1>5. /\ SizeOf(ResidentSet)' \in Nat /\ SizeOf(ResidentSet) = SizeOf(ResidentSet)' + size
        /\ \A s : /\ OwnedSize(s)' \in Nat
                  /\ OwnedSize(s) = OwnedSize(s)' + IF owner = s THEN size ELSE 0
    BY <1>1, <1>3, SumsWithout
  <1>6. \A s : Pending(s) \in Nat
    <2>1. job.phase \in {"room", "place"} => table[job.id].size \in Nat
      BY NotWorking, EntryObject DEF IInv, FaultJob
    <2> QED
      BY <2>1 DEF Pending
  <1> HIDE DEF owner, size
  <1>7. "counter" \in sure => counted' = SizeOf(ResidentSet)'
    BY <1>1, <1>2, <1>5 DEF Exact, SatSub
  <1>8. ASSUME NEW s, Known(sessions', s), "accounts" \in sure
        PROVE  AccountOf(s)'
    <2>1. Known(sessions, s) /\ AccountOf(s) /\ OwnedSize(s) \in Nat
      BY <1>4, <1>8, AccountKnown, SumsTyped DEF OnlyResident
    <2>2. CASE s = owner
      <3> DEFINE held == sessions[s].resident
                 left == OwnedSize(s)'
                 pending == Pending(s)
      <3>1. held = (left + size) + pending /\ left \in Nat /\ pending \in Nat
        BY <1>5, <1>6, <2>1, <2>2 DEF AccountOf
      <3>2. sessions'[s].resident = SatSub(held, size) /\ Pending(s)' = pending
        BY <1>4, <2>1, <2>2
      <3> HIDE DEF held, left, pending
      <3>3. SatSub(held, size) = left + pending
        BY <1>2, <3>1 DEF SatSub
      <3> QED
        BY <3>2, <3>3 DEF AccountOf, left
    <2>3. CASE s # owner
      <3>1. OwnedSize(s)' = OwnedSize(s)
        BY <1>5, <2>1, <2>3
      <3> QED
        BY <1>4, <2>1, <2>3, <3>1 DEF AccountOf, OnlyResident
    <2> QED
      BY <2>2, <2>3
  <1> QED
    BY <1>7, <1>8, AccountsAfter

\* A session begins with nothing, and owns nothing: its objects come later.
LEMMA AdoptAccounts ==
  ASSUME IInv, NEW sure, Exact(sure), job = Idle, NEW s \in SessionIds, ~Known(sessions, s), NEW contract \in Contracts,
         "accounts" \in sure => \A o \in Objects : Entry(o) => table[o].owner # s,
         sessions' = Adopt(sessions, s, contract), UNCHANGED <<table, counted, env, job>>
  PROVE  Exact(sure)'
  <1>1. sessions \in [SessionIds -> Session] /\ contract \in Contract
    BY DEF IInv, Accounts
  <1>2. /\ \A r : Known(sessions', r) <=> Known(sessions, r) \/ r = s
        /\ \A r \in SessionIds : r # s => sessions'[r] = sessions[r]
        /\ sessions'[s].resident = 0
    <2>1. \A r : Known(sessions', r) <=> Known(sessions, r) \/ r = s
      BY <1>1, AdoptKeeps
    <2>2. \A r \in SessionIds : r # s => sessions'[r] = sessions[r]
      BY <1>1 DEF Adopt
    <2>3. sessions'[s].resident = 0
      BY <1>1 DEF Adopt
    <2> QED
      BY <2>1, <2>2, <2>3
  <1>3. SizeOf(ResidentSet)' = SizeOf(ResidentSet) /\ \A r : OwnedSize(r)' = OwnedSize(r)
    BY SameTable, SumsSame
  <1>4. \A r : Pending(r) = 0 /\ Pending(r)' = 0
    BY Idles DEF Pending
  <1>5. "counter" \in sure => counted' = SizeOf(ResidentSet)'
    BY <1>3 DEF Exact
  <1>6. ASSUME NEW r, Known(sessions', r), "accounts" \in sure
        PROVE  AccountOf(r)'
    <2>1. CASE r # s
      <3>1. Known(sessions, r) /\ sessions'[r] = sessions[r]
        BY <1>2, <1>6, <2>1 DEF Known
      <3>2. AccountOf(r)
        BY <1>6, <3>1, AccountKnown
      <3> QED
        BY <1>3, <1>4, <3>1, <3>2 DEF AccountOf
    <2>2. CASE r = s
      <3>1. OwnedBy(s) = {}
        <4> SUFFICES ASSUME NEW o \in OwnedBy(s) PROVE FALSE
          OBVIOUS
        <4>1. o \in Objects /\ Entry(o) /\ table[o].owner = s
          BY DEF OwnedBy, ResidentSet, Resident
        <4> QED
          BY <1>6, <4>1
      <3>2. OwnedSize(s) = 0
        BY <3>1, ResidentSums, SumOfNone
      <3> QED
        BY <1>2, <1>3, <1>4, <2>2, <3>2 DEF AccountOf
    <2> QED
      BY <2>1, <2>2
  <1> QED
    BY <1>5, <1>6, AccountsAfter

\* A session that is forgotten takes its account with it, and no other's.
LEMMA DestroyDoneAccounts ==
  ASSUME IInv, NEW sure, Exact(sure), DestroyDone, job'.phase \notin {"room", "place"}
  PROVE  Exact(sure)'
  <1>1. UNCHANGED <<table, counted, env>> /\ job.phase = "destroy"
    BY DEF DestroyDone
  <1>2. CASE ~Known(sessions, job.session)
    <2>1. sessions' = sessions
      BY <1>2 DEF DestroyDone
    <2> QED
      BY <1>1, <2>1, SameTable, FrameAtRest
  <1>3. CASE Known(sessions, job.session)
    <2>1. sessions' = Forget(sessions, job.session) /\ job.session \in SessionIds
      BY <1>3 DEF DestroyDone, Known
    <2>2. sessions \in [SessionIds -> Session]
      BY DEF IInv, Accounts
    <2>3. ASSUME NEW s, Known(sessions', s)
          PROVE  Known(sessions, s) /\ sessions'[s] = sessions[s]
      <3>1. Known(sessions, s) /\ s # job.session /\ s \in SessionIds
        BY <2>1, <2>2, <2>3, ForgetKeeps DEF Known
      <3> QED
        BY <2>1, <2>2, <3>1 DEF Forget
    <2>4. SizeOf(ResidentSet)' = SizeOf(ResidentSet) /\ \A s : OwnedSize(s)' = OwnedSize(s)
      BY <1>1, SameTable, SumsSame
    <2>5. \A s : Pending(s) = 0 /\ Pending(s)' = 0
      BY <1>1 DEF Pending
    <2>6. "counter" \in sure => counted' = SizeOf(ResidentSet)'
      BY <1>1, <2>4 DEF Exact
    <2>7. ASSUME NEW s, Known(sessions', s), "accounts" \in sure
          PROVE  AccountOf(s)'
      <3>1. AccountOf(s) /\ sessions'[s] = sessions[s]
        BY <2>3, <2>7, AccountKnown
      <3> QED
        BY <2>4, <2>5, <3>1 DEF AccountOf
    <2> QED
      BY <1>1, <2>6, <2>7, AccountsAfter
  <1> QED
    BY <1>2, <1>3

\* Where a call that destroys goes: it is not a fault.
LEMMA DestroyNextRests ==
  ASSUME DestroyNext
  PROVE  job'.phase \notin {"room", "place"}
  BY Idles DEF DestroyNext, Destroy

LEMMA JobAccounts ==
  ASSUME IInv, NEW sure, Exact(sure), JobStep
  PROVE  Exact(sure)'
  <1>1. ASSUME RoomFound \/ StopEvicting
        PROVE  Exact(sure)'
    <2>1. job.phase = "room" /\ FaultJob /\ UNCHANGED <<table, sessions, counted, env>>
      BY <1>1, NotWorking DEF IInv, RoomFound, StopEvicting
    <2>2. job'.phase = "place" /\ job'.id = job.id
      <3>1. job \in [phase : {"room", "place"}, id : Objects, lease : LeaseKinds, once : BOOLEAN, fits : BOOLEAN]
        BY <2>1 DEF FaultJob
      <3>2. \/ job' = [job EXCEPT !.phase = "place", !.fits = TRUE]
            \/ job' = [job EXCEPT !.phase = "place"]
        BY <1>1 DEF RoomFound, StopEvicting
      <3>3. CASE job' = [job EXCEPT !.phase = "place", !.fits = TRUE]
        BY <3>1, <3>3
      <3>4. CASE job' = [job EXCEPT !.phase = "place"]
        BY <3>1, <3>4
      <3> QED
        BY <3>2, <3>3, <3>4
    <2>3. \A s : Pending(s)' = Pending(s)
      BY <2>1, <2>2 DEF Pending
    <2> QED
      BY <2>1, <2>3, SameTable, AccountsFrame
  <1>2. ASSUME NEW id \in Objects, EvictVictim(id)
        PROVE  Exact(sure)'
    <2>1. job.phase = "room" /\ Evict(id, Home(id)) /\ UNCHANGED <<attached, env, job>> /\ FaultJob
      BY <1>2, NotWorking DEF IInv, EvictVictim
    <2>2. job.id # id /\ job.id \in Objects
      BY <2>1 DEF Evict, FaultJob
    <2>3. table'[job.id] = table[job.id]
      BY <2>1, <2>2, EvictKeeps DEF Writes
    <2>4. \A s : Pending(s)' = Pending(s)
      BY <2>1, <2>3 DEF Pending
    <2> QED
      BY <2>1, <2>4, EvictAccounts
  <1>3. ASSUME NotPlaced
        PROVE  Exact(sure)'
    <2>1. job.phase = "place" /\ FaultJob
      BY <1>3, NotWorking DEF IInv, NotPlaced
    <2>2. PICK id \in Objects : id = job.id
      BY <2>1 DEF FaultJob
    <2> QED
      BY <1>3, <2>1, <2>2, CreditBack DEF NotPlaced
  <1>4. ASSUME DestroyRefused
        PROVE  Exact(sure)'
    <2>1. /\ UNCHANGED <<table, sessions, counted, env>> /\ job.phase = "destroy" /\ DestroyNext
      BY <1>4 DEF DestroyRefused
    <2> QED
      BY <2>1, SameTable, DestroyNextRests, FrameAtRest
  <1>5. ASSUME DestroyDone
        PROVE  Exact(sure)'
    BY <1>5, DestroyNextRests, DestroyDoneAccounts DEF DestroyDone
  <1>6. ASSUME NEW id \in Objects, DestroyObject(id)
        PROVE  Exact(sure)'
    <2>1. /\ job.phase = "destroy" /\ job' = [job EXCEPT !.gone = @ + 1] /\ UNCHANGED <<attached, env>>
      BY <1>6 DEF DestroyObject
    <2>2. job'.phase = "destroy"
      BY <2>1, NotFaulting DEF IInv, DestroyJob
    <2>3. CASE Evict(id, NoMeta)
      <3>1. \A s : Pending(s)' = Pending(s)
        BY <2>1, <2>2 DEF Pending
      <3> QED
        BY <2>1, <2>3, <3>1, EvictAccounts
    <2>4. CASE /\ ~Resident(id) /\ table' = [table EXCEPT ![id] = NoMeta]
               /\ UNCHANGED <<free, used, counted, sessions>>
      <3>1. Writes(id, NoMeta)
        BY <2>4, WriteKeeps DEF IInv
      <3>2. ~Resident(id)'
        BY <3>1 DEF Writes, Resident, Entry
      <3>3. SameResidents
        BY <2>4, <3>1, <3>2 DEF SameResidents, Writes
      <3> QED
        BY <2>1, <2>2, <2>4, <3>3, FrameAtRest
    <2> QED
      BY <1>6, <2>3, <2>4 DEF DestroyObject
  <1> QED
    BY <1>1, <1>2, <1>3, <1>4, <1>5, <1>6, PlacedAccounts DEF JobStep

LEMMA RegisterAccounts ==
  ASSUME IInv, NEW sure, Exact(sure), NEW id \in Objects, NEW template \in Meta,
         template.size # 0, template.at = 0, template.share = 0, Register(id, template),
         sure # {} => ~Entry(id)
  PROVE  Exact(sure)'
  <1>1. /\ UNCHANGED <<sessions, counted, env, job>> /\ job = Idle
        /\ table' = [table EXCEPT ![id] = template]
    BY DEF Register
  <1>2. CASE sure = {}
    BY <1>2 DEF Exact
  <1>3. CASE sure # {}
    <2>1. Writes(id, template)
      BY <1>1, WriteKeeps DEF IInv
    <2>2. ~Resident(id) /\ ~Resident(id)'
      BY <1>3, <2>1 DEF Writes, Resident
    <2>3. SameResidents
      BY <2>1, <2>2 DEF SameResidents, Writes
    <2> QED
      BY <1>1, <2>3, Idles, FrameAtRest
  <1> QED
    BY <1>2, <1>3

\* Any step of the manager but a registration.
OtherStep ==
  \/ JobStep
  \/ \E p \in Providers : Attach(p)
  \/ \E id \in Objects :
       \/ \E lease \in Leases : Acquire(id, lease)
       \/ Consume(id) \/ EvictOne(id) \/ Release(id)
  \/ \E contract \in Contracts :
       CreateSession(contract) \/ \E s \in SessionIds : AdoptSession(s, contract)
  \/ \E s \in 0 .. MaxId : DestroySession(s)
  \/ DestroyAllSessions
  \/ UNCHANGED vars

\* Such a step keeps what is sure, of the sessions if what has an owner that
\* is not there is nobody's.
LEMMA OtherAccounts ==
  ASSUME IInv, NEW sure, Exact(sure), OtherStep,
         "accounts" \in sure =>
           \A s \in SessionIds : ~Known(sessions, s) => \A o \in Objects : Entry(o) => table[o].owner # s
  PROVE  Exact(sure)'
  <1>1. ASSUME NEW id \in Objects, NEW lease \in LeaseKinds, NEW once \in BOOLEAN,
               job = Idle, ~once => MayClaim(id, lease), Hit(id, lease, once) \/ Miss(id, lease, once)
        PROVE  Exact(sure)'
    <2>1. CASE Hit(id, lease, once)
      <3>1. SameResidents
        BY <1>1, <2>1, HitKeeps
      <3> QED
        BY <1>1, <2>1, <3>1, Idles, FrameAtRest DEF Hit
    <2>2. CASE Miss(id, lease, once)
      BY <1>1, <2>2, MissAccounts
    <2> QED
      BY <1>1, <2>1, <2>2
  <1>2. ASSUME NEW id \in Objects, NEW lease \in Leases, Acquire(id, lease)
        PROVE  Exact(sure)'
    <2>1. lease \in LeaseKinds
      BY DEF LeaseKinds
    <2> QED
      BY <1>1, <1>2, <2>1 DEF Acquire
  <1>3. ASSUME NEW id \in Objects, Consume(id)
        PROVE  Exact(sure)'
    <2>1. "Streaming" \in LeaseKinds
      BY DEF LeaseKinds
    <2> QED
      BY <1>1, <1>3, <2>1 DEF Consume
  <1>4. ASSUME NEW id \in Objects, EvictOne(id)
        PROVE  Exact(sure)'
    <2>1. job = Idle /\ Evict(id, Home(id)) /\ UNCHANGED <<attached, env, job>>
      BY <1>4 DEF EvictOne
    <2>2. \A s : Pending(s)' = Pending(s)
      BY <2>1, Idles DEF Pending
    <2> QED
      BY <2>1, <2>2, EvictAccounts
  <1>5. ASSUME NEW id \in Objects, Release(id)
        PROVE  Exact(sure)'
    BY <1>5, ReleaseKeeps, Idles, FrameAtRest DEF Release
  <1>6. ASSUME NEW contract \in Contracts, NEW s \in SessionIds, AdoptSession(s, contract)
        PROVE  Exact(sure)'
    <2>1. ~Known(sessions, s)
      BY <1>6 DEF AdoptSession, Adoptable
    <2> QED
      BY <1>6, <2>1, AdoptAccounts DEF AdoptSession
  <1>7. ASSUME NEW contract \in Contracts, CreateSession(contract)
        PROVE  Exact(sure)'
    <2>1. LowestFree(sessions) \in SessionIds /\ ~Known(sessions, LowestFree(sessions))
      BY <1>7 DEF CreateSession, Adoptable
    <2> QED
      BY <1>7, <2>1, AdoptAccounts DEF CreateSession
  <1>8. ASSUME (\E s \in 0 .. MaxId : DestroySession(s)) \/ DestroyAllSessions
        PROVE  Exact(sure)'
    <2>1. UNCHANGED <<table, sessions, counted, env>> /\ job = Idle /\ job'.phase = "destroy"
      BY <1>8 DEF DestroySession, DestroyAllSessions, Destroy
    <2> QED
      BY <2>1, Idles, SameTable, FrameAtRest
  <1>9. ASSUME NEW p \in Providers, Attach(p)
        PROVE  Exact(sure)'
    BY <1>9, SameTable, Idles, FrameAtRest DEF Attach
  <1>10. CASE UNCHANGED vars
    <2>1. SameResidents /\ UNCHANGED <<sessions, counted, env>> /\ \A s : Pending(s)' = Pending(s)
      BY <1>10, SameTable DEF vars, Pending
    <2> QED
      BY <2>1, AccountsFrame
  <1> QED
    BY <1>2, <1>3, <1>4, <1>5, <1>6, <1>7, <1>8, <1>9, <1>10, JobAccounts DEF OtherStep

\* In any step of the manager, if what is sure is so only where ids are not
\* registered over and, of the sessions, where objects have owners.
LEMMA StepAccounts ==
  ASSUME IInv, NEW sure, Exact(sure), [Next]_vars,
         sure # {} => "register_again" \notin env,
         "accounts" \in sure => "orphans" \notin env
  PROVE  Exact(sure)'
  <1>1. CASE OtherStep
    <2>1. "accounts" \in sure =>
            \A s \in SessionIds : ~Known(sessions, s) => \A o \in Objects : Entry(o) => table[o].owner # s
      BY DEF IInv, NoOrphans, SessionIds
    <2> QED
      BY <1>1, <2>1, OtherAccounts
  <1>2. ASSUME NEW id \in Objects, NEW template \in Templates[id], Register(id, template)
        PROVE  Exact(sure)'
    <2>1. template \in Meta /\ template.size # 0 /\ template.at = 0 /\ template.share = 0
      BY TemplatesAssumption
    <2>2. sure # {} => ~Entry(id)
      BY <1>2 DEF Register
    <2> QED
      BY <1>2, <2>1, <2>2, RegisterAccounts
  <1> QED
    BY <1>1, <1>2 DEF Next, OtherStep

\* The environment is what it was at first.
LEMMA StepsInEnv ==
  ASSUME [Next]_vars
  PROVE  env' = env
  BY DEF Next, vars, JobStep, RoomFound, StopEvicting, EvictVictim, NotPlaced, Placed,
         DestroyRefused, DestroyDone, DestroyObject, Attach, Register, Acquire, Consume, Hit, Miss,
         EvictOne, Release, CreateSession, AdoptSession, DestroySession, DestroyAllSessions

\* Whatever is placed, refused, fails or is evicted, in whatever order, the
\* account of a session is the bytes it owns in the arena and the fault in
\* progress, and the residency counter is the bytes of all residents.
THEOREM AccountsExact == Spec => []AccountExact
  <1>1. Init => AccountExact
    <2> SUFFICES ASSUME Init PROVE AccountExact
      OBVIOUS
    <2>1. \A s \in SessionIds : sessions[s].live = FALSE
      BY DEF Init, NoSessions, NoSession
    <2>2. ResidentSet = {} /\ counted = 0
      BY DEF Init, ResidentSet, Resident, Entry
    <2>3. SizeOf(ResidentSet) = 0
      BY <2>2, ResidentSums, SumOfNone
    <2> QED
      BY <2>1, <2>2, <2>3 DEF AccountExact, LiveIn
  <1>2. IInv /\ AccountExact /\ [Next]_vars => AccountExact'
    <2> SUFFICES ASSUME IInv, AccountExact, [Next]_vars PROVE AccountExact'
      OBVIOUS
    <2>1. env' = env
      BY StepsInEnv
    <2>2. PICK sure : sure = {x \in {"counter", "accounts"} :
                                /\ "register_again" \notin env
                                /\ x = "accounts" => "orphans" \notin env}
      OBVIOUS
    <2>3. Exact(sure)
      BY <2>2 DEF AccountExact, Exact, AccountOf, OwnedSize, Known, LiveIn
    <2>4. Exact(sure)'
      BY <2>2, <2>3, StepAccounts
    <2> QED
      BY <2>1, <2>2, <2>4 DEF AccountExact, Exact, AccountOf, OwnedSize, Known, LiveIn
  <1> QED
    BY <1>1, <1>2, ManagerInductive, PTL DEF Spec
=============================================================================
