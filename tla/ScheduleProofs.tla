--------------------------- MODULE ScheduleProofs ---------------------------
(***************************************************************************)
(* For any number of sessions, streams and admitted ceilings: the latency  *)
(* escape keeps every promise, a token taking no longer than its own       *)
(* length and twice its session's ceiling; without promises nobody starts  *)
(* a token before everyone has finished the last, and process-major's      *)
(* order is that of rounds by whole tokens; a rule always names exactly    *)
(* one session, and the loop stops only when every lane is served.  From   *)
(* the workload over the disk to the kernel's lanes, the cut finds the     *)
(* tokens that were generated, and an end is one with every access served. *)
(***************************************************************************)
EXTENDS Schedule, FiniteSetTheorems, WellFoundedInduction, TLAPS

USE ScheduleAssumption

-----------------------------------------------------------------------------
(* The inductive invariant. *)

Promised == {s \in Sessions : ceiling[s] # 0}
Short == \A s \in Sessions : Longest(s) <= capacity
Now(s) == lanes[s][token[s] + 1]

Laned(l) == DOMAIN l = Sessions /\ \A s \in Sessions : IsLane(l[s])
Counters == [Sessions -> Nat]

TypeOK ==
  /\ capacity \in Nat /\ ceilings \in SUBSET Nat /\ ceiling \in Counters /\ rule \in Rules
  /\ Laned(lanes) /\ clock \in Nat
  /\ token \in Counters /\ index \in Counters /\ due \in Counters /\ worst \in Counters
  /\ \E any : merged \in Seq(any)

\* Admission left room for one token of every other promised session.
Room == \A s \in Promised : ceiling[s] >= capacity * (Cardinality(Promised) - 1)

\* A cursor is inside its token, and what was served of it came after its due.
Inside ==
  \A s \in Sessions :
    /\ due[s] + index[s] <= clock
    /\ index[s] # 0 => s \in Live /\ index[s] < Len(Now(s))

\* An overdue session waits past its ceiling for accesses of the others, which
\* are in D as <<session, number in its token>>.  Of each other session these
\* are accesses of the token it is on; or of one it has finished since, and
\* then it has not been served again: what it has waited are accesses in D of
\* the rest, and of the overdue session itself.
Others(s) == (Promised \ {s}) \X (1 .. capacity)
Apart(D, t) == {d \in D : d[1] # t}
OnToken(D, t) == \A d \in D : d[1] = t => d[2] <= index[t]
Finished(D, s, t) == index[t] = 0 /\ (t \in Live => Waited(t) <= index[s] + Cardinality(Apart(D, t)))
Debt(s, D) ==
  /\ Waited(s) <= ceiling[s] + Cardinality(D)
  /\ \A t \in Promised \ {s} : OnToken(D, t) \/ Finished(D, s, t)
Late == \A s \in Overdue : \E D \in SUBSET Others(s) : Debt(s, D)

\* The periods of the tokens that have ended.
Kept == \A s \in Promised : worst[s] <= Longest(s) + 2 * ceiling[s]

SInv ==
  /\ TypeOK /\ Room /\ Inside /\ Barrier
  /\ rule = "parameter" /\ Short => Late /\ Kept

-----------------------------------------------------------------------------
(* Greatest members. *)

LEMMA LeastMember ==
  ASSUME NEW S \in SUBSET Nat, S # {}
  PROVE  Min(S) \in S /\ \A y \in S : Min(S) <= y
  <1>1. PICK x \in S : \A y \in S : ~(<<y, x>> \in OpToRel(<, Nat))
    BY NatLessThanWellFounded, WFMin
  <1>2. ASSUME NEW y \in S, y < x
        PROVE  <<y, x>> \in OpToRel(<, Nat)
    BY <1>2 DEF OpToRel
  <1>3. \A y \in S : ~(y < x)
    BY <1>1, <1>2, Zenon
  <1>4. \A y \in S : x <= y
    BY <1>3
  <1> QED
    BY <1>4 DEF Min

LEMMA GreatestMember ==
  ASSUME NEW N \in Nat, NEW S \in SUBSET (0 .. N), S # {}
  PROVE  Max(S) \in S /\ \A x \in S : x <= Max(S)
  <1> DEFINE above == {n \in Nat : \A x \in S : x <= n}
  <1>1. above \in SUBSET Nat /\ N \in above
    OBVIOUS
  <1>2. PICK m \in above : \A n \in above : m <= n
    BY <1>1, LeastMember
  <1>3. m \in S
    <2> SUFFICES ASSUME m \notin S PROVE FALSE
      OBVIOUS
    <2>1. \A x \in S : x < m
      BY <1>2
    <2>2. m # 0 /\ m - 1 \in Nat
      <3>1. PICK x \in S : x \in 0 .. N
        OBVIOUS
      <3>2. x < m /\ m \in Nat
        BY <2>1
      <3> QED
        BY <3>1, <3>2
    <2>3. \A x \in S : x <= m - 1
      BY <1>2, <2>1
    <2>4. m - 1 \in above
      BY <2>2, <2>3
    <2> QED
      BY <1>2, <2>4
  <1>4. \A x \in S : m >= x
    BY <1>2
  <1> QED
    BY <1>3, <1>4 DEF Max

\* The tokens of a lane have a longest: by the least number of them that have not.
BoundedTo(lane, k) == \E n \in Nat : \A t \in 1 .. k : Len(lane[t]) <= n

LEMMA TokensBounded ==
  ASSUME NEW lane, IsLane(lane)
  PROVE  \E n \in Nat : \A t \in DOMAIN lane : Len(lane[t]) <= n
  <1>1. PICK L \in Nat : L = Len(lane) /\ DOMAIN lane = 1 .. L
    BY DEF IsLane, IsSequence
  <1>2. \A t \in 1 .. L : Len(lane[t]) \in Nat
    BY <1>1 DEF IsLane, IsSequence
  <1> DEFINE bad == {k \in 0 .. L : ~BoundedTo(lane, k)}
  <1>3. CASE bad = {}
    <2>1. BoundedTo(lane, L)
      BY <1>3
    <2> QED
      BY <1>1, <2>1 DEF BoundedTo
  <1>4. CASE bad # {}
    <2>1. PICK k \in bad : \A j \in bad : k <= j
      <3>1. bad \in SUBSET Nat
        OBVIOUS
      <3> QED
        BY <1>4, <3>1, LeastMember
    <2>2. k # 0
      <3>1. BoundedTo(lane, 0)
        BY DEF BoundedTo
      <3> QED
        BY <2>1, <3>1
    <2>3. k - 1 \in 0 .. L /\ k - 1 \notin bad /\ k \in 1 .. L
      BY <1>1, <2>1, <2>2
    <2>4. PICK n \in Nat : \A t \in 1 .. k - 1 : Len(lane[t]) <= n
      <3>1. BoundedTo(lane, k - 1)
        BY <2>3
      <3> QED
        BY <3>1 DEF BoundedTo
    <2>5. PICK m \in Nat : m = Len(lane[k])
      BY <1>2, <2>3
    <2>6. PICK b \in Nat : b >= n /\ b >= m
      <3>1. n + m \in Nat /\ n + m >= n /\ n + m >= m
        OBVIOUS
      <3> QED
        BY <3>1
    <2>7. \A t \in 1 .. k : Len(lane[t]) <= b
      <3> TAKE t \in 1 .. k
      <3>1. Len(lane[t]) \in Nat
        BY <1>2, <2>3
      <3>2. t = k \/ t \in 1 .. k - 1
        BY <2>3
      <3> QED
        BY <2>4, <2>5, <2>6, <3>1, <3>2
    <2>8. BoundedTo(lane, k)
      BY <2>7 DEF BoundedTo
    <2> QED
      BY <2>1, <2>8
  <1> QED
    BY <1>3, <1>4

LEMMA LongestIs ==
  ASSUME NEW s \in Sessions, IsLane(lanes[s])
  PROVE  Longest(s) \in Nat /\ \A t \in DOMAIN lanes[s] : Len(lanes[s][t]) <= Longest(s)
  <1> DEFINE sizes == {0} \cup {Len(lanes[s][t]) : t \in DOMAIN lanes[s]}
  <1>1. PICK n \in Nat : \A t \in DOMAIN lanes[s] : Len(lanes[s][t]) <= n
    BY TokensBounded
  <1>2. \A t \in DOMAIN lanes[s] : Len(lanes[s][t]) \in Nat
    BY DEF IsLane, IsSequence
  <1>3. sizes \in SUBSET (0 .. n) /\ sizes # {}
    BY <1>1, <1>2
  <1>4. Longest(s) = Max(sizes)
    BY DEF Longest
  <1> HIDE DEF sizes
  <1>5. Longest(s) \in sizes /\ \A x \in sizes : x <= Longest(s)
    BY <1>3, <1>4, GreatestMember
  <1> QED
    BY <1>2, <1>3, <1>5 DEF sizes

-----------------------------------------------------------------------------
(* What admission leaves room for. *)

Asking(c) == {s \in Sessions : c[s] # 0}

LEMMA SessionsFinite ==
  ASSUME NEW S \in SUBSET Sessions
  PROVE  IsFiniteSet(S) /\ Cardinality(S) \in Nat
  <1>1. IsFiniteSet(Sessions)
    BY FS_Interval DEF Sessions
  <1> QED
    BY <1>1, FS_Subset, FS_CardinalityType

LEMMA AdmittedRoom ==
  ASSUME NEW asked \in SUBSET Nat, NEW of \in Nat, NEW c \in Admitted(asked, of)
  PROVE  /\ c \in Counters
         /\ \A s \in Asking(c) : c[s] >= of * (Cardinality(Asking(c)) - 1)
  <1>1. c \in Counters /\ \A s \in Sessions : Waits(c, s, of)
    BY DEF Admitted, Counters
  <1>2. SUFFICES ASSUME NEW s \in Asking(c)
                 PROVE  c[s] >= of * (Cardinality(Asking(c)) - 1)
    BY <1>1
  <1>3. Asking(c) \in SUBSET (0 .. K - 1) /\ Asking(c) \in SUBSET Sessions /\ K - 1 \in Nat
    BY DEF Asking, Sessions
  <1>4. PICK last \in Asking(c) : \A t \in Asking(c) : t <= last
    BY <1>2, <1>3, GreatestMember
  <1>5. Ahead(c, last) = Asking(c) \ {last}
    <2>1. \A t \in Asking(c) : t \in 0 .. K - 1 /\ t <= last
      BY <1>3, <1>4
    <2>2. last \in 0 .. K - 1
      BY <1>3
    <2> QED
      BY <2>1, <2>2 DEF Ahead, Asking, Sessions
  <1>6. PICK n \in Nat : n = Cardinality(Asking(c)) /\ n # 0 /\ Cardinality(Ahead(c, last)) = n - 1
    <2>1. IsFiniteSet(Asking(c)) /\ Cardinality(Asking(c)) \in Nat
      BY <1>3, SessionsFinite
    <2>2. Cardinality(Asking(c) \ {last}) = Cardinality(Asking(c)) - 1
      BY <2>1, FS_RemoveElement
    <2>3. Cardinality(Asking(c)) # 0
      BY <1>2, <2>1, FS_EmptySet
    <2> QED
      BY <1>5, <2>1, <2>2, <2>3
  <1>7. c[s] \in Nat /\ s \in Ahead(c, last) \cup {last}
    BY <1>1, <1>2, <1>5 DEF Asking, Counters
  <1>8. CASE of = 0
    BY <1>6, <1>7, <1>8
  <1>9. CASE of # 0
    <2>1. Waits(c, last, of) /\ c[last] # 0
      BY <1>1, <1>4 DEF Asking
    <2>2. c[s] >= of * Cardinality(Ahead(c, last))
      BY <1>7, <1>9, <2>1 DEF Waits
    <2> QED
      BY <1>6, <2>2
  <1> QED
    BY <1>8, <1>9

\* Accesses of the others: at most a token of each.
LEMMA AccessesCounted ==
  ASSUME capacity \in Nat, NEW S \in SUBSET Sessions, NEW D \in SUBSET (S \X (1 .. capacity))
  PROVE  /\ IsFiniteSet(D) /\ Cardinality(D) \in Nat
         /\ Cardinality(D) <= Cardinality(S) * capacity
  <1>1. IsFiniteSet(S) /\ IsFiniteSet(1 .. capacity) /\ Cardinality(1 .. capacity) = capacity
    BY SessionsFinite, FS_Interval
  <1>2. IsFiniteSet(S \X (1 .. capacity)) /\ Cardinality(S \X (1 .. capacity)) = Cardinality(S) * capacity
    BY <1>1, FS_Product
  <1> QED
    BY <1>2, FS_Subset, FS_CardinalityType

\* An overdue session has waited no more than twice its ceiling.
LEMMA DebtBounded ==
  ASSUME TypeOK, Room, NEW s \in Promised, NEW D \in SUBSET Others(s), Debt(s, D)
  PROVE  Waited(s) <= 2 * ceiling[s]
  <1>1. Promised \in SUBSET Sessions /\ capacity \in Nat /\ s \in Sessions
    BY DEF Promised, TypeOK
  <1>2. PICK n \in Nat : n = Cardinality(Promised \ {s}) /\ Cardinality(Promised) = n + 1
    <2>1. IsFiniteSet(Promised) /\ Cardinality(Promised) \in Nat
      BY <1>1, SessionsFinite
    <2>2. Cardinality(Promised \ {s}) = Cardinality(Promised) - 1
      BY <2>1, FS_RemoveElement
    <2>3. Promised \ {s} \in SUBSET Sessions
      BY <1>1
    <2>4. Cardinality(Promised \ {s}) \in Nat
      BY <2>3, SessionsFinite
    <2> QED
      BY <2>1, <2>2, <2>4
  <1>3. Cardinality(D) \in Nat /\ Cardinality(D) <= n * capacity
    <2>1. Promised \ {s} \in SUBSET Sessions
      BY <1>1
    <2> QED
      BY <1>1, <1>2, <2>1, AccessesCounted DEF Others
  <1>4. ceiling[s] \in Nat /\ ceiling[s] >= capacity * n
    <2>1. ceiling[s] >= capacity * (Cardinality(Promised) - 1) /\ ceiling[s] \in Nat
      BY <1>1 DEF Room, TypeOK, Counters
    <2>2. Cardinality(Promised) - 1 = n
      BY <1>2
    <2> QED
      BY <2>1, <2>2
  <1>5. Waited(s) \in Int
    BY <1>1 DEF Waited, TypeOK, Counters
  <1>6. capacity * n = n * capacity
    BY <1>1
  <1>7. Waited(s) <= ceiling[s] + Cardinality(D)
    BY DEF Debt
  <1>8. PICK m \in Nat : m = n * capacity
    BY <1>1
  <1>9. Cardinality(D) <= m /\ ceiling[s] >= m
    BY <1>3, <1>4, <1>6, <1>8
  <1> QED
    BY <1>3, <1>4, <1>5, <1>7, <1>9

\* A session that has finished its token while s was overdue is not overdue.
LEMMA FinishedNotOverdue ==
  ASSUME TypeOK, Room, NEW s \in Promised, NEW t \in Promised \ {s}, NEW D \in SUBSET Others(s),
         Finished(D, s, t), t \in Live, index[s] < capacity
  PROVE  Waited(t) < ceiling[t]
  <1>1. Promised \in SUBSET Sessions /\ capacity \in Nat /\ s \in Sessions /\ t \in Sessions
    BY DEF Promised, TypeOK
  <1> DEFINE rest == (Promised \ {s}) \ {t}
  <1>2. PICK n \in Nat : n = Cardinality(rest) /\ Cardinality(Promised) = n + 2
    <2>1. IsFiniteSet(Promised) /\ Cardinality(Promised) \in Nat
      BY <1>1, SessionsFinite
    <2>2. IsFiniteSet(Promised \ {s}) /\ Cardinality(Promised \ {s}) = Cardinality(Promised) - 1
      BY <2>1, FS_RemoveElement
    <2>3. Cardinality(rest) = Cardinality(Promised \ {s}) - 1
      BY <2>2, FS_RemoveElement
    <2>4. rest \in SUBSET Sessions
      BY <1>1
    <2>5. Cardinality(rest) \in Nat
      BY <2>4, SessionsFinite
    <2> HIDE DEF rest
    <2> QED
      BY <2>1, <2>2, <2>3, <2>5
  <1>3. Cardinality(Apart(D, t)) \in Nat /\ Cardinality(Apart(D, t)) <= n * capacity
    <2>1. rest \in SUBSET Sessions
      BY <1>1
    <2>2. Apart(D, t) \in SUBSET (rest \X (1 .. capacity))
      BY DEF Apart, Others
    <2> HIDE DEF rest
    <2> QED
      BY <1>1, <1>2, <2>1, <2>2, AccessesCounted
  <1>4. ceiling[t] \in Nat /\ ceiling[t] >= capacity * (n + 1)
    <2>1. ceiling[t] >= capacity * (Cardinality(Promised) - 1) /\ ceiling[t] \in Nat
      BY <1>1 DEF Room, TypeOK, Counters
    <2>2. Cardinality(Promised) - 1 = n + 1
      BY <1>2
    <2> QED
      BY <2>1, <2>2
  <1>5. Waited(t) \in Int /\ index[s] \in Nat
    BY <1>1 DEF Waited, TypeOK, Counters
  <1>6. capacity * (n + 1) = n * capacity + capacity
    BY <1>1
  <1>7. Waited(t) <= index[s] + Cardinality(Apart(D, t))
    BY DEF Finished
  <1> QED
    BY <1>1, <1>3, <1>4, <1>5, <1>6, <1>7

-----------------------------------------------------------------------------
(* One access of x is served. *)

LEMMA MaxOfTwo ==
  ASSUME NEW a \in Nat, NEW b \in Nat
  PROVE  Max({a, b}) \in {a, b} /\ a <= Max({a, b}) /\ b <= Max({a, b})
  <1>1. PICK N \in Nat : a <= N /\ b <= N
    <2>1. a + b \in Nat /\ a <= a + b /\ b <= a + b
      OBVIOUS
    <2> QED
      BY <2>1
  <1>2. {a, b} \in SUBSET (0 .. N) /\ {a, b} # {}
    BY <1>1
  <1>3. PICK S : S = {a, b}
    OBVIOUS
  <1>4. Max(S) \in S /\ \A y \in S : y <= Max(S)
    BY <1>2, <1>3, GreatestMember
  <1> QED
    BY <1>3, <1>4

LEMMA LiveToken ==
  ASSUME TypeOK, Inside, NEW s \in Live
  PROVE  /\ s \in Sessions /\ Len(Now(s)) \in Nat /\ Longest(s) \in Nat
         /\ Len(Now(s)) <= Longest(s) /\ Waited(s) \in Nat
         /\ index[s] = 0 \/ index[s] < Len(Now(s))
  <1>1. s \in Sessions /\ IsLane(lanes[s]) /\ token[s] \in Nat /\ token[s] < Len(lanes[s])
    BY DEF Live, TypeOK, Laned, Counters
  <1>2. token[s] + 1 \in DOMAIN lanes[s]
    BY <1>1 DEF IsLane, IsSequence
  <1>3. Longest(s) \in Nat /\ Len(Now(s)) <= Longest(s) /\ Len(Now(s)) \in Nat
    BY <1>1, <1>2, LongestIs DEF Now, IsLane, IsSequence
  <1>4. Waited(s) \in Nat
    BY <1>1 DEF Waited, Inside, TypeOK, Counters
  <1> QED
    BY <1>1, <1>3, <1>4 DEF Inside

LEMMA OverdueLive ==
  ASSUME TypeOK
  PROVE  /\ Overdue \in SUBSET Live /\ Overdue \in SUBSET Promised /\ Overdue \in SUBSET Nat
         /\ Live \in SUBSET Sessions /\ Promised \in SUBSET Sessions
         /\ Overdue # {} => Min(Overdue) \in Overdue
  <1>1. /\ Overdue \in SUBSET Live /\ Overdue \in SUBSET Promised /\ Overdue \in SUBSET Nat
        /\ Live \in SUBSET Sessions /\ Promised \in SUBSET Sessions
    BY DEF Overdue, Live, Promised, Sessions
  <1> QED
    BY <1>1, LeastMember

\* The cursors after it: x's token goes on, or ends.
Rest(x) ==
  \A t \in Sessions \ {x} :
    token'[t] = token[t] /\ index'[t] = index[t] /\ due'[t] = due[t] /\ worst'[t] = worst[t]
GoesOn(x) ==
  /\ token'[x] = token[x] /\ index'[x] = index[x] + 1 /\ due'[x] = due[x] /\ worst'[x] = worst[x]
  /\ index[x] + 1 < Len(Now(x))
Closes(x) ==
  /\ token'[x] = token[x] + 1 /\ index'[x] = 0 /\ due'[x] = clock + 1
  /\ worst'[x] = Max({worst[x], clock + 1 - due[x]})
  /\ index[x] + 1 = Len(Now(x))
Turn(x) ==
  /\ x \in Live /\ clock' = clock + 1 /\ Rest(x) /\ (GoesOn(x) \/ Closes(x))
  /\ token' \in Counters /\ index' \in Counters /\ due' \in Counters /\ worst' \in Counters
  /\ UNCHANGED <<lanes, ceiling, capacity, ceilings, rule>>

LEMMA ServeTurns ==
  ASSUME TypeOK, Inside, NEW x \in Sessions, Serve(x)
  PROVE  Turn(x)
  <1>1. x \in Live
    BY OverdueLive DEF Serve, Pick, ProcessPick, ParameterPick
  <1>2. /\ clock' = clock + 1 /\ UNCHANGED <<lanes, ceiling, capacity, ceilings, rule>>
        /\ Advance(x) /\ NextOf(x) # {}
    BY DEF Serve, setting
  <1>3. Len(Now(x)) \in Nat /\ index[x] < Len(Now(x))
    <2>1. Len(Now(x)) \in Nat
      BY <1>1, LiveToken
    <2> QED
      BY <1>2, <2>1 DEF NextOf, Now
  <1>4. /\ token \in [Sessions -> Nat] /\ index \in [Sessions -> Nat] /\ due \in [Sessions -> Nat]
        /\ worst \in [Sessions -> Nat] /\ clock \in Nat
    BY DEF TypeOK, Counters
  <1>5. due[x] + index[x] <= clock
    BY DEF Inside
  <1>6. Ends(x) <=> index[x] + 1 >= Len(Now(x))
    BY DEF Ends, Now
  <1>7. CASE Ends(x)
    <2>1. /\ token' = [token EXCEPT ![x] = token[x] + 1] /\ index' = [index EXCEPT ![x] = 0]
          /\ worst' = [worst EXCEPT ![x] = Max({worst[x], clock + 1 - due[x]})]
          /\ due' = [due EXCEPT ![x] = clock + 1]
      BY <1>2, <1>4, <1>7 DEF Advance
    <2>2. clock + 1 - due[x] \in Nat /\ worst[x] \in Nat
      BY <1>4, <1>5
    <2>3. PICK most \in Nat : most = Max({worst[x], clock + 1 - due[x]})
      <3>1. PICK a \in Nat : a = worst[x]
        BY <2>2
      <3>2. PICK b \in Nat : b = clock + 1 - due[x]
        BY <2>2
      <3> QED
        BY <3>1, <3>2, MaxOfTwo
    <2>4. token' \in Counters /\ index' \in Counters /\ due' \in Counters /\ worst' \in Counters
      BY <1>4, <2>1, <2>3 DEF Counters
    <2>5. Closes(x)
      BY <1>3, <1>4, <1>6, <1>7, <2>1 DEF Closes
    <2>6. Rest(x)
      BY <1>4, <2>1 DEF Rest
    <2> QED
      BY <1>1, <1>2, <2>4, <2>5, <2>6 DEF Turn
  <1>8. CASE ~Ends(x)
    <2>1. /\ token' = [token EXCEPT ![x] = token[x]] /\ index' = [index EXCEPT ![x] = index[x] + 1]
          /\ worst' = worst /\ due' = due
      BY <1>2, <1>4, <1>8 DEF Advance
    <2>2. token' \in Counters /\ index' \in Counters /\ due' \in Counters /\ worst' \in Counters
      BY <1>4, <2>1 DEF Counters
    <2>3. GoesOn(x) /\ Rest(x)
      BY <1>3, <1>4, <1>6, <1>8, <2>1 DEF GoesOn, Rest
    <2> QED
      BY <1>1, <1>2, <2>2, <2>3 DEF Turn
  <1> QED
    BY <1>7, <1>8

\* Whoever is not served waits one access longer.
LEMMA TurnWaits ==
  ASSUME TypeOK, Inside, NEW x \in Sessions, Turn(x)
  PROVE  /\ \A t \in Sessions \ {x} :
              /\ t \in Live' <=> t \in Live
              /\ Waited(t)' = Waited(t) + 1 /\ Now(t)' = Now(t)
         /\ GoesOn(x) => x \in Live' /\ Waited(x)' = Waited(x) /\ Now(x)' = Now(x)
         /\ Closes(x) => Waited(x)' = 0
  <1>1. clock \in Nat /\ token \in [Sessions -> Nat] /\ index \in [Sessions -> Nat] /\ due \in [Sessions -> Nat]
    BY DEF TypeOK, Counters
  <1>2. clock' = clock + 1 /\ lanes' = lanes /\ x \in Live
    BY DEF Turn
  <1>3. ASSUME NEW t \in Sessions \ {x}
        PROVE  /\ t \in Live' <=> t \in Live
               /\ Waited(t)' = Waited(t) + 1 /\ Now(t)' = Now(t)
    <2>1. token'[t] = token[t] /\ index'[t] = index[t] /\ due'[t] = due[t] /\ t \in Sessions
      BY DEF Turn, Rest
    <2>2. t \in Live' <=> t \in Live
      BY <1>2, <2>1 DEF Live
    <2>3. index[t] \in Nat /\ due[t] \in Nat
      BY <1>1, <2>1
    <2>4. Waited(t)' = Waited(t) + 1
      BY <1>1, <1>2, <2>1, <2>3 DEF Waited
    <2> QED
      BY <1>2, <2>1, <2>2, <2>4 DEF Now
  <1>4. ASSUME GoesOn(x) PROVE x \in Live' /\ Waited(x)' = Waited(x) /\ Now(x)' = Now(x)
    <2>1. token'[x] = token[x] /\ index'[x] = index[x] + 1 /\ due'[x] = due[x]
      BY <1>4 DEF GoesOn
    <2>2. x \in Live'
      BY <1>2, <2>1 DEF Live
    <2>3. index[x] \in Nat /\ due[x] \in Nat
      BY <1>1
    <2>4. Waited(x)' = Waited(x)
      BY <1>1, <1>2, <2>1, <2>3 DEF Waited
    <2> QED
      BY <1>2, <2>1, <2>2, <2>4 DEF Now
  <1>5. ASSUME Closes(x) PROVE Waited(x)' = 0
    BY <1>1, <1>2, <1>5 DEF Closes, Waited
  <1> QED
    BY <1>3, <1>4, <1>5

LEMMA InsideTurn ==
  ASSUME TypeOK, Inside, NEW x \in Sessions, Turn(x)
  PROVE  Inside'
  <1>1. clock \in Nat /\ token \in [Sessions -> Nat] /\ index \in [Sessions -> Nat] /\ due \in [Sessions -> Nat]
    BY DEF TypeOK, Counters
  <1>2. ASSUME NEW t \in Sessions \ {x}
        PROVE  /\ due'[t] + index'[t] <= clock'
               /\ index'[t] # 0 => t \in Live' /\ index'[t] < Len(Now(t)')
    <2>1. index'[t] = index[t] /\ due'[t] = due[t] /\ t \in Sessions /\ clock' = clock + 1
      BY DEF Turn, Rest
    <2>2. index[t] \in Nat /\ due[t] \in Nat
      BY <1>1, <2>1
    <2>3. (t \in Live' <=> t \in Live) /\ Now(t)' = Now(t)
      BY TurnWaits
    <2> QED
      BY <1>1, <2>1, <2>2, <2>3 DEF Inside
  <1>3. /\ due'[x] + index'[x] <= clock'
        /\ index'[x] # 0 => x \in Live' /\ index'[x] < Len(Now(x)')
    <2>1. CASE GoesOn(x)
      BY <1>1, <2>1, TurnWaits DEF Turn, GoesOn, Inside
    <2>2. CASE Closes(x)
      BY <1>1, <2>2 DEF Turn, Closes
    <2> QED
      BY <2>1, <2>2 DEF Turn
  <1> QED
    BY <1>2, <1>3 DEF Inside

-----------------------------------------------------------------------------
(* Debts, as accesses are served. *)

\* The lanes, and with them how long tokens get, stay as they are.
LEMMA TurnKeeps ==
  ASSUME NEW x, Turn(x)
  PROVE  /\ Promised' = Promised /\ (Short' <=> Short) /\ \A s : Longest(s)' = Longest(s)
         /\ \A s : Others(s)' = Others(s)
  BY DEF Turn, Promised, Short, Longest, Others

LEMMA OverdueAt ==
  ASSUME NEW s
  PROVE  s \in Overdue <=> s \in Live /\ ceiling[s] # 0 /\ Waited(s) >= ceiling[s]
  BY DEF Overdue

\* The one served is owed what it was.
LEMMA DebtServed ==
  ASSUME TypeOK, Inside, Late, NEW x \in Sessions, Turn(x), x \in Overdue'
  PROVE  \E D \in SUBSET Others(x) : Debt(x, D)'
  <1>1. /\ ceiling' = ceiling /\ ceiling[x] # 0 /\ ceiling[x] \in Nat
        /\ Waited(x)' >= ceiling[x]
    BY DEF Overdue, Turn, TypeOK, Counters
  <1>2. GoesOn(x)
    BY <1>1, TurnWaits DEF Turn
  <1>3. Waited(x)' = Waited(x) /\ x \in Live
    BY <1>2, TurnWaits DEF Turn
  <1>4. x \in Overdue
    BY <1>1, <1>3, OverdueAt
  <1>5. PICK D \in SUBSET Others(x) : Debt(x, D)
    BY <1>4 DEF Late
  <1>6. index'[x] = index[x] + 1 /\ index[x] \in Nat
    BY <1>2 DEF GoesOn, TypeOK, Counters
  <1>7. ASSUME NEW t \in Promised \ {x} PROVE OnToken(D, t)' \/ Finished(D, x, t)'
    <2>1. t \in Sessions \ {x}
      BY DEF Promised
    <2>2. /\ index'[t] = index[t] /\ Waited(t)' = Waited(t) + 1 /\ (t \in Live' <=> t \in Live)
      BY <2>1, TurnWaits DEF Turn, Rest
    <2>3. CASE OnToken(D, t)
      BY <2>2, <2>3 DEF OnToken
    <2>4. CASE Finished(D, x, t)
      <3>1. Cardinality(Apart(D, t)) \in Nat
        <4>1. capacity \in Nat /\ Promised \ {x} \in SUBSET Sessions
          BY DEF TypeOK, Promised
        <4>2. Apart(D, t) \in SUBSET ((Promised \ {x}) \X (1 .. capacity))
          BY DEF Apart, Others
        <4> QED
          BY <4>1, <4>2, AccessesCounted
      <3>2. t \in Live => Waited(t) \in Nat
        BY LiveToken
      <3>3. Apart(D, t)' = Apart(D, t)
        BY DEF Apart
      <3> QED
        BY <1>6, <2>2, <2>4, <3>1, <3>2, <3>3 DEF Finished
    <2> QED
      BY <1>5, <2>3, <2>4 DEF Debt
  <1>8. Promised' = Promised
    BY TurnKeeps
  <1> QED
    BY <1>1, <1>3, <1>5, <1>7, <1>8 DEF Debt

\* One that comes to be overdue owes nothing to the others yet.
LEMMA DebtNew ==
  ASSUME TypeOK, Inside, NEW x \in Sessions, Turn(x), NEW s \in Overdue', s # x, s \notin Overdue
  PROVE  \E D \in SUBSET Others(s) : Debt(s, D)'
  <1>1. /\ ceiling' = ceiling /\ ceiling[s] # 0 /\ s \in Sessions /\ s \in Live' /\ Waited(s)' >= ceiling[s]
    BY DEF Overdue, Turn, Live
  <1>2. Waited(s)' = Waited(s) + 1 /\ s \in Live
    BY <1>1, TurnWaits
  <1>3. Waited(s) \in Nat /\ ceiling[s] \in Nat
    BY <1>1, <1>2, LiveToken DEF TypeOK, Counters
  <1>4. Waited(s)' <= ceiling[s]
    BY <1>1, <1>2, <1>3, OverdueAt
  <1>5. Cardinality({}) = 0
    BY FS_EmptySet
  <1>6. \A t : OnToken({}, t)'
    BY DEF OnToken
  <1>7. Debt(s, {})'
    BY <1>1, <1>2, <1>3, <1>4, <1>5, <1>6 DEF Debt
  <1> QED
    BY <1>7

\* One that stays overdue waits for an access of the one served, which has not
\* finished a token since.
LEMMA DebtGrows ==
  ASSUME TypeOK, Inside, Room, Short, Late, NEW x \in Sessions, Turn(x), x = Min(Overdue),
         NEW s \in Overdue', s # x, s \in Overdue
  PROVE  \E D \in SUBSET Others(s) : Debt(s, D)'
  <1>1. /\ x \in Overdue /\ s \in Live /\ x \in Live /\ s \in Promised /\ x \in Promised
        /\ s \in Sessions /\ capacity \in Nat /\ ceiling' = ceiling
    BY OverdueLive DEF TypeOK, Turn
  <1>2. PICK D \in SUBSET Others(s) : Debt(s, D)
    BY DEF Late
  <1>3. PICK k \in Nat : k = index[x] + 1 /\ k \in 1 .. capacity
    <2>1. /\ Len(Now(x)) \in Nat /\ Longest(x) \in Nat /\ Len(Now(x)) <= Longest(x)
          /\ Longest(x) <= capacity /\ index[x] \in Nat
      BY <1>1, LiveToken DEF Short, TypeOK, Counters
    <2>2. index[x] + 1 <= Len(Now(x))
      BY <2>1 DEF Turn, GoesOn, Closes
    <2> QED
      BY <1>1, <2>1, <2>2
  <1>4. index[s] \in Nat /\ index[s] < capacity
    <2>1. /\ Len(Now(s)) \in Nat /\ Longest(s) \in Nat /\ Len(Now(s)) <= Longest(s)
          /\ Longest(s) <= capacity /\ index[s] \in Nat /\ (index[s] = 0 \/ index[s] < Len(Now(s)))
      BY <1>1, LiveToken DEF Short, TypeOK, Counters
    <2> QED
      BY <1>1, <1>3, <2>1
  <1>5. OnToken(D, x)
    <2>1. x \in Promised \ {s}
      BY <1>1
    <2>2. Waited(x) \in Nat /\ ceiling[x] \in Nat /\ Waited(x) >= ceiling[x]
      BY <1>1, LiveToken, OverdueAt DEF TypeOK, Counters
    <2>3. ~Finished(D, s, x)
      <3> SUFFICES ASSUME Finished(D, s, x) PROVE FALSE
        OBVIOUS
      <3>1. Waited(x) < ceiling[x]
        BY <1>1, <1>4, <2>1, FinishedNotOverdue
      <3> QED
        BY <2>2, <3>1
    <2> QED
      BY <1>2, <2>1, <2>3 DEF Debt
  <1> DEFINE new == <<x, k>>
             E == D \cup {new}
  <1>6. new \notin D /\ E \in SUBSET Others(s)
    <2>1. index[x] \in Nat
      BY DEF TypeOK, Counters
    <2>2. new \notin D
      <3> SUFFICES ASSUME new \in D PROVE FALSE
        OBVIOUS
      <3>1. k <= index[x]
        BY <1>5 DEF OnToken
      <3> QED
        BY <1>3, <2>1, <3>1
    <2> QED
      BY <1>1, <1>3, <2>2 DEF Others
  <1>7. IsFiniteSet(D) /\ Cardinality(D) \in Nat /\ Cardinality(E) = Cardinality(D) + 1
    <2>1. Promised \ {s} \in SUBSET Sessions
      BY DEF Promised
    <2>2. IsFiniteSet(D) /\ Cardinality(D) \in Nat
      BY <1>1, <2>1, AccessesCounted DEF Others
    <2> QED
      BY <1>6, <2>2, FS_AddElement
  <1>8. Waited(s)' = Waited(s) + 1 /\ Waited(s) \in Nat /\ ceiling[s] \in Nat
    BY <1>1, TurnWaits, LiveToken DEF TypeOK, Counters
  <1>9. Waited(s)' <= ceiling'[s] + Cardinality(E)
    BY <1>1, <1>2, <1>7, <1>8 DEF Debt
  <1>10. ASSUME NEW t \in Promised \ {s} PROVE OnToken(E, t)' \/ Finished(E, s, t)'
    <2>1. CASE t = x /\ GoesOn(x)
      <3>1. index'[x] = k /\ index[x] \in Nat
        BY <1>3, <2>1 DEF GoesOn, TypeOK, Counters
      <3>2. ASSUME NEW d \in E, d[1] = x PROVE d[2] <= k
        <4>1. CASE d = new
          BY <4>1
        <4>2. CASE d \in D
          <5>1. d[2] \in Nat /\ d[2] <= index[x]
            BY <1>5, <3>2, <4>2 DEF OnToken, Others
          <5> QED
            BY <1>3, <3>1, <5>1
        <4> QED
          BY <4>1, <4>2
      <3> HIDE DEF E
      <3> QED
        BY <2>1, <3>1, <3>2 DEF OnToken
    <2>2. CASE t = x /\ Closes(x)
      <3>1. index'[x] = 0 /\ Waited(x)' = 0
        BY <2>2, TurnWaits DEF Closes
      <3>2. Apart(E, t) \in SUBSET ((Promised \ {s}) \X (1 .. capacity)) /\ Promised \ {s} \in SUBSET Sessions
        BY <1>6 DEF Apart, Others, Promised
      <3>3. Cardinality(Apart(E, t)) \in Nat /\ index'[s] \in Nat
        BY <1>1, <3>2, AccessesCounted DEF Turn, Counters
      <3>4. Apart(E, t)' = Apart(E, t)
        BY DEF Apart
      <3> HIDE DEF E
      <3> QED
        BY <2>2, <3>1, <3>3, <3>4 DEF Finished
    <2>3. CASE t # x
      <3>1. t \in Sessions \ {x}
        BY <2>3 DEF Promised
      <3>2. /\ index'[t] = index[t] /\ Waited(t)' = Waited(t) + 1 /\ (t \in Live' <=> t \in Live)
            /\ index'[s] = index[s]
        BY <1>1, <3>1, TurnWaits DEF Turn, Rest
      <3>3. CASE OnToken(D, t)
        BY <2>3, <3>2, <3>3 DEF OnToken
      <3>4. CASE Finished(D, s, t)
        <4>1. Apart(E, t) = Apart(D, t) \cup {new} /\ new \notin Apart(D, t)
          BY <1>6, <2>3 DEF Apart
        <4>2. IsFiniteSet(Apart(D, t)) /\ Cardinality(Apart(D, t)) \in Nat
          <5>1. Apart(D, t) \in SUBSET D
            BY DEF Apart
          <5> QED
            BY <1>7, <5>1, FS_Subset, FS_CardinalityType
        <4>3. Cardinality(Apart(E, t)) = Cardinality(Apart(D, t)) + 1
          BY <4>1, <4>2, FS_AddElement
        <4>4. t \in Live => Waited(t) \in Nat
          BY LiveToken
        <4>5. Apart(E, t)' = Apart(E, t)
          BY DEF Apart
        <4> HIDE DEF E
        <4> QED
          BY <1>4, <3>2, <3>4, <4>2, <4>3, <4>4, <4>5 DEF Finished
      <3> QED
        BY <1>2, <3>3, <3>4 DEF Debt
    <2> QED
      BY <2>1, <2>2, <2>3 DEF Turn
  <1>11. Promised' = Promised
    BY TurnKeeps
  <1> HIDE DEF E
  <1>12. Debt(s, E)'
    BY <1>9, <1>10, <1>11 DEF Debt
  <1> QED
    BY <1>6, <1>12

-----------------------------------------------------------------------------
(* Each step keeps the invariant. *)

LEMMA LateTurn ==
  ASSUME TypeOK, Inside, Room, Short, Late, rule = "parameter", NEW x \in Sessions, Turn(x), Pick(x)
  PROVE  Late'
  <1>1. SUFFICES ASSUME NEW s \in Overdue' PROVE \E D \in SUBSET Others(s) : Debt(s, D)'
    BY TurnKeeps DEF Late
  <1>2. CASE s = x
    BY <1>2, DebtServed
  <1>3. CASE s # x /\ s \notin Overdue
    BY <1>3, DebtNew
  <1>4. CASE s # x /\ s \in Overdue
    <2>1. x = Min(Overdue)
      BY <1>4 DEF Pick, ParameterPick
    <2> QED
      BY <1>4, <2>1, DebtGrows
  <1> QED
    BY <1>2, <1>3, <1>4

\* How long a live session that was promised a ceiling has waited.
LEMMA WaitBounded ==
  ASSUME TypeOK, Inside, Room, Late, NEW s \in Live, s \in Promised
  PROVE  Waited(s) <= 2 * ceiling[s]
  <1>1. Waited(s) \in Nat /\ ceiling[s] \in Nat /\ ceiling[s] # 0
    BY LiveToken DEF TypeOK, Counters, Promised
  <1>2. CASE s \in Overdue
    <2>1. PICK D \in SUBSET Others(s) : Debt(s, D)
      BY <1>2 DEF Late
    <2> QED
      BY <2>1, DebtBounded
  <1>3. CASE s \notin Overdue
    <2>1. ~(Waited(s) >= ceiling[s])
      BY <1>1, <1>3, OverdueAt
    <2> QED
      BY <1>1, <2>1
  <1> QED
    BY <1>2, <1>3

LEMMA KeptTurn ==
  ASSUME TypeOK, Inside, Room, Late, Kept, NEW x \in Sessions, Turn(x)
  PROVE  Kept'
  <1>1. SUFFICES ASSUME NEW s \in Promised PROVE worst'[s] <= Longest(s) + 2 * ceiling[s]
    BY TurnKeeps DEF Kept, Turn
  <1>2. s \in Sessions /\ worst[s] <= Longest(s) + 2 * ceiling[s]
    BY DEF Kept, Promised
  <1>3. CASE s # x \/ GoesOn(x)
    BY <1>2, <1>3 DEF Turn, Rest, GoesOn
  <1>4. CASE s = x /\ Closes(x)
    <2>1. x \in Live
      BY DEF Turn
    <2>2. /\ Len(Now(x)) \in Nat /\ Longest(x) \in Nat /\ Len(Now(x)) <= Longest(x)
          /\ Waited(x) \in Nat /\ Waited(x) <= 2 * ceiling[x]
      BY <1>4, <2>1, LiveToken, WaitBounded
    <2>3. clock \in Nat /\ due[x] \in Nat /\ index[x] \in Nat /\ worst[x] \in Nat /\ ceiling[x] \in Nat
      BY DEF TypeOK, Counters
    <2>4. clock + 1 - due[x] = Waited(x) + Len(Now(x))
      <3>1. Waited(x) = clock - due[x] - index[x]
        BY DEF Waited
      <3>2. index[x] + 1 = Len(Now(x))
        BY <1>4 DEF Closes
      <3>3. PICK c \in Nat, d \in Nat, i \in Nat : c = clock /\ d = due[x] /\ i = index[x]
        BY <2>3
      <3>4. Waited(x) = c - d - i /\ i + 1 = Len(Now(x))
        BY <3>1, <3>2, <3>3
      <3>5. c + 1 - d = Waited(x) + Len(Now(x))
        BY <3>4
      <3> QED
        BY <3>3, <3>5
    <2>5. PICK period \in Nat : period = clock + 1 - due[x]
      BY <2>2, <2>4
    <2>6. period <= Longest(x) + 2 * ceiling[x]
      BY <2>2, <2>3, <2>4, <2>5, SMTT(20)
    <2>7. worst'[x] \in {worst[x], period}
      <3>1. PICK a \in Nat : a = worst[x]
        BY <2>3
      <3>2. worst'[x] = Max({a, period})
        BY <1>4, <2>5, <3>1 DEF Closes
      <3> QED
        BY <3>1, <3>2, MaxOfTwo
    <2> QED
      BY <1>2, <1>4, <2>6, <2>7
  <1> QED
    BY <1>3, <1>4 DEF Turn

LEMMA BarrierTurn ==
  ASSUME TypeOK, Inside, Barrier, NEW x \in Sessions, Turn(x), Pick(x)
  PROVE  Barrier'
  <1>1. rule' = rule /\ ceiling' = ceiling
    BY DEF Turn
  <1>2. SUFFICES ASSUME rule = "parameter", \A s \in Sessions : ceiling[s] = 0,
                        NEW s \in Sessions, NEW t \in Live'
                 PROVE  token'[s] <= token'[t] \/ (token'[s] = token'[t] + 1 /\ index'[s] = 0)
    BY <1>1 DEF Barrier
  <1>3. \A u \in Sessions : token[u] \in Nat /\ index[u] \in Nat
    BY DEF TypeOK, Counters
  <1>4. t \in Live /\ t \in Sessions /\ x \in Live
    <2>1. x \in Live /\ t \in Sessions
      BY DEF Turn, Live
    <2> QED
      BY <2>1, TurnWaits
  <1>5. token[s] <= token[t] \/ (token[s] = token[t] + 1 /\ index[s] = 0)
    BY <1>2, <1>4 DEF Barrier
  <1>6. token[x] <= token[t]
    <2>1. Overdue = {}
      BY <1>2, OverdueLive DEF Promised
    <2>2. \A u \in Live \ {x} : Behind(x, u)
      BY <1>2, <2>1 DEF Pick, ParameterPick
    <2>3. CASE t = x
      BY <1>3, <1>4, <2>3
    <2>4. CASE t # x
      BY <1>3, <1>4, <2>2, <2>4 DEF Behind
    <2> QED
      BY <2>3, <2>4
  <1>7. \A u \in Sessions \ {x} : token'[u] = token[u] /\ index'[u] = index[u]
    BY DEF Turn, Rest
  <1>8. token'[x] = token[x] \/ (token'[x] = token[x] + 1 /\ index'[x] = 0)
    BY DEF Turn, GoesOn, Closes
  <1>9. CASE s = x
    <2>1. token'[t] >= token[t] /\ (t = x => token'[t] = token'[s])
      BY <1>3, <1>4, <1>7, <1>8, <1>9
    <2>2. token'[s] <= token[t] \/ (token'[s] = token[t] + 1 /\ index'[s] = 0)
      BY <1>3, <1>4, <1>6, <1>8, <1>9
    <2>3. CASE t = x
      BY <1>3, <1>8, <1>9, <2>3
    <2>4. CASE t # x
      BY <1>4, <1>7, <2>2, <2>4
    <2> QED
      BY <2>3, <2>4
  <1>10. CASE s # x
    <2>1. token'[s] = token[s] /\ index'[s] = index[s]
      BY <1>7, <1>10
    <2>2. token'[t] = token[t] \/ token'[t] = token[t] + 1
      BY <1>4, <1>7, <1>8
    <2> QED
      BY <1>3, <1>4, <1>5, <2>1, <2>2
  <1> QED
    BY <1>9, <1>10

LEMMA AppendSeq ==
  ASSUME NEW s, \E any : s \in Seq(any), NEW e
  PROVE  \E any : Append(s, e) \in Seq(any)
  <1>1. PICK any : s \in Seq(any)
    OBVIOUS
  <1>2. s \in Seq(any \cup {e}) /\ e \in any \cup {e}
    BY <1>1
  <1>3. Append(s, e) \in Seq(any \cup {e})
    BY <1>2
  <1> QED
    BY <1>3

LEMMA ServeKeeps ==
  ASSUME SInv, NEW x \in Sessions, Serve(x)
  PROVE  SInv'
  <1>1. TypeOK /\ Room /\ Inside /\ Barrier /\ Turn(x) /\ Pick(x)
    BY ServeTurns DEF SInv, Serve
  <1>2. TypeOK'
    <2>1. \E any : merged' \in Seq(any)
      BY <1>1, AppendSeq DEF Serve, TypeOK
    <2>2. clock' \in Nat
      BY <1>1 DEF Turn, TypeOK
    <2> QED
      BY <1>1, <2>1, <2>2 DEF TypeOK, Turn, Laned
  <1>3. Room'
    BY <1>1, TurnKeeps DEF Room, Turn
  <1>4. Inside' /\ Barrier'
    BY <1>1, InsideTurn, BarrierTurn
  <1>5. rule' = "parameter" /\ Short' => Late' /\ Kept'
    BY <1>1, TurnKeeps, LateTurn, KeptTurn DEF SInv, Turn
  <1> QED
    BY <1>2, <1>3, <1>4, <1>5 DEF SInv

-----------------------------------------------------------------------------
(* The cut of a trace makes lanes, and lanes are where the loop starts. *)

LEMMA NumberedIsSequence ==
  ASSUME NEW n \in Nat, NEW f, DOMAIN f = 1 .. n, f = [k \in 1 .. n |-> f[k]]
  PROVE  IsSequence(f) /\ Len(f) = n
  <1>1. PICK any : any = {f[k] : k \in 1 .. n}
    OBVIOUS
  <1>2. f \in [1 .. n -> any]
    BY <1>1
  <1>3. f \in Seq(any) /\ Len(f) = n
    BY <1>2
  <1> QED
    BY <1>3 DEF IsSequence

LEMMA FillIsLane ==
  ASSUME NEW accesses, NEW n \in Nat, DOMAIN accesses = 1 .. n, NEW s
  PROVE  IsLane(Fill(accesses, s))
  <1> DEFINE begins == {i \in Own(accesses, s) : Begins(accesses, s, i)}
             of(t)  == {i \in Own(accesses, s) : Cardinality({j \in begins : j <= i}) = t}
             tk(t)  == [k \in 1 .. Cardinality(of(t)) |-> accesses[Nth(of(t), k)][2]]
             lane   == [t \in 1 .. Cardinality(begins) |-> tk(t)]
  <1>1. ASSUME NEW S \in SUBSET Own(accesses, s)
        PROVE  Cardinality(S) \in Nat
    <2>1. S \in SUBSET (1 .. n) /\ IsFiniteSet(1 .. n)
      BY FS_Interval DEF Own
    <2> QED
      BY <2>1, FS_Subset, FS_CardinalityType
  <1>2. Cardinality(begins) \in Nat
    <2>1. begins \in SUBSET Own(accesses, s)
      OBVIOUS
    <2> QED
      BY <1>1, <2>1
  <1>3. ASSUME NEW t
        PROVE  IsSequence(tk(t))
    <2>1. of(t) \in SUBSET Own(accesses, s)
      OBVIOUS
    <2>2. Cardinality(of(t)) \in Nat
      BY <1>1, <2>1
    <2> HIDE DEF of
    <2> QED
      BY <2>2, NumberedIsSequence
  <1> HIDE DEF begins, tk
  <1>4. IsSequence(lane) /\ \A t \in DOMAIN lane : lane[t] = tk(t)
    BY <1>2, NumberedIsSequence
  <1>5. IsLane(lane)
    BY <1>3, <1>4 DEF IsLane
  <1>6. Fill(accesses, s) = lane
    BY DEF Fill, begins, tk
  <1> QED
    BY <1>5, <1>6

LEMMA BuildLaned ==
  ASSUME NEW accesses, NEW n \in Nat, DOMAIN accesses = 1 .. n, NEW vacant
  PROVE  Laned(Build(accesses, Sessions, vacant))
  <1>1. ASSUME NEW s \in Sessions
        PROVE  IsLane(Build(accesses, Sessions, vacant)[s])
    <2>1. IsLane(<<>>)
      <3>1. Len(<<>>) = 0 /\ DOMAIN <<>> = {} /\ 1 .. 0 = {}
        OBVIOUS
      <3> QED
        BY <3>1 DEF IsLane, IsSequence
    <2>2. Build(accesses, Sessions, vacant)[s] \in {Fill(accesses, s), <<>>}
      BY DEF Build
    <2> QED
      BY <2>1, <2>2, FillIsLane
  <1>2. DOMAIN Build(accesses, Sessions, vacant) = Sessions
    BY DEF Build
  <1> QED
    BY <1>1, <1>2 DEF Laned

\* g is f and then part.
Joined(g, f, part) ==
  /\ Len(g) = Len(f) + Len(part)
  /\ \A a \in 1 .. Len(f) : g[a] = f[a]
  /\ \A j \in 1 .. Len(part) : g[Len(f) + j] = part[j]

LEMMA JoinAt ==
  ASSUME NEW any, NEW f \in Seq(any), NEW part \in Seq(any)
  PROVE  Joined(f \o part, f, part)
  <1>1. PICK n \in Nat, m \in Nat : n = Len(f) /\ m = Len(part)
    OBVIOUS
  <1>2. PICK g : g = f \o part
    OBVIOUS
  <1>3. /\ Len(g) = n + m
        /\ \A a \in 1 .. n : g[a] = f[a]
        /\ \A j \in 1 .. m : g[n + j] = part[j]
    BY <1>1, <1>2
  <1> QED
    BY <1>1, <1>2, <1>3 DEF Joined

\* The fourth line of a text is in its header.
LEMMA FourthLine ==
  ASSUME NEW all, NEW head \in Seq(all), Len(head) = 4, NEW body \in Seq(all)
  PROVE  (head \o body)[4] = head[4]
  <1>1. Joined(head \o body, head, body)
    BY JoinAt
  <1> QED
    BY <1>1 DEF Joined

\* What is read back of a rendered trace is as long as the trace.
LEMMA ParsedDomain ==
  ASSUME NEW accesses, \E any : accesses \in Seq(any), NEW room,
         NEW parsed \in ParseTrace(Render(accesses), room)
  PROVE  \E n \in Nat : DOMAIN parsed = 1 .. n
  <1> DEFINE head == <<Field("mlos-trace", 1), Field("model", "synth"), Field("source", "Decode"),
                       Field("accesses", Len(accesses))>>
             body == [i \in DOMAIN accesses |-> [session |-> accesses[i][1], object |-> accesses[i][2]]]
  <1>1. Len(accesses) \in Nat /\ DOMAIN accesses = 1 .. Len(accesses)
    OBVIOUS
  <1>2. PICK all : all = {head[i] : i \in 1 .. 4} \cup {body[i] : i \in DOMAIN accesses}
    OBVIOUS
  <1>3. head \in Seq(all) /\ Len(head) = 4
    BY <1>2
  <1>4. body \in Seq(all)
    <2>1. body \in [1 .. Len(accesses) -> all]
      BY <1>1, <1>2
    <2> QED
      BY <1>1, <2>1
  <1>5. head[4].value = Len(accesses)
    BY DEF Field
  <1>6. Render(accesses) = head \o body
    BY DEF Render
  <1> HIDE DEF head, body
  <1>7. Render(accesses)[4] = head[4]
    <2>1. (head \o body)[4] = head[4]
      BY <1>3, <1>4, FourthLine
    <2> QED
      BY <1>6, <2>1, Zenon
  <1>8. DOMAIN parsed = 1 .. Render(accesses)[4].value
    BY DEF ParseTrace
  <1> QED
    BY <1>1, <1>5, <1>7, <1>8

Fresh ==
  /\ capacity \in Nat /\ ceilings \in SUBSET Nat /\ rule \in Rules /\ Laned(lanes)
  /\ ceiling \in {Zero} \cup Admitted(ceilings, capacity)
  /\ token = Zero /\ index = Zero /\ due = Zero /\ worst = Zero /\ clock = 0 /\ merged = <<>>

LEMMA FreshSafe == Fresh => SInv
  <1> SUFFICES ASSUME Fresh PROVE SInv
    OBVIOUS
  <1>1. Zero \in Counters /\ \A s \in Sessions : Zero[s] = 0
    BY DEF Zero, Counters
  <1>2. ceiling \in Counters /\ Room
    <2>1. CASE ceiling = Zero
      BY <1>1, <2>1 DEF Room, Promised
    <2>2. CASE ceiling \in Admitted(ceilings, capacity)
      <3>1. /\ ceiling \in Counters
            /\ \A s \in Asking(ceiling) : ceiling[s] >= capacity * (Cardinality(Asking(ceiling)) - 1)
        BY <2>2, AdmittedRoom DEF Fresh
      <3>2. Asking(ceiling) = Promised
        BY DEF Asking, Promised
      <3> QED
        BY <3>1, <3>2 DEF Room
    <2> QED
      BY <2>1, <2>2 DEF Fresh
  <1>3. TypeOK
    <2>1. merged \in Seq({})
      BY DEF Fresh
    <2> QED
      BY <1>1, <1>2, <2>1 DEF Fresh, TypeOK
  <1>4. \A s \in Sessions : token[s] = 0 /\ index[s] = 0 /\ due[s] = 0 /\ worst[s] = 0
    BY <1>1 DEF Fresh
  <1>5. Inside
    BY <1>4 DEF Inside, Fresh
  <1>6. Barrier
    BY <1>4 DEF Barrier, Live
  <1>7. Late
    <2>1. ASSUME NEW s \in Overdue PROVE FALSE
      <3>1. s \in Sessions /\ ceiling[s] # 0 /\ Waited(s) >= ceiling[s]
        BY DEF Overdue, Live
      <3>2. Waited(s) = 0 /\ ceiling[s] \in Nat
        BY <1>2, <1>4, <3>1 DEF Waited, Fresh, Counters
      <3> QED
        BY <3>1, <3>2
    <2> QED
      BY <2>1 DEF Late
  <1>8. Kept
    <2>1. ASSUME NEW s \in Promised PROVE worst[s] <= Longest(s) + 2 * ceiling[s]
      <3>1. s \in Sessions /\ Longest(s) \in Nat
        BY LongestIs DEF Promised, Fresh, Laned
      <3>2. worst[s] = 0 /\ ceiling[s] \in Nat
        BY <1>2, <1>4, <3>1 DEF Counters
      <3> QED
        BY <3>1, <3>2
    <2> QED
      BY <2>1 DEF Kept
  <1> QED
    BY <1>2, <1>3, <1>5, <1>6, <1>7, <1>8 DEF SInv

LEMMA InitSafe == Init => SInv
  <1> SUFFICES ASSUME Init PROVE Fresh
    BY FreshSafe
  <1>1. PICK setup \in Setups :
          /\ capacity = setup.token /\ ceilings = setup.ceilings
          /\ declared \in setup.lanes /\ rule = setup.rule
          /\ ceiling \in IF setup.disk THEN {Zero} ELSE Admitted(setup.ceilings, setup.token)
    BY DEF Init
  <1>2. capacity \in Nat /\ ceilings \in SUBSET Nat /\ rule \in Rules
    BY <1>1
  <1>3. ceiling \in {Zero} \cup Admitted(ceilings, capacity)
    BY <1>1
  <1>4. Laned(lanes)
    BY <1>1 DEF Init, Laned
  <1> QED
    BY <1>2, <1>3, <1>4 DEF Init, Fresh

LEMMA PrepareKeeps ==
  ASSUME SInv, NEW by \in Rules, NEW promised \in Admitted(ceilings, capacity), NEW vacant,
         Prepare(by, promised, vacant)
  PROVE  Fresh'
  <1>1. PICK accesses \in ParseTrace(Render(merged), Accesses) :
          lanes' = Build(accesses, Sessions, vacant)
    BY DEF Prepare
  <1>2. \E any : merged \in Seq(any)
    BY DEF SInv, TypeOK
  <1>3. Laned(lanes')
    BY <1>1, <1>2, ParsedDomain, BuildLaned
  <1>4. capacity' = capacity /\ ceilings' = ceilings
    BY DEF Prepare, setting
  <1>5. /\ rule' = by /\ ceiling' = promised /\ token' = Zero /\ index' = Zero /\ due' = Zero
        /\ worst' = Zero /\ clock' = 0 /\ merged' = <<>>
    BY DEF Prepare
  <1>6. capacity \in Nat /\ ceilings \in SUBSET Nat
    BY DEF SInv, TypeOK
  <1>7. Zero' = Zero /\ Laned(lanes)' /\ Admitted(ceilings, capacity)' = Admitted(ceilings, capacity)
    BY <1>3, <1>4 DEF Zero, Laned, Admitted
  <1> QED
    BY <1>4, <1>5, <1>6, <1>7 DEF Fresh

\* A step that leaves the cursors, the lanes and the promises alone.
Still == UNCHANGED <<capacity, ceilings, token, index, due, clock, worst, merged, rule, lanes, ceiling>>

LEMMA StillKeeps ==
  ASSUME SInv, Still
  PROVE  SInv'
  <1>1. TypeOK' /\ Room' /\ Inside'
    <2>1. TypeOK'
      BY DEF SInv, Still, TypeOK, Counters
    <2>2. Room'
      BY DEF SInv, Still, Room, Promised
    <2>3. Inside'
      BY DEF SInv, Still, Inside, Live, Now
    <2> QED
      BY <2>1, <2>2, <2>3
  <1>2. Barrier'
    BY DEF SInv, Still, Barrier, Live
  <1>3. rule' = rule /\ (Short' <=> Short) /\ (Kept' <=> Kept)
    BY DEF Still, Short, Kept, Longest, Promised
  <1>4. Late => Late'
    <2>1. Overdue' = Overdue /\ \A s : Others(s)' = Others(s)
      BY DEF Still, Overdue, Live, Waited, Others, Promised
    <2>2. \A s, D : Debt(s, D)' <=> Debt(s, D)
      BY DEF Still, Debt, Promised, Waited, OnToken, Finished, Apart, Live
    <2> QED
      BY <2>1, <2>2 DEF Late
  <1> QED
    BY <1>1, <1>2, <1>3, <1>4 DEF SInv

LEMMA StepSafe == SInv /\ [Next]_vars => SInv'
  <1> SUFFICES ASSUME SInv, [Next]_vars PROVE SInv'
    OBVIOUS
  <1>1. ASSUME NEW s \in Sessions, Serve(s) PROVE SInv'
    BY <1>1, ServeKeeps
  <1>2. ASSUME NEW by \in Rules, NEW promised \in Admitted(ceilings, capacity), NEW vacant \in Slots,
               Prepare(by, promised, vacant)
        PROVE  SInv'
    <2>1. Fresh'
      BY <1>2, PrepareKeeps
    <2>2. (Fresh => SInv)'
      BY FreshSafe, PTL
    <2> QED
      BY <2>1, <2>2
  <1>3. CASE Merged \/ Unparsed \/ Ordered \/ UNCHANGED vars
    <2>1. Still
      BY <1>3 DEF Merged, Unparsed, Ordered, vars, setting, cursors, Still
    <2> QED
      BY <2>1, StillKeeps
  <1> QED
    BY <1>1, <1>2, <1>3 DEF Next

\* What the drivers' loop keeps, on the host and in the kernel.
THEOREM ScheduleInductive == Spec => []SInv
  BY InitSafe, StepSafe, PTL DEF Spec

-----------------------------------------------------------------------------
(* The theorems. *)

LEMMA BoundHolds == SInv => PeriodBounded
  <1> SUFFICES ASSUME SInv PROVE PeriodBounded
    OBVIOUS
  <1>1. TypeOK /\ Inside /\ Room
    BY DEF SInv
  <1>2. \A s \in Live : Waited(s) >= 0
    BY <1>1, LiveToken
  <1>3. ASSUME rule = "parameter", \A s \in Sessions : Longest(s) <= capacity,
               NEW s \in Sessions, ceiling[s] # 0
        PROVE  /\ worst[s] <= Longest(s) + 2 * ceiling[s]
               /\ s \in Live => Waited(s) <= 2 * ceiling[s]
    <2>1. Late /\ Kept /\ s \in Promised
      BY <1>3 DEF SInv, Short, Promised
    <2> QED
      BY <1>1, <2>1, WaitBounded DEF Kept
  <1> QED
    BY <1>2, <1>3 DEF PeriodBounded

\* Under parameter-major, whatever the sessions ask for and whatever ceilings
\* admission let in, no token of a promised session takes longer than its own
\* length and twice the ceiling, as long as tokens are no longer than admission
\* counted; and no wait goes below zero.
THEOREM TokensOnTime == Spec => []PeriodBounded
  BY ScheduleInductive, BoundHolds, PTL

\* ParameterMajor::pick's lockstep: where no contract has a ceiling nobody
\* starts a token before everyone has finished the last, on the host's lanes
\* and on those the kernel cuts.
THEOREM LockstepHolds == Spec => []Barrier
  <1>1. SInv => Barrier
    BY DEF SInv
  <1> QED
    BY <1>1, ScheduleInductive, PTL

-----------------------------------------------------------------------------
(* The rounds of ProcessMajor. *)

\* How many tokens s has finished in a round numbered r, if it had as many: one
\* more than r once the round is past it.
Reached(s, r) ==
  IF s < current \/ (s = current /\ started /\ index[s] = 0) THEN r + 1 ELSE r

InRound(r) ==
  \A s \in Sessions : token[s] <= Reached(s, r) /\ (s \in Live => token[s] = Reached(s, r))

RInv ==
  /\ SInv /\ current \in Sessions /\ started \in BOOLEAN
  /\ rule = "process" =>
       /\ \A s \in Sessions : index[s] # 0 => s = current
       /\ \E r \in Nat : InRound(r)

LEMMA RotationIs ==
  ASSUME current \in Sessions, NEW s \in Sessions
  PROVE  Rotation(s) = IF s > current THEN s - current - 1 ELSE s - current - 1 + K
  <1>1. s \in Nat /\ current \in Nat /\ s < K /\ current < K /\ K \in Nat \ {0}
    BY DEF Sessions
  <1>2. CASE s > current
    <2>1. PICK d \in Nat : d = s - current - 1 /\ d < K
      BY <1>1, <1>2
    <2>2. (d + K) % K = d
      BY <1>1, <2>1
    <2>3. s - current - 1 + K = d + K
      BY <1>1, <2>1
    <2> QED
      BY <1>2, <2>1, <2>2, <2>3 DEF Rotation
  <1>3. CASE s <= current
    <2>1. PICK d \in Nat : d = s - current - 1 + K /\ d < K
      BY <1>1, <1>3
    <2>2. d % K = d
      BY <1>1, <2>1
    <2> QED
      BY <1>1, <1>3, <2>1, <2>2 DEF Rotation
  <1> QED
    BY <1>1, <1>2, <1>3

\* ProcessMajor serves the session whose token is not over, or else the next
\* with anything left, behind which nobody of the round is left out.
LEMMA PickNext ==
  ASSUME TypeOK, Inside, current \in Sessions, started \in BOOLEAN,
         \A s \in Sessions : index[s] # 0 => s = current,
         NEW x \in Sessions, ProcessPick(x)
  PROVE  \/ x = current /\ (index[x] # 0 \/ ~started)
         \/ /\ index[x] = 0 /\ index[current] = 0
            /\ current \in Live => started
            /\ \/ x > current /\ \A t \in Live : t <= current \/ x <= t
               \/ x <= current /\ \A t \in Live : t <= current /\ x <= t
  <1>1. CASE current \in Live /\ (index[current] # 0 \/ ~started)
    BY <1>1 DEF ProcessPick
  <1>2. CASE ~(current \in Live /\ (index[current] # 0 \/ ~started))
    <2>1. index[current] = 0
      BY <1>2 DEF Inside
    <2>2. index[x] = 0 /\ (current \in Live => started)
      BY <1>2, <2>1
    <2>3. x \in Live /\ \A t \in Live : Rotation(x) <= Rotation(t)
      BY <1>2 DEF ProcessPick
    <2>4. x \in 0 .. K - 1 /\ current \in 0 .. K - 1 /\ Live \in SUBSET Sessions /\ K \in Nat
      BY DEF Sessions, Live
    <2>5. ASSUME NEW t \in Live
          PROVE  /\ x > current => t <= current \/ x <= t
                 /\ x <= current => t <= current /\ x <= t
      <3>1. t \in 0 .. K - 1 /\ Rotation(x) <= Rotation(t) /\ t \in Sessions
        BY <2>3, <2>4 DEF Sessions
      <3>2. Rotation(t) = IF t > current THEN t - current - 1 ELSE t - current - 1 + K
        BY <3>1, RotationIs
      <3>3. Rotation(x) = IF x > current THEN x - current - 1 ELSE x - current - 1 + K
        BY RotationIs
      <3> QED
        BY <2>4, <3>1, <3>2, <3>3
    <2> QED
      BY <2>1, <2>2, <2>4, <2>5
  <1> QED
    BY <1>1, <1>2

LEMMA RoundTurn ==
  ASSUME TypeOK, Inside, current \in Sessions, started \in BOOLEAN,
         \A s \in Sessions : index[s] # 0 => s = current,
         NEW r \in Nat, InRound(r),
         NEW x \in Sessions, Turn(x), ProcessPick(x), current' = x, started' = TRUE,
         NEW q \in Nat, q = token[x]
  PROVE  /\ \A s \in Sessions : index'[s] # 0 => s = current'
         /\ InRound(q)'
  <1>1. /\ \A s \in Sessions : s \in Nat /\ token[s] \in Nat /\ index[s] \in Nat
        /\ current \in Nat /\ x \in Nat
    <2>1. Sessions \in SUBSET Nat
      BY DEF Sessions
    <2>2. token \in [Sessions -> Nat] /\ index \in [Sessions -> Nat]
      BY DEF TypeOK, Counters
    <2> QED
      BY <2>1, <2>2
  <1>2. \A t \in Sessions \ {x} :
          token'[t] = token[t] /\ index'[t] = index[t] /\ (t \in Live' <=> t \in Live)
    BY TurnWaits DEF Turn, Rest
  <1>3. \/ token'[x] = token[x] /\ index'[x] # 0
        \/ token'[x] = token[x] + 1 /\ index'[x] = 0
    BY <1>1 DEF Turn, GoesOn, Closes
  <1>4. x \in Live /\ token[x] = Reached(x, r)
    BY DEF Turn, InRound
  <1>5. /\ \A s \in Sessions : Reached(s, r)' = (IF s < x \/ (s = x /\ index'[s] = 0) THEN r + 1 ELSE r)
        /\ \A s \in Sessions : Reached(s, r + 1)' = (IF s < x \/ (s = x /\ index'[s] = 0) THEN r + 2 ELSE r + 1)
    BY DEF Reached
  <1>6. index[x] = 0 \/ x = current
    OBVIOUS
  <1>7. ASSUME NEW s \in Sessions, index'[s] # 0 PROVE s = current'
    <2>1. CASE s # x
      <3>1. s = current /\ index[s] # 0 /\ s \in Live
        BY <1>2, <1>7, <2>1 DEF Inside
      <3>2. x = current
        BY <3>1, PickNext
      <3> QED
        BY <2>1, <3>1, <3>2
    <2> QED
      BY <2>1
  <1>8. CASE x = current /\ (index[x] # 0 \/ ~started)
    <2>1. token[x] = r
      BY <1>1, <1>4, <1>8 DEF Reached
    <2>2. ASSUME NEW s \in Sessions
          PROVE  token'[s] <= Reached(s, r)' /\ (s \in Live' => token'[s] = Reached(s, r)')
      <3>1. CASE s = x
        BY <1>1, <1>3, <1>5, <2>1, <3>1
      <3>2. CASE s # x
        <4>1. Reached(s, r)' = Reached(s, r)
          BY <1>5, <1>8, <3>2 DEF Reached
        <4> QED
          BY <1>2, <3>2, <4>1 DEF InRound
      <3> QED
        BY <3>1, <3>2
    <2>3. InRound(r)'
      BY <2>2 DEF InRound
    <2> QED
      BY <1>7, <2>1, <2>3
  <1>9. CASE /\ index[x] = 0 /\ index[current] = 0 /\ (current \in Live => started)
             /\ x > current /\ \A t \in Live : t <= current \/ x <= t
    <2>1. token[x] = r
      BY <1>1, <1>4, <1>9 DEF Reached
    <2>2. ASSUME NEW s \in Sessions
          PROVE  token'[s] <= Reached(s, r)' /\ (s \in Live' => token'[s] = Reached(s, r)')
      <3>1. CASE s = x
        BY <1>1, <1>3, <1>5, <2>1, <3>1
      <3>2. CASE s # x
        <4>1. token[s] <= Reached(s, r) /\ (s \in Live => token[s] = Reached(s, r))
          BY DEF InRound
        <4>2. Reached(s, r)' = IF s < x THEN r + 1 ELSE r
          BY <1>5, <3>2
        <4>3. Reached(s, r) = IF s < current \/ (s = current /\ started) THEN r + 1 ELSE r
          BY <1>9 DEF Reached
        <4>4. s \in Live => (s < current \/ (s = current /\ started) \/ x < s)
          BY <1>1, <1>9, <3>2
        <4> QED
          BY <1>1, <1>2, <1>9, <3>2, <4>1, <4>2, <4>3, <4>4
      <3> QED
        BY <3>1, <3>2
    <2>3. InRound(r)'
      BY <2>2 DEF InRound
    <2> QED
      BY <1>7, <2>1, <2>3
  <1>10. CASE /\ index[x] = 0 /\ index[current] = 0 /\ (current \in Live => started)
              /\ x <= current /\ \A t \in Live : t <= current /\ x <= t
    <2>1. ASSUME NEW s \in Sessions
          PROVE  token[s] <= r + 1 /\ (s \in Live => token[s] = r + 1 /\ x <= s)
      <3>1. token[s] <= Reached(s, r) /\ (s \in Live => token[s] = Reached(s, r))
        BY DEF InRound
      <3>2. Reached(s, r) \in {r, r + 1}
        BY DEF Reached
      <3>3. s \in Live => Reached(s, r) = r + 1
        BY <1>1, <1>10 DEF Reached
      <3>4. token[s] <= r + 1
        BY <1>1, <3>1, <3>2
      <3>5. s \in Live => token[s] = r + 1
        BY <3>1, <3>3
      <3>6. s \in Live => x <= s
        BY <1>10
      <3> QED
        BY <3>4, <3>5, <3>6
    <2>2. ASSUME NEW s \in Sessions
          PROVE  token'[s] <= Reached(s, r + 1)' /\ (s \in Live' => token'[s] = Reached(s, r + 1)')
      <3>1. CASE s = x
        <4>1. token[x] = r + 1
          BY <1>4, <2>1
        <4>2. Reached(x, r + 1)' = IF index'[x] = 0 THEN r + 2 ELSE r + 1
          BY <1>1, <1>5
        <4> QED
          BY <1>3, <3>1, <4>1, <4>2
      <3>2. CASE s # x
        BY <1>1, <1>2, <1>5, <2>1, <3>2
      <3> QED
        BY <3>1, <3>2
    <2>3. InRound(r + 1)'
      BY <2>2 DEF InRound
    <2>4. q = r + 1
      BY <1>4, <2>1
    <2> QED
      BY <1>7, <2>3, <2>4
  <1> QED
    BY <1>8, <1>9, <1>10, PickNext

LEMMA RoundStart ==
  ASSUME SInv, token = Zero, index = Zero, current = 0, started = FALSE
  PROVE  RInv /\ InRound(0)
  <1>1. 0 \in Sessions /\ \A s \in Sessions : token[s] = 0 /\ index[s] = 0 /\ s \in Nat
    BY DEF Zero, Sessions
  <1>2. \A s \in Sessions : Reached(s, 0) = 0
    <2> TAKE s \in Sessions
    <2>1. ~(s < current) /\ ~started
      BY <1>1
    <2> QED
      BY <2>1 DEF Reached
  <1>3. InRound(0)
    BY <1>1, <1>2 DEF InRound
  <1> QED
    BY <1>1, <1>3 DEF RInv

LEMMA RoundStep ==
  ASSUME RInv, [Next]_vars
  PROVE  RInv'
  <1>1. SInv /\ SInv' /\ current \in Sessions /\ started \in BOOLEAN /\ TypeOK /\ Inside
    BY StepSafe DEF RInv, SInv
  <1>2. ASSUME NEW x \in Sessions, Serve(x) PROVE RInv'
    <2>1. Turn(x) /\ rule' = rule /\ Pick(x)
      BY <1>1, <1>2, ServeTurns DEF Serve
    <2>2. CASE rule = "process"
      <3>1. current' = x /\ started' = TRUE /\ ProcessPick(x)
        BY <1>2, <2>1, <2>2 DEF Serve, Pick
      <3>2. PICK r \in Nat : InRound(r)
        BY <2>2 DEF RInv
      <3>3. \A s \in Sessions : index[s] # 0 => s = current
        BY <2>2 DEF RInv
      <3>4. PICK q \in Nat : q = token[x]
        BY <1>1 DEF TypeOK, Counters
      <3>5. /\ \A s \in Sessions : index'[s] # 0 => s = current'
            /\ InRound(q)'
        BY <1>1, <2>1, <3>1, <3>2, <3>3, <3>4, RoundTurn
      <3> QED
        BY <1>1, <3>1, <3>5 DEF RInv
    <2>3. CASE rule # "process"
      BY <1>1, <1>2, <2>1, <2>3 DEF Serve, RInv
    <2> QED
      BY <2>2, <2>3
  <1>3. ASSUME NEW by \in Rules, NEW promised \in Admitted(ceilings, capacity), NEW vacant \in Slots,
               Prepare(by, promised, vacant)
        PROVE  RInv'
    <2>1. token' = Zero /\ index' = Zero /\ current' = 0 /\ started' = FALSE
      BY <1>3 DEF Prepare
    <2>2. Zero' = Zero
      BY DEF Zero
    <2>3. (SInv /\ token = Zero /\ index = Zero /\ current = 0 /\ started = FALSE => RInv)'
      BY RoundStart, PTL
    <2> QED
      BY <1>1, <2>1, <2>2, <2>3
  <1>4. CASE Merged \/ Unparsed \/ Ordered \/ UNCHANGED vars
    <2>1. UNCHANGED <<token, index, current, started, rule, lanes>>
      BY <1>4 DEF Merged, Unparsed, Ordered, vars, cursors
    <2>2. \A r : InRound(r)' <=> InRound(r)
      BY <2>1 DEF InRound, Reached, Live
    <2> QED
      BY <1>1, <2>1, <2>2 DEF RInv
  <1> QED
    BY <1>2, <1>3, <1>4 DEF Next

\* Where ProcessMajor is in its round, on the host and in the kernel.
THEOREM RoundsInductive == Spec => []RInv
  <1>1. Init => RInv
    BY InitSafe, RoundStart DEF Init
  <1>2. RInv /\ [Next]_vars => RInv'
    BY RoundStep
  <1> QED
    BY <1>1, <1>2, PTL DEF Spec

-----------------------------------------------------------------------------
(* While a session has anything left, each rule names one, and only one. *)

LEMMA SharedNumber ==
  ASSUME NEW s \in Sessions
  PROVE  Shared(s) \in 0 .. K
  <1> DEFINE same == {t \in Live : NextOf(t) = NextOf(s)}
  <1>1. same \in SUBSET Sessions /\ IsFiniteSet(Sessions) /\ Cardinality(Sessions) = K
    BY FS_Interval DEF Live, Sessions
  <1>2. Cardinality(same) \in Nat /\ Cardinality(same) <= K
    BY <1>1, FS_Subset, FS_CardinalityType
  <1> QED
    BY <1>2 DEF Shared

LEMMA ParameterNames ==
  ASSUME TypeOK, Live # {}
  PROVE  \E s \in Live : ParameterPick(s)
  <1>1. CASE Overdue # {}
    BY <1>1, OverdueLive DEF ParameterPick
  <1>2. CASE Overdue = {}
    <2>1. /\ \A s \in Live : s \in Nat /\ token[s] \in Nat /\ index[s] \in Nat /\ Shared(s) \in 0 .. K
          /\ K \in Nat
      <3>1. Live \in SUBSET Sessions /\ Sessions \in SUBSET Nat /\ K \in Nat
        BY DEF Live, Sessions
      <3>2. \A s \in Sessions : token[s] \in Nat /\ index[s] \in Nat
        BY DEF TypeOK, Counters
      <3> QED
        BY <3>1, <3>2, SharedNumber
    <2>2. PICK a \in Live : \A s \in Live : token[a] <= token[s]
      <3> DEFINE S == {token[s] : s \in Live}
      <3>1. S \in SUBSET Nat /\ S # {}
        BY <2>1
      <3> HIDE DEF S
      <3>2. Min(S) \in S /\ \A y \in S : Min(S) <= y
        BY <3>1, LeastMember
      <3> QED
        BY <3>2 DEF S
    <2> DEFINE A == {s \in Live : token[s] = token[a]}
    <2>3. PICK b \in A : \A s \in A : index[b] <= index[s]
      <3> DEFINE S == {index[s] : s \in A}
      <3>1. S \in SUBSET Nat /\ S # {}
        BY <2>1
      <3> HIDE DEF S
      <3>2. Min(S) \in S /\ \A y \in S : Min(S) <= y
        BY <3>1, LeastMember
      <3> QED
        BY <3>2 DEF S
    <2> DEFINE B == {s \in A : index[s] = index[b]}
    <2>4. PICK c \in B : \A s \in B : Shared(s) <= Shared(c)
      <3> DEFINE S == {Shared(s) : s \in B}
      <3>1. S \in SUBSET (0 .. K) /\ S # {}
        BY <2>1
      <3> HIDE DEF S
      <3>2. Max(S) \in S /\ \A y \in S : y <= Max(S)
        BY <2>1, <3>1, GreatestMember
      <3> QED
        BY <3>2 DEF S
    <2> DEFINE C == {s \in B : Shared(s) = Shared(c)}
    <2>5. PICK d \in C : \A s \in C : d <= s
      <3>1. C \in SUBSET Nat /\ C # {}
        BY <2>1
      <3> HIDE DEF C
      <3> QED
        BY <3>1, LeastMember
    <2>6. d \in Live
      OBVIOUS
    <2>7. ASSUME NEW t \in Live \ {d} PROVE Behind(d, t)
      <3>1. /\ token[d] = token[a] /\ token[a] \in Nat /\ token[t] \in Nat /\ token[a] <= token[t]
            /\ index[d] = index[b] /\ index[b] \in Nat /\ index[t] \in Nat
            /\ Shared(d) = Shared(c) /\ Shared(c) \in Nat /\ Shared(t) \in Nat
            /\ d \in Nat /\ t \in Nat
        BY <2>1, <2>2
      <3>2. CASE t \notin A
        BY <3>1, <3>2 DEF Behind
      <3>3. CASE t \in A /\ t \notin B
        <4>1. index[d] < index[t] /\ token[d] = token[t]
          BY <2>3, <3>1, <3>3
        <4> QED
          BY <4>1 DEF Behind
      <3>4. CASE t \in B /\ t \notin C
        <4>1. Shared(t) < Shared(d) /\ token[d] = token[t] /\ index[d] = index[t]
          BY <2>4, <3>1, <3>4
        <4> QED
          BY <3>1, <4>1 DEF Behind
      <3>5. CASE t \in C
        <4>1. d < t /\ Shared(t) = Shared(d) /\ token[d] = token[t] /\ index[d] = index[t]
          BY <2>5, <3>1, <3>5
        <4> QED
          BY <4>1 DEF Behind
      <3> QED
        BY <3>2, <3>3, <3>4, <3>5
    <2> QED
      BY <1>2, <2>6, <2>7 DEF ParameterPick
  <1> QED
    BY <1>1, <1>2

LEMMA ParameterNamesOne ==
  ASSUME TypeOK, NEW s \in Sessions, ParameterPick(s), NEW t \in Sessions, ParameterPick(t)
  PROVE  s = t
  <1>1. CASE Overdue # {}
    BY <1>1 DEF ParameterPick
  <1>2. CASE Overdue = {}
    <2>1. SUFFICES ASSUME s # t PROVE FALSE
      OBVIOUS
    <2>2. Behind(s, t) /\ Behind(t, s)
      BY <1>2, <2>1 DEF ParameterPick
    <2>3. /\ s \in Nat /\ token[s] \in Nat /\ index[s] \in Nat /\ Shared(s) \in Nat
          /\ t \in Nat /\ token[t] \in Nat /\ index[t] \in Nat /\ Shared(t) \in Nat
      BY SharedNumber DEF TypeOK, Counters, Sessions
    <2> QED
      BY <2>2, <2>3 DEF Behind
  <1> QED
    BY <1>1, <1>2

LEMMA ProcessNames ==
  ASSUME current \in Sessions, Live # {}
  PROVE  \E s \in Live : ProcessPick(s)
  <1>1. CASE current \in Live /\ (index[current] # 0 \/ ~started)
    BY <1>1 DEF ProcessPick
  <1>2. CASE ~(current \in Live /\ (index[current] # 0 \/ ~started))
    <2> DEFINE S == {Rotation(t) : t \in Live}
    <2>1. \A t \in Live : Rotation(t) \in Nat
      <3> TAKE t \in Live
      <3>1. t \in Sessions /\ t \in 0 .. K - 1 /\ current \in 0 .. K - 1
        BY DEF Live, Sessions
      <3> QED
        BY <3>1, RotationIs
    <2>2. S \in SUBSET Nat /\ S # {}
      BY <2>1
    <2> HIDE DEF S
    <2>3. Min(S) \in S /\ \A y \in S : Min(S) <= y
      BY <2>2, LeastMember
    <2>4. PICK s \in Live : \A t \in Live : Rotation(s) <= Rotation(t)
      BY <2>3 DEF S
    <2> QED
      BY <1>2, <2>4 DEF ProcessPick
  <1> QED
    BY <1>1, <1>2

LEMMA ProcessNamesOne ==
  ASSUME current \in Sessions,
         NEW s \in Sessions, ProcessPick(s), NEW t \in Sessions, ProcessPick(t)
  PROVE  s = t
  <1>1. CASE current \in Live /\ (index[current] # 0 \/ ~started)
    BY <1>1 DEF ProcessPick
  <1>2. CASE ~(current \in Live /\ (index[current] # 0 \/ ~started))
    <2>1. Rotation(s) <= Rotation(t) /\ Rotation(t) <= Rotation(s)
      BY <1>2 DEF ProcessPick
    <2>2. s \in 0 .. K - 1 /\ t \in 0 .. K - 1 /\ current \in 0 .. K - 1 /\ K \in Nat
      BY DEF Sessions
    <2>3. Rotation(s) = IF s > current THEN s - current - 1 ELSE s - current - 1 + K
      BY RotationIs
    <2>4. Rotation(t) = IF t > current THEN t - current - 1 ELSE t - current - 1 + K
      BY RotationIs
    <2> QED
      BY <2>1, <2>2, <2>3, <2>4
  <1> QED
    BY <1>1, <1>2

LEMMA OneNamed ==
  ASSUME RInv, Live # {}
  PROVE  \E s \in Live : Pick(s) /\ \A t \in Sessions : Pick(t) => t = s
  <1>1. TypeOK /\ current \in Sessions /\ Live \in SUBSET Sessions
    BY DEF RInv, SInv, Live
  <1>2. CASE rule = "process"
    <2>1. PICK s \in Live : ProcessPick(s)
      BY <1>1, ProcessNames
    <2>2. \A t \in Sessions : ProcessPick(t) => t = s
      BY <1>1, <2>1, ProcessNamesOne
    <2> QED
      BY <1>2, <2>1, <2>2 DEF Pick
  <1>3. CASE rule # "process"
    <2>1. PICK s \in Live : ParameterPick(s)
      BY <1>1, ParameterNames
    <2>2. \A t \in Sessions : ParameterPick(t) => t = s
      BY <1>1, <2>1, ParameterNamesOne
    <2> QED
      BY <1>3, <2>1, <2>2 DEF Pick
  <1> QED
    BY <1>2, <1>3

\* The loop is over where it ended.
Over == stage \in {"ended", "refused"} => Exhausted

LEMMA OverStep ==
  ASSUME Over, [Next]_vars
  PROVE  Over'
  <1>1. CASE \E s \in Sessions : Serve(s)
    BY <1>1 DEF Serve, Over
  <1>2. CASE \E by \in Rules, promised \in Admitted(ceilings, capacity), vacant \in Slots :
               Prepare(by, promised, vacant)
    BY <1>2 DEF Prepare, Over
  <1>3. CASE Merged \/ Unparsed \/ Ordered \/ UNCHANGED vars
    <2>1. UNCHANGED <<token, index, due, clock, current, started, rule, lanes, ceiling>>
      BY <1>3 DEF Merged, Unparsed, Ordered, vars, cursors
    <2>2. Exhausted' <=> Exhausted
      BY <2>1 DEF Exhausted, Pick, ProcessPick, ParameterPick, Rotation, Overdue, Behind, Shared,
                  NextOf, Waited, Live
    <2>3. stage' = stage \/ Exhausted
      BY <1>3 DEF Merged, Unparsed, Ordered, vars
    <2> QED
      BY <2>2, <2>3 DEF Over
  <1> QED
    BY <1>1, <1>2, <1>3 DEF Next

-----------------------------------------------------------------------------
(* Where the parts of a flattened sequence begin. *)

\* FlattenSeq, unfolded.
Unfolds(f, ss) == f = [i \in 1 .. Len(ss) |-> IF i = 1 THEN ss[i] ELSE f[i - 1] \o ss[i]]
UpTo(ss, k) ==
  \E f : f = [i \in 1 .. k |-> IF i = 1 THEN ss[i] ELSE f[i - 1] \o ss[i]]

LEMMA UpToNext ==
  ASSUME NEW ss, NEW k \in Nat, UpTo(ss, k)
  PROVE  UpTo(ss, k + 1)
  <1>1. PICK f : f = [i \in 1 .. k |-> IF i = 1 THEN ss[i] ELSE f[i - 1] \o ss[i]]
    BY DEF UpTo
  <1> DEFINE last == IF k + 1 = 1 THEN ss[k + 1] ELSE f[k] \o ss[k + 1]
             g == [i \in 1 .. k + 1 |-> IF i <= k THEN f[i] ELSE last]
  <1>2. \A i \in 1 .. k + 1 : g[i] = IF i = 1 THEN ss[i] ELSE g[i - 1] \o ss[i]
    <2> TAKE i \in 1 .. k + 1
    <2>1. CASE i <= k
      <3>1. g[i] = f[i] /\ i \in 1 .. k
        BY <2>1
      <3>2. f[i] = IF i = 1 THEN ss[i] ELSE f[i - 1] \o ss[i]
        BY <1>1, <3>1
      <3>3. i # 1 => g[i - 1] = f[i - 1]
        BY <2>1
      <3> HIDE DEF g
      <3> QED
        BY <3>1, <3>2, <3>3
    <2>2. CASE i = k + 1
      <3>1. g[i] = last
        BY <2>2
      <3>2. i # 1 => g[i - 1] = f[k]
        BY <2>2
      <3> HIDE DEF g
      <3> QED
        BY <2>2, <3>1, <3>2
    <2> QED
      BY <2>1, <2>2
  <1>3. g = [i \in 1 .. k + 1 |-> g[i]]
    OBVIOUS
  <1> HIDE DEF g
  <1>4. g = [i \in 1 .. k + 1 |-> IF i = 1 THEN ss[i] ELSE g[i - 1] \o ss[i]]
    BY <1>2, <1>3
  <1> QED
    BY <1>4 DEF UpTo

LEMMA UpToAll ==
  ASSUME NEW ss, NEW n \in Nat
  PROVE  UpTo(ss, n)
  <1> DEFINE bad == {k \in Nat : ~UpTo(ss, k)}
  <1>1. UpTo(ss, 0)
    <2>1. <<>> = [i \in 1 .. 0 |-> IF i = 1 THEN ss[i] ELSE <<>>[i - 1] \o ss[i]]
      OBVIOUS
    <2> QED
      BY <2>1, Zenon DEF UpTo
  <1>2. CASE bad # {}
    <2>1. PICK k \in bad : \A j \in bad : k <= j
      <3>1. bad \in SUBSET Nat
        OBVIOUS
      <3> QED
        BY <1>2, <3>1, LeastMember
    <2>2. k # 0 /\ k - 1 \in Nat /\ k - 1 \notin bad
      BY <1>1, <2>1
    <2>3. UpTo(ss, k - 1)
      BY <2>2
    <2>4. UpTo(ss, k - 1 + 1)
      BY <2>2, <2>3, UpToNext
    <2> QED
      BY <2>1, <2>2, <2>4
  <1> QED
    BY <1>2

LEMMA FlattenUnfolds ==
  ASSUME NEW ss, Len(ss) \in Nat \ {0}
  PROVE  \E f : Unfolds(f, ss) /\ FlattenSeq(ss) = f[Len(ss)]
  <1> DEFINE f == CHOOSE f : Unfolds(f, ss)
  <1>1. FlattenSeq(ss) = f[Len(ss)]
    BY Zenon DEF FlattenSeq, Unfolds
  <1>2. \E g : Unfolds(g, ss)
    BY UpToAll, Zenon DEF UpTo, Unfolds
  <1>3. Unfolds(f, ss)
    BY <1>2, Zenon
  <1> QED
    BY <1>1, <1>3, Zenon

\* The i-th part of the first k takes the places after o[i].
Offsets(f, ss, k, o) ==
  /\ o \in [1 .. k + 1 -> Nat] /\ o[1] = 0 /\ o[k + 1] = Len(f)
  /\ \A i \in 1 .. k : o[i + 1] = o[i] + Len(ss[i]) /\ o[i + 1] <= Len(f)
  /\ \A i \in 1 .. k : \A j \in 1 .. Len(ss[i]) : f[o[i] + j] = ss[i][j]
Laid(f, ss, k, any) == f \in Seq(any) /\ \E o : Offsets(f, ss, k, o)

LEMMA LaidNext ==
  ASSUME NEW any, NEW ss \in Seq(Seq(any)), NEW k \in Nat, k + 1 <= Len(ss), NEW f, Laid(f, ss, k, any)
  PROVE  Laid(f \o ss[k + 1], ss, k + 1, any)
  <1>1. PICK o : Offsets(f, ss, k, o)
    BY DEF Laid
  <1>2. PICK n \in Nat, m \in Nat : n = Len(f) /\ m = Len(ss[k + 1])
    BY DEF Laid
  <1>3. PICK part : part = ss[k + 1] /\ part \in Seq(any)
    OBVIOUS
  <1>4. PICK g : g = f \o part
    OBVIOUS
  <1>5. /\ g \in Seq(any) /\ Len(g) = n + m
        /\ \A a \in 1 .. n : g[a] = f[a]
        /\ \A j \in 1 .. m : g[n + j] = part[j]
    <2>1. f \in Seq(any)
      BY DEF Laid
    <2> QED
      BY <1>2, <1>3, <1>4, <2>1
  <1> DEFINE v == [i \in 1 .. k + 2 |-> IF i <= k + 1 THEN o[i] ELSE n + m]
  <1>6. (\A i \in 1 .. k + 1 : v[i] = o[i]) /\ v[k + 2] = n + m
    OBVIOUS
  <1>7. /\ o \in [1 .. k + 1 -> Nat] /\ o[1] = 0 /\ o[k + 1] = n
        /\ \A i \in 1 .. k : o[i + 1] = o[i] + Len(ss[i]) /\ o[i + 1] <= n
        /\ \A i \in 1 .. k : \A j \in 1 .. Len(ss[i]) : f[o[i] + j] = ss[i][j]
    BY <1>1, <1>2 DEF Offsets
  <1>8. v \in [1 .. k + 1 + 1 -> Nat]
    BY <1>7
  <1> HIDE DEF v
  <1>9. ASSUME NEW i \in 1 .. k + 1
        PROVE  /\ v[i + 1] = v[i] + Len(ss[i]) /\ v[i + 1] <= n + m
               /\ \A j \in 1 .. Len(ss[i]) : g[v[i] + j] = ss[i][j]
    <2>1. CASE i = k + 1
      <3>1. v[i] = n /\ v[i + 1] = n + m
        <4>1. i \in 1 .. k + 1 /\ i + 1 = k + 2
          BY <2>1
        <4> QED
          BY <1>6, <1>7, <2>1, <4>1
      <3>2. ss[i] = part /\ Len(ss[i]) = m
        BY <1>2, <1>3, <2>1
      <3>3. \A j \in 1 .. m : g[n + j] = ss[i][j]
        BY <1>5, <3>2
      <3>4. v[i + 1] = v[i] + Len(ss[i]) /\ v[i + 1] <= n + m
        <4>1. n \in Nat /\ m \in Nat
          BY <1>2, <1>3
        <4> QED
          BY <3>1, <3>2, <4>1
      <3>5. \A j \in 1 .. Len(ss[i]) : g[v[i] + j] = ss[i][j]
        BY <3>1, <3>2, <3>3
      <3> QED
        BY <3>4, <3>5
    <2>2. CASE i \in 1 .. k
      <3>1. v[i] = o[i] /\ v[i + 1] = o[i + 1] /\ o[i] \in Nat
        <4>1. i \in 1 .. k + 1 /\ i + 1 \in 1 .. k + 1
          BY <2>2
        <4> QED
          BY <1>6, <1>7, <4>1
      <3>2. PICK l \in Nat : l = Len(ss[i])
        BY <2>2
      <3>3. \A j \in 1 .. l : o[i] + j \in 1 .. n /\ f[o[i] + j] = ss[i][j]
        <4>1. o[i + 1] = o[i] + l /\ o[i + 1] <= n /\ \A j \in 1 .. l : f[o[i] + j] = ss[i][j]
          BY <1>7, <2>2, <3>2
        <4>2. PICK b \in Nat : b = o[i]
          BY <3>1
        <4>3. b + l <= n
          BY <4>1, <4>2
        <4>4. \A j \in 1 .. l : b + j \in 1 .. n
          BY <4>3
        <4> QED
          BY <4>1, <4>2, <4>4, Zenon
      <3>4. \A j \in 1 .. l : g[o[i] + j] = ss[i][j]
        BY <1>5, <3>3
      <3>5. o[i + 1] = o[i] + Len(ss[i]) /\ o[i + 1] <= n
        BY <1>7, <2>2
      <3>6. v[i + 1] <= n + m
        <4>1. PICK c \in Nat : c = o[i + 1]
          BY <3>1, <3>2, <3>5
        <4>2. c <= n + m
          BY <1>2, <3>5, <4>1
        <4> QED
          BY <3>1, <4>1, <4>2, Zenon
      <3> QED
        BY <3>1, <3>2, <3>4, <3>5, <3>6, Zenon
    <2> QED
      BY <2>1, <2>2
  <1>10. v[1] = 0 /\ v[k + 1 + 1] = Len(g)
    BY <1>5, <1>6, <1>7
  <1>11. Offsets(g, ss, k + 1, v)
    BY <1>5, <1>8, <1>9, <1>10 DEF Offsets
  <1> QED
    BY <1>3, <1>4, <1>5, <1>11 DEF Laid

LEMMA FlattenLaid ==
  ASSUME NEW any, NEW ss \in Seq(Seq(any))
  PROVE  Laid(FlattenSeq(ss), ss, Len(ss), any)
  <1>1. CASE Len(ss) = 0
    <2>1. FlattenSeq(ss) = ss /\ ss = <<>>
      BY <1>1 DEF FlattenSeq
    <2>2. [i \in 1 .. 1 |-> 0] \in [1 .. 0 + 1 -> Nat] /\ [i \in 1 .. 1 |-> 0][1] = 0
      OBVIOUS
    <2>3. Offsets(<<>>, ss, 0, [i \in 1 .. 1 |-> 0])
      BY <2>2 DEF Offsets
    <2> QED
      BY <1>1, <2>1, <2>3 DEF Laid
  <1>2. CASE Len(ss) # 0
    <2>1. Len(ss) \in Nat \ {0}
      BY <1>2
    <2>2. PICK f : Unfolds(f, ss) /\ FlattenSeq(ss) = f[Len(ss)]
      BY <2>1, FlattenUnfolds
    <2> DEFINE bad == {k \in 1 .. Len(ss) : ~Laid(f[k], ss, k, any)}
    <2>3. CASE bad # {}
      <3>1. PICK k \in bad : \A j \in bad : k <= j
        <4>1. bad \in SUBSET Nat
          BY <2>1
        <4> QED
          BY <2>3, <4>1, LeastMember
      <3>2. k # 1
        <4>1. PICK first : first = f[1] /\ first = ss[1] /\ first \in Seq(any)
          <5>1. f[1] = ss[1]
            BY <2>1, <2>2 DEF Unfolds
          <5>2. ss[1] \in Seq(any)
            BY <2>1
          <5> QED
            BY <5>1, <5>2
        <4>2. PICK n \in Nat : n = Len(first)
          BY <4>1
        <4> DEFINE o == [i \in 1 .. 2 |-> IF i = 1 THEN 0 ELSE n]
        <4>3. o \in [1 .. 1 + 1 -> Nat] /\ o[1] = 0 /\ o[1 + 1] = n
          OBVIOUS
        <4> HIDE DEF o
        <4>4. Offsets(first, ss, 1, o)
          BY <4>1, <4>2, <4>3 DEF Offsets
        <4>5. Laid(f[1], ss, 1, any)
          BY <4>1, <4>4 DEF Laid
        <4> QED
          BY <3>1, <4>5
      <3>3. k \in 1 .. Len(ss) /\ k - 1 \in Nat /\ k - 1 + 1 = k
        BY <2>1, <3>1
      <3>4. Laid(f[k - 1], ss, k - 1, any)
        <4>1. k - 1 \in 1 .. Len(ss) /\ k - 1 \notin bad
          BY <2>1, <3>1, <3>2
        <4> QED
          BY <4>1
      <3>5. f[k] = f[k - 1] \o ss[k]
        BY <2>2, <3>2, <3>3 DEF Unfolds
      <3>6. PICK j \in Nat : j = k - 1
        BY <3>3
      <3>7. Laid(f[j] \o ss[j + 1], ss, j + 1, any)
        BY <2>1, <3>3, <3>4, <3>6, LaidNext
      <3> QED
        BY <3>1, <3>3, <3>5, <3>6, <3>7
    <2>4. CASE bad = {}
      BY <2>1, <2>2, <2>4
    <2> QED
      BY <2>3, <2>4
  <1> QED
    BY <1>1, <1>2

-----------------------------------------------------------------------------
(* The order of rounds, and where each token is in it. *)

Rounds(l) == Max({Len(l[s]) : s \in Sessions})
Order(l) == FlattenSeq([t \in 1 .. Rounds(l) |-> Round(l, t)])

\* The token numbered t of session s, as the order has it.
Piece(l, t, s) == IF t > Len(l[s]) THEN <<>> ELSE [i \in DOMAIN l[s][t] |-> <<s, l[s][t][i]>>]

\* Session s's token of round t takes the places after pos[t][s].
Placed(l, pos) ==
  /\ pos \in [1 .. Rounds(l) + 1 -> [0 .. K -> Nat]]
  /\ pos[1][0] = 0 /\ pos[Rounds(l) + 1][0] = Len(Order(l))
  /\ \A t \in 1 .. Rounds(l) :
       /\ pos[t + 1][0] = pos[t][K]
       /\ \A s \in Sessions :
            /\ pos[t][s + 1] = pos[t][s] + Len(Piece(l, t, s)) /\ pos[t][s + 1] <= Len(Order(l))
            /\ \A i \in 1 .. Len(Piece(l, t, s)) : Order(l)[pos[t][s] + i] = Piece(l, t, s)[i]

LEMMA RoundsAre ==
  ASSUME NEW l, Laned(l)
  PROVE  Rounds(l) \in Nat /\ \A s \in Sessions : Len(l[s]) <= Rounds(l)
  <1> DEFINE lane == [i \in 1 .. K |-> l[i - 1]]
             lens == {Len(l[s]) : s \in Sessions}
  <1>1. \A s \in Sessions : IsSequence(l[s]) /\ Len(l[s]) \in Nat
    BY DEF Laned, IsLane, IsSequence
  <1>2. \A s \in Sessions : s + 1 \in 1 .. K /\ lane[s + 1] = l[s]
    BY DEF Sessions
  <1>3. IsLane(lane)
    <2>1. \A i \in 1 .. K : i - 1 \in Sessions /\ lane[i] = l[i - 1]
      BY DEF Sessions
    <2>2. Len(lane) = K /\ DOMAIN lane = 1 .. K /\ lane = [i \in DOMAIN lane |-> lane[i]]
      OBVIOUS
    <2> HIDE DEF lane
    <2>3. \A i \in DOMAIN lane : IsSequence(lane[i])
      BY <1>1, <2>1, <2>2
    <2> QED
      BY <2>2, <2>3 DEF IsLane, IsSequence
  <1>4. DOMAIN lane = 1 .. K
    OBVIOUS
  <1> HIDE DEF lane
  <1>5. PICK n \in Nat : \A i \in DOMAIN lane : Len(lane[i]) <= n
    BY <1>3, TokensBounded
  <1>6. \A s \in Sessions : Len(l[s]) <= n
    BY <1>2, <1>4, <1>5
  <1>7. lens \in SUBSET (0 .. n) /\ lens # {}
    <2>1. 0 \in Sessions
      BY DEF Sessions
    <2>2. \A s \in Sessions : Len(l[s]) \in 0 .. n
      BY <1>1, <1>6
    <2> QED
      BY <2>1, <2>2, Zenon
  <1>8. Rounds(l) = Max(lens)
    BY DEF Rounds
  <1> HIDE DEF lens
  <1>9. Rounds(l) \in lens /\ \A x \in lens : x <= Rounds(l)
    BY <1>7, <1>8, GreatestMember
  <1> QED
    BY <1>1, <1>9 DEF lens

\* What the pieces hold.
Accessed(l) ==
  UNION {UNION {{<<s, l[s][t][i]>> : i \in DOMAIN l[s][t]} : t \in DOMAIN l[s]} : s \in Sessions}

LEMMA PieceIs ==
  ASSUME NEW l, Laned(l), NEW t \in Nat \ {0}, NEW s \in Sessions
  PROVE  /\ Piece(l, t, s) \in Seq(Accessed(l))
         /\ t > Len(l[s]) => Len(Piece(l, t, s)) = 0
         /\ t <= Len(l[s]) =>
              /\ Len(Piece(l, t, s)) = Len(l[s][t])
              /\ \A i \in 1 .. Len(l[s][t]) : Piece(l, t, s)[i] = <<s, l[s][t][i]>>
  <1>1. PICK n \in Nat : n = Len(l[s]) /\ DOMAIN l[s] = 1 .. n
    BY DEF Laned, IsLane, IsSequence
  <1>2. CASE t > n
    BY <1>1, <1>2 DEF Piece
  <1>3. CASE t <= n
    <2>1. t \in 1 .. n /\ t \in DOMAIN l[s]
      BY <1>1, <1>3
    <2>2. PICK m \in Nat : m = Len(l[s][t]) /\ DOMAIN l[s][t] = 1 .. m
      BY <2>1 DEF Laned, IsLane, IsSequence
    <2>3. Piece(l, t, s) = [i \in 1 .. m |-> <<s, l[s][t][i]>>]
      BY <1>1, <1>3, <2>2 DEF Piece
    <2>4. \A i \in 1 .. m : <<s, l[s][t][i]>> \in Accessed(l)
      <3> TAKE i \in 1 .. m
      <3>1. i \in DOMAIN l[s][t]
        BY <2>2
      <3> DEFINE of(r, u) == {<<r, l[r][u][j]>> : j \in DOMAIN l[r][u]}
                 by(r) == {of(r, u) : u \in DOMAIN l[r]}
                 all == {UNION by(r) : r \in Sessions}
      <3>2. <<s, l[s][t][i]>> \in of(s, t)
        BY <3>1
      <3>3. Accessed(l) = UNION all
        BY DEF Accessed
      <3> HIDE DEF of
      <3>4. of(s, t) \in by(s)
        BY <2>1
      <3> HIDE DEF by
      <3>5. UNION by(s) \in all
        OBVIOUS
      <3> HIDE DEF all
      <3> QED
        BY <3>2, <3>3, <3>4, <3>5
    <2> QED
      BY <1>1, <1>3, <2>2, <2>3, <2>4
  <1> QED
    BY <1>1, <1>2, <1>3

\* The pieces of one round.
Pieces(l, t) == [i \in 1 .. K |-> Piece(l, t, i - 1)]

LEMMA RoundLaid ==
  ASSUME NEW l, Laned(l), NEW t \in Nat \ {0}
  PROVE  /\ Pieces(l, t) \in Seq(Seq(Accessed(l))) /\ Len(Pieces(l, t)) = K
         /\ \A i \in 1 .. K : Pieces(l, t)[i] = Piece(l, t, i - 1)
         /\ Laid(Round(l, t), Pieces(l, t), K, Accessed(l))
  <1>1. \A i \in 1 .. K : i - 1 \in Sessions /\ Piece(l, t, i - 1) \in Seq(Accessed(l))
    <2> TAKE i \in 1 .. K
    <2>1. i - 1 \in Sessions
      BY DEF Sessions
    <2> QED
      BY <2>1, PieceIs
  <1>2. Pieces(l, t) \in Seq(Seq(Accessed(l))) /\ Len(Pieces(l, t)) = K
    BY <1>1 DEF Pieces
  <1>3. Round(l, t) = FlattenSeq(Pieces(l, t))
    BY DEF Round, Pieces, Each, Piece
  <1>4. Laid(Round(l, t), Pieces(l, t), K, Accessed(l))
    BY <1>2, <1>3, FlattenLaid
  <1> QED
    BY <1>2, <1>4 DEF Pieces

LEMMA OrderPlaced ==
  ASSUME NEW l, Laned(l)
  PROVE  Order(l) \in Seq(Accessed(l)) /\ \E pos : Placed(l, pos)
  <1>1. PICK R \in Nat : R = Rounds(l)
    BY RoundsAre
  <1> DEFINE rows == [t \in 1 .. R |-> Round(l, t)]
             in(t) == CHOOSE o : Offsets(Round(l, t), Pieces(l, t), K, o)
  <1>2. \A t \in 1 .. R : /\ Round(l, t) \in Seq(Accessed(l)) /\ Offsets(Round(l, t), Pieces(l, t), K, in(t))
                          /\ \A i \in 1 .. K : Pieces(l, t)[i] = Piece(l, t, i - 1)
    <2> TAKE t \in 1 .. R
    <2>1. Laid(Round(l, t), Pieces(l, t), K, Accessed(l)) /\ \A i \in 1 .. K : Pieces(l, t)[i] = Piece(l, t, i - 1)
      BY RoundLaid
    <2>2. Round(l, t) \in Seq(Accessed(l)) /\ \E o : Offsets(Round(l, t), Pieces(l, t), K, o)
      BY <2>1 DEF Laid
    <2>3. Offsets(Round(l, t), Pieces(l, t), K, in(t))
      BY <2>2, Zenon
    <2> QED
      BY <2>1, <2>2, <2>3
  <1>3. rows \in Seq(Seq(Accessed(l))) /\ Len(rows) = R /\ \A t \in 1 .. R : rows[t] = Round(l, t)
    <2>1. \A t \in 1 .. R : Round(l, t) \in Seq(Accessed(l))
      BY <1>2
    <2> HIDE DEF in
    <2> QED
      BY <2>1
  <1>4. Order(l) = FlattenSeq(rows)
    BY <1>1 DEF Order
  <1> HIDE DEF rows, in
  <1>5. Laid(Order(l), rows, R, Accessed(l))
    BY <1>3, <1>4, FlattenLaid
  <1>6. PICK out : Offsets(Order(l), rows, R, out)
    BY <1>5 DEF Laid
  <1>7. /\ out \in [1 .. R + 1 -> Nat] /\ out[1] = 0 /\ out[R + 1] = Len(Order(l))
        /\ \A t \in 1 .. R : out[t + 1] = out[t] + Len(Round(l, t)) /\ out[t + 1] <= Len(Order(l))
        /\ \A t \in 1 .. R : \A j \in 1 .. Len(Round(l, t)) : Order(l)[out[t] + j] = Round(l, t)[j]
    <2>1. /\ out \in [1 .. R + 1 -> Nat] /\ out[1] = 0 /\ out[R + 1] = Len(Order(l))
          /\ \A t \in 1 .. R : out[t + 1] = out[t] + Len(rows[t]) /\ out[t + 1] <= Len(Order(l))
          /\ \A t \in 1 .. R : \A j \in 1 .. Len(rows[t]) : Order(l)[out[t] + j] = rows[t][j]
      BY <1>6 DEF Offsets
    <2>2. \A t \in 1 .. R : rows[t] = Round(l, t)
      BY <1>3
    <2>3. \A t \in 1 .. R : out[t + 1] = out[t] + Len(Round(l, t)) /\ out[t + 1] <= Len(Order(l))
      BY <2>1, <2>2, Zenon
    <2>4. ASSUME NEW t \in 1 .. R
          PROVE  \A j \in 1 .. Len(Round(l, t)) : Order(l)[out[t] + j] = Round(l, t)[j]
      <3>1. \A j \in 1 .. Len(rows[t]) : Order(l)[out[t] + j] = rows[t][j]
        BY <2>1, Zenon
      <3>2. rows[t] = Round(l, t)
        BY <2>2, Zenon
      <3> QED
        BY <3>1, <3>2, Zenon
    <2>5. out \in [1 .. R + 1 -> Nat] /\ out[1] = 0 /\ out[R + 1] = Len(Order(l))
      BY <2>1, Zenon
    <2> QED
      BY <2>3, <2>4, <2>5, Zenon
  <1>8. \A t \in 1 .. R :
          /\ in(t) \in [1 .. K + 1 -> Nat] /\ in(t)[1] = 0 /\ in(t)[K + 1] = Len(Round(l, t))
          /\ \A i \in 1 .. K : /\ in(t)[i + 1] = in(t)[i] + Len(Piece(l, t, i - 1))
                               /\ in(t)[i + 1] <= Len(Round(l, t))
                               /\ \A j \in 1 .. Len(Piece(l, t, i - 1)) :
                                    Round(l, t)[in(t)[i] + j] = Piece(l, t, i - 1)[j]
    <2> TAKE t \in 1 .. R
    <2>1. PICK o : o = in(t)
      OBVIOUS
    <2>2. PICK row : row = Pieces(l, t)
      OBVIOUS
    <2>3. Offsets(Round(l, t), row, K, o) /\ \A i \in 1 .. K : row[i] = Piece(l, t, i - 1)
      BY <1>2, <2>1, <2>2
    <2>4. /\ o \in [1 .. K + 1 -> Nat] /\ o[1] = 0 /\ o[K + 1] = Len(Round(l, t))
          /\ \A i \in 1 .. K : /\ o[i + 1] = o[i] + Len(row[i]) /\ o[i + 1] <= Len(Round(l, t))
                               /\ \A j \in 1 .. Len(row[i]) : Round(l, t)[o[i] + j] = row[i][j]
      BY <2>3 DEF Offsets
    <2>5. /\ o \in [1 .. K + 1 -> Nat] /\ o[1] = 0 /\ o[K + 1] = Len(Round(l, t))
          /\ \A i \in 1 .. K : /\ o[i + 1] = o[i] + Len(Piece(l, t, i - 1)) /\ o[i + 1] <= Len(Round(l, t))
                               /\ \A j \in 1 .. Len(Piece(l, t, i - 1)) :
                                    Round(l, t)[o[i] + j] = Piece(l, t, i - 1)[j]
      BY <2>3, <2>4
    <2> QED
      BY <2>1, <2>5, Zenon
  <1> DEFINE pos == [t \in 1 .. R + 1 |-> [s \in 0 .. K |-> out[t] + IF t <= R THEN in(t)[s + 1] ELSE 0]]
  <1>9. /\ \A t \in 1 .. R : \A s \in 0 .. K : pos[t][s] = out[t] + in(t)[s + 1]
        /\ pos[R + 1][0] = out[R + 1] + 0
    <2>1. \A t \in 1 .. R : t \in 1 .. R + 1 /\ t <= R
      OBVIOUS
    <2>2. R + 1 \in 1 .. R + 1 /\ ~(R + 1 <= R) /\ 0 \in 0 .. K
      OBVIOUS
    <2> QED
      BY <2>1, <2>2
  <1>10. pos \in [1 .. R + 1 -> [0 .. K -> Nat]]
    <2>1. \A t \in 1 .. R + 1 : \A s \in 0 .. K : (out[t] + IF t <= R THEN in(t)[s + 1] ELSE 0) \in Nat
      <3> TAKE t \in 1 .. R + 1
      <3> TAKE s \in 0 .. K
      <3>1. out[t] \in Nat
        BY <1>7
      <3>2. CASE t <= R
        <4>1. t \in 1 .. R /\ s + 1 \in 1 .. K + 1
          BY <3>2
        <4>2. in(t)[s + 1] \in Nat
          BY <1>8, <4>1
        <4> QED
          BY <3>1, <3>2, <4>2
      <3>3. CASE ~(t <= R)
        BY <3>1, <3>3
      <3> QED
        BY <3>2, <3>3
    <2> QED
      BY <2>1
  <1> HIDE DEF pos
  <1>11. pos[1][0] = 0 /\ pos[R + 1][0] = Len(Order(l))
    <2>1. 0 \in 0 .. K /\ 0 + 1 = 1
      OBVIOUS
    <2>2. pos[R + 1][0] = Len(Order(l))
      <3>1. out[R + 1] \in Nat
        BY <1>7
      <3> QED
        BY <1>7, <1>9, <3>1
    <2>3. CASE R = 0
      <3>1. R + 1 = 1 /\ Len(Order(l)) = 0
        BY <1>7, <2>3
      <3> QED
        BY <2>2, <3>1
    <2>4. CASE R # 0
      <3>1. 1 \in 1 .. R
        BY <2>4
      <3>2. pos[1][0] = out[1] + in(1)[1]
        BY <1>9, <2>1, <3>1
      <3>3. out[1] = 0 /\ in(1)[1] = 0
        BY <1>7, <1>8, <3>1
      <3>4. pos[1][0] = 0
        BY <3>2, <3>3
      <3> QED
        BY <2>2, <3>4
    <2> QED
      BY <2>3, <2>4
  <1>12. ASSUME NEW t \in 1 .. R
         PROVE  pos[t + 1][0] = pos[t][K]
    <2>1. pos[t][K] = out[t + 1]
      <3>1. K \in 0 .. K
        OBVIOUS
      <3>2. pos[t][K] = out[t] + in(t)[K + 1]
        BY <1>9, <3>1
      <3>3. in(t)[K + 1] = Len(Round(l, t))
        BY <1>8
      <3>4. out[t + 1] = out[t] + Len(Round(l, t))
        BY <1>7
      <3> QED
        BY <3>2, <3>3, <3>4
    <2>2. out[t + 1] \in Nat
      BY <1>7
    <2>3. CASE t = R
      BY <1>9, <2>1, <2>2, <2>3
    <2>4. CASE t # R
      <3>1. t + 1 \in 1 .. R /\ 0 \in 0 .. K /\ 0 + 1 = 1
        BY <2>4
      <3>2. pos[t + 1][0] = out[t + 1] + in(t + 1)[1] /\ in(t + 1)[1] = 0
        BY <1>8, <1>9, <3>1
      <3> QED
        BY <2>1, <2>2, <3>2
    <2> QED
      BY <2>3, <2>4
  <1>13. ASSUME NEW t \in 1 .. R, NEW s \in Sessions
         PROVE  /\ pos[t][s + 1] = pos[t][s] + Len(Piece(l, t, s)) /\ pos[t][s + 1] <= Len(Order(l))
                /\ \A i \in 1 .. Len(Piece(l, t, s)) : Order(l)[pos[t][s] + i] = Piece(l, t, s)[i]
    <2>1. s \in 0 .. K /\ s + 1 \in 0 .. K /\ s + 1 \in 1 .. K /\ s + 1 - 1 = s /\ s + 1 \in 1 .. K + 1
      BY DEF Sessions
    <2>2. PICK a \in Nat, b \in Nat, m \in Nat :
            a = out[t] /\ b = in(t)[s + 1] /\ m = Len(Piece(l, t, s))
      <3>1. out[t] \in Nat
        BY <1>7
      <3>2. in(t)[s + 1] \in Nat
        BY <1>8, <2>1
      <3>3. Len(Piece(l, t, s)) \in Nat
        BY PieceIs
      <3> QED
        BY <3>1, <3>2, <3>3
    <2>3. PICK n \in Nat : n = Len(Round(l, t))
      BY <1>2
    <2>4. pos[t][s] = a + b /\ pos[t][s + 1] = a + in(t)[s + 1 + 1]
      BY <1>9, <2>1, <2>2
    <2>5. /\ in(t)[s + 1 + 1] = b + m /\ b + m <= n
          /\ \A j \in 1 .. m : Round(l, t)[b + j] = Piece(l, t, s)[j]
      <3>1. PICK i \in 1 .. K : i = s + 1 /\ i - 1 = s
        BY <2>1
      <3>2. /\ in(t)[i + 1] = in(t)[i] + Len(Piece(l, t, i - 1))
            /\ in(t)[i + 1] <= Len(Round(l, t))
            /\ \A j \in 1 .. Len(Piece(l, t, i - 1)) :
                 Round(l, t)[in(t)[i] + j] = Piece(l, t, i - 1)[j]
        BY <1>8
      <3> QED
        BY <2>2, <2>3, <3>1, <3>2
    <2>6. \A j \in 1 .. m : Order(l)[a + (b + j)] = Piece(l, t, s)[j]
      <3> TAKE j \in 1 .. m
      <3>1. b + j \in 1 .. n
        BY <2>5
      <3> QED
        BY <1>7, <2>2, <2>3, <2>5, <3>1
    <2>7. \A j \in 1 .. m : a + (b + j) = a + b + j
      OBVIOUS
    <2>8. a + (b + m) <= Len(Order(l))
      <3>1. out[t + 1] = a + n /\ out[t + 1] <= Len(Order(l)) /\ out[t + 1] \in Nat
        BY <1>7, <2>2, <2>3
      <3>2. PICK size \in Nat : size = Len(Order(l))
        BY <1>5 DEF Laid
      <3> QED
        BY <2>5, <3>1, <3>2
    <2> QED
      BY <2>2, <2>4, <2>5, <2>6, <2>7, <2>8, SMTT(20)
  <1>14. Placed(l, pos)
    BY <1>1, <1>10, <1>11, <1>12, <1>13 DEF Placed
  <1> QED
    BY <1>5, <1>14 DEF Laid

\* Sessions with nothing in a round take no place in it.
LEMMA LevelPlaces ==
  ASSUME NEW l, Laned(l), NEW pos, Placed(l, pos), NEW t \in 1 .. Rounds(l),
         NEW a \in 0 .. K, NEW b \in 0 .. K, a <= b,
         \A s \in Sessions : a <= s /\ s < b => Len(Piece(l, t, s)) = 0
  PROVE  pos[t][a] = pos[t][b]
  <1> DEFINE bad == {c \in a .. b : pos[t][c] # pos[t][a]}
  <1>1. CASE bad = {}
    BY <1>1
  <1>2. CASE bad # {}
    <2>1. PICK c \in bad : \A d \in bad : c <= d
      <3>1. bad \in SUBSET Nat
        OBVIOUS
      <3> QED
        BY <1>2, <3>1, LeastMember
    <2>2. c # a /\ c \in a .. b /\ c - 1 \in a .. b /\ c - 1 \notin bad
      BY <2>1
    <2>3. pos[t][c - 1] = pos[t][a]
      BY <2>2
    <2>4. PICK s \in Sessions : s = c - 1 /\ s + 1 = c /\ a <= s /\ s < b
      BY <2>2 DEF Sessions
    <2>5. pos[t][s + 1] = pos[t][s] + Len(Piece(l, t, s)) /\ Len(Piece(l, t, s)) = 0 /\ pos[t][s] \in Nat
      <3>1. s \in 0 .. K /\ t \in 1 .. Rounds(l) + 1
        BY RoundsAre DEF Sessions
      <3> QED
        BY <2>4, <3>1 DEF Placed
    <2> QED
      BY <2>1, <2>3, <2>4, <2>5
  <1> QED
    BY <1>1, <1>2

-----------------------------------------------------------------------------
(* ProcessMajor's place in the order of rounds. *)

\* How much of the order is before the next access, in a round numbered r.
Here(pos, r) ==
  IF started /\ index[current] = 0 THEN pos[r + 1][current + 1] ELSE pos[r + 1][current] + index[current]

\* What was served is the order up to there.
ServedTo(n) ==
  Len(merged) = n /\ n <= Len(Order(lanes)) /\ \A i \in 1 .. n : merged[i] = Order(lanes)[i]

InOrder(r) ==
  /\ InRound(r)
  /\ IF started THEN r < Rounds(lanes) ELSE r = 0 /\ current = 0
  /\ \A pos : Placed(lanes, pos) => ServedTo(Here(pos, r))

OInv == RInv /\ (rule = "process" => \E r \in Nat : InOrder(r))

\* The session that is picked is the next that has anything in its round.
LEMMA HereIs ==
  ASSUME RInv, rule = "process", NEW r \in Nat, InOrder(r), NEW x \in Sessions, ProcessPick(x),
         NEW q \in Nat, q = token[x], NEW pos, Placed(lanes, pos)
  PROVE  q < Rounds(lanes) /\ Here(pos, r) = pos[q + 1][x] + index[x]
  <1>1. /\ TypeOK /\ Inside /\ Laned(lanes) /\ current \in Sessions /\ started \in BOOLEAN
        /\ \A s \in Sessions : index[s] # 0 => s = current
    BY DEF RInv, SInv, TypeOK
  <1>2. PICK R \in Nat : R = Rounds(lanes) /\ \A s \in Sessions : Len(lanes[s]) <= R /\ Len(lanes[s]) \in Nat
    BY <1>1, RoundsAre DEF Laned, IsLane, IsSequence
  <1>3. x \in Live /\ q < Len(lanes[x]) /\ q < R /\ q = Reached(x, r)
    <2>1. x \in Live
      BY DEF ProcessPick
    <2>2. q < Len(lanes[x]) /\ Len(lanes[x]) <= R /\ Len(lanes[x]) \in Nat
      BY <1>2, <2>1 DEF Live
    <2>3. q = Reached(x, r)
      BY <2>1 DEF InOrder, InRound
    <2> QED
      BY <2>1, <2>2, <2>3
  <1>4. \A s \in Sessions : s \in Nat /\ s < K /\ token[s] \in Nat
    <2>1. \A s \in Sessions : s \in Nat /\ s < K
      BY DEF Sessions
    <2>2. token \in [Sessions -> Nat]
      BY <1>1 DEF TypeOK, Counters
    <2> QED
      BY <2>1, <2>2
  \* Of a session that is not live, nothing is left in a round it has reached.
  <1>5. ASSUME NEW s \in Sessions, s \notin Live, NEW n \in Nat, token[s] <= n
        PROVE  Len(Piece(lanes, n + 1, s)) = 0
    <2>1. Len(lanes[s]) <= token[s]
      BY <1>2, <1>4, <1>5 DEF Live
    <2>2. n + 1 > Len(lanes[s]) /\ n + 1 \in Nat \ {0}
      BY <1>2, <1>4, <1>5, <2>1
    <2> QED
      BY <1>1, <2>2, PieceIs
  <1>6. ASSUME NEW t \in 1 .. R, NEW s \in 0 .. K
        PROVE  pos[t][s] \in Nat
    <2>1. t \in 1 .. Rounds(lanes) + 1
      BY <1>2
    <2>2. pos \in [1 .. Rounds(lanes) + 1 -> [0 .. K -> Nat]]
      BY DEF Placed
    <2> QED
      BY <2>1, <2>2
  <1>7. \A s \in Sessions : s \in 0 .. K /\ s + 1 \in 0 .. K
    BY DEF Sessions
  <1>8. CASE x = current /\ (index[x] # 0 \/ ~started)
    <2>1. ~(started /\ index[current] = 0) /\ ~(x < current)
      BY <1>4, <1>8
    <2>2. q = r
      BY <1>3, <1>8, <2>1 DEF Reached
    <2>3. Here(pos, r) = pos[r + 1][current] + index[current]
      BY <2>1 DEF Here
    <2> QED
      BY <1>2, <1>3, <1>8, <2>2, <2>3
  <1>9. CASE /\ index[x] = 0 /\ index[current] = 0 /\ (current \in Live => started)
             /\ x > current /\ \A t \in Live : t <= current \/ x <= t
    <2>1. q = r
      <3>1. ~(x < current) /\ x # current
        BY <1>1, <1>4, <1>9
      <3> QED
        BY <1>3, <3>1 DEF Reached
    <2>2. r + 1 \in 1 .. R
      BY <1>3, <2>1
    <2>3. PICK a \in 0 .. K : a = (IF started THEN current + 1 ELSE current) /\ a <= x
      BY <1>1, <1>4, <1>7, <1>9
    <2>4. ASSUME NEW s \in Sessions, a <= s, s < x
          PROVE  Len(Piece(lanes, r + 1, s)) = 0
      <3>1. s \notin Live
        BY <1>1, <1>4, <1>9, <2>3, <2>4
      <3>2. Reached(s, r) = r
        BY <1>1, <1>4, <2>3, <2>4 DEF Reached
      <3>3. token[s] <= r
        BY <3>2 DEF InOrder, InRound
      <3> QED
        BY <1>5, <3>1, <3>3
    <2>5. pos[r + 1][a] = pos[r + 1][x]
      BY <1>1, <1>2, <1>7, <2>2, <2>3, <2>4, LevelPlaces, SMTT(20)
    <2>6. pos[r + 1][a] \in Nat
      BY <1>6, <2>2
    <2>7. Here(pos, r) = pos[r + 1][a]
      BY <1>9, <2>3, <2>5, <2>6 DEF Here
    <2> QED
      BY <1>2, <1>3, <1>9, <2>1, <2>5, <2>6, <2>7
  <1>10. CASE /\ index[x] = 0 /\ index[current] = 0 /\ (current \in Live => started)
              /\ x <= current /\ \A t \in Live : t <= current /\ x <= t
    <2>1. started
      <3>1. ASSUME ~started PROVE FALSE
        <4>1. current = 0 /\ x = 0
          BY <1>4, <1>10, <3>1 DEF InOrder
        <4> QED
          BY <1>3, <1>10, <3>1, <4>1
      <3> QED
        BY <3>1
    <2>2. q = r + 1
      <3>1. x < current \/ (x = current /\ started /\ index[x] = 0)
        BY <1>1, <1>4, <1>10, <2>1
      <3> QED
        BY <1>3, <3>1 DEF Reached
    <2>3. r + 1 \in 1 .. R /\ r + 2 \in 1 .. R /\ r + 1 + 1 = r + 2
      BY <1>3, <2>2
    <2>4. current + 1 \in 0 .. K /\ K \in 0 .. K /\ current + 1 <= K /\ 0 \in 0 .. K /\ x \in 0 .. K /\ 0 <= x
      BY <1>1, <1>4, <1>7
    <2>5. ASSUME NEW s \in Sessions, current + 1 <= s
          PROVE  Len(Piece(lanes, r + 1, s)) = 0
      <3>1. s \notin Live
        BY <1>1, <1>4, <1>10, <2>5
      <3>2. Reached(s, r) = r
        BY <1>1, <1>4, <2>5 DEF Reached
      <3>3. token[s] <= r
        BY <3>2 DEF InOrder, InRound
      <3> QED
        BY <1>5, <3>1, <3>3
    <2>6. ASSUME NEW s \in Sessions, s < x
          PROVE  Len(Piece(lanes, r + 2, s)) = 0
      <3>1. s \notin Live
        BY <1>4, <1>10, <2>6
      <3>2. Reached(s, r) <= r + 1
        BY DEF Reached
      <3>3. token[s] <= r + 1
        <4>1. token[s] <= Reached(s, r)
          BY DEF InOrder, InRound
        <4>2. Reached(s, r) \in {r, r + 1}
          BY DEF Reached
        <4> QED
          BY <1>4, <3>2, <4>1, <4>2
      <3>4. r + 1 \in Nat
        OBVIOUS
      <3>5. Len(Piece(lanes, r + 1 + 1, s)) = 0
        BY <1>5, <3>1, <3>3, <3>4
      <3> QED
        BY <2>3, <3>5
    <2>7. pos[r + 1][current + 1] = pos[r + 1][K]
      BY <1>1, <1>2, <2>3, <2>4, <2>5, LevelPlaces
    <2>8. pos[r + 1][K] = pos[r + 2][0]
      BY <1>2, <2>3 DEF Placed
    <2>9. pos[r + 2][0] = pos[r + 2][x]
      BY <1>1, <1>2, <2>3, <2>4, <2>6, LevelPlaces
    <2>10. pos[r + 2][x] \in Nat
      BY <1>6, <2>3, <2>4
    <2>11. Here(pos, r) = pos[r + 1][current + 1]
      BY <1>10, <2>1 DEF Here
    <2> QED
      BY <1>2, <1>3, <1>10, <2>2, <2>3, <2>7, <2>8, <2>9, <2>10, <2>11
  <1> QED
    BY <1>1, <1>8, <1>9, <1>10, PickNext

LEMMA OrderTurn ==
  ASSUME RInv, rule = "process", NEW r \in Nat, InOrder(r), NEW x \in Sessions, Serve(x)
  PROVE  \E q \in Nat : InOrder(q)'
  <1>1. /\ TypeOK /\ Inside /\ Laned(lanes) /\ current \in Sessions /\ started \in BOOLEAN
        /\ \A s \in Sessions : index[s] # 0 => s = current
    BY DEF RInv, SInv, TypeOK
  <1>2. Turn(x)
    BY <1>1, ServeTurns
  <1>3. ProcessPick(x) /\ current' = x /\ started' = TRUE /\ lanes' = lanes
    BY DEF Serve, Pick
  <1>4. PICK q \in Nat : q = token[x]
    BY <1>1 DEF TypeOK, Counters
  <1>5. InRound(q)'
    BY <1>1, <1>2, <1>3, <1>4, RoundTurn DEF InOrder
  <1>6. PICK n \in Nat, i \in Nat : n = Len(Now(x)) /\ i = index[x] /\ i < n
    <2>1. Len(Now(x)) \in Nat /\ index[x] \in Nat
      BY <1>1, <1>2, LiveToken DEF Turn, TypeOK, Counters
    <2>2. index[x] < Len(Now(x))
      BY <2>1 DEF Serve, NextOf, Now
    <2> QED
      BY <2>1, <2>2
  <1>7. q + 1 \in Nat \ {0} /\ q + 1 <= Len(lanes[x])
    <2>1. q < Len(lanes[x]) /\ Len(lanes[x]) \in Nat
      BY <1>1, <1>2, <1>4 DEF Turn, Live, Laned, IsLane, IsSequence
    <2> QED
      BY <2>1
  <1>8. PICK e : e = <<x, lanes[x][q + 1][i + 1]>>
    OBVIOUS
  <1>9. Len(Piece(lanes, q + 1, x)) = n /\ Piece(lanes, q + 1, x)[i + 1] = e
    <2>1. /\ Len(Piece(lanes, q + 1, x)) = Len(lanes[x][q + 1])
          /\ \A j \in 1 .. Len(lanes[x][q + 1]) : Piece(lanes, q + 1, x)[j] = <<x, lanes[x][q + 1][j]>>
      <3>1. PICK w : w = q + 1
        OBVIOUS
      <3>2. Laned(lanes) /\ w \in Nat \ {0} /\ w <= Len(lanes[x])
        BY <1>1, <1>7, <3>1
      <3>3. /\ Len(Piece(lanes, w, x)) = Len(lanes[x][w])
            /\ \A j \in 1 .. Len(lanes[x][w]) : Piece(lanes, w, x)[j] = <<x, lanes[x][w][j]>>
        BY <3>2, PieceIs
      <3> QED
        BY <3>1, <3>3
    <2>2. Len(lanes[x][q + 1]) = n /\ i + 1 \in 1 .. n
      BY <1>4, <1>6 DEF Now
    <2> QED
      BY <1>8, <2>1, <2>2
  <1>10. merged' = Append(merged, e)
    BY <1>4, <1>6, <1>8 DEF Serve
  <1>11. ASSUME NEW pos, Placed(lanes, pos)
         PROVE  q < Rounds(lanes) /\ ServedTo(Here(pos, q))'
    <2>1. q < Rounds(lanes) /\ Here(pos, r) = pos[q + 1][x] + i
      BY <1>3, <1>4, <1>6, <1>11, HereIs
    <2>2. PICK b \in Nat : b = pos[q + 1][x]
      <3>1. q + 1 \in 1 .. Rounds(lanes) + 1 /\ x \in 0 .. K
        BY <1>1, <2>1, RoundsAre DEF Sessions
      <3> QED
        BY <1>11, <3>1 DEF Placed
    <2>3. q + 1 \in 1 .. Rounds(lanes)
      BY <1>1, <2>1, RoundsAre
    <2>4. pos[q + 1][x + 1] = b + n /\ b + n <= Len(Order(lanes)) /\ Order(lanes)[b + (i + 1)] = e
      <3>1. /\ pos[q + 1][x + 1] = pos[q + 1][x] + Len(Piece(lanes, q + 1, x))
            /\ pos[q + 1][x + 1] <= Len(Order(lanes))
            /\ \A j \in 1 .. Len(Piece(lanes, q + 1, x)) :
                 Order(lanes)[pos[q + 1][x] + j] = Piece(lanes, q + 1, x)[j]
        BY <1>11, <2>3 DEF Placed
      <3>2. i + 1 \in 1 .. n
        BY <1>6
      <3> QED
        BY <1>9, <2>2, <3>1, <3>2
    <2>5. Len(merged) = b + i /\ \A j \in 1 .. b + i : merged[j] = Order(lanes)[j]
      BY <1>11, <2>1, <2>2 DEF InOrder, ServedTo
    <2>6. Len(merged') = b + i + 1 /\ \A j \in 1 .. b + i + 1 : merged'[j] = Order(lanes)[j]
      <3>1. PICK any : merged \in Seq(any)
        BY <1>1 DEF TypeOK
      <3>2. Len(merged') = b + i + 1 /\ merged'[b + i + 1] = e /\ \A j \in 1 .. b + i : merged'[j] = merged[j]
        BY <1>10, <2>5, <3>1
      <3>3. b + (i + 1) = b + i + 1
        OBVIOUS
      <3>4. ASSUME NEW j \in 1 .. b + i + 1 PROVE merged'[j] = Order(lanes)[j]
        <4>1. j \in 1 .. b + i \/ j = b + i + 1
          BY <1>6, <2>2, <3>4
        <4> QED
          BY <2>4, <2>5, <3>2, <3>3, <4>1
      <3> QED
        BY <3>2, <3>4
    <2>7. Here(pos, q)' = b + i + 1
      <3>1. Here(pos, q)' = IF index'[x] = 0 THEN pos[q + 1][x + 1] ELSE pos[q + 1][x] + index'[x]
        BY <1>3 DEF Here
      <3>2. \/ index'[x] = i + 1
            \/ index'[x] = 0 /\ i + 1 = n
        BY <1>2, <1>6 DEF Turn, GoesOn, Closes
      <3>3. CASE index'[x] = 0 /\ i + 1 = n
        <4>1. Here(pos, q)' = b + n
          BY <2>4, <3>1, <3>3
        <4> QED
          BY <1>6, <2>2, <3>3, <4>1
      <3>4. CASE index'[x] = i + 1
        <4>1. Here(pos, q)' = b + (i + 1)
          BY <1>6, <2>2, <3>1, <3>4
        <4> QED
          BY <1>6, <2>2, <4>1, SMTT(20)
      <3> QED
        BY <3>2, <3>3, <3>4
    <2>8. b + i + 1 <= Len(Order(lanes))
      <3>1. PICK size \in Nat : size = Len(Order(lanes))
        BY <1>1, OrderPlaced
      <3> QED
        BY <1>6, <2>4, <3>1
    <2> QED
      BY <1>3, <2>1, <2>6, <2>7, <2>8 DEF ServedTo
  <1>12. q < Rounds(lanes)
    <2>1. \E pos : Placed(lanes, pos)
      BY <1>1, OrderPlaced
    <2> QED
      BY <1>11, <2>1
  <1>13. InOrder(q)'
    <2>1. \A pos : Placed(lanes, pos)' => Placed(lanes, pos)
      BY <1>3
    <2>2. Rounds(lanes)' = Rounds(lanes)
      BY <1>3
    <2> QED
      BY <1>3, <1>5, <1>11, <1>12, <2>1, <2>2 DEF InOrder
  <1> QED
    BY <1>13

LEMMA OrderStart ==
  ASSUME SInv, token = Zero, index = Zero, current = 0, started = FALSE, merged = <<>>
  PROVE  OInv
  <1>1. RInv /\ InRound(0)
    BY RoundStart
  <1>2. ASSUME NEW pos, Placed(lanes, pos)
        PROVE  ServedTo(Here(pos, 0))
    <2>1. pos[1][0] = 0
      BY <1>2 DEF Placed
    <2>2. index[0] = 0
      BY DEF Zero, Sessions
    <2>3. Here(pos, 0) = 0
      BY <2>1, <2>2 DEF Here
    <2>4. Len(Order(lanes)) \in Nat
      BY OrderPlaced DEF SInv, TypeOK
    <2> QED
      BY <2>3, <2>4 DEF ServedTo
  <1>3. InOrder(0)
    BY <1>1, <1>2 DEF InOrder
  <1> QED
    BY <1>1, <1>3 DEF OInv

LEMMA OrderStep ==
  ASSUME OInv, [Next]_vars
  PROVE  OInv'
  <1>1. RInv /\ RInv' /\ SInv'
    BY RoundStep DEF OInv, RInv
  <1>2. ASSUME NEW x \in Sessions, Serve(x) PROVE OInv'
    <2>1. rule' = rule
      BY <1>2 DEF Serve
    <2>2. CASE rule = "process"
      <3>1. PICK r \in Nat : InOrder(r)
        BY <2>2 DEF OInv
      <3>2. \E q \in Nat : InOrder(q)'
        BY <1>1, <1>2, <2>2, <3>1, OrderTurn
      <3> QED
        BY <1>1, <3>2 DEF OInv
    <2> QED
      BY <1>1, <2>1, <2>2 DEF OInv
  <1>3. ASSUME NEW by \in Rules, NEW promised \in Admitted(ceilings, capacity), NEW vacant \in Slots,
               Prepare(by, promised, vacant)
        PROVE  OInv'
    <2>1. token' = Zero /\ index' = Zero /\ current' = 0 /\ started' = FALSE /\ merged' = <<>>
      BY <1>3 DEF Prepare
    <2>2. Zero' = Zero
      BY DEF Zero
    <2>3. (SInv /\ token = Zero /\ index = Zero /\ current = 0 /\ started = FALSE /\ merged = <<>> => OInv)'
      BY OrderStart, PTL
    <2> QED
      BY <1>1, <2>1, <2>2, <2>3
  <1>4. CASE Merged \/ Unparsed \/ Ordered \/ UNCHANGED vars
    <2>1. UNCHANGED <<token, index, current, started, rule, lanes, merged>>
      BY <1>4 DEF Merged, Unparsed, Ordered, vars, cursors
    <2>2. \A r : InOrder(r)' <=> InOrder(r)
      BY <2>1 DEF InOrder, InRound, Reached, Live, ServedTo, Here
    <2> QED
      BY <1>1, <2>1, <2>2 DEF OInv
  <1> QED
    BY <1>2, <1>3, <1>4 DEF Next

\* Everything before Here is served, in the order of rounds.
THEOREM OrderInductive == Spec => []OInv
  <1>1. Init => OInv
    BY InitSafe, OrderStart DEF Init
  <1>2. OInv /\ [Next]_vars => OInv'
    BY OrderStep
  <1> QED
    BY <1>1, <1>2, PTL DEF Spec

-----------------------------------------------------------------------------
(* The theorems about the order. *)

\* Under process-major whoever is inside a token is the session served last,
\* and of two sessions with tokens left one is ahead of the other by at most
\* the token of this round, which the lower number has first.
TokensInTurn ==
  rule = "process" =>
    \A s \in Sessions :
      /\ index[s] # 0 => s = current
      /\ \A t \in Live : token[s] <= token[t] \/ (token[s] = token[t] + 1 /\ s < t)

LEMMA InRoundInTurn == RInv => TokensInTurn
  <1> SUFFICES ASSUME RInv, rule = "process", NEW s \in Sessions
               PROVE  /\ index[s] # 0 => s = current
                      /\ \A t \in Live : token[s] <= token[t] \/ (token[s] = token[t] + 1 /\ s < t)
    BY DEF TokensInTurn
  <1>1. PICK r \in Nat : InRound(r)
    BY DEF RInv
  <1>2. ASSUME NEW t \in Live
        PROVE  token[s] <= token[t] \/ (token[s] = token[t] + 1 /\ s < t)
    <2>1. /\ s \in Nat /\ t \in Nat /\ current \in Nat /\ token[s] \in Nat /\ token[t] \in Nat
          /\ t \in Sessions
      <3>1. t \in Sessions /\ current \in Sessions /\ Sessions \in SUBSET Nat
        BY DEF Live, RInv, Sessions
      <3>2. token[s] \in Nat /\ token[t] \in Nat
        BY <3>1 DEF RInv, SInv, TypeOK, Counters
      <3> QED
        BY <3>1, <3>2
    <2>2. token[s] <= Reached(s, r) /\ token[t] = Reached(t, r)
      BY <1>1, <2>1 DEF InRound
    <2>3. Reached(s, r) = Reached(t, r) \/ Reached(t, r) = r + 1 \/ s < t
      BY <2>1 DEF Reached
    <2>4. Reached(s, r) \in {r, r + 1} /\ Reached(t, r) \in {r, r + 1}
      BY DEF Reached
    <2> QED
      BY <2>1, <2>2, <2>3, <2>4
  <1>3. index[s] # 0 => s = current
    BY DEF RInv
  <1> QED
    BY <1>2, <1>3

\* ProcessMajor is round robin by whole tokens, over any lanes, those the
\* kernel cuts included.
THEOREM TokensStayInTurn == Spec => []TokensInTurn
  BY RoundsInductive, InRoundInTurn, PTL

\* ProcessMajor::pick and ParameterMajor::pick name a session as long as any
\* has a token left, one that has, and never two: the ties are all broken.
NamesOne == Live # {} => \E s \in Live : Pick(s) /\ \A t \in Sessions : Pick(t) => t = s

THEOREM OneIsNamed == Spec => []NamesOne
  <1>1. RInv => NamesOne
    BY OneNamed DEF NamesOne
  <1> QED
    BY <1>1, RoundsInductive, PTL

\* Before a rule stops with lanes left it comes to a token with no access.
LEMMA ExhaustedMeans ==
  ASSUME RInv, Exhausted
  PROVE  Live = {} \/ \E s \in Live : Pick(s) /\ Len(lanes[s][token[s] + 1]) = 0
  <1> SUFFICES ASSUME Live # {} PROVE \E s \in Live : Pick(s) /\ Len(lanes[s][token[s] + 1]) = 0
    OBVIOUS
  <1>1. PICK s \in Live : Pick(s)
    BY OneNamed
  <1>2. NextOf(s) = {} /\ s \in Sessions
    BY <1>1 DEF Exhausted, Live
  <1>3. TypeOK /\ Inside
    BY DEF RInv, SInv
  <1>4. Len(Now(s)) \in Nat /\ index[s] \in Nat /\ (index[s] = 0 \/ index[s] < Len(Now(s)))
    BY <1>2, <1>3, LiveToken DEF TypeOK, Counters
  <1>5. ~(index[s] < Len(Now(s)))
    BY <1>2 DEF NextOf, Now
  <1> QED
    BY <1>1, <1>4, <1>5 DEF Now

\* The drivers' loop stops with every lane at its end, or before a token that
\* was declared with no access in it.
NothingLeft ==
  stage \in {"ended", "refused"} =>
    Live = {} \/ \E s \in Live : Pick(s) /\ Len(lanes[s][token[s] + 1]) = 0

THEOREM LoopFinishes == Spec => []NothingLeft
  <1>1. Spec => []Over
    <2>1. Init => Over
      BY DEF Init, Over
    <2>2. Over /\ [Next]_vars => Over'
      BY OverStep
    <2> QED
      BY <2>1, <2>2, PTL DEF Spec
  <1>2. RInv /\ Over => NothingLeft
    BY ExhaustedMeans DEF Over, NothingLeft
  <1> QED
    BY <1>1, <1>2, RoundsInductive, PTL

\* What was served is a prefix of the order of rounds over the lanes served.
ByRounds == rule = "process" => IsPrefix(merged, Order(lanes))

LEMMA OrderByRounds == OInv => ByRounds
  <1> SUFFICES ASSUME OInv, rule = "process" PROVE IsPrefix(merged, Order(lanes))
    BY DEF ByRounds
  <1>1. /\ RInv /\ Laned(lanes) /\ TypeOK /\ Inside /\ current \in Sessions /\ started \in BOOLEAN
    BY DEF OInv, RInv, SInv, TypeOK
  <1>2. PICK r \in Nat : InOrder(r)
    BY DEF OInv
  <1>3. PICK pos : Placed(lanes, pos)
    BY <1>1, OrderPlaced
  <1>4. PICK any : merged \in Seq(any)
    BY <1>1 DEF TypeOK
  <1>5. PICK f : f = Order(lanes) /\ f \in Seq(Accessed(lanes))
    BY <1>1, OrderPlaced
  <1>6. PICK n \in Nat : n = Len(merged) /\ n <= Len(f) /\ \A i \in 1 .. n : merged[i] = f[i]
    BY <1>2, <1>3, <1>4, <1>5 DEF InOrder, ServedTo
  <1>7. SubSeq(merged, 1, n) = SubSeq(f, 1, n)
    BY <1>4, <1>5, <1>6
  <1> QED
    BY <1>5, <1>6, <1>7 DEF IsPrefix

\* ProcessMajor's order is that of rounds over the sessions with tokens left,
\* on the host and in the kernel, over whatever lanes it has.
THEOREM OrderIsRounds == Spec => []ByRounds
  BY OrderInductive, OrderByRounds, PTL

-----------------------------------------------------------------------------
(* The cut finds the tokens that were generated. *)

\* The accesses of s in a trace are the first n of f, in order: the a-th is at p[a].
Follows(accesses, s, f, n, p) ==
  /\ n \in Nat /\ p \in [1 .. n -> DOMAIN accesses]
  /\ \A a, b \in 1 .. n : a < b => p[a] < p[b]
  /\ \A a \in 1 .. n : accesses[p[a]] = <<s, f[a]>>
  /\ \A i \in DOMAIN accesses : accesses[i][1] = s => \E a \in 1 .. n : p[a] = i

\* A lane the cut can find: no token is empty, and what the kernel cuts at begins
\* every token but perhaps the first, and is nowhere else.
Cuttable(lane) ==
  \A t \in DOMAIN lane :
    /\ Len(lane[t]) # 0
    /\ t # 1 => lane[t][1] = First
    /\ \A j \in DOMAIN lane[t] : j # 1 => lane[t][j] # First

\* p numbers the members of T from lo + 1 to lo + n.
Numbers(p, lo, n, T) ==
  /\ lo \in Nat /\ n \in Nat
  /\ \A a \in lo + 1 .. lo + n : p[a] \in T
  /\ \A y \in T : \E a \in lo + 1 .. lo + n : p[a] = y
  /\ \A a, b \in lo + 1 .. lo + n : p[a] = p[b] => a = b

LEMMA NumbersCount ==
  ASSUME NEW p, NEW lo, NEW n, NEW T, Numbers(p, lo, n, T)
  PROVE  Cardinality(T) = n
  <1> DEFINE S == lo + 1 .. lo + n
             f == [a \in S |-> p[a]]
  <1>1. IsFiniteSet(S) /\ Cardinality(S) = n
    BY FS_Interval DEF Numbers
  <1>2. f \in [S -> T] /\ \A a \in S : f[a] = p[a]
    BY DEF Numbers
  <1>3. \A y \in T : \E a \in S : f[a] = y
    BY DEF Numbers
  <1> HIDE DEF f
  <1>4. f \in Bijection(S, T)
    <2>1. \A a, b \in S : f[a] = f[b] => a = b
      BY <1>2 DEF Numbers
    <2> HIDE DEF S
    <2> QED
      BY <1>2, <1>3, <2>1 DEF Bijection, Injection, Surjection, IsInjective
  <1>5. ExistsBijection(S, T)
    BY <1>4 DEF ExistsBijection
  <1>6. Cardinality(T) = n
    BY <1>1, <1>5, FS_Bijection
  <1> QED
    BY <1>6

\* Where each part begins.
Rising(o, k) == o \in [1 .. k + 1 -> Nat] /\ o[1] = 0 /\ \A t \in 1 .. k : o[t] < o[t + 1]

LEMMA RisesTo ==
  ASSUME NEW k \in Nat, NEW o, Rising(o, k), NEW t \in 1 .. k + 1, NEW u \in 1 .. k + 1, t < u
  PROVE  o[t] < o[u]
  <1> DEFINE bad == {v \in Nat : v \in t + 1 .. k + 1 /\ ~(o[t] < o[v])}
  <1>1. bad \in SUBSET Nat
    OBVIOUS
  <1>2. CASE bad # {}
    <2>1. PICK v \in bad : \A w \in bad : v <= w
      <3> HIDE DEF bad
      <3> QED
        BY <1>1, <1>2, LeastMember
    <2>2. v \in t + 1 .. k + 1 /\ v - 1 \in 1 .. k /\ ~(o[t] < o[v])
      BY <2>1
    <2>3. o[v - 1] < o[v]
      <3>1. PICK w \in 1 .. k : w = v - 1
        BY <2>2
      <3> QED
        BY <2>2, <3>1 DEF Rising
    <2>4. v - 1 # t => o[t] < o[v - 1]
      <3>1. v - 1 # t => v - 1 \in Nat /\ v - 1 \in t + 1 .. k + 1 /\ ~(v <= v - 1)
        BY <2>2
      <3> QED
        BY <2>1, <3>1
    <2>5. o[t] \in Nat /\ o[v] \in Nat /\ o[v - 1] \in Nat
      BY <2>2 DEF Rising
    <2> QED
      BY <2>2, <2>3, <2>4, <2>5
  <1>3. CASE bad = {}
    <2>1. u \in Nat /\ u \in t + 1 .. k + 1
      OBVIOUS
    <2> QED
      BY <1>3, <2>1
  <1> QED
    BY <1>2, <1>3

LEMMA PartOf ==
  ASSUME NEW k \in Nat, NEW o, Rising(o, k), NEW m \in 1 .. o[k + 1]
  PROVE  \E t \in 1 .. k : o[t] < m /\ m <= o[t + 1]
  <1> DEFINE above == {t \in Nat : t \in 1 .. k + 1 /\ m <= o[t]}
  <1>1. k + 1 \in above /\ o[k + 1] \in Nat
    BY DEF Rising
  <1>2. PICK u \in above : \A t \in above : u <= t
    <2>1. above \in SUBSET Nat /\ above # {}
      BY <1>1
    <2> HIDE DEF above
    <2> QED
      BY <2>1, LeastMember
  <1>3. u # 1 /\ u \in 1 .. k + 1 /\ m <= o[u]
    BY <1>1, <1>2 DEF Rising
  <1>4. PICK t \in 1 .. k : u = t + 1
    <2>1. u - 1 \in 1 .. k /\ u = (u - 1) + 1
      BY <1>3
    <2> QED
      BY <2>1
  <1>5. ~(m <= o[t])
    <2>1. t \in Nat /\ t \in 1 .. k + 1 /\ ~(u <= t)
      BY <1>4
    <2> QED
      BY <1>2, <2>1
  <1>6. o[t] \in Nat /\ m \in Nat
    BY <1>1, <1>4 DEF Rising
  <1> QED
    BY <1>3, <1>4, <1>5, <1>6


\* Which of the first accesses of s begin tokens, and of which token one is.
LEMMA FillFinds ==
  ASSUME NEW s, NEW lane, IsLane(lane), Cuttable(lane), NEW f, NEW o, Offsets(f, lane, Len(lane), o),
         NEW accesses, NEW size \in Nat, DOMAIN accesses = 1 .. size,
         NEW p, Follows(accesses, s, f, Len(f), p)
  PROVE  Fill(accesses, s) = lane
  <1> DEFINE own    == Own(accesses, s)
             begins == {i \in own : Begins(accesses, s, i)}
             of(t)  == {i \in own : Cardinality({j \in begins : j <= i}) = t}
  <1>1. PICK k \in Nat, n \in Nat : /\ k = Len(lane) /\ n = Len(f) /\ DOMAIN lane = 1 .. k
                                     /\ \A t \in 1 .. k : IsSequence(lane[t])
    <2>1. Len(lane) \in Nat /\ DOMAIN lane = 1 .. Len(lane)
      BY DEF IsLane, IsSequence
    <2>2. Len(f) \in Nat
      BY DEF Follows
    <2>3. \A t \in 1 .. Len(lane) : IsSequence(lane[t])
      BY <2>1 DEF IsLane
    <2>4. PICK k, n : k = Len(lane) /\ n = Len(f)
      OBVIOUS
    <2>5. /\ k \in Nat /\ n \in Nat /\ DOMAIN lane = 1 .. k
          /\ \A t \in 1 .. k : IsSequence(lane[t])
      BY <2>1, <2>2, <2>3, <2>4, Zenon
    <2> QED
      BY <2>4, <2>5, Zenon
  <1>2. /\ p \in [1 .. n -> 1 .. size]
        /\ \A a, b \in 1 .. n : a < b => p[a] < p[b]
        /\ \A a \in 1 .. n : accesses[p[a]] = <<s, f[a]>>
        /\ \A i \in 1 .. size : accesses[i][1] = s => \E a \in 1 .. n : p[a] = i
    BY <1>1 DEF Follows
  <1>3. \A a, b \in 1 .. n : (p[a] <= p[b] <=> a <= b) /\ (p[a] < p[b] <=> a < b) /\ (p[a] = p[b] <=> a = b)
    <2> TAKE a, b \in 1 .. n
    <2>1. a < b \/ a = b \/ b < a
      OBVIOUS
    <2>2. p[a] \in 1 .. size /\ p[b] \in 1 .. size
      BY <1>2
    <2>3. (a < b => p[a] < p[b]) /\ (b < a => p[b] < p[a])
      BY <1>2
    <2> QED
      BY <2>1, <2>2, <2>3
  <1>4. /\ o \in [1 .. k + 1 -> Nat] /\ o[1] = 0 /\ o[k + 1] = n
        /\ \A t \in 1 .. k : o[t + 1] = o[t] + Len(lane[t]) /\ o[t + 1] <= n
        /\ \A t \in 1 .. k : \A j \in 1 .. Len(lane[t]) : f[o[t] + j] = lane[t][j]
    BY <1>1 DEF Offsets
  <1>5. \A t \in 1 .. k : Len(lane[t]) \in Nat \ {0} /\ DOMAIN lane[t] = 1 .. Len(lane[t])
    BY <1>1 DEF IsSequence, Cuttable
  <1>6. Rising(o, k)
    <2>1. ASSUME NEW t \in 1 .. k PROVE o[t] < o[t + 1]
      <3>1. o[t] \in Nat /\ o[t + 1] = o[t] + Len(lane[t])
        BY <1>4
      <3>2. Len(lane[t]) \in Nat /\ Len(lane[t]) # 0
        BY <1>5
      <3> QED
        BY <3>1, <3>2
    <2> QED
      BY <1>4, <2>1 DEF Rising
  \* The j-th access of token t is the (o[t] + j)-th of the session.
  <1>7. ASSUME NEW t \in 1 .. k, NEW j \in 1 .. Len(lane[t])
        PROVE  /\ o[t] + j \in 1 .. n /\ accesses[p[o[t] + j]] = <<s, lane[t][j]>>
               /\ o[t] \in Nat /\ o[t] + j <= o[t + 1]
    <2>1. o[t] \in Nat /\ j \in Nat /\ j # 0 /\ j <= Len(lane[t]) /\ Len(lane[t]) \in Nat
      BY <1>4, <1>5
    <2>2. o[t + 1] = o[t] + Len(lane[t]) /\ o[t + 1] <= n
      BY <1>4
    <2>3. o[t] + j \in 1 .. n /\ o[t] + j <= o[t + 1]
      BY <2>1, <2>2
    <2>4. f[o[t] + j] = lane[t][j]
      BY <1>4
    <2> QED
      BY <1>2, <2>1, <2>3, <2>4
  <1>8. ASSUME NEW a \in 1 .. n
        PROVE  \E t \in 1 .. k : \E j \in 1 .. Len(lane[t]) : a = o[t] + j
    <2>1. a \in 1 .. o[k + 1]
      BY <1>4
    <2>2. PICK t \in 1 .. k : o[t] < a /\ a <= o[t + 1]
      BY <1>6, <2>1, PartOf
    <2>3. o[t] \in Nat /\ o[t + 1] = o[t] + Len(lane[t]) /\ Len(lane[t]) \in Nat
      BY <1>4, <1>5
    <2>4. a - o[t] \in 1 .. Len(lane[t]) /\ a = o[t] + (a - o[t])
      BY <2>2, <2>3
    <2> QED
      BY <2>4
  <1>9. own = {p[a] : a \in 1 .. n}
    BY <1>2 DEF Own
  <1>10. ASSUME NEW t \in 1 .. k, NEW j \in 1 .. Len(lane[t])
         PROVE  Begins(accesses, s, p[o[t] + j]) <=> j = 1
    <2>1. PICK a \in 1 .. n : a = o[t] + j
      BY <1>7
    <2>2. a = 1 <=> t = 1 /\ j = 1
      <3>1. t # 1 => o[1] < o[t]
        <4>1. 1 \in 1 .. k + 1 /\ t \in 1 .. k + 1
          OBVIOUS
        <4> QED
          BY <1>6, <4>1, RisesTo
      <3> QED
        BY <1>4, <1>7, <2>1, <3>1
    <2> DEFINE before == {i \in own : i < p[a]}
    <2>3. before = {} <=> a = 1
      <3>1. \A c \in 1 .. n : p[c] < p[a] <=> c < a
        BY <1>3
      <3>2. before = {} <=> \A c \in 1 .. n : ~(c < a)
        BY <1>9, <3>1
      <3> QED
        BY <3>2
    <2>4. accesses[p[a]] = <<s, lane[t][j]>>
      BY <1>7, <2>1
    <2>5. (t # 1 => lane[t][1] = First) /\ (j # 1 => lane[t][j] # First)
      BY <1>1, <1>5 DEF Cuttable
    <2>6. Begins(accesses, s, p[a]) <=> before = {} \/ accesses[p[a]][2] = First
      BY DEF Begins
    <2> HIDE DEF before
    <2> QED
      BY <2>1, <2>2, <2>3, <2>4, <2>5, <2>6
  <1> DEFINE b == [u \in 1 .. k |-> p[o[u] + 1]]
  <1>11. begins = {b[u] : u \in 1 .. k}
    <2>1. ASSUME NEW i \in begins PROVE i \in {b[u] : u \in 1 .. k}
      <3>1. PICK a \in 1 .. n : i = p[a]
        BY <1>9
      <3>2. PICK t \in 1 .. k : \E j \in 1 .. Len(lane[t]) : a = o[t] + j
        BY <1>8
      <3>3. PICK j \in 1 .. Len(lane[t]) : a = o[t] + j
        BY <3>2
      <3>4. Begins(accesses, s, p[o[t] + j])
        BY <3>1, <3>3
      <3>5. j = 1
        BY <1>10, <3>4
      <3> QED
        BY <3>1, <3>3, <3>5
    <2>2. ASSUME NEW u \in 1 .. k PROVE b[u] \in begins
      <3>1. 1 \in 1 .. Len(lane[u])
        BY <1>5
      <3>2. o[u] + 1 \in 1 .. n /\ Begins(accesses, s, p[o[u] + 1])
        BY <1>7, <1>10, <3>1
      <3> QED
        BY <1>9, <3>2
    <2> HIDE DEF begins
    <2> QED
      BY <2>1, <2>2
  <1>12. ASSUME NEW t \in 1 .. k, NEW j \in 1 .. Len(lane[t])
         PROVE  Cardinality({i \in begins : i <= p[o[t] + j]}) = t
    <2>1. ASSUME NEW u \in 1 .. k PROVE b[u] <= p[o[t] + j] <=> u <= t
      <3>1. 1 \in 1 .. Len(lane[u])
        BY <1>5
      <3>2. o[u] + 1 \in 1 .. n /\ o[t] + j \in 1 .. n /\ o[u] \in Nat /\ o[t] \in Nat /\ o[t] + j <= o[t + 1]
        BY <1>7, <3>1
      <3>3. b[u] <= p[o[t] + j] <=> o[u] + 1 <= o[t] + j
        BY <1>3, <3>2
      <3>4. /\ u < t => o[u] < o[t]
            /\ t + 1 < u => o[t + 1] < o[u]
        <4>1. u \in 1 .. k + 1 /\ t \in 1 .. k + 1 /\ t + 1 \in 1 .. k + 1
          OBVIOUS
        <4> QED
          BY <1>6, <4>1, RisesTo
      <3>5. u < t \/ u = t \/ u = t + 1 \/ t + 1 < u
        OBVIOUS
      <3>6. PICK e \in Nat : e = o[t + 1]
        BY <1>4
      <3>7. t + 1 < u => e < o[u]
        BY <3>4, <3>6
      <3>8. j \in Nat /\ j # 0
        BY <1>5
      <3>9. CASE u < t
        BY <3>2, <3>3, <3>4, <3>8, <3>9
      <3>10. CASE u = t
        BY <3>2, <3>3, <3>8, <3>10
      <3>11. CASE u = t + 1 \/ t + 1 < u
        <4>1. u = t + 1 => o[u] = e
          BY <3>6
        <4>2. PICK c \in Nat, d \in Nat : c = o[u] /\ d = o[t]
          BY <3>2, Zenon
        <4>3. e <= c
          BY <3>7, <3>11, <4>1, <4>2
        <4>4. d + j <= e
          BY <3>2, <3>6, <4>2, Zenon
        <4>6. ~(c + 1 <= d + j)
          BY <3>8, <4>3, <4>4
        <4>7. ~(o[u] + 1 <= o[t] + j)
          BY <4>2, <4>6, Zenon
        <4>5. ~(u <= t)
          BY <3>11
        <4> QED
          BY <3>3, <4>5, <4>7, Zenon
      <3> QED
        BY <3>5, <3>9, <3>10, <3>11
    <2>2. {i \in begins : i <= p[o[t] + j]} = {b[u] : u \in 0 + 1 .. 0 + t}
      <3>1. 0 + 1 .. 0 + t = {u \in 1 .. k : u <= t}
        OBVIOUS
      <3> HIDE DEF begins, b
      <3> QED
        BY <1>11, <2>1, <3>1
    <2>3. \A u, v \in 0 + 1 .. 0 + t : b[u] = b[v] => u = v
      <3> SUFFICES ASSUME NEW u \in 1 .. k, NEW v \in 1 .. k, b[u] = b[v] PROVE u = v
        OBVIOUS
      <3>1. 1 \in 1 .. Len(lane[u]) /\ 1 \in 1 .. Len(lane[v])
        BY <1>5
      <3>2. o[u] + 1 \in 1 .. n /\ o[v] + 1 \in 1 .. n /\ o[u] \in Nat /\ o[v] \in Nat
        BY <1>7, <3>1
      <3>3. o[u] = o[v]
        BY <1>3, <3>2
      <3>4. (u < v => o[u] < o[v]) /\ (v < u => o[v] < o[u])
        <4>1. u \in 1 .. k + 1 /\ v \in 1 .. k + 1
          OBVIOUS
        <4> QED
          BY <1>6, <4>1, RisesTo
      <3> QED
        BY <3>2, <3>3, <3>4
    <2> HIDE DEF b, begins
    <2>4. t \in Nat /\ 0 \in Nat
      OBVIOUS
    <2> QED
      <3>1. PICK T : T = {i \in begins : i <= p[o[t] + j]}
        OBVIOUS
      <3>2. Numbers(b, 0, t, T)
        BY <2>2, <2>3, <2>4, <3>1 DEF Numbers
      <3> QED
        BY <3>1, <3>2, NumbersCount, Zenon
  <1>13. Cardinality(begins) = k
    <2>1. CASE k = 0
      <3>1. begins = {}
        <4> HIDE DEF begins
        <4> QED
          BY <1>11, <2>1
      <3> HIDE DEF begins
      <3> QED
        BY <2>1, <3>1, FS_EmptySet
    <2>2. CASE k # 0
      <3>1. k \in 1 .. k /\ Len(lane[k]) \in 1 .. Len(lane[k])
        BY <1>5, <2>2
      <3>2. Cardinality({i \in begins : i <= p[o[k] + Len(lane[k])]}) = k
        BY <1>12, <3>1
      <3>3. \A i \in begins : i <= p[n]
        <4>1. \A a \in 1 .. n : p[a] <= p[n]
          BY <1>3
        <4> QED
          BY <1>9, <4>1
      <3>4. o[k] + Len(lane[k]) = n
        BY <1>4, <3>1
      <3>5. {i \in begins : i <= p[n]} = begins
        BY <3>3
      <3> HIDE DEF begins
      <3> QED
        BY <3>2, <3>4, <3>5
    <2> QED
      BY <2>1, <2>2
  <1>14. ASSUME NEW t \in 1 .. k
         PROVE  of(t) = {p[a] : a \in o[t] + 1 .. o[t] + Len(lane[t])}
    <2> DEFINE mine == {p[a] : a \in o[t] + 1 .. o[t] + Len(lane[t])}
    <2>1. ASSUME NEW i \in of(t) PROVE i \in mine
      <3>1. PICK a \in 1 .. n : i = p[a]
        BY <1>9
      <3>2. PICK u \in 1 .. k : \E j \in 1 .. Len(lane[u]) : a = o[u] + j
        BY <1>8
      <3>3. PICK j \in 1 .. Len(lane[u]) : a = o[u] + j
        BY <3>2
      <3>4. Cardinality({e \in begins : e <= i}) = t
        OBVIOUS
      <3> HIDE DEF begins
      <3>5. u = t
        <4>1. Cardinality({e \in begins : e <= p[o[u] + j]}) = u
          BY <1>12
        <4>2. i = p[o[u] + j]
          BY <3>1, <3>3, Zenon
        <4> QED
          BY <3>4, <4>1, <4>2, Zenon
      <3>6. o[t] \in Nat /\ Len(lane[t]) \in Nat
        <4>1. t \in 1 .. k + 1
          OBVIOUS
        <4>2. o[t] \in Nat
          BY <1>4, <4>1, Zenon
        <4>3. Len(lane[t]) \in Nat
          BY <1>5, Zenon
        <4> QED
          BY <4>2, <4>3, Zenon
      <3>7. a \in o[t] + 1 .. o[t] + Len(lane[t])
        <4>1. PICK c \in Nat, l \in Nat : c = o[t] /\ l = Len(lane[t])
          BY <3>6
        <4>2. j \in 1 .. l /\ a = c + j
          BY <3>3, <3>5, <4>1, Zenon
        <4>3. a \in c + 1 .. c + l
          BY <4>2
        <4> QED
          BY <4>1, <4>3, Zenon
      <3> QED
        BY <3>1, <3>7
    <2>2. ASSUME NEW a \in o[t] + 1 .. o[t] + Len(lane[t]) PROVE p[a] \in of(t)
      <3>1. o[t] \in Nat /\ Len(lane[t]) \in Nat
        BY <1>4, <1>5
      <3>2. PICK j \in 1 .. Len(lane[t]) : a = o[t] + j
        <4>1. a - o[t] \in 1 .. Len(lane[t]) /\ a = o[t] + (a - o[t])
          BY <3>1
        <4> QED
          BY <4>1
      <3>3. a \in 1 .. n
        BY <1>7, <3>2
      <3>4. p[a] \in own
        BY <1>9, <3>3
      <3>5. Cardinality({e \in begins : e <= p[a]}) = t
        <4> HIDE DEF begins
        <4> QED
          BY <1>12, <3>2
      <3> HIDE DEF begins, own
      <3> QED
        BY <3>4, <3>5
    <2> HIDE DEF of
    <2> QED
      BY <2>1, <2>2
  <1>15. ASSUME NEW t \in 1 .. k, NEW m \in Nat, m <= Len(lane[t]),
                NEW T, T = {p[a] : a \in o[t] + 1 .. o[t] + m}
         PROVE  Cardinality(T) = m
    <2>1. o[t] \in Nat
      BY <1>4
    <2>2. \A a, c \in o[t] + 1 .. o[t] + m : p[a] = p[c] => a = c
      <3>1. \A a \in o[t] + 1 .. o[t] + m : a \in 1 .. n
        <4>1. PICK l \in Nat : l = Len(lane[t])
          BY <1>5
        <4>2. PICK c \in Nat : c = o[t]
          BY <2>1
        <4>3. c + l <= n /\ m <= l
          BY <1>4, <1>15, <4>1, <4>2
        <4> QED
          BY <4>2, <4>3
      <3> QED
        BY <1>3, <3>1
    <2> QED
      <3>1. Numbers(p, o[t], m, T)
        BY <1>15, <2>1, <2>2 DEF Numbers
      <3> QED
        BY <3>1, NumbersCount, Zenon
  <1>16. ASSUME NEW t \in 1 .. k, NEW j \in 1 .. Len(lane[t])
         PROVE  Nth(of(t), j) = p[o[t] + j]
    <2> DEFINE mine == of(t)
    <2>1. mine = {p[a] : a \in o[t] + 1 .. o[t] + Len(lane[t])}
      BY <1>14
    <2> HIDE DEF mine
    <2>2. o[t] \in Nat /\ Len(lane[t]) \in Nat /\ j \in Nat
      BY <1>4, <1>5
    <2>3. ASSUME NEW m \in 1 .. Len(lane[t])
          PROVE  Cardinality({i \in mine : i <= p[o[t] + m]}) = m
      <3>1. ASSUME NEW a \in o[t] + 1 .. o[t] + Len(lane[t])
            PROVE  p[a] <= p[o[t] + m] <=> a <= o[t] + m
        <4>1. PICK e \in 1 .. Len(lane[t]) : a = o[t] + e
          <5>1. a - o[t] \in 1 .. Len(lane[t]) /\ a = o[t] + (a - o[t])
            BY <2>2
          <5> QED
            BY <5>1
        <4>2. a \in 1 .. n /\ o[t] + m \in 1 .. n
          BY <1>7, <4>1
        <4> QED
          BY <1>3, <4>2
      <3>2. o[t] + 1 .. o[t] + m = {a \in o[t] + 1 .. o[t] + Len(lane[t]) : a <= o[t] + m}
        BY <2>2
      <3>3. {i \in mine : i <= p[o[t] + m]} = {p[a] : a \in o[t] + 1 .. o[t] + m}
        BY <2>1, <3>1, <3>2
      <3>4. m \in Nat /\ m <= Len(lane[t])
        BY <2>2
      <3> QED
        BY <1>15, <3>3, <3>4
    <2>4. p[o[t] + j] \in mine /\ Cardinality({i \in mine : i <= p[o[t] + j]}) = j
      <3>1. o[t] + j \in o[t] + 1 .. o[t] + Len(lane[t])
        BY <2>2
      <3> QED
        BY <2>1, <2>3, <3>1
    <2>5. ASSUME NEW x \in mine, Cardinality({i \in mine : i <= x}) = j
          PROVE  x = p[o[t] + j]
      <3>1. PICK a \in o[t] + 1 .. o[t] + Len(lane[t]) : x = p[a]
        BY <2>1
      <3>2. PICK m \in 1 .. Len(lane[t]) : a = o[t] + m
        <4>1. a - o[t] \in 1 .. Len(lane[t]) /\ a = o[t] + (a - o[t])
          BY <2>2
        <4> QED
          BY <4>1
      <3>3. m = j
        BY <2>3, <2>5, <3>1, <3>2
      <3> QED
        BY <3>1, <3>2, <3>3
    <2> DEFINE P(x) == x \in mine /\ Cardinality({i \in mine : i <= x}) = j
    <2>6. Nth(mine, j) = CHOOSE x : P(x)
      BY Zenon DEF Nth
    <2>7. P(p[o[t] + j]) /\ \A x : P(x) => x = p[o[t] + j]
      BY <2>4, <2>5
    <2> HIDE DEF P
    <2>8. P(CHOOSE x : P(x))
      BY <2>7, Zenon
    <2>9. Nth(mine, j) = p[o[t] + j]
      BY <2>6, <2>7, <2>8, Zenon
    <2> QED
      BY <2>9 DEF mine
  <1> DEFINE tk(t) == [j \in 1 .. Cardinality(of(t)) |-> accesses[Nth(of(t), j)][2]]
  <1>17. ASSUME NEW t \in 1 .. k
         PROVE  tk(t) = lane[t]
    <2>1. PICK m : m = Cardinality(of(t))
      OBVIOUS
    <2>2. m = Len(lane[t])
      <3>1. Len(lane[t]) \in Nat /\ Len(lane[t]) <= Len(lane[t])
        BY <1>5
      <3> HIDE DEF of
      <3> QED
        BY <1>14, <1>15, <2>1, <3>1
    <2>3. \A j \in 1 .. Len(lane[t]) : accesses[Nth(of(t), j)][2] = lane[t][j]
      <3> TAKE j \in 1 .. Len(lane[t])
      <3>1. Nth(of(t), j) = p[o[t] + j]
        BY <1>16
      <3>2. accesses[p[o[t] + j]] = <<s, lane[t][j]>>
        BY <1>7
      <3> HIDE DEF of
      <3> QED
        BY <3>1, <3>2
    <2>4. lane[t] = [j \in 1 .. Len(lane[t]) |-> lane[t][j]]
      BY <1>1, Zenon DEF IsSequence
    <2> HIDE DEF of
    <2> QED
      BY <2>1, <2>2, <2>3, <2>4
  <1>18. Fill(accesses, s) = [t \in 1 .. Cardinality(begins) |-> tk(t)]
    BY DEF Fill
  <1>19. lane = [t \in 1 .. k |-> lane[t]]
    BY <1>1, Zenon DEF IsLane, IsSequence
  <1> HIDE DEF begins, of, tk
  <1>20. [t \in 1 .. k |-> tk(t)] = [t \in 1 .. k |-> lane[t]]
    BY <1>17, Zenon
  <1> QED
    BY <1>13, <1>18, <1>19, <1>20, Zenon

-----------------------------------------------------------------------------
(* Every access of every lane, once and in its own order. *)

Flat(l, s) == FlattenSeq(l[s])

\* What was served of s are the first accesses of its lane: those of the tokens
\* it has finished and of the one it is on.
Caught(s, p, o) ==
  /\ Offsets(Flat(lanes, s), lanes[s], Len(lanes[s]), o)
  /\ Follows(merged, s, Flat(lanes, s), o[token[s] + 1] + index[s], p)
CaughtUp ==
  /\ \A s \in Sessions : token[s] <= Len(lanes[s]) /\ \E p, o : Caught(s, p, o)
  /\ \A i \in DOMAIN merged : merged[i] = <<merged[i][1], merged[i][2]>> /\ merged[i][1] \in Sessions

LEMMA FollowsMore ==
  ASSUME NEW any, NEW m \in Seq(any), NEW s, NEW f, NEW n, NEW p, Follows(m, s, f, n, p), NEW e
  PROVE  /\ e[1] # s => Follows(Append(m, e), s, f, n, p)
         /\ e = <<s, f[n + 1]>> => \E q : Follows(Append(m, e), s, f, n + 1, q)
  <1>1. PICK more : more = Append(m, e)
    OBVIOUS
  <1>2. PICK size \in Nat : size = Len(m)
    OBVIOUS
  <1>3. /\ DOMAIN m = 1 .. size /\ DOMAIN more = 1 .. size + 1
        /\ \A i \in 1 .. size : more[i] = m[i]
        /\ more[size + 1] = e
    <2>1. m \in Seq(any \cup {e}) /\ e \in any \cup {e}
      OBVIOUS
    <2> QED
      BY <1>1, <1>2, <2>1
  <1>4. /\ n \in Nat /\ p \in [1 .. n -> 1 .. size]
        /\ \A a, b \in 1 .. n : a < b => p[a] < p[b]
        /\ \A a \in 1 .. n : m[p[a]] = <<s, f[a]>>
        /\ \A i \in 1 .. size : m[i][1] = s => \E a \in 1 .. n : p[a] = i
    BY <1>3 DEF Follows
  <1>5. ASSUME e[1] # s PROVE Follows(more, s, f, n, p)
    <2>1. p \in [1 .. n -> 1 .. size + 1]
      BY <1>4
    <2>2. \A a \in 1 .. n : more[p[a]] = <<s, f[a]>>
      BY <1>3, <1>4
    <2>3. ASSUME NEW i \in 1 .. size + 1, more[i][1] = s PROVE \E a \in 1 .. n : p[a] = i
      <3>1. i # size + 1
        BY <1>3, <1>5, <2>3
      <3>2. i \in 1 .. size
        BY <3>1
      <3> QED
        BY <1>3, <1>4, <2>3, <3>2
    <2> QED
      BY <1>3, <1>4, <2>1, <2>2, <2>3 DEF Follows
  <1>6. ASSUME e = <<s, f[n + 1]>> PROVE \E q : Follows(more, s, f, n + 1, q)
    <2> DEFINE q == [a \in 1 .. n + 1 |-> IF a <= n THEN p[a] ELSE size + 1]
    <2>1. (\A a \in 1 .. n : q[a] = p[a]) /\ q[n + 1] = size + 1 /\ DOMAIN q = 1 .. n + 1
      BY <1>4
    <2>2. q \in [1 .. n + 1 -> 1 .. size + 1]
      BY <1>4
    <2> HIDE DEF q
    <2>3. \A a \in 1 .. n + 1 : a \in 1 .. n \/ a = n + 1
      BY <1>4
    <2>4. \A a, b \in 1 .. n + 1 : a < b => q[a] < q[b]
      <3> TAKE a, b \in 1 .. n + 1
      <3> HAVE a < b
      <3>1. a \in 1 .. n /\ p[a] \in 1 .. size
        BY <1>4
      <3>2. CASE b = n + 1
        BY <2>1, <3>1, <3>2
      <3>3. CASE b \in 1 .. n
        BY <1>4, <2>1, <3>1, <3>3
      <3> QED
        BY <2>3, <3>2, <3>3
    <2>5. \A a \in 1 .. n + 1 : more[q[a]] = <<s, f[a]>>
      <3> TAKE a \in 1 .. n + 1
      <3>1. CASE a = n + 1
        BY <1>3, <1>6, <2>1, <3>1
      <3>2. CASE a \in 1 .. n
        BY <1>3, <1>4, <2>1, <3>2
      <3> QED
        BY <2>3, <3>1, <3>2
    <2>6. ASSUME NEW i \in 1 .. size + 1, more[i][1] = s PROVE \E a \in 1 .. n + 1 : q[a] = i
      <3>1. CASE i = size + 1
        <4>1. n + 1 \in 1 .. n + 1
          BY <1>4
        <4> QED
          BY <2>1, <3>1, <4>1
      <3>2. CASE i \in 1 .. size
        <4>1. PICK a \in 1 .. n : p[a] = i
          BY <1>3, <1>4, <2>6, <3>2
        <4>2. a \in 1 .. n + 1
          BY <1>4
        <4> QED
          BY <2>1, <4>1, <4>2
      <3> QED
        BY <3>1, <3>2
    <2>7. n + 1 \in Nat
      BY <1>4
    <2>8. q \in [1 .. n + 1 -> DOMAIN more]
      BY <1>3, <2>2
    <2>9. \A i \in DOMAIN more : more[i][1] = s => \E a \in 1 .. n + 1 : q[a] = i
      BY <1>3, <2>6
    <2>10. Follows(more, s, f, n + 1, q)
      BY <2>4, <2>5, <2>7, <2>8, <2>9, Zenon DEF Follows
    <2> QED
      BY <2>10
  <1> QED
    BY <1>1, <1>5, <1>6

\* A lane is laid out by its tokens.
LEMMA LaneLaid ==
  ASSUME NEW lane, IsLane(lane)
  PROVE  \E any : Laid(FlattenSeq(lane), lane, Len(lane), any)
  <1>1. PICK k \in Nat : k = Len(lane) /\ DOMAIN lane = 1 .. k /\ lane = [t \in 1 .. k |-> lane[t]]
    BY Zenon DEF IsLane, IsSequence
  <1> DEFINE any == UNION {{lane[t][j] : j \in DOMAIN lane[t]} : t \in 1 .. k}
  <1>2. ASSUME NEW t \in 1 .. k PROVE lane[t] \in Seq(any)
    <2>1. PICK part : part = lane[t]
      OBVIOUS
    <2>2. PICK n \in Nat : n = Len(part) /\ DOMAIN part = 1 .. n /\ part = [i \in 1 .. n |-> part[i]]
      <3>1. IsSequence(part)
        BY <1>1, <2>1 DEF IsLane
      <3>2. Len(part) \in Nat /\ DOMAIN part = 1 .. Len(part) /\ part = [i \in 1 .. Len(part) |-> part[i]]
        BY <3>1, Zenon DEF IsSequence
      <3> QED
        BY <3>2, Zenon
    <2>3. \A i \in 1 .. n : part[i] \in any
      BY <2>1, <2>2
    <2> HIDE DEF any
    <2>4. part \in [1 .. n -> any]
      BY <2>2, <2>3
    <2> QED
      BY <2>1, <2>4
  <1> HIDE DEF any
  <1>3. [t \in 1 .. k |-> lane[t]] \in [1 .. k -> Seq(any)]
    BY <1>2
  <1>4. [t \in 1 .. k |-> lane[t]] \in Seq(Seq(any))
    BY <1>3
  <1>5. lane \in Seq(Seq(any))
    BY <1>1, <1>4, Zenon
  <1> QED
    BY <1>5, FlattenLaid

LEMMA CaughtStart ==
  ASSUME Laned(lanes), token = Zero, index = Zero, merged = <<>>
  PROVE  CaughtUp
  <1>1. ASSUME NEW s \in Sessions
        PROVE  token[s] <= Len(lanes[s]) /\ \E p, o : Caught(s, p, o)
    <2>1. IsLane(lanes[s]) /\ Len(lanes[s]) \in Nat
      BY DEF Laned, IsLane, IsSequence
    <2>2. token[s] = 0 /\ index[s] = 0
      BY DEF Zero
    <2>3. PICK any : Laid(Flat(lanes, s), lanes[s], Len(lanes[s]), any)
      BY <2>1, LaneLaid DEF Flat
    <2>4. PICK o : Offsets(Flat(lanes, s), lanes[s], Len(lanes[s]), o)
      BY <2>3 DEF Laid
    <2>5. o[token[s] + 1] + index[s] = 0
      BY <2>2, <2>4 DEF Offsets
    <2>6. Follows(merged, s, Flat(lanes, s), 0, <<>>)
      <3>1. DOMAIN merged = {} /\ 1 .. 0 = {} /\ <<>> \in [{} -> DOMAIN merged]
        OBVIOUS
      <3> QED
        BY <3>1 DEF Follows
    <2>7. Caught(s, <<>>, o)
      BY <2>4, <2>5, <2>6 DEF Caught
    <2> QED
      BY <2>1, <2>2, <2>7
  <1>2. DOMAIN merged = {}
    OBVIOUS
  <1> QED
    BY <1>1, <1>2 DEF CaughtUp

LEMMA CaughtTurn ==
  ASSUME SInv, CaughtUp, NEW x \in Sessions, Serve(x)
  PROVE  CaughtUp'
  <1>1. TypeOK /\ Inside /\ Laned(lanes) /\ Turn(x) /\ x \in Live
    BY ServeTurns DEF SInv, TypeOK, Serve, Turn
  <1>2. lanes' = lanes /\ Rest(x) /\ (GoesOn(x) \/ Closes(x))
    BY <1>1 DEF Turn
  <1>3. PICK any : merged \in Seq(any)
    BY <1>1 DEF TypeOK
  <1>4. PICK e : e = <<x, lanes[x][token[x] + 1][index[x] + 1]>>
    OBVIOUS
  <1>5. merged' = Append(merged, e) /\ e[1] = x /\ e = <<e[1], e[2]>>
    BY <1>4 DEF Serve
  <1>6. ASSUME NEW s \in Sessions \ {x}
        PROVE  (token[s] <= Len(lanes[s]) /\ \E p, o : Caught(s, p, o))'
    <2>1. PICK p, o : Caught(s, p, o)
      BY DEF CaughtUp
    <2>2. token'[s] = token[s] /\ index'[s] = index[s]
      BY <1>2 DEF Rest
    <2>3. PICK f, n : f = Flat(lanes, s) /\ n = o[token[s] + 1] + index[s]
      OBVIOUS
    <2>4. Follows(merged, s, f, n, p)
      BY <2>1, <2>3 DEF Caught
    <2>5. e[1] # s
      BY <1>5
    <2>6. Follows(Append(merged, e), s, f, n, p)
      BY <1>3, <2>4, <2>5, FollowsMore
    <2>7. Caught(s, p, o)'
      BY <1>2, <1>5, <2>1, <2>2, <2>3, <2>6 DEF Caught, Flat
    <2> QED
      BY <1>2, <2>2, <2>7 DEF CaughtUp
  <1>7. (token[x] <= Len(lanes[x]) /\ \E p, o : Caught(x, p, o))'
    <2>1. PICK p, o : Caught(x, p, o)
      BY DEF CaughtUp
    <2>2. PICK f, t, i, l : f = Flat(lanes, x) /\ t = token[x] /\ i = index[x] /\ l = Len(lanes[x])
      OBVIOUS
    <2>3. t \in Nat /\ i \in Nat /\ l \in Nat /\ t < l /\ i < Len(lanes[x][t + 1]) /\ Len(lanes[x][t + 1]) \in Nat
      <3>1. Len(Now(x)) \in Nat
        BY <1>1, LiveToken
      <3>2. t \in Nat /\ i \in Nat /\ t < l
        BY <1>1, <2>2 DEF TypeOK, Counters, Live
      <3>3. i + 1 <= Len(Now(x))
        BY <1>2, <2>2, <3>1, <3>2 DEF GoesOn, Closes
      <3>4. l \in Nat
        BY <1>1, <2>2 DEF Laned, IsLane, IsSequence
      <3> QED
        BY <2>2, <3>1, <3>2, <3>3, <3>4 DEF Now
    <2>4. /\ o \in [1 .. l + 1 -> Nat]
          /\ o[t + 1 + 1] = o[t + 1] + Len(lanes[x][t + 1])
          /\ f[o[t + 1] + (i + 1)] = lanes[x][t + 1][i + 1]
      <3>1. t + 1 \in 1 .. l /\ i + 1 \in 1 .. Len(lanes[x][t + 1])
        BY <2>3
      <3> QED
        BY <2>1, <2>2, <3>1 DEF Caught, Offsets
    <2>5. PICK b \in Nat : b = o[t + 1]
      <3>1. t + 1 \in 1 .. l + 1
        BY <2>3
      <3> QED
        BY <2>4, <3>1
    <2>6. Follows(merged, x, f, b + i, p)
      BY <2>1, <2>2, <2>5 DEF Caught
    <2>7. e = <<x, f[(b + i) + 1]>>
      <3>1. (b + i) + 1 = b + (i + 1)
        BY <2>3
      <3> QED
        BY <1>4, <2>2, <2>4, <2>5, <3>1
    <2>8. PICK q : Follows(Append(merged, e), x, f, (b + i) + 1, q)
      BY <1>3, <2>6, <2>7, FollowsMore
    <2>9. token'[x] <= l /\ o[token'[x] + 1] + index'[x] = (b + i) + 1
      <3>1. CASE GoesOn(x)
        BY <2>2, <2>3, <2>5, <3>1 DEF GoesOn
      <3>2. CASE Closes(x)
        <4>1. token'[x] = t + 1 /\ index'[x] = 0 /\ i + 1 = Len(lanes[x][t + 1])
          BY <2>2, <3>2 DEF Closes, Now
        <4>2. o[t + 1 + 1] = b + (i + 1)
          BY <2>4, <2>5, <4>1
        <4> QED
          BY <2>3, <4>1, <4>2
      <3> QED
        BY <1>2, <3>1, <3>2
    <2>10. Caught(x, q, o)'
      BY <1>2, <1>5, <2>1, <2>2, <2>8, <2>9 DEF Caught, Flat
    <2>11. (token[x] <= Len(lanes[x]))'
      BY <1>2, <2>2, <2>9
    <2>12. (\E r, a : Caught(x, r, a))'
      BY <2>10, Zenon
    <2> QED
      BY <2>11, <2>12, Zenon
  <1>8. (\A i \in DOMAIN merged : merged[i] = <<merged[i][1], merged[i][2]>> /\ merged[i][1] \in Sessions)'
    <2>1. PICK more : more = Append(merged, e)
      OBVIOUS
    <2> PICK size \in Nat : size = Len(merged)
      BY <1>3
    <2>2. /\ DOMAIN merged = 1 .. size /\ DOMAIN more = 1 .. size + 1
          /\ \A i \in 1 .. size : more[i] = merged[i]
          /\ more[size + 1] = e
      <3>1. merged \in Seq(any \cup {e}) /\ e \in any \cup {e}
        BY <1>3
      <3> QED
        BY <2>1, <3>1
    <2>3. \A i \in DOMAIN more : more[i] = <<more[i][1], more[i][2]>> /\ more[i][1] \in Sessions
      <3> TAKE i \in DOMAIN more
      <3>1. i \in 1 .. size \/ i = size + 1
        BY <2>2
      <3>2. CASE i \in 1 .. size
        BY <2>2, <3>2 DEF CaughtUp
      <3>3. CASE i = size + 1
        BY <1>5, <2>2, <3>3
      <3> QED
        BY <3>1, <3>2, <3>3
    <2> QED
      BY <1>5, <2>1, <2>3 DEF Sessions
  <1> QED
    BY <1>6, <1>7, <1>8 DEF CaughtUp, Sessions

\* With every lane at its end, all of every lane was served.
Whole(accesses, l, s) == \E p : Follows(accesses, s, Flat(l, s), Len(Flat(l, s)), p)

LEMMA CaughtAll ==
  ASSUME SInv, CaughtUp, Live = {}, NEW s \in Sessions
  PROVE  Whole(merged, lanes, s)
  <1>1. PICK p, o : Caught(s, p, o)
    BY DEF CaughtUp
  <1>2. token[s] \in Nat /\ Len(lanes[s]) \in Nat /\ token[s] <= Len(lanes[s]) /\ ~(token[s] < Len(lanes[s]))
    BY DEF CaughtUp, SInv, TypeOK, Counters, Live, Laned, IsLane, IsSequence
  <1>3. token[s] = Len(lanes[s])
    BY <1>2
  <1>4. index[s] = 0
    BY DEF SInv, Inside
  <1>5. o[token[s] + 1] + index[s] = Len(Flat(lanes, s))
    <2>1. o[Len(lanes[s]) + 1] = Len(Flat(lanes, s)) /\ o[Len(lanes[s]) + 1] \in Nat
      BY <1>1, <1>2 DEF Caught, Offsets
    <2> QED
      BY <1>3, <1>4, <2>1
  <1> QED
    BY <1>1, <1>5 DEF Caught, Whole

-----------------------------------------------------------------------------
(* From the workload to the disk and back. *)

\* What is read back of a rendered trace is the trace.
LEMMA ParsedIs ==
  ASSUME NEW accesses, \E any : accesses \in Seq(any), NEW room,
         \A i \in DOMAIN accesses : accesses[i] = <<accesses[i][1], accesses[i][2]>>
  PROVE  /\ \A parsed \in ParseTrace(Render(accesses), room) : parsed = accesses
         /\ ParseTrace(Render(accesses), room) = {} => Len(accesses) > room
  <1> DEFINE head == <<Field("mlos-trace", 1), Field("model", "synth"), Field("source", "Decode"),
                       Field("accesses", Len(accesses))>>
             body == [i \in DOMAIN accesses |-> [session |-> accesses[i][1], object |-> accesses[i][2]]]
  <1>1. PICK n \in Nat : n = Len(accesses) /\ DOMAIN accesses = 1 .. n
    OBVIOUS
  <1>2. PICK all : all = {head[i] : i \in 1 .. 4} \cup {body[i] : i \in DOMAIN accesses}
    OBVIOUS
  <1>3. head \in Seq(all) /\ Len(head) = 4
    BY <1>2
  <1>4. body \in Seq(all) /\ Len(body) = n
    <2>1. \A i \in 1 .. n : body[i] \in all
      <3> HIDE DEF body, head
      <3> QED
        BY <1>1, <1>2
    <2>2. body = [i \in 1 .. n |-> body[i]]
      BY <1>1
    <2> HIDE DEF body, head
    <2>3. body \in [1 .. n -> all]
      BY <2>1, <2>2
    <2> QED
      BY <1>1, <2>3
  <1>5. /\ head[4].value = n /\ head[1].value = 1
        /\ head[1].key = "mlos-trace" /\ head[2].key = "model" /\ head[3].key = "source" /\ head[4].key = "accesses"
    BY <1>1 DEF Field
  <1>6. Render(accesses) = head \o body
    BY DEF Render
  <1>7. \A i \in 1 .. n : body[i].session = accesses[i][1] /\ body[i].object = accesses[i][2]
    BY <1>1
  <1> HIDE DEF head, body
  <1>8. PICK lines : lines = Render(accesses)
    OBVIOUS
  <1>9. /\ Len(lines) = n + 4
        /\ \A i \in 1 .. 4 : lines[i] = head[i]
        /\ \A i \in 1 .. n : lines[i + 4] = body[i]
    <2>1. lines = head \o body
      BY <1>6, <1>8
    <2>2. /\ Len(lines) = 4 + n
          /\ \A i \in 1 .. 4 : lines[i] = head[i]
          /\ \A i \in 1 .. n : lines[4 + i] = body[i]
      <3>1. Joined(lines, head, body)
        BY <1>3, <1>4, <2>1, JoinAt
      <3> QED
        BY <1>3, <1>4, <3>1 DEF Joined
    <2>3. \A i \in 1 .. n : 4 + i = i + 4
      OBVIOUS
    <2> QED
      BY <2>2, <2>3
  <1>10. IsHead(lines)
    <2>1. [i \in 1 .. 4 |-> lines[i].key] = <<"mlos-trace", "model", "source", "accesses">>
      BY <1>5, <1>9
    <2> QED
      BY <1>5, <1>9, <2>1 DEF IsHead
  <1>11. lines[4].value = n
    BY <1>5, <1>9
  <1>12. [i \in 1 .. n |-> <<lines[i + 4].session, lines[i + 4].object>>] = accesses
    <2>1. PICK back : back = [i \in 1 .. n |-> <<lines[i + 4].session, lines[i + 4].object>>]
      OBVIOUS
    <2>2. ASSUME NEW i \in 1 .. n PROVE back[i] = accesses[i]
      <3>1. back[i] = <<body[i].session, body[i].object>>
        BY <1>9, <2>1
      <3>2. accesses[i] = <<accesses[i][1], accesses[i][2]>>
        BY <1>1
      <3> QED
        BY <1>7, <3>1, <3>2, Zenon
    <2>3. PICK any : accesses \in Seq(any)
      OBVIOUS
    <2>4. accesses \in [1 .. n -> any] /\ back \in [1 .. n -> any]
      <3>1. accesses \in [1 .. n -> any]
        BY <1>1, <2>3
      <3> QED
        BY <2>1, <2>2, <3>1
    <2>5. back = accesses
      BY <2>2, <2>4
    <2> QED
      BY <2>1, <2>5
  <1>13. ParseTrace(lines, room) =
           IF ~IsHead(lines) \/ lines[4].value > room \/ lines[4].value > Len(lines) - 4 THEN {}
           ELSE {[i \in 1 .. lines[4].value |-> <<lines[i + 4].session, lines[i + 4].object>>]}
    BY Zenon DEF ParseTrace
  <1>14. ParseTrace(lines, room) = IF n > room THEN {} ELSE {accesses}
    <2>1. ~(n > Len(lines) - 4)
      BY <1>9
    <2> QED
      BY <1>10, <1>11, <1>12, <1>13, <2>1, Zenon
  <1>15. CASE n > room
    <2>1. ParseTrace(Render(accesses), room) = {}
      BY <1>8, <1>14, <1>15
    <2> QED
      BY <1>1, <1>15, <2>1
  <1>16. CASE ~(n > room)
    <2>1. ParseTrace(Render(accesses), room) = {accesses}
      BY <1>8, <1>14, <1>16
    <2> QED
      BY <1>1, <1>16, <2>1
  <1> QED
    BY <1>15, <1>16

\* A session's lane in the kernel is what was generated, or none, where the
\* trace is all of what was.
LEMMA BuildFinds ==
  ASSUME NEW accesses, NEW size \in Nat, DOMAIN accesses = 1 .. size, NEW vacant, NEW s \in Sessions,
         IsLane(declared[s]), Cuttable(declared[s]), Whole(accesses, declared, s)
  PROVE  Build(accesses, Sessions, vacant)[s] \in {declared[s], <<>>}
  <1>1. PICK any : Laid(Flat(declared, s), declared[s], Len(declared[s]), any)
    BY LaneLaid DEF Flat
  <1>2. PICK o : Offsets(Flat(declared, s), declared[s], Len(declared[s]), o)
    BY <1>1 DEF Laid
  <1>3. PICK p : Follows(accesses, s, Flat(declared, s), Len(Flat(declared, s)), p)
    BY DEF Whole
  <1>4. Fill(accesses, s) = declared[s]
    BY <1>2, <1>3, FillFinds
  <1> QED
    BY <1>4 DEF Build

\* No token was declared without an access.
NoneEmpty(l) == \A s \in Sessions : \A t \in DOMAIN l[s] : Len(l[s][t]) # 0

LEMMA ExhaustedAll ==
  ASSUME RInv, Exhausted, NoneEmpty(lanes)
  PROVE  Live = {}
  <1> SUFFICES ASSUME NEW s \in Live, Len(lanes[s][token[s] + 1]) = 0 PROVE FALSE
    BY ExhaustedMeans
  <1>1. s \in Sessions /\ token[s] \in Nat /\ token[s] < Len(lanes[s]) /\ Len(lanes[s]) \in Nat
        /\ DOMAIN lanes[s] = 1 .. Len(lanes[s])
    BY DEF Live, RInv, SInv, TypeOK, Counters, Laned, IsLane, IsSequence
  <1>2. token[s] + 1 \in DOMAIN lanes[s]
    BY <1>1
  <1> QED
    BY <1>1, <1>2 DEF NoneEmpty

\* Of two traces of the same sessions, one that follows no less of each of them is
\* no shorter, and is longer unless it follows the same of each.
Trace(accesses) ==
  /\ Len(accesses) \in Nat /\ DOMAIN accesses = 1 .. Len(accesses)
  /\ \A i \in DOMAIN accesses : accesses[i][1] \in Sessions

NoLonger(b, a, m, n) == Len(b) <= Len(a) /\ (Len(a) = Len(b) => \A s \in Sessions : m[s] = n[s])
Followed(a, f, n, p) == \A s \in Sessions : Follows(a, s, f[s], n[s], p[s])

LEMMA OneToOne ==
  ASSUME NEW S, NEW T, NEW h \in [S -> T], \A i, j \in S : h[i] = h[j] => i = j
  PROVE  h \in Injection(S, T)
  BY DEF Injection, IsInjective

LEMMA LongerTrace ==
  ASSUME NEW a, NEW b, Trace(a), Trace(b), NEW f, NEW g, NEW n, NEW m, NEW p, NEW q,
         Followed(a, f, n, p), Followed(b, g, m, q), \A s \in Sessions : m[s] <= n[s]
  PROVE  NoLonger(b, a, m, n)
  <1> DEFINE of(i) == b[i][1]
             at(i) == CHOOSE k \in 1 .. m[of(i)] : q[of(i)][k] = i
             h == [i \in DOMAIN b |-> p[of(i)][at(i)]]
  <1>1. \A s \in Sessions : /\ n[s] \in Nat /\ m[s] \in Nat /\ m[s] <= n[s]
                            /\ p[s] \in [1 .. n[s] -> DOMAIN a] /\ q[s] \in [1 .. m[s] -> DOMAIN b]
                            /\ \A k \in 1 .. n[s] : a[p[s][k]] = <<s, f[s][k]>>
                            /\ \A k \in 1 .. m[s] : b[q[s][k]] = <<s, g[s][k]>>
                            /\ \A k, l \in 1 .. n[s] : k < l => p[s][k] < p[s][l]
    BY DEF Follows, Followed
  <1>2. ASSUME NEW i \in DOMAIN b
        PROVE  /\ of(i) \in Sessions /\ at(i) \in 1 .. m[of(i)] /\ q[of(i)][at(i)] = i
               /\ at(i) \in 1 .. n[of(i)]
    <2>1. of(i) \in Sessions
      BY DEF Trace
    <2>2. \E k \in 1 .. m[of(i)] : q[of(i)][k] = i
      BY <2>1 DEF Follows, Followed
    <2> HIDE DEF of
    <2>3. at(i) \in 1 .. m[of(i)] /\ q[of(i)][at(i)] = i
      BY <2>2, Zenon
    <2> HIDE DEF at
    <2> QED
      BY <1>1, <2>1, <2>3
  <1> HIDE DEF at
  <1>3. \A i \in DOMAIN b : h[i] = p[of(i)][at(i)] /\ h[i] \in DOMAIN a /\ a[h[i]][1] = of(i)
    <2> TAKE i \in DOMAIN b
    <2>1. h[i] = p[of(i)][at(i)]
      OBVIOUS
    <2> HIDE DEF h, of
    <2>2. of(i) \in Sessions /\ at(i) \in 1 .. n[of(i)]
      BY <1>2
    <2>3. p[of(i)][at(i)] \in DOMAIN a /\ a[p[of(i)][at(i)]] = <<of(i), f[of(i)][at(i)]>>
      BY <1>1, <2>2
    <2> QED
      BY <2>1, <2>3
  <1>4. \A i, j \in DOMAIN b : h[i] = h[j] => i = j
    <2> SUFFICES ASSUME NEW i \in DOMAIN b, NEW j \in DOMAIN b, h[i] = h[j] PROVE i = j
      OBVIOUS
    <2> HIDE DEF h, of
    <2>1. PICK s \in Sessions : s = of(i) /\ s = of(j)
      BY <1>2, <1>3
    <2>2. PICK k, l : k = at(i) /\ l = at(j)
      OBVIOUS
    <2>3. k \in 1 .. n[s] /\ l \in 1 .. n[s] /\ q[s][k] = i /\ q[s][l] = j /\ p[s][k] = p[s][l]
      BY <1>2, <1>3, <2>1, <2>2
    <2>4. p[s][k] \in Nat /\ (k < l => p[s][k] < p[s][l]) /\ (l < k => p[s][l] < p[s][k])
      BY <1>1, <2>3 DEF Trace
    <2>5. k = l
      BY <2>3, <2>4
    <2> QED
      BY <2>3, <2>5
  <1>5. h \in [DOMAIN b -> DOMAIN a]
    BY <1>3
  <1> HIDE DEF h
  <1>6. h \in Injection(DOMAIN b, DOMAIN a)
    BY <1>4, <1>5, OneToOne, Zenon
  <1>7. PICK u \in Nat, v \in Nat : u = Len(a) /\ v = Len(b) /\ DOMAIN a = 1 .. u /\ DOMAIN b = 1 .. v
    <2>1. /\ Len(a) \in Nat /\ DOMAIN a = 1 .. Len(a)
          /\ Len(b) \in Nat /\ DOMAIN b = 1 .. Len(b)
      BY Zenon DEF Trace
    <2> QED
      BY <2>1, Zenon
  <1>8. /\ IsFiniteSet(1 .. u) /\ Cardinality(1 .. u) = u /\ Cardinality(1 .. v) = v
    BY FS_Interval
  <1>9. v <= u /\ (v = u <=> h \in Surjection(1 .. v, 1 .. u))
    BY <1>6, <1>7, <1>8, FS_Injection
  <1>10. ASSUME v = u, NEW s \in Sessions PROVE m[s] = n[s]
    <2> SUFFICES ASSUME m[s] # n[s] PROVE FALSE
      OBVIOUS
    <2>1. n[s] \in 1 .. n[s] /\ n[s] \notin 1 .. m[s]
      BY <1>1
    <2>2. PICK y : y = p[s][n[s]] /\ y \in 1 .. u /\ a[y] = <<s, f[s][n[s]]>>
      BY <1>1, <1>7, <2>1
    <2>3. PICK i \in 1 .. v : h[i] = y
      BY <1>9, <1>10, <2>2 DEF Surjection
    <2>4. of(i) = s
      BY <1>3, <1>7, <2>2, <2>3
    <2> HIDE DEF of
    <2>5. at(i) \in 1 .. m[s] /\ at(i) \in 1 .. n[s] /\ p[s][at(i)] = p[s][n[s]]
      BY <1>2, <1>3, <1>7, <2>2, <2>3, <2>4
    <2>6. at(i) < n[s] => p[s][at(i)] < p[s][n[s]]
      BY <1>1, <2>1, <2>5
    <2>7. p[s][n[s]] \in Nat
      BY <2>2
    <2>8. at(i) < n[s]
      BY <1>1, <2>1, <2>5
    <2> QED
      BY <2>5, <2>6, <2>7, <2>8
  <1> QED
    BY <1>7, <1>9, <1>10 DEF NoLonger

\* A trace that is whole of every session's lane follows each, all at once.
LEMMA AllFollow ==
  ASSUME NEW accesses, NEW l, \A s \in Sessions : Whole(accesses, l, s)
  PROVE  \E p : \A s \in Sessions : Follows(accesses, s, Flat(l, s), Len(Flat(l, s)), p[s])
  <1> DEFINE F(s, r) == Follows(accesses, s, Flat(l, s), Len(Flat(l, s)), r)
             p == [s \in Sessions |-> CHOOSE r : F(s, r)]
  <1>1. ASSUME NEW s \in Sessions PROVE F(s, p[s])
    <2>1. \E r : F(s, r)
      BY DEF Whole
    <2> HIDE DEF F
    <2>2. F(s, CHOOSE r : F(s, r))
      BY <2>1, Zenon
    <2> QED
      BY <2>2
  <1> HIDE DEF p
  <1> QED
    BY <1>1

LEMMA WholesCompare ==
  ASSUME NEW a, NEW b, Trace(a), Trace(b), NEW k, NEW l,
         \A s \in Sessions : Whole(a, k, s) /\ Whole(b, l, s) /\ Len(Flat(l, s)) <= Len(Flat(k, s))
  PROVE  Len(b) <= Len(a) /\ (Len(a) = Len(b) => \A s \in Sessions : Len(Flat(l, s)) = Len(Flat(k, s)))
  <1>1. PICK p : \A s \in Sessions : Follows(a, s, Flat(k, s), Len(Flat(k, s)), p[s])
    BY AllFollow
  <1>2. PICK q : \A s \in Sessions : Follows(b, s, Flat(l, s), Len(Flat(l, s)), q[s])
    BY AllFollow
  <1> DEFINE f == [s \in Sessions |-> Flat(k, s)]
             g == [s \in Sessions |-> Flat(l, s)]
             n == [s \in Sessions |-> Len(Flat(k, s))]
             m == [s \in Sessions |-> Len(Flat(l, s))]
  <1>3. \A s \in Sessions : f[s] = Flat(k, s) /\ g[s] = Flat(l, s) /\ n[s] = Len(Flat(k, s)) /\ m[s] = Len(Flat(l, s))
    OBVIOUS
  <1> HIDE DEF f, g, n, m
  <1>4. Followed(a, f, n, p) /\ Followed(b, g, m, q) /\ \A s \in Sessions : m[s] <= n[s]
    BY <1>1, <1>2, <1>3 DEF Followed
  <1>5. NoLonger(b, a, m, n)
    BY <1>4, LongerTrace
  <1> QED
    BY <1>3, <1>5 DEF NoLonger

-----------------------------------------------------------------------------
(* What each stage has established. *)

Generated == \A s \in Sessions : Cuttable(declared[s])

\* The trace on the disk is of everything that was declared.
OnDisk == Trace(trace) /\ \A s \in Sessions : Whole(trace, declared, s)

\* An end, and why a trace is refused.
Ended ==
  /\ stage = "ended" => \A s \in Sessions : Whole(merged, declared, s)
  /\ stage = "refused" =>
       \/ \E s \in Sessions : declared[s] # <<>> /\ lanes[s] = <<>>
       \/ Len(merged) > Accesses /\ \A s \in Sessions : Whole(merged, declared, s)

CInv ==
  /\ RInv /\ CaughtUp /\ Laned(declared)
  /\ stage \in {"host", "kernel", "ended", "refused"}
  /\ stage = "kernel" => disk
  /\ stage = "host" \/ ~disk => lanes = declared
  /\ ~disk /\ NoneEmpty(declared) => Ended
  /\ disk /\ Generated =>
       /\ \A s \in Sessions : lanes[s] \in {declared[s], <<>>}
       /\ stage = "kernel" => OnDisk
       /\ Ended

LEMMA GeneratedNoneEmpty == Generated => NoneEmpty(declared)
  BY DEF Generated, NoneEmpty, Cuttable

LEMMA FlatLength ==
  ASSUME NEW l, NEW s, IsLane(l[s])
  PROVE  Len(Flat(l, s)) \in Nat /\ (l[s] = <<>> => Len(Flat(l, s)) = 0)
  <1>1. PICK any : Laid(Flat(l, s), l[s], Len(l[s]), any)
    BY LaneLaid DEF Flat
  <1>2. PICK o : Offsets(Flat(l, s), l[s], Len(l[s]), o)
    BY <1>1 DEF Laid
  <1>3. Len(Flat(l, s)) \in Nat
    BY <1>1 DEF Laid
  <1>4. o[1] = 0 /\ o[Len(l[s]) + 1] = Len(Flat(l, s))
    BY <1>2 DEF Offsets
  <1>5. ASSUME l[s] = <<>> PROVE Len(l[s]) + 1 = 1
    BY <1>5
  <1> QED
    BY <1>3, <1>4, <1>5

LEMMA CInvStart == Init => CInv
  <1> SUFFICES ASSUME Init PROVE CInv
    OBVIOUS
  <1>1. RInv
    BY InitSafe, RoundStart DEF Init
  <1>2. Laned(declared)
    BY DEF Init, Laned
  <1>3. CaughtUp
    BY <1>2, CaughtStart DEF Init
  <1>4. stage = "host" /\ lanes = declared
    BY DEF Init
  <1> QED
    BY <1>1, <1>2, <1>3, <1>4 DEF CInv, Ended

\* The host's loop over, the merge is whole of what was declared.
LEMMA HostWhole ==
  ASSUME CInv, stage = "host", Exhausted, NoneEmpty(declared), NEW s \in Sessions
  PROVE  Whole(merged, declared, s)
  <1>1. lanes = declared /\ RInv /\ CaughtUp /\ SInv
    BY DEF CInv, RInv
  <1>2. Live = {}
    BY <1>1, ExhaustedAll
  <1>3. Whole(merged, lanes, s)
    BY <1>1, <1>2, CaughtAll
  <1> QED
    BY <1>1, <1>3

LEMMA CInvServe ==
  ASSUME CInv, RInv', NEW x \in Sessions, Serve(x)
  PROVE  CInv'
  <1>1. SInv /\ CaughtUp /\ Laned(declared)
    BY DEF CInv, RInv
  <1>2. CaughtUp'
    BY <1>1, CaughtTurn
  <1>3. UNCHANGED <<setting, stage, rule, lanes, ceiling, trace>> /\ stage \in {"host", "kernel"}
    BY DEF Serve
  <1>4. UNCHANGED <<declared, disk, lanes, trace, stage>>
    BY <1>3 DEF setting
  <1>5. Laned(declared)' /\ (Generated' <=> Generated) /\ (NoneEmpty(declared)' <=> NoneEmpty(declared))
        /\ (OnDisk' <=> OnDisk)
    BY <1>1, <1>4 DEF Laned, Generated, NoneEmpty, OnDisk, Whole, Flat, Trace
  <1>6. Ended'
    BY <1>3, <1>4 DEF Ended
  <1>7. Sessions' = Sessions
    BY DEF Sessions
  <1> QED
    BY <1>2, <1>3, <1>4, <1>5, <1>6, <1>7 DEF CInv

LEMMA CInvMerged ==
  ASSUME CInv, RInv', Merged
  PROVE  CInv'
  <1>1. UNCHANGED <<declared, disk, lanes, trace, merged, token, index>> /\ stage' = "ended" /\ ~disk
        /\ stage = "host" /\ Exhausted
    BY DEF Merged, setting, cursors
  <1>2. CaughtUp' /\ Laned(declared)' /\ (NoneEmpty(declared)' <=> NoneEmpty(declared))
    BY <1>1 DEF CInv, CaughtUp, Caught, Laned, NoneEmpty, Flat
  <1>3. ASSUME NoneEmpty(declared) PROVE Ended'
    <2>1. \A s \in Sessions : Whole(merged, declared, s)
      BY <1>1, <1>3, HostWhole
    <2>2. \A s \in Sessions : Whole(merged, declared, s)'
      BY <1>1, <2>1 DEF Whole, Flat
    <2> QED
      BY <1>1, <2>2 DEF Ended, Sessions
  <1>4. lanes = declared
    BY <1>1 DEF CInv
  <1> QED
    BY <1>1, <1>2, <1>3, <1>4 DEF CInv

LEMMA CInvUnparsed ==
  ASSUME CInv, RInv', Unparsed
  PROVE  CInv'
  <1>1. UNCHANGED <<declared, disk, lanes, trace, merged, token, index>> /\ stage' = "refused" /\ disk
        /\ stage = "host" /\ Exhausted /\ ParseTrace(Render(merged), Accesses) = {}
    BY DEF Unparsed, setting, cursors
  <1>2. CaughtUp' /\ Laned(declared)' /\ (Generated' <=> Generated)
    BY <1>1 DEF CInv, CaughtUp, Caught, Laned, Generated, Flat
  <1>3. lanes = declared
    BY <1>1 DEF CInv
  <1>4. ASSUME Generated PROVE Ended'
    <2>1. \A s \in Sessions : Whole(merged, declared, s)
      BY <1>1, <1>4, GeneratedNoneEmpty, HostWhole
    <2>2. \A s \in Sessions : Whole(merged, declared, s)'
      BY <1>1, <2>1 DEF Whole, Flat
    <2>3. /\ \E any : merged \in Seq(any)
          /\ \A i \in DOMAIN merged : merged[i] = <<merged[i][1], merged[i][2]>>
      BY DEF CInv, CaughtUp, RInv, SInv, TypeOK
    <2>4. Len(merged) > Accesses
      BY <1>1, <2>3, ParsedIs
    <2> QED
      BY <1>1, <2>2, <2>4 DEF Ended, Sessions
  <1>5. \A s \in Sessions : lanes[s] \in {declared[s], <<>>}
    BY <1>3
  <1> QED
    BY <1>1, <1>2, <1>3, <1>4, <1>5 DEF CInv, Sessions

LEMMA MergedTrace ==
  ASSUME RInv, CaughtUp
  PROVE  Trace(merged)
  <1>1. PICK any : merged \in Seq(any)
    BY DEF RInv, SInv, TypeOK
  <1>2. Len(merged) \in Nat /\ DOMAIN merged = 1 .. Len(merged)
    BY <1>1
  <1> QED
    BY <1>2 DEF CaughtUp, Trace

LEMMA CInvPrepare ==
  ASSUME CInv, RInv', NEW by, NEW promised, NEW vacant, Prepare(by, promised, vacant)
  PROVE  CInv'
  <1>1. UNCHANGED <<declared, disk>> /\ stage' = "kernel" /\ disk /\ stage = "host" /\ Exhausted
        /\ token' = Zero /\ index' = Zero /\ merged' = <<>>
    BY DEF Prepare, setting
  <1>2. PICK accesses \in ParseTrace(Render(merged), Accesses) :
          trace' = accesses /\ lanes' = Build(accesses, Sessions, vacant)
    BY DEF Prepare
  <1>3. /\ \E any : merged \in Seq(any)
        /\ \A i \in DOMAIN merged : merged[i] = <<merged[i][1], merged[i][2]>>
    BY DEF CInv, CaughtUp, RInv, SInv, TypeOK
  <1>4. accesses = merged
    BY <1>2, <1>3, ParsedIs
  <1>5. Laned(declared) /\ Laned(declared)' /\ (Generated' <=> Generated)
    BY <1>1 DEF CInv, Laned, Generated
  <1>6. CaughtUp'
    <2>1. Zero' = Zero /\ Laned(lanes)'
      BY DEF Zero, RInv, SInv, TypeOK
    <2>2. (Laned(lanes) /\ token = Zero /\ index = Zero /\ merged = <<>> => CaughtUp)'
      BY CaughtStart, PTL
    <2> QED
      BY <1>1, <2>1, <2>2
  <1>7. ASSUME Generated
        PROVE  (\A s \in Sessions : lanes[s] \in {declared[s], <<>>})' /\ OnDisk'
    <2>1. \A s \in Sessions : Whole(merged, declared, s)
      BY <1>1, <1>7, GeneratedNoneEmpty, HostWhole
    <2>2. Trace(merged)
      BY MergedTrace DEF CInv
    <2>3. PICK size \in Nat : DOMAIN merged = 1 .. size
      BY <2>2 DEF Trace
    <2>4. ASSUME NEW s \in Sessions PROVE lanes'[s] \in {declared[s], <<>>}
      <3>1. IsLane(declared[s]) /\ Cuttable(declared[s])
        BY <1>5, <1>7 DEF Laned, Generated
      <3>2. Build(merged, Sessions, vacant)[s] \in {declared[s], <<>>}
        BY <2>1, <2>3, <3>1, BuildFinds
      <3> QED
        BY <1>2, <1>4, <3>2
    <2>5. trace' = merged
      BY <1>2, <1>4
    <2>6. OnDisk'
      BY <1>1, <2>1, <2>2, <2>5 DEF OnDisk, Trace, Whole, Flat, Sessions
    <2> QED
      BY <1>1, <2>4, <2>6 DEF Sessions
  <1>8. Ended'
    BY <1>1 DEF Ended
  <1> QED
    BY <1>1, <1>5, <1>6, <1>7, <1>8 DEF CInv

\* An order of fewer accesses than the trace has is one that leaves a session out.
LEMMA OrderedEnds ==
  ASSUME CInv, stage = "kernel", Exhausted, Generated
  PROVE  /\ Len(merged) = Len(trace) => \A s \in Sessions : Whole(merged, declared, s)
         /\ Len(merged) # Len(trace) => \E s \in Sessions : declared[s] # <<>> /\ lanes[s] = <<>>
  <1>1. /\ RInv /\ CaughtUp /\ SInv /\ Laned(declared) /\ Laned(lanes) /\ Trace(trace) /\ Trace(merged)
        /\ \A s \in Sessions : lanes[s] \in {declared[s], <<>>} /\ Whole(trace, declared, s)
    BY MergedTrace DEF CInv, OnDisk, RInv, SInv, TypeOK
  <1>2. NoneEmpty(lanes)
    <2>1. \A s \in Sessions : lanes[s] = <<>> => DOMAIN lanes[s] = {}
      OBVIOUS
    <2>2. NoneEmpty(declared)
      BY GeneratedNoneEmpty
    <2> QED
      BY <1>1, <2>1, <2>2 DEF NoneEmpty
  <1>3. Live = {}
    BY <1>1, <1>2, ExhaustedAll
  <1>4. \A s \in Sessions : Whole(merged, lanes, s)
    BY <1>1, <1>3, CaughtAll
  <1>5. \A s \in Sessions : /\ Len(Flat(declared, s)) \in Nat
                            /\ lanes[s] = <<>> => Len(Flat(lanes, s)) = 0
                            /\ lanes[s] = declared[s] => Flat(lanes, s) = Flat(declared, s)
    BY <1>1, FlatLength DEF Laned, Flat
  <1>6. \A s \in Sessions : Len(Flat(lanes, s)) <= Len(Flat(declared, s))
    BY <1>1, <1>5
  <1>7. /\ Len(merged) <= Len(trace)
        /\ Len(trace) = Len(merged) => \A s \in Sessions : Len(Flat(lanes, s)) = Len(Flat(declared, s))
    BY <1>1, <1>4, <1>6, WholesCompare
  <1>8. ASSUME Len(merged) = Len(trace), NEW s \in Sessions
        PROVE  Whole(merged, declared, s)
    <2>1. CASE lanes[s] = declared[s]
      BY <1>4, <2>1 DEF Whole, Flat
    <2>2. CASE lanes[s] = <<>>
      <3>1. Len(Flat(declared, s)) = 0 /\ Len(Flat(lanes, s)) = 0
        BY <1>5, <1>7, <1>8, <2>2
      <3>2. PICK p : Follows(merged, s, Flat(lanes, s), 0, p)
        BY <1>4, <3>1 DEF Whole
      <3>3. Follows(merged, s, Flat(declared, s), 0, p)
        BY <3>2 DEF Follows
      <3> QED
        BY <3>1, <3>3 DEF Whole
    <2> QED
      BY <1>1, <2>1, <2>2
  <1>9. ASSUME \A s \in Sessions : lanes[s] = declared[s]
        PROVE  Len(merged) = Len(trace)
    <2>1. \A s \in Sessions : Len(Flat(declared, s)) <= Len(Flat(lanes, s))
      BY <1>5, <1>9
    <2>2. Len(trace) <= Len(merged)
      <3>1. \A s \in Sessions : /\ Whole(merged, lanes, s) /\ Whole(trace, declared, s)
                                /\ Len(Flat(declared, s)) <= Len(Flat(lanes, s))
        BY <1>1, <1>4, <2>1
      <3>2. Trace(merged) /\ Trace(trace)
        BY <1>1
      <3> QED
        BY <3>1, <3>2, WholesCompare
    <2>3. Len(trace) \in Nat /\ Len(merged) \in Nat
      BY <1>1 DEF Trace
    <2> QED
      BY <1>7, <2>2, <2>3
  <1>10. ASSUME Len(merged) # Len(trace)
         PROVE  \E s \in Sessions : declared[s] # <<>> /\ lanes[s] = <<>>
    BY <1>1, <1>9, <1>10
  <1> QED
    BY <1>8, <1>10

LEMMA CInvOrdered ==
  ASSUME CInv, RInv', Ordered
  PROVE  CInv'
  <1>1. UNCHANGED <<declared, disk, lanes, trace, merged, token, index>> /\ stage = "kernel" /\ Exhausted
        /\ stage' = IF Len(merged) = Len(trace) THEN "ended" ELSE "refused"
    BY DEF Ordered, setting, cursors
  <1>2. CaughtUp' /\ Laned(declared)' /\ (Generated' <=> Generated) /\ disk
    BY <1>1 DEF CInv, CaughtUp, Caught, Laned, Generated, Flat
  <1>3. ASSUME Generated PROVE Ended'
    <2>1. /\ Len(merged) = Len(trace) => \A s \in Sessions : Whole(merged, declared, s)
          /\ Len(merged) # Len(trace) => \E s \in Sessions : declared[s] # <<>> /\ lanes[s] = <<>>
      BY <1>1, <1>3, OrderedEnds
    <2>2. \A s \in Sessions : Whole(merged, declared, s)' <=> Whole(merged, declared, s)
      BY <1>1 DEF Whole, Flat
    <2> QED
      BY <1>1, <2>1, <2>2 DEF Ended, Sessions
  <1>4. Generated => \A s \in Sessions : lanes[s] \in {declared[s], <<>>}
    BY <1>2 DEF CInv
  <1> QED
    BY <1>1, <1>2, <1>3, <1>4 DEF CInv, Sessions

\* merge, save, parse and replay: each stage has every access the ones before it
\* have passed on, once and in the session's own order, and no other.
THEOREM CarriedInductive == Spec => []CInv
  <1>1. CInv /\ RInv' /\ [Next]_vars => CInv'
    <2> SUFFICES ASSUME CInv, RInv', [Next]_vars PROVE CInv'
      OBVIOUS
    <2>1. CASE UNCHANGED vars
      BY <2>1 DEF vars, setting, cursors, CInv, CaughtUp, Caught, Laned, Generated, NoneEmpty, OnDisk,
                  Whole, Flat, Trace, Ended
    <2> QED
      BY <2>1, CInvServe, CInvMerged, CInvPrepare, CInvUnparsed, CInvOrdered DEF Next
  <1> QED
    BY <1>1, CInvStart, RoundsInductive, PTL DEF Spec

\* merge.rs: every access of every session appears exactly once, in its own order,
\* from the workload through the disk and the kernel's lanes.  It is the half of
\* AllServed that says what an end is: a merge or a replay ends with all of what was
\* declared, and a trace is refused only if it is longer than the kernel can hold, or
\* of more sessions than it has lanes for.
EndsWhole == (IF disk THEN Generated ELSE NoneEmpty(declared)) => Ended

THEOREM EveryAccessOnce == Spec => []EndsWhole
  <1>1. CInv => EndsWhole
    BY DEF CInv, EndsWhole
  <1> QED
    BY <1>1, CarriedInductive, PTL

\* The kernel's order over the lanes it cut is that of rounds over what the workload
\* generated: the cut finds the tokens that were generated.
THEOREM OrderAsGenerated == Spec => [](stage = "host" \/ ~disk \/ Generated => RoundByRound)
  <1>1. ByRounds /\ CInv => (stage = "host" \/ ~disk \/ Generated => RoundByRound)
    <2> SUFFICES ASSUME ByRounds, \A s \in Sessions : lanes[s] \in {declared[s], <<>>}, rule = "process"
                 PROVE  RoundByRound
      BY DEF CInv, RoundByRound
    <2> DEFINE streams == [s \in Sessions |-> IF lanes[s] = <<>> THEN <<>> ELSE declared[s]]
    <2>1. \A s \in Sessions : streams[s] = lanes[s]
      OBVIOUS
    <2> HIDE DEF streams
    <2>2. Max({Len(streams[s]) : s \in Sessions}) = Rounds(lanes)
      <3>1. {Len(streams[s]) : s \in Sessions} = {Len(lanes[s]) : s \in Sessions}
        BY <2>1
      <3> QED
        BY <3>1 DEF Rounds
    <2>3. ASSUME NEW t
          PROVE  Round(streams, t) = Round(lanes, t)
      <3>1. \A i \in 1 .. K : i - 1 \in Sessions /\ streams[i - 1] = lanes[i - 1]
        BY <2>1 DEF Sessions
      <3> QED
        BY <3>1 DEF Round, Each
    <2>4. FlattenSeq([t \in 1 .. Rounds(lanes) |-> Round(streams, t)]) = Order(lanes)
      BY <2>3 DEF Order
    <2> QED
      BY <2>2, <2>4 DEF RoundByRound, ByRounds, streams
  <1> QED
    BY <1>1, CarriedInductive, OrderIsRounds, PTL

-----------------------------------------------------------------------------
(* What mlos-workload's Decode generates is what the cut can find. *)

\* What a token reads of a layer.
LayerOf(s, round, l) ==
  Each(Tiles, LAMBDA t : Tile(l, t)) \o Each(round + 1, LAMBDA at : Block(s + 1, l, at))

\* A layer's part of a token, and where it has what the kernel cuts at.
Layered(part, l) ==
  /\ IsSequence(part) /\ Len(part) # 0
  /\ \A j \in DOMAIN part : part[j] = First <=> l = 0 /\ j = 1

LEMMA LayerIs ==
  ASSUME NEW s, NEW l \in Nat, NEW round \in Nat
  PROVE  Layered(LayerOf(s, round, l), l)
  <1>1. PICK n \in Nat \ {0} : n = Tiles
    BY WorkloadAssumption
  <1> PICK part : part = LayerOf(s, round, l)
    OBVIOUS
  <1>2. PICK m \in Nat \ {0} : m = round + 1
    OBVIOUS
  <1> DEFINE tile(i) == Tile(l, i - 1)
             block(i) == Block(s + 1, l, i - 1)
  <1>3. PICK all : all = {tile(i) : i \in 1 .. n} \cup {block(i) : i \in 1 .. m}
    OBVIOUS
  <1>4. PICK a : a = [i \in 1 .. n |-> tile(i)]
    OBVIOUS
  <1>5. PICK b : b = [i \in 1 .. m |-> block(i)]
    OBVIOUS
  <1>6. part = a \o b
    BY <1>1, <1>2, <1>4, <1>5 DEF LayerOf, Each
  <1>7. /\ \A i \in 1 .. n : tile(i) = First <=> l = 0 /\ i = 1
        /\ \A i \in 1 .. m : block(i) # First
    <2>1. \A i \in 1 .. n : tile(i) = First <=> l = 0 /\ i = 1
      <3> TAKE i \in 1 .. n
      <3>1. tile(i).layer = l /\ tile(i).tensor = i - 1 /\ First.layer = 0 /\ First.tensor = 0
        BY DEF Tile, Id, First
      <3>2. l = 0 /\ i = 1 => tile(i) = First
        BY DEF First
      <3> QED
        BY <3>1, <3>2
    <2>2. \A i \in 1 .. m : block(i) # First
      <3> TAKE i \in 1 .. m
      <3>1. block(i).class = "kv" /\ First.class = "weight"
        BY DEF Block, Tile, Id, First
      <3> QED
        BY <3>1
    <2> QED
      BY <2>1, <2>2
  <1> HIDE DEF tile, block
  <1>8. a \in Seq(all) /\ Len(a) = n /\ \A i \in 1 .. n : a[i] = tile(i)
    <2>1. a \in [1 .. n -> all]
      BY <1>3, <1>4
    <2> QED
      BY <1>4, <2>1
  <1>9. b \in Seq(all) /\ Len(b) = m /\ \A i \in 1 .. m : b[i] = block(i)
    <2>1. b \in [1 .. m -> all]
      BY <1>3, <1>5
    <2> QED
      BY <1>5, <2>1
  <1>10. Joined(part, a, b)
    BY <1>6, <1>8, <1>9, JoinAt
  <1>11. part \in Seq(all) /\ IsSequence(part)
    <2>1. part \in Seq(all)
      BY <1>6, <1>8, <1>9
    <2> QED
      BY <2>1 DEF IsSequence
  <1>12. Len(part) = n + m
    BY <1>8, <1>9, <1>10 DEF Joined
  <1>13. \A j \in 1 .. n : part[j] = tile(j)
    BY <1>8, <1>10 DEF Joined
  <1>14. \A i \in 1 .. m : part[n + i] = block(i)
    BY <1>8, <1>9, <1>10 DEF Joined
  <1>15. ASSUME NEW j \in 1 .. n + m PROVE part[j] = First <=> l = 0 /\ j = 1
    <2>1. CASE j <= n
      <3>1. j \in 1 .. n
        BY <2>1
      <3> QED
        BY <1>7, <1>13, <3>1
    <2>2. CASE n < j
      <3>1. PICK i \in 1 .. m : j = n + i
        <4>1. j - n \in 1 .. m /\ j = n + (j - n)
          BY <2>2
        <4> QED
          BY <4>1
      <3>2. part[j] # First
        BY <1>7, <1>14, <3>1
      <3>3. j # 1
        BY <2>2
      <3> QED
        BY <3>2, <3>3
    <2> QED
      BY <2>1, <2>2
  <1>16. DOMAIN part = 1 .. n + m
    BY <1>11, <1>12 DEF IsSequence
  <1>17. Layered(part, l)
    BY <1>11, <1>12, <1>15, <1>16 DEF Layered
  <1> QED
    BY <1>17

LEMMA TokenBegins ==
  ASSUME NEW s, NEW round \in Nat
  PROVE  /\ IsSequence(DecodeToken(s, round)) /\ Len(DecodeToken(s, round)) # 0
         /\ \A m \in DOMAIN DecodeToken(s, round) : DecodeToken(s, round)[m] = First <=> m = 1
  <1> DEFINE ss == [i \in 1 .. Layers |-> LayerOf(s, round, i - 1)]
  <1>1. PICK k \in Nat \ {0} : k = Layers
    BY WorkloadAssumption
  <1>2. DecodeToken(s, round) = FlattenSeq(ss)
    BY DEF DecodeToken, Each, LayerOf
  <1>3. ASSUME NEW i \in 1 .. k
        PROVE  /\ IsSequence(ss[i]) /\ DOMAIN ss[i] = 1 .. Len(ss[i])
               /\ Len(ss[i]) \in Nat \ {0}
               /\ \A j \in 1 .. Len(ss[i]) : ss[i][j] = First <=> i = 1 /\ j = 1
    <2>1. PICK l \in Nat : l = i - 1
      OBVIOUS
    <2>2. PICK part : part = LayerOf(s, round, l)
      OBVIOUS
    <2>3. ss[i] = part
      BY <1>1, <2>1, <2>2
    <2>4. Layered(part, l)
      BY <2>2, LayerIs
    <2>5. l = 0 <=> i = 1
      BY <2>1
    <2>6. Len(part) \in Nat /\ DOMAIN part = 1 .. Len(part)
      BY <2>4 DEF Layered, IsSequence
    <2> HIDE DEF ss
    <2> QED
      BY <2>3, <2>4, <2>5, <2>6 DEF Layered
  <1>4. DOMAIN ss = 1 .. k /\ Len(ss) = k /\ ss = [i \in DOMAIN ss |-> ss[i]]
    BY <1>1
  <1> HIDE DEF ss
  <1>5. IsLane(ss)
    <2>1. \A i \in 1 .. k : IsSequence(ss[i])
      BY <1>3
    <2> QED
      BY <1>4, <2>1 DEF IsLane, IsSequence
  <1>6. PICK any : Laid(FlattenSeq(ss), ss, Len(ss), any)
    BY <1>5, LaneLaid
  <1>7. PICK f : f = FlattenSeq(ss) /\ f \in Seq(any)
    BY <1>6 DEF Laid
  <1>8. PICK o : Offsets(f, ss, k, o)
    BY <1>4, <1>6, <1>7 DEF Laid
  <1>9. PICK n \in Nat : n = Len(f) /\ DOMAIN f = 1 .. n
    BY <1>7
  <1>10. /\ o \in [1 .. k + 1 -> Nat] /\ o[1] = 0 /\ o[k + 1] = n
         /\ \A i \in 1 .. k : o[i + 1] = o[i] + Len(ss[i])
         /\ \A i \in 1 .. k : \A j \in 1 .. Len(ss[i]) : f[o[i] + j] = ss[i][j]
    BY <1>8, <1>9 DEF Offsets
  <1>11. Rising(o, k)
    <2>1. ASSUME NEW i \in 1 .. k PROVE o[i] < o[i + 1]
      <3>1. o[i] \in Nat /\ o[i + 1] = o[i] + Len(ss[i])
        BY <1>10
      <3>2. Len(ss[i]) \in Nat /\ Len(ss[i]) # 0
        BY <1>3
      <3> QED
        BY <3>1, <3>2
    <2> QED
      BY <1>10, <2>1 DEF Rising
  <1>12. ASSUME NEW m \in 1 .. n PROVE f[m] = First <=> m = 1
    <2>1. PICK i \in 1 .. k : o[i] < m /\ m <= o[i + 1]
      BY <1>10, <1>11, PartOf
    <2>2. o[i] \in Nat /\ o[i + 1] = o[i] + Len(ss[i]) /\ Len(ss[i]) \in Nat
      BY <1>3, <1>10
    <2>3. PICK j \in 1 .. Len(ss[i]) : m = o[i] + j
      <3>1. m - o[i] \in 1 .. Len(ss[i]) /\ m = o[i] + (m - o[i])
        BY <2>1, <2>2
      <3> QED
        BY <3>1
    <2>4. f[m] = First <=> i = 1 /\ j = 1
      <3>1. f[m] = ss[i][j]
        BY <1>10, <2>3
      <3>2. ss[i][j] = First <=> i = 1 /\ j = 1
        BY <1>3
      <3> QED
        BY <3>1, <3>2
    <2>5. i # 1 => o[1] < o[i]
      <3>1. 1 \in 1 .. k + 1 /\ i \in 1 .. k + 1
        OBVIOUS
      <3> QED
        BY <1>11, <3>1, RisesTo
    <2>6. m = 1 <=> i = 1 /\ j = 1
      BY <1>10, <2>2, <2>3, <2>5
    <2> QED
      BY <2>4, <2>6
  <1>13. n # 0
    <2>1. 1 \in 1 .. k + 1 /\ k + 1 \in 1 .. k + 1
      OBVIOUS
    <2>2. o[1] < o[k + 1]
      BY <1>11, <2>1, RisesTo
    <2> QED
      BY <1>10, <2>2
  <1>14. IsSequence(f)
    BY <1>7 DEF IsSequence
  <1> QED
    BY <1>2, <1>7, <1>9, <1>12, <1>13, <1>14

\* For any model and any loop, each lane the Decode workload merges is one the cut
\* finds: a token begins with the first tile of the first layer, read nowhere else in it.
THEOREM DecodeIsCut ==
  ASSUME NEW loop, loop.sessions \in Nat, loop.rounds \in Nat, NEW s \in 0 .. loop.sessions - 1
  PROVE  IsLane(Decode(loop)[s]) /\ Cuttable(Decode(loop)[s])
  <1>1. PICK n \in Nat : n = Length(loop, s)
    <2>1. loop.sessions # 0 /\ loop.rounds * (s + 1) \in Nat
      OBVIOUS
    <2>2. (loop.rounds * (s + 1)) \div loop.sessions \in Nat
      BY <2>1
    <2> QED
      BY <2>1, <2>2 DEF Length
  <1>2. PICK lane : lane = [t \in 1 .. n |-> DecodeToken(s, t - 1)]
    OBVIOUS
  <1>3. Decode(loop)[s] = lane
    BY <1>1, <1>2 DEF Decode, DecodeTokens, Each
  <1>4. DOMAIN lane = 1 .. n /\ IsSequence(lane) /\ \A t \in 1 .. n : lane[t] = DecodeToken(s, t - 1)
    <2>1. DOMAIN lane = 1 .. n /\ lane = [t \in 1 .. n |-> lane[t]]
      BY <1>2
    <2> QED
      BY <1>2, <2>1, NumberedIsSequence
  <1>5. ASSUME NEW t \in 1 .. n
        PROVE  /\ IsSequence(lane[t]) /\ Len(lane[t]) # 0
               /\ \A m \in DOMAIN lane[t] : lane[t][m] = First <=> m = 1
    <2>1. PICK round \in Nat : round = t - 1
      OBVIOUS
    <2>2. /\ IsSequence(DecodeToken(s, round)) /\ Len(DecodeToken(s, round)) # 0
          /\ \A m \in DOMAIN DecodeToken(s, round) : DecodeToken(s, round)[m] = First <=> m = 1
      BY TokenBegins
    <2> QED
      BY <1>4, <2>1, <2>2
  <1>6. IsLane(lane)
    BY <1>4, <1>5 DEF IsLane
  <1>7. Cuttable(lane)
    <2>1. ASSUME NEW t \in 1 .. n PROVE 1 \in DOMAIN lane[t]
      <3>1. PICK token_ : token_ = lane[t]
        OBVIOUS
      <3>2. Len(token_) \in Nat /\ Len(token_) # 0 /\ DOMAIN token_ = 1 .. Len(token_)
        BY <1>5, <3>1 DEF IsSequence
      <3> QED
        BY <3>1, <3>2
    <2> QED
      BY <1>4, <1>5, <2>1 DEF Cuttable
  <1> QED
    BY <1>3, <1>6, <1>7
=============================================================================
