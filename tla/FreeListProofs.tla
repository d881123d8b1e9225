--------------------------- MODULE FreeListProofs ---------------------------
(***************************************************************************)
(* What the operators of FreeList do, for every list of holes: taking from *)
(* the front of a hole, and giving a run back, keep the list sorted,       *)
(* inside the region and coalesced, and change which bytes are free by     *)
(* exactly the run taken or given.                                         *)
(***************************************************************************)
EXTENDS FreeList, SequenceTheorems, FiniteSetTheorems, WellFoundedInduction, TLAPS

USE AlignAssumption

-----------------------------------------------------------------------------
(* Lemmas about sequences and rounding. *)

\* A nonempty set of naturals has a least member.
LEMMA LeastMember ==
  ASSUME NEW S \in SUBSET Nat, S # {}
  PROVE  Min(S) \in S /\ \A y \in S : Min(S) <= y
  <1>1. PICK x \in S : \A y \in S : ~(<<y, x>> \in OpToRel(<, Nat))
    BY NatLessThanWellFounded, WFMin
  <1>2. ASSUME NEW y \in S, y < x
        PROVE  <<y, x>> \in OpToRel(<, Nat)
    BY <1>2 DEF OpToRel
  <1>3. \A y \in S : ~(y < x)
    BY <1>1, <1>2, Zenon
  <1>4. \A y \in S : x <= y
    BY <1>3
  <1> QED
    BY <1>4 DEF Min

\* Rounding up a size gives a positive number of bytes, no less than the size.
LEMMA RoundUpValue ==
  ASSUME NEW size \in Nat \ {0}
  PROVE  RoundUp(size) \in Nat \ {0} /\ RoundUp(size) >= size
  BY DEF RoundUp

LEMMA HoleOf ==
  ASSUME NEW f \in Seq(Hole), NEW j \in 1 .. Len(f)
  PROVE  f[j] \in Hole /\ f[j].at \in Nat /\ f[j].len \in Nat /\ End(f[j]) \in Nat
  <1>1. f[j] \in Hole
    BY ElementOfSeq
  <1> QED
    BY <1>1 DEF Hole, End

LEMMA NewHole ==
  ASSUME NEW at \in Nat, NEW len \in Nat
  PROVE  LET h == [at |-> at, len |-> len]
         IN  h \in Hole /\ h.at = at /\ h.len = len /\ End(h) = at + len
  BY DEF Hole, End

LEMMA RemoveAtValue ==
  ASSUME NEW s \in Seq(Hole), NEW i \in 1 .. Len(s)
  PROVE  /\ RemoveAt(s, i) \in Seq(Hole)
         /\ Len(RemoveAt(s, i)) = Len(s) - 1
         /\ \A j \in 1 .. Len(s) - 1 :
              RemoveAt(s, i)[j] = IF j < i THEN s[j] ELSE s[j + 1]
  <1> DEFINE a == SubSeq(s, 1, i - 1)
             b == SubSeq(s, i + 1, Len(s))
  <1>1. \A j \in 1 .. Len(s) : s[j] \in Hole
    BY ElementOfSeq
  <1>2. a \in Seq(Hole) /\ Len(a) = i - 1 /\ \A j \in 1 .. i - 1 : a[j] = s[j]
    BY <1>1, SubSeqProperties
  <1>3. b \in Seq(Hole) /\ Len(b) = Len(s) - i /\ \A j \in 1 .. Len(s) - i : b[j] = s[i + j]
    BY <1>1, SubSeqProperties
  <1> HIDE DEF a, b
  <1> DEFINE c == a \o b
  <1>4. /\ c \in Seq(Hole)
        /\ Len(c) = Len(a) + Len(b)
        /\ \A j \in 1 .. Len(a) + Len(b) : c[j] = IF j <= Len(a) THEN a[j] ELSE b[j - Len(a)]
    BY <1>2, <1>3, ConcatProperties
  <1> HIDE DEF c
  <1>5. \A j \in 1 .. Len(s) - 1 : c[j] = IF j < i THEN s[j] ELSE s[j + 1]
    <2> SUFFICES ASSUME NEW j \in 1 .. Len(s) - 1
                 PROVE  c[j] = IF j < i THEN s[j] ELSE s[j + 1]
      OBVIOUS
    <2>1. j \in 1 .. Len(a) + Len(b)
      BY <1>2, <1>3
    <2>2. CASE j < i
      BY <1>2, <1>3, <1>4, <2>1, <2>2
    <2>3. CASE j >= i
      <3>1. c[j] = b[j - (i - 1)] /\ j - (i - 1) \in 1 .. Len(s) - i
        BY <1>2, <1>3, <1>4, <2>1, <2>3
      <3>2. b[j - (i - 1)] = s[i + (j - (i - 1))]
        BY <1>3, <3>1
      <3> QED
        BY <2>3, <3>1, <3>2
    <2> QED
      BY <2>2, <2>3
  <1>6. Len(c) = Len(s) - 1
    BY <1>2, <1>3, <1>4
  <1>7. RemoveAt(s, i) = c
    BY DEF RemoveAt, a, b, c
  <1> QED
    BY <1>4, <1>5, <1>6, <1>7

LEMMA InsertAtValue ==
  ASSUME NEW s \in Seq(Hole), NEW i \in 1 .. Len(s) + 1, NEW e \in Hole
  PROVE  /\ InsertAt(s, i, e) \in Seq(Hole)
         /\ Len(InsertAt(s, i, e)) = Len(s) + 1
         /\ \A j \in 1 .. Len(s) + 1 :
              InsertAt(s, i, e)[j] = IF j < i THEN s[j] ELSE IF j = i THEN e ELSE s[j - 1]
  <1> DEFINE a == SubSeq(s, 1, i - 1)
             b == SubSeq(s, i, Len(s))
             c == a \o <<e>>
  <1>1. \A j \in 1 .. Len(s) : s[j] \in Hole
    BY ElementOfSeq
  <1>2. a \in Seq(Hole) /\ Len(a) = i - 1 /\ \A j \in 1 .. i - 1 : a[j] = s[j]
    BY <1>1, SubSeqProperties
  <1>3. b \in Seq(Hole) /\ Len(b) = Len(s) - i + 1
        /\ \A j \in 1 .. Len(s) - i + 1 : b[j] = s[i + j - 1]
    BY <1>1, SubSeqProperties
  <1>4. <<e>> \in Seq(Hole) /\ Len(<<e>>) = 1 /\ <<e>>[1] = e
    OBVIOUS
  <1> HIDE DEF a, b
  <1>5. /\ c \in Seq(Hole)
        /\ Len(c) = i
        /\ \A j \in 1 .. i : c[j] = IF j <= i - 1 THEN a[j] ELSE <<e>>[j - (i - 1)]
    BY <1>2, <1>4, ConcatProperties
  <1>6. \A j \in 1 .. i : c[j] = IF j < i THEN s[j] ELSE e
    BY <1>2, <1>4, <1>5
  <1> HIDE DEF c
  <1>7. /\ c \o b \in Seq(Hole)
        /\ Len(c \o b) = Len(s) + 1
        /\ \A j \in 1 .. Len(s) + 1 : (c \o b)[j] = IF j <= i THEN c[j] ELSE b[j - i]
    <2>1. /\ c \o b \in Seq(Hole)
          /\ Len(c \o b) = Len(c) + Len(b)
          /\ \A j \in 1 .. Len(c) + Len(b) :
               (c \o b)[j] = IF j <= Len(c) THEN c[j] ELSE b[j - Len(c)]
      BY <1>3, <1>5, ConcatProperties
    <2>2. Len(c) = i /\ Len(c) + Len(b) = Len(s) + 1
      BY <1>3, <1>5
    <2> QED
      BY <2>1, <2>2
  <1>8. \A j \in 1 .. Len(s) + 1 :
          (c \o b)[j] = IF j < i THEN s[j] ELSE IF j = i THEN e ELSE s[j - 1]
    BY <1>3, <1>6, <1>7
  <1> QED
    BY <1>7, <1>8 DEF InsertAt, a, b, c

\* What SelectInSeq finds, for the two tests the free list is searched with.
LEMMA FirstFitValue ==
  ASSUME NEW f \in Seq(Hole), NEW want \in Nat
  PROVE  LET i == FirstFit(f, want)
         IN  \/ i = 0 /\ \A j \in 1 .. Len(f) : f[j].len < want
             \/ i \in 1 .. Len(f) /\ f[i].len >= want
  <1> DEFINE I == {j \in 1 .. Len(f) : f[j].len >= want}
  <1>1. FirstFit(f, want) = IF I # {} THEN Min(I) ELSE 0
    BY DEF FirstFit, SelectInSeq
  <1>2. \A j \in 1 .. Len(f) : f[j].len \in Nat
    BY HoleOf
  <1>3. CASE I = {}
    BY <1>1, <1>2, <1>3
  <1>4. CASE I # {}
    <2>1. I \in SUBSET Nat
      OBVIOUS
    <2>2. Min(I) \in I
      <3> HIDE DEF I
      <3> QED
        BY <1>4, <2>1, LeastMember
    <2> QED
      BY <1>1, <1>4, <2>2
  <1> QED
    BY <1>3, <1>4

LEMMA PositionValue ==
  ASSUME NEW f \in Seq(Hole), NEW at \in Nat
  PROVE  /\ Position(f, at) \in 1 .. Len(f) + 1
         /\ \A j \in 1 .. Position(f, at) - 1 : f[j].at <= at
         /\ Position(f, at) <= Len(f) => f[Position(f, at)].at > at
  <1> DEFINE I == {j \in 1 .. Len(f) : f[j].at > at}
             i == SelectInSeq(f, LAMBDA hole : hole.at > at)
  <1>1. i = IF I # {} THEN Min(I) ELSE 0
    BY DEF SelectInSeq
  <1>2. \A j \in 1 .. Len(f) : f[j].at \in Nat
    BY HoleOf
  <1>3. Position(f, at) = IF i = 0 THEN Len(f) + 1 ELSE i
    BY DEF Position
  <1>4. CASE I = {}
    <2>1. Position(f, at) = Len(f) + 1
      BY <1>1, <1>3, <1>4
    <2>2. \A j \in 1 .. Len(f) : f[j].at <= at
      BY <1>2, <1>4
    <2> QED
      BY <2>1, <2>2
  <1>5. CASE I # {}
    <2>1. I \in SUBSET Nat
      OBVIOUS
    <2>2. Min(I) \in I /\ \A y \in I : Min(I) <= y
      <3> HIDE DEF I
      <3> QED
        BY <1>5, <2>1, LeastMember
    <2>3. i = Min(I) /\ i # 0 /\ Position(f, at) = Min(I)
      BY <1>1, <1>3, <1>5, <2>2
    <2>4. Position(f, at) \in 1 .. Len(f) /\ f[Position(f, at)].at > at
      BY <2>2, <2>3
    <2>5. ASSUME NEW j \in 1 .. Position(f, at) - 1
          PROVE  f[j].at <= at
      <3>1. j \in 1 .. Len(f) /\ ~(Min(I) <= j)
        BY <2>3, <2>4
      <3>2. j \notin I
        BY <2>2, <3>1
      <3> QED
        BY <1>2, <3>1, <3>2
    <2> QED
      BY <2>4, <2>5
  <1> QED
    BY <1>4, <1>5

-----------------------------------------------------------------------------
(* The free list while a returned run is being merged: sorted, but two     *)
(* neighbours may touch, and only at an index in T.                        *)

Ordered(f, T, cap) ==
  /\ \A j \in 1 .. Len(f) : f[j].len > 0 /\ End(f[j]) <= cap
  /\ \A j, k \in 1 .. Len(f) : j < k =>
       \/ End(f[j]) < f[k].at
       \/ End(f[j]) = f[k].at /\ k = j + 1 /\ j \in T

LEMMA OrderedIsWellFormed ==
  ASSUME NEW cap \in Nat, NEW f \in Seq(Hole)
  PROVE  WellFormed(f, cap) <=> Ordered(f, {}, cap)
  BY DEF WellFormed, Ordered

\* Taking bytes from the front of a hole keeps the list well formed, and
\* exactly those bytes stop being free.
LEMMA TakeKeeps ==
  ASSUME NEW cap \in Nat, NEW f \in Seq(Hole), WellFormed(f, cap), NEW i \in 1 .. Len(f),
         NEW want \in Nat \ {0}, f[i].len >= want
  PROVE  /\ Take(f, i, want) \in Seq(Hole)
         /\ Len(Take(f, i, want)) <= Len(f)
         /\ WellFormed(Take(f, i, want), cap)
         /\ \A b \in Int : Covers(Take(f, i, want), b) <=>
                            Covers(f, b) /\ ~(f[i].at <= b /\ b < f[i].at + want)
  <1> DEFINE g == Take(f, i, want)
             n == Len(f)
             A(j) == f[j].at
             E(j) == End(f[j])
             B(j) == g[j].at
             F(j) == End(g[j])
  <1>0. n \in Nat /\ i \in 1 .. n /\ \A j \in 1 .. n : A(j) \in Nat /\ E(j) \in Nat
    BY HoleOf
  <1>1. /\ \A j \in 1 .. n : A(j) < E(j) /\ E(j) <= cap
        /\ \A j, k \in 1 .. n : j < k => E(j) < A(k)
    <2>1. \A j \in 1 .. n : f[j].len \in Nat /\ f[j].at \in Nat
      BY HoleOf
    <2> QED
      BY <2>1 DEF WellFormed, End
  <1>2. CASE f[i].len = want
    <2>1. g = RemoveAt(f, i)
      BY <1>2 DEF Take
    <2>2. /\ g \in Seq(Hole) /\ Len(g) = n - 1
          /\ \A j \in 1 .. n - 1 : g[j] = IF j < i THEN f[j] ELSE f[j + 1]
      BY <2>1, RemoveAtValue
    <2> HIDE DEF g
    <2>3. /\ \A j \in 1 .. n - 1 : j < i => B(j) = A(j) /\ F(j) = E(j)
          /\ \A j \in 1 .. n - 1 : j >= i => B(j) = A(j + 1) /\ F(j) = E(j + 1)
      BY <2>2
    <2>4. E(i) = A(i) + want
      BY <1>2 DEF End
    <2> HIDE DEF A, E, B, F, n
    <2>5. \A j \in 1 .. n - 1 : B(j) < F(j) /\ F(j) <= cap
      BY <1>0, <1>1, <2>3
    <2>6. \A j, k \in 1 .. n - 1 : j < k => F(j) < B(k)
      <3> SUFFICES ASSUME NEW j \in 1 .. n - 1, NEW k \in 1 .. n - 1, j < k
                   PROVE  F(j) < B(k)
        OBVIOUS
      <3>1. CASE k < i
        BY <1>0, <1>1, <2>3, <3>1
      <3>2. CASE j < i /\ k >= i
        BY <1>0, <1>1, <2>3, <3>2
      <3>3. CASE j >= i
        <4>1. F(j) = E(j + 1) /\ B(k) = A(k + 1)
          BY <1>0, <2>3, <3>3
        <4>2. j + 1 \in 1 .. n /\ k + 1 \in 1 .. n /\ j + 1 < k + 1
          BY <1>0
        <4> QED
          BY <1>1, <4>1, <4>2
      <3> QED
        BY <3>1, <3>2, <3>3
    <2>7. ASSUME NEW b \in Int
          PROVE  (\E j \in 1 .. n - 1 : B(j) <= b /\ b < F(j)) <=>
                 /\ \E j \in 1 .. n : A(j) <= b /\ b < E(j)
                 /\ ~(A(i) <= b /\ b < E(i))
      <3>1. ASSUME NEW j \in 1 .. n - 1, B(j) <= b, b < F(j)
            PROVE  /\ \E k \in 1 .. n : A(k) <= b /\ b < E(k)
                   /\ ~(A(i) <= b /\ b < E(i))
        <4>1. CASE j < i
          <5>1. j \in 1 .. n /\ A(j) <= b /\ b < E(j) /\ E(j) < A(i)
            BY <1>0, <1>1, <2>3, <3>1, <4>1
          <5> QED
            BY <1>0, <5>1
        <4>2. CASE j >= i
          <5>1. j + 1 \in 1 .. n /\ A(j + 1) <= b /\ b < E(j + 1)
            BY <1>0, <2>3, <3>1, <4>2
          <5>2. E(i) < A(j + 1)
            BY <1>0, <1>1, <4>2, <5>1
          <5>3. ~(b < E(i))
            BY <1>0, <5>1, <5>2
          <5> QED
            BY <5>1, <5>3
        <4> QED
          BY <4>1, <4>2
      <3>2. ASSUME NEW k \in 1 .. n, A(k) <= b, b < E(k), ~(A(i) <= b /\ b < E(i))
            PROVE  \E j \in 1 .. n - 1 : B(j) <= b /\ b < F(j)
        <4>1. CASE k < i
          <5>1. k \in 1 .. n - 1 /\ B(k) = A(k) /\ F(k) = E(k)
            BY <1>0, <2>3, <4>1
          <5> QED
            BY <3>2, <5>1
        <4>2. CASE k > i
          <5>1. k - 1 \in 1 .. n - 1 /\ B(k - 1) = A(k) /\ F(k - 1) = E(k)
            BY <1>0, <2>3, <4>2
          <5> QED
            BY <3>2, <5>1
        <4>3. CASE k = i
          BY <3>2, <4>3
        <4> QED
          BY <4>1, <4>2, <4>3
      <3> QED
        BY <3>1, <3>2
    <2>8. Len(g) <= n
      BY <1>0, <2>2
    <2>9. WellFormed(g, cap)
      <3>1. \A j \in 1 .. Len(g) : g[j].at \in Nat /\ g[j].len \in Nat
        BY <2>2, HoleOf
      <3> QED
        BY <2>2, <2>5, <2>6, <3>1 DEF WellFormed, B, F, End
    <2>10. \A b \in Int : Covers(g, b) <=> Covers(f, b) /\ ~(f[i].at <= b /\ b < f[i].at + want)
      BY <2>2, <2>4, <2>7 DEF Covers, A, B, E, F, n
    <2> QED
      BY <2>2, <2>8, <2>9, <2>10 DEF g, n
  <1>3. CASE f[i].len # want
    <2>a. f[i].at \in Nat /\ f[i].len \in Nat /\ f[i].len > want
      BY <1>3, HoleOf
    <2>0. [at |-> f[i].at + want, len |-> f[i].len - want] \in Hole
      BY <2>a DEF Hole
    <2>1. g = [f EXCEPT ![i] = [at |-> f[i].at + want, len |-> f[i].len - want]]
      BY <1>3 DEF Take
    <2>2. /\ g \in Seq(Hole) /\ Len(g) = n
          /\ g[i] = [at |-> f[i].at + want, len |-> f[i].len - want]
          /\ \A j \in 1 .. n : j # i => g[j] = f[j]
      BY <2>0, <2>1, ExceptSeq
    <2> HIDE DEF g
    <2>3. B(i) = A(i) + want /\ F(i) = E(i) /\ A(i) + want < E(i)
      <3>1. g[i].at = f[i].at + want /\ g[i].len = f[i].len - want
        BY <2>2
      <3> QED
        BY <2>a, <3>1 DEF End
    <2>4. \A j \in 1 .. n : j # i => B(j) = A(j) /\ F(j) = E(j)
      BY <2>2
    <2> HIDE DEF A, E, B, F, n
    <2>5. \A j \in 1 .. n : F(j) = E(j) /\ A(j) <= B(j) /\ B(j) < F(j) /\ F(j) <= cap
      <3> SUFFICES ASSUME NEW j \in 1 .. n
                   PROVE  F(j) = E(j) /\ A(j) <= B(j) /\ B(j) < F(j) /\ F(j) <= cap
        OBVIOUS
      <3>1. CASE j = i
        BY <1>0, <1>1, <2>3, <3>1
      <3>2. CASE j # i
        BY <1>0, <1>1, <2>4, <3>2
      <3> QED
        BY <3>1, <3>2
    <2>6. ASSUME NEW j \in 1 .. n, NEW k \in 1 .. n, j < k
          PROVE  F(j) < B(k)
      <3>1. F(j) < A(k)
        BY <1>1, <2>5, <2>6
      <3>2. CASE k = i
        BY <1>0, <2>3, <2>5, <3>1, <3>2
      <3>3. CASE k # i
        BY <2>4, <3>1, <3>3
      <3> QED
        BY <3>2, <3>3
    <2>7. ASSUME NEW b \in Int
          PROVE  (\E j \in 1 .. n : B(j) <= b /\ b < F(j)) <=>
                 /\ \E j \in 1 .. n : A(j) <= b /\ b < E(j)
                 /\ ~(A(i) <= b /\ b < A(i) + want)
      <3>1. ASSUME NEW j \in 1 .. n, B(j) <= b, b < F(j)
            PROVE  A(j) <= b /\ b < E(j) /\ ~(A(i) <= b /\ b < A(i) + want)
        <4>1. CASE j = i
          BY <1>0, <2>3, <3>1, <4>1
        <4>2. CASE j # i
          <5>1. A(j) <= b /\ b < E(j) /\ A(i) + want < E(i)
            BY <2>3, <2>4, <3>1, <4>2
          <5>2. E(j) < A(i) \/ E(i) < A(j)
            BY <1>0, <1>1, <4>2
          <5> QED
            BY <1>0, <5>1, <5>2
        <4> QED
          BY <4>1, <4>2
      <3>2. ASSUME NEW j \in 1 .. n, A(j) <= b, b < E(j), ~(A(i) <= b /\ b < A(i) + want)
            PROVE  B(j) <= b /\ b < F(j)
        <4>1. CASE j = i
          BY <1>0, <2>3, <3>2, <4>1
        <4>2. CASE j # i
          BY <2>4, <3>2, <4>2
        <4> QED
          BY <4>1, <4>2
      <3> QED
        BY <3>1, <3>2
    <2>9. WellFormed(g, cap)
      <3>1. \A j \in 1 .. Len(g) : g[j].at \in Nat /\ g[j].len \in Nat
        BY <2>2, HoleOf
      <3> QED
        BY <2>2, <2>5, <2>6, <3>1 DEF WellFormed, B, F, End
    <2>10. \A b \in Int : Covers(g, b) <=> Covers(f, b) /\ ~(f[i].at <= b /\ b < f[i].at + want)
      BY <2>2, <2>7 DEF Covers, A, B, E, F, n
    <2> QED
      BY <2>2, <2>9, <2>10 DEF g, n
  <1> QED
    BY <1>2, <1>3

\* Swallowing a neighbour that touches: the list stays sorted, one place
\* fewer may touch, and the same bytes are free.
LEMMA SwallowKeeps ==
  ASSUME NEW cap \in Nat, NEW f \in Seq(Hole), NEW T \in SUBSET Int, Ordered(f, T, cap),
         NEW i \in Int, Touches(f, i), \A j \in T : j <= i
  PROVE  /\ Swallow(f, i) \in Seq(Hole)
         /\ Len(Swallow(f, i)) = Len(f) - 1
         /\ Ordered(Swallow(f, i), T \ {i}, cap)
         /\ \A b \in Int : Covers(Swallow(f, i), b) <=> Covers(f, b)
  <1> DEFINE h == [at |-> f[i].at, len |-> f[i].len + f[i + 1].len]
             e == [f EXCEPT ![i] = h]
             g == Swallow(f, i)
             n == Len(f)
             A(j) == f[j].at
             E(j) == End(f[j])
             B(j) == g[j].at
             F(j) == End(g[j])
  <1>0. /\ n \in Nat /\ i \in 1 .. n /\ i + 1 \in 1 .. n /\ i \in 1 .. n - 1
        /\ E(i) = A(i + 1)
        /\ \A j \in 1 .. n : A(j) \in Nat /\ E(j) \in Nat
    BY HoleOf DEF Touches
  <1>1. /\ \A j \in 1 .. n : A(j) < E(j) /\ E(j) <= cap
        /\ \A j, k \in 1 .. n : j < k => E(j) < A(k) \/ (E(j) = A(k) /\ k = j + 1 /\ j \in T)
    <2>1. \A j \in 1 .. n : f[j].len \in Nat /\ f[j].at \in Nat
      BY HoleOf
    <2> QED
      BY <2>1 DEF Ordered, End
  <1>2. h \in Hole /\ End(h) = E(i + 1)
    <2>1. /\ f[i].at \in Nat /\ f[i].len \in Nat
          /\ f[i + 1].at \in Nat /\ f[i + 1].len \in Nat
      BY <1>0, HoleOf
    <2>2. f[i].at + f[i].len = f[i + 1].at
      BY <1>0 DEF End
    <2>3. f[i].len + f[i + 1].len \in Nat
      BY <2>1
    <2>4. h \in Hole /\ End(h) = f[i].at + (f[i].len + f[i + 1].len)
      BY <2>1, <2>3, NewHole
    <2> QED
      BY <2>1, <2>2, <2>4 DEF End
  <1>4. /\ e \in Seq(Hole) /\ Len(e) = n /\ e[i] = h
        /\ \A j \in 1 .. n : j # i => e[j] = f[j]
    BY <1>0, <1>2, ExceptSeq
  <1>5. g = RemoveAt(e, i + 1)
    BY DEF Swallow
  <1> HIDE DEF e, g
  <1>6. /\ g \in Seq(Hole) /\ Len(g) = n - 1
        /\ \A j \in 1 .. n - 1 : g[j] = IF j < i + 1 THEN e[j] ELSE e[j + 1]
    <2>1. i + 1 \in 1 .. Len(e)
      BY <1>0, <1>4
    <2> QED
      BY <1>4, <1>5, <2>1, RemoveAtValue
  <1>7. /\ g[i] = h
        /\ \A j \in 1 .. n - 1 : j < i => g[j] = f[j]
        /\ \A j \in 1 .. n - 1 : j > i => g[j] = f[j + 1]
    BY <1>0, <1>4, <1>6
  <1>8. /\ B(i) = A(i) /\ F(i) = E(i + 1)
        /\ \A j \in 1 .. n - 1 : j < i => B(j) = A(j) /\ F(j) = E(j)
        /\ \A j \in 1 .. n - 1 : j > i => B(j) = A(j + 1) /\ F(j) = E(j + 1)
    BY <1>2, <1>7
  <1> HIDE DEF A, E, B, F, n, h
  <1>9. ASSUME NEW j \in 1 .. n - 1
        PROVE  B(j) < F(j) /\ F(j) <= cap
    <2>1. CASE j < i
      BY <1>0, <1>1, <1>8, <2>1
    <2>2. CASE j = i
      BY <1>0, <1>1, <1>8, <2>2
    <2>3. CASE j > i
      BY <1>0, <1>1, <1>8, <2>3
    <2> QED
      BY <1>0, <2>1, <2>2, <2>3
  <1>10. ASSUME NEW j \in 1 .. n - 1, NEW k \in 1 .. n - 1, j < k
         PROVE  F(j) < B(k) \/ (F(j) = B(k) /\ k = j + 1 /\ j \in T \ {i})
    <2>1. CASE k <= i
      <3>1. F(j) = E(j) /\ B(k) = A(k) /\ j # i /\ j \in 1 .. n /\ k \in 1 .. n
        BY <1>0, <1>8, <1>10, <2>1
      <3> QED
        BY <1>1, <1>10, <3>1
    <2>2. CASE j < i /\ k > i
      <3>1. F(j) = E(j) /\ B(k) = A(k + 1) /\ j \in 1 .. n /\ k + 1 \in 1 .. n /\ k + 1 # j + 1 /\ j < k + 1
        BY <1>0, <1>8, <1>10, <2>2
      <3> QED
        BY <1>1, <3>1
    <2>3. CASE j >= i
      <3>1. F(j) = E(j + 1) /\ B(k) = A(k + 1) /\ j + 1 \in 1 .. n /\ k + 1 \in 1 .. n
            /\ j + 1 < k + 1 /\ ~(j + 1 <= i)
        BY <1>0, <1>8, <1>10, <2>3
      <3>2. j + 1 \notin T
        BY <3>1
      <3> QED
        BY <1>1, <3>1, <3>2
    <2> QED
      BY <1>0, <2>1, <2>2, <2>3
  <1>11. ASSUME NEW b \in Int
         PROVE  (\E j \in 1 .. n - 1 : B(j) <= b /\ b < F(j)) <=>
                (\E k \in 1 .. n : A(k) <= b /\ b < E(k))
    <2>1. ASSUME NEW j \in 1 .. n - 1, B(j) <= b, b < F(j)
          PROVE  \E k \in 1 .. n : A(k) <= b /\ b < E(k)
      <3>1. CASE j < i
        <4>1. j \in 1 .. n /\ A(j) <= b /\ b < E(j)
          BY <1>0, <1>8, <2>1, <3>1
        <4> QED
          BY <4>1
      <3>2. CASE j = i
        <4>1. A(i) <= b /\ b < E(i + 1)
          BY <1>8, <2>1, <3>2
        <4>2. b < E(i) \/ A(i + 1) <= b
          BY <1>0
        <4> QED
          BY <1>0, <4>1, <4>2
      <3>3. CASE j > i
        <4>1. j + 1 \in 1 .. n /\ A(j + 1) <= b /\ b < E(j + 1)
          BY <1>0, <1>8, <2>1, <3>3
        <4> QED
          BY <4>1
      <3> QED
        BY <1>0, <3>1, <3>2, <3>3
    <2>2. ASSUME NEW k \in 1 .. n, A(k) <= b, b < E(k)
          PROVE  \E j \in 1 .. n - 1 : B(j) <= b /\ b < F(j)
      <3>1. CASE k < i
        <4>1. k \in 1 .. n - 1 /\ B(k) <= b /\ b < F(k)
          BY <1>0, <1>8, <2>2, <3>1
        <4> QED
          BY <4>1
      <3>2. CASE k = i \/ k = i + 1
        <4>1. E(i) < E(i + 1) /\ A(i) < A(i + 1)
          BY <1>0, <1>1
        <4>2. A(i) <= b /\ b < E(i + 1)
          BY <1>0, <2>2, <3>2, <4>1
        <4> QED
          BY <1>0, <1>8, <4>2
      <3>3. CASE k > i + 1
        <4>1. k - 1 \in 1 .. n - 1 /\ k - 1 > i /\ (k - 1) + 1 = k
          BY <1>0, <3>3
        <4>2. B(k - 1) = A(k) /\ F(k - 1) = E(k)
          BY <1>8, <4>1
        <4> QED
          BY <2>2, <4>1, <4>2
      <3> QED
        BY <1>0, <3>1, <3>2, <3>3
    <2> QED
      BY <2>1, <2>2
  <1>12. Ordered(g, T \ {i}, cap)
    <2>1. \A j \in 1 .. Len(g) : g[j].at \in Nat /\ g[j].len \in Nat
      BY <1>6, HoleOf
    <2> QED
      BY <1>6, <1>9, <1>10, <2>1 DEF Ordered, B, F, End
  <1>13. \A b \in Int : Covers(g, b) <=> Covers(f, b)
    BY <1>6, <1>11 DEF Covers, A, B, E, F, n
  <1> QED
    BY <1>6, <1>12, <1>13 DEF g, n

LEMMA NotTouching ==
  ASSUME NEW cap \in Nat, NEW f \in Seq(Hole), NEW T \in SUBSET Int, Ordered(f, T, cap),
         NEW i \in Int, ~Touches(f, i)
  PROVE  Ordered(f, T \ {i}, cap)
  BY DEF Ordered, Touches

\* One neighbour looked at: whatever it is, the list may no longer touch at i.
MergedAt(f, i) == IF Touches(f, i) THEN Swallow(f, i) ELSE f

LEMMA MergedAtKeeps ==
  ASSUME NEW cap \in Nat, NEW f \in Seq(Hole), NEW T \in SUBSET Int, Ordered(f, T, cap),
         NEW i \in Int, \A j \in T : j <= i
  PROVE  /\ MergedAt(f, i) \in Seq(Hole)
         /\ Len(MergedAt(f, i)) <= Len(f)
         /\ Ordered(MergedAt(f, i), T \ {i}, cap)
         /\ \A b \in Int : Covers(MergedAt(f, i), b) <=> Covers(f, b)
  <1>0. Len(f) \in Nat
    OBVIOUS
  <1>1. CASE Touches(f, i)
    <2>1. MergedAt(f, i) = Swallow(f, i)
      BY <1>1 DEF MergedAt
    <2>2. /\ Swallow(f, i) \in Seq(Hole)
          /\ Len(Swallow(f, i)) = Len(f) - 1
          /\ Ordered(Swallow(f, i), T \ {i}, cap)
          /\ \A b \in Int : Covers(Swallow(f, i), b) <=> Covers(f, b)
      BY <1>1, SwallowKeeps
    <2>3. Len(Swallow(f, i)) <= Len(f)
      BY <1>0, <2>2
    <2> QED
      BY <2>1, <2>2, <2>3, Zenon
  <1>2. CASE ~Touches(f, i)
    <2>1. MergedAt(f, i) = f
      BY <1>2 DEF MergedAt
    <2>2. Ordered(f, T \ {i}, cap)
      BY <1>2, NotTouching
    <2> QED
      BY <1>0, <2>1, <2>2
  <1> QED
    BY <1>1, <1>2

\* Merging at i leaves no two holes touching.
LEMMA MergeKeeps ==
  ASSUME NEW cap \in Nat, NEW f \in Seq(Hole), NEW i \in Int, Ordered(f, {i - 1, i}, cap)
  PROVE  /\ Merge(f, i) \in Seq(Hole)
         /\ Len(Merge(f, i)) <= Len(f)
         /\ WellFormed(Merge(f, i), cap)
         /\ \A b \in Int : Covers(Merge(f, i), b) <=> Covers(f, b)
  <1> DEFINE k == i - 1
             both == {k, i}
             one == {k}
             next == MergedAt(f, i)
             done == MergedAt(next, k)
  <1>0. /\ k \in Int /\ Len(f) \in Nat
        /\ both \in SUBSET Int /\ one \in SUBSET Int
        /\ both \ {i} = one /\ one \ {k} = {}
        /\ \A j \in both : j <= i
        /\ \A j \in one : j <= k
        /\ Ordered(f, both, cap)
    OBVIOUS
  <1>1. Merge(f, i) = done
    BY DEF Merge, MergedAt
  <1> HIDE DEF k, both, one, next, done
  <1>2. /\ next \in Seq(Hole) /\ Len(next) <= Len(f)
        /\ Ordered(next, both \ {i}, cap)
        /\ \A b \in Int : Covers(next, b) <=> Covers(f, b)
    BY <1>0, MergedAtKeeps DEF next
  <1>3. Ordered(next, one, cap)
    BY <1>0, <1>2
  <1>4. /\ done \in Seq(Hole) /\ Len(done) <= Len(next)
        /\ Ordered(done, one \ {k}, cap)
        /\ \A b \in Int : Covers(done, b) <=> Covers(next, b)
    BY <1>0, <1>2, <1>3, MergedAtKeeps DEF done
  <1>5. Ordered(done, {}, cap)
    BY <1>0, <1>4
  <1>6. WellFormed(done, cap)
    BY <1>4, <1>5, OrderedIsWellFormed
  <1>7. Len(done) <= Len(f)
    <2>1. Len(done) \in Nat /\ Len(next) \in Nat
      BY <1>2, <1>4
    <2> QED
      BY <1>0, <1>2, <1>4, <2>1
  <1>8. \A b \in Int : Covers(done, b) <=> Covers(f, b)
    BY <1>2, <1>4
  <1> QED
    BY <1>1, <1>4, <1>6, <1>7, <1>8

\* A run of bytes that are not free, put in at its place: the list is sorted,
\* and only the new hole may touch a neighbour.
LEMMA InsertKeeps ==
  ASSUME NEW cap \in Nat, NEW f \in Seq(Hole), WellFormed(f, cap),
         NEW at \in Nat, NEW len \in Nat \ {0}, at + len <= cap,
         \A b \in Int : at <= b /\ b < at + len => ~Covers(f, b)
  PROVE  LET i == Position(f, at)
             g == InsertAt(f, i, [at |-> at, len |-> len])
         IN  /\ g \in Seq(Hole)
             /\ Len(g) = Len(f) + 1
             /\ Ordered(g, {i - 1, i}, cap)
             /\ \A b \in Int : Covers(g, b) <=> Covers(f, b) \/ (at <= b /\ b < at + len)
  <1> DEFINE i == Position(f, at)
             h == [at |-> at, len |-> len]
             g == InsertAt(f, i, h)
             n == Len(f)
             Z == at + len
             A(j) == f[j].at
             E(j) == End(f[j])
             B(j) == g[j].at
             F(j) == End(g[j])
  <1>0. n \in Nat /\ \A j \in 1 .. n : A(j) \in Nat /\ E(j) \in Nat
    BY HoleOf
  <1>1. /\ \A j \in 1 .. n : A(j) < E(j) /\ E(j) <= cap
        /\ \A j, k \in 1 .. n : j < k => E(j) < A(k)
    <2>1. \A j \in 1 .. n : f[j].len \in Nat /\ f[j].at \in Nat
      BY HoleOf
    <2> QED
      BY <2>1 DEF WellFormed, End
  <1>2. /\ i \in 1 .. n + 1
        /\ \A j \in 1 .. i - 1 : A(j) <= at
        /\ i <= n => A(i) > at
    BY PositionValue
  <1>3. \A b \in Int : at <= b /\ b < Z => ~\E j \in 1 .. n : A(j) <= b /\ b < E(j)
    BY DEF Covers
  <1>4. h \in Hole /\ h.at = at /\ End(h) = Z
    BY NewHole
  <1> HIDE DEF h, i
  <1>5. /\ g \in Seq(Hole) /\ Len(g) = n + 1
        /\ \A j \in 1 .. n + 1 : g[j] = IF j < i THEN f[j] ELSE IF j = i THEN h ELSE f[j - 1]
    BY <1>2, <1>4, InsertAtValue
  <1> HIDE DEF g
  <1>6. /\ B(i) = at /\ F(i) = Z
        /\ \A j \in 1 .. n + 1 : j < i => B(j) = A(j) /\ F(j) = E(j)
        /\ \A j \in 1 .. n + 1 : j > i => B(j) = A(j - 1) /\ F(j) = E(j - 1)
    BY <1>0, <1>2, <1>4, <1>5
  <1>z. Z \in Nat /\ at < Z /\ Z <= cap
    OBVIOUS
  <1> HIDE DEF A, E, B, F, n, Z
  \* Everything before i ends at or before the new hole; everything from i on
  \* begins at or after its end.
  <1>7. ASSUME NEW j \in 1 .. n, j < i
        PROVE  E(j) <= at
    <2>1. A(j) <= at
      BY <1>0, <1>2, <1>7
    <2> QED
      BY <1>0, <1>3, <1>z, <2>1
  <1>8. ASSUME NEW j \in 1 .. n, j >= i
        PROVE  Z <= A(j)
    <2>1. i \in 1 .. n /\ A(i) > at /\ A(i) < E(i)
      BY <1>0, <1>1, <1>2, <1>8
    <2>2. ~(A(i) < Z)
      BY <1>0, <1>3, <2>1
    <2>3. j = i \/ E(i) < A(j)
      BY <1>1, <1>8, <2>1
    <2> QED
      BY <1>0, <1>z, <2>1, <2>2, <2>3
  <1>9. ASSUME NEW j \in 1 .. n + 1
        PROVE  B(j) < F(j) /\ F(j) <= cap
    <2>1. CASE j < i
      BY <1>0, <1>1, <1>2, <1>6, <2>1
    <2>2. CASE j = i
      BY <1>6, <1>z, <2>2
    <2>3. CASE j > i
      <3>1. j - 1 \in 1 .. n
        BY <1>0, <1>2, <2>3
      <3> QED
        BY <1>1, <1>6, <2>3, <3>1
    <2> QED
      BY <1>2, <2>1, <2>2, <2>3
  <1>10. ASSUME NEW j \in 1 .. n + 1, NEW k \in 1 .. n + 1, j < k
         PROVE  F(j) < B(k) \/ (F(j) = B(k) /\ k = j + 1 /\ j \in {i - 1, i})
    <2>1. CASE k < i
      <3>1. F(j) = E(j) /\ B(k) = A(k) /\ j \in 1 .. n /\ k \in 1 .. n
        BY <1>0, <1>2, <1>6, <1>10, <2>1
      <3> QED
        BY <1>1, <1>10, <3>1
    <2>2. CASE k = i /\ j = i - 1
      <3>1. F(j) = E(j) /\ B(k) = at /\ j \in 1 .. n /\ j < i
        BY <1>0, <1>2, <1>6, <1>10, <2>2
      <3>2. E(j) <= at
        BY <1>7, <3>1
      <3> QED
        BY <1>0, <1>2, <2>2, <3>1, <3>2
    <2>3. CASE k = i /\ j < i - 1
      <3>1. F(j) = E(j) /\ B(k) = at /\ j \in 1 .. n /\ i - 1 \in 1 .. n /\ i - 1 < i /\ j < i - 1
        BY <1>0, <1>2, <1>6, <1>10, <2>3
      <3>2. E(i - 1) <= at
        BY <1>7, <3>1
      <3>3. E(j) < A(i - 1) /\ A(i - 1) < E(i - 1)
        BY <1>1, <3>1
      <3> QED
        BY <1>0, <3>1, <3>2, <3>3
    <2>4. CASE j < i /\ k > i
      <3>1. F(j) = E(j) /\ B(k) = A(k - 1) /\ j \in 1 .. n /\ k - 1 \in 1 .. n /\ j < k - 1
        BY <1>0, <1>2, <1>6, <1>10, <2>4
      <3> QED
        BY <1>1, <3>1
    <2>5. CASE j = i
      <3>1. F(j) = Z /\ B(k) = A(k - 1) /\ k - 1 \in 1 .. n /\ k - 1 >= i
        BY <1>0, <1>2, <1>6, <1>10, <2>5
      <3>2. CASE k = i + 1
        <4>1. Z <= A(k - 1)
          BY <1>8, <3>1
        <4> QED
          BY <1>0, <1>z, <1>2, <2>5, <3>1, <3>2, <4>1
      <3>3. CASE k # i + 1
        <4>1. i \in 1 .. n /\ i < k - 1
          BY <1>0, <1>2, <3>1, <3>3
        <4>2. Z <= A(i) /\ A(i) < E(i) /\ E(i) < A(k - 1)
          BY <1>1, <1>2, <1>8, <3>1, <4>1
        <4> QED
          BY <1>0, <1>z, <3>1, <4>1, <4>2
      <3> QED
        BY <3>2, <3>3
    <2>6. CASE j > i
      <3>1. F(j) = E(j - 1) /\ B(k) = A(k - 1) /\ j - 1 \in 1 .. n /\ k - 1 \in 1 .. n /\ j - 1 < k - 1
        BY <1>0, <1>2, <1>6, <1>10, <2>6
      <3> QED
        BY <1>1, <3>1
    <2> QED
      BY <1>2, <1>10, <2>1, <2>2, <2>3, <2>4, <2>5, <2>6
  <1>11. ASSUME NEW b \in Int
         PROVE  (\E j \in 1 .. n + 1 : B(j) <= b /\ b < F(j)) <=>
                (\E k \in 1 .. n : A(k) <= b /\ b < E(k)) \/ (at <= b /\ b < Z)
    <2>1. ASSUME NEW j \in 1 .. n + 1, B(j) <= b, b < F(j)
          PROVE  (\E k \in 1 .. n : A(k) <= b /\ b < E(k)) \/ (at <= b /\ b < Z)
      <3>1. CASE j < i
        <4>1. j \in 1 .. n /\ A(j) <= b /\ b < E(j)
          BY <1>0, <1>2, <1>6, <2>1, <3>1
        <4> QED
          BY <4>1
      <3>2. CASE j = i
        BY <1>6, <2>1, <3>2
      <3>3. CASE j > i
        <4>1. j - 1 \in 1 .. n /\ A(j - 1) <= b /\ b < E(j - 1)
          BY <1>0, <1>2, <1>6, <2>1, <3>3
        <4> QED
          BY <4>1
      <3> QED
        BY <1>2, <3>1, <3>2, <3>3
    <2>2. ASSUME NEW k \in 1 .. n, A(k) <= b, b < E(k)
          PROVE  \E j \in 1 .. n + 1 : B(j) <= b /\ b < F(j)
      <3>1. CASE k < i
        <4>1. k \in 1 .. n + 1 /\ B(k) <= b /\ b < F(k)
          BY <1>0, <1>6, <2>2, <3>1
        <4> QED
          BY <4>1
      <3>2. CASE k >= i
        <4>1. k + 1 \in 1 .. n + 1 /\ k + 1 > i /\ (k + 1) - 1 = k
          BY <1>0, <1>2, <3>2
        <4>2. B(k + 1) = A(k) /\ F(k + 1) = E(k)
          BY <1>6, <4>1
        <4> QED
          BY <2>2, <4>1, <4>2
      <3> QED
        BY <1>2, <3>1, <3>2
    <2>3. ASSUME at <= b, b < Z
          PROVE  \E j \in 1 .. n + 1 : B(j) <= b /\ b < F(j)
      BY <1>2, <1>6, <2>3
    <2> QED
      BY <2>1, <2>2, <2>3
  <1>12. Ordered(g, {i - 1, i}, cap)
    <2>1. \A j \in 1 .. Len(g) : g[j].at \in Nat /\ g[j].len \in Nat
      BY <1>5, HoleOf
    <2> QED
      BY <1>5, <1>9, <1>10, <2>1 DEF Ordered, B, F, End
  <1>13. \A b \in Int : Covers(g, b) <=> Covers(f, b) \/ (at <= b /\ b < at + len)
    BY <1>5, <1>11 DEF Covers, A, B, E, F, n, Z
  <1> QED
    BY <1>5, <1>12, <1>13 DEF g, h, i, n

\* What Arena::release does to the list: the run becomes free, the list stays
\* well formed, and it grows by at most one hole.
LEMMA GiveKeeps ==
  ASSUME NEW cap \in Nat, NEW f \in Seq(Hole), WellFormed(f, cap),
         NEW at \in Nat, NEW len \in Nat \ {0}, at + len <= cap,
         \A b \in Int : at <= b /\ b < at + len => ~Covers(f, b)
  PROVE  /\ Give(f, at, len) \in Seq(Hole)
         /\ Len(Give(f, at, len)) <= Len(f) + 1
         /\ WellFormed(Give(f, at, len), cap)
         /\ \A b \in Int : Covers(Give(f, at, len), b) <=>
                            Covers(f, b) \/ (at <= b /\ b < at + len)
  <1> DEFINE i == Position(f, at)
             g == InsertAt(f, i, [at |-> at, len |-> len])
  <1>1. /\ g \in Seq(Hole)
        /\ Len(g) = Len(f) + 1
        /\ Ordered(g, {i - 1, i}, cap)
        /\ \A b \in Int : Covers(g, b) <=> Covers(f, b) \/ (at <= b /\ b < at + len)
    BY InsertKeeps
  <1>2. i \in Int
    BY PositionValue
  <1>3. Give(f, at, len) = Merge(g, i)
    BY DEF Give
  <1> HIDE DEF g, i
  <1> QED
    BY <1>1, <1>2, <1>3, MergeKeeps

-----------------------------------------------------------------------------
(* Counting bytes: a region of cap bytes, and runs inside it. *)

Region(cap) == 0 .. cap - 1
Run(at, len) == at .. at + len - 1

LEMMA RunCount ==
  ASSUME NEW at \in Nat, NEW len \in Nat \ {0}
  PROVE  IsFiniteSet(Run(at, len)) /\ Cardinality(Run(at, len)) = len
  <1>1. at \in Int /\ at + len - 1 \in Int
    OBVIOUS
  <1>2. /\ IsFiniteSet(at .. at + len - 1)
        /\ Cardinality(at .. at + len - 1) =
             IF at > at + len - 1 THEN 0 ELSE (at + len - 1) - at + 1
    BY <1>1, FS_Interval
  <1> QED
    BY <1>2 DEF Run

LEMMA BytesFinite ==
  ASSUME NEW cap \in Nat, NEW S \in SUBSET Region(cap)
  PROVE  IsFiniteSet(S) /\ Cardinality(S) \in 0 .. cap
  <1>1. /\ IsFiniteSet(0 .. cap - 1)
        /\ Cardinality(0 .. cap - 1) = IF 0 > cap - 1 THEN 0 ELSE (cap - 1) - 0 + 1
    <2>1. 0 \in Int /\ cap - 1 \in Int
      OBVIOUS
    <2> QED
      BY <2>1, FS_Interval
  <1>2. IsFiniteSet(S) /\ Cardinality(S) <= Cardinality(0 .. cap - 1)
    BY <1>1, FS_Subset DEF Region
  <1>3. Cardinality(S) \in Nat
    BY <1>2, FS_CardinalityType
  <1> QED
    BY <1>1, <1>2, <1>3

LEMMA TakenCount ==
  ASSUME NEW cap \in Nat, NEW S \in SUBSET Region(cap), NEW at \in Nat, NEW len \in Nat \ {0},
         S \cap Run(at, len) = {}
  PROVE  Cardinality(S \cup Run(at, len)) = Cardinality(S) + len
  <1>1. IsFiniteSet(S) /\ Cardinality(S) \in Nat
    BY BytesFinite
  <1>2. IsFiniteSet(Run(at, len)) /\ Cardinality(Run(at, len)) = len
    BY RunCount
  <1>3. Cardinality(S \cup Run(at, len)) =
          Cardinality(S) + Cardinality(Run(at, len)) - Cardinality(S \cap Run(at, len))
    BY <1>1, <1>2, FS_Union
  <1>4. Cardinality(S \cap Run(at, len)) = 0
    BY FS_EmptySet, Zenon
  <1> QED
    BY <1>1, <1>2, <1>3, <1>4

LEMMA GivenCount ==
  ASSUME NEW cap \in Nat, NEW S \in SUBSET Region(cap), NEW at \in Nat, NEW len \in Nat \ {0},
         Run(at, len) \subseteq S
  PROVE  Cardinality(S \ Run(at, len)) = Cardinality(S) - len
  <1>1. IsFiniteSet(S)
    BY BytesFinite
  <1>2. Cardinality(Run(at, len)) = len
    BY RunCount
  <1>3. S \cap Run(at, len) = Run(at, len)
    OBVIOUS
  <1> QED
    BY <1>1, <1>2, <1>3, FS_Difference

\* Two runs with no byte in common lie apart.
LEMMA ApartFromBytes ==
  ASSUME NEW a \in Nat, NEW m \in Nat \ {0}, NEW c \in Nat, NEW k \in Nat \ {0},
         \A b \in Nat : ~(a <= b /\ b < a + m /\ c <= b /\ b < c + k)
  PROVE  a + m <= c \/ c + k <= a
  OBVIOUS

\* The bytes of the region that are in no hole.
NotFree(f, cap) == {b \in Region(cap) : ~Covers(f, b)}

\* Taking want bytes makes want more bytes not free.
LEMMA TakeCounts ==
  ASSUME NEW cap \in Nat, NEW f \in Seq(Hole), WellFormed(f, cap), NEW i \in 1 .. Len(f),
         NEW want \in Nat \ {0}, f[i].len >= want
  PROVE  Cardinality(NotFree(Take(f, i, want), cap)) = Cardinality(NotFree(f, cap)) + want
  <1> DEFINE at == f[i].at
             g == Take(f, i, want)
  <1>1. at \in Nat /\ f[i].len \in Nat /\ at + f[i].len <= cap
    BY HoleOf DEF WellFormed, End
  <1>2. \A b \in Int : Covers(g, b) <=> Covers(f, b) /\ ~(at <= b /\ b < at + want)
    BY TakeKeeps
  <1>3. \A b \in Int : at <= b /\ b < at + want => Covers(f, b)
    BY <1>1 DEF Covers, End
  <1> HIDE DEF g, at
  <1>4. NotFree(g, cap) = NotFree(f, cap) \cup Run(at, want)
    BY <1>1, <1>2 DEF NotFree, Run, Region, at
  <1>5. NotFree(f, cap) \cap Run(at, want) = {}
    BY <1>1, <1>3 DEF NotFree, Run, Region
  <1>6. NotFree(f, cap) \in SUBSET Region(cap)
    BY DEF NotFree
  <1> QED
    BY <1>1, <1>4, <1>5, <1>6, TakenCount DEF g

\* Giving len bytes back makes len fewer bytes not free.
LEMMA GiveCounts ==
  ASSUME NEW cap \in Nat, NEW f \in Seq(Hole), WellFormed(f, cap),
         NEW at \in Nat, NEW len \in Nat \ {0}, at + len <= cap,
         \A b \in Int : at <= b /\ b < at + len => ~Covers(f, b)
  PROVE  Cardinality(NotFree(Give(f, at, len), cap)) = Cardinality(NotFree(f, cap)) - len
  <1> DEFINE g == Give(f, at, len)
  <1>1. \A b \in Int : Covers(g, b) <=> Covers(f, b) \/ (at <= b /\ b < at + len)
    BY GiveKeeps
  <1> HIDE DEF g
  <1>2. NotFree(g, cap) = NotFree(f, cap) \ Run(at, len)
    BY <1>1 DEF NotFree, Run, Region
  <1>3. Run(at, len) \subseteq NotFree(f, cap)
    BY DEF NotFree, Run, Region
  <1>4. NotFree(f, cap) \in SUBSET Region(cap)
    BY DEF NotFree
  <1> QED
    BY <1>2, <1>3, <1>4, GivenCount DEF g
=============================================================================
