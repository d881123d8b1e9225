------------------------------ MODULE LabProofs ------------------------------
(***************************************************************************)
(* For every arena, model, order, policy and budget: a replay into a fresh *)
(* manager does, access by access, what the simulator predicts; what the   *)
(* table says of an object's next use is its next use in the declared      *)
(* order; ticks are unique; and the trace derived from the event ring is   *)
(* the end of the replay's order, or all of it.                            *)
(***************************************************************************)
EXTENDS Lab, ManagerProofs

-----------------------------------------------------------------------------
(* The chain of a declared order. *)

NoLink == [into |-> <<>>, seen |-> <<>>]
IsLinks(o, n, f) == f = [i \in 0 .. n |-> IF i = 0 THEN NoLink ELSE Link(o, f[i - 1], Len(o) - i)]
HasLinks(o, n) == \E f : IsLinks(o, n, f)

LEMMA HasLinksNext ==
  ASSUME NEW o, NEW n \in Nat, HasLinks(o, n)
  PROVE  HasLinks(o, n + 1)
  <1>1. PICK f : IsLinks(o, n, f)
    BY DEF HasLinks
  <1> DEFINE g == [i \in 0 .. n + 1 |-> IF i <= n THEN f[i] ELSE Link(o, f[n], Len(o) - (n + 1))]
             h == [i \in 0 .. n + 1 |-> IF i = 0 THEN NoLink ELSE Link(o, g[i - 1], Len(o) - i)]
  <1>2. ASSUME NEW i \in 0 .. n + 1
        PROVE  g[i] = h[i]
    <2>1. CASE i = 0
      BY <1>1, <2>1 DEF IsLinks
    <2>2. CASE i \in 1 .. n
      <3>0. i \in 0 .. n /\ i # 0
        BY <2>2
      <3>1. f[i] = Link(o, f[i - 1], Len(o) - i)
        BY <1>1, <3>0, Zenon DEF IsLinks
      <3>2. g[i] = f[i] /\ g[i - 1] = f[i - 1]
        BY <2>2
      <3> QED
        BY <2>2, <3>1, <3>2
    <2>3. CASE i = n + 1
      <3>1. g[i - 1] = f[n] /\ g[i] = Link(o, f[n], Len(o) - i)
        BY <2>3
      <3> QED
        BY <2>3, <3>1
    <2> QED
      BY <2>1, <2>2, <2>3
  <1>3. g = h
    BY <1>2
  <1> QED
    BY <1>3, Zenon DEF IsLinks, HasLinks

LEMMA HasLinksAll ==
  ASSUME NEW o, NEW n \in Nat
  PROVE  HasLinks(o, n)
  <1> DEFINE bad == {k \in Nat : ~HasLinks(o, k)}
  <1>1. HasLinks(o, 0)
    <2> DEFINE f == [i \in 0 .. 0 |-> NoLink]
    <2>1. f = [i \in 0 .. 0 |-> IF i = 0 THEN NoLink ELSE Link(o, f[i - 1], Len(o) - i)]
      OBVIOUS
    <2> QED
      BY <2>1, Zenon DEF IsLinks, HasLinks
  <1>2. CASE bad # {}
    <2>1. PICK k \in bad : \A j \in bad : k <= j
      <3>1. bad \in SUBSET Nat
        OBVIOUS
      <3> QED
        BY <1>2, <3>1, LeastMember, Zenon
    <2>2. k # 0 /\ k - 1 \in Nat /\ k - 1 \notin bad
      BY <1>1, <2>1
    <2>3. HasLinks(o, k - 1)
      BY <2>2
    <2>4. HasLinks(o, k - 1 + 1)
      BY <2>2, <2>3, HasLinksNext
    <2> QED
      BY <2>1, <2>2, <2>4
  <1> QED
    BY <1>2

LEMMA LinksUnfold ==
  ASSUME NEW o, Len(o) \in Nat
  PROVE  /\ Links(o)[0] = NoLink
         /\ \A i \in 1 .. Len(o) : Links(o)[i] = Link(o, Links(o)[i - 1], Len(o) - i)
  <1>1. Links(o) = CHOOSE f : IsLinks(o, Len(o), f)
    BY Zenon DEF Links, IsLinks, NoLink
  <1>2. IsLinks(o, Len(o), Links(o))
    BY <1>1, HasLinksAll, Zenon DEF HasLinks
  <1> QED
    BY <1>2 DEF IsLinks

\* Where the object at position t of an order is named again, counted from 0.
Again(o, t) == {u \in t + 1 .. Len(o) : o[u] = o[t]}
NextAt(o, t) == IF Again(o, t) = {} THEN NEVER ELSE Min(Again(o, t)) - 1

\* The last i accesses are met: their chain is known, and of every object
\* among them its first position there.
Tail_(o, i) == Len(o) - i + 1 .. Len(o)
LinkedInto(o, i, into) ==
  /\ into \in Seq(Int) /\ Len(into) = i
  /\ \A j \in 1 .. i : into[j] = NextAt(o, Len(o) - i + j)
LinkedSeen(o, i, seen, any) ==
  /\ seen \in Seq(any \X Int)
  /\ \A k, l \in 1 .. Len(seen) : seen[k][1] = seen[l][1] => k = l
  /\ \A k \in 1 .. Len(seen) :
       /\ seen[k][2] + 1 \in Tail_(o, i) /\ o[seen[k][2] + 1] = seen[k][1]
       /\ \A u \in Tail_(o, i) : o[u] = seen[k][1] => seen[k][2] + 1 <= u
  /\ \A u \in Tail_(o, i) : \E k \in 1 .. Len(seen) : seen[k][1] = o[u]
Linked(o, i, m, any) ==
  \E into, seen : /\ m = [into |-> into, seen |-> seen]
                  /\ LinkedInto(o, i, into) /\ LinkedSeen(o, i, seen, any)

\* The place of an object among those seen.
SeenAt(seen, object) == SelectInSeq(seen, LAMBDA held : held[1] = object)

LEMMA SeenAtValue ==
  ASSUME NEW any, NEW seen \in Seq(any \X Int), NEW object
  PROVE  \/ SeenAt(seen, object) = 0 /\ \A k \in 1 .. Len(seen) : seen[k][1] # object
         \/ SeenAt(seen, object) \in 1 .. Len(seen) /\ seen[SeenAt(seen, object)][1] = object
  <1> DEFINE I == {k \in 1 .. Len(seen) : seen[k][1] = object}
  <1>1. SeenAt(seen, object) = IF I # {} THEN Min(I) ELSE 0
    BY DEF SeenAt, SelectInSeq
  <1>2. CASE I = {}
    BY <1>1, <1>2, Zenon
  <1>3. CASE I # {}
    <2>1. I \in SUBSET Nat
      OBVIOUS
    <2>2. Min(I) \in I
      <3> HIDE DEF I
      <3> QED
        BY <1>3, <2>1, LeastMember
    <2> QED
      BY <1>1, <1>3, <2>2
  <1> QED
    BY <1>2, <1>3

\* What is met at position t, counted from 1, is where its object is next.
LEMMA NextIsSeen ==
  ASSUME NEW any, NEW o \in Seq(any), NEW i \in Nat, i < Len(o), NEW seen, LinkedSeen(o, i, seen, any)
  PROVE  LET t == Len(o) - i
             k == SeenAt(seen, o[t])
         IN  NextAt(o, t) = (IF k = 0 THEN NEVER ELSE seen[k][2]) /\ NextAt(o, t) \in Int
  <1> DEFINE t == Len(o) - i
             k == SeenAt(seen, o[t])
             A == Again(o, t)
  <1>1. t \in 1 .. Len(o) /\ Tail_(o, i) = t + 1 .. Len(o)
    BY DEF Tail_
  <1>2. seen \in Seq(any \X Int)
    BY DEF LinkedSeen
  <1>3. A \in SUBSET Nat /\ \A u : u \in A <=> u \in Tail_(o, i) /\ o[u] = o[t]
    BY <1>1 DEF Again
  <1>4. \/ k = 0 /\ \A l \in 1 .. Len(seen) : seen[l][1] # o[t]
        \/ k \in 1 .. Len(seen) /\ seen[k][1] = o[t]
    BY <1>2, SeenAtValue, Zenon
  <1> HIDE DEF k, A
  <1>5. CASE k = 0 /\ \A l \in 1 .. Len(seen) : seen[l][1] # o[t]
    <2>1. A = {}
      <3>1. \A u \in Tail_(o, i) : o[u] # o[t]
        BY <1>5 DEF LinkedSeen
      <3> QED
        BY <1>3, <3>1
    <2> QED
      BY <1>5, <2>1 DEF NextAt, A, k, NEVER
  <1>6. CASE k \in 1 .. Len(seen) /\ seen[k][1] = o[t]
    <2> DEFINE p == seen[k][2]
    <2>1. p \in Int
      BY <1>2, <1>6, ElementOfSeq
    <2>2. p + 1 \in A /\ \A u \in A : p + 1 <= u
      BY <1>3, <1>6 DEF LinkedSeen
    <2>3. Min(A) \in A /\ \A u \in A : Min(A) <= u
      BY <1>3, <2>2, LeastMember
    <2> HIDE DEF p
    <2>4. Min(A) = p + 1
      <3>1. Min(A) <= p + 1 /\ p + 1 <= Min(A) /\ Min(A) \in Nat
        BY <1>3, <2>2, <2>3, Zenon
      <3> QED
        BY <2>1, <3>1
    <2>5. A # {} /\ NextAt(o, t) = Min(A) - 1
      BY <2>2 DEF NextAt, A
    <2>6. NextAt(o, t) = p
      BY <2>1, <2>4, <2>5
    <2> QED
      BY <1>6, <2>1, <2>6 DEF p, k
  <1> QED
    BY <1>4, <1>5, <1>6

\* The access met is the first of its object among those met so far.
LEMMA LinkKeeps ==
  ASSUME NEW any, NEW o \in Seq(any), NEW i \in Nat, i < Len(o), NEW m, Linked(o, i, m, any)
  PROVE  Linked(o, i + 1, Link(o, m, Len(o) - (i + 1)), any)
  <1>1. PICK into, seen : /\ m = [into |-> into, seen |-> seen]
                          /\ LinkedInto(o, i, into) /\ LinkedSeen(o, i, seen, any)
    BY DEF Linked
  <1>2. PICK t \in 1 .. Len(o) : t = Len(o) - i
    OBVIOUS
  <1>3. PICK object \in any : object = o[t]
    BY ElementOfSeq
  <1>4. PICK k : k = SeenAt(seen, object)
    OBVIOUS
  <1> DEFINE first == IF k = 0 THEN NEVER ELSE seen[k][2]
             into2 == <<first>> \o into
             seen2 == IF k = 0 THEN Append(seen, <<object, t - 1>>)
                      ELSE [seen EXCEPT ![k] = <<object, t - 1>>]
  <1>5. Link(o, m, Len(o) - (i + 1)) = [into |-> into2, seen |-> seen2]
    <2>1. Len(o) - (i + 1) = t - 1 /\ (t - 1) + 1 = t
      BY <1>2
    <2>2. Link(o, m, t - 1) = [into |-> into2, seen |-> seen2]
      <3>1. PICK at : at = t - 1
        OBVIOUS
      <3>2. m.into = into /\ m.seen = seen
        BY <1>1
      <3>3. SelectInSeq(m.seen, LAMBDA held : held[1] = o[at + 1]) = SeenAt(m.seen, o[at + 1])
        BY DEF SeenAt
      <3>4. o[at + 1] = object
        BY <1>3, <2>1, <3>1
      <3>5. SelectInSeq(m.seen, LAMBDA held : held[1] = o[at + 1]) = k
        BY <1>4, <3>2, <3>3, <3>4
      <3>6. Link(o, m, at) = [into |-> into2, seen |-> seen2]
        BY <3>1, <3>2, <3>4, <3>5, Zenon DEF Link
      <3> QED
        BY <3>1, <3>6
    <2> QED
      BY <2>1, <2>2
  <1>6. first = NextAt(o, t) /\ first \in Int
    <2>1. LET t2 == Len(o) - i
              k2 == SeenAt(seen, o[t2])
          IN  NextAt(o, t2) = (IF k2 = 0 THEN NEVER ELSE seen[k2][2]) /\ NextAt(o, t2) \in Int
      BY <1>1, NextIsSeen
    <2> QED
      BY <1>2, <1>3, <1>4, <2>1
  <1>7. LinkedInto(o, i + 1, into2)
    <2>1. into \in Seq(Int) /\ Len(into) = i /\ \A j \in 1 .. i : into[j] = NextAt(o, Len(o) - i + j)
      BY <1>1 DEF LinkedInto
    <2>2. PICK a \in Int : a = first
      BY <1>6
    <2>3. /\ <<a>> \o into \in Seq(Int) /\ Len(<<a>> \o into) = i + 1
          /\ (<<a>> \o into)[1] = a
          /\ \A j \in 1 .. i : (<<a>> \o into)[j + 1] = into[j]
      BY <2>1
    <2>4. PICK f : f = into2
      BY Zenon
    <2>5. f \in Seq(Int) /\ Len(f) = i + 1 /\ f[1] = NextAt(o, t) /\ \A j \in 1 .. i : f[j + 1] = into[j]
      BY <1>6, <2>2, <2>3, <2>4
    <2>6. ASSUME NEW j \in 1 .. i + 1
          PROVE  f[j] = NextAt(o, Len(o) - (i + 1) + j)
      <3>1. CASE j = 1
        <4>1. Len(o) - (i + 1) + j = t
          BY <1>2, <3>1
        <4> QED
          BY <2>5, <3>1, <4>1
      <3>2. CASE j # 1
        <4>1. PICK l \in 1 .. i : j = l + 1
          BY <3>2
        <4>2. Len(o) - (i + 1) + j = Len(o) - i + l
          BY <4>1
        <4> QED
          BY <2>1, <2>5, <4>1, <4>2, Zenon
      <3> QED
        BY <3>1, <3>2
    <2> QED
      BY <2>4, <2>5, <2>6, Zenon DEF LinkedInto
  <1>8. LinkedSeen(o, i + 1, seen2, any)
    <2>1. /\ seen \in Seq(any \X Int)
          /\ \A l \in 1 .. Len(seen) : seen[l] \in any \X Int
      BY <1>1, ElementOfSeq DEF LinkedSeen
    <2>2. \A u : u \in Tail_(o, i + 1) <=> u = t \/ u \in Tail_(o, i)
      BY <1>2 DEF Tail_
    <2>3. \A u \in Tail_(o, i) : t <= u
      BY <1>2 DEF Tail_
    <2>4. PICK e \in any \X Int : e = <<object, t - 1>> /\ e[1] = object /\ e[2] + 1 = t
      <3>1. t - 1 \in Int /\ (t - 1) + 1 = t
        OBVIOUS
      <3>2. PICK e : e = <<object, t - 1>>
        BY Zenon
      <3>3. e \in any \X Int /\ e[1] = object /\ e[2] = t - 1
        BY <3>1, <3>2
      <3> QED
        BY <3>1, <3>2, <3>3
    <2>5. \/ k = 0 /\ \A l \in 1 .. Len(seen) : seen[l][1] # object
          \/ k \in 1 .. Len(seen) /\ seen[k][1] = object
      BY <1>4, <2>1, SeenAtValue, Zenon
    <2>6. PICK n \in Nat : n = Len(seen)
      BY <2>1
    <2>7. PICK f : f = seen2
      BY Zenon
    <2> HIDE DEF first, into2
    <2>8. CASE k = 0 /\ \A l \in 1 .. Len(seen) : seen[l][1] # object
      <3>1. f = Append(seen, e)
        BY <2>4, <2>7, <2>8
      <3>2. f \in Seq(any \X Int) /\ Len(f) = n + 1 /\ f[n + 1] = e /\ \A l \in 1 .. n : f[l] = seen[l]
        BY <2>1, <2>6, <3>1
      <3> HIDE DEF seen2
      <3>3. \A l, j \in 1 .. n + 1 : f[l][1] = f[j][1] => l = j
        <4>1. \A l \in 1 .. n : f[l][1] # object
          BY <2>6, <2>8, <3>2, Zenon
        <4>2. \A l, j \in 1 .. n : f[l][1] = f[j][1] => l = j
          BY <1>1, <2>6, <3>2 DEF LinkedSeen
        <4>3. f[n + 1][1] = object
          BY <2>4, <3>2
        <4>4. \A l \in 1 .. n : f[l][1] # object
          BY <3>2, <4>1
        <4>5. ASSUME NEW l \in 1 .. n + 1, NEW j \in 1 .. n + 1, f[l][1] = f[j][1]
              PROVE  l = j
          <5>1. CASE l \in 1 .. n /\ j \in 1 .. n
            BY <4>2, <4>5, <5>1
          <5>2. CASE l = n + 1 \/ j = n + 1
            <6>1. l \in 1 .. n \/ l = n + 1
              OBVIOUS
            <6>2. j \in 1 .. n \/ j = n + 1
              OBVIOUS
            <6> QED
              BY <4>3, <4>4, <4>5, <5>2, <6>1, <6>2
          <5> QED
            BY <5>1, <5>2
        <4> QED
          BY <4>5, Zenon
      <3>4. ASSUME NEW l \in 1 .. n + 1
            PROVE  /\ f[l][2] + 1 \in Tail_(o, i + 1) /\ o[f[l][2] + 1] = f[l][1]
                   /\ \A u \in Tail_(o, i + 1) : o[u] = f[l][1] => f[l][2] + 1 <= u
        <4>1. CASE l = n + 1
          <5>1. f[l][2] + 1 = t /\ f[l][1] = object
            BY <2>4, <3>2, <4>1
          <5>2. t \in Tail_(o, i + 1)
            BY <2>2
          <5>3. \A u \in Tail_(o, i + 1) : t <= u
            BY <1>2, <2>2, <2>3
          <5> QED
            BY <1>3, <5>1, <5>2, <5>3
        <4>2. CASE l \in 1 .. n
          <5>1. f[l] = seen[l] /\ f[l][1] # object
            BY <2>6, <2>8, <3>2, <4>2, Zenon
          <5>2. /\ seen[l][2] + 1 \in Tail_(o, i) /\ o[seen[l][2] + 1] = seen[l][1]
                /\ \A u \in Tail_(o, i) : o[u] = seen[l][1] => seen[l][2] + 1 <= u
            BY <1>1, <2>6, <4>2 DEF LinkedSeen
          <5> QED
            BY <1>3, <2>2, <5>1, <5>2
        <4> QED
          BY <4>1, <4>2
      <3>5. \A u \in Tail_(o, i + 1) : \E l \in 1 .. n + 1 : f[l][1] = o[u]
        <4>1. f[n + 1][1] = o[t]
          BY <1>3, <2>4, <3>2
        <4>2. ASSUME NEW u \in Tail_(o, i)
              PROVE  \E l \in 1 .. n + 1 : f[l][1] = o[u]
          <5>1. PICK l \in 1 .. n : seen[l][1] = o[u]
            BY <1>1, <2>6 DEF LinkedSeen
          <5> QED
            BY <3>2, <5>1
        <4> QED
          BY <2>2, <4>1, <4>2
      <3> QED
        <4>1. LinkedSeen(o, i + 1, f, any)
          BY <3>2, <3>3, <3>4, <3>5, Zenon DEF LinkedSeen
        <4> QED
          BY <2>7, <4>1
    <2>9. CASE k \in 1 .. Len(seen) /\ seen[k][1] = object
      <3>1. f = [seen EXCEPT ![k] = e]
        BY <2>4, <2>7, <2>9
      <3>2. /\ f \in Seq(any \X Int) /\ Len(f) = n /\ k \in 1 .. n /\ f[k] = e
            /\ \A l \in 1 .. n : l # k => f[l] = seen[l]
        BY <2>1, <2>6, <2>9, <3>1
      <3> HIDE DEF seen2
      <3>3. \A l \in 1 .. n : f[l][1] = seen[l][1]
        BY <2>4, <2>9, <3>2, Zenon
      <3>4. \A l, j \in 1 .. n : f[l][1] = f[j][1] => l = j
        BY <1>1, <2>6, <3>3 DEF LinkedSeen
      <3>5. ASSUME NEW l \in 1 .. n
            PROVE  /\ f[l][2] + 1 \in Tail_(o, i + 1) /\ o[f[l][2] + 1] = f[l][1]
                   /\ \A u \in Tail_(o, i + 1) : o[u] = f[l][1] => f[l][2] + 1 <= u
        <4>1. CASE l = k
          <5>1. f[l][2] + 1 = t /\ f[l][1] = object
            BY <2>4, <3>2, <4>1
          <5>2. t \in Tail_(o, i + 1)
            BY <2>2
          <5>3. \A u \in Tail_(o, i + 1) : t <= u
            BY <1>2, <2>2, <2>3
          <5> QED
            BY <1>3, <5>1, <5>2, <5>3
        <4>2. CASE l # k
          <5>1. f[l] = seen[l] /\ f[l][1] # object
            BY <1>1, <2>6, <2>9, <3>2, <4>2, Zenon DEF LinkedSeen
          <5>2. /\ seen[l][2] + 1 \in Tail_(o, i) /\ o[seen[l][2] + 1] = seen[l][1]
                /\ \A u \in Tail_(o, i) : o[u] = seen[l][1] => seen[l][2] + 1 <= u
            BY <1>1, <2>6, <4>2 DEF LinkedSeen
          <5> QED
            BY <1>3, <2>2, <5>1, <5>2
        <4> QED
          BY <4>1, <4>2
      <3>6. \A u \in Tail_(o, i + 1) : \E l \in 1 .. n : f[l][1] = o[u]
        <4>1. f[k][1] = o[t]
          BY <1>3, <2>4, <3>2
        <4>2. ASSUME NEW u \in Tail_(o, i)
              PROVE  \E l \in 1 .. n : f[l][1] = o[u]
          <5>1. PICK l \in 1 .. n : seen[l][1] = o[u]
            BY <1>1, <2>6 DEF LinkedSeen
          <5> QED
            BY <3>3, <5>1
        <4> QED
          BY <2>2, <3>2, <4>1, <4>2, Zenon
      <3> QED
        <4>1. LinkedSeen(o, i + 1, f, any)
          BY <3>2, <3>4, <3>5, <3>6, Zenon DEF LinkedSeen
        <4> QED
          BY <2>7, <4>1
    <2> QED
      BY <2>5, <2>8, <2>9
  <1> QED
    BY <1>5, <1>7, <1>8, Zenon DEF Linked

LEMMA AllLinked ==
  ASSUME NEW any, NEW o \in Seq(any), NEW n \in 0 .. Len(o)
  PROVE  Linked(o, n, Links(o)[n], any)
  <1> DEFINE bad == {k \in 0 .. Len(o) : ~Linked(o, k, Links(o)[k], any)}
  <1>1. Linked(o, 0, Links(o)[0], any)
    <2>1. Links(o)[0] = [into |-> <<>>, seen |-> <<>>]
      BY LinksUnfold DEF NoLink
    <2>2. LinkedInto(o, 0, <<>>)
      BY DEF LinkedInto
    <2>3. LinkedSeen(o, 0, <<>>, any)
      <3>1. Tail_(o, 0) = {}
        BY DEF Tail_
      <3> QED
        BY <3>1 DEF LinkedSeen
    <2> QED
      BY <2>1, <2>2, <2>3 DEF Linked
  <1>2. CASE bad # {}
    <2>1. PICK k \in bad : \A j \in bad : k <= j
      <3>1. bad \in SUBSET Nat
        OBVIOUS
      <3> QED
        BY <1>2, <3>1, LeastMember, Zenon
    <2>2. PICK l \in Nat : k = l + 1 /\ l < Len(o) /\ l \notin bad
      <3>1. k \in 0 .. Len(o) /\ k # 0
        BY <1>1, <2>1
      <3> QED
        BY <2>1, <3>1
    <2>3. Linked(o, l, Links(o)[l], any)
      BY <2>2
    <2>4. Links(o)[l + 1] = Link(o, Links(o)[l], Len(o) - (l + 1))
      <3>1. l + 1 \in 1 .. Len(o) /\ (l + 1) - 1 = l
        BY <2>2
      <3>2. \A j \in 1 .. Len(o) : Links(o)[j] = Link(o, Links(o)[j - 1], Len(o) - j)
        BY LinksUnfold
      <3>3. PICK j \in 1 .. Len(o) : j = l + 1 /\ j - 1 = l
        BY <3>1
      <3>4. Links(o)[j] = Link(o, Links(o)[j - 1], Len(o) - j)
        BY <3>2
      <3> QED
        BY <3>3, <3>4
    <2>5. Linked(o, l + 1, Links(o)[l + 1], any)
      BY <2>2, <2>3, <2>4, LinkKeeps
    <2> QED
      BY <2>1, <2>2, <2>5
  <1> QED
    BY <1>2

\* The chain says of every position where its object is next.
LEMMA ChainValue ==
  ASSUME NEW any, NEW o \in Seq(any)
  PROVE  /\ Chain(o) \in Seq(Int) /\ Len(Chain(o)) = Len(o)
         /\ \A t \in 1 .. Len(o) : Chain(o)[t] = NextAt(o, t)
  <1>1. PICK into, seen : /\ Links(o)[Len(o)] = [into |-> into, seen |-> seen]
                          /\ LinkedInto(o, Len(o), into)
    <2>1. Linked(o, Len(o), Links(o)[Len(o)], any)
      BY AllLinked
    <2> QED
      BY <2>1, Zenon DEF Linked
  <1>2. Chain(o) = into
    BY <1>1 DEF Chain
  <1>3. /\ into \in Seq(Int) /\ Len(into) = Len(o)
        /\ \A j \in 1 .. Len(o) : into[j] = NextAt(o, Len(o) - Len(o) + j)
    BY <1>1 DEF LinkedInto
  <1>4. \A j \in 1 .. Len(o) : Len(o) - Len(o) + j = j
    OBVIOUS
  <1> QED
    BY <1>2, <1>3, <1>4

-----------------------------------------------------------------------------
(* What the records of the lab can hold. *)

NextUses == {Never} \cup [when : {"at"}, tick : Int]
HintOf == [placed : Nat, used : Nat, next : NextUses]
LabMeta == [size : Nat, owner : 0 .. MaxId, precision : Precision, provider : Providers,
            home : Tier, tier : Tier, at : Nat, share : Nat]

Tables ==
  /\ table \in [Objects -> {NoMeta} \cup LabMeta]
  /\ \A id \in Objects : Entry(id) => table[id].size = Meta0(id).size
  /\ \A id \in Objects : Resident(id) => table[id].at >= Base
  /\ free \in Seq(Hole)
  /\ sessions \in [SessionIds -> Session]

\* A fault is on an entry that is not resident.
Faulting == job.phase \in {"room", "place"}
Jobs ==
  \/ job = Idle
  \/ /\ job \in [phase : {"room", "place"}, id : Objects, lease : LeaseKinds,
                 once : BOOLEAN, fits : BOOLEAN]
     /\ Entry(job.id) /\ ~Resident(job.id)
  \/ DestroyJob

OutOf == [hits : Nat, reads : Nat, bytes : Nat, evicted : Nat, refused : Nat]
CountsOf == [fetched : Nat, hits : Nat, evictions : Nat]
Numbers ==
  /\ limit \in Nat /\ clock \in Nat
  /\ hints \in [Objects -> HintOf]
  /\ counts \in CountsOf /\ out \in OutOf
  /\ policy \in PolicyNames
  /\ "read_fails" \notin env

\* The declared order with its chain, and how far along it a replay is.
Streams ==
  /\ stream \in [declared : Seq(Objects), next : Seq(Int), cursor : Nat]
  /\ Len(stream.next) = Len(stream.declared)

Replaying == verb.name = "replay"
Verbs ==
  \/ verb = Waiting /\ job.phase # "destroy"
  \/ verb \in [name : {"sweep"}, at : Nat \ {0}] /\ job.phase # "destroy"
  \/ /\ verb \in [name : {"replay"}, at : Nat \ {0}, fresh : BOOLEAN, before : Nat,
                  head : [ps : Nat, ks : Nat, ss : Nat]]
     /\ verb.at <= Len(stream.declared) + 2
     /\ verb.at <= Len(stream.declared) + 1 => stream.cursor = verb.at - 1
     /\ stream.next = Chain(stream.declared)
     /\ Faulting => verb.at <= Len(stream.declared) /\ job.id = Current /\ job.once
     /\ job.phase = "destroy" => verb.at = Len(stream.declared) + 2

LabTyped == Tables /\ Jobs /\ Numbers /\ Streams /\ Verbs

-----------------------------------------------------------------------------
(* Ticks. *)

\* No resident object was placed or used after now; while a fault is served,
\* now is the fault's own.
Latest == IF Faulting THEN clock - 1 ELSE clock
Ticked ==
  /\ Faulting => clock # 0
  /\ \A id \in ResidentSet : hints[id].placed <= Latest /\ hints[id].used <= Latest
Ticks == Ticked /\ TicksUnique

-----------------------------------------------------------------------------
(* A manager nothing was acquired from. *)

\* Sessions whose destruction is still to come.
Doomed == IF job.phase = "destroy" THEN {job.session} \cup job.rest ELSE {}

Quiet ==
  clock = 0 =>
    /\ \A id \in Objects : ~Resident(id)
    /\ \A id \in Objects : Entry(id) => table[id].share = 0
    /\ ~Faulting
    /\ counts.fetched = 0 /\ counts.hits = 0
    /\ ring = NoRing
    /\ limit # 0 => free = <<[at |-> 0, len |-> limit]>>
    /\ \A id \in Objects : Entry(id) =>
         \/ InModel(id)
         \/ Replaying /\ verb.at <= Len(stream.declared) /\ id = Current
    /\ IF Replaying THEN verb.at = Len(stream.declared) + 2 => LiveIn(sessions) \subseteq Doomed
       ELSE LiveIn(sessions) = {}

\* A replay the simulator stands for.
Steady ==
  Comparable =>
    /\ clock = IF Faulting THEN verb.at ELSE AccessesDone
    /\ \A id \in Objects : Entry(id) =>
         table[id].share = 0 /\ (InModel(id) \/ id \in ToSet(stream.declared))
    /\ verb.at <= Len(stream.declared) + 1 => LiveIn(sessions) = NamedIn(stream.declared)

-----------------------------------------------------------------------------
(* Next uses. *)

NextWant(id) == IF WantedFrom(id) = {} THEN Never ELSE At(Min(WantedFrom(id)))
Wants ==
  Comparable /\ verb.at <= Len(stream.declared) + 1 =>
    \A id \in ResidentSet : hints[id].next = NextWant(id)

-----------------------------------------------------------------------------
(* The trace the ring holds. *)

Traced ==
  Comparable =>
    \E lost \in 0 .. AccessesDone :
      /\ FromEvents = SubSeq(stream.declared, lost + 1, AccessesDone)
      /\ ring.dropped = 0 => lost = 0
-----------------------------------------------------------------------------
(* What the operators keep of the types. *)

\* What an object is registered as.
LEMMA Meta0Typed ==
  ASSUME NEW id \in Objects
  PROVE  /\ Meta0(id) \in LabMeta /\ Meta0(id) # NoMeta
         /\ Meta0(id).size \in Nat \ {0} /\ Meta0(id).at = 0 /\ Meta0(id).share = 0
         /\ Class[id] = "kv" => Meta0(id).owner \in SessionIds
  <1>1. Meta0(id) \in Templates[id]
    BY LabAssumption DEF Meta0
  <1>2. PICK m : m = Meta0(id)
    OBVIOUS
  <1>3. m \in Meta /\ m.size # 0 /\ m.at = 0 /\ m.share = 0
    BY <1>1, <1>2, TemplatesAssumption
  <1>4. m \in LabMeta
    <2>1. 0 .. ShareMax \subseteq Nat
      OBVIOUS
    <2> QED
      BY <1>3, <2>1 DEF Meta, LabMeta
  <1>5. Class[id] = "kv" => m.owner \in SessionIds
    BY <1>1, <1>2, LabAssumption
  <1>6. m.size \in Nat
    BY <1>3 DEF Meta
  <1>7. m # NoMeta
    BY <1>3, <1>6 DEF NoMeta, Meta
  <1> QED
    BY <1>2, <1>3, <1>4, <1>5, <1>6, <1>7

\* What an entry is, and how long its placement.
LEMMA EntryTyped ==
  ASSUME Tables, NEW id \in Objects, Entry(id)
  PROVE  /\ table[id] \in LabMeta /\ table[id].size = Meta0(id).size
         /\ table[id].size \in Nat \ {0} /\ RoundUp(table[id].size) \in Nat \ {0}
         /\ table[id].at \in Nat /\ table[id].share \in Nat /\ table[id].precision \in Precision
         /\ Resident(id) => table[id].at - Base \in Nat /\ table[id].at # 0
  <1>1. table[id] \in LabMeta /\ table[id].size = Meta0(id).size
    BY DEF Tables, Entry
  <1>2. table[id].size \in Nat \ {0}
    BY <1>1, Meta0Typed
  <1>3. RoundUp(table[id].size) \in Nat \ {0}
    BY <1>2, RoundUpValue
  <1>4. table[id].at \in Nat /\ table[id].share \in Nat /\ table[id].precision \in Precision
    BY <1>1 DEF LabMeta
  <1>5. Resident(id) => table[id].at >= Base /\ table[id].at # 0
    BY DEF Tables, Resident
  <1>6. Base \in Nat
    BY ManagerAssumption
  <1> QED
    BY <1>1, <1>2, <1>3, <1>4, <1>5, <1>6

\* A placement takes bytes from the front of a hole that is long enough.
LEMMA TakeTyped ==
  ASSUME NEW f \in Seq(Hole), NEW want \in Nat, FirstFit(f, want) # 0
  PROVE  /\ FirstFit(f, want) \in 1 .. Len(f) /\ f[FirstFit(f, want)].at \in Nat
         /\ Take(f, FirstFit(f, want), want) \in Seq(Hole)
  <1>1. PICK i : i = FirstFit(f, want)
    OBVIOUS
  <1>2. i \in 1 .. Len(f) /\ f[i].len >= want
    BY <1>1, FirstFitValue
  <1>3. f[i].at \in Nat /\ f[i].len \in Nat
    BY <1>2, HoleOf
  <1>4. RemoveAt(f, i) \in Seq(Hole)
    BY <1>2, RemoveAtValue
  <1>5. [at |-> f[i].at + want, len |-> f[i].len - want] \in Hole
    BY <1>2, <1>3, NewHole
  <1>6. Take(f, i, want) \in Seq(Hole)
    BY <1>2, <1>4, <1>5 DEF Take
  <1> QED
    BY <1>1, <1>2, <1>3, <1>6

LEMMA SwallowTyped ==
  ASSUME NEW f \in Seq(Hole), NEW i \in 1 .. Len(f), i + 1 <= Len(f)
  PROVE  Swallow(f, i) \in Seq(Hole)
  <1>0. PICK j \in 1 .. Len(f) : j = i + 1
    OBVIOUS
  <1>1. f[i].at \in Nat /\ f[i].len \in Nat /\ f[j].len \in Nat
    BY HoleOf
  <1>2. PICK h : h = [at |-> f[i].at, len |-> f[i].len + f[j].len] /\ h \in Hole
    <2>1. PICK sum \in Nat : sum = f[i].len + f[j].len
      BY <1>1
    <2> QED
      BY <1>1, <2>1, NewHole, Zenon
  <1>3. PICK g \in Seq(Hole) : g = [f EXCEPT ![i] = h] /\ Len(g) = Len(f)
    <2>1. [f EXCEPT ![i] = h] \in Seq(Hole) /\ Len([f EXCEPT ![i] = h]) = Len(f)
      <3>1. h \in Hole
        BY <1>2
      <3> HIDE <1>2
      <3> QED
        BY <3>1
    <2> QED
      BY <2>1, Zenon
  <1>4. RemoveAt(g, j) \in Seq(Hole)
    BY <1>3, RemoveAtValue, Zenon
  <1> QED
    BY <1>0, <1>2, <1>3, <1>4 DEF Swallow

LEMMA MergeTyped ==
  ASSUME NEW f \in Seq(Hole), NEW i \in 1 .. Len(f)
  PROVE  Merge(f, i) \in Seq(Hole)
  <1>1. PICK g : g = IF Touches(f, i) THEN Swallow(f, i) ELSE f
    OBVIOUS
  <1>2. g \in Seq(Hole)
    BY <1>1, SwallowTyped DEF Touches
  <1>3. Merge(f, i) = IF Touches(g, i - 1) THEN Swallow(g, i - 1) ELSE g
    BY <1>1 DEF Merge
  <1>4. Touches(g, i - 1) => i - 1 \in 1 .. Len(g) /\ (i - 1) + 1 <= Len(g)
    BY <1>2 DEF Touches
  <1> QED
    BY <1>2, <1>3, <1>4, SwallowTyped

\* What is given back becomes a hole, or part of one.
LEMMA GiveTyped ==
  ASSUME NEW f \in Seq(Hole), NEW at \in Nat, NEW len \in Nat
  PROVE  Give(f, at, len) \in Seq(Hole)
  <1>1. PICK i \in 1 .. Len(f) + 1 : i = Position(f, at)
    BY PositionValue
  <1>2. PICK h \in Hole : h = [at |-> at, len |-> len]
    BY NewHole, Zenon
  <1>3. PICK g : g = InsertAt(f, i, h)
    OBVIOUS
  <1>4. g \in Seq(Hole) /\ Len(g) = Len(f) + 1
    BY <1>3, InsertAtValue
  <1>5. Merge(g, i) \in Seq(Hole)
    BY <1>4, MergeTyped
  <1> QED
    BY <1>1, <1>2, <1>3, <1>5 DEF Give

LEMMA TickOfTyped ==
  ASSUME NEW position \in Int
  PROVE  TickOf(position) \in NextUses
  BY DEF TickOf, NextUses, At

LEMMA NextAfterTyped ==
  ASSUME Streams, NEW id
  PROVE  NextAfter(stream, id) \in NextUses
  <1> DEFINE at == stream.cursor
             rest == SubSeq(stream.declared, at + 2, Len(stream.declared))
             k == SelectInSeq(rest, LAMBDA held : held = id)
             I == {i \in 1 .. Len(rest) : rest[i] = id}
  <1>1. /\ stream.declared \in Seq(Objects) /\ stream.next \in Seq(Int) /\ at \in Nat
        /\ Len(stream.next) = Len(stream.declared)
    BY DEF Streams
  <1>2. rest \in Seq(Objects)
    BY <1>1, SubSeqProperties
  <1>3. k \in Nat
    <2>1. k = IF I # {} THEN Min(I) ELSE 0
      BY DEF SelectInSeq
    <2>2. I \in SUBSET Nat
      OBVIOUS
    <2>3. I # {} => Min(I) \in I
      <3> HIDE DEF I
      <3> QED
        BY <2>2, LeastMember
    <2> HIDE DEF k, I
    <2> QED
      BY <2>1, <2>2, <2>3, Zenon
  <1>4. NextAfter(stream, id) =
          IF at < Len(stream.declared) /\ stream.declared[at + 1] = id
          THEN TickOf(stream.next[at + 1])
          ELSE IF k = 0 THEN Never ELSE TickOf(at + k)
    BY DEF NextAfter
  <1> HIDE DEF k, rest
  <1>5. at < Len(stream.declared) => stream.next[at + 1] \in Int
    <2>1. at < Len(stream.declared) => at + 1 \in 1 .. Len(stream.next)
      BY <1>1
    <2> QED
      BY <1>1, <2>1, ElementOfSeq
  <1>6. at < Len(stream.declared) => TickOf(stream.next[at + 1]) \in NextUses
    BY <1>5, TickOfTyped
  <1>7. TickOf(at + k) \in NextUses
    BY <1>1, <1>3, TickOfTyped
  <1>8. Never \in NextUses
    BY DEF NextUses
  <1> QED
    BY <1>4, <1>6, <1>7, <1>8

-----------------------------------------------------------------------------
(* What the manager's steps do to the table, the list and the sessions. *)

\* One entry is set, and no other.
IsSet(id, m) ==
  /\ table' = [table EXCEPT ![id] = m] /\ table'[id] = m
  /\ \A other \in Objects : other # id => table'[other] = table[other]

LEMMA TableSet ==
  ASSUME Tables, NEW id \in Objects, NEW m,
         m = NoMeta \/ (m \in LabMeta /\ m.size = Meta0(id).size /\ (m.at # 0 => m.at >= Base)),
         table' = [table EXCEPT ![id] = m],
         free' \in Seq(Hole), sessions' \in [SessionIds -> Session]
  PROVE  Tables' /\ IsSet(id, m)
  <1>1. /\ table \in [Objects -> {NoMeta} \cup LabMeta]
        /\ \A other \in Objects : Entry(other) => table[other].size = Meta0(other).size
        /\ \A other \in Objects : Resident(other) => table[other].at >= Base
    BY DEF Tables
  <1>2. table'[id] = m /\ \A other \in Objects : other # id => table'[other] = table[other]
    BY <1>1
  <1>3. table' \in [Objects -> {NoMeta} \cup LabMeta]
    BY <1>1
  <1>4. IsSet(id, m)
    BY <1>2 DEF IsSet
  <1>5. \A other \in Objects : Entry(other)' => table'[other].size = Meta0(other).size
    BY <1>1, <1>2, <1>4 DEF Entry, Resident
  <1>6. \A other \in Objects : Resident(other)' => table'[other].at >= Base
    BY <1>1, <1>2, <1>4 DEF Entry, Resident
  <1> QED
    BY <1>3, <1>4, <1>5, <1>6 DEF Tables

LEMMA LiveSame ==
  ASSUME NEW ss, NEW after, NEW owner, OnlyResident(ss, after, owner)
  PROVE  after \in [SessionIds -> Session] /\ LiveIn(after) = LiveIn(ss)
  BY DEF OnlyResident, LiveIn, Known

LEMMA CreditTyped ==
  ASSUME NEW ss \in [SessionIds -> Session], NEW owner, NEW size \in Nat
  PROVE  Credit(ss, owner, size) \in [SessionIds -> Session] /\ LiveIn(Credit(ss, owner, size)) = LiveIn(ss)
  BY CreditKeeps, LiveSame

LEMMA ChargeTyped ==
  ASSUME NEW ss \in [SessionIds -> Session], NEW owner, NEW size \in Nat, NEW precision \in Precision
  PROVE  /\ Charge(ss, owner, size, precision) \in [SessionIds -> Session]
         /\ LiveIn(Charge(ss, owner, size, precision)) = LiveIn(ss)
  BY ChargeKeeps, LiveSame, Zenon

\* A lease that is dropped at once leaves the count as it was, if that is zero.
SharedAs(id, lease, once) ==
  LET raised == SatAdd(table[id].share, Weight(lease))
  IN  IF once THEN SatSub(raised, Weight(lease)) ELSE raised

LEMMA SharedTyped ==
  ASSUME NEW id \in Objects, table[id].share \in Nat, NEW lease \in LeaseKinds, NEW once \in BOOLEAN
  PROVE  /\ SharedAs(id, lease, once) \in Nat
         /\ once /\ table[id].share = 0 => SharedAs(id, lease, once) = 0
  <1>1. PICK w \in 0 .. 1 : w = Weight(lease)
    BY DEF Weight
  <1>2. PICK s \in Nat : s = table[id].share
    OBVIOUS
  <1>3. ShareMax \in Nat
    BY ManagerAssumption
  <1>4. SatAdd(s, w) \in Nat /\ SatAdd(s, w) <= s + w
    <2>1. {s + w, ShareMax} \in SUBSET Nat /\ {s + w, ShareMax} # {}
      BY <1>3
    <2>2. Min({s + w, ShareMax}) \in {s + w, ShareMax} /\ \A y \in {s + w, ShareMax} : Min({s + w, ShareMax}) <= y
      BY <2>1, LeastMember
    <2> QED
      BY <1>3, <2>2 DEF SatAdd
  <1> QED
    BY <1>1, <1>2, <1>4 DEF SharedAs, SatSub

\* A hit changes nothing of an entry but its count.
LEMMA HitEffect ==
  ASSUME Tables, NEW id \in Objects, NEW lease \in LeaseKinds, NEW once \in BOOLEAN, Hit(id, lease, once)
  PROVE  /\ Resident(id)
         /\ Tables'
         /\ \E m \in LabMeta : /\ IsSet(id, m) /\ m # NoMeta /\ m.at = table[id].at
                               /\ m.size = table[id].size
                               /\ once /\ table[id].share = 0 => m.share = 0
         /\ UNCHANGED <<free, sessions, env, job>>
  <1>1. Resident(id) /\ Entry(id)
    BY DEF Hit, Resident
  <1>2. PICK e \in LabMeta : e = table[id] /\ e.share \in Nat /\ e.size = Meta0(id).size /\ e.at >= Base /\ e.size # 0
    BY <1>1, EntryTyped DEF Tables
  <1>3. PICK s \in Nat : s = SharedAs(id, lease, once) /\ (once /\ e.share = 0 => s = 0)
    BY <1>2, SharedTyped
  <1>4. PICK m : m = [e EXCEPT !.share = s]
    BY Zenon
  <1>5. m \in LabMeta /\ m.at = e.at /\ m.size = e.size /\ m.share = s
    BY <1>2, <1>3, <1>4 DEF LabMeta
  <1>6. table' = [table EXCEPT ![id] = m]
    BY <1>2, <1>3, <1>4 DEF Hit, SharedAs
  <1>7. UNCHANGED <<free, sessions, env, job>>
    BY DEF Hit
  <1>8. free' \in Seq(Hole) /\ sessions' \in [SessionIds -> Session]
    BY <1>7 DEF Tables
  <1>9. Tables' /\ IsSet(id, m)
    BY <1>2, <1>5, <1>6, <1>8, TableSet, Zenon
  <1>10. m # NoMeta
    BY <1>5 DEF LabMeta, NoMeta
  <1> QED
    BY <1>1, <1>2, <1>3, <1>5, <1>7, <1>9, <1>10

\* An eviction gives the object's bytes back and leaves entry.
LEMMA EvictEffect ==
  ASSUME Tables, NEW id \in Objects, NEW entry, Evict(id, entry),
         entry = NoMeta \/ (entry \in LabMeta /\ entry.size = Meta0(id).size /\ entry.at = 0)
  PROVE  /\ Resident(id) /\ Evictable
         /\ free' = Give(free, table[id].at - Base, RoundUp(table[id].size))
         /\ Tables' /\ IsSet(id, entry) /\ LiveIn(sessions)' = LiveIn(sessions)
  <1>1. Resident(id) /\ Entry(id) /\ Evictable
    BY DEF Evict, Resident
  <1>2. /\ free' = Give(free, table[id].at - Base, RoundUp(table[id].size))
        /\ sessions' = Credit(sessions, table[id].owner, table[id].size)
        /\ table' = [table EXCEPT ![id] = entry]
    BY DEF Evict
  <1>3. /\ table[id].size \in Nat /\ RoundUp(table[id].size) \in Nat /\ table[id].at - Base \in Nat
    BY <1>1, EntryTyped
  <1>4. free' \in Seq(Hole)
    BY <1>2, <1>3, GiveTyped, Zenon DEF Tables
  <1>5. sessions' \in [SessionIds -> Session] /\ LiveIn(sessions)' = LiveIn(sessions)
    BY <1>2, <1>3, CreditTyped DEF Tables
  <1>6. Tables' /\ IsSet(id, entry)
    BY <1>2, <1>4, <1>5, TableSet, Zenon
  <1> QED
    BY <1>1, <1>2, <1>5, <1>6

LEMMA HomeTyped ==
  ASSUME Tables, NEW id \in Objects, Entry(id)
  PROVE  /\ Home(id) \in LabMeta /\ Home(id) # NoMeta /\ Home(id).size = Meta0(id).size
         /\ Home(id).size = table[id].size /\ Home(id).at = 0 /\ Home(id).share = 0
  <1>1. PICK e \in LabMeta : e = table[id] /\ e.size = Meta0(id).size
    BY EntryTyped
  <1>2. PICK m : m = [e EXCEPT !.at = 0, !.share = 0, !.tier = e.home]
    OBVIOUS
  <1>3. m \in LabMeta /\ m.at = 0 /\ m.share = 0 /\ m.size = e.size
    BY <1>1, <1>2, Zenon DEF LabMeta
  <1>4. Home(id) = m
    BY <1>1, <1>2 DEF Home
  <1>5. m # NoMeta
    BY <1>3 DEF LabMeta, NoMeta
  <1> QED
    BY <1>1, <1>3, <1>4, <1>5

\* The rest of the table stays, and all of the free list.
LEMMA TablesSame ==
  ASSUME Tables, UNCHANGED <<table, free>>, sessions' \in [SessionIds -> Session]
  PROVE  /\ Tables'
         /\ \A id \in Objects : (Entry(id)' <=> Entry(id)) /\ (Resident(id)' <=> Resident(id))
  BY DEF Tables, Entry, Resident

LEMMA FaultingJob ==
  ASSUME Jobs, Faulting
  PROVE  /\ job \in [phase : {"room", "place"}, id : Objects, lease : LeaseKinds,
                     once : BOOLEAN, fits : BOOLEAN]
         /\ Entry(job.id) /\ ~Resident(job.id)
         /\ job.id \in Objects /\ job.lease \in LeaseKinds /\ job.once \in BOOLEAN
         /\ job.phase # "destroy" /\ job # Idle
  BY DEF Jobs, Faulting, Idle, DestroyJob

LEMMA DestroyingJob ==
  ASSUME Jobs, job.phase = "destroy"
  PROVE  DestroyJob /\ job # Idle /\ ~Faulting
  BY DEF Jobs, Faulting, Idle, DestroyJob

LEMMA IdleJob ==
  ASSUME job = Idle
  PROVE  job.phase = "idle" /\ job.phase # "destroy" /\ job.phase # "room" /\ job.phase # "place" /\ ~Faulting
  BY DEF Idle, Faulting

LEMMA MissEffect ==
  ASSUME Tables, NEW id \in Objects, NEW lease \in LeaseKinds, NEW once \in BOOLEAN, Miss(id, lease, once)
  PROVE  /\ Entry(id) /\ ~Resident(id)
         /\ Tables' /\ UNCHANGED <<table, free, env>> /\ LiveIn(sessions)' = LiveIn(sessions)
         /\ \A o \in Objects : (Entry(o)' <=> Entry(o)) /\ (Resident(o)' <=> Resident(o))
         /\ Jobs' /\ Faulting' /\ job'.phase = "room" /\ job'.id = id /\ job'.once = once
  <1>1. /\ Entry(id) /\ ~Resident(id) /\ UNCHANGED <<table, free, env>>
        /\ sessions' = Charge(sessions, table[id].owner, table[id].size, table[id].precision)
        /\ job' = Fault("room", id, lease, once, FALSE)
    BY DEF Miss
  <1>2. sessions' \in [SessionIds -> Session] /\ LiveIn(sessions)' = LiveIn(sessions)
    <2>1. table[id].size \in Nat /\ table[id].precision \in Precision
      BY <1>1, EntryTyped
    <2>2. sessions \in [SessionIds -> Session]
      BY DEF Tables
    <2> QED
      BY <1>1, <2>1, <2>2, ChargeTyped
  <1>3. Tables' /\ \A o \in Objects : (Entry(o)' <=> Entry(o)) /\ (Resident(o)' <=> Resident(o))
    BY <1>1, <1>2, TablesSame
  <1>4. job' = [phase |-> "room", id |-> id, lease |-> lease, once |-> once, fits |-> FALSE]
    BY <1>1 DEF Fault
  <1>5. job' \in [phase : {"room", "place"}, id : Objects, lease : LeaseKinds, once : BOOLEAN, fits : BOOLEAN]
    BY <1>4
  <1>6. job'.phase = "room" /\ job'.id = id /\ job'.once = once
    BY <1>4
  <1>7. Entry(job.id)' /\ ~Resident(job.id)'
    BY <1>1, <1>6, Zenon DEF Entry, Resident
  <1>8. Jobs' /\ Faulting'
    BY <1>5, <1>6, <1>7 DEF Jobs, Faulting
  <1> QED
    BY <1>1, <1>2, <1>3, <1>6, <1>8, Zenon

\* From making room to placing.
Turned ==
  /\ job.phase = "room" /\ job'.phase = "place" /\ job'.id = job.id /\ job'.once = job.once
  /\ UNCHANGED <<table, free, sessions, env>>

LEMMA TurnEffect ==
  ASSUME Tables, Jobs, RoomFound \/ StopEvicting
  PROVE  Turned /\ Tables' /\ Jobs' /\ Faulting /\ Faulting'
  <1>1. /\ job.phase = "room" /\ UNCHANGED <<table, free, sessions, env>>
        /\ \E fits \in BOOLEAN : job' = [job EXCEPT !.phase = "place", !.fits = fits]
    <2>1. CASE RoomFound
      BY <2>1, Zenon DEF RoomFound
    <2>2. CASE StopEvicting
      <3>1. job.phase = "room" /\ job' = [job EXCEPT !.phase = "place"]
        BY <2>2 DEF StopEvicting
      <3>2. Faulting
        BY <3>1 DEF Faulting
      <3>3. job \in [phase : {"room", "place"}, id : Objects, lease : LeaseKinds, once : BOOLEAN, fits : BOOLEAN]
        BY <3>2, FaultingJob
      <3>4. job' = [job EXCEPT !.phase = "place", !.fits = job.fits] /\ job.fits \in BOOLEAN
        BY <3>1, <3>3, Zenon
      <3> QED
        BY <2>2, <3>1, <3>4, Zenon DEF StopEvicting
    <2> QED
      BY <2>1, <2>2, Zenon
  <1>2. Faulting
    BY <1>1 DEF Faulting
  <1>3. /\ job \in [phase : {"room", "place"}, id : Objects, lease : LeaseKinds, once : BOOLEAN, fits : BOOLEAN]
        /\ Entry(job.id) /\ ~Resident(job.id) /\ job.id \in Objects
    BY <1>2, FaultingJob
  <1>4. /\ job' \in [phase : {"room", "place"}, id : Objects, lease : LeaseKinds, once : BOOLEAN, fits : BOOLEAN]
        /\ job'.phase = "place" /\ job'.id = job.id /\ job'.once = job.once
    BY <1>1, <1>3, Zenon
  <1>5. Tables' /\ \A o \in Objects : (Entry(o)' <=> Entry(o)) /\ (Resident(o)' <=> Resident(o))
    BY <1>1, TablesSame DEF Tables
  <1>6. Entry(job.id)' /\ ~Resident(job.id)'
    BY <1>1, <1>3, <1>4 DEF Entry, Resident
  <1> QED
    BY <1>1, <1>2, <1>4, <1>5, <1>6 DEF Turned, Jobs, Faulting

\* The bytes an object is placed in, and its entry.
LEMMA PlacedEffect ==
  ASSUME Tables, Jobs, "read_fails" \notin env, Placed
  PROVE  LET i == FirstFit(free, RoundUp(table[job.id].size))
         IN  /\ job.phase = "place" /\ i # 0 /\ free[i].at \in Nat
             /\ free' = Take(free, i, RoundUp(table[job.id].size))
             /\ Tables' /\ UNCHANGED <<sessions, env>> /\ job' = Idle
             /\ \E m \in LabMeta : /\ IsSet(job.id, m) /\ m # NoMeta /\ m.at = Base + free[i].at /\ m.at # 0
                                   /\ m.size = table[job.id].size
                                   /\ job.once => m.share = 0
  <1> DEFINE id == job.id
             want == RoundUp(table[id].size)
             i == FirstFit(free, want)
  <1>1. /\ job.phase = "place" /\ i # 0 /\ free' = Take(free, i, want) /\ job' = Idle
        /\ UNCHANGED <<sessions, env>>
        /\ table' = [table EXCEPT ![id] =
                 [@ EXCEPT !.at = Base + free[i].at, !.tier = "Warm",
                           !.share = IF job.once THEN 0 ELSE Weight(job.lease)]]
    BY Zenon DEF Placed
  <1>2. Faulting
    BY <1>1 DEF Faulting
  <1>3. Entry(id) /\ id \in Objects /\ job.once \in BOOLEAN
    BY <1>2, FaultingJob
  <1>4. PICK e \in LabMeta : e = table[id] /\ e.size = Meta0(id).size
    BY <1>3, EntryTyped
  <1>5. want \in Nat
    BY <1>3, EntryTyped
  <1> HIDE DEF want
  <1>6. free[i].at \in Nat /\ free' \in Seq(Hole)
    BY <1>1, <1>5, TakeTyped DEF Tables
  <1>7. PICK at \in Nat : at = free[i].at
    BY <1>6
  <1>8. PICK home \in Nat \ {0} : home = Base + at /\ home >= Base
    BY ManagerAssumption
  <1>9. PICK s \in Nat : s = (IF job.once THEN 0 ELSE Weight(job.lease)) /\ (job.once => s = 0)
    BY <1>3 DEF Weight
  <1>10. PICK m : m = [e EXCEPT !.at = home, !.tier = "Warm", !.share = s]
    OBVIOUS
  <1>11. m \in LabMeta /\ m.at = home /\ m.share = s /\ m.size = e.size
    BY <1>4, <1>10, Zenon DEF LabMeta, Tier
  <1>12. table' = [table EXCEPT ![id] = m]
    BY <1>1, <1>4, <1>7, <1>8, <1>9, <1>10
  <1>13. Tables' /\ IsSet(id, m)
    <2>1. sessions' \in [SessionIds -> Session]
      BY <1>1 DEF Tables
    <2> QED
      BY <1>3, <1>4, <1>6, <1>8, <1>11, <1>12, <2>1, TableSet, Zenon
  <1>14. m # NoMeta
    BY <1>11 DEF LabMeta, NoMeta
  <1> QED
    BY <1>1, <1>4, <1>6, <1>7, <1>8, <1>9, <1>11, <1>13, <1>14 DEF want

LEMMA NotPlacedEffect ==
  ASSUME Tables, Jobs, NotPlaced
  PROVE  /\ job.phase = "place" /\ FirstFit(free, RoundUp(table[job.id].size)) = 0
         /\ job' = Idle /\ UNCHANGED <<table, free, env>> /\ LiveIn(sessions)' = LiveIn(sessions)
         /\ Tables'
         /\ \A id \in Objects : (Entry(id)' <=> Entry(id)) /\ (Resident(id)' <=> Resident(id))
  <1>1. /\ job.phase = "place" /\ FirstFit(free, RoundUp(table[job.id].size)) = 0
        /\ job' = Idle /\ UNCHANGED <<table, free, env>>
        /\ sessions' = Credit(sessions, table[job.id].owner, table[job.id].size)
    BY DEF NotPlaced
  <1>2. Faulting
    BY <1>1 DEF Faulting
  <1>3. Entry(job.id) /\ job.id \in Objects
    BY <1>2, FaultingJob
  <1>4. sessions' \in [SessionIds -> Session] /\ LiveIn(sessions)' = LiveIn(sessions)
    BY <1>1, <1>3, EntryTyped, CreditTyped DEF Tables
  <1> QED
    BY <1>1, <1>4, TablesSame

\* A session's object leaves the arena, if it is there, and the table.
LEMMA DestroyObjectEffect ==
  ASSUME Tables, Jobs, NEW id \in Objects, DestroyObject(id)
  PROVE  /\ job.phase = "destroy" /\ job'.phase = "destroy"
         /\ job'.session = job.session /\ job'.rest = job.rest /\ Jobs'
         /\ Tables' /\ IsSet(id, NoMeta) /\ LiveIn(sessions)' = LiveIn(sessions) /\ UNCHANGED env
         /\ ~Resident(id) => UNCHANGED free
  <1>1. /\ job.phase = "destroy" /\ job' = [job EXCEPT !.gone = @ + 1] /\ UNCHANGED env
        /\ \/ Evict(id, NoMeta)
           \/ /\ ~Resident(id) /\ table' = [table EXCEPT ![id] = NoMeta]
              /\ UNCHANGED <<free, sessions>>
    BY DEF DestroyObject
  <1>2. job \in [phase : {"destroy"}, session : 0 .. MaxId, rest : SUBSET SessionIds, gone : Nat]
    BY <1>1, DestroyingJob DEF DestroyJob
  <1>3. PICK n \in Nat : n = job.gone + 1
    BY <1>2
  <1>4. /\ job' \in [phase : {"destroy"}, session : 0 .. MaxId, rest : SUBSET SessionIds, gone : Nat]
        /\ job'.phase = "destroy" /\ job'.session = job.session /\ job'.rest = job.rest
    BY <1>1, <1>2, <1>3
  <1>5. CASE Evict(id, NoMeta)
    <2>1. PICK m : m = NoMeta
      OBVIOUS
    <2>2. Evict(id, m)
      BY <1>5, <2>1
    <2>3. m = NoMeta \/ (m \in LabMeta /\ m.size = Meta0(id).size /\ m.at = 0)
      BY <2>1
    <2>4. Resident(id) /\ Tables' /\ IsSet(id, m) /\ LiveIn(sessions)' = LiveIn(sessions)
      BY <2>2, <2>3, EvictEffect
    <2>5. Jobs'
      BY <1>4 DEF Jobs, DestroyJob
    <2> QED
      BY <1>1, <1>4, <2>1, <2>4, <2>5
  <1>6. CASE /\ ~Resident(id) /\ table' = [table EXCEPT ![id] = NoMeta]
             /\ UNCHANGED <<free, sessions>>
    <2>1. free' \in Seq(Hole) /\ sessions' \in [SessionIds -> Session]
      BY <1>6 DEF Tables
    <2>2. PICK m : m = NoMeta
      OBVIOUS
    <2>3. table' = [table EXCEPT ![id] = m]
      BY <1>6, <2>2
    <2>4. m = NoMeta \/ (m \in LabMeta /\ m.size = Meta0(id).size /\ (m.at # 0 => m.at >= Base))
      BY <2>2
    <2>5. Tables' /\ IsSet(id, m)
      BY <2>1, <2>3, <2>4, TableSet, Zenon
    <2> QED
      BY <1>1, <1>4, <1>6, <2>2, <2>5 DEF Jobs, DestroyJob, LiveIn
  <1> QED
    BY <1>1, <1>5, <1>6

\* The next session's turn, or the end of the call.
LEMMA DestroyNextEffect ==
  ASSUME Tables, Jobs, DestroyRefused \/ DestroyDone
  PROVE  /\ job.phase = "destroy" /\ Jobs' /\ (job' = Idle \/ job'.phase = "destroy") /\ ~Faulting'
         /\ Doomed = {job.session} \cup job.rest /\ Doomed' = job.rest
         /\ Tables' /\ UNCHANGED <<table, free, env>>
         /\ \A id \in Objects : (Entry(id)' <=> Entry(id)) /\ (Resident(id)' <=> Resident(id))
         /\ \/ \E id \in Objects : Resident(id)
            \/ LiveIn(sessions)' = LiveIn(sessions) \ {job.session}
  <1>1. job.phase = "destroy" /\ DestroyNext /\ UNCHANGED <<table, free, env>>
    BY DEF DestroyRefused, DestroyDone
  <1>2. job \in [phase : {"destroy"}, session : 0 .. MaxId, rest : SUBSET SessionIds, gone : Nat]
    BY <1>1, DestroyingJob DEF DestroyJob
  <1>3. /\ Jobs' /\ (job' = Idle \/ job'.phase = "destroy") /\ ~Faulting' /\ Doomed' = job.rest
    <2>1. CASE job.rest = {}
      <3>1. job' = Idle
        BY <1>1, <2>1 DEF DestroyNext
      <3> QED
        BY <2>1, <3>1 DEF Jobs, Faulting, Idle, Doomed
    <2>2. CASE job.rest # {}
      <3>1. PICK s \in job.rest : job' = Destroy(s, job.rest \ {s}, 0)
        BY <1>1, <2>2 DEF DestroyNext
      <3>2. job' = [phase |-> "destroy", session |-> s, rest |-> job.rest \ {s}, gone |-> 0]
        BY <3>1 DEF Destroy
      <3>3. s \in 0 .. MaxId /\ job.rest \ {s} \in SUBSET SessionIds
        BY <1>2, MaxIdAssumption DEF SessionIds
      <3>4. DestroyJob' /\ job'.phase = "destroy" /\ job'.session = s /\ job'.rest = job.rest \ {s}
        BY <3>2, <3>3 DEF DestroyJob
      <3> QED
        BY <3>4 DEF Jobs, Faulting, Doomed
    <2> QED
      BY <2>1, <2>2
  <1>4. CASE DestroyRefused
    <2>1. UNCHANGED sessions /\ \E id \in Objects : Resident(id)
      BY <1>4 DEF DestroyRefused
    <2>2. sessions' \in [SessionIds -> Session]
      BY <2>1 DEF Tables
    <2> QED
      BY <1>1, <1>3, <2>1, <2>2, TablesSame DEF Doomed
  <1>5. CASE DestroyDone
    <2>1. sessions' = IF Known(sessions, job.session) THEN Forget(sessions, job.session) ELSE sessions
      BY <1>5 DEF DestroyDone
    <2>2. sessions \in [SessionIds -> Session]
      BY DEF Tables
    <2>3. sessions' \in [SessionIds -> Session] /\ LiveIn(sessions)' = LiveIn(sessions) \ {job.session}
      <3>1. CASE Known(sessions, job.session)
        <4>1. job.session \in SessionIds
          BY <3>1 DEF Known
        <4>2. /\ sessions' \in [SessionIds -> Session]
              /\ \A r : Known(sessions', r) <=> Known(sessions, r) /\ r # job.session
          BY <2>1, <2>2, <3>1, <4>1, ForgetKeeps
        <4> QED
          BY <4>2 DEF LiveIn, Known
      <3>2. CASE ~Known(sessions, job.session)
        BY <2>1, <2>2, <3>2 DEF LiveIn, Known
      <3> QED
        BY <3>1, <3>2
    <2> QED
      BY <1>1, <1>3, <2>3, TablesSame DEF Doomed
  <1> QED
    BY <1>4, <1>5

-----------------------------------------------------------------------------
(* Victims. *)

LEMMA DivNat ==
  ASSUME NEW a \in Nat, NEW b \in Nat \ {0}
  PROVE  a \div b \in Nat
  OBVIOUS

LEMMA TimesNat ==
  ASSUME NEW a \in Nat, NEW b \in Nat
  PROVE  a * b \in Nat /\ (a # 0 /\ b # 0 => a * b # 0)
  <1>1. a * b \in Int
    OBVIOUS
  <1>2. a * b >= 0
    OBVIOUS
  <1>3. a # 0 /\ b # 0 => a * b # 0
    OBVIOUS
  <1> QED
    BY <1>1, <1>2, <1>3

\* What a policy reads of an object.
Readable == [placed : Nat, used : Nat, next : NextUses, reload : Nat, recompute : Nat, share : Nat]

LEMMA HorizonTyped ==
  ASSUME NEW next \in NextUses, NEW now \in Nat
  PROVE  Horizon(next, now) \in Nat
  <1>0. Undeclared \in Nat
    BY PolicyAssumption
  <1>1. CASE next = Never
    BY <1>0, <1>1 DEF Horizon, Never
  <1>2. CASE next \in [when : {"at"}, tick : Int]
    <2>1. next.when = "at" /\ next.tick \in Int
      BY <1>2
    <2>2. Horizon(next, now) = Greater(next.tick - now, 0)
      BY <2>1 DEF Horizon
    <2> QED
      BY <2>1, <2>2 DEF Greater
  <1> QED
    BY <1>1, <1>2 DEF NextUses

LEMMA RatingTyped ==
  ASSUME NEW m \in Readable, NEW now \in Nat, NEW p \in PolicyNames, p # "demand"
  PROVE  Rating(p, m, now) \in Int
  <1>1. /\ m.placed \in Nat /\ m.used \in Nat /\ m.next \in NextUses /\ m.reload \in Nat
        /\ m.recompute \in Nat /\ m.share \in Nat
    BY DEF Readable
  <1>2. PICK h \in Nat : h = Horizon(m.next, now)
    BY <1>1, HorizonTyped
  <1>3. PICK r \in Nat \ {0} : r = Recovery(m)
    BY <1>1 DEF Recovery, Greater, Lesser
  <1>4. PICK g \in Nat \ {0} : g = Greater(m.share, 1)
    BY <1>1 DEF Greater
  <1>5. PICK a \in Nat : a = h * Scale
    BY TimesNat, PolicyAssumption
  <1>6. PICK b \in Nat \ {0} : b = r * g
    BY TimesNat
  <1>7. Evictability(m, now) \in Nat
    BY <1>2, <1>3, <1>4, <1>5, <1>6, DivNat DEF Evictability
  <1> QED
    BY <1>1, <1>7 DEF Rating, PolicyNames

\* A finite set has a best rated member, so what is named is one of them.
LEMMA VictimIn ==
  ASSUME NEW p \in PolicyNames, NEW held, NEW now \in Nat, IsFiniteSet(DOMAIN held),
         DOMAIN held \subseteq Nat, \A id \in DOMAIN held : held[id] \in Readable
  PROVE  Victim(p, held, now) = 0 \/ Victim(p, held, now) \in DOMAIN held
  <1> DEFINE D == DOMAIN held
  <1>1. CASE p = "demand" \/ D = {}
    BY <1>1 DEF Victim
  <1>2. CASE p # "demand" /\ D # {}
    <2> DEFINE rating == [id \in D |-> Rating(p, held[id], now)]
               Beats(a, b) == rating[a] > rating[b] \/ (rating[a] = rating[b] /\ a < b)
               Under(a) == {b \in D : Beats(a, b)}
               Above == {Cardinality(D) - Cardinality(Under(a)) : a \in D}
    <2>1. \A a \in D : rating[a] \in Int /\ rating[a] = Rating(p, held[a], now) /\ a \in Nat
      BY <1>2, RatingTyped
    <2> HIDE DEF rating
    <2>2. \A a \in D : IsFiniteSet(Under(a)) /\ Cardinality(Under(a)) \in Nat /\ Cardinality(Under(a)) <= Cardinality(D)
      <3>1. \A a \in D : Under(a) \subseteq D
        OBVIOUS
      <3> HIDE DEF Under
      <3> QED
        BY <3>1, FS_Subset, FS_CardinalityType
    <2>3. Cardinality(D) \in Nat
      BY FS_CardinalityType
    <2>4. PICK best \in D : \A a \in D : Cardinality(Under(a)) <= Cardinality(Under(best))
      <3> HIDE DEF Under
      <3>1. Above \in SUBSET Nat /\ Above # {}
        BY <1>2, <2>2, <2>3
      <3>2. PICK least \in Above : \A y \in Above : least <= y
        <4> HIDE DEF Above
        <4> QED
          BY <3>1, LeastMember, Zenon
      <3>3. PICK best \in D : least = Cardinality(D) - Cardinality(Under(best))
        BY <3>2
      <3>4. ASSUME NEW a \in D
            PROVE  Cardinality(Under(a)) <= Cardinality(Under(best))
        <4>1. least <= Cardinality(D) - Cardinality(Under(a))
          BY <3>2
        <4> QED
          BY <4>1, <3>3, <2>2, <2>3
      <3> QED
        BY <3>4
    <2>5. ASSUME NEW other \in D \ {best}
          PROVE  Beats(best, other)
      <3>1. SUFFICES ASSUME ~Beats(best, other) PROVE FALSE
        OBVIOUS
      <3>2. Beats(other, best)
        BY <2>1, <3>1
      <3>3. best \notin Under(best)
        BY <2>1
      <3>4. Under(best) \cup {best} \subseteq Under(other)
        BY <2>1, <3>2
      <3> HIDE DEF Under
      <3>5. Cardinality(Under(best) \cup {best}) = Cardinality(Under(best)) + 1
        BY <2>2, <3>3, FS_AddElement, Zenon
      <3>6. Cardinality(Under(best) \cup {best}) <= Cardinality(Under(other))
        BY <2>2, <3>4, FS_Subset
      <3> QED
        BY <2>2, <2>4, <3>5, <3>6
    <2>6. \E id \in D : \A other \in D \ {id} :
            LET mine == Rating(p, held[id], now)
                its  == Rating(p, held[other], now)
            IN  mine > its \/ (mine = its /\ id < other)
      BY <2>1, <2>5
    <2>7. Victim(p, held, now) = CHOOSE id \in D : \A other \in D \ {id} :
            LET mine == Rating(p, held[id], now)
                its  == Rating(p, held[other], now)
            IN  mine > its \/ (mine = its /\ id < other)
      BY <1>2 DEF Victim
    <2> QED
      BY <2>6, <2>7
  <1> QED
    BY <1>1, <1>2, Zenon

LEMMA ObjectsAre ==
  /\ IsFiniteSet(Objects) /\ Objects \subseteq Nat \ {0}
  /\ IsFiniteSet(ResidentSet) /\ ResidentSet \subseteq Objects
  <1>1. IsFiniteSet(Objects) /\ Objects \subseteq Nat \ {0}
    BY ManagerAssumption, LabAssumption
  <1>2. ResidentSet \subseteq Objects
    BY DEF ResidentSet
  <1> QED
    BY <1>1, <1>2, FS_Subset, Zenon

LEMMA CostsTyped ==
  ASSUME NEW id \in Objects
  PROVE  Costs(id).reload \in Nat /\ Costs(id).recompute \in Nat
  <1>1. Class[id] \in {"weight", "activation", "kv"}
    BY LabAssumption
  <1> QED
    BY <1>1 DEF Costs, WeightCosts, ActivationCosts, KvCosts, IMPOSSIBLE

LEMMA HintTyped ==
  ASSUME Numbers, NEW id \in Objects
  PROVE  /\ hints[id] \in HintOf
         /\ hints[id].placed \in Nat /\ hints[id].used \in Nat /\ hints[id].next \in NextUses
  BY DEF Numbers, HintOf

LEMMA HeldTyped ==
  ASSUME Tables, Numbers
  PROVE  DOMAIN Held = ResidentSet /\ \A id \in ResidentSet : Held[id] \in Readable
  <1>1. ASSUME NEW id \in ResidentSet
        PROVE  Held[id] \in Readable
    <2>1. id \in Objects /\ Entry(id)
      BY DEF ResidentSet, Resident
    <2>2. table[id].share \in Nat
      BY <2>1, EntryTyped
    <2> QED
      BY <2>1, <2>2, CostsTyped, HintTyped DEF Held, Readable
  <1> QED
    BY <1>1 DEF Held

LEMMA NamedIsResident ==
  ASSUME Tables, Numbers, Named # 0
  PROVE  Named \in ResidentSet /\ Named \in Objects
  <1>1. DOMAIN Held = ResidentSet /\ \A id \in ResidentSet : Held[id] \in Readable
    BY HeldTyped
  <1>2. clock \in Nat /\ policy \in PolicyNames
    BY DEF Numbers
  <1>3. IsFiniteSet(ResidentSet) /\ ResidentSet \subseteq Nat
    BY ObjectsAre
  <1> QED
    BY <1>1, <1>2, <1>3, VictimIn, ObjectsAre, Zenon DEF Named

-----------------------------------------------------------------------------
(* What a step of the lab keeps of the types. *)

\* The verb of a replay.
ReplayVerb ==
  /\ verb \in [name : {"replay"}, at : Nat \ {0}, fresh : BOOLEAN, before : Nat,
               head : [ps : Nat, ks : Nat, ss : Nat]]
  /\ verb.at <= Len(stream.declared) + 2
  /\ verb.at <= Len(stream.declared) + 1 => stream.cursor = verb.at - 1
  /\ stream.next = Chain(stream.declared)
  /\ Faulting => verb.at <= Len(stream.declared) /\ job.id = Current /\ job.once
  /\ job.phase = "destroy" => verb.at = Len(stream.declared) + 2

LEMMA Replays ==
  ASSUME Verbs
  PROVE  /\ Replaying => ReplayVerb /\ verb.at \in Nat \ {0}
         /\ job.phase = "destroy" => Replaying
  BY DEF Verbs, Replaying, ReplayVerb, Waiting

LEMMA VerbsSame ==
  ASSUME Verbs, UNCHANGED <<verb, stream>>,
         job'.phase = "destroy" => job.phase = "destroy",
         Faulting' => Faulting /\ job'.id = job.id /\ job'.once = job.once
  PROVE  Verbs'
  <1>1. Current' = Current
    BY DEF Current
  <1>2. CASE verb = Waiting /\ job.phase # "destroy"
    BY <1>2 DEF Verbs
  <1>3. CASE verb \in [name : {"sweep"}, at : Nat \ {0}] /\ job.phase # "destroy"
    BY <1>3 DEF Verbs
  <1>4. CASE ReplayVerb
    BY <1>1, <1>4, Zenon DEF Verbs, ReplayVerb
  <1> QED
    BY <1>2, <1>3, <1>4 DEF Verbs, ReplayVerb

\* The access that is done with moves the replay, or the sweep, on by one.
LEMMA DoneTyped ==
  ASSUME Streams, Verbs, out \in OutOf, NEW result \in OutOf, Done(result), job' = Idle,
         Replaying => verb.at <= Len(stream.declared)
  PROVE  out' \in OutOf /\ Streams' /\ Verbs'
  <1>0. job'.phase # "destroy" /\ ~Faulting'
    BY DEF Idle, Faulting
  <1>1. CASE verb = Waiting
    <2>1. UNCHANGED <<verb, out, stream>>
      BY <1>1 DEF Done, Waiting
    <2>2. Streams'
      BY <2>1 DEF Streams
    <2> QED
      BY <1>0, <1>1, <2>1, <2>2 DEF Verbs
  <1>2. CASE verb \in [name : {"sweep"}, at : Nat \ {0}]
    <2>1. verb' = [verb EXCEPT !.at = @ + 1] /\ UNCHANGED <<out, stream>>
      BY <1>2 DEF Done
    <2>2. verb' \in [name : {"sweep"}, at : Nat \ {0}]
      BY <1>2, <2>1
    <2>3. Streams'
      BY <2>1 DEF Streams
    <2> QED
      BY <1>0, <2>1, <2>2, <2>3 DEF Verbs
  <1>3. CASE ReplayVerb
    <2>1. /\ verb' = [verb EXCEPT !.at = @ + 1] /\ out' = result /\ stream' = Advance(stream, 1)
          /\ verb.at <= Len(stream.declared)
      BY <1>3, Zenon DEF Done, ReplayVerb, Replaying
    <2>2. /\ verb' \in [name : {"replay"}, at : Nat \ {0}, fresh : BOOLEAN, before : Nat,
                        head : [ps : Nat, ks : Nat, ss : Nat]]
          /\ verb'.at = verb.at + 1 /\ verb.at \in Nat \ {0}
      BY <1>3, <2>1 DEF ReplayVerb
    <2>3. /\ stream \in [declared : Seq(Objects), next : Seq(Int), cursor : Nat]
          /\ Len(stream.next) = Len(stream.declared)
      BY DEF Streams
    <2>4. /\ stream' \in [declared : Seq(Objects), next : Seq(Int), cursor : Nat]
          /\ stream'.declared = stream.declared /\ stream'.next = stream.next /\ stream'.cursor = stream.cursor + 1
      BY <2>1, <2>3 DEF Advance
    <2>5. Streams'
      BY <2>3, <2>4 DEF Streams
    <2>6. PICK l \in Nat : l = Len(stream.declared)
      BY <2>3, LenProperties
    <2>7. stream.cursor = verb.at - 1 /\ stream.cursor \in Nat
      BY <1>3, <2>1, <2>2, <2>3, <2>6 DEF ReplayVerb
    <2>8. verb'.at <= l + 2 /\ stream'.cursor = verb'.at - 1
      BY <2>1, <2>2, <2>4, <2>6, <2>7
    <2>9. Verbs'
      BY <1>0, <1>3, <2>2, <2>4, <2>6, <2>8, Zenon DEF Verbs, ReplayVerb
    <2> QED
      BY <2>1, <2>5, <2>9
  <1> QED
    BY <1>1, <1>2, <1>3 DEF Verbs, ReplayVerb

LEMMA Bytes0Typed ==
  ASSUME NEW id \in Objects
  PROVE  Bytes0(id) \in Nat
  BY Meta0Typed DEF Bytes0

\* What the table says of the uses of one object.
HintSet(id, placed, now, next) ==
  /\ hints' \in [Objects -> HintOf]
  /\ hints'[id].placed = placed /\ hints'[id].used = now /\ hints'[id].next = next
  /\ \A other \in Objects : other # id => hints'[other] = hints[other]

LEMMA HintsSet ==
  ASSUME Numbers, NEW id \in Objects, NEW hint \in HintOf, hints' = [hints EXCEPT ![id] = hint]
  PROVE  HintSet(id, hint.placed, hint.used, hint.next)
  BY DEF Numbers, HintSet

LEMMA NoHintTyped ==
  NoHint \in HintOf /\ NoHint.placed = 0 /\ NoHint.used = 0 /\ NoHint.next = Never
  BY DEF NoHint, HintOf, NextUses

\* Replayed, one more counted.
LEMMA OutMoved ==
  ASSUME NEW o \in OutOf, NEW size \in Nat
  PROVE  /\ [o EXCEPT !.hits = @ + 1] \in OutOf /\ [o EXCEPT !.refused = @ + 1] \in OutOf
         /\ [o EXCEPT !.evicted = @ + 1] \in OutOf
         /\ [o EXCEPT !.reads = @ + 1, !.bytes = @ + size] \in OutOf
  <1>1. [o EXCEPT !.hits = @ + 1] \in OutOf
    BY DEF OutOf
  <1>2. [o EXCEPT !.refused = @ + 1] \in OutOf
    BY DEF OutOf
  <1>3. [o EXCEPT !.evicted = @ + 1] \in OutOf
    BY DEF OutOf
  <1>4. [o EXCEPT !.reads = @ + 1, !.bytes = @ + size] \in OutOf
    <2>1. PICK n \in Nat, b \in Nat : n = o.reads + 1 /\ b = o.bytes + size
      BY DEF OutOf
    <2>2. PICK r : r = [o EXCEPT !.reads = n, !.bytes = b]
      OBVIOUS
    <2>3. r \in OutOf
      BY <2>2, Zenon DEF OutOf
    <2>4. [o EXCEPT !.reads = @ + 1, !.bytes = @ + size] = [o EXCEPT !.reads = n, !.bytes = b]
      BY <2>1
    <2> QED
      BY <2>2, <2>3, <2>4
  <1> QED
    BY <1>1, <1>2, <1>3, <1>4

LEMMA CountsMoved ==
  ASSUME NEW c \in CountsOf, NEW b \in Nat
  PROVE  /\ [c EXCEPT !.hits = @ + b] \in CountsOf /\ [c EXCEPT !.fetched = @ + b] \in CountsOf
         /\ [c EXCEPT !.evictions = @ + 1] \in CountsOf
  BY DEF CountsOf

LEMMA HitHints ==
  ASSUME Numbers, Streams, NEW id \in Objects, NEW lease, NEW once, AcquireHit(id, lease, once)
  PROVE  HintSet(id, hints[id].placed, clock + 1, NextAfter(stream, id))
  <1>1. PICK h \in HintOf : h = hints[id]
    BY HintTyped
  <1>2. PICK next \in NextUses : next = NextAfter(stream, id)
    BY NextAfterTyped
  <1>3. PICK now \in Nat : now = clock + 1
    BY DEF Numbers
  <1>4. hints \in [Objects -> HintOf]
    BY DEF Numbers
  <1>5. hints' = [hints EXCEPT ![id].used = now, ![id].next = next]
    BY <1>2, <1>3 DEF AcquireHit
  <1>6. PICK g : g = [h EXCEPT !.used = now, !.next = next]
    OBVIOUS
  <1>7. g \in HintOf /\ g.placed = h.placed /\ g.used = now /\ g.next = next
    BY <1>6, Zenon DEF HintOf
  <1>8. hints' = [hints EXCEPT ![id] = g]
    BY <1>1, <1>4, <1>5, <1>6, Zenon
  <1> QED
    BY <1>1, <1>2, <1>3, <1>7, <1>8, HintsSet, Zenon

\* An access of the verb that is running: a replay's is its next.
Accessing(id, once) == job = Idle /\ (Replaying => verb.at <= Len(stream.declared) /\ id = Current /\ once)

LEMMA HitTyped ==
  ASSUME LabTyped, NEW id \in Objects, NEW lease \in LeaseKinds, NEW once \in BOOLEAN,
         Accessing(id, once), AcquireHit(id, lease, once)
  PROVE  LabTyped'
  <1>0. Tables /\ Jobs /\ Numbers /\ Streams /\ Verbs /\ job = Idle
    BY DEF LabTyped, Accessing
  <1>1. Hit(id, lease, once) /\ clock' = clock + 1 /\ UNCHANGED <<limit, policy>>
        /\ counts' = [counts EXCEPT !.hits = @ + Bytes0(id)]
        /\ Done([out EXCEPT !.hits = @ + 1])
    BY DEF AcquireHit
  <1>2. Tables' /\ UNCHANGED <<env, job>>
    BY <1>0, <1>1, HitEffect
  <1>3. Jobs' /\ job' = Idle
    BY <1>0, <1>2 DEF Jobs
  <1>4. PICK b \in Nat : b = Bytes0(id)
    BY Bytes0Typed
  <1>5. counts' \in CountsOf
    BY <1>0, <1>1, <1>4, CountsMoved, Zenon DEF Numbers
  <1>6. PICK result \in OutOf : result = [out EXCEPT !.hits = @ + 1]
    BY <1>0, OutMoved, Zenon DEF Numbers
  <1>7. out' \in OutOf /\ Streams' /\ Verbs'
    BY <1>0, <1>1, <1>3, <1>6, DoneTyped DEF Numbers, Accessing
  <1>8. hints' \in [Objects -> HintOf]
    BY <1>0, HitHints DEF HintSet
  <1>9. Numbers'
    BY <1>0, <1>1, <1>2, <1>5, <1>7, <1>8 DEF Numbers
  <1> QED
    BY <1>2, <1>3, <1>7, <1>9 DEF LabTyped

LEMMA MissTyped ==
  ASSUME LabTyped, NEW id \in Objects, NEW lease \in LeaseKinds, NEW once \in BOOLEAN,
         Accessing(id, once), AcquireMiss(id, lease, once)
  PROVE  LabTyped'
  <1>0. Tables /\ Jobs /\ Numbers /\ Streams /\ Verbs /\ job = Idle
    BY DEF LabTyped, Accessing
  <1>1. /\ Miss(id, lease, once) /\ clock' = clock + 1
        /\ UNCHANGED <<limit, hints, stream, policy, ring, counts, verb, out, sim>>
    BY DEF AcquireMiss
  <1>2. /\ Tables' /\ Jobs' /\ UNCHANGED env /\ job'.phase = "room" /\ job'.id = id /\ job'.once = once
    BY <1>0, <1>1, MissEffect
  <1>3. Numbers'
    BY <1>0, <1>1, <1>2 DEF Numbers
  <1>4. Streams'
    BY <1>0, <1>1 DEF Streams
  <1>5. Verbs'
    <2>1. Current' = Current
      BY <1>1 DEF Current
    <2>2. CASE verb = Waiting
      BY <1>1, <1>2, <2>2 DEF Verbs
    <2>3. CASE verb \in [name : {"sweep"}, at : Nat \ {0}]
      BY <1>1, <1>2, <2>3 DEF Verbs
    <2>4. CASE ReplayVerb
      BY <1>1, <1>2, <2>1, <2>4 DEF Verbs, ReplayVerb, Accessing, Replaying
    <2> QED
      BY <1>0, <2>2, <2>3, <2>4 DEF Verbs, ReplayVerb
  <1> QED
    BY <1>2, <1>3, <1>4, <1>5 DEF LabTyped

LEMMA TurnTyped ==
  ASSUME LabTyped, LabRoomFound \/ LabStopEvicting
  PROVE  LabTyped'
  <1>0. Tables /\ Jobs /\ Numbers /\ Streams /\ Verbs
    BY DEF LabTyped
  <1>1. (RoomFound \/ StopEvicting) /\ UNCHANGED labvars
    BY DEF LabRoomFound, LabStopEvicting
  <1>2. Turned /\ Tables' /\ Jobs' /\ Faulting
    BY <1>0, <1>1, TurnEffect
  <1>3. Numbers'
    BY <1>0, <1>1, <1>2 DEF Numbers, Turned, labvars
  <1>4. Streams'
    BY <1>0, <1>1 DEF Streams, labvars
  <1>5. Verbs'
    BY <1>0, <1>1, <1>2, VerbsSame DEF Turned, labvars
  <1> QED
    BY <1>2, <1>3, <1>4, <1>5 DEF LabTyped

LEMMA VictimTyped ==
  ASSUME LabTyped, LabEvictVictim
  PROVE  LabTyped' /\ Named \in Objects /\ Resident(Named) /\ IsSet(Named, Home(Named)) /\ Faulting
  <1>0. Tables /\ Jobs /\ Numbers /\ Streams /\ Verbs
    BY DEF LabTyped
  <1>1. /\ Named # 0 /\ EvictVictim(Named)
        /\ counts' = [counts EXCEPT !.evictions = @ + 1]
        /\ out' = IF verb.name = "replay" THEN [out EXCEPT !.evicted = @ + 1] ELSE out
        /\ UNCHANGED <<limit, clock, hints, stream, policy, verb>>
    BY DEF LabEvictVictim
  <1>2. /\ job.phase = "room" /\ Evict(Named, Home(Named)) /\ UNCHANGED <<env, job>>
    BY <1>1 DEF EvictVictim
  <1>3. Named \in Objects
    BY <1>0, <1>1, NamedIsResident
  <1>4. Entry(Named)
    BY <1>2 DEF Evict, Resident
  <1>5. PICK home \in LabMeta : home = Home(Named) /\ home.size = Meta0(Named).size /\ home.at = 0 /\ home # NoMeta
    BY <1>0, <1>3, <1>4, HomeTyped
  <1>6. Tables' /\ IsSet(Named, home) /\ Resident(Named)
    BY <1>0, <1>2, <1>3, <1>5, EvictEffect
  <1>7. Faulting
    BY <1>2 DEF Faulting
  <1>8. job.id \in Objects /\ Entry(job.id) /\ ~Resident(job.id) /\ job.phase # "destroy"
    BY <1>0, <1>7, FaultingJob
  <1>9. Entry(job.id)' /\ ~Resident(job.id)'
    <2>1. job.id # Named
      BY <1>6, <1>8
    <2>2. (Entry(job.id)' <=> Entry(job.id)) /\ (Resident(job.id)' <=> Resident(job.id))
      <3>1. table'[job.id] = table[job.id]
        BY <1>6, <1>8, <2>1 DEF IsSet, Entry, Resident
      <3> QED
        BY <1>2, <3>1 DEF Entry, Resident
    <2> QED
      BY <1>8, <2>2
  <1>10. Jobs'
    BY <1>0, <1>2, <1>7, <1>9, FaultingJob DEF Jobs
  <1>11. Numbers'
    BY <1>0, <1>1, <1>2, CountsMoved, OutMoved, Zenon DEF Numbers
  <1>12. Streams'
    BY <1>0, <1>1 DEF Streams
  <1>13. Verbs'
    BY <1>0, <1>1, <1>2, VerbsSame DEF Faulting
  <1> QED
    BY <1>3, <1>5, <1>6, <1>7, <1>10, <1>11, <1>12, <1>13 DEF LabTyped

LEMMA PlacedTyped ==
  ASSUME LabTyped, LabPlaced
  PROVE  LabTyped' /\ HintSet(job.id, clock, clock, NextAfter(stream, job.id))
  <1>0. Tables /\ Jobs /\ Numbers /\ Streams /\ Verbs
    BY DEF LabTyped
  <1>1. /\ Placed /\ UNCHANGED <<limit, clock, policy>>
        /\ hints' = [hints EXCEPT ![job.id] = [placed |-> clock, used |-> clock,
                                               next |-> NextAfter(stream, job.id)]]
        /\ counts' = [counts EXCEPT !.fetched = @ + Bytes0(job.id)]
        /\ Done([out EXCEPT !.reads = @ + 1, !.bytes = @ + table[job.id].size])
    BY DEF LabPlaced
  <1>2. job.phase = "place" /\ Tables' /\ UNCHANGED env /\ job' = Idle
    BY <1>0, <1>1, PlacedEffect DEF Numbers
  <1>3. Faulting
    BY <1>2 DEF Faulting
  <1>4. job.id \in Objects /\ Entry(job.id)
    BY <1>0, <1>3, FaultingJob
  <1>5. PICK size \in Nat : size = table[job.id].size
    BY <1>0, <1>4, EntryTyped
  <1>6. PICK result \in OutOf : result = [out EXCEPT !.reads = @ + 1, !.bytes = @ + size]
    BY <1>0, OutMoved, Zenon DEF Numbers
  <1>7. Replaying => verb.at <= Len(stream.declared)
    BY <1>0, <1>3, Replays DEF ReplayVerb
  <1>8. out' \in OutOf /\ Streams' /\ Verbs'
    BY <1>0, <1>1, <1>2, <1>5, <1>6, <1>7, DoneTyped DEF Numbers
  <1>9. counts' \in CountsOf
    BY <1>0, <1>1, <1>4, Bytes0Typed, CountsMoved, Zenon DEF Numbers
  <1>10. clock \in Nat /\ NextAfter(stream, job.id) \in NextUses
    BY <1>0, NextAfterTyped DEF Numbers
  <1>11. HintSet(job.id, clock, clock, NextAfter(stream, job.id))
    <2>1. PICK now \in Nat, next \in NextUses : now = clock /\ next = NextAfter(stream, job.id)
      BY <1>10
    <2>2. PICK h : h = [placed |-> now, used |-> now, next |-> next]
      BY Zenon
    <2>3. h \in HintOf /\ h.placed = now /\ h.used = now /\ h.next = next
      BY <2>2 DEF HintOf
    <2>4. hints' = [hints EXCEPT ![job.id] = h]
      BY <1>1, <2>1, <2>2
    <2> QED
      BY <1>0, <1>4, <2>1, <2>3, <2>4, HintsSet, Zenon
  <1>12. Numbers'
    BY <1>0, <1>1, <1>2, <1>8, <1>9, <1>11 DEF Numbers, HintSet
  <1>13. Jobs'
    BY <1>2 DEF Jobs
  <1> QED
    BY <1>2, <1>8, <1>11, <1>12, <1>13 DEF LabTyped

LEMMA NotPlacedTyped ==
  ASSUME LabTyped, LabNotPlaced
  PROVE  LabTyped'
  <1>0. Tables /\ Jobs /\ Numbers /\ Streams /\ Verbs
    BY DEF LabTyped
  <1>1. /\ NotPlaced /\ UNCHANGED <<limit, clock, hints, policy, counts>>
        /\ \/ Done([out EXCEPT !.refused = @ + 1])
           \/ verb' = Waiting /\ UNCHANGED <<out, stream, sim>>
    BY DEF LabNotPlaced
  <1>2. job.phase = "place" /\ Tables' /\ UNCHANGED env /\ job' = Idle
    BY <1>0, <1>1, NotPlacedEffect
  <1>3. Faulting /\ job'.phase # "destroy"
    BY <1>2 DEF Faulting, Idle
  <1>4. Replaying => verb.at <= Len(stream.declared)
    BY <1>0, <1>3, Replays DEF ReplayVerb
  <1>5. PICK result \in OutOf : result = [out EXCEPT !.refused = @ + 1]
    BY <1>0, OutMoved, Zenon DEF Numbers
  <1>6. out' \in OutOf /\ Streams' /\ Verbs'
    <2>1. CASE Done(result)
      BY <1>0, <1>2, <1>4, <2>1, DoneTyped DEF Numbers
    <2>2. CASE verb' = Waiting /\ UNCHANGED <<out, stream, sim>>
      BY <1>0, <1>3, <2>2 DEF Numbers, Streams, Verbs
    <2> QED
      BY <1>1, <1>5, <2>1, <2>2
  <1>7. Numbers'
    BY <1>0, <1>1, <1>2, <1>6 DEF Numbers
  <1>8. Jobs'
    BY <1>2 DEF Jobs
  <1> QED
    BY <1>2, <1>6, <1>7, <1>8 DEF LabTyped

LEMMA ClampTyped ==
  ASSUME NEW budget \in Nat
  PROVE  Clamp(budget) \in Nat
  <1>1. PICK least : least = Min({budget, Capacity})
    OBVIOUS
  <1>2. least \in Nat
    <2>1. {budget, Capacity} \in SUBSET Nat /\ {budget, Capacity} # {}
      BY ManagerAssumption
    <2> QED
      BY <1>1, <2>1, LeastMember
  <1>3. Floor \in Nat
    BY LabAssumption
  <1> QED
    BY <1>1, <1>2, <1>3, MaxOfTwo DEF Clamp

\* A new manager: the model's objects, none resident, and no session.
LEMMA ModelTyped ==
  ASSUME LabTyped, NEW budget \in Budgets, Model(budget)
  PROVE  /\ LabTyped'
         /\ \A id \in Objects : /\ ~Resident(id)'
                                /\ Entry(id)' => InModel(id) /\ table'[id].share = 0
         /\ LiveIn(sessions)' = {}
  <1>0. Numbers /\ Streams /\ Verbs /\ Jobs
    BY DEF LabTyped
  <1>1. Clamp(budget) \in Nat
    BY LabAssumption, ClampTyped
  <1>2. /\ limit' = Clamp(budget) /\ free' = <<[at |-> 0, len |-> Clamp(budget)]>>
        /\ table' = [id \in Objects |-> IF InModel(id) THEN Meta0(id) ELSE NoMeta]
        /\ sessions' = NoSessions /\ clock' = 0 /\ hints' = [id \in Objects |-> NoHint]
        /\ stream' = NoStream /\ policy' = "demand" /\ counts' = Counts0
        /\ UNCHANGED <<env, job, verb, out>> /\ verb = Waiting /\ job = Idle
    BY DEF Model, Typed
  <1>3. free' \in Seq(Hole)
    <2>1. PICK h \in Hole : h = [at |-> 0, len |-> Clamp(budget)]
      BY <1>1, NewHole, Zenon
    <2>2. <<h>> \in Seq(Hole)
      OBVIOUS
    <2> QED
      BY <1>2, <2>1, <2>2
  <1>4. sessions' \in [SessionIds -> Session] /\ LiveIn(sessions)' = {}
    BY <1>2 DEF NoSessions, NoSession, Session, LiveIn
  <1>5. ASSUME NEW id \in Objects
        PROVE  /\ table'[id] \in {NoMeta} \cup LabMeta
               /\ Entry(id)' => InModel(id) /\ table'[id] = Meta0(id)
    BY <1>2, Meta0Typed DEF Entry
  <1>6. ASSUME NEW id \in Objects
        PROVE  ~Resident(id)' /\ (Entry(id)' => InModel(id) /\ table'[id].size = Meta0(id).size /\ table'[id].share = 0)
    BY <1>5, Meta0Typed DEF Resident
  <1>7. table' \in [Objects -> {NoMeta} \cup LabMeta]
    BY <1>2, <1>5
  <1>8. Tables'
    BY <1>3, <1>4, <1>6, <1>7 DEF Tables
  <1>9. Jobs'
    BY <1>2 DEF Jobs
  <1>10. Numbers'
    BY <1>0, <1>1, <1>2, NoHintTyped DEF Numbers, Counts0, CountsOf, PolicyNames
  <1>11. Streams'
    BY <1>2 DEF Streams, NoStream
  <1>12. Verbs'
    BY <1>2 DEF Verbs, Idle
  <1> QED
    BY <1>4, <1>6, <1>8, <1>9, <1>10, <1>11, <1>12 DEF LabTyped

LEMMA LiveFinite ==
  ASSUME NEW ss
  PROVE  IsFiniteSet(LiveIn(ss)) /\ Cardinality(LiveIn(ss)) \in Nat /\ LiveIn(ss) \subseteq SessionIds
  <1>1. IsFiniteSet(SessionIds)
    BY MaxIdAssumption, FS_Interval DEF SessionIds
  <1>2. LiveIn(ss) \subseteq SessionIds
    BY DEF LiveIn
  <1> QED
    BY <1>1, <1>2, FS_Subset, FS_CardinalityType

\* What a replay makes of the sessions: those its order names, adopted.
LEMMA Adopted ==
  ASSUME NEW ss \in [SessionIds -> Session], NEW names,
         NEW after, after = [s \in SessionIds |->
            IF s \in names /\ ~Known(ss, s)
            THEN Adopt(ss, s, [ceiling |-> 0, context |-> 0, floor |-> 6])[s] ELSE ss[s]]
  PROVE  after \in [SessionIds -> Session] /\ LiveIn(after) = LiveIn(ss) \cup (names \cap SessionIds)
  <1>1. ASSUME NEW s \in SessionIds
        PROVE  /\ Adopt(ss, s, [ceiling |-> 0, context |-> 0, floor |-> 6])[s] \in Session
               /\ Adopt(ss, s, [ceiling |-> 0, context |-> 0, floor |-> 6])[s].live
    <2>1. PICK c \in Contract : c = [ceiling |-> 0, context |-> 0, floor |-> 6]
      BY DEF Contract, Precision
    <2>2. PICK r : r = [live |-> TRUE, contract |-> c, resident |-> 0, peak |-> 0,
                        coarsest |-> 1, rung |-> 0, deepest |-> 0]
      BY Zenon
    <2>3. r \in Session /\ r.live
      BY <2>2 DEF Session, Precision
    <2>4. Adopt(ss, s, c)[s] = r
      BY <2>2 DEF Adopt
    <2> QED
      BY <2>1, <2>3, <2>4
  <1>2. after \in [SessionIds -> Session]
    BY <1>1
  <1>3. \A s \in SessionIds : after[s].live <=> ss[s].live \/ s \in names
    BY <1>1 DEF Known
  <1> QED
    BY <1>2, <1>3 DEF LiveIn

LEMMA ReplayTyped ==
  ASSUME LabTyped, NEW order \in Traces, NEW name \in Policies, Replay(name, order)
  PROVE  LabTyped' /\ LiveIn(sessions)' = LiveIn(sessions) \cup (NamedIn(order) \cap SessionIds)
  <1>0. Tables /\ Jobs /\ Numbers /\ Streams /\ Verbs
    BY DEF LabTyped
  <1>1. /\ policy' = name /\ stream' = Declare(order) /\ out' = Replayed0 /\ job = Idle
        /\ sessions' = [s \in SessionIds |->
             IF s \in NamedIn(order) /\ ~Known(sessions, s)
             THEN Adopt(sessions, s, [ceiling |-> 0, context |-> 0, floor |-> 6])[s] ELSE sessions[s]]
        /\ verb' = [name |-> "replay", at |-> 1, fresh |-> clock = 0,
                    before |-> Cardinality(LiveIn(sessions)),
                    head |-> [ps |-> 0, ks |-> 0, ss |-> 0]]
        /\ UNCHANGED <<table, free, env, job, limit, clock, hints, counts>>
    BY DEF Replay, Typed
  <1>2. sessions' \in [SessionIds -> Session] /\ LiveIn(sessions)' = LiveIn(sessions) \cup (NamedIn(order) \cap SessionIds)
    <2>1. PICK names : names = NamedIn(order)
      OBVIOUS
    <2>2. LiveIn(sessions)' = LiveIn(sessions')
      OBVIOUS
    <2> QED
      BY <1>0, <1>1, <2>1, <2>2, Adopted, Zenon DEF Tables
  <1>3. Tables'
    BY <1>0, <1>1, <1>2, TablesSame
  <1>4. Jobs'
    BY <1>1 DEF Jobs
  <1>5. name \in PolicyNames /\ order \in Seq(Objects)
    BY LabAssumption
  <1>6. Numbers'
    BY <1>0, <1>1, <1>5 DEF Numbers, Replayed0, OutOf
  <1>7. Chain(order) \in Seq(Int) /\ Len(Chain(order)) = Len(order)
    BY <1>5, ChainValue
  <1>8. stream' = [declared |-> order, next |-> Chain(order), cursor |-> 0]
    BY <1>1 DEF Declare
  <1>9. Streams'
    BY <1>5, <1>7, <1>8 DEF Streams
  <1>10. Verbs'
    <2>1. verb' \in [name : {"replay"}, at : Nat \ {0}, fresh : BOOLEAN, before : Nat,
                     head : [ps : Nat, ks : Nat, ss : Nat]] /\ verb'.at = 1
      BY <1>1, LiveFinite
    <2>2. PICK l \in Nat : l = Len(stream'.declared)
      BY <1>5, <1>8, LenProperties
    <2>3. verb'.at <= l + 2 /\ stream'.cursor = verb'.at - 1 /\ stream'.next = Chain(stream'.declared)
      BY <1>8, <2>1, <2>2
    <2>4. ~Faulting' /\ job'.phase # "destroy"
      BY <1>1 DEF Faulting, Idle
    <2> QED
      BY <2>1, <2>2, <2>3, <2>4 DEF Verbs
  <1> QED
    BY <1>2, <1>3, <1>4, <1>6, <1>9, <1>10 DEF LabTyped

LEMMA CurrentTyped ==
  ASSUME Streams, Verbs, Replaying, verb.at <= Len(stream.declared)
  PROVE  Current \in Objects /\ verb.at \in 1 .. Len(stream.declared)
  <1>1. verb.at \in Nat \ {0}
    BY Replays
  <1>2. stream.declared \in Seq(Objects)
    BY DEF Streams
  <1>3. verb.at \in 1 .. Len(stream.declared)
    BY <1>1, <1>2
  <1> QED
    BY <1>2, <1>3, ElementOfSeq DEF Current

LEMMA EnterTyped ==
  ASSUME LabTyped, Enter
  PROVE  /\ LabTyped' /\ Current \in Objects /\ IsSet(Current, Meta0(Current))
         /\ HintSet(Current, 0, 0, Never) /\ Replaying
  <1>0. Tables /\ Jobs /\ Numbers /\ Streams /\ Verbs
    BY DEF LabTyped
  <1>1. /\ Replaying /\ job = Idle /\ verb.at <= Len(stream.declared)
        /\ table' = [table EXCEPT ![Current] = Meta0(Current)]
        /\ hints' = [hints EXCEPT ![Current] = NoHint]
        /\ UNCHANGED <<free, sessions, env, job, limit, clock, stream, policy, counts, verb, out>>
    BY DEF Enter, Running, Replaying
  <1>2. Current \in Objects
    BY <1>0, <1>1, CurrentTyped
  <1>3. PICK m \in LabMeta : m = Meta0(Current) /\ m.size = Meta0(Current).size /\ m.at = 0
    BY <1>2, Meta0Typed
  <1>4. Tables' /\ IsSet(Current, m)
    <2>1. free' \in Seq(Hole) /\ sessions' \in [SessionIds -> Session]
      BY <1>0, <1>1 DEF Tables
    <2> QED
      BY <1>0, <1>1, <1>2, <1>3, <2>1, TableSet, Zenon
  <1>5. HintSet(Current, 0, 0, Never)
    BY <1>0, <1>1, <1>2, HintsSet, NoHintTyped, Zenon
  <1>6. Jobs'
    BY <1>1 DEF Jobs
  <1>7. Numbers'
    BY <1>0, <1>1, <1>5 DEF Numbers, HintSet
  <1>8. Streams'
    BY <1>0, <1>1 DEF Streams
  <1>9. Verbs'
    BY <1>0, <1>1, VerbsSame DEF Faulting
  <1> QED
    BY <1>1, <1>2, <1>3, <1>4, <1>5, <1>6, <1>7, <1>8, <1>9 DEF LabTyped

LEMMA NotEnteredTyped ==
  ASSUME LabTyped, NotEntered
  PROVE  LabTyped'
  <1>0. Tables /\ Jobs /\ Numbers /\ Streams /\ Verbs
    BY DEF LabTyped
  <1>1. /\ job = Idle /\ verb.at <= Len(stream.declared)
        /\ Done([out EXCEPT !.refused = @ + 1])
        /\ UNCHANGED <<vars, limit, clock, hints, policy, counts>>
    BY DEF NotEntered, Running
  <1>2. Tables' /\ Jobs'
    BY <1>0, <1>1, TablesSame DEF Tables, Jobs, vars
  <1>3. PICK result \in OutOf : result = [out EXCEPT !.refused = @ + 1]
    BY <1>0, OutMoved, Zenon DEF Numbers
  <1>4. out' \in OutOf /\ Streams' /\ Verbs'
    BY <1>0, <1>1, <1>3, DoneTyped DEF Numbers, vars
  <1>5. Numbers'
    BY <1>0, <1>1, <1>4 DEF Numbers, vars
  <1> QED
    BY <1>2, <1>4, <1>5 DEF LabTyped

-----------------------------------------------------------------------------
(* The end of a replay. *)

LEMMA KvBytesTyped ==
  ASSUME Tables
  PROVE  KvBytes \in Nat
  <1> DEFINE S == {id \in ResidentSet : Class[id] = "kv"}
  <1>1. IsFiniteSet(S)
    BY ObjectsAre, FS_Subset
  <1>2. \A id \in S : table[id].size \in Nat
    BY EntryTyped DEF ResidentSet, Resident
  <1>3. KvBytes = SizeSum(table, S)
    BY DEF KvBytes, SizeSum
  <1> HIDE DEF S
  <1> QED
    BY <1>1, <1>2, <1>3, SumWithout

LEMMA HeadlineTyped ==
  ASSUME NEW applied \in Nat, NEW read \in Nat, NEW kv \in Nat, NEW live \in Nat, NEW budget \in Nat
  PROVE  Headline(applied, read, kv, live, budget) \in [ps : Nat, ks : Nat, ss : Nat]
  <1>1. applied * 1000 \in Nat /\ live * 1000 \in Nat
    OBVIOUS
  <1>2. (IF read = 0 THEN 0 ELSE (applied * 1000) \div read) \in Nat
    BY <1>1, DivNat
  <1>3. (IF live = 0 THEN 0 ELSE kv \div live) \in Nat
    BY DivNat
  <1>4. (IF budget = 0 THEN 0 ELSE (live * 1000) \div budget) \in Nat
    BY <1>1, DivNat
  <1> QED
    BY <1>2, <1>3, <1>4 DEF Headline

LEMMA ReplayEndsTyped ==
  ASSUME LabTyped, ReplayEnds
  PROVE  /\ LabTyped' /\ Replaying /\ job = Idle /\ verb.at = Len(stream.declared) + 1
         /\ verb'.name = "replay" /\ verb'.at = verb.at + 1 /\ verb'.fresh = verb.fresh
         /\ verb'.head = Headline(counts.fetched + counts.hits, counts.fetched, KvBytes,
                                  Cardinality(LiveIn(sessions)), limit)
         /\ job'.phase = "destroy" /\ Doomed' = LiveIn(sessions)
         /\ UNCHANGED <<table, free, sessions, env, limit, clock, hints, stream, policy, ring, counts, out, sim>>
  <1>0. Tables /\ Jobs /\ Numbers /\ Streams /\ Verbs
    BY DEF LabTyped
  <1> DEFINE head == Headline(counts.fetched + counts.hits, counts.fetched, KvBytes,
                              Cardinality(LiveIn(sessions)), limit)
  <1>1. /\ Replaying /\ job = Idle /\ verb.at = Len(stream.declared) + 1
        /\ verb' = [verb EXCEPT !.at = @ + 1, !.head = head]
        /\ DestroyAllSessions
        /\ UNCHANGED <<limit, clock, hints, stream, policy, ring, counts, out, sim>>
    BY DEF ReplayEnds, Running, Replaying
  <1>2. PICK s \in LiveIn(sessions) : job' = Destroy(s, LiveIn(sessions) \ {s}, 0)
    BY <1>1, Zenon DEF DestroyAllSessions
  <1>3. UNCHANGED <<table, free, sessions, env>>
    BY <1>1 DEF DestroyAllSessions
  <1>4. s \in 0 .. MaxId /\ LiveIn(sessions) \ {s} \in SUBSET SessionIds
    BY LiveFinite, MaxIdAssumption DEF SessionIds
  <1>5. job' = [phase |-> "destroy", session |-> s, rest |-> LiveIn(sessions) \ {s}, gone |-> 0]
    BY <1>2 DEF Destroy
  <1>6. Jobs' /\ job'.phase = "destroy" /\ ~Faulting' /\ Doomed' = LiveIn(sessions)
    BY <1>4, <1>5 DEF Jobs, DestroyJob, Faulting, Doomed
  <1>7. head \in [ps : Nat, ks : Nat, ss : Nat]
    <2>1. counts.fetched + counts.hits \in Nat /\ counts.fetched \in Nat /\ limit \in Nat
      BY <1>0 DEF Numbers, CountsOf
    <2> QED
      BY <1>0, <2>1, KvBytesTyped, LiveFinite, HeadlineTyped, Zenon
  <1> HIDE DEF head
  <1>8. ReplayVerb
    BY <1>0, <1>1, Replays
  <1>9. /\ verb' \in [name : {"replay"}, at : Nat \ {0}, fresh : BOOLEAN, before : Nat,
                      head : [ps : Nat, ks : Nat, ss : Nat]]
        /\ verb'.name = "replay" /\ verb'.at = verb.at + 1 /\ verb'.fresh = verb.fresh /\ verb'.head = head
    <2>1. verb \in [name : {"replay"}, at : Nat \ {0}, fresh : BOOLEAN, before : Nat,
                    head : [ps : Nat, ks : Nat, ss : Nat]]
      BY <1>8 DEF ReplayVerb
    <2>2. PICK n \in Nat \ {0} : n = verb.at + 1
      BY <2>1
    <2>3. verb' = [verb EXCEPT !.at = n, !.head = head]
      BY <1>1, <2>2
    <2> QED
      BY <1>7, <2>1, <2>2, <2>3, Zenon
  <1>10. PICK l \in Nat : l = Len(stream.declared)
    BY <1>0, LenProperties DEF Streams
  <1>11. verb'.at = l + 2
    BY <1>1, <1>9, <1>10
  <1>12. Verbs'
    <2>1. stream' = stream /\ stream.next = Chain(stream.declared)
      BY <1>1, <1>8 DEF ReplayVerb
    <2> QED
      BY <1>6, <1>9, <1>10, <1>11, <2>1 DEF Verbs
  <1>13. Tables'
    BY <1>0, <1>3, TablesSame DEF Tables
  <1>14. Numbers' /\ Streams'
    BY <1>0, <1>1, <1>3 DEF Numbers, Streams
  <1> QED
    BY <1>1, <1>3, <1>6, <1>9, <1>12, <1>13, <1>14 DEF LabTyped, head

\* Steps that only end or begin a verb, or move the stream between two.
LEMMA VerbTyped ==
  ASSUME LabTyped, ReplayReturns \/ SweepReturns \/ SweepBegins \/ StreamVerb
  PROVE  /\ LabTyped' /\ job = Idle /\ ~(verb'.name = "replay")
         /\ UNCHANGED <<vars, limit, clock, hints, policy, ring, counts, out, sim>>
         /\ Replaying => ReplayReturns /\ verb.at = Len(stream.declared) + 2
  <1>0. Tables /\ Jobs /\ Numbers /\ Streams /\ Verbs
    BY DEF LabTyped
  <1>1. /\ job = Idle /\ UNCHANGED <<vars, limit, clock, hints, policy, ring, counts, out, sim>>
        /\ verb' = Waiting \/ verb' = [name |-> "sweep", at |-> 1]
        /\ Streams'
    <2>1. CASE ReplayReturns \/ SweepReturns
      BY <1>0, <2>1 DEF ReplayReturns, SweepReturns, Running, Streams
    <2>2. CASE SweepBegins
      BY <1>0, <2>2 DEF SweepBegins, Typed, Streams
    <2>3. CASE StreamVerb
      <3>1. /\ job = Idle /\ verb' = Waiting
            /\ UNCHANGED <<vars, limit, clock, hints, policy, ring, counts, out, sim>>
            /\ stream' = Declare(Tiles) \/ stream' = Advance(stream, 1)
        BY <2>3 DEF StreamVerb, Typed
      <3>2. CASE stream' = Declare(Tiles)
        <4>1. Tiles \in Seq(Objects) /\ Chain(Tiles) \in Seq(Int) /\ Len(Chain(Tiles)) = Len(Tiles)
          BY LabAssumption, ChainValue
        <4>2. stream' = [declared |-> Tiles, next |-> Chain(Tiles), cursor |-> 0]
          BY <3>2 DEF Declare
        <4> QED
          BY <3>1, <4>1, <4>2 DEF Streams
      <3>3. CASE stream' = Advance(stream, 1)
        <4>1. /\ stream \in [declared : Seq(Objects), next : Seq(Int), cursor : Nat]
              /\ Len(stream.next) = Len(stream.declared)
          BY <1>0 DEF Streams
        <4>2. /\ stream' \in [declared : Seq(Objects), next : Seq(Int), cursor : Nat]
              /\ stream'.declared = stream.declared /\ stream'.next = stream.next
          BY <3>3, <4>1 DEF Advance
        <4> QED
          BY <3>1, <4>1, <4>2 DEF Streams
      <3> QED
        BY <3>1, <3>2, <3>3
    <2> QED
      BY <2>1, <2>2, <2>3
  <1>2. Tables'
    BY <1>0, <1>1, TablesSame DEF Tables, vars
  <1>3. Jobs'
    BY <1>1 DEF Jobs, vars
  <1>4. Numbers'
    BY <1>0, <1>1 DEF Numbers, vars
  <1>5. Verbs' /\ ~(verb'.name = "replay")
    BY <1>1 DEF Verbs, Waiting, vars, Idle
  <1>6. Replaying => ReplayReturns /\ verb.at = Len(stream.declared) + 2
    BY DEF Replaying, ReplayReturns, SweepReturns, SweepBegins, StreamVerb, Running, Typed, Waiting
  <1> QED
    BY <1>1, <1>2, <1>3, <1>4, <1>5, <1>6 DEF LabTyped

LEMMA DestroyNextTyped2 ==
  ASSUME LabTyped, LabDestroyNext
  PROVE  LabTyped'
  <1>0. Tables /\ Jobs /\ Numbers /\ Streams /\ Verbs
    BY DEF LabTyped
  <1>1. (DestroyRefused \/ DestroyDone) /\ UNCHANGED labvars
    BY DEF LabDestroyNext
  <1>2. job.phase = "destroy" /\ Jobs' /\ ~Faulting' /\ Tables' /\ UNCHANGED env
    BY <1>0, <1>1, DestroyNextEffect
  <1>3. Numbers' /\ Streams'
    BY <1>0, <1>1, <1>2 DEF Numbers, Streams, labvars
  <1>4. Verbs'
    BY <1>0, <1>1, <1>2, VerbsSame DEF labvars
  <1> QED
    BY <1>2, <1>3, <1>4 DEF LabTyped

LEMMA DestroyTyped ==
  ASSUME LabTyped, NEW id \in Objects, LabDestroyObject(id)
  PROVE  LabTyped' /\ HintSet(id, 0, 0, Never)
  <1>0. Tables /\ Jobs /\ Numbers /\ Streams /\ Verbs
    BY DEF LabTyped
  <1>1. /\ DestroyObject(id)
        /\ hints' = [hints EXCEPT ![id] = NoHint]
        /\ counts' = IF Resident(id) THEN [counts EXCEPT !.evictions = @ + 1] ELSE counts
        /\ UNCHANGED <<limit, clock, stream, policy, verb, out>>
    BY DEF LabDestroyObject
  <1>2. job.phase = "destroy" /\ job'.phase = "destroy" /\ Jobs' /\ Tables' /\ UNCHANGED env
    BY <1>0, <1>1, DestroyObjectEffect
  <1>3. HintSet(id, 0, 0, Never)
    BY <1>0, <1>1, HintsSet, NoHintTyped, Zenon
  <1>4. counts' \in CountsOf
    BY <1>0, <1>1, CountsMoved, Zenon DEF Numbers
  <1>5. Numbers' /\ Streams'
    BY <1>0, <1>1, <1>2, <1>3, <1>4 DEF Numbers, Streams, HintSet
  <1>6. ~Faulting'
    BY <1>2 DEF Faulting
  <1>7. Verbs'
    BY <1>0, <1>1, <1>2, <1>6, VerbsSame
  <1> QED
    BY <1>2, <1>3, <1>5, <1>7 DEF LabTyped

-----------------------------------------------------------------------------
(* Verbs of one tile. *)

LEMMA LetGoTyped ==
  ASSUME LabTyped, NEW id \in Objects, LetGo(id)
  PROVE  /\ LabTyped' /\ verb = Waiting /\ verb' = Waiting /\ job = Idle /\ job' = Idle
         /\ \A o \in Objects : (Entry(o)' <=> Entry(o)) /\ (Resident(o)' <=> Resident(o))
         /\ \A o \in Objects : table[o].share = 0 => table'[o].share = 0
         /\ UNCHANGED <<free, sessions, limit, clock, hints, stream, policy, ring, counts, verb, out, sim>>
  <1>0. Tables /\ Jobs /\ Numbers /\ Streams /\ Verbs
    BY DEF LabTyped
  <1>1. /\ verb = Waiting /\ job = Idle /\ Entry(id) /\ table' = [table EXCEPT ![id] = Lowered(id)]
        /\ UNCHANGED <<free, sessions, env, job, limit, clock, hints, stream, policy, ring, counts, verb, out, sim>>
    BY DEF LetGo, Typed, Release
  <1>2. PICK e \in LabMeta : e = table[id] /\ e.size = Meta0(id).size /\ e.share \in Nat
                             /\ (e.at # 0 => e.at >= Base) /\ e # NoMeta
    BY <1>0, <1>1, EntryTyped DEF Tables, Resident, Entry
  <1>3. PICK s \in Nat : s = SatSub(e.share, 1) /\ (e.share = 0 => s = 0)
    BY <1>2 DEF SatSub
  <1>4. PICK m : m = [e EXCEPT !.share = s]
    BY Zenon
  <1>5. m \in LabMeta /\ m.size = e.size /\ m.at = e.at /\ m.share = s
    BY <1>2, <1>3, <1>4 DEF LabMeta
  <1>6. PICK n : n = Lowered(id)
    OBVIOUS
  <1>7. n = m \/ n = e
    BY <1>2, <1>3, <1>4, <1>6 DEF Lowered
  <1>8. n \in LabMeta /\ n.size = e.size /\ n.at = e.at /\ (e.share = 0 => n.share = 0)
    BY <1>2, <1>3, <1>5, <1>7
  <1>9. n # NoMeta
    BY <1>8 DEF LabMeta, NoMeta
  <1>10. Tables' /\ IsSet(id, n)
    <2>1. free' \in Seq(Hole) /\ sessions' \in [SessionIds -> Session]
      BY <1>0, <1>1 DEF Tables
    <2> QED
      BY <1>0, <1>1, <1>2, <1>6, <1>8, <2>1, TableSet, Zenon
  <1>11. \A o \in Objects : (Entry(o)' <=> Entry(o)) /\ (Resident(o)' <=> Resident(o))
    BY <1>1, <1>2, <1>8, <1>9, <1>10 DEF IsSet, Entry, Resident
  <1>12. \A o \in Objects : table[o].share = 0 => table'[o].share = 0
    BY <1>2, <1>8, <1>10 DEF IsSet, Entry, Resident
  <1>13. Jobs'
    BY <1>1 DEF Jobs
  <1>14. Numbers' /\ Streams'
    BY <1>0, <1>1 DEF Numbers, Streams
  <1>15. Verbs'
    BY <1>1 DEF Verbs, Idle
  <1> QED
    BY <1>1, <1>10, <1>11, <1>12, <1>13, <1>14, <1>15 DEF LabTyped

LEMMA EvictVerbTyped ==
  ASSUME LabTyped, NEW id \in Objects, EvictVerb(id)
  PROVE  /\ LabTyped' /\ verb = Waiting /\ verb' = Waiting /\ job = Idle /\ job' = Idle
         /\ IsSet(id, Home(id)) /\ Resident(id)
         /\ UNCHANGED <<limit, clock, hints, stream, policy, verb, out, sim>>
  <1>0. Tables /\ Jobs /\ Numbers /\ Streams /\ Verbs
    BY DEF LabTyped
  <1>1. /\ verb = Waiting /\ job = Idle /\ Evict(id, Home(id))
        /\ counts' = [counts EXCEPT !.evictions = @ + 1]
        /\ UNCHANGED <<env, job, limit, clock, hints, stream, policy, verb, out, sim>>
    BY DEF EvictVerb, Typed, EvictOne
  <1>2. Entry(id) /\ Resident(id)
    BY <1>1 DEF Evict, Resident
  <1>3. PICK home \in LabMeta : home = Home(id) /\ home.size = Meta0(id).size /\ home.at = 0 /\ home # NoMeta
    BY <1>0, <1>2, HomeTyped
  <1>4. Tables' /\ IsSet(id, home)
    BY <1>0, <1>1, <1>3, EvictEffect
  <1>5. Jobs' /\ job' = Idle
    BY <1>1 DEF Jobs
  <1>6. Numbers' /\ Streams'
    BY <1>0, <1>1, CountsMoved, Zenon DEF Numbers, Streams
  <1>7. Verbs'
    BY <1>1 DEF Verbs, Idle
  <1> QED
    BY <1>1, <1>2, <1>3, <1>4, <1>5, <1>6, <1>7 DEF LabTyped

-----------------------------------------------------------------------------
(* Accesses, whoever makes them. *)

\* The accesses of a replay, of a sweep and of `get`.
Accessed(id, once) == \E lease \in LeaseKinds : AcquireBy(id, lease, once)

LEMMA Accesses ==
  ASSUME LabTyped, ReplayStep \/ SweepStep \/ \E id \in Objects : Get(id)
  PROVE  \E id \in Objects, once \in BOOLEAN : Accessing(id, once) /\ Accessed(id, once)
  <1>0. Streams /\ Verbs
    BY DEF LabTyped
  <1>1. CASE ReplayStep
    <2>1. Replaying /\ job = Idle /\ verb.at <= Len(stream.declared) /\ AcquireBy(Current, "Streaming", TRUE)
      BY <1>1, Zenon DEF ReplayStep, Running, Replaying
    <2>2. Current \in Objects
      BY <1>0, <2>1, CurrentTyped
    <2>3. "Streaming" \in LeaseKinds
      BY DEF LeaseKinds
    <2> QED
      BY <2>1, <2>2, <2>3, Zenon DEF Accessing, Accessed
  <1>2. CASE SweepStep
    <2>1. ~Replaying /\ job = Idle /\ verb.at <= Len(Tiles) /\ AcquireBy(Tiles[verb.at], "Streaming", TRUE) /\ verb.name = "sweep"
      BY <1>2, Zenon DEF SweepStep, Running, Replaying
    <2>2. verb.at \in Nat \ {0}
      BY <1>0, <2>1 DEF Verbs, Waiting
    <2>3. Tiles \in Seq(Objects)
      BY LabAssumption
    <2>4. verb.at \in 1 .. Len(Tiles)
      BY <2>1, <2>2, <2>3
    <2>5. Tiles[verb.at] \in Objects
      BY <2>3, <2>4, ElementOfSeq
    <2>6. "Streaming" \in LeaseKinds
      BY DEF LeaseKinds
    <2> QED
      BY <2>1, <2>5, <2>6, Zenon DEF Accessing, Accessed
  <1>3. CASE \E id \in Objects : Get(id)
    <2>1. PICK id \in Objects : Get(id)
      BY <1>3
    <2>2. verb = Waiting /\ job = Idle /\ AcquireBy(id, "Pin", FALSE)
      BY <2>1, Zenon DEF Get, Typed
    <2>3. ~Replaying /\ "Pin" \in LeaseKinds
      BY <2>2 DEF Waiting, LeaseKinds, Replaying
    <2> QED
      BY <2>2, <2>3, Zenon DEF Accessing, Accessed
  <1> QED
    BY <1>1, <1>2, <1>3

LEMMA LabInitTyped ==
  ASSUME LabInit
  PROVE  /\ LabTyped /\ job = Idle /\ clock = 0 /\ verb = Waiting /\ limit = 0
         /\ \A id \in Objects : ~Entry(id) /\ ~Resident(id)
         /\ LiveIn(sessions) = {} /\ counts = Counts0 /\ ring = NoRing
  <1>1. /\ table = [id \in Objects |-> NoMeta] /\ free = <<[at |-> 0, len |-> Capacity]>>
        /\ sessions = NoSessions /\ env \in Envs /\ job = Idle
        /\ limit = 0 /\ clock = 0 /\ hints = [id \in Objects |-> NoHint]
        /\ stream = NoStream /\ policy = "demand" /\ counts = Counts0
        /\ verb = Waiting /\ out = Replayed0 /\ ring = NoRing
    BY DEF LabInit, Init
  <1>2. free \in Seq(Hole)
    <2>1. PICK h \in Hole : h = [at |-> 0, len |-> Capacity]
      BY ManagerAssumption, NewHole, Zenon
    <2>2. <<h>> \in Seq(Hole)
      OBVIOUS
    <2> QED
      BY <1>1, <2>1, <2>2
  <1>3. sessions \in [SessionIds -> Session] /\ LiveIn(sessions) = {}
    BY <1>1 DEF NoSessions, NoSession, Session, LiveIn
  <1>4. \A id \in Objects : ~Entry(id) /\ ~Resident(id)
    BY <1>1 DEF Entry, Resident
  <1>5. Tables
    BY <1>1, <1>2, <1>3, <1>4 DEF Tables
  <1>6. Jobs
    BY <1>1 DEF Jobs
  <1>7. Numbers
    BY <1>1, NoHintTyped, LabAssumption DEF Numbers, Counts0, CountsOf, PolicyNames, Replayed0, OutOf
  <1>8. Streams
    BY <1>1 DEF Streams, NoStream
  <1>9. Verbs
    BY <1>1 DEF Verbs, Idle
  <1> QED
    BY <1>1, <1>3, <1>4, <1>5, <1>6, <1>7, <1>8, <1>9 DEF LabTyped

\* A step of the lab, by what it is a step of.
LabSteps ==
  \/ LabRoomFound \/ LabStopEvicting \/ LabEvictVictim \/ LabPlaced \/ LabNotPlaced
  \/ LabDestroyNext \/ \E id \in Objects : LabDestroyObject(id)
  \/ Enter \/ NotEntered \/ ReplayEnds
  \/ ReplayReturns \/ SweepReturns \/ SweepBegins \/ StreamVerb
  \/ \E id \in Objects, once \in BOOLEAN, lease \in LeaseKinds :
       Accessing(id, once) /\ (AcquireHit(id, lease, once) \/ AcquireMiss(id, lease, once))
  \/ \E budget \in Budgets : Model(budget)
  \/ \E order \in Traces : \E name \in Policies : limit # 0 /\ Replay(name, order)
  \/ \E id \in Objects : LetGo(id) \/ EvictVerb(id)

LEMMA StepOf ==
  ASSUME LabTyped, LabNext
  PROVE  LabSteps
  <1>1. CASE ReplayStep \/ SweepStep \/ \E id \in Objects : Get(id)
    <2>1. PICK id \in Objects, once \in BOOLEAN : Accessing(id, once) /\ Accessed(id, once)
      BY <1>1, Accesses
    <2>2. PICK lease \in LeaseKinds : AcquireHit(id, lease, once) \/ AcquireMiss(id, lease, once)
      BY <2>1 DEF Accessed, AcquireBy
    <2> QED
      BY <2>1, <2>2, Zenon DEF LabSteps
  <1>2. CASE Goes /\ ~(ReplayStep \/ SweepStep)
    BY <1>2, Zenon DEF Goes, LabSteps
  <1>3. CASE \E budget \in Budgets : Model(budget)
    BY <1>3, Zenon DEF LabSteps
  <1>4. CASE SweepBegins \/ StreamVerb \/ \E id \in Objects : LetGo(id) \/ EvictVerb(id)
    BY <1>4, Zenon DEF LabSteps
  <1>5. CASE verb = Waiting /\ limit # 0 /\ typed < MaxTyped
             /\ \E order \in Traces : Len(order) <= MaxTyped - typed /\ \E name \in Policies : Replay(name, order)
    BY <1>5, Zenon DEF LabSteps
  <1> QED
    BY <1>1, <1>2, <1>3, <1>4, <1>5, Zenon DEF LabNext

LEMMA LabStepTyped ==
  ASSUME LabTyped, LabSteps
  PROVE  LabTyped'
  <1>1. CASE LabRoomFound \/ LabStopEvicting
    BY <1>1, TurnTyped
  <1>2. CASE LabEvictVictim
    BY <1>2, VictimTyped
  <1>3. CASE LabPlaced
    BY <1>3, PlacedTyped
  <1>4. CASE LabNotPlaced
    BY <1>4, NotPlacedTyped
  <1>5. CASE LabDestroyNext
    BY <1>5, DestroyNextTyped2
  <1>6. CASE \E id \in Objects : LabDestroyObject(id)
    BY <1>6, DestroyTyped
  <1>7. CASE Enter
    BY <1>7, EnterTyped
  <1>8. CASE NotEntered
    BY <1>8, NotEnteredTyped
  <1>9. CASE ReplayEnds
    BY <1>9, ReplayEndsTyped
  <1>10. CASE ReplayReturns \/ SweepReturns \/ SweepBegins \/ StreamVerb
    BY <1>10, VerbTyped
  <1>11. CASE \E id \in Objects, once \in BOOLEAN, lease \in LeaseKinds :
                Accessing(id, once) /\ (AcquireHit(id, lease, once) \/ AcquireMiss(id, lease, once))
    BY <1>11, HitTyped, MissTyped
  <1>12. CASE \E budget \in Budgets : Model(budget)
    BY <1>12, ModelTyped
  <1>13. CASE \E order \in Traces : \E name \in Policies : limit # 0 /\ Replay(name, order)
    BY <1>13, ReplayTyped
  <1>14. CASE \E id \in Objects : LetGo(id) \/ EvictVerb(id)
    BY <1>14, LetGoTyped, EvictVerbTyped
  <1> QED
    BY <1>1, <1>2, <1>3, <1>4, <1>5, <1>6, <1>7, <1>8, <1>9, <1>10, <1>11, <1>12, <1>13, <1>14, Zenon DEF LabSteps

LEMMA LabStutterTyped ==
  ASSUME LabTyped, UNCHANGED all
  PROVE  LabTyped'
  BY Zenon DEF LabTyped, Tables, Jobs, Numbers, Streams, Verbs, all, vars, labvars, Entry, Resident,
     Faulting, Current, DestroyJob

-----------------------------------------------------------------------------
(* What the steps do, where it matters to more than one invariant. *)

LEMMA SetResidents ==
  ASSUME NEW id \in Objects, NEW m, IsSet(id, m)
  PROVE  /\ m = NoMeta \/ m.at = 0 => ResidentSet' = ResidentSet \ {id} /\ ~Resident(id)'
         /\ m # NoMeta /\ m.at # 0 => ResidentSet' = ResidentSet \cup {id}
  <1>1. /\ \A other \in Objects : other # id => table'[other] = table[other]
        /\ table'[id] = m
    BY DEF IsSet, Entry, Resident
  <1>2. ResidentSet' = {o \in Objects : table'[o] # NoMeta /\ table'[o].at # 0}
    BY DEF ResidentSet, Resident, Entry
  <1>3. ResidentSet = {o \in Objects : table[o] # NoMeta /\ table[o].at # 0}
    BY DEF ResidentSet, Resident, Entry
  <1> QED
    BY <1>1, <1>2, <1>3 DEF Resident, Entry

LEMMA ResidentsStay ==
  ASSUME \A id \in Objects : Resident(id)' <=> Resident(id)
  PROVE  ResidentSet' = ResidentSet
  <1>1. \A id : id \in ResidentSet' <=> id \in ResidentSet
    BY DEF ResidentSet
  <1> QED
    BY <1>1

\* Of an entry, all but its count.
SamePlace(id) == table'[id].at = table[id].at /\ table'[id].size = table[id].size

LEMMA HitFacts ==
  ASSUME LabTyped, NEW id \in Objects, NEW lease \in LeaseKinds, NEW once \in BOOLEAN,
         Accessing(id, once), AcquireHit(id, lease, once)
  PROVE  /\ job = Idle /\ job' = Idle /\ id \in ResidentSet /\ ResidentSet' = ResidentSet
         /\ \A o \in Objects : Entry(o)' <=> Entry(o)
         /\ \A o \in Objects : o # id => table'[o] = table[o]
         /\ SamePlace(id) /\ (once /\ table[id].share = 0 => table'[id].share = 0)
         /\ UNCHANGED <<free, sessions, limit, policy>>
         /\ clock' = clock + 1 /\ clock \in Nat
         /\ HintSet(id, hints[id].placed, clock + 1, NextAfter(stream, id))
         /\ ring' = Record(Event("hit", id)) /\ counts' = [counts EXCEPT !.hits = @ + Bytes0(id)]
         /\ Done([out EXCEPT !.hits = @ + 1])
  <1>0. Tables /\ Numbers /\ Streams /\ job = Idle
    BY DEF LabTyped, Accessing
  <1>1. /\ Hit(id, lease, once) /\ clock' = clock + 1 /\ UNCHANGED <<limit, policy>>
        /\ ring' = Record(Event("hit", id)) /\ counts' = [counts EXCEPT !.hits = @ + Bytes0(id)]
        /\ Done([out EXCEPT !.hits = @ + 1])
    BY DEF AcquireHit
  <1>2. /\ Resident(id) /\ UNCHANGED <<free, sessions, env, job>>
        /\ \E m \in LabMeta : /\ IsSet(id, m) /\ m # NoMeta /\ m.at = table[id].at
                              /\ m.size = table[id].size
                              /\ once /\ table[id].share = 0 => m.share = 0
    BY <1>0, <1>1, HitEffect
  <1>3. PICK m \in LabMeta : /\ IsSet(id, m) /\ m # NoMeta /\ m.at = table[id].at
                             /\ m.size = table[id].size
                             /\ once /\ table[id].share = 0 => m.share = 0
    BY <1>2
  <1>4. Entry(id) /\ table[id].at # 0 /\ id \in ResidentSet
    BY <1>2 DEF Resident, ResidentSet
  <1>5. ResidentSet' = ResidentSet
    <2>1. ResidentSet' = ResidentSet \cup {id}
      BY <1>3, <1>4, SetResidents
    <2> QED
      BY <1>4, <2>1
  <1>9. table'[id] = m
    BY <1>3 DEF IsSet, Entry, Resident
  <1>6. SamePlace(id) /\ (once /\ table[id].share = 0 => table'[id].share = 0)
    BY <1>3, <1>9 DEF SamePlace
  <1>7. \A o \in Objects : (Entry(o)' <=> Entry(o)) /\ (o # id => table'[o] = table[o])
    BY <1>3, <1>4 DEF IsSet, Entry, Resident
  <1>8. HintSet(id, hints[id].placed, clock + 1, NextAfter(stream, id))
    BY <1>0, HitHints
  <1> QED
    BY <1>0, <1>1, <1>2, <1>4, <1>5, <1>6, <1>7, <1>8 DEF Numbers

LEMMA MissFacts ==
  ASSUME LabTyped, NEW id \in Objects, NEW lease \in LeaseKinds, NEW once \in BOOLEAN,
         Accessing(id, once), AcquireMiss(id, lease, once)
  PROVE  /\ job = Idle /\ ~Faulting /\ Faulting' /\ job'.phase = "room" /\ job'.id = id
         /\ Entry(id) /\ ~Resident(id) /\ ResidentSet' = ResidentSet
         /\ \A o \in Objects : Entry(o)' <=> Entry(o)
         /\ LiveIn(sessions)' = LiveIn(sessions)
         /\ clock' = clock + 1 /\ clock \in Nat
         /\ UNCHANGED <<table, free, limit, hints, stream, policy, ring, counts, verb, out, sim>>
  <1>0. Tables /\ Numbers /\ job = Idle
    BY DEF LabTyped, Accessing
  <1>1. /\ Miss(id, lease, once) /\ clock' = clock + 1
        /\ UNCHANGED <<limit, hints, stream, policy, ring, counts, verb, out, sim>>
    BY DEF AcquireMiss
  <1> QED
    BY <1>0, <1>1, MissEffect, ResidentsStay, IdleJob DEF Numbers

LEMMA TurnFacts ==
  ASSUME LabTyped, LabRoomFound \/ LabStopEvicting
  PROVE  /\ Turned /\ Faulting /\ Faulting' /\ ResidentSet' = ResidentSet /\ UNCHANGED labvars
         /\ \A o \in Objects : Entry(o)' <=> Entry(o)
  <1>0. Tables /\ Jobs
    BY DEF LabTyped
  <1>1. (RoomFound \/ StopEvicting) /\ UNCHANGED labvars
    BY DEF LabRoomFound, LabStopEvicting
  <1>2. Turned /\ Faulting /\ Faulting'
    BY <1>0, <1>1, TurnEffect
  <1>3. \A o \in Objects : (Entry(o)' <=> Entry(o)) /\ (Resident(o)' <=> Resident(o))
    BY <1>2 DEF Turned, Entry, Resident
  <1> QED
    BY <1>1, <1>2, <1>3, ResidentsStay

LEMMA VictimFacts ==
  ASSUME LabTyped, LabEvictVictim
  PROVE  /\ Faulting /\ Faulting' /\ UNCHANGED job /\ job.phase = "room" /\ ~Fits(free, table[job.id].size)
         /\ Named \in ResidentSet /\ Named # 0 /\ Evictable /\ job.id # Named
         /\ ResidentSet' = ResidentSet \ {Named}
         /\ \A o \in Objects : Entry(o)' <=> Entry(o)
         /\ \A o \in Objects : o # Named => table'[o] = table[o]
         /\ table'[Named].share = 0 /\ table'[Named].size = table[Named].size
         /\ free' = Give(free, table[Named].at - Base, RoundUp(table[Named].size))
         /\ LiveIn(sessions)' = LiveIn(sessions)
         /\ ring' = Record(Event("evicted", Named))
         /\ counts' = [counts EXCEPT !.evictions = @ + 1]
         /\ out' = IF verb.name = "replay" THEN [out EXCEPT !.evicted = @ + 1] ELSE out
         /\ UNCHANGED <<limit, clock, hints, stream, policy, verb, sim>>
  <1>0. Tables /\ Jobs /\ Numbers
    BY DEF LabTyped
  <1>1. /\ Named # 0 /\ EvictVictim(Named)
        /\ ring' = Record(Event("evicted", Named))
        /\ counts' = [counts EXCEPT !.evictions = @ + 1]
        /\ out' = IF verb.name = "replay" THEN [out EXCEPT !.evicted = @ + 1] ELSE out
        /\ UNCHANGED <<limit, clock, hints, stream, policy, verb, sim>>
    BY DEF LabEvictVictim
  <1>2. job.phase = "room" /\ ~Fits(free, table[job.id].size) /\ Evict(Named, Home(Named)) /\ UNCHANGED job
    BY <1>1 DEF EvictVictim
  <1>3. Named \in Objects /\ Named \in ResidentSet /\ Resident(Named) /\ Entry(Named)
    BY <1>0, <1>1, <1>2, NamedIsResident DEF Evict, Resident
  <1>4. PICK home \in LabMeta : /\ home = Home(Named) /\ home.size = Meta0(Named).size /\ home.at = 0
                                /\ home # NoMeta /\ home.share = 0 /\ home.size = table[Named].size
    BY <1>0, <1>3, HomeTyped
  <1>5. /\ IsSet(Named, home) /\ LiveIn(sessions)' = LiveIn(sessions) /\ Evictable
        /\ free' = Give(free, table[Named].at - Base, RoundUp(table[Named].size))
    BY <1>0, <1>2, <1>3, <1>4, EvictEffect, Zenon
  <1>6. ResidentSet' = ResidentSet \ {Named}
    BY <1>3, <1>4, <1>5, SetResidents
  <1>7. /\ \A o \in Objects : (Entry(o)' <=> Entry(o)) /\ (o # Named => table'[o] = table[o])
        /\ table'[Named] = home
    BY <1>3, <1>4, <1>5 DEF IsSet, Entry, Resident
  <1>8. Faulting /\ Faulting'
    BY <1>2 DEF Faulting
  <1>9. job.id # Named
    BY <1>0, <1>3, <1>8, FaultingJob
  <1> QED
    BY <1>1, <1>2, <1>3, <1>4, <1>5, <1>6, <1>7, <1>8, <1>9

LEMMA PlacedFacts ==
  ASSUME LabTyped, LabPlaced
  PROVE  LET i == FirstFit(free, RoundUp(table[job.id].size))
         IN  /\ job.phase = "place" /\ Faulting /\ job' = Idle /\ ~Faulting' /\ job.id \in Objects
             /\ i # 0 /\ free' = Take(free, i, RoundUp(table[job.id].size))
             /\ Entry(job.id) /\ job.id \notin ResidentSet /\ ResidentSet' = ResidentSet \cup {job.id}
             /\ \A o \in Objects : Entry(o)' <=> Entry(o)
             /\ \A o \in Objects : o # job.id => table'[o] = table[o]
             /\ table'[job.id].at = Base + free[i].at /\ free[i].at \in Nat
             /\ table'[job.id].size = table[job.id].size
             /\ job.once => table'[job.id].share = 0
             /\ HintSet(job.id, clock, clock, NextAfter(stream, job.id))
             /\ counts' = [counts EXCEPT !.fetched = @ + Bytes0(job.id)]
             /\ ring' = Record(Event("placed", job.id))
             /\ Done([out EXCEPT !.reads = @ + 1, !.bytes = @ + table[job.id].size])
             /\ UNCHANGED <<sessions, limit, clock, policy>>
  <1> DEFINE i == FirstFit(free, RoundUp(table[job.id].size))
  <1>0. Tables /\ Jobs /\ Numbers
    BY DEF LabTyped
  <1>1. /\ Placed /\ UNCHANGED <<limit, clock, policy>>
        /\ counts' = [counts EXCEPT !.fetched = @ + Bytes0(job.id)]
        /\ ring' = Record(Event("placed", job.id))
        /\ Done([out EXCEPT !.reads = @ + 1, !.bytes = @ + table[job.id].size])
    BY DEF LabPlaced
  <1>2. /\ job.phase = "place" /\ i # 0 /\ free[i].at \in Nat
        /\ free' = Take(free, i, RoundUp(table[job.id].size))
        /\ UNCHANGED <<sessions, env>> /\ job' = Idle
        /\ \E m \in LabMeta : /\ IsSet(job.id, m) /\ m # NoMeta /\ m.at = Base + free[i].at /\ m.at # 0
                              /\ m.size = table[job.id].size
                              /\ job.once => m.share = 0
    BY <1>0, <1>1, PlacedEffect DEF Numbers
  <1> HIDE DEF i
  <1>3. PICK m \in LabMeta : /\ IsSet(job.id, m) /\ m # NoMeta /\ m.at = Base + free[i].at /\ m.at # 0
                             /\ m.size = table[job.id].size
                             /\ job.once => m.share = 0
    BY <1>2
  <1>4. Faulting /\ ~Faulting'
    BY <1>2 DEF Faulting, Idle
  <1>5. job.id \in Objects /\ Entry(job.id) /\ job.id \notin ResidentSet
    BY <1>0, <1>4, FaultingJob DEF ResidentSet
  <1>6. ResidentSet' = ResidentSet \cup {job.id}
    BY <1>3, <1>5, SetResidents
  <1>7. /\ \A o \in Objects : (Entry(o)' <=> Entry(o)) /\ (o # job.id => table'[o] = table[o])
        /\ table'[job.id] = m
    BY <1>3, <1>5 DEF IsSet, Entry, Resident
  <1>8. HintSet(job.id, clock, clock, NextAfter(stream, job.id))
    BY PlacedTyped
  <1> QED
    BY <1>1, <1>2, <1>3, <1>4, <1>5, <1>6, <1>7, <1>8 DEF i

LEMMA NotPlacedFacts ==
  ASSUME LabTyped, LabNotPlaced
  PROVE  /\ job.phase = "place" /\ Faulting /\ job' = Idle /\ ~Faulting' /\ job.id \in Objects
         /\ FirstFit(free, RoundUp(table[job.id].size)) = 0
         /\ ResidentSet' = ResidentSet
         /\ \A o \in Objects : Entry(o)' <=> Entry(o)
         /\ LiveIn(sessions)' = LiveIn(sessions)
         /\ ring' = Record(Event("refused", job.id))
         /\ Replaying => Done([out EXCEPT !.refused = @ + 1])
         /\ ~Replaying => verb'.name # "replay"
         /\ UNCHANGED <<table, free, limit, clock, hints, policy, counts>>
  <1>0. Tables /\ Jobs /\ Numbers /\ Verbs
    BY DEF LabTyped
  <1>1. /\ NotPlaced /\ ring' = Record(Event("refused", job.id))
        /\ UNCHANGED <<limit, clock, hints, policy, counts>>
        /\ \/ verb.name # "sweep" /\ Done([out EXCEPT !.refused = @ + 1])
           \/ verb.name = "sweep" /\ verb' = Waiting
    BY DEF LabNotPlaced
  <1>2. /\ job.phase = "place" /\ FirstFit(free, RoundUp(table[job.id].size)) = 0
        /\ job' = Idle /\ UNCHANGED <<table, free, env>> /\ LiveIn(sessions)' = LiveIn(sessions)
        /\ \A id \in Objects : (Entry(id)' <=> Entry(id)) /\ (Resident(id)' <=> Resident(id))
    BY <1>0, <1>1, NotPlacedEffect
  <1>3. Faulting /\ ~Faulting'
    BY <1>2 DEF Faulting, Idle
  <1>4. job.id \in Objects
    BY <1>0, <1>3, FaultingJob
  <1>5. ~Replaying => verb'.name # "replay"
    <2>1. CASE verb.name = "sweep"
      BY <1>1, <2>1 DEF Waiting
    <2>2. CASE ~Replaying /\ verb.name # "sweep"
      BY <1>1, <2>2 DEF Done, Replaying
    <2> QED
      BY <2>1, <2>2
  <1> QED
    BY <1>1, <1>2, <1>3, <1>4, <1>5, ResidentsStay DEF Replaying

LEMMA DestroyFacts ==
  ASSUME LabTyped, NEW id \in Objects, LabDestroyObject(id)
  PROVE  /\ job.phase = "destroy" /\ job'.phase = "destroy" /\ Doomed' = Doomed
         /\ ~Faulting /\ ~Faulting'
         /\ ResidentSet' = ResidentSet \ {id}
         /\ \A o \in Objects : Entry(o)' <=> Entry(o) /\ o # id
         /\ \A o \in Objects : o # id => table'[o] = table[o]
         /\ LiveIn(sessions)' = LiveIn(sessions)
         /\ HintSet(id, 0, 0, Never)
         /\ ~Resident(id) => UNCHANGED <<free, counts, ring>>
         /\ UNCHANGED <<limit, clock, stream, policy, verb, out, sim>>
  <1>0. Tables /\ Jobs
    BY DEF LabTyped
  <1>1. /\ DestroyObject(id)
        /\ ring' = IF Resident(id) THEN Record(Event("evicted", id)) ELSE ring
        /\ counts' = IF Resident(id) THEN [counts EXCEPT !.evictions = @ + 1] ELSE counts
        /\ UNCHANGED <<limit, clock, stream, policy, verb, out, sim>>
    BY DEF LabDestroyObject
  <1>2. /\ job.phase = "destroy" /\ job'.phase = "destroy"
        /\ job'.session = job.session /\ job'.rest = job.rest
        /\ IsSet(id, NoMeta) /\ LiveIn(sessions)' = LiveIn(sessions)
        /\ ~Resident(id) => UNCHANGED free
    BY <1>0, <1>1, DestroyObjectEffect
  <1>3. ResidentSet' = ResidentSet \ {id}
    BY <1>2, SetResidents
  <1>4. \A o \in Objects : (Entry(o)' <=> Entry(o) /\ o # id) /\ (o # id => table'[o] = table[o])
    BY <1>2 DEF IsSet, Entry, Resident
  <1> QED
    BY <1>1, <1>2, <1>3, <1>4, DestroyTyped DEF Faulting, Doomed

LEMMA DestroyNextFacts ==
  ASSUME LabTyped, LabDestroyNext
  PROVE  /\ job.phase = "destroy" /\ (job' = Idle \/ job'.phase = "destroy")
         /\ ~Faulting /\ ~Faulting' /\ ResidentSet' = ResidentSet
         /\ \A o \in Objects : Entry(o)' <=> Entry(o)
         /\ Doomed = {job.session} \cup job.rest /\ Doomed' = job.rest
         /\ \/ ResidentSet # {}
            \/ LiveIn(sessions)' = LiveIn(sessions) \ {job.session}
         /\ UNCHANGED <<table, free, labvars>>
  <1>0. Tables /\ Jobs
    BY DEF LabTyped
  <1>1. (DestroyRefused \/ DestroyDone) /\ UNCHANGED labvars
    BY DEF LabDestroyNext
  <1>2. /\ job.phase = "destroy" /\ (job' = Idle \/ job'.phase = "destroy") /\ ~Faulting'
        /\ Doomed = {job.session} \cup job.rest /\ Doomed' = job.rest
        /\ UNCHANGED <<table, free>>
        /\ \A id \in Objects : (Entry(id)' <=> Entry(id)) /\ (Resident(id)' <=> Resident(id))
        /\ \/ \E id \in Objects : Resident(id)
           \/ LiveIn(sessions)' = LiveIn(sessions) \ {job.session}
    BY <1>0, <1>1, DestroyNextEffect
  <1> QED
    BY <1>1, <1>2, ResidentsStay DEF Faulting, ResidentSet

LEMMA EnterFacts ==
  ASSUME LabTyped, Enter
  PROVE  /\ Replaying /\ job = Idle /\ job' = Idle /\ ~Faulting /\ ~Faulting'
         /\ Current \in Objects /\ ~Entry(Current) /\ verb.at <= Len(stream.declared)
         /\ Cardinality({id \in Objects : Entry(id)}) < TableRoom
         /\ ResidentSet' = ResidentSet /\ Current \notin ResidentSet
         /\ \A o \in Objects : Entry(o)' <=> Entry(o) \/ o = Current
         /\ \A o \in Objects : o # Current => table'[o] = table[o]
         /\ table'[Current] = Meta0(Current)
         /\ HintSet(Current, 0, 0, Never)
         /\ UNCHANGED <<free, sessions, limit, clock, stream, policy, ring, counts, verb, out, sim>>
  <1>1. /\ job = Idle /\ ~Entry(Current) /\ verb.at <= Len(stream.declared)
        /\ Cardinality({id \in Objects : Entry(id)}) < TableRoom
        /\ UNCHANGED <<free, sessions, job, limit, clock, stream, policy, ring, counts, verb, out, sim>>
    BY DEF Enter, Running
  <1>2. Current \in Objects /\ IsSet(Current, Meta0(Current)) /\ HintSet(Current, 0, 0, Never) /\ Replaying
    BY EnterTyped
  <1>3. PICK o \in Objects : o = Current
    BY <1>2
  <1>4. Meta0(o).at = 0 /\ Meta0(o) # NoMeta
    BY Meta0Typed
  <1>5. IsSet(o, Meta0(o)) /\ ~Resident(o)
    BY <1>1, <1>2, <1>3 DEF IsSet, Resident, Entry
  <1>6. ResidentSet' = ResidentSet \ {o} /\ o \notin ResidentSet
    BY <1>4, <1>5, SetResidents DEF ResidentSet
  <1>7. /\ \A other \in Objects : Entry(other)' <=> Entry(other) \/ other = o
        /\ \A other \in Objects : other # o => table'[other] = table[other]
        /\ table'[o] = Meta0(o)
    BY <1>4, <1>5 DEF IsSet, Entry, Resident
  <1>8. ~Faulting /\ ~Faulting' /\ job' = Idle
    BY <1>1 DEF Faulting, Idle
  <1> QED
    BY <1>1, <1>2, <1>3, <1>6, <1>7, <1>8

-----------------------------------------------------------------------------
(* Ticks: every access has one of its own. *)

LEMMA TicksKept ==
  ASSUME Ticks, Numbers, Numbers', ResidentSet' \subseteq ResidentSet,
         \A id \in ResidentSet' : hints'[id].placed = hints[id].placed /\ hints'[id].used = hints[id].used,
         \/ clock' = clock /\ (Faulting' => Faulting)
         \/ clock' = clock + 1 /\ ~Faulting
  PROVE  Ticks'
  <1>1. clock \in Nat /\ clock' \in Nat
    BY DEF Numbers
  <1>2. /\ Faulting => clock # 0
        /\ \A id \in ResidentSet : hints[id].placed <= Latest /\ hints[id].used <= Latest
    BY DEF Ticks, Ticked
  <1>3. \A id \in ResidentSet : hints[id].placed \in Nat /\ hints[id].used \in Nat
    BY HintTyped DEF ResidentSet
  <1>4. Faulting' => clock' # 0
    BY <1>1, <1>2
  <1>5. Latest \in Int /\ Latest' \in Int /\ Latest <= Latest'
    <2>1. Latest \in Int /\ Latest' \in Int
      BY <1>1 DEF Latest
    <2>2. CASE clock' = clock /\ (Faulting' => Faulting)
      BY <1>1, <2>2 DEF Latest
    <2>3. CASE clock' = clock + 1 /\ ~Faulting
      BY <1>1, <2>3 DEF Latest
    <2> QED
      BY <2>1, <2>2, <2>3
  <1>6. \A id \in ResidentSet' : hints'[id].placed <= Latest' /\ hints'[id].used <= Latest'
    BY <1>2, <1>3, <1>5
  <1>7. TicksUnique'
    BY DEF TicksUnique, Ticks
  <1> QED
    BY <1>4, <1>6, <1>7 DEF Ticks, Ticked

\* The object that was accessed now is the only one of now.
LEMMA TicksNow ==
  ASSUME Ticks, Numbers, Numbers', NEW id \in Objects,
         ResidentSet' \subseteq ResidentSet \cup {id}, ~Faulting',
         \/ clock' = clock + 1 /\ ~Faulting
         \/ clock' = clock /\ Faulting,
         \A o \in ResidentSet' \ {id} : hints'[o] = hints[o],
         hints'[id].used = clock',
         \/ hints'[id].placed = clock'
         \/ hints'[id].placed = hints[id].placed /\ id \in ResidentSet
  PROVE  Ticks'
  <1>1. clock \in Nat /\ clock' \in Nat
    BY DEF Numbers
  <1>2. \A o \in ResidentSet : hints[o].placed <= Latest /\ hints[o].used <= Latest
    BY DEF Ticks, Ticked
  <1>3. \A o \in Objects : hints[o].placed \in Nat /\ hints[o].used \in Nat
    BY HintTyped
  <1>4. ResidentSet \subseteq Objects
    BY ObjectsAre
  <1>5. Latest' = clock' /\ Latest < clock' /\ Latest \in Int
    BY <1>1 DEF Latest
  <1>6. \A o \in ResidentSet' \ {id} : /\ o \in ResidentSet /\ hints'[o] = hints[o]
                                       /\ hints[o].placed < clock' /\ hints[o].used < clock'
    BY <1>1, <1>2, <1>3, <1>4, <1>5
  <1>7. \A o \in ResidentSet' : hints'[o].placed <= clock' /\ hints'[o].used <= clock'
    <2>1. id \in ResidentSet => hints[id].placed <= clock'
      BY <1>1, <1>2, <1>3, <1>5
    <2> QED
      BY <1>1, <1>6, <2>1, <1>3, <1>4
  <1>8. TicksUnique'
    <2> SUFFICES ASSUME NEW o \in ResidentSet', NEW p \in ResidentSet', o # p
                 PROVE  hints'[o].used # hints'[p].used /\ hints'[o].placed # hints'[p].placed
      BY DEF TicksUnique
    <2>1. CASE o # id /\ p # id
      BY <1>6, <2>1 DEF Ticks, TicksUnique
    <2>2. ASSUME NEW q \in ResidentSet', q # id, id \in ResidentSet'
          PROVE  hints'[q].used # hints'[id].used /\ hints'[q].placed # hints'[id].placed
      <3>1. q \in ResidentSet /\ hints'[q] = hints[q] /\ hints[q].placed < clock' /\ hints[q].used < clock'
        BY <1>6, <2>2
      <3>2. hints[q].placed \in Nat /\ hints[q].used \in Nat
        BY <1>3, <1>4, <3>1
      <3>3. hints'[q].used # hints'[id].used
        BY <1>1, <3>1, <3>2
      <3>4. CASE hints'[id].placed = clock'
        BY <1>1, <3>1, <3>2, <3>3, <3>4
      <3>5. CASE hints'[id].placed = hints[id].placed /\ id \in ResidentSet
        BY <2>2, <3>1, <3>3, <3>5 DEF Ticks, TicksUnique
      <3> QED
        BY <3>4, <3>5
    <2>3. CASE o = id
      <3>1. hints'[p].used # hints'[id].used /\ hints'[p].placed # hints'[id].placed
        BY <2>2, <2>3
      <3> QED
        BY <2>3, <3>1
    <2>4. CASE p = id
      BY <2>2, <2>4
    <2> QED
      BY <2>1, <2>3, <2>4
  <1> QED
    BY <1>5, <1>7, <1>8 DEF Ticks, Ticked

LEMMA LabStepTicks ==
  ASSUME LabTyped, LabTyped', Ticks, LabSteps
  PROVE  Ticks'
  <1>0. Numbers /\ Numbers' /\ clock \in Nat
    BY DEF LabTyped, Numbers
  <1>1. CASE LabRoomFound \/ LabStopEvicting
    BY <1>0, <1>1, TurnFacts, TicksKept DEF labvars
  <1>2. CASE LabEvictVictim
    BY <1>0, <1>2, VictimFacts, TicksKept
  <1>3. CASE LabPlaced
    <2>1. /\ Faulting /\ ~Faulting' /\ ResidentSet' = ResidentSet \cup {job.id}
          /\ HintSet(job.id, clock, clock, NextAfter(stream, job.id)) /\ UNCHANGED clock /\ job.id \in Objects
      BY <1>3, PlacedFacts
    <2>2. ResidentSet' \subseteq Objects
      BY <2>1, ObjectsAre, Zenon
    <2>3. /\ \A o \in ResidentSet' \ {job.id} : hints'[o] = hints[o]
          /\ hints'[job.id].used = clock' /\ hints'[job.id].placed = clock'
      BY <2>1, <2>2 DEF HintSet
    <2> QED
      BY <1>0, <2>1, <2>3, TicksNow
  <1>4. CASE LabNotPlaced
    BY <1>0, <1>4, NotPlacedFacts, TicksKept
  <1>5. CASE LabDestroyNext
    BY <1>0, <1>5, DestroyNextFacts, TicksKept DEF labvars
  <1>6. CASE \E id \in Objects : LabDestroyObject(id)
    <2>1. PICK id \in Objects : LabDestroyObject(id)
      BY <1>6
    <2>2. ResidentSet' = ResidentSet \ {id} /\ HintSet(id, 0, 0, Never) /\ UNCHANGED clock /\ ~Faulting'
      BY <2>1, DestroyFacts
    <2>3. \A o \in ResidentSet' : hints'[o] = hints[o]
      BY <2>2, ObjectsAre DEF HintSet
    <2> QED
      BY <1>0, <2>2, <2>3, TicksKept
  <1>7. CASE Enter
    <2>1. /\ ResidentSet' = ResidentSet /\ Current \notin ResidentSet /\ HintSet(Current, 0, 0, Never)
          /\ UNCHANGED clock /\ ~Faulting'
      BY <1>7, EnterFacts
    <2>2. \A o \in ResidentSet' : hints'[o] = hints[o]
      BY <2>1, ObjectsAre DEF HintSet
    <2> QED
      BY <1>0, <2>1, <2>2, TicksKept
  <1>8. CASE NotEntered
    <2>1. UNCHANGED <<vars, clock, hints>>
      BY <1>8 DEF NotEntered
    <2>2. ResidentSet' = ResidentSet /\ (Faulting' => Faulting)
      BY <2>1 DEF vars, ResidentSet, Resident, Entry, Faulting
    <2> QED
      BY <1>0, <2>1, <2>2, TicksKept
  <1>9. CASE ReplayEnds
    <2>1. UNCHANGED <<table, clock, hints>> /\ job'.phase = "destroy"
      BY <1>9, ReplayEndsTyped
    <2>2. ResidentSet' = ResidentSet /\ (Faulting' => Faulting)
      BY <2>1 DEF ResidentSet, Resident, Entry, Faulting
    <2> QED
      BY <1>0, <2>1, <2>2, TicksKept
  <1>10. CASE ReplayReturns \/ SweepReturns \/ SweepBegins \/ StreamVerb
    <2>1. UNCHANGED <<vars, clock, hints>>
      BY <1>10, VerbTyped
    <2>2. ResidentSet' = ResidentSet /\ (Faulting' => Faulting)
      BY <2>1 DEF vars, ResidentSet, Resident, Entry, Faulting
    <2> QED
      BY <1>0, <2>1, <2>2, TicksKept
  <1>11. CASE \E id \in Objects, once \in BOOLEAN, lease \in LeaseKinds :
                Accessing(id, once) /\ (AcquireHit(id, lease, once) \/ AcquireMiss(id, lease, once))
    <2>1. PICK id \in Objects, once \in BOOLEAN, lease \in LeaseKinds :
            Accessing(id, once) /\ (AcquireHit(id, lease, once) \/ AcquireMiss(id, lease, once))
      BY <1>11
    <2>2. CASE AcquireHit(id, lease, once)
      <3>1. /\ job = Idle /\ job' = Idle /\ id \in ResidentSet /\ ResidentSet' = ResidentSet /\ clock' = clock + 1
            /\ HintSet(id, hints[id].placed, clock + 1, NextAfter(stream, id))
        BY <2>1, <2>2, HitFacts
      <3>2. ~Faulting /\ ~Faulting'
        BY <3>1 DEF Faulting, Idle
      <3>3. /\ \A o \in ResidentSet' \ {id} : hints'[o] = hints[o]
            /\ hints'[id].used = clock' /\ hints'[id].placed = hints[id].placed
        BY <3>1, ObjectsAre DEF HintSet
      <3> QED
        BY <1>0, <3>1, <3>2, <3>3, TicksNow
    <2>3. CASE AcquireMiss(id, lease, once)
      BY <1>0, <2>1, <2>3, MissFacts, TicksKept
    <2> QED
      BY <2>1, <2>2, <2>3
  <1>12. CASE \E budget \in Budgets : Model(budget)
    <2>1. \A id \in Objects : ~Resident(id)'
      BY <1>12, ModelTyped
    <2>2. ResidentSet' = {}
      BY <2>1 DEF ResidentSet
    <2>3. ~Faulting'
      BY <1>12 DEF Model, Typed, Idle, Faulting
    <2> QED
      BY <2>2, <2>3 DEF Ticks, Ticked, TicksUnique
  <1>13. CASE \E order \in Traces : \E name \in Policies : limit # 0 /\ Replay(name, order)
    <2>1. UNCHANGED <<table, clock, hints, job>>
      BY <1>13 DEF Replay
    <2>2. ResidentSet' = ResidentSet /\ (Faulting' => Faulting)
      BY <2>1 DEF ResidentSet, Resident, Entry, Faulting
    <2> QED
      BY <1>0, <2>1, <2>2, TicksKept
  <1>14. CASE \E id \in Objects : LetGo(id) \/ EvictVerb(id)
    <2>1. PICK id \in Objects : LetGo(id) \/ EvictVerb(id)
      BY <1>14
    <2>2. CASE LetGo(id)
      <3>1. UNCHANGED <<clock, hints>> /\ job' = Idle /\ \A o \in Objects : Resident(o)' <=> Resident(o)
        BY <2>2, LetGoTyped
      <3> QED
        BY <1>0, <3>1, IdleJob, ResidentsStay, TicksKept DEF Faulting, Idle
    <2>3. CASE EvictVerb(id)
      <3>1. UNCHANGED <<clock, hints>> /\ job' = Idle /\ IsSet(id, Home(id)) /\ Resident(id)
        BY <2>3, EvictVerbTyped
      <3>2. Home(id).at = 0
        BY <3>1, HomeTyped DEF LabTyped, Resident
      <3>3. ResidentSet' \subseteq ResidentSet
        BY <3>1, <3>2, SetResidents
      <3> QED
        BY <1>0, <3>1, <3>3, TicksKept DEF Faulting, Idle
    <2> QED
      BY <2>1, <2>2, <2>3
  <1> QED
    BY <1>1, <1>2, <1>3, <1>4, <1>5, <1>6, <1>7, <1>8, <1>9, <1>10, <1>11, <1>12, <1>13, <1>14, Zenon DEF LabSteps

LEMMA LabStutterTicks ==
  ASSUME Ticks, UNCHANGED all
  PROVE  Ticks'
  BY Zenon DEF Ticks, Ticked, TicksUnique, Latest, Faulting, ResidentSet, Resident, Entry, all, vars, labvars

\* Every record of the lab has its type, whatever verbs are typed and however
\* a fault, a replay or a destroy is interleaved with them.
THEOREM LabTypeCorrect == LabSpec => []LabTyped
  <1>1. LabInit => LabTyped
    BY LabInitTyped
  <1>2. LabTyped /\ [LabNext]_all => LabTyped'
    BY StepOf, LabStepTyped, LabStutterTyped
  <1> QED
    BY <1>1, <1>2, PTL DEF LabSpec

\* Ticks are unique, so the tie-break of FIFO and LRU never decides: every
\* access, a sweep's, a `get`'s or a replay's, has a tick of its own, and a
\* fault that evicts meanwhile takes none.
THEOREM TiesNeverDecide == LabSpec => []TicksUnique
  <1>1. LabInit => Ticks
    <2> SUFFICES ASSUME LabInit PROVE Ticks
      OBVIOUS
    <2>1. ResidentSet = {} /\ ~Faulting
      BY LabInitTyped DEF ResidentSet, Faulting, Idle
    <2> QED
      BY <2>1 DEF Ticks, Ticked, TicksUnique
  <1>2. LabTyped /\ LabTyped' /\ Ticks /\ [LabNext]_all => Ticks'
    BY StepOf, LabStepTicks, LabStutterTicks
  <1>3. Ticks => TicksUnique
    BY DEF Ticks
  <1> QED
    BY <1>1, <1>2, <1>3, LabTypeCorrect, PTL DEF LabSpec

-----------------------------------------------------------------------------
(* What the verb and the accesses done come to. *)

\* The access in progress is done with, under a replay.
Moved(result) ==
  /\ verb'.name = "replay" /\ verb'.at = verb.at + 1
  /\ verb'.fresh = verb.fresh /\ verb'.head = verb.head
  /\ stream'.declared = stream.declared /\ stream'.next = stream.next
  /\ stream'.cursor = stream.cursor + 1
  /\ out' = result
  /\ sim' = Sim!Step(sim, stream.declared, verb.at, policy)

LEMMA DoneFacts ==
  ASSUME LabTyped, NEW result, Done(result)
  PROVE  /\ Replaying => Moved(result)
         /\ ~Replaying => ~(verb'.name = "replay")
  <1>0. Streams /\ Verbs
    BY DEF LabTyped
  <1>1. CASE verb = Waiting
    BY <1>1 DEF Done, Waiting, Replaying
  <1>2. CASE verb \in [name : {"sweep"}, at : Nat \ {0}]
    <2>1. verb' = [verb EXCEPT !.at = @ + 1] /\ verb.name = "sweep"
      BY <1>2 DEF Done
    <2>2. verb'.name = "sweep"
      BY <1>2, <2>1
    <2> QED
      BY <2>1, <2>2 DEF Replaying
  <1>3. CASE ReplayVerb
    <2>1. /\ verb' = [verb EXCEPT !.at = @ + 1] /\ stream' = Advance(stream, 1) /\ out' = result
          /\ sim' = Sim!Step(sim, stream.declared, verb.at, policy) /\ Replaying
      BY <1>3 DEF Done, ReplayVerb, Replaying
    <2>2. /\ verb'.name = "replay" /\ verb'.at = verb.at + 1
          /\ verb'.fresh = verb.fresh /\ verb'.head = verb.head
      BY <1>3, <2>1 DEF ReplayVerb
    <2>3. stream'.declared = stream.declared /\ stream'.next = stream.next /\ stream'.cursor = stream.cursor + 1
      BY <1>0, <2>1 DEF Streams, Advance
    <2> QED
      BY <2>1, <2>2, <2>3 DEF Moved
  <1> QED
    BY <1>0, <1>1, <1>2, <1>3 DEF Verbs, ReplayVerb

LEMMA DoneBy ==
  ASSUME NEW at \in Nat \ {0}, NEW n \in Nat, at <= n + 2
  PROVE  /\ at <= n + 1 => Min({at - 1, n}) = at - 1
         /\ at = n + 2 => Min({at - 1, n}) = n
         /\ Min({at - 1, n}) \in 0 .. n
  <1>1. PICK k \in Nat : k = at - 1
    OBVIOUS
  <1>2. PICK least : least = Min({k, n})
    OBVIOUS
  <1>3. least \in {k, n} /\ least <= k /\ least <= n
    <2>1. {k, n} \in SUBSET Nat /\ {k, n} # {}
      OBVIOUS
    <2> QED
      BY <1>2, <2>1, LeastMember
  <1> QED
    BY <1>1, <1>2, <1>3

LEMMA DoneAre ==
  ASSUME LabTyped, Replaying
  PROVE  /\ verb.at \in Nat \ {0} /\ Len(stream.declared) \in Nat
         /\ verb.at <= Len(stream.declared) + 2
         /\ verb.at <= Len(stream.declared) + 1 => AccessesDone = verb.at - 1
         /\ verb.at = Len(stream.declared) + 2 => AccessesDone = Len(stream.declared)
         /\ AccessesDone \in 0 .. Len(stream.declared)
  <1>1. verb.at \in Nat \ {0} /\ verb.at <= Len(stream.declared) + 2
    BY Replays DEF LabTyped, ReplayVerb
  <1>2. Len(stream.declared) \in Nat
    BY LenProperties DEF LabTyped, Streams
  <1> QED
    BY <1>1, <1>2, DoneBy, Zenon DEF AccessesDone

LEMMA DoneNow ==
  ASSUME LabTyped', verb'.name = "replay"
  PROVE  /\ verb'.at \in Nat \ {0} /\ Len(stream'.declared) \in Nat
         /\ verb'.at <= Len(stream'.declared) + 2
         /\ verb'.at <= Len(stream'.declared) + 1 => AccessesDone' = verb'.at - 1
         /\ verb'.at = Len(stream'.declared) + 2 => AccessesDone' = Len(stream'.declared)
         /\ AccessesDone' \in 0 .. Len(stream'.declared)
  <1>1. verb'.at \in Nat \ {0} /\ verb'.at <= Len(stream'.declared) + 2
    BY DEF LabTyped, Verbs, Waiting
  <1>2. Len(stream'.declared) \in Nat
    BY LenProperties DEF LabTyped, Streams
  <1> QED
    BY <1>1, <1>2, DoneBy, Zenon DEF AccessesDone

LEMMA NamedSessions ==
  ASSUME NEW order \in Seq(Objects)
  PROVE  NamedIn(order) \subseteq SessionIds
  <1>1. ASSUME NEW id \in ToSet(order)
        PROVE  (IF InModel(id) THEN 1 ELSE Meta0(id).owner) \in SessionIds
    <2>1. id \in Objects
      BY <1>1, ElementOfSeq DEF ToSet
    <2>2. CASE InModel(id)
      BY <2>2, MaxIdAssumption DEF SessionIds
    <2>3. CASE ~InModel(id)
      <3>1. Class[id] = "kv" /\ Templates[id] # {}
        BY <2>1, <2>3, LabAssumption DEF InModel
      <3>2. Meta0(id) \in Templates[id]
        BY <3>1 DEF Meta0
      <3>3. Meta0(id).owner \in SessionIds
        BY <2>1, <3>1, <3>2, LabAssumption
      <3> QED
        BY <2>3, <3>3
    <2> QED
      BY <2>2, <2>3
  <1> QED
    BY <1>1 DEF NamedIn

\* Objects a comparable replay can have entries of.
Known0 == {id \in Objects : InModel(id)} \cup ToSet(stream.declared)

LEMMA KnownFinite ==
  ASSUME LabTyped
  PROVE  IsFiniteSet(Known0) /\ Known0 \subseteq Objects
  <1>1. stream.declared \in Seq(Objects)
    BY DEF LabTyped, Streams
  <1>2. ToSet(stream.declared) \subseteq Objects
    BY <1>1, ElementOfSeq DEF ToSet
  <1>3. Known0 \subseteq Objects
    BY <1>2 DEF Known0
  <1> QED
    BY <1>3, ManagerAssumption, FS_Subset

LEMMA CurrentKnown ==
  ASSUME LabTyped, Replaying, verb.at <= Len(stream.declared)
  PROVE  Current \in ToSet(stream.declared) /\ Current \in Objects /\ verb.at \in 1 .. Len(stream.declared)
  <1>1. Current \in Objects /\ verb.at \in 1 .. Len(stream.declared)
    BY CurrentTyped DEF LabTyped
  <1> QED
    BY <1>1 DEF Current, ToSet

\* A table that has room for everything refuses nothing.
LEMMA RoomForAll ==
  ASSUME LabTyped, Steady, Comparable, verb.at <= Len(stream.declared), ~Entry(Current)
  PROVE  Cardinality({id \in Objects : Entry(id)}) < TableRoom
  <1> DEFINE entries == {id \in Objects : Entry(id)}
  <1>1. Replaying /\ Cardinality(Known0) <= TableRoom
    BY DEF Comparable, Known0, Replaying
  <1>2. Current \in Known0 /\ Current \notin entries
    BY <1>1, CurrentKnown DEF Known0
  <1>3. entries \subseteq Known0
    BY DEF Steady, Known0
  <1>4. IsFiniteSet(Known0) /\ IsFiniteSet(entries)
    BY <1>3, KnownFinite, FS_Subset
  <1>5. Cardinality(entries) < Cardinality(Known0)
    <2>1. Cardinality(entries) <= Cardinality(Known0) /\ (Cardinality(entries) = Cardinality(Known0) => entries = Known0)
      BY <1>3, <1>4, FS_Subset
    <2>2. Cardinality(entries) \in Nat /\ Cardinality(Known0) \in Nat
      BY <1>4, FS_CardinalityType
    <2> QED
      BY <1>2, <2>1, <2>2
  <1>6. Cardinality(entries) \in Nat /\ Cardinality(Known0) \in Nat /\ TableRoom \in Nat
    BY <1>4, FS_CardinalityType, LabAssumption
  <1> QED
    BY <1>1, <1>5, <1>6

\* A replay begins: of order, under the policy name.
LEMMA BeginFacts ==
  ASSUME LabTyped, NEW order \in Traces, NEW name \in Policies, Replay(name, order)
  PROVE  /\ order \in Seq(Objects) /\ verb = Waiting /\ job = Idle /\ job' = Idle /\ ~Faulting /\ ~Faulting'
         /\ policy' = name /\ stream'.declared = order /\ stream'.cursor = 0 /\ stream'.next = Chain(order)
         /\ out' = Replayed0 /\ sim' = Sim!Begin(limit, Cardinality(NamedIn(order)))
         /\ verb'.name = "replay" /\ verb'.at = 1 /\ verb'.fresh = (clock = 0)
         /\ LiveIn(sessions)' = LiveIn(sessions) \cup NamedIn(order)
         /\ UNCHANGED <<table, free, limit, clock, hints, ring, counts>>
  <1>1. /\ policy' = name /\ stream' = Declare(order) /\ out' = Replayed0 /\ verb = Waiting /\ job = Idle
        /\ verb' = [name |-> "replay", at |-> 1, fresh |-> clock = 0,
                    before |-> Cardinality(LiveIn(sessions)),
                    head |-> [ps |-> 0, ks |-> 0, ss |-> 0]]
        /\ sim' = Sim!Begin(limit, Cardinality(NamedIn(order)))
        /\ UNCHANGED <<table, free, job, limit, clock, hints, ring, counts>>
    BY DEF Replay, Typed
  <1>2. order \in Seq(Objects)
    BY LabAssumption
  <1>3. LiveIn(sessions)' = LiveIn(sessions) \cup NamedIn(order)
    BY <1>2, ReplayTyped, NamedSessions
  <1>4. stream'.declared = order /\ stream'.cursor = 0 /\ stream'.next = Chain(order)
    BY <1>1 DEF Declare
  <1>5. verb'.name = "replay" /\ verb'.at = 1 /\ verb'.fresh = (clock = 0)
    BY <1>1
  <1> QED
    BY <1>1, <1>2, <1>3, <1>4, <1>5 DEF Faulting, Idle

\* What a step does to the verb that is running, and to the order it replays.
SameVerb == UNCHANGED <<verb, stream, policy, limit>>

LEMMA SameReplay ==
  ASSUME SameVerb
  PROVE  (Replaying' <=> Replaying) /\ (Comparable' <=> Comparable) /\ AccessesDone' = AccessesDone
  BY Zenon DEF SameVerb, Replaying, Comparable, AccessesDone

\* Steps of a replay that was running.
Replayed ==
  \/ LabRoomFound \/ LabStopEvicting \/ LabEvictVictim \/ LabPlaced \/ LabNotPlaced
  \/ LabDestroyNext \/ \E id \in Objects : LabDestroyObject(id)
  \/ Enter \/ NotEntered \/ ReplayEnds
  \/ \E lease \in LeaseKinds :
       /\ Accessing(Current, TRUE) /\ Current \in Objects
       /\ AcquireHit(Current, lease, TRUE) \/ AcquireMiss(Current, lease, TRUE)

LEMMA ReplaySteps ==
  ASSUME LabTyped, LabSteps, verb'.name = "replay"
  PROVE  \/ Replaying /\ Replayed
         \/ \E order \in Traces : \E name \in Policies : limit # 0 /\ Replay(name, order)
  <1>1. CASE LabRoomFound \/ LabStopEvicting
    BY <1>1, TurnFacts, Zenon DEF labvars, Replaying, Replayed
  <1>2. CASE LabEvictVictim
    BY <1>2, VictimFacts DEF Replaying, Replayed
  <1>3. CASE LabPlaced
    <2>1. Replaying
      BY <1>3, PlacedFacts, DoneFacts
    <2> QED
      BY <1>3, <2>1 DEF Replayed
  <1>4. CASE LabNotPlaced
    BY <1>4, NotPlacedFacts DEF Replayed
  <1>5. CASE LabDestroyNext
    BY <1>5, DestroyNextFacts DEF labvars, Replaying, Replayed
  <1>6. CASE \E id \in Objects : LabDestroyObject(id)
    BY <1>6, DestroyFacts, Zenon DEF Replaying, Replayed
  <1>7. CASE Enter
    BY <1>7, EnterFacts DEF Replayed
  <1>8. CASE NotEntered
    BY <1>8, Zenon DEF NotEntered, Running, Replaying, Replayed
  <1>9. CASE ReplayEnds
    BY <1>9, ReplayEndsTyped DEF Replayed
  <1>10. CASE ReplayReturns \/ SweepReturns \/ SweepBegins \/ StreamVerb
    BY <1>10, VerbTyped
  <1>11. CASE \E id \in Objects, once \in BOOLEAN, lease \in LeaseKinds :
                Accessing(id, once) /\ (AcquireHit(id, lease, once) \/ AcquireMiss(id, lease, once))
    <2>1. PICK id \in Objects, once \in BOOLEAN, lease \in LeaseKinds :
            Accessing(id, once) /\ (AcquireHit(id, lease, once) \/ AcquireMiss(id, lease, once))
      BY <1>11
    <2>2. Replaying
      <3>1. CASE AcquireHit(id, lease, once)
        BY <2>1, <3>1, HitFacts, DoneFacts
      <3>2. CASE AcquireMiss(id, lease, once)
        BY <2>1, <3>2, MissFacts DEF Replaying
      <3> QED
        BY <2>1, <3>1, <3>2
    <2>3. id = Current /\ once = TRUE
      BY <2>1, <2>2 DEF Accessing
    <2>4. /\ Accessing(Current, TRUE) /\ Current \in Objects
          /\ AcquireHit(Current, lease, TRUE) \/ AcquireMiss(Current, lease, TRUE)
      BY <2>1, <2>3, Zenon
    <2> QED
      BY <2>2, <2>4, Zenon DEF Replayed
  <1>12. CASE \E budget \in Budgets : Model(budget)
    BY <1>12 DEF Model, Typed, Waiting
  <1>13. CASE \E order \in Traces : \E name \in Policies : limit # 0 /\ Replay(name, order)
    BY <1>13
  <1>14. CASE \E id \in Objects : LetGo(id) \/ EvictVerb(id)
    BY <1>14, LetGoTyped, EvictVerbTyped DEF Waiting
  <1> QED
    BY <1>1, <1>2, <1>3, <1>4, <1>5, <1>6, <1>7, <1>8, <1>9, <1>10, <1>11, <1>12, <1>13, <1>14, Zenon DEF LabSteps

-----------------------------------------------------------------------------
(* What a manager nothing was acquired from is, and what a comparable replay   *)
(* has done by now.                                                          *)

QuietNow ==
  /\ \A id \in Objects : ~Resident(id)
  /\ \A id \in Objects : Entry(id) => table[id].share = 0
  /\ ~Faulting
  /\ counts.fetched = 0 /\ counts.hits = 0
  /\ ring = NoRing
  /\ limit # 0 => free = <<[at |-> 0, len |-> limit]>>
  /\ \A id \in Objects : Entry(id) =>
       \/ InModel(id)
       \/ Replaying /\ verb.at <= Len(stream.declared) /\ id = Current
  /\ IF Replaying THEN verb.at = Len(stream.declared) + 2 => LiveIn(sessions) \subseteq Doomed
     ELSE LiveIn(sessions) = {}

LEMMA QuietIs == Quiet <=> (clock = 0 => QuietNow)
  BY Zenon DEF Quiet, QuietNow

\* A step that leaves the clock at zero.
LEMMA QuietKept ==
  ASSUME LabTyped, LabTyped', Quiet, LabSteps, clock' = 0
  PROVE  QuietNow'
  <1>0. clock \in Nat
    BY DEF LabTyped, Numbers
  <1>1. CASE LabRoomFound \/ LabStopEvicting
    BY <1>1, TurnFacts DEF Quiet, labvars
  <1>2. CASE LabEvictVictim
    BY <1>2, VictimFacts DEF Quiet
  <1>3. CASE LabPlaced
    BY <1>3, PlacedFacts DEF Quiet
  <1>4. CASE LabNotPlaced
    BY <1>4, NotPlacedFacts DEF Quiet
  <1>5. CASE LabDestroyNext
    <2>1. QuietNow /\ ResidentSet = {}
      BY <1>5, DestroyNextFacts, QuietIs DEF labvars, QuietNow, ResidentSet
    <2>2. Replaying /\ verb.at = Len(stream.declared) + 2
      BY <1>5, DestroyNextFacts, Replays DEF LabTyped, ReplayVerb
    <2>3. LiveIn(sessions)' \subseteq Doomed'
      BY <1>5, <2>1, <2>2, DestroyNextFacts DEF QuietNow
    <2>4. Replaying' /\ Current' = Current /\ UNCHANGED <<table, free, limit, counts, ring, verb, stream>>
      BY <1>5, <2>2, DestroyNextFacts DEF labvars, Replaying, Current
    <2> QED
      BY <1>5, <2>1, <2>2, <2>3, <2>4, DestroyNextFacts DEF QuietNow, Entry, Resident
  <1>6. CASE \E id \in Objects : LabDestroyObject(id)
    <2>1. PICK id \in Objects : LabDestroyObject(id)
      BY <1>6
    <2>2. QuietNow
      BY <2>1, DestroyFacts, QuietIs
    <2>3. UNCHANGED <<free, counts, ring, limit, verb, stream>>
      BY <2>1, <2>2, DestroyFacts DEF QuietNow
    <2>4. Current' = Current /\ (Replaying' <=> Replaying)
      BY <2>3 DEF Current, Replaying
    <2>5. \A o \in Objects : Entry(o)' => Entry(o) /\ o # id /\ table'[o] = table[o]
      BY <2>1, DestroyFacts
    <2>6. \A o \in Objects : ~Resident(o)'
      BY <2>2, <2>5 DEF QuietNow, Resident, Entry
    <2> QED
      BY <2>1, <2>2, <2>3, <2>4, <2>5, <2>6, DestroyFacts DEF QuietNow
  <1>7. CASE Enter
    <2>1. QuietNow
      BY <1>7, EnterFacts, QuietIs
    <2>2. PICK id \in Objects : id = Current
      BY <1>7, EnterFacts
    <2>3. /\ Replaying' /\ Current' = Current /\ verb.at <= Len(stream.declared)
          /\ UNCHANGED <<free, sessions, limit, counts, ring, verb, stream>> /\ Replaying /\ ~Faulting'
      BY <1>7, EnterFacts DEF Current, Replaying
    <2>4. Meta0(id).share = 0 /\ Meta0(id).at = 0
      BY Meta0Typed
    <2>5. \A o \in Objects : /\ Entry(o)' => Entry(o) \/ o = id
                             /\ o # id => table'[o] = table[o]
                             /\ table'[id] = Meta0(id)
      BY <1>7, <2>2, EnterFacts
    <2>6. \A o \in Objects : ~Resident(o)' /\ (Entry(o)' => table'[o].share = 0)
      BY <2>1, <2>4, <2>5 DEF QuietNow, Resident, Entry
    <2>7. verb.at # Len(stream.declared) + 2
      BY <2>3, DoneAre
    <2> QED
      BY <2>1, <2>2, <2>3, <2>5, <2>6, <2>7 DEF QuietNow
  <1>8. CASE NotEntered
    <2>1. /\ UNCHANGED <<vars, limit, clock, counts, ring>> /\ Done([out EXCEPT !.refused = @ + 1])
          /\ Replaying /\ verb.at <= Len(stream.declared) /\ ~Entry(Current)
      BY <1>8 DEF NotEntered, Running, Replaying
    <2>2. QuietNow
      BY <2>1, QuietIs
    <2>3. verb'.name = "replay" /\ verb'.at = verb.at + 1 /\ stream'.declared = stream.declared
      BY <2>1, DoneFacts DEF Moved
    <2>4. Replaying' /\ verb'.at # Len(stream'.declared) + 2
      BY <2>1, <2>3, DoneAre DEF Replaying
    <2>5. UNCHANGED <<table, free, sessions, job>>
      BY <2>1 DEF vars
    <2>6. \A o \in Objects : Entry(o) => InModel(o)
      BY <2>1, <2>2 DEF QuietNow
    <2> QED
      BY <2>1, <2>2, <2>4, <2>5, <2>6 DEF QuietNow, Entry, Resident, Faulting
  <1>9. CASE ReplayEnds
    <2>1. /\ UNCHANGED <<table, free, sessions, limit, clock, stream, ring, counts>> /\ Doomed' = LiveIn(sessions)
          /\ job'.phase = "destroy" /\ Replaying /\ verb.at = Len(stream.declared) + 1 /\ verb'.name = "replay"
      BY <1>9, ReplayEndsTyped
    <2>2. QuietNow /\ ~Faulting' /\ Replaying'
      BY <2>1, QuietIs DEF Faulting, Replaying
    <2>3. \A o \in Objects : Entry(o) => InModel(o)
      BY <2>1, <2>2, DoneAre DEF QuietNow
    <2>4. LiveIn(sessions)' \subseteq Doomed'
      BY <2>1 DEF LiveIn
    <2> QED
      BY <2>1, <2>2, <2>3, <2>4 DEF QuietNow, Entry, Resident
  <1>10. CASE ReplayReturns \/ SweepReturns \/ SweepBegins \/ StreamVerb
    <2>1. /\ UNCHANGED <<vars, limit, clock, counts, ring>> /\ job = Idle /\ ~Replaying'
          /\ Replaying => verb.at = Len(stream.declared) + 2
      BY <1>10, VerbTyped DEF Replaying
    <2>2. QuietNow /\ UNCHANGED <<table, free, sessions, job>>
      BY <2>1, QuietIs DEF vars
    <2>3. \A o \in Objects : Entry(o) => InModel(o)
      BY <2>1, <2>2, DoneAre DEF QuietNow
    <2>4. LiveIn(sessions) = {}
      BY <2>1, <2>2 DEF QuietNow, Doomed, Idle
    <2> QED
      BY <2>1, <2>2, <2>3, <2>4 DEF QuietNow, Entry, Resident, Faulting, LiveIn
  <1>11. CASE \E id \in Objects, once \in BOOLEAN, lease \in LeaseKinds :
                Accessing(id, once) /\ (AcquireHit(id, lease, once) \/ AcquireMiss(id, lease, once))
    <2>1. clock' = clock + 1
      BY <1>11, HitFacts, MissFacts
    <2> QED
      BY <1>0, <2>1
  <1>12. CASE \E budget \in Budgets : Model(budget)
    <2>1. PICK budget \in Budgets : Model(budget)
      BY <1>12
    <2>2. /\ verb' = Waiting /\ job' = Idle /\ counts' = Counts0 /\ ring' = NoRing
          /\ limit' = Clamp(budget) /\ free' = <<[at |-> 0, len |-> Clamp(budget)]>>
      BY <2>1 DEF Model, Typed
    <2>3. /\ \A id \in Objects : ~Resident(id)' /\ (Entry(id)' => InModel(id) /\ table'[id].share = 0)
          /\ LiveIn(sessions)' = {}
      BY <2>1, ModelTyped
    <2>4. ~Replaying' /\ ~Faulting'
      BY <2>2 DEF Replaying, Faulting, Waiting, Idle
    <2> QED
      BY <2>2, <2>3, <2>4 DEF QuietNow, Counts0
  <1>13. CASE \E order \in Traces : \E name \in Policies : limit # 0 /\ Replay(name, order)
    <2>1. PICK order \in Traces, name \in Policies : Replay(name, order)
      BY <1>13
    <2>2. /\ verb = Waiting /\ ~Faulting' /\ UNCHANGED <<table, free, limit, clock, ring, counts>>
          /\ verb'.name = "replay" /\ verb'.at = 1
      BY <2>1, BeginFacts
    <2>3. QuietNow /\ ~Replaying /\ Replaying'
      BY <2>2, QuietIs DEF Replaying, Waiting
    <2>4. Len(stream'.declared) \in Nat
      BY LenProperties DEF LabTyped, Streams
    <2>5. verb'.at # Len(stream'.declared) + 2
      BY <2>2, <2>4
    <2> QED
      BY <2>2, <2>3, <2>5 DEF QuietNow, Entry, Resident
  <1>14. CASE \E id \in Objects : LetGo(id) \/ EvictVerb(id)
    <2>1. PICK id \in Objects : LetGo(id) \/ EvictVerb(id)
      BY <1>14
    <2>2. CASE EvictVerb(id)
      BY <2>1, <2>2, EvictVerbTyped DEF Quiet
    <2>3. CASE LetGo(id)
      <3>1. /\ verb = Waiting /\ job' = Idle
            /\ \A o \in Objects : (Entry(o)' <=> Entry(o)) /\ (Resident(o)' <=> Resident(o))
            /\ \A o \in Objects : table[o].share = 0 => table'[o].share = 0
            /\ UNCHANGED <<free, sessions, limit, clock, stream, ring, counts, verb>>
        BY <2>3, LetGoTyped
      <3>2. QuietNow /\ ~Replaying /\ ~Replaying' /\ ~Faulting'
        BY <3>1, QuietIs DEF Replaying, Waiting, Faulting, Idle
      <3> QED
        BY <3>1, <3>2 DEF QuietNow, LiveIn
    <2> QED
      BY <2>1, <2>2, <2>3
  <1> QED
    BY <1>1, <1>2, <1>3, <1>4, <1>5, <1>6, <1>7, <1>8, <1>9, <1>10, <1>11, <1>12, <1>13, <1>14, Zenon DEF LabSteps

LEMMA LabStepQuiet ==
  ASSUME LabTyped, LabTyped', Quiet, LabSteps
  PROVE  Quiet'
  <1>1. CASE clock' = 0
    BY <1>1, QuietKept DEF Quiet, QuietNow
  <1>2. CASE clock' # 0
    BY <1>2 DEF Quiet
  <1> QED
    BY <1>1, <1>2

\* Entries of a comparable replay, and its sessions.
Sound ==
  \A id \in Objects : Entry(id) =>
    table[id].share = 0 /\ (InModel(id) \/ id \in ToSet(stream.declared))
Attending == verb.at <= Len(stream.declared) + 1 => LiveIn(sessions) = NamedIn(stream.declared)

LEMMA SteadyIs ==
  Steady <=> (Comparable => clock = (IF Faulting THEN verb.at ELSE AccessesDone) /\ Sound /\ Attending)
  BY Zenon DEF Steady, Sound, Attending

\* A replay that is compared goes on, or it begins on a manager nothing was
\* acquired from.
LEMMA ComparableSteps ==
  ASSUME LabTyped, Steady, LabSteps, Comparable'
  PROVE  \/ Comparable /\ Replaying /\ Replayed /\ ~NotEntered
         \/ \E order \in Traces : \E name \in Policies : limit # 0 /\ clock = 0 /\ Replay(name, order)
  <1>1. verb'.name = "replay" /\ verb'.fresh
    BY DEF Comparable
  <1>2. CASE Replaying /\ Replayed
    <2>1. verb'.fresh = verb.fresh /\ stream'.declared = stream.declared
      <3>1. CASE UNCHANGED <<verb, stream>>
        BY <3>1
      <3>2. CASE LabRoomFound \/ LabStopEvicting \/ LabEvictVictim
        BY <3>2, TurnFacts, VictimFacts DEF labvars
      <3>3. CASE LabPlaced
        BY <1>2, <3>3, PlacedFacts, DoneFacts DEF Moved
      <3>4. CASE LabNotPlaced
        BY <1>2, <3>4, NotPlacedFacts, DoneFacts DEF Moved
      <3>5. CASE LabDestroyNext \/ \E id \in Objects : LabDestroyObject(id)
        BY <3>5, DestroyNextFacts, DestroyFacts DEF labvars
      <3>6. CASE Enter \/ ReplayEnds
        BY <3>6, EnterFacts, ReplayEndsTyped
      <3>7. CASE NotEntered
        BY <1>2, <3>7, DoneFacts DEF Moved, NotEntered
      <3>8. CASE \E lease \in LeaseKinds :
                   /\ Accessing(Current, TRUE) /\ Current \in Objects
                   /\ AcquireHit(Current, lease, TRUE) \/ AcquireMiss(Current, lease, TRUE)
        <4>1. PICK lease \in LeaseKinds, id \in Objects, once \in BOOLEAN :
                 Accessing(id, once) /\ (AcquireHit(id, lease, once) \/ AcquireMiss(id, lease, once))
          BY <3>8, Zenon
        <4>2. CASE AcquireHit(id, lease, once)
          BY <1>2, <4>1, <4>2, HitFacts, DoneFacts DEF Moved
        <4>3. CASE AcquireMiss(id, lease, once)
          BY <4>1, <4>3, MissFacts
        <4> QED
          BY <4>1, <4>2, <4>3
      <3> QED
        BY <1>2, <3>1, <3>2, <3>3, <3>4, <3>5, <3>6, <3>7, <3>8, Zenon DEF Replayed
    <2>2. Comparable
      BY <1>1, <1>2, <2>1 DEF Comparable, Replaying
    <2>3. ASSUME NotEntered PROVE FALSE
      <3>1. /\ verb.at <= Len(stream.declared) /\ ~Entry(Current)
            /\ Cardinality({id \in Objects : Entry(id)}) >= TableRoom
        BY <2>3 DEF NotEntered
      <3>2. Cardinality({id \in Objects : Entry(id)}) < TableRoom
        BY <2>2, <3>1, RoomForAll
      <3>3. Cardinality({id \in Objects : Entry(id)}) \in Nat /\ TableRoom \in Nat
        <4>1. IsFiniteSet({id \in Objects : Entry(id)})
          BY ManagerAssumption, FS_Subset
        <4> QED
          BY <4>1, FS_CardinalityType, LabAssumption
      <3> QED
        BY <3>1, <3>2, <3>3
    <2> QED
      BY <1>2, <2>2, <2>3
  <1>3. CASE \E order \in Traces : \E name \in Policies : limit # 0 /\ Replay(name, order)
    BY <1>1, <1>3, BeginFacts, Zenon
  <1> QED
    BY <1>1, <1>2, <1>3, ReplaySteps

LEMMA LabStepSteady ==
  ASSUME LabTyped, LabTyped', Quiet, Steady, LabSteps
  PROVE  Steady'
  <1> SUFFICES ASSUME Comparable'
               PROVE  clock' = (IF Faulting' THEN verb'.at ELSE AccessesDone') /\ Sound' /\ Attending'
    BY SteadyIs DEF Steady, Sound, Attending
  <1>0. /\ Comparable => clock = (IF Faulting THEN verb.at ELSE AccessesDone) /\ Sound /\ Attending
        /\ Replaying => verb.at \in Nat \ {0} /\ Len(stream.declared) \in Nat
        /\ clock \in Nat
    BY SteadyIs, DoneAre DEF LabTyped, Numbers
  <1>1. ASSUME Comparable, Replaying, LabRoomFound \/ LabStopEvicting \/ LabEvictVictim
        PROVE  clock' = (IF Faulting' THEN verb'.at ELSE AccessesDone') /\ Sound' /\ Attending'
    <2>1. /\ Faulting /\ Faulting' /\ UNCHANGED <<clock, verb, stream, limit, policy>> /\ LiveIn(sessions)' = LiveIn(sessions)
          /\ \A o \in Objects : Entry(o)' <=> Entry(o)
          /\ \A o \in Objects : Entry(o) => table'[o].share = 0 \/ table'[o] = table[o]
      <3>1. CASE LabRoomFound \/ LabStopEvicting
        BY <3>1, TurnFacts DEF labvars, Turned
      <3>2. CASE LabEvictVictim
        BY <3>2, VictimFacts
      <3> QED
        BY <1>1, <3>1, <3>2
    <2> QED
      BY <1>0, <1>1, <2>1 DEF Sound, Attending
  <1>2. ASSUME Comparable, Replaying, LabPlaced \/ LabNotPlaced
        PROVE  clock' = (IF Faulting' THEN verb'.at ELSE AccessesDone') /\ Sound' /\ Attending'
    <2>1. /\ Faulting /\ ~Faulting' /\ UNCHANGED clock /\ LiveIn(sessions)' = LiveIn(sessions)
          /\ \A o \in Objects : Entry(o)' <=> Entry(o)
          /\ \E result : Done(result)
          /\ verb.at <= Len(stream.declared) /\ job.once
      BY <1>2, PlacedFacts, NotPlacedFacts, Replays DEF LiveIn, LabTyped, ReplayVerb
    <2>2. \A o \in Objects : Entry(o) => table'[o].share = 0 \/ table'[o] = table[o]
      BY <1>2, <2>1, PlacedFacts, NotPlacedFacts
    <2>3. /\ verb'.name = "replay" /\ verb'.at = verb.at + 1 /\ stream'.declared = stream.declared
      BY <1>2, <2>1, DoneFacts DEF Moved
    <2>4. AccessesDone' = verb.at
      BY <1>0, <1>2, <2>1, <2>3, DoneNow
    <2>5. Attending'
      BY <1>0, <1>2, <2>1, <2>3 DEF Attending
    <2>6. Sound'
      BY <1>0, <1>2, <2>1, <2>2, <2>3 DEF Sound
    <2> QED
      BY <1>0, <1>2, <2>1, <2>4, <2>5, <2>6
  <1>3. ASSUME Comparable, Replaying, LabDestroyNext \/ \E id \in Objects : LabDestroyObject(id)
        PROVE  clock' = (IF Faulting' THEN verb'.at ELSE AccessesDone') /\ Sound' /\ Attending'
    <2>1. /\ ~Faulting /\ ~Faulting' /\ UNCHANGED <<clock, verb, stream, limit, policy>>
          /\ job.phase = "destroy"
          /\ \A o \in Objects : Entry(o)' => Entry(o) /\ table'[o] = table[o]
      BY <1>3, DestroyNextFacts, DestroyFacts DEF labvars
    <2>2. verb.at = Len(stream.declared) + 2
      BY <1>3, <2>1, Replays DEF LabTyped, ReplayVerb
    <2>3. Attending'
      BY <1>0, <1>3, <2>1, <2>2 DEF Attending
    <2>4. Sound'
      BY <1>0, <1>3, <2>1 DEF Sound
    <2> QED
      BY <1>0, <1>3, <2>1, <2>3, <2>4, SameReplay DEF SameVerb
  <1>4. ASSUME Comparable, Replaying, Enter
        PROVE  clock' = (IF Faulting' THEN verb'.at ELSE AccessesDone') /\ Sound' /\ Attending'
    <2>1. /\ ~Faulting /\ ~Faulting' /\ UNCHANGED <<clock, verb, stream, limit, policy, sessions>>
          /\ \A o \in Objects : Entry(o)' <=> Entry(o) \/ o = Current
          /\ \A o \in Objects : o # Current => table'[o] = table[o]
          /\ table'[Current] = Meta0(Current)
          /\ verb.at <= Len(stream.declared)
      BY <1>4, EnterFacts
    <2>2. Current \in ToSet(stream.declared) /\ Current \in Objects
      BY <1>4, <2>1, CurrentKnown
    <2>3. Meta0(Current).share = 0
      BY <2>2, Meta0Typed
    <2>4. Sound'
      BY <1>0, <1>4, <2>1, <2>2, <2>3 DEF Sound
    <2>5. Attending'
      BY <1>0, <1>4, <2>1 DEF Attending, LiveIn
    <2> QED
      BY <1>0, <1>4, <2>1, <2>4, <2>5, SameReplay DEF SameVerb
  <1>5. ASSUME Comparable, Replaying, ReplayEnds
        PROVE  clock' = (IF Faulting' THEN verb'.at ELSE AccessesDone') /\ Sound' /\ Attending'
    <2>1. /\ verb.at = Len(stream.declared) + 1 /\ job = Idle /\ job'.phase = "destroy"
          /\ UNCHANGED <<table, clock, stream>> /\ verb'.at = verb.at + 1 /\ verb'.name = "replay"
      BY <1>5, ReplayEndsTyped
    <2>2. ~Faulting /\ ~Faulting' /\ Replaying'
      BY <2>1 DEF Faulting, Idle, Replaying
    <2>3. AccessesDone = Len(stream.declared)
      BY <1>0, <1>5, <2>1, DoneAre
    <2>4. AccessesDone' = Len(stream.declared)
      BY <1>0, <1>5, <2>1, DoneNow
    <2>5. Sound'
      BY <1>0, <1>5, <2>1 DEF Sound, Entry
    <2>6. Attending'
      BY <1>0, <1>5, <2>1 DEF Attending
    <2> QED
      BY <1>0, <1>5, <2>1, <2>2, <2>3, <2>4, <2>5, <2>6
  <1>6. ASSUME Comparable, Replaying, NEW lease \in LeaseKinds, NEW id \in Objects, NEW once \in BOOLEAN,
               once, Accessing(id, once), AcquireHit(id, lease, once)
        PROVE  clock' = (IF Faulting' THEN verb'.at ELSE AccessesDone') /\ Sound' /\ Attending'
    <2>1. /\ job = Idle /\ job' = Idle /\ clock' = clock + 1 /\ UNCHANGED sessions
          /\ \A o \in Objects : Entry(o)' <=> Entry(o)
          /\ \A o \in Objects : o # id => table'[o] = table[o]
          /\ table[id].share = 0 => table'[id].share = 0
          /\ \E result : Done(result)
          /\ verb.at <= Len(stream.declared)
      BY <1>6, HitFacts, Zenon DEF Accessing
    <2>2. /\ verb'.name = "replay" /\ verb'.at = verb.at + 1 /\ stream'.declared = stream.declared
      BY <1>6, <2>1, DoneFacts DEF Moved
    <2>3. ~Faulting /\ ~Faulting'
      BY <2>1 DEF Faulting, Idle
    <2>4. AccessesDone' = verb.at /\ AccessesDone = verb.at - 1
      BY <1>0, <1>6, <2>1, <2>2, DoneAre, DoneNow
    <2>5. Attending'
      BY <1>0, <1>6, <2>1, <2>2 DEF Attending, LiveIn
    <2>6. Sound'
      BY <1>0, <1>6, <2>1, <2>2 DEF Sound
    <2> QED
      BY <1>0, <1>6, <2>1, <2>3, <2>4, <2>5, <2>6
  <1>7. ASSUME Comparable, Replaying, NEW lease \in LeaseKinds, NEW id \in Objects, NEW once \in BOOLEAN,
               once, Accessing(id, once), AcquireMiss(id, lease, once)
        PROVE  clock' = (IF Faulting' THEN verb'.at ELSE AccessesDone') /\ Sound' /\ Attending'
    <2>1. /\ ~Faulting /\ Faulting' /\ clock' = clock + 1 /\ LiveIn(sessions)' = LiveIn(sessions)
          /\ \A o \in Objects : Entry(o)' <=> Entry(o)
          /\ UNCHANGED <<table, verb, stream>> /\ verb.at <= Len(stream.declared)
      BY <1>7, MissFacts, Zenon DEF Accessing
    <2>2. AccessesDone = verb.at - 1
      BY <1>0, <1>7, <2>1, DoneAre
    <2>3. Attending' /\ Sound'
      BY <1>0, <1>7, <2>1 DEF Attending, Sound
    <2> QED
      BY <1>0, <1>7, <2>1, <2>2, <2>3
  <1>8. ASSUME NEW order \in Traces, NEW name \in Policies, clock = 0, Replay(name, order)
        PROVE  clock' = (IF Faulting' THEN verb'.at ELSE AccessesDone') /\ Sound' /\ Attending'
    <2>1. /\ verb = Waiting /\ ~Faulting' /\ UNCHANGED <<table, clock>> /\ verb'.name = "replay" /\ verb'.at = 1
          /\ stream'.declared = order /\ LiveIn(sessions)' = LiveIn(sessions) \cup NamedIn(order)
      BY <1>8, BeginFacts
    <2>2. QuietNow /\ ~Replaying /\ Replaying'
      BY <1>8, <2>1, QuietIs DEF Replaying, Waiting
    <2>3. AccessesDone' = 0
      BY <2>1, DoneNow
    <2>4. Sound'
      BY <2>1, <2>2 DEF QuietNow, Sound, Entry
    <2>5. Attending'
      BY <2>1, <2>2 DEF QuietNow, Attending
    <2> QED
      BY <1>8, <2>1, <2>3, <2>4, <2>5
  <1>9. CASE Comparable /\ Replaying /\ Replayed /\ ~NotEntered
    <2>1. CASE \E lease \in LeaseKinds :
                 /\ Accessing(Current, TRUE) /\ Current \in Objects
                 /\ AcquireHit(Current, lease, TRUE) \/ AcquireMiss(Current, lease, TRUE)
      BY <1>6, <1>7, <1>9, <2>1, Zenon
    <2> QED
      BY <1>1, <1>2, <1>3, <1>4, <1>5, <1>9, <2>1, Zenon DEF Replayed
  <1> QED
    BY <1>8, <1>9, ComparableSteps

-----------------------------------------------------------------------------
(* Next uses: what an access writes of an object is where the chain says it  *)
(* is next, and the accesses after it leave that alone until it is there.    *)

\* From access t on.
From(order, id, t) == {s \in t .. Len(order) : order[s] = id}
Want(order, id, t) == IF From(order, id, t) = {} THEN Never ELSE At(Min(From(order, id, t)))

LEMMA WantsIs ==
  Wants <=> (Comparable /\ verb.at <= Len(stream.declared) + 1 =>
               \A id \in ResidentSet : hints[id].next = Want(stream.declared, id, verb.at))
  BY Zenon DEF Wants, NextWant, WantedFrom, Want, From

LEMMA WantOther ==
  ASSUME NEW order, Len(order) \in Nat, NEW t \in Nat, NEW id, order[t] # id
  PROVE  Want(order, id, t + 1) = Want(order, id, t)
  <1>1. \A s : s \in From(order, id, t + 1) <=> s \in From(order, id, t)
    BY DEF From
  <1>2. From(order, id, t + 1) = From(order, id, t)
    BY <1>1, Zenon
  <1> QED
    BY <1>2 DEF Want

LEMMA WantNext ==
  ASSUME NEW order \in Seq(Objects), NEW t \in 1 .. Len(order)
  PROVE  TickOf(Chain(order)[t]) = Want(order, order[t], t + 1)
  <1>1. Chain(order)[t] = NextAt(order, t)
    BY ChainValue
  <1>2. PICK later : later = From(order, order[t], t + 1)
    OBVIOUS
  <1>3. NextAt(order, t) = IF later = {} THEN NEVER ELSE Min(later) - 1
    BY <1>2 DEF NextAt, Again, From
  <1>4. CASE later = {}
    BY <1>1, <1>2, <1>3, <1>4 DEF TickOf, Want
  <1>5. CASE later # {}
    <2>1. later \in SUBSET Nat /\ \A s \in later : s >= 2
      BY <1>2, LenProperties DEF From
    <2>2. PICK m \in Nat : m = Min(later) /\ m >= 2
      BY <1>5, <2>1, LeastMember, Zenon
    <2>3. m - 1 # NEVER /\ m - 1 + 1 = m
      BY <2>2 DEF NEVER
    <2>4. NextAt(order, t) = m - 1
      BY <1>3, <1>5, <2>2
    <2>5. TickOf(m - 1) = At(m)
      BY <2>3 DEF TickOf
    <2> QED
      BY <1>1, <1>2, <1>5, <2>2, <2>4, <2>5 DEF Want
  <1> QED
    BY <1>4, <1>5

\* What is written of the object that is accessed.
LEMMA NextOfCurrent ==
  ASSUME LabTyped, Replaying, verb.at <= Len(stream.declared)
  PROVE  NextAfter(stream, Current) = Want(stream.declared, Current, verb.at + 1)
  <1>0. ReplayVerb /\ verb.at \in 1 .. Len(stream.declared) /\ stream.declared \in Seq(Objects)
    BY Replays, CurrentKnown DEF LabTyped, Streams
  <1>1. stream.cursor = verb.at - 1 /\ stream.next = Chain(stream.declared)
    BY <1>0, LenProperties DEF ReplayVerb
  <1>2. stream.cursor < Len(stream.declared) /\ stream.cursor + 1 = verb.at
    BY <1>0, <1>1
  <1>3. NextAfter(stream, Current) = TickOf(stream.next[verb.at])
    BY <1>2, Zenon DEF NextAfter, Current
  <1>4. PICK t \in 1 .. Len(stream.declared) : t = verb.at
    BY <1>0
  <1>5. TickOf(Chain(stream.declared)[t]) = Want(stream.declared, stream.declared[t], t + 1)
    BY <1>0, WantNext
  <1> QED
    BY <1>1, <1>3, <1>4, <1>5 DEF Current

\* An access that is done with, of an object that is there after it or not.
LEMMA WantsMoved ==
  ASSUME LabTyped, Wants, Comparable, verb.at <= Len(stream.declared),
         verb'.at = verb.at + 1, stream'.declared = stream.declared,
         ResidentSet' \subseteq ResidentSet \cup {Current},
         \A id \in ResidentSet' \ {Current} : hints'[id] = hints[id],
         Current \in ResidentSet' => hints'[Current].next = NextAfter(stream, Current)
  PROVE  Wants'
  <1>0. Replaying /\ verb.at \in Nat \ {0} /\ Len(stream.declared) \in Nat
    BY DoneAre DEF Comparable, Replaying
  <1>1. ASSUME NEW id \in ResidentSet'
        PROVE  hints'[id].next = Want(stream.declared, id, verb.at + 1)
    <2>1. CASE id = Current
      BY <1>0, <1>1, <2>1, NextOfCurrent
    <2>2. CASE id # Current
      <3>1. id \in ResidentSet /\ hints'[id] = hints[id]
        BY <1>1, <2>2
      <3>2. hints[id].next = Want(stream.declared, id, verb.at)
        BY <1>0, <3>1, WantsIs
      <3>3. Want(stream.declared, id, verb.at + 1) = Want(stream.declared, id, verb.at)
        BY <1>0, <2>2, WantOther DEF Current
      <3> QED
        BY <3>1, <3>2, <3>3
    <2> QED
      BY <2>1, <2>2
  <1> QED
    BY <1>1 DEF Wants, NextWant, WantedFrom, Want, From

\* A step that writes no hint of an object that stays.
LEMMA WantsKept ==
  ASSUME Wants, UNCHANGED <<verb, stream>>, Comparable, ResidentSet' \subseteq ResidentSet,
         \A id \in ResidentSet' : hints'[id] = hints[id]
  PROVE  Wants'
  <1>1. verb.at <= Len(stream.declared) + 1 =>
          \A id \in ResidentSet' : hints'[id].next = Want(stream.declared, id, verb.at)
    BY WantsIs
  <1> QED
    BY <1>1, Zenon DEF Wants, NextWant, WantedFrom, Want, From

LEMMA LabStepWants ==
  ASSUME LabTyped, LabTyped', Quiet, Steady, Wants, LabSteps
  PROVE  Wants'
  <1> SUFFICES ASSUME Comparable', verb'.at <= Len(stream'.declared) + 1
               PROVE  Wants'
    BY DEF Wants
  <1>0. Replaying => verb.at \in Nat \ {0} /\ Len(stream.declared) \in Nat
    BY DoneAre
  <1>1. ASSUME Comparable, LabRoomFound \/ LabStopEvicting \/ LabEvictVictim
        PROVE  Wants'
    <2>1. UNCHANGED <<verb, stream, hints>> /\ ResidentSet' \subseteq ResidentSet
      BY <1>1, TurnFacts, VictimFacts DEF labvars
    <2> QED
      BY <1>1, <2>1, WantsKept
  <1>2. ASSUME Comparable, Replaying, LabPlaced \/ LabNotPlaced
        PROVE  Wants'
    <2>1. /\ Faulting /\ verb.at <= Len(stream.declared) /\ job.id = Current
          /\ \E result : Done(result)
      BY <1>2, PlacedFacts, NotPlacedFacts, Replays DEF LabTyped, ReplayVerb
    <2>2. verb'.at = verb.at + 1 /\ stream'.declared = stream.declared
      BY <1>2, <2>1, DoneFacts DEF Moved
    <2>3. CASE LabPlaced
      <3>1. /\ ResidentSet' = ResidentSet \cup {Current}
            /\ HintSet(job.id, clock, clock, NextAfter(stream, job.id))
        BY <2>1, <2>3, PlacedFacts
      <3>2. /\ \A id \in ResidentSet' \ {Current} : hints'[id] = hints[id]
            /\ hints'[Current].next = NextAfter(stream, Current)
        BY <2>1, <3>1, ObjectsAre DEF HintSet
      <3> QED
        BY <1>2, <2>1, <2>2, <3>1, <3>2, WantsMoved
    <2>4. CASE LabNotPlaced
      <3>1. ResidentSet' = ResidentSet /\ UNCHANGED hints
        BY <2>4, NotPlacedFacts
      <3>2. Current \notin ResidentSet
        BY <2>1, FaultingJob DEF LabTyped, ResidentSet
      <3> QED
        BY <1>2, <2>1, <2>2, <3>1, <3>2, WantsMoved
    <2> QED
      BY <1>2, <2>3, <2>4
  <1>3. ASSUME Replaying, LabDestroyNext \/ \E id \in Objects : LabDestroyObject(id)
        PROVE  FALSE
    <2>1. job.phase = "destroy" /\ UNCHANGED <<verb, stream>>
      BY <1>3, DestroyNextFacts, DestroyFacts DEF labvars
    <2>2. verb.at = Len(stream.declared) + 2
      BY <1>3, <2>1, Replays DEF LabTyped, ReplayVerb
    <2> QED
      BY <1>0, <1>3, <2>1, <2>2
  <1>4. ASSUME Comparable, Enter
        PROVE  Wants'
    <2>1. /\ ResidentSet' = ResidentSet /\ Current \notin ResidentSet /\ HintSet(Current, 0, 0, Never)
          /\ UNCHANGED <<verb, stream>>
      BY <1>4, EnterFacts
    <2>2. \A id \in ResidentSet' : hints'[id] = hints[id]
      BY <2>1, ObjectsAre DEF HintSet
    <2> QED
      BY <1>4, <2>1, <2>2, WantsKept
  <1>5. ASSUME Replaying, ReplayEnds
        PROVE  FALSE
    BY <1>0, <1>5, ReplayEndsTyped
  <1>6. ASSUME Comparable, Replaying, NEW lease \in LeaseKinds, NEW id \in Objects, NEW once \in BOOLEAN,
               id = Current, Accessing(id, once), AcquireHit(id, lease, once)
        PROVE  Wants'
    <2>1. /\ ResidentSet' = ResidentSet /\ HintSet(id, hints[id].placed, clock + 1, NextAfter(stream, id))
          /\ \E result : Done(result)
          /\ verb.at <= Len(stream.declared)
      BY <1>6, HitFacts, Zenon DEF Accessing
    <2>2. verb'.at = verb.at + 1 /\ stream'.declared = stream.declared
      BY <1>6, <2>1, DoneFacts DEF Moved
    <2>3. /\ \A o \in ResidentSet' \ {Current} : hints'[o] = hints[o]
          /\ hints'[Current].next = NextAfter(stream, Current)
      BY <1>6, <2>1, ObjectsAre DEF HintSet
    <2> QED
      BY <1>6, <2>1, <2>2, <2>3, WantsMoved
  <1>7. ASSUME Comparable, NEW lease \in LeaseKinds, NEW id \in Objects, NEW once \in BOOLEAN,
               Accessing(id, once), AcquireMiss(id, lease, once)
        PROVE  Wants'
    BY <1>7, MissFacts, WantsKept
  <1>8. ASSUME NEW order \in Traces, NEW name \in Policies, clock = 0, Replay(name, order)
        PROVE  Wants'
    <2>1. \A id \in Objects : ~Resident(id)'
      BY <1>8, BeginFacts, QuietIs DEF QuietNow, Resident, Entry
    <2>2. ResidentSet' = {}
      BY <2>1 DEF ResidentSet
    <2> QED
      BY <2>2 DEF Wants
  <1>9. CASE Comparable /\ Replaying /\ Replayed /\ ~NotEntered
    <2>1. CASE \E lease \in LeaseKinds :
                 /\ Accessing(Current, TRUE) /\ Current \in Objects
                 /\ AcquireHit(Current, lease, TRUE) \/ AcquireMiss(Current, lease, TRUE)
      BY <1>6, <1>7, <1>9, <2>1, Zenon
    <2> QED
      BY <1>1, <1>2, <1>3, <1>4, <1>5, <1>9, <2>1, Zenon DEF Replayed
  <1> QED
    BY <1>8, <1>9, ComparableSteps

LEMMA WantsTrue ==
  ASSUME LabTyped, Steady, Wants
  PROVE  NextUseTrue
  <1> SUFFICES ASSUME Comparable, verb.at <= Len(stream.declared), NEW id \in ResidentSet
               PROVE  Horizon(hints[id].next, clock) =
                        IF WantedFrom(id) = {} THEN Undeclared
                        ELSE Min(WantedFrom(id)) - verb.at + (IF job = Idle THEN 1 ELSE 0)
    BY DEF NextUseTrue
  <1>1. /\ Replaying /\ verb.at \in Nat \ {0} /\ Len(stream.declared) \in Nat
        /\ AccessesDone = verb.at - 1
    BY DoneAre DEF Comparable, Replaying
  <1>2. clock = IF Faulting THEN verb.at ELSE verb.at - 1
    BY <1>1, SteadyIs
  <1>3. Faulting <=> job # Idle
    <2>1. job.phase # "destroy"
      BY <1>1, Replays DEF LabTyped, ReplayVerb
    <2> QED
      BY <2>1, IdleJob DEF LabTyped, Jobs, DestroyJob, Faulting
  <1>4. hints[id].next = NextWant(id)
    BY <1>1 DEF Wants
  <1>5. CASE WantedFrom(id) = {}
    <2>1. hints[id].next.when = "never"
      BY <1>4, <1>5 DEF NextWant, Never
    <2> QED
      BY <1>5, <2>1, Zenon DEF Horizon
  <1>6. CASE WantedFrom(id) # {}
    <2>1. WantedFrom(id) \in SUBSET Nat /\ \A s \in WantedFrom(id) : verb.at <= s
      BY <1>1 DEF WantedFrom
    <2>2. PICK m \in Nat : m = Min(WantedFrom(id)) /\ verb.at <= m
      BY <1>6, <2>1, LeastMember
    <2>3. hints[id].next = At(m)
      BY <1>4, <1>6, <2>2 DEF NextWant
    <2>4. hints[id].next.when = "at" /\ hints[id].next.tick = m
      BY <2>3 DEF At
    <2>5. Horizon(hints[id].next, clock) = Greater(m - clock, 0)
      BY <2>4 DEF Horizon
    <2>6. Greater(m - clock, 0) = m - verb.at + (IF job = Idle THEN 1 ELSE 0)
      BY <1>1, <1>2, <1>3, <2>2 DEF Greater
    <2> QED
      BY <1>6, <2>2, <2>5, <2>6
  <1> QED
    BY <1>5, <1>6

-----------------------------------------------------------------------------
(* Next uses and clock, for every lab. *)

LEMMA LabStutterBooks ==
  ASSUME LabTyped, UNCHANGED all
  PROVE  (Quiet => Quiet') /\ (Steady => Steady') /\ (Wants => Wants')
  <1>1. /\ UNCHANGED <<table, free, sessions, job, limit, clock, hints, stream, ring, counts, verb>>
        /\ ResidentSet' = ResidentSet
    BY Zenon DEF all, vars, labvars, ResidentSet, Resident, Entry
  <1>2. /\ Current' = Current /\ Doomed' = Doomed /\ (Faulting' <=> Faulting) /\ (Replaying' <=> Replaying)
        /\ (Comparable' <=> Comparable) /\ AccessesDone' = AccessesDone /\ LiveIn(sessions)' = LiveIn(sessions)
    BY <1>1, Zenon DEF Current, Doomed, Faulting, Replaying, Comparable, AccessesDone, LiveIn
  <1>3. \A id : (Entry(id)' <=> Entry(id)) /\ (Resident(id)' <=> Resident(id))
                /\ NextWant(id)' = NextWant(id)
    BY <1>1, Zenon DEF Entry, Resident, NextWant, WantedFrom
  <1>4. Quiet => Quiet'
    BY <1>1, <1>2, <1>3 DEF Quiet
  <1>5. Steady => Steady'
    BY <1>1, <1>2, <1>3 DEF Steady
  <1>6. Wants => Wants'
    BY <1>1, <1>2, <1>3 DEF Wants
  <1> QED
    BY <1>4, <1>5, <1>6

LEMMA LabInitBooks ==
  ASSUME LabInit
  PROVE  Quiet /\ Steady /\ Wants
  <1>1. /\ ~Replaying /\ ~Faulting /\ limit = 0
        /\ \A id \in Objects : ~Entry(id) /\ ~Resident(id)
        /\ LiveIn(sessions) = {} /\ counts = Counts0 /\ ring = NoRing
    BY LabInitTyped DEF Waiting, Replaying, Faulting, Idle
  <1>2. Quiet
    BY <1>1 DEF Quiet, Counts0
  <1>3. Steady /\ Wants
    BY <1>1 DEF Steady, Wants, Comparable, Replaying
  <1> QED
    BY <1>2, <1>3

LEMMA LabBooks == LabSpec => [](Quiet /\ Steady /\ Wants)
  <1>1. LabInit => Quiet /\ Steady /\ Wants
    BY LabInitBooks
  <1>2. LabTyped /\ LabTyped' /\ (Quiet /\ Steady /\ Wants) /\ [LabNext]_all => (Quiet /\ Steady /\ Wants)'
    BY StepOf, LabStepQuiet, LabStepSteady, LabStepWants, LabStutterBooks
  <1> QED
    BY <1>1, <1>2, LabTypeCorrect, PTL DEF LabSpec

\* nextuse.rs and lib.rs: while a declared order is replayed into a fresh
\* manager, what the table says of the next use of every resident object is
\* where the order names it next, on the manager's own clock: hits, misses,
\* refusals and the entries a replay makes keep the two in step.
THEOREM HintsTellTheOrder == LabSpec => []NextUseTrue
  <1>1. LabTyped /\ (Quiet /\ Steady /\ Wants) => NextUseTrue
    BY WantsTrue
  <1> QED
    BY <1>1, LabBooks, LabTypeCorrect, PTL

-----------------------------------------------------------------------------
(* The acquires a ring holds. *)

LEMMA AppendIs ==
  ASSUME NEW S, NEW s \in Seq(S), NEW x \in S
  PROVE  /\ Append(s, x) \in Seq(S) /\ Len(Append(s, x)) = Len(s) + 1 /\ Append(s, x)[Len(s) + 1] = x
         /\ \A i \in 1 .. Len(s) : Append(s, x)[i] = s[i]
  OBVIOUS

LEMMA TailIs ==
  ASSUME NEW S, NEW s \in Seq(S), s # <<>>
  PROVE  /\ Len(s) \in Nat \ {0} /\ Tail(s) \in Seq(S) /\ Len(Tail(s)) = Len(s) - 1
         /\ \A i \in 1 .. Len(s) - 1 : Tail(s)[i] = s[i + 1]
  <1>1. Len(s) \in Nat \ {0}
    BY EmptySeq
  <1>2. /\ Tail(s) \in Seq(S) /\ Len(Tail(s)) = Len(s) - 1
        /\ \A i \in 1 .. Len(Tail(s)) : Tail(s)[i] = s[i + 1]
    BY HeadTailProperties
  <1> QED
    BY <1>1, <1>2

\* Induction, over a set.
LEMMA UpTo ==
  ASSUME NEW n \in Nat, NEW good, 0 \in good,
         \A k \in 0 .. n - 1 : k \in good => k + 1 \in good
  PROVE  \A k \in 0 .. n : k \in good
  <1> DEFINE bad == {k \in 0 .. n : k \notin good}
  <1>1. CASE bad # {}
    <2>1. PICK k \in bad : \A j \in bad : k <= j
      <3>1. bad \in SUBSET Nat
        OBVIOUS
      <3> QED
        BY <1>1, <3>1, LeastMember, Zenon
    <2>2. k # 0 /\ k - 1 \in 0 .. n - 1 /\ k - 1 \notin bad
      BY <2>1
    <2>3. k - 1 \in good
      BY <2>2
    <2>4. k - 1 + 1 \in good /\ k - 1 + 1 = k
      BY <2>2, <2>3
    <2> QED
      BY <2>1, <2>4
  <1> QED
    BY <1>1

Events == {"placed", "hit", "refused", "evicted"} \X Objects
NextFound(es, got, n) == IF es[n][1] \in ACQUIRES THEN Append(got, es[n][2]) ELSE got
IsFound(es, n, f) == f = [i \in 0 .. n |-> IF i = 0 THEN <<>> ELSE NextFound(es, f[i - 1], i)]
HasFound(es, n) == \E f : IsFound(es, n, f)

LEMMA HasFoundNext ==
  ASSUME NEW es, NEW n \in Nat, HasFound(es, n)
  PROVE  HasFound(es, n + 1)
  <1>1. PICK f : IsFound(es, n, f)
    BY DEF HasFound
  <1> DEFINE g == [i \in 0 .. n + 1 |-> IF i <= n THEN f[i] ELSE NextFound(es, f[n], n + 1)]
             h == [i \in 0 .. n + 1 |-> IF i = 0 THEN <<>> ELSE NextFound(es, g[i - 1], i)]
  <1>2. ASSUME NEW i \in 0 .. n + 1
        PROVE  g[i] = h[i]
    <2>1. CASE i = 0
      BY <1>1, <2>1 DEF IsFound
    <2>2. CASE i \in 1 .. n
      <3>0. i \in 0 .. n /\ i # 0
        BY <2>2
      <3>1. f[i] = NextFound(es, f[i - 1], i)
        BY <1>1, <3>0, Zenon DEF IsFound
      <3>2. g[i] = f[i] /\ g[i - 1] = f[i - 1]
        BY <2>2
      <3> QED
        BY <2>2, <3>1, <3>2
    <2>3. CASE i = n + 1
      <3>1. g[i - 1] = f[n] /\ g[i] = NextFound(es, f[n], i)
        BY <2>3
      <3> QED
        BY <2>3, <3>1
    <2> QED
      BY <2>1, <2>2, <2>3
  <1>3. g = h
    BY <1>2
  <1> QED
    BY <1>3, Zenon DEF IsFound, HasFound

LEMMA HasFoundAll ==
  ASSUME NEW es, NEW n \in Nat
  PROVE  HasFound(es, n)
  <1> DEFINE good == {k \in Nat : HasFound(es, k)}
  <1>1. HasFound(es, 0)
    <2> DEFINE f == [i \in 0 .. 0 |-> <<>>]
    <2>1. f = [i \in 0 .. 0 |-> IF i = 0 THEN <<>> ELSE NextFound(es, f[i - 1], i)]
      OBVIOUS
    <2> QED
      BY <2>1, Zenon DEF IsFound, HasFound
  <1>2. \A k \in 0 .. n - 1 : k \in good => k + 1 \in good
    BY HasFoundNext
  <1>3. 0 \in good
    BY <1>1
  <1> HIDE DEF good
  <1>4. n \in good
    BY <1>2, <1>3, UpTo
  <1> QED
    BY <1>4 DEF good

LEMMA FoundUnfold ==
  ASSUME NEW es, Len(es) \in Nat
  PROVE  /\ Acquired(es)[0] = <<>>
         /\ \A i \in 1 .. Len(es) : Acquired(es)[i] = NextFound(es, Acquired(es)[i - 1], i)
  <1>1. Acquired(es) = CHOOSE f : IsFound(es, Len(es), f)
    BY Zenon DEF Acquired, IsFound, NextFound
  <1>2. IsFound(es, Len(es), Acquired(es))
    BY <1>1, HasFoundAll, Zenon DEF HasFound
  <1> QED
    BY <1>2 DEF IsFound

LEMMA FoundTyped ==
  ASSUME NEW es \in Seq(Events), NEW n \in 0 .. Len(es)
  PROVE  Acquired(es)[n] \in Seq(Objects)
  <1> DEFINE good == {k \in 0 .. Len(es) : Acquired(es)[k] \in Seq(Objects)}
  <1>0. Len(es) \in Nat
    BY LenProperties
  <1>1. 0 \in good
    <2>1. Acquired(es)[0] = <<>>
      BY <1>0, FoundUnfold
    <2>2. <<>> \in Seq(Objects)
      OBVIOUS
    <2>3. Acquired(es)[0] \in Seq(Objects)
      BY <2>1, <2>2, Zenon
    <2>4. 0 \in 0 .. Len(es)
      BY <1>0
    <2> QED
      BY <2>3, <2>4, Zenon
  <1>2. ASSUME NEW k \in 0 .. Len(es) - 1, k \in good
        PROVE  k + 1 \in good
    <2>1. k + 1 \in 1 .. Len(es) /\ k + 1 - 1 = k
      BY <1>0
    <2>2. es[k + 1] \in Events
      BY <2>1, ElementOfSeq
    <2>3. es[k + 1][2] \in Objects
      BY <2>2 DEF Events
    <2>4. Acquired(es)[k + 1] = NextFound(es, Acquired(es)[k], k + 1)
      BY <1>0, <2>1, FoundUnfold
    <2>5. Acquired(es)[k] \in Seq(Objects)
      BY <1>2
    <2>6. Acquired(es)[k + 1] \in Seq(Objects)
      BY <2>3, <2>4, <2>5 DEF NextFound
    <2> QED
      BY <2>1, <2>6
  <1> HIDE DEF good
  <1>3. n \in good
    BY <1>0, <1>1, <1>2, UpTo, Zenon
  <1> QED
    BY <1>3 DEF good

\* What is found depends on what was met.
LEMMA FoundSame ==
  ASSUME NEW es \in Seq(Events), NEW fs \in Seq(Events), Len(es) <= Len(fs),
         \A i \in 1 .. Len(es) : fs[i] = es[i], NEW n \in 0 .. Len(es)
  PROVE  Acquired(fs)[n] = Acquired(es)[n]
  <1> DEFINE good == {k \in 0 .. Len(es) : Acquired(fs)[k] = Acquired(es)[k]}
  <1>0. Len(es) \in Nat /\ Len(fs) \in Nat
    BY LenProperties
  <1>1. 0 \in good
    BY <1>0, FoundUnfold
  <1>2. ASSUME NEW k \in 0 .. Len(es) - 1, k \in good
        PROVE  k + 1 \in good
    <2>1. k + 1 \in 1 .. Len(es) /\ k + 1 - 1 = k /\ k + 1 \in 1 .. Len(fs)
      BY <1>0
    <2>2. /\ Acquired(es)[k + 1] = NextFound(es, Acquired(es)[k], k + 1)
          /\ Acquired(fs)[k + 1] = NextFound(fs, Acquired(fs)[k], k + 1)
      BY <1>0, <2>1, FoundUnfold
    <2>3. Acquired(fs)[k] = Acquired(es)[k] /\ fs[k + 1] = es[k + 1]
      BY <1>2, <2>1
    <2>4. Acquired(fs)[k + 1] = Acquired(es)[k + 1]
      BY <2>2, <2>3 DEF NextFound
    <2> QED
      BY <2>1, <2>4
  <1> HIDE DEF good
  <1>3. n \in good
    BY <1>0, <1>1, <1>2, UpTo, Zenon
  <1> QED
    BY <1>3 DEF good

Found(es) == Acquired(es)[Len(es)]

LEMMA FoundAppended ==
  ASSUME NEW es \in Seq(Events), NEW e \in Events
  PROVE  Found(Append(es, e)) = IF e[1] \in ACQUIRES THEN Append(Found(es), e[2]) ELSE Found(es)
  <1> DEFINE n == Len(es)
  <1>0. n \in Nat
    BY LenProperties
  <1>1. PICK fs \in Seq(Events) : /\ fs = Append(es, e) /\ Len(fs) = n + 1 /\ fs[n + 1] = e
                                  /\ \A i \in 1 .. n : fs[i] = es[i]
    <2>1. /\ Append(es, e) \in Seq(Events) /\ Len(Append(es, e)) = n + 1 /\ Append(es, e)[n + 1] = e
          /\ \A i \in 1 .. n : Append(es, e)[i] = es[i]
      BY AppendIs
    <2> QED
      BY <2>1, Zenon
  <1>2. Acquired(fs)[n] = Acquired(es)[n]
    <2>1. n \in 0 .. Len(es) /\ Len(es) <= Len(fs)
      BY <1>0, <1>1
    <2> QED
      BY <1>1, <2>1, FoundSame, Zenon
  <1>3. n + 1 \in 1 .. Len(fs) /\ n + 1 - 1 = n /\ Len(fs) \in Nat
    BY <1>0, <1>1
  <1>4. Acquired(fs)[n + 1] = NextFound(fs, Acquired(fs)[n], n + 1)
    <2>1. \A i \in 1 .. Len(fs) : Acquired(fs)[i] = NextFound(fs, Acquired(fs)[i - 1], i)
      BY <1>3, FoundUnfold, Zenon
    <2>2. PICK k \in 1 .. Len(fs) : k = n + 1 /\ k - 1 = n
      BY <1>3
    <2>3. Acquired(fs)[k] = NextFound(fs, Acquired(fs)[k - 1], k)
      BY <2>1
    <2> QED
      BY <2>2, <2>3
  <1> QED
    BY <1>1, <1>2, <1>4 DEF NextFound, Found

LEMMA TailAppend ==
  ASSUME NEW s \in Seq(Objects), s # <<>>, NEW x \in Objects
  PROVE  Tail(Append(s, x)) = Append(Tail(s), x) /\ Append(s, x) # <<>>
  <1>1. PICK a \in Seq(Objects) : /\ a = Append(s, x) /\ Len(a) = Len(s) + 1 /\ a[Len(s) + 1] = x
                                  /\ \A i \in 1 .. Len(s) : a[i] = s[i]
    <2>1. /\ Append(s, x) \in Seq(Objects) /\ Len(Append(s, x)) = Len(s) + 1 /\ Append(s, x)[Len(s) + 1] = x
          /\ \A i \in 1 .. Len(s) : Append(s, x)[i] = s[i]
      BY AppendIs
    <2> QED
      BY <2>1, Zenon
  <1>2. Len(s) \in Nat \ {0}
    BY EmptySeq
  <1>3. a # <<>>
    BY <1>1, <1>2
  <1>4. /\ Tail(a) \in Seq(Objects) /\ Len(Tail(a)) = Len(s)
        /\ \A i \in 1 .. Len(s) : Tail(a)[i] = a[i + 1]
    BY <1>1, <1>2, <1>3, HeadTailProperties
  <1>5. PICK t \in Seq(Objects) : /\ t = Tail(s) /\ Len(t) = Len(s) - 1
                                  /\ \A i \in 1 .. Len(s) - 1 : t[i] = s[i + 1]
    BY TailIs, Zenon
  <1>6. PICK b \in Seq(Objects) : /\ b = Append(t, x) /\ Len(b) = Len(s) /\ b[Len(s)] = x
                                  /\ \A i \in 1 .. Len(s) - 1 : b[i] = t[i]
    <2>1. Len(t) + 1 = Len(s)
      BY <1>2, <1>5
    <2>2. /\ Append(t, x) \in Seq(Objects) /\ Len(Append(t, x)) = Len(t) + 1 /\ Append(t, x)[Len(t) + 1] = x
          /\ \A i \in 1 .. Len(t) : Append(t, x)[i] = t[i]
      BY AppendIs
    <2> QED
      BY <1>5, <2>1, <2>2, Zenon
  <1>7. ASSUME NEW i \in 1 .. Len(s)
        PROVE  Tail(a)[i] = b[i]
    <2>1. CASE i = Len(s)
      BY <1>1, <1>2, <1>4, <1>6, <2>1
    <2>2. CASE i # Len(s)
      <3>1. i \in 1 .. Len(s) - 1 /\ i + 1 \in 1 .. Len(s)
        BY <1>2, <2>2
      <3> QED
        BY <1>1, <1>4, <1>5, <1>6, <3>1
    <2> QED
      BY <2>1, <2>2, Zenon
  <1>8. Tail(a) = b
    BY <1>4, <1>6, <1>7, SeqEqual
  <1> QED
    BY <1>1, <1>3, <1>5, <1>6, <1>8

LEMMA FoundTail ==
  ASSUME NEW es \in Seq(Events), es # <<>>
  PROVE  IF es[1][1] \in ACQUIRES THEN Found(es) # <<>> /\ Found(Tail(es)) = Tail(Found(es))
                                  ELSE Found(Tail(es)) = Found(es)
  <1>0. Len(es) \in Nat \ {0}
    BY EmptySeq
  <1>1. PICK fs \in Seq(Events) : /\ fs = Tail(es) /\ Len(fs) = Len(es) - 1
                                  /\ \A i \in 1 .. Len(es) - 1 : fs[i] = es[i + 1]
    BY TailIs, Zenon
  <1> DEFINE Was(k) == IF es[1][1] \in ACQUIRES
                       THEN Acquired(es)[k + 1] # <<>> /\ Acquired(fs)[k] = Tail(Acquired(es)[k + 1])
                       ELSE Acquired(fs)[k] = Acquired(es)[k + 1]
             good == {k \in 0 .. Len(fs) : Was(k)}
  <1>2. /\ Acquired(es)[0] = <<>> /\ Acquired(fs)[0] = <<>>
        /\ \A i \in 1 .. Len(es) : Acquired(es)[i] = NextFound(es, Acquired(es)[i - 1], i)
        /\ \A i \in 1 .. Len(fs) : Acquired(fs)[i] = NextFound(fs, Acquired(fs)[i - 1], i)
    <2>1. Len(fs) \in Nat
      BY <1>0, <1>1
    <2> HIDE <1>1
    <2> QED
      BY <1>0, <2>1, FoundUnfold
  <1>3. Was(0)
    <2>1. Acquired(es)[1] = NextFound(es, <<>>, 1)
      BY <1>0, <1>2
    <2>2. es[1] \in Events
      BY <1>0, ElementOfSeq
    <2>3. PICK x \in Objects : x = es[1][2]
      BY <2>2 DEF Events
    <2>4. <<x>> # <<>> /\ Tail(<<x>>) = <<>> /\ Append(<<>>, x) = <<x>>
      OBVIOUS
    <2>5. Acquired(es)[1] = IF es[1][1] \in ACQUIRES THEN <<x>> ELSE <<>>
      BY <2>1, <2>3, <2>4 DEF NextFound
    <2>6. 0 + 1 = 1
      OBVIOUS
    <2>7. Acquired(es)[0 + 1] = Acquired(es)[1]
      BY <2>6
    <2>8. CASE es[1][1] \in ACQUIRES
      <3>1. Acquired(es)[0 + 1] = <<x>> /\ Acquired(fs)[0] = <<>>
        BY <1>2, <2>5, <2>7, <2>8
      <3> QED
        BY <2>4, <2>8, <3>1, Zenon
    <2>9. CASE es[1][1] \notin ACQUIRES
      <3>1. Acquired(es)[0 + 1] = <<>> /\ Acquired(fs)[0] = <<>>
        BY <1>2, <2>5, <2>7, <2>9
      <3> QED
        BY <2>9, <3>1, Zenon
    <2> QED
      BY <2>8, <2>9
  <1>4. ASSUME NEW k \in 0 .. Len(fs) - 1, Was(k)
        PROVE  Was(k + 1)
    <2>1. /\ k + 1 \in 1 .. Len(fs) /\ k + 1 - 1 = k /\ k + 2 \in 1 .. Len(es) /\ k + 2 - 1 = k + 1
          /\ k + 1 + 1 = k + 2 /\ k + 1 \in 0 .. Len(es)
      BY <1>0, <1>1
    <2>2. fs[k + 1] = es[k + 2] /\ es[k + 2] \in Events
      BY <1>1, <2>1, ElementOfSeq
    <2>3. PICK x \in Objects : x = es[k + 2][2]
      BY <2>2 DEF Events
    <2>4. PICK got \in Seq(Objects) : got = Acquired(es)[k + 1]
      BY <2>1, FoundTyped
    <2>5. /\ Acquired(es)[k + 2] = NextFound(es, got, k + 2)
          /\ Acquired(fs)[k + 1] = NextFound(fs, Acquired(fs)[k], k + 1)
      BY <1>2, <2>1, <2>4
    <2>6. /\ Acquired(es)[k + 2] = IF es[k + 2][1] \in ACQUIRES THEN Append(got, x) ELSE got
          /\ Acquired(fs)[k + 1] = IF es[k + 2][1] \in ACQUIRES THEN Append(Acquired(fs)[k], x) ELSE Acquired(fs)[k]
      BY <2>2, <2>3, <2>5 DEF NextFound
    <2>7. CASE es[1][1] \in ACQUIRES
      <3>1. got # <<>> /\ Acquired(fs)[k] = Tail(got)
        BY <1>4, <2>4, <2>7
      <3>2. Tail(Append(got, x)) = Append(Tail(got), x) /\ Append(got, x) # <<>>
        BY <3>1, TailAppend, Zenon
      <3>3. Acquired(es)[k + 2] # <<>> /\ Acquired(fs)[k + 1] = Tail(Acquired(es)[k + 2])
        BY <2>6, <3>1, <3>2, Zenon
      <3> QED
        BY <2>1, <2>7, <3>3
    <2>8. CASE es[1][1] \notin ACQUIRES
      <3>1. Acquired(fs)[k] = got
        BY <1>4, <2>4, <2>8
      <3>2. Acquired(fs)[k + 1] = Acquired(es)[k + 2]
        BY <2>6, <3>1
      <3> QED
        BY <2>1, <2>8, <3>2
    <2> QED
      BY <2>7, <2>8
  <1>5. 0 \in good /\ \A k \in 0 .. Len(fs) - 1 : k \in good => k + 1 \in good
    <2> HIDE DEF Was
    <2>1. Len(fs) \in Nat
      BY <1>0, <1>1
    <2> QED
      BY <1>3, <1>4, <2>1
  <1> HIDE DEF good
  <1>6. Len(fs) \in Nat /\ Len(fs) \in 0 .. Len(fs) /\ Len(fs) + 1 = Len(es)
    BY <1>0, <1>1
  <1>7. Len(fs) \in good
    BY <1>5, <1>6, UpTo, Zenon
  <1>8. Was(Len(fs))
    BY <1>7 DEF good
  <1> QED
    BY <1>1, <1>6, <1>8 DEF Found

\* The last of the first n of an order, all of them if nothing was lost.
Tells(r, order, n) ==
  \E lost \in 0 .. n : Found(r.events) = SubSeq(order, lost + 1, n) /\ (r.dropped = 0 => lost = 0)
RingTyped == ring \in [events : Seq(Events), dropped : Nat]

LEMMA TracedIs == Traced <=> (Comparable => Tells(ring, stream.declared, AccessesDone))
  BY Zenon DEF Traced, Tells, FromEvents, Found

LEMMA LaterSlice ==
  ASSUME NEW order \in Seq(Objects), NEW n \in 0 .. Len(order), NEW lost \in 0 .. n
  PROVE  /\ SubSeq(order, lost + 1, n) \in Seq(Objects)
         /\ SubSeq(order, lost + 1, n) # <<>> => lost < n /\ Tail(SubSeq(order, lost + 1, n)) = SubSeq(order, lost + 2, n)
         /\ n < Len(order) =>
              Append(SubSeq(order, lost + 1, n), order[n + 1]) = SubSeq(order, lost + 1, n + 1)
  <1>0. Len(order) \in Nat
    BY LenProperties
  <1>1. \A i \in lost + 1 .. n : order[i] \in Objects
    BY <1>0, ElementOfSeq
  <1>2. PICK s \in Seq(Objects) : /\ s = SubSeq(order, lost + 1, n) /\ Len(s) = n - lost
                                  /\ \A i \in 1 .. n - lost : s[i] = order[lost + i]
    <2>1. lost + 1 \in Int /\ n \in Int
      BY <1>0
    <2>2. PICK s : s = SubSeq(order, lost + 1, n)
      BY Zenon
    <2>3. /\ s \in Seq(Objects) /\ Len(s) = (IF lost + 1 <= n THEN n - (lost + 1) + 1 ELSE 0)
          /\ \A i \in 1 .. n - (lost + 1) + 1 : s[i] = order[lost + 1 + i - 1]
      BY <1>1, <2>1, <2>2, SubSeqProperties
    <2>4. Len(s) = n - lost
      BY <1>0, <2>3
    <2>5. \A i \in 1 .. n - lost : s[i] = order[lost + i]
      <3> SUFFICES ASSUME NEW i \in 1 .. n - lost PROVE s[i] = order[lost + i]
        OBVIOUS
      <3>1. i \in 1 .. n - (lost + 1) + 1 /\ lost + 1 + i - 1 = lost + i
        BY <1>0
      <3> QED
        BY <2>3, <3>1
    <2> QED
      BY <2>2, <2>3, <2>4, <2>5, Zenon
  <1>3. ASSUME s # <<>>
        PROVE  lost < n /\ Tail(s) = SubSeq(order, lost + 2, n)
    <2>1. Len(s) # 0
      BY <1>2, <1>3, EmptySeq
    <2>2. lost < n
      BY <1>0, <1>2, <2>1
    <2>3. lost + 1 \in 1 .. Len(order) /\ n \in lost + 1 .. Len(order) /\ lost + 1 + 1 = lost + 2
      BY <1>0, <2>2
    <2>4. Tail(SubSeq(order, lost + 1, n)) = SubSeq(order, lost + 1 + 1, n)
      BY <2>3, HeadTailOfSubSeq
    <2> QED
      BY <1>2, <2>2, <2>3, <2>4, Zenon
  <1>4. ASSUME n < Len(order)
        PROVE  Append(s, order[n + 1]) = SubSeq(order, lost + 1, n + 1)
    <2>1. /\ lost + 1 \in 1 .. Len(order) /\ n + 1 \in lost + 1 .. Len(order) /\ n + 1 - 1 = n
          /\ n + 1 \in 1 .. Len(order)
      BY <1>0, <1>4
    <2>2. SubSeq(order, lost + 1, n + 1) = SubSeq(order, lost + 1, n + 1 - 1) \o <<order[n + 1]>>
      BY <2>1, SubSeqRecursiveSecond
    <2>3. PICK x \in Objects : x = order[n + 1]
      BY <2>1, ElementOfSeq
    <2>4. Append(s, x) = s \o <<x>>
      OBVIOUS
    <2> QED
      BY <1>2, <2>1, <2>2, <2>3, <2>4, Zenon
  <1> QED
    BY <1>2, <1>3, <1>4

\* What one more record does to that.
LEMMA TellsMore ==
  ASSUME RingTyped, NEW kind \in {"placed", "hit", "refused", "evicted"}, NEW id \in Objects,
         ring' = Record(Event(kind, id)), NEW order \in Seq(Objects), NEW n \in 0 .. Len(order), NEW m,
         \/ kind \in ACQUIRES /\ n < Len(order) /\ order[n + 1] = id /\ m = n + 1
         \/ kind \notin ACQUIRES /\ m = n
  PROVE  RingTyped' /\ (Tells(ring, order, n) => Tells(ring', order, m))
  <1>0. Len(order) \in Nat
    BY LenProperties
  <1>1. PICK es \in Seq(Events), d \in Nat : ring.events = es /\ ring.dropped = d
    BY DEF RingTyped
  <1>2. PICK e \in Events : e = Event(kind, id) /\ e[1] = kind /\ e[2] = id
    BY DEF Event, Events
  <1> DEFINE full == ~(Len(es) < RingSize)
             ks == IF full THEN Tail(es) ELSE es
  <1>3. Len(es) \in Nat /\ RingSize \in Nat \ {0}
    BY LenProperties, LabAssumption
  <1>4. full => es # <<>>
    BY <1>3, EmptySeq
  <1>5. ks \in Seq(Events)
    BY <1>4, TailIs
  <1>6. /\ ring'.events = Append(ks, e) /\ ring'.dropped = IF full THEN d + 1 ELSE d
        /\ ring' \in [events : Seq(Events), dropped : Nat]
    <2>1. Append(ks, e) \in Seq(Events)
      BY <1>5, AppendIs
    <2>2. CASE full
      <3>1. ring' = [events |-> Append(Tail(es), e), dropped |-> d + 1]
        BY <1>1, <1>2, <2>2, Zenon DEF Record
      <3> QED
        BY <2>1, <2>2, <3>1
    <2>3. CASE ~full
      <3>1. ring' = [ring EXCEPT !.events = Append(@, e)]
        BY <1>1, <1>2, <2>3, Zenon DEF Record
      <3>2. ring' = [ring EXCEPT !.events = Append(es, e)]
        BY <1>1, <3>1 DEF RingTyped
      <3> QED
        BY <1>1, <2>1, <2>3, <3>2, Zenon DEF RingTyped
    <2> QED
      BY <2>2, <2>3
  <1>7. ASSUME Tells(ring, order, n)
        PROVE  Tells(ring', order, m)
    <2>1. PICK lost \in 0 .. n : Found(es) = SubSeq(order, lost + 1, n) /\ (d = 0 => lost = 0)
      BY <1>1, <1>7 DEF Tells
    <2>2. \E less \in 0 .. n : Found(ks) = SubSeq(order, less + 1, n) /\ (ring'.dropped = 0 => less = 0)
      <3>1. CASE ~full
        BY <1>6, <2>1, <3>1, Zenon
      <3>2. CASE full
        <4>1. ring'.dropped # 0
          BY <1>6, <3>2
        <4>2. CASE Found(Tail(es)) = Found(es)
          BY <2>1, <3>2, <4>1, <4>2
        <4>3. CASE Found(es) # <<>> /\ Found(Tail(es)) = Tail(Found(es))
          <5>1. lost < n /\ Tail(SubSeq(order, lost + 1, n)) = SubSeq(order, lost + 2, n)
            BY <2>1, <4>3, LaterSlice
          <5>2. lost + 1 \in 0 .. n /\ lost + 1 + 1 = lost + 2
            BY <1>0, <5>1
          <5>3. Found(ks) = SubSeq(order, lost + 1 + 1, n)
            BY <2>1, <3>2, <4>3, <5>1, <5>2, Zenon
          <5> QED
            BY <4>1, <5>2, <5>3, Zenon
        <4> QED
          BY <1>4, <3>2, <4>2, <4>3, FoundTail
      <3> QED
        BY <3>1, <3>2
    <2>3. PICK less \in 0 .. n : Found(ks) = SubSeq(order, less + 1, n) /\ (ring'.dropped = 0 => less = 0)
      BY <2>2
    <2>4. Found(ring'.events) = IF kind \in ACQUIRES THEN Append(Found(ks), id) ELSE Found(ks)
      <3>1. PICK xs \in Seq(Events) : xs = ks
        BY <1>5, Zenon
      <3>2. Found(Append(xs, e)) = IF e[1] \in ACQUIRES THEN Append(Found(xs), e[2]) ELSE Found(xs)
        BY FoundAppended, Zenon
      <3>3. ring'.events = Append(xs, e)
        BY <1>6, <3>1, Zenon
      <3> QED
        BY <1>2, <3>1, <3>2, <3>3, Zenon
    <2>5. Found(ring'.events) = SubSeq(order, less + 1, m)
      <3>1. CASE kind \notin ACQUIRES
        BY <2>3, <2>4, <3>1
      <3>2. CASE kind \in ACQUIRES
        <4>1. Append(SubSeq(order, less + 1, n), order[n + 1]) = SubSeq(order, less + 1, n + 1)
          BY <3>2, LaterSlice
        <4> QED
          BY <2>3, <2>4, <3>2, <4>1, Zenon
      <3> QED
        BY <3>1, <3>2
    <2>6. less \in 0 .. m
      BY <1>0
    <2> QED
      BY <2>3, <2>5, <2>6 DEF Tells
  <1> QED
    BY <1>6, <1>7 DEF RingTyped

LEMMA TellsSuffix ==
  ASSUME NEW order \in Seq(Objects), NEW n \in 0 .. Len(order), NEW lost \in 0 .. n
  PROVE  IsSuffix(SubSeq(order, lost + 1, n), SubSeq(order, 1, n))
  <1>0. Len(order) \in Nat
    BY LenProperties
  <1>1. \A i \in 1 .. n : order[i] \in Objects
    BY <1>0, ElementOfSeq
  <1>2. PICK s : s = SubSeq(order, lost + 1, n)
    BY Zenon
  <1>3. PICK t : t = SubSeq(order, 1, n)
    BY Zenon
  <1>4. Len(s) = n - lost /\ \A i \in 1 .. n - lost : s[i] = order[lost + i]
    <2>1. /\ s \in Seq(Objects) /\ Len(s) = (IF lost + 1 <= n THEN n - (lost + 1) + 1 ELSE 0)
          /\ \A i \in 1 .. n - (lost + 1) + 1 : s[i] = order[lost + 1 + i - 1]
      <3>1. lost + 1 \in Int /\ n \in Int /\ \A i \in lost + 1 .. n : order[i] \in Objects
        BY <1>0, <1>1
      <3> QED
        BY <1>2, <3>1, SubSeqProperties
    <2>2. Len(s) = n - lost
      BY <1>0, <2>1
    <2> SUFFICES ASSUME NEW i \in 1 .. n - lost PROVE s[i] = order[lost + i]
      BY <2>2
    <2>3. i \in 1 .. n - (lost + 1) + 1 /\ lost + 1 + i - 1 = lost + i
      BY <1>0
    <2> QED
      BY <2>1, <2>3
  <1>5. Len(t) = n /\ \A i \in 1 .. n : t[i] = order[i]
    <2>1. /\ t \in Seq(Objects) /\ Len(t) = (IF 1 <= n THEN n - 1 + 1 ELSE 0)
          /\ \A i \in 1 .. n - 1 + 1 : t[i] = order[1 + i - 1]
      <3>1. 1 \in Int /\ n \in Int
        BY <1>0
      <3> QED
        BY <1>1, <1>3, <3>1, SubSeqProperties
    <2>2. Len(t) = n
      BY <1>0, <2>1
    <2> SUFFICES ASSUME NEW i \in 1 .. n PROVE t[i] = order[i]
      BY <2>2
    <2>3. i \in 1 .. n - 1 + 1 /\ 1 + i - 1 = i
      BY <1>0
    <2> QED
      BY <2>1, <2>3
  <1>6. PICK a : a = Reverse(s)
    OBVIOUS
  <1>7. PICK b : b = Reverse(t)
    OBVIOUS
  <1>8. DOMAIN a = 1 .. n - lost /\ \A i \in 1 .. n - lost : a[i] = s[n - lost - i + 1]
    BY <1>4, <1>6 DEF Reverse
  <1>9. DOMAIN b = 1 .. n /\ \A i \in 1 .. n : b[i] = t[n - i + 1]
    BY <1>5, <1>7 DEF Reverse
  <1>10. DOMAIN a \subseteq DOMAIN b
    BY <1>0, <1>8, <1>9
  <1>11. ASSUME NEW i \in 1 .. n - lost
         PROVE  a[i] = b[i]
    <2>1. /\ n - lost - i + 1 \in 1 .. n - lost /\ n - i + 1 \in 1 .. n /\ i \in 1 .. n
          /\ lost + (n - lost - i + 1) = n - i + 1
      BY <1>0
    <2>2. a[i] = order[lost + (n - lost - i + 1)]
      BY <1>4, <1>8, <2>1, Zenon
    <2>3. b[i] = order[n - i + 1]
      BY <1>5, <1>9, <2>1
    <2> QED
      BY <2>1, <2>2, <2>3
  <1>12. IsPrefix(a, b)
    <2>1. PICK m \in Nat : m = n - lost /\ m <= n
      BY <1>0
    <2>2. /\ DOMAIN a = 1 .. m /\ DOMAIN b = 1 .. n /\ \A i \in 1 .. m : a[i] = b[i]
          /\ Len(a) = m /\ Len(b) = n
      BY <1>8, <1>9, <1>11, <2>1
    <2> QED
      BY <2>1, <2>2, SMTT(30) DEF IsPrefix
  <1> QED
    BY <1>2, <1>3, <1>6, <1>7, <1>12 DEF IsSuffix

LEMMA RingRecorded ==
  ASSUME RingTyped, NEW kind \in {"placed", "hit", "refused", "evicted"}, NEW id \in Objects,
         ring' = Record(Event(kind, id))
  PROVE  RingTyped'
  <1>1. kind \in ACQUIRES \/ kind \notin ACQUIRES
    OBVIOUS
  <1>2. <<id>> \in Seq(Objects) /\ Len(<<id>>) = 1 /\ <<id>>[1] = id
    OBVIOUS
  <1>3. PICK order \in Seq(Objects) : Len(order) = 1 /\ order[0 + 1] = id
    <2>1. 0 + 1 = 1
      OBVIOUS
    <2> QED
      BY <1>2, <2>1, Zenon
  <1>4. 0 \in 0 .. Len(order) /\ 0 < Len(order)
    BY <1>3
  <1>5. CASE kind \in ACQUIRES
    BY <1>3, <1>4, <1>5, TellsMore
  <1>6. CASE kind \notin ACQUIRES
    BY <1>3, <1>4, <1>6, TellsMore
  <1> QED
    BY <1>5, <1>6

LEMMA LabStepRing ==
  ASSUME LabTyped, RingTyped, LabSteps
  PROVE  RingTyped'
  <1>1. CASE LabRoomFound \/ LabStopEvicting \/ LabDestroyNext
    BY <1>1, TurnFacts, DestroyNextFacts DEF labvars, RingTyped
  <1>2. CASE LabEvictVictim
    <2>1. Named \in Objects /\ ring' = Record(Event("evicted", Named))
      BY <1>2, VictimFacts DEF ResidentSet
    <2> QED
      BY <2>1, RingRecorded
  <1>3. CASE LabPlaced
    BY <1>3, PlacedFacts, RingRecorded
  <1>4. CASE LabNotPlaced
    BY <1>4, NotPlacedFacts, RingRecorded
  <1>5. CASE \E id \in Objects : LabDestroyObject(id)
    <2>1. PICK id \in Objects : ring' = IF Resident(id) THEN Record(Event("evicted", id)) ELSE ring
      BY <1>5, Zenon DEF LabDestroyObject
    <2> QED
      BY <2>1, RingRecorded DEF RingTyped
  <1>6. CASE Enter \/ ReplayEnds
    BY <1>6, EnterFacts, ReplayEndsTyped DEF RingTyped
  <1>7. CASE NotEntered
    BY <1>7 DEF NotEntered, RingTyped
  <1>8. CASE ReplayReturns \/ SweepReturns \/ SweepBegins \/ StreamVerb
    BY <1>8, VerbTyped DEF RingTyped
  <1>9. CASE \E id \in Objects, once \in BOOLEAN, lease \in LeaseKinds :
               Accessing(id, once) /\ (AcquireHit(id, lease, once) \/ AcquireMiss(id, lease, once))
    <2>1. PICK id \in Objects, once \in BOOLEAN, lease \in LeaseKinds :
            Accessing(id, once) /\ (AcquireHit(id, lease, once) \/ AcquireMiss(id, lease, once))
      BY <1>9
    <2>2. CASE AcquireHit(id, lease, once)
      BY <2>1, <2>2, HitFacts, RingRecorded
    <2>3. CASE AcquireMiss(id, lease, once)
      BY <2>1, <2>3, MissFacts DEF RingTyped
    <2> QED
      BY <2>1, <2>2, <2>3
  <1>10. CASE \E budget \in Budgets : Model(budget)
    <2>1. ring' = NoRing
      BY <1>10 DEF Model
    <2>2. <<>> \in Seq(Events)
      OBVIOUS
    <2> QED
      BY <2>1, <2>2 DEF NoRing, RingTyped
  <1>11. CASE \E order \in Traces : \E name \in Policies : limit # 0 /\ Replay(name, order)
    BY <1>11, BeginFacts DEF RingTyped
  <1>12. CASE \E id \in Objects : LetGo(id) \/ EvictVerb(id)
    <2>1. PICK id \in Objects : LetGo(id) \/ EvictVerb(id)
      BY <1>12
    <2>2. CASE LetGo(id)
      BY <2>2, LetGoTyped DEF RingTyped
    <2>3. CASE EvictVerb(id)
      <3>1. ring' = Record(Event("evicted", id))
        BY <2>3, Zenon DEF EvictVerb
      <3> QED
        BY <3>1, RingRecorded
    <2> QED
      BY <2>1, <2>2, <2>3
  <1> QED
    BY <1>1, <1>2, <1>3, <1>4, <1>5, <1>6, <1>7, <1>8, <1>9, <1>10, <1>11, <1>12, Zenon DEF LabSteps

\* The replay goes on, and leaves a record or none.
LEMMA TracedSame ==
  ASSUME Traced, Comparable, UNCHANGED <<ring, stream>>, AccessesDone' = AccessesDone
  PROVE  Traced'
  <1>1. Tells(ring, stream.declared, AccessesDone)
    BY TracedIs
  <1> QED
    BY <1>1, Zenon DEF Traced, Tells, FromEvents, Found

LEMMA TracedRecord ==
  ASSUME LabTyped, LabTyped', RingTyped, Traced, Comparable, Comparable', Replaying,
         NEW kind \in {"placed", "hit", "refused", "evicted"}, NEW id \in Objects,
         ring' = Record(Event(kind, id)), stream'.declared = stream.declared,
         \/ /\ kind \in ACQUIRES /\ verb.at <= Len(stream.declared) /\ id = Current
            /\ verb'.at = verb.at + 1
         \/ kind \notin ACQUIRES /\ verb'.at = verb.at
  PROVE  Traced'
  <1>1. /\ verb.at \in Nat \ {0} /\ Len(stream.declared) \in Nat /\ verb.at <= Len(stream.declared) + 2
        /\ verb.at <= Len(stream.declared) + 1 => AccessesDone = verb.at - 1
        /\ verb.at = Len(stream.declared) + 2 => AccessesDone = Len(stream.declared)
        /\ AccessesDone \in 0 .. Len(stream.declared)
    BY DoneAre
  <1>2. verb'.name = "replay"
    BY DEF Comparable
  <1>3. /\ verb'.at <= Len(stream'.declared) + 1 => AccessesDone' = verb'.at - 1
        /\ verb'.at = Len(stream'.declared) + 2 => AccessesDone' = Len(stream'.declared)
    BY <1>2, DoneNow
  <1>4. PICK order \in Seq(Objects) : order = stream.declared
    BY DEF LabTyped, Streams
  <1>5. PICK n \in 0 .. Len(order) : n = AccessesDone
    BY <1>1, <1>4
  <1>6. Tells(ring, order, n)
    BY <1>4, <1>5, TracedIs
  <1>7. \/ kind \in ACQUIRES /\ n < Len(order) /\ order[n + 1] = id /\ AccessesDone' = n + 1
        \/ kind \notin ACQUIRES /\ AccessesDone' = n
    <2>1. CASE kind \in ACQUIRES
      <3>1. AccessesDone = verb.at - 1 /\ AccessesDone' = verb'.at - 1 /\ verb'.at - 1 = verb.at
        BY <1>1, <1>3, <2>1
      <3>2. n + 1 = verb.at /\ n < Len(order)
        BY <1>1, <1>4, <1>5, <2>1, <3>1
      <3> QED
        BY <1>4, <2>1, <3>1, <3>2 DEF Current
    <2>2. CASE kind \notin ACQUIRES
      BY <1>1, <1>3, <1>5, <2>2
    <2> QED
      BY <2>1, <2>2
  <1>8. PICK m : m = AccessesDone'
    OBVIOUS
  <1>9. Tells(ring', order, m)
    BY <1>6, <1>7, <1>8, TellsMore
  <1> QED
    BY <1>4, <1>8, <1>9, Zenon DEF Traced, Tells, FromEvents, Found

LEMMA LabStepTraced ==
  ASSUME LabTyped, LabTyped', Quiet, Steady, RingTyped, Traced, LabSteps
  PROVE  Traced'
  <1> SUFFICES ASSUME Comparable'
               PROVE  Traced'
    BY DEF Traced
  <1>1. ASSUME Comparable, LabRoomFound \/ LabStopEvicting \/ LabDestroyNext \/ Enter
        PROVE  Traced'
    <2>1. UNCHANGED <<ring, verb, stream, policy, limit>>
      BY <1>1, TurnFacts, DestroyNextFacts, EnterFacts DEF labvars
    <2> QED
      BY <1>1, <2>1, SameReplay, TracedSame DEF SameVerb
  <1>2. ASSUME Comparable, Replaying, LabEvictVictim
        PROVE  Traced'
    <2>1. Named \in Objects /\ ring' = Record(Event("evicted", Named)) /\ UNCHANGED <<verb, stream>>
      BY <1>2, VictimFacts DEF ResidentSet
    <2> QED
      BY <1>2, <2>1, TracedRecord DEF ACQUIRES
  <1>3. ASSUME Comparable, Replaying, LabPlaced \/ LabNotPlaced
        PROVE  Traced'
    <2>1. /\ Faulting /\ verb.at <= Len(stream.declared) /\ job.id = Current /\ job.id \in Objects
          /\ \E result : Done(result)
          /\ \E kind \in {"placed", "refused"} : ring' = Record(Event(kind, job.id))
      BY <1>3, PlacedFacts, NotPlacedFacts, Replays DEF LabTyped, ReplayVerb
    <2>2. verb'.at = verb.at + 1 /\ stream'.declared = stream.declared
      BY <1>3, <2>1, DoneFacts DEF Moved
    <2>3. PICK kind \in {"placed", "refused"} : ring' = Record(Event(kind, job.id))
      BY <2>1
    <2> QED
      BY <1>3, <2>1, <2>2, <2>3, TracedRecord DEF ACQUIRES
  <1>4. ASSUME Comparable, Replaying, \E id \in Objects : LabDestroyObject(id)
        PROVE  Traced'
    <2>1. PICK id \in Objects : LabDestroyObject(id)
      BY <1>4
    <2>2. UNCHANGED <<verb, stream, policy, limit>>
      BY <2>1, DestroyFacts
    <2>3. CASE Resident(id)
      <3>1. ring' = Record(Event("evicted", id))
        BY <2>1, <2>3, Zenon DEF LabDestroyObject
      <3> QED
        BY <1>4, <2>2, <3>1, TracedRecord DEF ACQUIRES
    <2>4. CASE ~Resident(id)
      BY <1>4, <2>1, <2>2, <2>4, DestroyFacts, SameReplay, TracedSame DEF SameVerb
    <2> QED
      BY <2>3, <2>4
  <1>5. ASSUME Comparable, Replaying, ReplayEnds
        PROVE  Traced'
    <2>1. /\ verb.at = Len(stream.declared) + 1 /\ verb'.at = verb.at + 1 /\ UNCHANGED <<ring, stream>>
          /\ verb'.name = "replay"
      BY <1>5, ReplayEndsTyped
    <2>2. verb.at \in Nat /\ Len(stream.declared) \in Nat
      BY <1>5, DoneAre
    <2>3. AccessesDone = Len(stream.declared)
      BY <1>5, <2>1, <2>2, DoneAre
    <2>4. AccessesDone' = Len(stream.declared)
      BY <2>1, <2>2, DoneNow
    <2> QED
      BY <1>5, <2>1, <2>3, <2>4, TracedSame
  <1>6. ASSUME Comparable, Replaying, NEW lease \in LeaseKinds, NEW id \in Objects, NEW once \in BOOLEAN,
               id = Current, Accessing(id, once), AcquireHit(id, lease, once)
        PROVE  Traced'
    <2>1. ring' = Record(Event("hit", id)) /\ (\E result : Done(result)) /\ verb.at <= Len(stream.declared)
      BY <1>6, HitFacts, Zenon DEF Accessing
    <2>2. verb'.at = verb.at + 1 /\ stream'.declared = stream.declared
      BY <1>6, <2>1, DoneFacts DEF Moved
    <2> QED
      BY <1>6, <2>1, <2>2, TracedRecord DEF ACQUIRES
  <1>7. ASSUME Comparable, NEW lease \in LeaseKinds, NEW id \in Objects, NEW once \in BOOLEAN,
               Accessing(id, once), AcquireMiss(id, lease, once)
        PROVE  Traced'
    <2>1. UNCHANGED <<ring, verb, stream, policy, limit>>
      BY <1>7, MissFacts
    <2> QED
      BY <1>7, <2>1, SameReplay, TracedSame DEF SameVerb
  <1>8. ASSUME NEW order \in Traces, NEW name \in Policies, clock = 0, Replay(name, order)
        PROVE  Traced'
    <2>1. /\ stream'.declared = order /\ order \in Seq(Objects) /\ verb'.name = "replay" /\ verb'.at = 1
          /\ UNCHANGED ring
      BY <1>8, BeginFacts
    <2>2. ring' = NoRing
      BY <1>8, <2>1, QuietIs DEF QuietNow
    <2>3. AccessesDone' = 0
      BY <2>1, DoneNow
    <2>4. Found(<<>>) = <<>>
      <3>1. Len(<<>>) = 0
        OBVIOUS
      <3>2. Acquired(<<>>)[0] = <<>>
        BY <3>1, FoundUnfold
      <3> QED
        BY <3>1, <3>2 DEF Found
    <2>5. PICK none \in Seq(Objects) : none = SubSeq(order, 1, 0) /\ Len(none) = 0
      <3>1. 1 \in Int /\ 0 \in Int /\ \A i \in 1 .. 0 : order[i] \in Objects
        OBVIOUS
      <3>2. SubSeq(order, 1, 0) \in Seq(Objects) /\ Len(SubSeq(order, 1, 0)) = 0
        BY <3>1, SubSeqProperties
      <3> QED
        BY <3>2, Zenon
    <2>6. SubSeq(order, 0 + 1, 0) = <<>>
      <3>1. none = <<>> /\ 0 + 1 = 1
        BY <2>5, EmptySeq
      <3> QED
        BY <2>5, <3>1
    <2>7. 0 \in 0 .. 0
      OBVIOUS
    <2>8. Found(ring'.events) = SubSeq(stream'.declared, 0 + 1, AccessesDone')
      <3>1. ring'.events = <<>>
        BY <2>2 DEF NoRing
      <3>2. Found(ring'.events) = SubSeq(order, 0 + 1, 0)
        BY <2>4, <2>6, <3>1, Zenon
      <3> QED
        BY <2>1, <2>3, <3>2, Zenon
    <2>9. \E lost \in 0 .. AccessesDone' :
            /\ Found(ring'.events) = SubSeq(stream'.declared, lost + 1, AccessesDone')
            /\ ring'.dropped = 0 => lost = 0
      BY <2>3, <2>7, <2>8
    <2> QED
      BY <2>9, Zenon DEF Traced, FromEvents, Found
  <1>9. CASE Comparable /\ Replaying /\ Replayed /\ ~NotEntered
    <2>1. CASE \E lease \in LeaseKinds :
                 /\ Accessing(Current, TRUE) /\ Current \in Objects
                 /\ AcquireHit(Current, lease, TRUE) \/ AcquireMiss(Current, lease, TRUE)
      BY <1>6, <1>7, <1>9, <2>1, Zenon
    <2> QED
      BY <1>1, <1>2, <1>3, <1>4, <1>5, <1>9, <2>1, Zenon DEF Replayed
  <1> QED
    BY <1>8, <1>9, ComparableSteps

LEMMA TracedTrue ==
  ASSUME LabTyped, Traced
  PROVE  TraceDerived
  <1> SUFFICES ASSUME Comparable
               PROVE  /\ IsSuffix(FromEvents, SubSeq(stream.declared, 1, AccessesDone))
                      /\ Dropped = 0 => FromEvents = SubSeq(stream.declared, 1, AccessesDone)
    BY DEF TraceDerived
  <1>1. PICK order \in Seq(Objects) : order = stream.declared
    BY DEF LabTyped, Streams
  <1>2. PICK n \in 0 .. Len(order) : n = AccessesDone
    BY <1>1, DoneAre DEF Comparable, Replaying
  <1>3. PICK lost \in 0 .. n : FromEvents = SubSeq(order, lost + 1, n) /\ (ring.dropped = 0 => lost = 0)
    BY <1>1, <1>2 DEF Traced
  <1>4. IsSuffix(SubSeq(order, lost + 1, n), SubSeq(order, 1, n))
    BY TellsSuffix
  <1>5. lost = 0 => lost + 1 = 1
    OBVIOUS
  <1> QED
    BY <1>1, <1>2, <1>3, <1>4, <1>5 DEF Dropped

LEMMA LabTraced == LabSpec => [](RingTyped /\ Traced)
  <1>1. LabInit => RingTyped /\ Traced
    <2> SUFFICES ASSUME LabInit PROVE RingTyped /\ Traced
      OBVIOUS
    <2>1. ring = NoRing /\ verb = Waiting
      BY LabInitTyped
    <2>2. <<>> \in Seq(Events)
      OBVIOUS
    <2> QED
      BY <2>1, <2>2 DEF NoRing, RingTyped, Traced, Comparable, Waiting
  <1>2. ASSUME LabTyped, LabTyped', Quiet, Steady, RingTyped, Traced, [LabNext]_all
        PROVE  (RingTyped /\ Traced)'
    <2>1. CASE LabNext
      BY <1>2, <2>1, StepOf, LabStepRing, LabStepTraced
    <2>2. CASE UNCHANGED all
      <3>1. UNCHANGED <<ring, stream, verb, stream>>
        BY <2>2, Zenon DEF all, labvars
      <3> QED
        BY <1>2, <3>1, Zenon DEF RingTyped, Traced, Comparable, AccessesDone, FromEvents
    <2> QED
      BY <1>2, <2>1, <2>2
  <1> QED
    BY <1>1, <1>2, LabTypeCorrect, LabBooks, PTL DEF LabSpec

\* mlos-trace's from_events over mlos-events' ring: whatever the ring's size,
\* the acquires a ring's dump holds while a declared order is replayed into a
\* fresh manager are the last accesses of that order, and all of them when the
\* ring says that nothing was lost.
THEOREM TraceIsTheOrdersEnd == LabSpec => []TraceDerived
  <1>1. LabTyped /\ (RingTyped /\ Traced) => TraceDerived
    BY TracedTrue
  <1> QED
    BY <1>1, LabTraced, LabTypeCorrect, PTL

-----------------------------------------------------------------------------
(* The simulator's helpers are the kernel's: the same arena, the same       *)
(* policies, the same chain of uses.                                        *)

LEMMA SameMin ==
  ASSUME NEW S
  PROVE  Sim!Min(S) = Min(S) /\ Sim!Max(S) = Max(S)
  BY DEF Sim!Min, Min, Sim!Max, Max

LEMMA SameFits ==
  ASSUME NEW f, NEW size
  PROVE  Sim!Fits(f, size) = Fits(f, size) /\ Sim!RoundUp(size) = RoundUp(size)
  BY DEF Sim!Fits, Fits, Sim!Largest, Largest, Sim!RoundUp, RoundUp, Sim!Max, Max

LEMMA SameFirstFit ==
  ASSUME NEW f, NEW want
  PROVE  Sim!FirstFit(f, want) = FirstFit(f, want)
  BY DEF Sim!FirstFit, FirstFit, Sim!SelectInSeq, SelectInSeq, Sim!Min, Min

LEMMA SameVictim ==
  ASSUME NEW p, NEW held, NEW now
  PROVE  Sim!Victim(p, held, now) = Victim(p, held, now)
  BY DEF Sim!Victim, Victim, Sim!Rating, Rating, Sim!Evictability, Evictability, Sim!Horizon, Horizon,
         Sim!Recovery, Recovery, Sim!Greater, Greater, Sim!Lesser, Lesser

LEMMA SameSeen ==
  ASSUME NEW meta
  PROVE  Sim!Seen(meta) = Seen(meta)
  BY DEF Sim!Seen, Seen

LEMMA SameWanted ==
  ASSUME NEW o, NEW t
  PROVE  Sim!WantedAt(Sim!Chain(o), t) = WantedAt(Chain(o), t)
  BY DEF Sim!WantedAt, WantedAt, Sim!TickOf, TickOf, Sim!At, At, Sim!Never, Never,
         Sim!Chain, Chain, Sim!Links, Links, Sim!Link, Link, Sim!SelectInSeq, SelectInSeq, Sim!Min, Min,
         Sim!NEVER, NEVER

LEMMA SameTake ==
  ASSUME NEW f, NEW i, NEW want
  PROVE  Sim!Take(f, i, want) = Take(f, i, want)
  BY DEF Sim!Take, Take, Sim!RemoveAt, RemoveAt

LEMMA SameGive ==
  ASSUME NEW f, NEW at, NEW len
  PROVE  Sim!Give(f, at, len) = Give(f, at, len)
  BY Zenon DEF Sim!Give, Give, Sim!Merge, Merge, Sim!Touches, Touches, Sim!Swallow, Swallow, Sim!Position, Position,
         Sim!InsertAt, InsertAt, Sim!RemoveAt, RemoveAt, Sim!SelectInSeq, SelectInSeq, Sim!Min, Min, Sim!End, End

-----------------------------------------------------------------------------
(* The simulator's vector of what is resident.                              *)

\* held lists the entries of view, each once.
Lists(held, view) ==
  /\ \A i, j \in 1 .. Len(held) : held[i].id = held[j].id => i = j
  /\ \A i \in 1 .. Len(held) : held[i].id \in DOMAIN view /\ held[i] = view[held[i].id]
  /\ \A id \in DOMAIN view : \E i \in 1 .. Len(held) : held[i].id = id

LEMMA ListedAt ==
  ASSUME NEW S, NEW held \in Seq(S), NEW view, Lists(held, view), NEW s, s.held = held, NEW id
  PROVE  /\ id \notin DOMAIN view => Sim!IndexOf(s, id) = 0
         /\ id \in DOMAIN view => /\ Sim!IndexOf(s, id) \in 1 .. Len(held) /\ Sim!IndexOf(s, id) # 0
                                  /\ held[Sim!IndexOf(s, id)] = view[id]
                                  /\ held[Sim!IndexOf(s, id)].id = id
  <1> DEFINE I == {k \in 1 .. Len(held) : held[k].id = id}
  <1>1. Sim!IndexOf(s, id) = IF I # {} THEN Min(I) ELSE 0
    BY SameMin DEF Sim!IndexOf, Sim!SelectInSeq
  <1>2. I \in SUBSET Nat
    OBVIOUS
  <1>3. I # {} => Min(I) \in I
    <2> HIDE DEF I
    <2> QED
      BY <1>2, LeastMember
  <1>4. id \in DOMAIN view <=> I # {}
    BY DEF Lists
  <1>5. CASE I = {}
    BY <1>1, <1>4, <1>5
  <1>6. CASE I # {}
    <2>1. PICK k \in 1 .. Len(held) : k = Min(I) /\ held[k].id = id
      BY <1>3, <1>6, Zenon
    <2>2. held[k] = view[id]
      BY <2>1 DEF Lists
    <2>3. Sim!IndexOf(s, id) = k /\ k # 0
      BY <1>1, <1>6, <2>1
    <2> HIDE DEF I
    <2> QED
      BY <1>4, <1>6, <2>1, <2>2, <2>3
  <1> QED
    BY <1>5, <1>6

LEMMA ListedById ==
  ASSUME NEW S, NEW held \in Seq(S), NEW view, Lists(held, view), view = [id \in DOMAIN view |-> view[id]],
         NEW s, s.held = held
  PROVE  Sim!ById(s) = view
  <1>1. {entry.id : entry \in Sim!ToSet(s.held)} = DOMAIN view
    <2>1. Sim!ToSet(s.held) = {held[i] : i \in 1 .. Len(held)}
      BY DEF Sim!ToSet
    <2>2. \A id : id \in {entry.id : entry \in Sim!ToSet(s.held)} <=> \E i \in 1 .. Len(held) : held[i].id = id
      <3>1. PICK set : set = Sim!ToSet(s.held)
        OBVIOUS
      <3>2. \A e : e \in set <=> \E i \in 1 .. Len(held) : e = held[i]
        BY <2>1, <3>1
      <3>3. \A id : id \in {entry.id : entry \in set} <=> \E i \in 1 .. Len(held) : held[i].id = id
        BY <3>2
      <3> QED
        BY <3>1, <3>3, Zenon
    <2>3. \A id : id \in DOMAIN view <=> \E i \in 1 .. Len(held) : held[i].id = id
      <3>1. \A i \in 1 .. Len(held) : held[i].id \in DOMAIN view
        BY Zenon DEF Lists
      <3>2. \A id \in DOMAIN view : \E i \in 1 .. Len(held) : held[i].id = id
        BY Zenon DEF Lists
      <3> QED
        BY <3>1, <3>2
    <2>4. PICK ids : ids = {entry.id : entry \in Sim!ToSet(s.held)}
      BY Zenon
    <2>5. \A id : id \in ids <=> id \in DOMAIN view
      BY <2>2, <2>3, <2>4, Zenon
    <2>6. ids = DOMAIN view
      BY <2>5, Zenon
    <2> QED
      BY <2>4, <2>6, Zenon
  <1>2. \A id \in DOMAIN view : s.held[Sim!IndexOf(s, id)] = view[id]
    BY ListedAt
  <1>3. Sim!ById(s) = [id \in DOMAIN view |-> s.held[Sim!IndexOf(s, id)]]
    BY <1>1, Zenon DEF Sim!ById
  <1>4. [id \in DOMAIN view |-> s.held[Sim!IndexOf(s, id)]] = [id \in DOMAIN view |-> view[id]]
    BY <1>2, Zenon
  <1> QED
    BY <1>3, <1>4, Zenon

LEMMA ListsNone ==
  ASSUME NEW view, DOMAIN view = {}
  PROVE  Lists(<<>>, view)
  BY DEF Lists

\* A view that differs from another in one entry, or has it besides.
SetsEntry(after, view, e) ==
  /\ DOMAIN after = DOMAIN view \cup {e.id} /\ after[e.id] = e
  /\ \A id \in DOMAIN view \ {e.id} : after[id] = view[id]

LEMMA ListsAppend ==
  ASSUME NEW S, NEW held \in Seq(S), NEW view, Lists(held, view), NEW e \in S, e.id \notin DOMAIN view,
         NEW after, SetsEntry(after, view, e)
  PROVE  Append(held, e) \in Seq(S) /\ Lists(Append(held, e), after)
  <1>1. PICK n \in Nat : n = Len(held)
    OBVIOUS
  <1>2. PICK f : f = Append(held, e)
    BY Zenon
  <1>3. f \in Seq(S) /\ Len(f) = n + 1 /\ f[n + 1] = e /\ \A i \in 1 .. n : f[i] = held[i]
    BY <1>1, <1>2, AppendIs
  <1>4. \A i \in 1 .. n : f[i].id \in DOMAIN view /\ f[i] = view[f[i].id] /\ f[i].id # e.id
    BY <1>1, <1>3 DEF Lists
  <1>5. \A i \in 1 .. n + 1 : i \in 1 .. n \/ i = n + 1
    OBVIOUS
  <1>6. \A i, j \in 1 .. n + 1 : f[i].id = f[j].id => i = j
    <2>1. \A i, j \in 1 .. n : f[i].id = f[j].id => i = j
      BY <1>1, <1>3 DEF Lists
    <2>2. f[n + 1].id = e.id
      BY <1>3
    <2> QED
      BY <1>4, <1>5, <2>1, <2>2, Zenon
  <1>7. \A i \in 1 .. n + 1 : f[i].id \in DOMAIN after /\ f[i] = after[f[i].id]
    <2>1. \A i \in 1 .. n : f[i].id \in DOMAIN after /\ f[i] = after[f[i].id]
      BY <1>4 DEF SetsEntry
    <2>2. f[n + 1].id \in DOMAIN after /\ f[n + 1] = after[f[n + 1].id]
      BY <1>3 DEF SetsEntry
    <2> QED
      BY <1>5, <2>1, <2>2, Zenon
  <1>8. \A id \in DOMAIN after : \E i \in 1 .. n + 1 : f[i].id = id
    <2>1. \A i \in 1 .. n : i \in 1 .. n + 1
      OBVIOUS
    <2>2. \A id \in DOMAIN view : \E i \in 1 .. n : f[i].id = id
      BY <1>1, <1>3 DEF Lists
    <2>3. n + 1 \in 1 .. n + 1 /\ f[n + 1].id = e.id
      BY <1>3
    <2> QED
      BY <2>1, <2>2, <2>3, Zenon DEF SetsEntry
  <1> QED
    BY <1>2, <1>3, <1>6, <1>7, <1>8, Zenon DEF Lists

LEMMA ListsTouch ==
  ASSUME NEW S, NEW held \in Seq(S), NEW view, Lists(held, view), NEW e \in S, NEW k \in 1 .. Len(held),
         held[k].id = e.id, NEW after, SetsEntry(after, view, e)
  PROVE  [held EXCEPT ![k] = e] \in Seq(S) /\ Lists([held EXCEPT ![k] = e], after)
  <1>1. PICK f : f = [held EXCEPT ![k] = e]
    BY Zenon
  <1>2. f \in Seq(S) /\ Len(f) = Len(held) /\ f[k] = e /\ \A i \in 1 .. Len(held) : i # k => f[i] = held[i]
    BY <1>1
  <1>3. \A i \in 1 .. Len(held) : f[i].id = held[i].id
    BY <1>2
  <1>4. e.id \in DOMAIN view
    BY DEF Lists
  <1>5. \A i \in 1 .. Len(held) : f[i].id \in DOMAIN after /\ f[i] = after[f[i].id]
    <2>1. \A i \in 1 .. Len(held) : i # k => held[i].id # e.id
      BY DEF Lists
    <2>2. \A i \in 1 .. Len(held) : held[i].id \in DOMAIN view /\ held[i] = view[held[i].id]
      BY Zenon DEF Lists
    <2>3. f[k].id = e.id /\ e.id \in DOMAIN after /\ after[e.id] = e
      BY <1>2 DEF SetsEntry
    <2>4. ASSUME NEW i \in 1 .. Len(held), i # k
          PROVE  f[i].id \in DOMAIN after /\ f[i] = after[f[i].id]
      <3>1. f[i] = held[i]
        BY <1>2, <2>4
      <3>2. held[i].id \in DOMAIN view \ {e.id}
        BY <2>1, <2>2, <2>4
      <3>3. held[i].id \in DOMAIN after /\ after[held[i].id] = view[held[i].id]
        BY <3>2, Zenon DEF SetsEntry
      <3> QED
        BY <2>2, <3>1, <3>3
    <2> QED
      BY <1>2, <2>3, <2>4
  <1>6. \A id \in DOMAIN after : \E i \in 1 .. Len(held) : f[i].id = id
    <2>1. \A id \in DOMAIN view : \E i \in 1 .. Len(held) : held[i].id = id
      BY Zenon DEF Lists
    <2>2. DOMAIN after = DOMAIN view
      BY <1>4, Zenon DEF SetsEntry
    <2> QED
      BY <1>3, <2>1, <2>2
  <1>7. \A i, j \in 1 .. Len(held) : f[i].id = f[j].id => i = j
    BY <1>3 DEF Lists
  <1> QED
    BY <1>1, <1>2, <1>5, <1>6, <1>7 DEF Lists

\* Vec::swap_remove loses the entry at k, and no other.
LEMMA ListsSwapRemove ==
  ASSUME NEW S, NEW held \in Seq(S), NEW view, Lists(held, view), NEW k \in 1 .. Len(held),
         NEW after, DOMAIN after = DOMAIN view \ {held[k].id}, \A id \in DOMAIN after : after[id] = view[id]
  PROVE  /\ Sim!SwapRemove(held, k) \in Seq(S) /\ Len(Sim!SwapRemove(held, k)) = Len(held) - 1
         /\ Lists(Sim!SwapRemove(held, k), after)
  <1>1. PICK n \in Nat \ {0} : n = Len(held)
    OBVIOUS
  <1>2. PICK f : f = [held EXCEPT ![k] = held[n]]
    BY Zenon
  <1>3. f \in Seq(S) /\ Len(f) = n /\ f[k] = held[n] /\ \A i \in 1 .. n : i # k => f[i] = held[i]
    <2>1. held[n] \in S
      BY <1>1, ElementOfSeq
    <2> QED
      BY <1>1, <1>2, <2>1
  <1>4. PICK g : g = SubSeq(f, 1, n - 1)
    BY Zenon
  <1>5. Sim!SwapRemove(held, k) = g
    BY <1>1, <1>2, <1>4 DEF Sim!SwapRemove
  <1>6. g \in Seq(S) /\ Len(g) = n - 1 /\ \A i \in 1 .. n - 1 : g[i] = f[i]
    BY <1>3, <1>4
  \* Where an entry that stays is now, and where it was.
  <1> DEFINE was(i) == IF i = k THEN n ELSE i
  <1>7. \A i \in 1 .. n - 1 : was(i) \in 1 .. n /\ was(i) # k /\ g[i] = held[was(i)]
    <2>1. ASSUME NEW i \in 1 .. n - 1
          PROVE  was(i) \in 1 .. n /\ was(i) # k /\ g[i] = held[was(i)]
      <3>1. CASE i = k
        <4>1. was(i) = n /\ n # k /\ n \in 1 .. n
          BY <1>1, <3>1
        <4>2. g[i] = held[n]
          BY <1>3, <1>6, <3>1
        <4> QED
          BY <4>1, <4>2
      <3>2. CASE i # k
        <4>1. was(i) = i /\ i \in 1 .. n
          BY <3>2
        <4>2. g[i] = held[i]
          BY <1>3, <1>6, <3>2, <4>1
        <4> QED
          BY <3>2, <4>1, <4>2
      <3> QED
        BY <3>1, <3>2
    <2> QED
      BY <2>1
  <1>8. \A i, j \in 1 .. n - 1 : was(i) = was(j) => i = j
    OBVIOUS
  <1>9. \A l \in 1 .. n : l # k => \E i \in 1 .. n - 1 : was(i) = l
    <2>1. ASSUME NEW l \in 1 .. n, l # k
          PROVE  \E i \in 1 .. n - 1 : was(i) = l
      <3>1. CASE l = n
        <4>1. k \in 1 .. n - 1
          BY <1>1, <2>1, <3>1
        <4> QED
          BY <3>1, <4>1
      <3>2. CASE l # n
        <4>1. l \in 1 .. n - 1
          BY <3>2
        <4> QED
          BY <2>1, <4>1
      <3> QED
        BY <3>1, <3>2
    <2> QED
      BY <2>1
  <1> HIDE DEF was
  <1>10. \A i, j \in 1 .. n - 1 : g[i].id = g[j].id => i = j
    <2>1. ASSUME NEW i \in 1 .. n - 1, NEW j \in 1 .. n - 1, g[i].id = g[j].id
          PROVE  i = j
      <3>1. held[was(i)].id = held[was(j)].id /\ was(i) \in 1 .. n /\ was(j) \in 1 .. n
        BY <1>7, <2>1, Zenon
      <3>2. was(i) = was(j)
        BY <1>1, <3>1, Zenon DEF Lists
      <3> QED
        BY <1>8, <3>2
    <2> QED
      BY <2>1
  <1>11. \A i \in 1 .. n - 1 : g[i].id \in DOMAIN after /\ g[i] = after[g[i].id]
    <2>1. \A i \in 1 .. n - 1 : g[i].id \in DOMAIN view /\ g[i] = view[g[i].id] /\ g[i].id # held[k].id
      BY <1>1, <1>7 DEF Lists
    <2> QED
      BY <2>1
  <1>12. \A id \in DOMAIN after : \E i \in 1 .. n - 1 : g[i].id = id
    <2>1. ASSUME NEW id \in DOMAIN after
          PROVE  \E i \in 1 .. n - 1 : g[i].id = id
      <3>1. PICK l \in 1 .. n : held[l].id = id /\ l # k
        BY <1>1 DEF Lists
      <3>2. PICK i \in 1 .. n - 1 : was(i) = l
        BY <1>9, <3>1
      <3> QED
        BY <1>7, <3>1, <3>2
    <2> QED
      BY <2>1
  <1> QED
    BY <1>1, <1>5, <1>6, <1>10, <1>11, <1>12 DEF Lists

-----------------------------------------------------------------------------
(* The simulator's turns, unfolded: the recursion of make_room has a        *)
(* solution, and it stays where a turn does nothing.                        *)

IsTurns(s, size, p, n, f) ==
  f = [turns \in 0 .. n |-> IF turns = 0 THEN s ELSE Sim!MakeTurn(f[turns - 1], size, p)]
HasTurns(s, size, p, n) == \E f : IsTurns(s, size, p, n, f)

LEMMA HasTurnsNext ==
  ASSUME NEW s, NEW size, NEW p, NEW n \in Nat, HasTurns(s, size, p, n)
  PROVE  HasTurns(s, size, p, n + 1)
  <1>1. PICK f : IsTurns(s, size, p, n, f)
    BY DEF HasTurns
  <1> DEFINE g == [i \in 0 .. n + 1 |-> IF i <= n THEN f[i] ELSE Sim!MakeTurn(f[n], size, p)]
             h == [i \in 0 .. n + 1 |-> IF i = 0 THEN s ELSE Sim!MakeTurn(g[i - 1], size, p)]
  <1>2. ASSUME NEW i \in 0 .. n + 1
        PROVE  g[i] = h[i]
    <2>1. CASE i = 0
      BY <1>1, <2>1 DEF IsTurns
    <2>2. CASE i \in 1 .. n
      <3>0. i \in 0 .. n /\ i # 0
        BY <2>2
      <3>1. f[i] = Sim!MakeTurn(f[i - 1], size, p)
        BY <1>1, <3>0, Zenon DEF IsTurns
      <3>2. g[i] = f[i] /\ g[i - 1] = f[i - 1]
        BY <2>2
      <3> QED
        BY <2>2, <3>1, <3>2
    <2>3. CASE i = n + 1
      <3>1. g[i - 1] = f[n] /\ g[i] = Sim!MakeTurn(f[n], size, p)
        BY <2>3
      <3> QED
        BY <2>3, <3>1
    <2> QED
      BY <2>1, <2>2, <2>3
  <1>3. g = h
    BY <1>2
  <1> QED
    BY <1>3, Zenon DEF IsTurns, HasTurns

LEMMA HasTurnsAll ==
  ASSUME NEW s, NEW size, NEW p, NEW n \in Nat
  PROVE  HasTurns(s, size, p, n)
  <1> DEFINE good == {k \in Nat : HasTurns(s, size, p, k)}
  <1>1. HasTurns(s, size, p, 0)
    <2> DEFINE f == [i \in 0 .. 0 |-> s]
    <2>1. f = [i \in 0 .. 0 |-> IF i = 0 THEN s ELSE Sim!MakeTurn(f[i - 1], size, p)]
      OBVIOUS
    <2> QED
      BY <2>1, Zenon DEF IsTurns, HasTurns
  <1>2. \A k \in 0 .. n - 1 : k \in good => k + 1 \in good
    BY HasTurnsNext
  <1>3. 0 \in good
    BY <1>1
  <1> HIDE DEF good
  <1>4. n \in good
    BY <1>2, <1>3, UpTo
  <1> QED
    BY <1>4 DEF good

LEMMA TurnsUnfold ==
  ASSUME NEW s, NEW size, NEW p, Len(s.held) \in Nat
  PROVE  /\ Sim!Turns(s, size, p)[0] = s
         /\ \A k \in 0 .. Len(s.held) - 1 :
              Sim!Turns(s, size, p)[k + 1] = Sim!MakeTurn(Sim!Turns(s, size, p)[k], size, p)
  <1>1. Sim!Turns(s, size, p) = CHOOSE f : IsTurns(s, size, p, Len(s.held), f)
    BY Zenon DEF Sim!Turns, IsTurns
  <1>2. IsTurns(s, size, p, Len(s.held), Sim!Turns(s, size, p))
    BY <1>1, HasTurnsAll, Zenon DEF HasTurns
  <1>3. PICK f : f = Sim!Turns(s, size, p)
    OBVIOUS
  <1>4. PICK n \in Nat : n = Len(s.held)
    OBVIOUS
  <1>5. \A k \in 0 .. n : f[k] = IF k = 0 THEN s ELSE Sim!MakeTurn(f[k - 1], size, p)
    BY <1>2, <1>3, <1>4, Zenon DEF IsTurns
  <1>6. f[0] = s
    BY <1>5
  <1>7. ASSUME NEW k \in 0 .. n - 1
        PROVE  f[k + 1] = Sim!MakeTurn(f[k], size, p)
    <2>1. PICK l \in 0 .. n : l = k + 1 /\ l # 0 /\ l - 1 = k
      OBVIOUS
    <2>2. f[l] = Sim!MakeTurn(f[l - 1], size, p)
      BY <1>5, <2>1, Zenon
    <2> QED
      BY <2>1, <2>2
  <1> QED
    BY <1>3, <1>4, <1>6, <1>7

\* Once a turn does nothing, no later one does.
LEMMA TurnsStay ==
  ASSUME NEW s, NEW size, NEW p, Len(s.held) \in Nat, NEW k \in 0 .. Len(s.held),
         Sim!MakeTurn(Sim!Turns(s, size, p)[k], size, p) = Sim!Turns(s, size, p)[k]
  PROVE  Sim!MakeRoom(s, size, p) = Sim!Turns(s, size, p)[k]
  <1>1. PICK f : f = Sim!Turns(s, size, p)
    OBVIOUS
  <1>2. PICK n \in Nat : n = Len(s.held)
    OBVIOUS
  <1> DEFINE good == {l \in 0 .. n : k + l <= n => f[k + l] = f[k]}
  <1>3. 0 \in good
    BY <1>2
  <1>4. \A l \in 0 .. n - 1 : l \in good => l + 1 \in good
    <2>1. ASSUME NEW l \in 0 .. n - 1, l \in good, k + (l + 1) <= n
          PROVE  f[k + (l + 1)] = f[k]
      <3>1. PICK j \in 0 .. n - 1 : j = k + l /\ k + (l + 1) = j + 1
        BY <1>2, <2>1
      <3>2. f[j] = f[k]
        BY <1>2, <2>1, <3>1
      <3>3. f[j + 1] = Sim!MakeTurn(f[j], size, p)
        BY <1>1, <1>2, TurnsUnfold
      <3> QED
        BY <1>1, <3>1, <3>2, <3>3
    <2> QED
      BY <2>1
  <1> HIDE DEF good
  <1>5. \A l \in 0 .. n : l \in good
    BY <1>3, <1>4, UpTo
  <1>6. n - k \in 0 .. n /\ k + (n - k) = n /\ n <= n
    BY <1>2
  <1>7. f[n] = f[k]
    <2>1. PICK l \in 0 .. n : l = n - k /\ k + l = n
      BY <1>6
    <2>2. l \in good
      BY <1>5
    <2> QED
      BY <1>6, <2>1, <2>2 DEF good
  <1> QED
    BY <1>1, <1>2, <1>7, Zenon DEF Sim!MakeRoom

-----------------------------------------------------------------------------
(* What the simulator's operations do to a simulation.                      *)

SimEntry == [id : Objects, at : Nat, size : Nat \ {0}, placed : Nat, used : Nat, next : NextUses,
             reload : Nat, recompute : Nat, share : Nat]
SimOut == [hits : Nat, reads : Nat, bytes : Nat, evicted : Nat, refused : Nat, cost : Nat,
           applied : Nat, fetched : Nat, sessions : Nat]
SimRecord == [held : Seq(SimEntry), free : Seq(Hole), cursor : Nat, out : SimOut]

\* A simulation s that has listed view, and is otherwise as its other fields say.
Simulates(s, view, f, cursor, o) ==
  /\ s \in SimRecord /\ Lists(s.held, view) /\ s.free = f /\ s.cursor = cursor /\ s.out = o

LEMMA SimParts ==
  ASSUME NEW s \in SimRecord
  PROVE  /\ s.held \in Seq(SimEntry) /\ s.free \in Seq(Hole) /\ s.cursor \in Nat /\ s.out \in SimOut
         /\ s = [held |-> s.held, free |-> s.free, cursor |-> s.cursor, out |-> s.out]
         /\ Len(s.held) \in Nat
  BY DEF SimRecord

LEMMA WeightBytesAre ==
  ASSUME NEW id \in Objects
  PROVE  /\ Sim!WeightBytes(id) = Bytes0(id) /\ Bytes0(id) \in Nat
         /\ Described(id).size = Meta0(id).size /\ Meta0(id).size \in Nat
         /\ Described(id).class = Class[id]
         /\ Described(id).reload = Costs(id).reload /\ Described(id).recompute = Costs(id).recompute
  BY Meta0Typed, Bytes0Typed DEF Sim!WeightBytes, Described, Bytes0

\* What is counted of a hit, a fetch, a refusal and an eviction.
HitCounted(o, id) == [o EXCEPT !.hits = @ + 1, !.applied = @ + Bytes0(id)]
ReadCounted(o, id) ==
  [o EXCEPT !.reads = @ + 1, !.bytes = @ + Meta0(id).size, !.cost = @ + Costs(id).reload,
            !.applied = @ + Bytes0(id), !.fetched = @ + Bytes0(id)]
Refused(o) == [o EXCEPT !.refused = @ + 1]
Evicted(o) == [o EXCEPT !.evicted = @ + 1]

LEMMA SimOutMoved ==
  ASSUME NEW o \in SimOut, NEW id \in Objects
  PROVE  /\ HitCounted(o, id) \in SimOut /\ ReadCounted(o, id) \in SimOut
         /\ Refused(o) \in SimOut /\ Evicted(o) \in SimOut
  <1>1. PICK b \in Nat, size \in Nat, reload \in Nat : b = Bytes0(id) /\ size = Meta0(id).size /\ reload = Costs(id).reload
    BY WeightBytesAre, CostsTyped
  <1>2. HitCounted(o, id) \in SimOut
    <2>1. PICK m \in Nat, n \in Nat : m = o.hits + 1 /\ n = o.applied + b
      BY <1>1 DEF SimOut
    <2>2. PICK new : new = [o EXCEPT !.hits = m, !.applied = n]
      OBVIOUS
    <2>3. new \in SimOut
      BY <2>2, Zenon DEF SimOut
    <2> QED
      BY <1>1, <2>1, <2>2, <2>3 DEF HitCounted
  <1>3. ReadCounted(o, id) \in SimOut
    <2>1. PICK m \in Nat, n \in Nat, k \in Nat, l \in Nat, j \in Nat :
            /\ m = o.reads + 1 /\ n = o.bytes + size /\ k = o.cost + reload
            /\ l = o.applied + b /\ j = o.fetched + b
      <3>1. o.reads \in Nat /\ o.bytes \in Nat /\ o.cost \in Nat /\ o.applied \in Nat /\ o.fetched \in Nat
        BY DEF SimOut
      <3>2. /\ o.reads + 1 \in Nat /\ o.bytes + size \in Nat /\ o.cost + reload \in Nat
            /\ o.applied + b \in Nat /\ o.fetched + b \in Nat
        BY <1>1, <3>1
      <3> QED
        BY <3>2, Zenon
    <2>2. PICK new : new = [o EXCEPT !.reads = m, !.bytes = n, !.cost = k, !.applied = l, !.fetched = j]
      OBVIOUS
    <2>3. new \in SimOut
      BY <2>2, Zenon DEF SimOut
    <2> QED
      BY <1>1, <2>1, <2>2, <2>3 DEF ReadCounted
  <1>4. Refused(o) \in SimOut /\ Evicted(o) \in SimOut
    BY DEF Refused, Evicted, SimOut
  <1> QED
    BY <1>2, <1>3, <1>4

\* Only the cursor moves.
LEMMA CursorSet ==
  ASSUME NEW s, NEW view, NEW f, NEW cursor, NEW o, Simulates(s, view, f, cursor, o), NEW now \in Nat
  PROVE  Simulates([s EXCEPT !.cursor = now], view, f, now, o)
  BY DEF Simulates, SimRecord

\* remove: the entry leaves the vector, and its bytes go back to the arena.
LEMMA ThrownOut ==
  ASSUME NEW s, NEW view, NEW f, NEW cursor, NEW o, Simulates(s, view, f, cursor, o),
         NEW id \in Objects, id \in DOMAIN view,
         view = [other \in DOMAIN view |-> view[other]],
         NEW after, DOMAIN after = DOMAIN view \ {id}, \A other \in DOMAIN after : after[other] = view[other]
  PROVE  /\ Simulates(Sim!ThrowOut(s, id), after, Give(f, view[id].at, RoundUp(view[id].size)), cursor,
                      Evicted(o))
         /\ Len(Sim!ThrowOut(s, id).held) = Len(s.held) - 1
  <1>1. /\ s.held \in Seq(SimEntry) /\ s.free = f /\ f \in Seq(Hole) /\ s.cursor = cursor /\ cursor \in Nat
        /\ s.out = o /\ o \in SimOut /\ Lists(s.held, view)
        /\ s = [held |-> s.held, free |-> s.free, cursor |-> s.cursor, out |-> s.out]
    BY SimParts DEF Simulates
  <1>2. PICK k : k = Sim!IndexOf(s, id)
    OBVIOUS
  <1>3. k \in 1 .. Len(s.held) /\ s.held[k] = view[id] /\ s.held[k].id = id
    BY <1>1, <1>2, ListedAt
  <1>4. PICK e \in SimEntry : e = view[id]
    BY <1>1, <1>3, ElementOfSeq
  <1>5. e.at \in Nat /\ e.size \in Nat /\ RoundUp(e.size) \in Nat
    <2>1. e.at \in Nat /\ e.size \in Nat \ {0}
      BY DEF SimEntry
    <2> QED
      BY <2>1, RoundUpValue
  <1>6. PICK g \in Seq(Hole) : g = Give(f, e.at, RoundUp(e.size))
    BY <1>1, <1>5, GiveTyped, Zenon
  <1>7. PICK h : h = Sim!SwapRemove(s.held, k)
    OBVIOUS
  <1>8. h \in Seq(SimEntry) /\ Len(h) = Len(s.held) - 1 /\ Lists(h, after)
    <2>1. DOMAIN after = DOMAIN view \ {s.held[k].id}
      BY <1>3
    <2>2. s.held \in Seq(SimEntry) /\ Lists(s.held, view)
      BY <1>1
    <2>3. PICK q \in Seq(SimEntry) : q = s.held
      BY <2>2
    <2> HIDE <1>1
    <2>4. Lists(q, view) /\ k \in 1 .. Len(q) /\ DOMAIN after = DOMAIN view \ {q[k].id}
      BY <1>3, <2>1, <2>2, <2>3
    <2>5. /\ Sim!SwapRemove(q, k) \in Seq(SimEntry) /\ Len(Sim!SwapRemove(q, k)) = Len(q) - 1
          /\ Lists(Sim!SwapRemove(q, k), after)
      BY <2>4, ListsSwapRemove, Zenon
    <2> QED
      BY <1>7, <2>3, <2>5
  <1>9. PICK counted2 \in SimOut : counted2 = Evicted(o)
    BY <1>1, SimOutMoved
  <1>10. PICK t : t = Sim!ThrowOut(s, id)
    OBVIOUS
  <1>11. t = [s EXCEPT !.free = g, !.held = h, !.out.evicted = @ + 1]
    BY <1>1, <1>2, <1>3, <1>4, <1>6, <1>7, <1>10, SameGive, SameFits, Zenon DEF Sim!ThrowOut
  <1>12. t = [held |-> h, free |-> g, cursor |-> cursor, out |-> counted2]
    BY <1>1, <1>9, <1>11, Zenon DEF Evicted
  <1>13. t \in SimRecord /\ t.held = h /\ t.free = g /\ t.cursor = cursor /\ t.out = counted2
    BY <1>1, <1>8, <1>12 DEF SimRecord
  <1> QED
    BY <1>4, <1>6, <1>8, <1>9, <1>10, <1>13 DEF Simulates

\* touch: the entry is used now, and next when it is told.
LEMMA Touched ==
  ASSUME NEW s, NEW view, NEW f, NEW cursor, NEW o, Simulates(s, view, f, cursor, o),
         NEW id \in Objects, id \in DOMAIN view, NEW now \in Nat, NEW next \in NextUses,
         NEW e, e = [view[id] EXCEPT !.used = now, !.next = next],
         NEW after, SetsEntry(after, view, e)
  PROVE  Simulates(Sim!Touch(s, id, now, next), after, f, cursor, HitCounted(o, id))
  <1>1. /\ s.held \in Seq(SimEntry) /\ s.free = f /\ f \in Seq(Hole) /\ s.cursor = cursor /\ cursor \in Nat
        /\ s.out = o /\ o \in SimOut /\ Lists(s.held, view)
        /\ s = [held |-> s.held, free |-> s.free, cursor |-> s.cursor, out |-> s.out]
    BY SimParts DEF Simulates
  <1>2. PICK q \in Seq(SimEntry) : q = s.held
    BY <1>1
  <1>3. PICK k \in 1 .. Len(q) : k = Sim!IndexOf(s, id) /\ q[k] = view[id] /\ q[k].id = id
    BY <1>1, <1>2, ListedAt
  <1>4. e \in SimEntry /\ e.id = id
    <2>1. q[k] \in SimEntry
      BY ElementOfSeq
    <2>2. PICK was \in SimEntry : was = view[id] /\ was.id = id
      BY <1>3, <2>1
    <2>3. e = [was EXCEPT !.used = now, !.next = next]
      BY <2>2
    <2> QED
      BY <2>2, <2>3, Zenon DEF SimEntry
  <1>5. PICK h : h = [q EXCEPT ![k] = e]
    BY Zenon
  <1>6. h \in Seq(SimEntry) /\ Lists(h, after)
    BY <1>1, <1>2, <1>3, <1>4, <1>5, ListsTouch, Zenon
  <1>7. PICK o2 \in SimOut : o2 = HitCounted(o, id)
    BY <1>1, SimOutMoved, Zenon
  <1>8. PICK t : t = Sim!Touch(s, id, now, next)
    OBVIOUS
  <1>9. t = [s EXCEPT !.held[k] = [@ EXCEPT !.used = now, !.next = next],
                      !.out.hits = @ + 1, !.out.applied = @ + Bytes0(id)]
    BY <1>3, <1>8, WeightBytesAre, Zenon DEF Sim!Touch
  <1>10. t = [held |-> h, free |-> f, cursor |-> cursor, out |-> o2]
    <2>1. h = [q EXCEPT ![k] = [@ EXCEPT !.used = now, !.next = next]]
      BY <1>3, <1>5
    <2> QED
      BY <1>1, <1>2, <1>7, <1>9, <2>1, Zenon DEF HitCounted
  <1>11. t \in SimRecord /\ t.held = h /\ t.free = f /\ t.cursor = cursor /\ t.out = o2
    BY <1>1, <1>6, <1>10 DEF SimRecord
  <1> QED
    BY <1>6, <1>7, <1>8, <1>11 DEF Simulates

\* insert, and what fetch counts: where there is room, and where there is not.
NewEntry(id, at, now, next) ==
  [id |-> id, at |-> at, size |-> Meta0(id).size, placed |-> now, used |-> now, next |-> next,
   reload |-> Costs(id).reload, recompute |-> Costs(id).recompute, share |-> 0]

LEMMA Inserted ==
  ASSUME NEW s, NEW view, NEW f, NEW cursor, NEW o, Simulates(s, view, f, cursor, o),
         NEW id \in Objects, id \notin DOMAIN view, NEW now \in Nat, NEW next \in NextUses,
         NEW want, want = RoundUp(Meta0(id).size), FirstFit(f, want) # 0,
         NEW after, SetsEntry(after, view, NewEntry(id, f[FirstFit(f, want)].at, now, next))
  PROVE  Simulates(Sim!Insert(s, id, now, next), after, Take(f, FirstFit(f, want), want), cursor,
                   ReadCounted(o, id))
  <1>1. /\ s.held \in Seq(SimEntry) /\ s.free = f /\ f \in Seq(Hole) /\ s.cursor = cursor /\ cursor \in Nat
        /\ s.out = o /\ o \in SimOut /\ Lists(s.held, view)
        /\ s = [held |-> s.held, free |-> s.free, cursor |-> s.cursor, out |-> s.out]
    BY SimParts DEF Simulates
  <1>2. PICK q \in Seq(SimEntry) : q = s.held
    BY <1>1
  <1>3. Meta0(id).size \in Nat \ {0} /\ want \in Nat /\ Costs(id).reload \in Nat /\ Costs(id).recompute \in Nat
    BY Meta0Typed, RoundUpValue, CostsTyped
  <1>4. PICK i : i = FirstFit(f, want)
    OBVIOUS
  <1>5. i # 0 /\ f[i].at \in Nat /\ Take(f, i, want) \in Seq(Hole)
    BY <1>1, <1>3, <1>4, TakeTyped, Zenon
  <1>6. PICK e : e = NewEntry(id, f[i].at, now, next)
    OBVIOUS
  <1>7. e \in SimEntry /\ e.id = id
    BY <1>3, <1>5, <1>6 DEF NewEntry, SimEntry
  <1>8. PICK h : h = Append(q, e)
    BY Zenon
  <1>9. h \in Seq(SimEntry) /\ Lists(h, after)
    BY <1>1, <1>2, <1>4, <1>6, <1>7, <1>8, ListsAppend
  <1>10. PICK g \in Seq(Hole) : g = Take(f, i, want)
    BY <1>5
  <1>11. PICK o2 \in SimOut : o2 = ReadCounted(o, id)
    BY <1>1, SimOutMoved, Zenon
  <1>12. PICK t : t = Sim!Insert(s, id, now, next)
    OBVIOUS
  <1>13. t = [s EXCEPT !.free = g, !.held = Append(@, e),
                       !.out.reads = @ + 1, !.out.bytes = @ + Meta0(id).size,
                       !.out.cost = @ + Costs(id).reload,
                       !.out.applied = @ + Bytes0(id), !.out.fetched = @ + Bytes0(id)]
    <2>1. /\ Described(id).size = Meta0(id).size /\ Described(id).reload = Costs(id).reload
          /\ Described(id).recompute = Costs(id).recompute /\ Sim!WeightBytes(id) = Bytes0(id)
      BY WeightBytesAre
    <2>2. Sim!RoundUp(Described(id).size) = want /\ Sim!FirstFit(s.free, want) = i
      BY <1>1, <1>4, <2>1, SameFits, SameFirstFit, Zenon
    <2>3. Sim!Take(s.free, i, want) = g
      BY <1>1, <1>10, SameTake
    <2>4. e = [id |-> id, at |-> s.free[i].at, size |-> Described(id).size, placed |-> now, used |-> now,
               next |-> next, reload |-> Described(id).reload, recompute |-> Described(id).recompute, share |-> 0]
      BY <1>1, <1>6, <2>1 DEF NewEntry
    <2> QED
      BY <1>5, <1>12, <2>1, <2>2, <2>3, <2>4, Zenon DEF Sim!Insert
  <1>14. t = [held |-> h, free |-> g, cursor |-> cursor, out |-> o2]
    BY <1>1, <1>2, <1>8, <1>11, <1>13, Zenon DEF ReadCounted
  <1>15. t \in SimRecord /\ t.held = h /\ t.free = g /\ t.cursor = cursor /\ t.out = o2
    BY <1>1, <1>9, <1>14 DEF SimRecord
  <1> QED
    BY <1>4, <1>9, <1>10, <1>11, <1>12, <1>15 DEF Simulates

LEMMA NotInserted ==
  ASSUME NEW s, NEW view, NEW f, NEW cursor, NEW o, Simulates(s, view, f, cursor, o),
         NEW id \in Objects, NEW now, NEW next, FirstFit(f, RoundUp(Meta0(id).size)) = 0
  PROVE  Simulates(Sim!Insert(s, id, now, next), view, f, cursor, Refused(o))
  <1>1. /\ s.held \in Seq(SimEntry) /\ s.free = f /\ f \in Seq(Hole) /\ s.cursor = cursor /\ cursor \in Nat
        /\ s.out = o /\ o \in SimOut /\ Lists(s.held, view)
        /\ s = [held |-> s.held, free |-> s.free, cursor |-> s.cursor, out |-> s.out]
    BY SimParts DEF Simulates
  <1>2. PICK o2 \in SimOut : o2 = Refused(o)
    BY <1>1, SimOutMoved
  <1>3. PICK t : t = Sim!Insert(s, id, now, next)
    OBVIOUS
  <1>4. t = [s EXCEPT !.out.refused = @ + 1]
    <2>1. Sim!FirstFit(s.free, Sim!RoundUp(Described(id).size)) = 0
      BY <1>1, WeightBytesAre, SameFits, SameFirstFit
    <2> QED
      BY <1>3, <2>1, Zenon DEF Sim!Insert
  <1>5. t = [held |-> s.held, free |-> f, cursor |-> cursor, out |-> o2]
    BY <1>1, <1>2, <1>4 DEF Refused
  <1>6. t \in SimRecord /\ t.held = s.held /\ t.free = f /\ t.cursor = cursor /\ t.out = o2
    BY <1>1, <1>5 DEF SimRecord
  <1> QED
    BY <1>1, <1>2, <1>3, <1>6 DEF Simulates

-----------------------------------------------------------------------------
(* The kernel and the simulator in step. *)

\* The resident objects as the simulator would list them.
KernelEntry(id) ==
  [id |-> id, at |-> table[id].at - Base, size |-> table[id].size,
   placed |-> hints[id].placed, used |-> hints[id].used, next |-> hints[id].next,
   reload |-> Costs(id).reload, recompute |-> Costs(id).recompute, share |-> table[id].share]
KernelView == [id \in ResidentSet |-> KernelEntry(id)]

\* Between two accesses the simulation holds what the kernel holds.
Mirrors == Simulates(sim, KernelView, free, sim.cursor, sim.out)

\* It has counted what the kernel has; evictions, when a fault is served.
Abreast ==
  /\ out.hits = sim.out.hits /\ out.reads = sim.out.reads /\ out.bytes = sim.out.bytes
  /\ out.refused = sim.out.refused
  /\ out.hits + out.reads + out.refused = AccessesDone
Weighed == counts.fetched = sim.out.fetched /\ counts.fetched + counts.hits = sim.out.applied

\* The simulation as it meets the access in progress, and as make_room takes
\* it on, turn by turn, with the evictions that the kernel has made so far.
Met == [sim EXCEPT !.cursor = verb.at]
Making == Sim!Turns(Met, table[job.id].size, policy)
Made == Sim!MakeRoom(Met, table[job.id].size, policy)
Counting == [sim.out EXCEPT !.evicted = out.evicted]
Halfway(s) == Simulates(s, KernelView, free, verb.at, Counting)

InStepNow ==
  /\ sim \in SimRecord /\ sim.out.sessions = Cardinality(NamedIn(stream.declared))
  /\ Abreast
  /\ ~Faulting => out.evicted = sim.out.evicted
  /\ verb.at <= Len(stream.declared) + 1 => Weighed
  /\ ~Faulting /\ verb.at <= Len(stream.declared) + 1 => Mirrors
  /\ verb.at = Len(stream.declared) + 2 => verb.head = SimHeadline
  /\ Faulting => Sim!IndexOf(sim, job.id) = 0
  /\ job.phase = "room" =>
       \E k \in 0 .. Len(sim.held) : Halfway(Making[k]) /\ Len(Making[k].held) = Len(sim.held) - k
  /\ job.phase = "place" => Halfway(Made)
InStep == Comparable => InStepNow

LEMMA KernelEntryTyped ==
  ASSUME LabTyped, NEW id \in ResidentSet
  PROVE  /\ KernelEntry(id) \in SimEntry /\ id \in Objects /\ Entry(id)
         /\ KernelView[id] = KernelEntry(id)
         /\ KernelView[id].at = table[id].at - Base /\ KernelView[id].size = table[id].size
  <1>1. id \in Objects /\ Resident(id) /\ Entry(id)
    BY DEF ResidentSet, Resident
  <1>2. table[id].size \in Nat \ {0} /\ table[id].share \in Nat /\ table[id].at - Base \in Nat
    BY <1>1, EntryTyped DEF LabTyped
  <1>3. hints[id].placed \in Nat /\ hints[id].used \in Nat /\ hints[id].next \in NextUses
    BY <1>1, HintTyped DEF LabTyped
  <1>4. Costs(id).reload \in Nat /\ Costs(id).recompute \in Nat
    BY <1>1, CostsTyped
  <1>5. KernelEntry(id) \in SimEntry
    BY <1>1, <1>2, <1>3, <1>4 DEF KernelEntry, SimEntry
  <1>6. KernelView[id] = KernelEntry(id)
    BY DEF KernelView
  <1> QED
    BY <1>1, <1>5, <1>6 DEF KernelEntry

LEMMA KernelViewIs ==
  DOMAIN KernelView = ResidentSet /\ KernelView = [id \in DOMAIN KernelView |-> KernelView[id]]
  BY DEF KernelView

\* What the simulator shows its policy is what the kernel shows its own.
LEMMA ViewIsHeld ==
  ASSUME LabTyped, NEW s, NEW f, NEW cursor, NEW o, Simulates(s, KernelView, f, cursor, o)
  PROVE  Sim!View(s) = Held
  <1>1. Sim!ById(s) = KernelView
    <2>1. s.held \in Seq(SimEntry) /\ Lists(s.held, KernelView)
      BY SimParts DEF Simulates
    <2> QED
      BY <2>1, KernelViewIs, ListedById
  <1>2. Sim!View(s) = [id \in DOMAIN KernelView |-> Sim!Seen(KernelView[id])]
    BY <1>1, Zenon DEF Sim!View
  <1>3. ASSUME NEW id \in ResidentSet
        PROVE  Sim!Seen(KernelView[id]) = Held[id]
    <2>1. KernelView[id] = KernelEntry(id)
      BY DEF KernelView
    <2> QED
      BY <2>1, SameSeen DEF KernelEntry, Seen, Held
  <1>4. Held = [id \in ResidentSet |-> Held[id]]
    BY DEF Held
  <1>5. [id \in ResidentSet |-> Sim!Seen(KernelView[id])] = [id \in ResidentSet |-> Held[id]]
    BY <1>3, Zenon
  <1> QED
    BY <1>2, <1>4, <1>5, KernelViewIs, Zenon

\* And it counts the same KV bytes.
LEMMA KvIsKv ==
  ASSUME LabTyped, Mirrors
  PROVE  Sim!KvHeld(sim) = KvBytes
  <1>1. Sim!ById(sim) = KernelView
    <2>1. sim.held \in Seq(SimEntry) /\ Lists(sim.held, KernelView)
      BY SimParts DEF Mirrors, Simulates
    <2> QED
      BY <2>1, KernelViewIs, ListedById
  <1>2. PICK S : S = {id \in ResidentSet : Class[id] = "kv"}
    BY Zenon
  <1>3. {id \in DOMAIN Sim!ById(sim) : Described(id).class = "kv"} = S
    BY <1>1, <1>2, KernelViewIs DEF Described
  <1>4. Sim!KvHeld(sim) = SizeSum(KernelView, S)
    <2>1. PICK v : v = Sim!ById(sim)
      OBVIOUS
    <2>2. Sim!KvHeld(sim) = SizeSum(v, {id \in DOMAIN v : Described(id).class = "kv"})
      BY <2>1 DEF Sim!KvHeld, SizeSum, Sim!MapThenSumSet, MapThenSumSet, Sim!MapThenFoldSet, MapThenFoldSet
    <2> QED
      BY <1>1, <1>3, <2>1, <2>2
  <1>5. KvBytes = SizeSum(table, S)
    BY <1>2 DEF KvBytes, SizeSum
  <1>6. IsFiniteSet(S)
    BY <1>2, ObjectsAre, FS_Subset
  <1>7. SameSizes(KernelView, table, S)
    BY <1>2, KernelEntryTyped DEF SameSizes
  <1> QED
    BY <1>4, <1>5, <1>6, <1>7, SumSame

\* A turn of the simulator, by what the kernel sees.
LEMMA TurnIs ==
  ASSUME LabTyped, NEW s, NEW o, Simulates(s, KernelView, free, clock, o), NEW size
  PROVE  Sim!MakeTurn(s, size, policy) =
           IF Fits(free, size) \/ Named = 0 \/ ~Evictable THEN s ELSE Sim!ThrowOut(s, Named)
  <1>1. s.free = free /\ s.cursor = clock
    BY DEF Simulates
  <1>2. Sim!Fits(s.free, size) = Fits(free, size)
    BY <1>1, SameFits
  <1>3. Sim!Victim(policy, Sim!View(s), s.cursor) = Named
    BY <1>1, ViewIsHeld, SameVictim DEF Named
  <1>4. Sim!Removable(s) <=> Evictable
    BY <1>1 DEF Sim!Removable, Evictable
  <1> QED
    BY <1>2, <1>3, <1>4, Zenon DEF Sim!MakeTurn

\* What the two have in common stays, if the table and the hints do where
\* objects stay.
LEMMA ViewKept ==
  ASSUME ResidentSet' \subseteq ResidentSet,
         \A id \in ResidentSet' : table'[id] = table[id] /\ hints'[id] = hints[id]
  PROVE  /\ DOMAIN KernelView' = ResidentSet'
         /\ \A id \in ResidentSet' : KernelView'[id] = KernelView[id]
         /\ ResidentSet' = ResidentSet => KernelView' = KernelView
  <1>1. \A id \in ResidentSet' : KernelEntry(id)' = KernelEntry(id)
    BY DEF KernelEntry
  <1>2. KernelView' = [id \in ResidentSet' |-> KernelEntry(id)']
    BY DEF KernelView
  <1>3. KernelView = [id \in ResidentSet |-> KernelEntry(id)]
    BY DEF KernelView
  <1>4. \A id \in ResidentSet' : KernelView'[id] = KernelView[id]
    BY <1>1, <1>2, <1>3
  <1> QED
    BY <1>1, <1>2, <1>3, <1>4

\* What each count is after one more.
LEMMA CountedAre ==
  ASSUME NEW o \in SimOut, NEW id \in Objects
  PROVE  /\ HitCounted(o, id).hits = o.hits + 1 /\ HitCounted(o, id).reads = o.reads
         /\ HitCounted(o, id).bytes = o.bytes /\ HitCounted(o, id).evicted = o.evicted
         /\ HitCounted(o, id).refused = o.refused /\ HitCounted(o, id).fetched = o.fetched
         /\ HitCounted(o, id).applied = o.applied + Bytes0(id)
         /\ HitCounted(o, id).sessions = o.sessions
         /\ ReadCounted(o, id).hits = o.hits /\ ReadCounted(o, id).reads = o.reads + 1
         /\ ReadCounted(o, id).bytes = o.bytes + Meta0(id).size /\ ReadCounted(o, id).evicted = o.evicted
         /\ ReadCounted(o, id).refused = o.refused /\ ReadCounted(o, id).fetched = o.fetched + Bytes0(id)
         /\ ReadCounted(o, id).applied = o.applied + Bytes0(id)
         /\ ReadCounted(o, id).sessions = o.sessions
         /\ Refused(o).hits = o.hits /\ Refused(o).reads = o.reads /\ Refused(o).bytes = o.bytes
         /\ Refused(o).evicted = o.evicted /\ Refused(o).refused = o.refused + 1
         /\ Refused(o).fetched = o.fetched /\ Refused(o).applied = o.applied
         /\ Refused(o).sessions = o.sessions
  <1>1. /\ HitCounted(o, id).hits = o.hits + 1 /\ HitCounted(o, id).reads = o.reads
        /\ HitCounted(o, id).bytes = o.bytes /\ HitCounted(o, id).evicted = o.evicted
        /\ HitCounted(o, id).refused = o.refused /\ HitCounted(o, id).fetched = o.fetched
        /\ HitCounted(o, id).applied = o.applied + Bytes0(id)
        /\ HitCounted(o, id).sessions = o.sessions
    BY DEF HitCounted, SimOut
  <1>2. /\ ReadCounted(o, id).hits = o.hits /\ ReadCounted(o, id).reads = o.reads + 1
        /\ ReadCounted(o, id).bytes = o.bytes + Meta0(id).size /\ ReadCounted(o, id).evicted = o.evicted
        /\ ReadCounted(o, id).refused = o.refused /\ ReadCounted(o, id).fetched = o.fetched + Bytes0(id)
        /\ ReadCounted(o, id).applied = o.applied + Bytes0(id)
        /\ ReadCounted(o, id).sessions = o.sessions
    BY DEF ReadCounted, SimOut
  <1>3. /\ Refused(o).hits = o.hits /\ Refused(o).reads = o.reads /\ Refused(o).bytes = o.bytes
        /\ Refused(o).evicted = o.evicted /\ Refused(o).refused = o.refused + 1
        /\ Refused(o).fetched = o.fetched /\ Refused(o).applied = o.applied
        /\ Refused(o).sessions = o.sessions
    BY DEF Refused, SimOut
  <1> QED
    BY <1>1, <1>2, <1>3

\* The access is done with, on both sides.
LEMMA Arrived ==
  ASSUME LabTyped, LabTyped', InStepNow, Replaying, verb.at <= Len(stream.declared), ~Faulting',
         verb'.name = "replay", verb'.at = verb.at + 1, stream'.declared = stream.declared,
         NEW o, Simulates(sim', KernelView', free', verb.at, o), o.sessions = sim.out.sessions,
         out'.hits = o.hits, out'.reads = o.reads, out'.bytes = o.bytes, out'.refused = o.refused,
         out'.evicted = o.evicted,
         out'.hits + out'.reads + out'.refused = out.hits + out.reads + out.refused + 1,
         counts'.fetched = o.fetched, counts'.fetched + counts'.hits = o.applied
  PROVE  InStepNow'
  <1>1. sim' \in SimRecord /\ sim'.out = o /\ sim'.cursor = verb.at
    BY DEF Simulates
  <1>2. verb.at \in Nat \ {0} /\ Len(stream.declared) \in Nat /\ AccessesDone = verb.at - 1 /\ AccessesDone' = verb.at
    BY DoneAre, DoneNow
  <1>3. sim'.out.sessions = Cardinality(NamedIn(stream'.declared))
    BY <1>1 DEF InStepNow
  <1>4. Abreast'
    <2>1. out.hits + out.reads + out.refused = verb.at - 1
      BY <1>2 DEF InStepNow, Abreast
    <2>2. out'.hits + out'.reads + out'.refused = verb.at
      BY <1>2, <2>1
    <2> QED
      BY <1>1, <1>2, <2>2 DEF Abreast
  <1>5. Weighed'
    BY <1>1 DEF Weighed
  <1>6. Mirrors'
    BY <1>1 DEF Mirrors
  <1>7. verb'.at # Len(stream'.declared) + 2 /\ job'.phase # "room" /\ job'.phase # "place"
    BY <1>2 DEF Faulting
  <1>8. out'.evicted = sim'.out.evicted
    BY <1>1
  <1> QED
    BY <1>1, <1>3, <1>4, <1>5, <1>6, <1>7, <1>8 DEF InStepNow

\* What the simulator is told of the next use is what the kernel is.
LEMMA ToldNext ==
  ASSUME LabTyped, Replaying, verb.at <= Len(stream.declared)
  PROVE  /\ Sim!WantedAt(Sim!Chain(stream.declared), verb.at) = NextAfter(stream, Current)
         /\ NextAfter(stream, Current) \in NextUses
  <1>1. stream.declared \in Seq(Objects) /\ verb.at \in 1 .. Len(stream.declared)
    BY CurrentKnown DEF LabTyped, Streams
  <1>2. Sim!WantedAt(Sim!Chain(stream.declared), verb.at) = NextAfter(stream, Current)
    <2>1. PICK t \in 1 .. Len(stream.declared) : t = verb.at
      BY <1>1
    <2>2. PICK c \in Seq(Int) : c = Chain(stream.declared) /\ Len(c) = Len(stream.declared)
      BY <1>1, ChainValue
    <2>3. WantedAt(c, t) = TickOf(c[t])
      BY <2>2 DEF WantedAt
    <2>4. TickOf(c[t]) = Want(stream.declared, stream.declared[t], t + 1)
      BY <1>1, <2>2, WantNext
    <2>5. NextAfter(stream, Current) = Want(stream.declared, Current, verb.at + 1)
      BY NextOfCurrent
    <2> QED
      BY <2>1, <2>2, <2>3, <2>4, <2>5, SameWanted DEF Current
  <1> QED
    BY <1>2, NextAfterTyped DEF LabTyped

\* The simulation as it meets the access, and what it is told of the next.
LEMMA Meets ==
  ASSUME LabTyped, Steady, Comparable, InStepNow, Replaying, verb.at <= Len(stream.declared), ~Faulting
  PROVE  /\ Simulates(Met, KernelView, free, verb.at, sim.out) /\ sim.out \in SimOut
         /\ clock = verb.at - 1 /\ verb.at \in Nat \ {0} /\ Current \in Objects
         /\ Sim!WantedAt(Sim!Chain(stream.declared), verb.at) = NextAfter(stream, Current)
         /\ NextAfter(stream, Current) \in NextUses
         /\ Sim!IndexOf(Met, Current) = Sim!IndexOf(sim, Current)
         /\ Sim!IndexOf(sim, Current) = 0 <=> Current \notin ResidentSet
         /\ Met.held = sim.held /\ Len(sim.held) \in Nat /\ sim \in SimRecord
  <1>1. /\ verb.at \in Nat \ {0} /\ Len(stream.declared) \in Nat /\ AccessesDone = verb.at - 1
        /\ stream.declared \in Seq(Objects)
    BY DoneAre DEF LabTyped, Streams
  <1>2. Mirrors
    BY <1>1 DEF InStepNow
  <1>3. sim \in SimRecord /\ Lists(sim.held, KernelView) /\ sim.held \in Seq(SimEntry) /\ sim.out \in SimOut
    BY <1>2, SimParts DEF Mirrors, Simulates
  <1>4. Simulates(Met, KernelView, free, verb.at, sim.out)
    BY <1>1, <1>2, CursorSet DEF Mirrors, Met
  <1>5. clock = verb.at - 1
    BY <1>1 DEF Steady
  <1>6. Current \in Objects /\ verb.at \in 1 .. Len(stream.declared)
    BY CurrentKnown
  <1>7. Sim!WantedAt(Sim!Chain(stream.declared), verb.at) = NextAfter(stream, Current)
    BY ToldNext
  <1>8. NextAfter(stream, Current) \in NextUses
    BY NextAfterTyped DEF LabTyped
  <1>9. Met.held = sim.held /\ Len(sim.held) \in Nat
    BY <1>3, SimParts DEF Met, SimRecord
  <1>10. Sim!IndexOf(Met, Current) = Sim!IndexOf(sim, Current)
    BY <1>9, Zenon DEF Sim!IndexOf
  <1>11. Sim!IndexOf(sim, Current) = 0 <=> Current \notin ResidentSet
    BY <1>3, ListedAt, KernelViewIs
  <1> QED
    BY <1>1, <1>3, <1>4, <1>5, <1>6, <1>7, <1>8, <1>9, <1>10, <1>11

LEMMA InStepHit ==
  ASSUME LabTyped, LabTyped', Steady, Comparable, InStepNow, Replaying,
         NEW id \in Objects, id = Current, NEW lease \in LeaseKinds,
         Accessing(id, TRUE), AcquireHit(id, lease, TRUE)
  PROVE  InStepNow'
  <1>1. /\ job = Idle /\ job' = Idle /\ id \in ResidentSet /\ ResidentSet' = ResidentSet
        /\ \A o \in Objects : o # id => table'[o] = table[o]
        /\ SamePlace(id) /\ (table[id].share = 0 => table'[id].share = 0)
        /\ free' = free /\ clock' = clock + 1
        /\ HintSet(id, hints[id].placed, clock + 1, NextAfter(stream, id))
        /\ counts' = [counts EXCEPT !.hits = @ + Bytes0(id)]
        /\ Done([out EXCEPT !.hits = @ + 1])
    BY HitFacts, Zenon
  <1>2. verb.at <= Len(stream.declared) /\ ~Faulting /\ ~Faulting'
    BY <1>1 DEF Accessing, Faulting, Idle
  <1>3. Moved([out EXCEPT !.hits = @ + 1])
    BY <1>1, DoneFacts
  <1>4. /\ Simulates(Met, KernelView, free, verb.at, sim.out) /\ sim.out \in SimOut
        /\ clock = verb.at - 1 /\ verb.at \in Nat \ {0}
        /\ Sim!WantedAt(Sim!Chain(stream.declared), verb.at) = NextAfter(stream, id)
        /\ NextAfter(stream, id) \in NextUses
        /\ Sim!IndexOf(sim, id) # 0
    BY <1>1, <1>2, Meets
  <1>5. PICK next \in NextUses : next = NextAfter(stream, id)
    BY <1>4
  <1>6. sim' = Sim!Touch(Met, id, verb.at, next)
    <2>1. sim' = Sim!Step(sim, stream.declared, verb.at, policy)
      BY <1>3 DEF Moved
    <2> QED
      BY <1>4, <1>5, <2>1, Zenon DEF Sim!Step, Met, Current
  <1>7. PICK e : e = [KernelView[id] EXCEPT !.used = verb.at, !.next = next]
    OBVIOUS
  <1>8. KernelEntry(id)' = e /\ e.id = id
    <2>1. KernelView[id] = KernelEntry(id) /\ Entry(id)
      BY <1>1, KernelEntryTyped
    <2>2. table[id].share = 0
      BY <2>1 DEF Steady
    <2>3. /\ hints'[id].placed = hints[id].placed /\ hints'[id].used = verb.at /\ hints'[id].next = next
      BY <1>1, <1>4, <1>5 DEF HintSet
    <2>4. table'[id].at = table[id].at /\ table'[id].size = table[id].size
      BY <1>1 DEF SamePlace
    <2>5. e = [KernelEntry(id) EXCEPT !.used = verb.at, !.next = next]
      BY <1>7, <2>1
    <2>6. e = [id |-> id, at |-> table[id].at - Base, size |-> table[id].size,
               placed |-> hints[id].placed, used |-> verb.at, next |-> next,
               reload |-> Costs(id).reload, recompute |-> Costs(id).recompute, share |-> table[id].share]
      BY <2>5, Zenon DEF KernelEntry
    <2>7. KernelEntry(id)' =
            [id |-> id, at |-> table'[id].at - Base, size |-> table'[id].size,
             placed |-> hints'[id].placed, used |-> hints'[id].used, next |-> hints'[id].next,
             reload |-> Costs(id).reload, recompute |-> Costs(id).recompute, share |-> table'[id].share]
      BY DEF KernelEntry
    <2>8. table'[id].share = table[id].share
      BY <1>1, <2>2
    <2>9. KernelEntry(id)' = e
      BY <2>3, <2>4, <2>6, <2>7, <2>8
    <2> QED
      BY <2>6, <2>9
  <1>9. SetsEntry(KernelView', KernelView, e)
    <2>1. KernelView' = [other \in ResidentSet |-> KernelEntry(other)']
      BY <1>1 DEF KernelView
    <2>2. ASSUME NEW other \in ResidentSet \ {id}
          PROVE  KernelView'[other] = KernelView[other]
      <3>1. table'[other] = table[other] /\ hints'[other] = hints[other]
        BY <1>1 DEF HintSet, ResidentSet
      <3> QED
        BY <2>1, <3>1 DEF KernelEntry, KernelView
    <2> QED
      BY <1>1, <1>8, <2>1, <2>2, KernelViewIs DEF SetsEntry
  <1>10. Simulates(sim', KernelView', free', verb.at, HitCounted(sim.out, id))
    BY <1>1, <1>4, <1>5, <1>6, <1>7, <1>9, KernelViewIs, Touched, Zenon
  <1>11. /\ out' = [out EXCEPT !.hits = @ + 1] /\ verb'.name = "replay" /\ verb'.at = verb.at + 1
         /\ stream'.declared = stream.declared
    BY <1>3 DEF Moved
  <1>12. /\ out'.hits = out.hits + 1 /\ out'.reads = out.reads /\ out'.bytes = out.bytes
         /\ out'.refused = out.refused /\ out'.evicted = out.evicted
         /\ out.hits \in Nat /\ out.reads \in Nat /\ out.refused \in Nat
    BY <1>11 DEF LabTyped, Numbers, OutOf
  <1>13. /\ counts'.fetched = counts.fetched /\ counts'.hits = counts.hits + Bytes0(id)
         /\ counts.fetched \in Nat /\ counts.hits \in Nat /\ Bytes0(id) \in Nat
    BY <1>1, Bytes0Typed DEF LabTyped, Numbers, CountsOf
  <1>14. Abreast /\ Weighed /\ out.evicted = sim.out.evicted
    BY <1>2, <1>4, DoneAre DEF InStepNow
  <1>15. PICK o \in SimOut : o = HitCounted(sim.out, id)
    BY <1>4, SimOutMoved, Zenon
  <1>16. /\ o.hits = sim.out.hits + 1 /\ o.reads = sim.out.reads /\ o.bytes = sim.out.bytes
         /\ o.evicted = sim.out.evicted /\ o.refused = sim.out.refused /\ o.fetched = sim.out.fetched
         /\ o.applied = sim.out.applied + Bytes0(id) /\ o.sessions = sim.out.sessions
    BY <1>4, <1>15, CountedAre
  <1>17. /\ out'.hits = o.hits /\ out'.reads = o.reads /\ out'.bytes = o.bytes /\ out'.refused = o.refused
         /\ out'.evicted = o.evicted
         /\ out'.hits + out'.reads + out'.refused = out.hits + out.reads + out.refused + 1
    BY <1>12, <1>14, <1>16 DEF Abreast
  <1>18. counts'.fetched = o.fetched /\ counts'.fetched + counts'.hits = o.applied
    BY <1>13, <1>14, <1>16 DEF Weighed
  <1> QED
    BY <1>2, <1>10, <1>11, <1>15, <1>16, <1>17, <1>18, Arrived

\* The simulation that meets the access holds what it held.
LEMMA MetHeld ==
  ASSUME sim \in SimRecord
  PROVE  Met.held = sim.held /\ Len(Met.held) \in Nat /\ Len(sim.held) \in Nat
  <1>1. sim = [held |-> sim.held, free |-> sim.free, cursor |-> sim.cursor, out |-> sim.out]
    BY SimParts
  <1>2. Met.held = sim.held
    BY <1>1 DEF Met
  <1> QED
    BY <1>2, SimParts

\* A fault goes on, and neither side has counted more than evictions.
LEMMA StillFaulting ==
  ASSUME LabTyped, LabTyped', InStepNow, Replaying, verb.at <= Len(stream.declared), Faulting',
         UNCHANGED <<verb, stream, policy, limit, sim>>,
         out'.hits = out.hits, out'.reads = out.reads, out'.bytes = out.bytes, out'.refused = out.refused,
         counts'.hits = counts.hits, counts'.fetched = counts.fetched,
         Sim!IndexOf(sim, job'.id) = 0,
         job'.phase = "room" =>
           \E k \in 0 .. Len(sim.held) :
             /\ Simulates(Making'[k], KernelView', free', verb.at, Counting')
             /\ Len(Making'[k].held) = Len(sim.held) - k,
         job'.phase = "place" => Simulates(Made', KernelView', free', verb.at, Counting')
  PROVE  InStepNow'
  <1>1. verb.at \in Nat \ {0} /\ Len(stream.declared) \in Nat
    BY DoneAre
  <1>2. AccessesDone' = AccessesDone
    BY SameReplay DEF SameVerb
  <1>3. sim' \in SimRecord /\ sim'.out.sessions = Cardinality(NamedIn(stream'.declared))
    BY DEF InStepNow
  <1>4. Abreast'
    BY <1>2 DEF InStepNow, Abreast
  <1>5. Weighed'
    BY <1>1 DEF InStepNow, Weighed
  <1>6. verb'.at # Len(stream'.declared) + 2
    BY <1>1
  <1>7. Sim!IndexOf(sim', job'.id) = 0
    OBVIOUS
  <1>8. job'.phase = "room" =>
          \E k \in 0 .. Len(sim'.held) : Halfway(Making[k])' /\ Len(Making'[k].held) = Len(sim'.held) - k
    BY DEF Halfway
  <1>9. job'.phase = "place" => Halfway(Made)'
    BY DEF Halfway
  <1> QED
    BY <1>3, <1>4, <1>5, <1>6, <1>7, <1>8, <1>9 DEF InStepNow

LEMMA InStepMiss ==
  ASSUME LabTyped, LabTyped', Steady, Comparable, InStepNow, Replaying,
         NEW id \in Objects, id = Current, NEW lease \in LeaseKinds,
         Accessing(id, TRUE), AcquireMiss(id, lease, TRUE)
  PROVE  InStepNow'
  <1>1. /\ job = Idle /\ ~Faulting /\ Faulting' /\ job'.phase = "room" /\ job'.id = id
        /\ ~Resident(id) /\ ResidentSet' = ResidentSet
        /\ UNCHANGED <<table, free, limit, hints, stream, policy, ring, counts, verb, out, sim>>
    BY MissFacts, Zenon
  <1>2. verb.at <= Len(stream.declared)
    BY <1>1 DEF Accessing
  <1>3. /\ Simulates(Met, KernelView, free, verb.at, sim.out) /\ sim.out \in SimOut
        /\ Sim!IndexOf(sim, Current) = 0 <=> Current \notin ResidentSet
        /\ Met.held = sim.held /\ Len(sim.held) \in Nat
    BY <1>1, <1>2, Meets
  <1>4. Sim!IndexOf(sim, job'.id) = 0
    BY <1>1, <1>3 DEF ResidentSet
  <1>5. KernelView' = KernelView
    BY <1>1, ViewKept
  <1>6. Counting' = sim.out
    <2>1. out.evicted = sim.out.evicted
      BY <1>1 DEF InStepNow
    <2>2. [sim.out EXCEPT !.evicted = sim.out.evicted] = sim.out
      BY <1>3, Zenon DEF SimOut
    <2> QED
      BY <1>1, <2>1, <2>2 DEF Counting
  <1>7. Making'[0] = Met
    <2>1. Met' = Met
      BY <1>1 DEF Met
    <2>2. PICK size : size = table'[job'.id].size
      OBVIOUS
    <2>3. Making' = Sim!Turns(Met, size, policy)
      BY <1>1, <2>1, <2>2 DEF Making
    <2> QED
      BY <1>3, <2>3, TurnsUnfold
  <1>8. Simulates(Making'[0], KernelView', free', verb.at, Counting')
    BY <1>1, <1>3, <1>5, <1>6, <1>7
  <1>9. Len(Making'[0].held) = Len(sim.held) - 0 /\ 0 \in 0 .. Len(sim.held)
    BY <1>3, <1>7
  <1>10. job'.phase # "place"
    BY <1>1
  <1> QED
    BY <1>1, <1>2, <1>4, <1>8, <1>9, <1>10, StillFaulting

\* The turn that ends make_room, on both sides.
LEMMA InStepTurn ==
  ASSUME LabTyped, LabTyped', Steady, Comparable, InStepNow, Replaying, LabRoomFound \/ LabStopEvicting
  PROVE  InStepNow'
  <1>1. /\ Turned /\ Faulting /\ Faulting' /\ ResidentSet' = ResidentSet /\ UNCHANGED labvars
    BY TurnFacts
  <1>2. /\ job.phase = "room" /\ job'.phase = "place" /\ job'.id = job.id
        /\ UNCHANGED <<table, free>> /\ UNCHANGED <<limit, hints, stream, policy, counts, verb, out, sim>>
    BY <1>1 DEF Turned, labvars
  <1>3. verb.at <= Len(stream.declared)
    BY <1>1, Replays DEF LabTyped, ReplayVerb
  <1>4. clock = verb.at
    BY <1>1 DEF Steady
  <1>5. PICK k \in 0 .. Len(sim.held) : Halfway(Making[k])
    BY <1>2 DEF InStepNow
  <1>6. Fits(free, table[job.id].size) \/ Named = 0 \/ ~Evictable
    <2>1. CASE LabRoomFound
      BY <2>1 DEF LabRoomFound, RoomFound
    <2>2. CASE LabStopEvicting
      BY <2>2 DEF LabStopEvicting
    <2> QED
      BY <2>1, <2>2
  <1>7. Made = Making[k]
    <2>1. PICK size : size = table[job.id].size
      OBVIOUS
    <2>2. Making = Sim!Turns(Met, size, policy) /\ Made = Sim!MakeRoom(Met, size, policy)
      BY <2>1 DEF Making, Made
    <2>3. Simulates(Making[k], KernelView, free, clock, Counting)
      BY <1>4, <1>5 DEF Halfway
    <2>4. Sim!MakeTurn(Making[k], size, policy) = Making[k]
      BY <1>6, <2>1, <2>3, TurnIs
    <2>5. Met.held = sim.held /\ Len(Met.held) \in Nat
      BY MetHeld DEF InStepNow
    <2> QED
      BY <2>2, <2>4, <2>5, TurnsStay
  <1>8. Made' = Made
    <2>1. Met' = Met
      BY <1>2 DEF Met
    <2>2. table'[job'.id].size = table[job.id].size
      BY <1>2
    <2> QED
      BY <1>2, <2>1, <2>2 DEF Made
  <1>9. KernelView' = KernelView
    BY <1>1, <1>2, ViewKept
  <1>10. Counting' = Counting
    BY <1>2 DEF Counting
  <1>11. Simulates(Made', KernelView', free', verb.at, Counting')
    BY <1>2, <1>5, <1>7, <1>8, <1>9, <1>10 DEF Halfway
  <1>12. Sim!IndexOf(sim, job'.id) = 0
    BY <1>1, <1>2 DEF InStepNow
  <1> QED
    BY <1>1, <1>2, <1>3, <1>11, <1>12, StillFaulting

\* A turn that throws one object out, on both sides.
LEMMA InStepVictim ==
  ASSUME LabTyped, LabTyped', Steady, Comparable, InStepNow, Replaying, LabEvictVictim
  PROVE  InStepNow'
  <1>1. /\ Faulting /\ Faulting' /\ UNCHANGED job /\ job.phase = "room" /\ ~Fits(free, table[job.id].size)
        /\ Named \in ResidentSet /\ Named # 0 /\ Evictable /\ job.id # Named
        /\ ResidentSet' = ResidentSet \ {Named}
        /\ \A o \in Objects : o # Named => table'[o] = table[o]
        /\ table'[Named].share = 0 /\ table'[Named].size = table[Named].size
        /\ free' = Give(free, table[Named].at - Base, RoundUp(table[Named].size))
        /\ counts' = [counts EXCEPT !.evictions = @ + 1]
        /\ out' = IF verb.name = "replay" THEN [out EXCEPT !.evicted = @ + 1] ELSE out
        /\ UNCHANGED <<limit, clock, hints, stream, policy, verb, sim>>
    BY VictimFacts
  <1>2. verb.at <= Len(stream.declared) /\ clock = verb.at /\ job.id \in Objects
    BY <1>1, Replays, CurrentTyped DEF LabTyped, ReplayVerb, Steady
  <1>3. PICK k \in 0 .. Len(sim.held) : Halfway(Making[k]) /\ Len(Making[k].held) = Len(sim.held) - k
    BY <1>1 DEF InStepNow
  <1>4. PICK size : size = table[job.id].size
    OBVIOUS
  <1>5. Making = Sim!Turns(Met, size, policy) /\ Making' = Making
    <2>1. Met' = Met
      BY <1>1 DEF Met
    <2>2. table'[job'.id].size = size
      BY <1>1, <1>2, <1>4
    <2> QED
      BY <1>1, <1>4, <2>1, <2>2 DEF Making
  <1>6. Simulates(Making[k], KernelView, free, verb.at, Counting)
    BY <1>3 DEF Halfway
  <1>7. PICK victim \in Objects : victim = Named
    BY <1>1, KernelEntryTyped
  <1>8. /\ victim \in DOMAIN KernelView /\ KernelView[victim].at = table[victim].at - Base
        /\ KernelView[victim].size = table[victim].size
    BY <1>1, <1>7, KernelEntryTyped, KernelViewIs
  <1>9. /\ DOMAIN KernelView' = DOMAIN KernelView \ {victim}
        /\ \A id \in DOMAIN KernelView' : KernelView'[id] = KernelView[id]
    <2>1. \A id \in ResidentSet' : table'[id] = table[id] /\ hints'[id] = hints[id]
      BY <1>1 DEF ResidentSet
    <2>2. ResidentSet' \subseteq ResidentSet
      BY <1>1
    <2>3. DOMAIN KernelView' = ResidentSet' /\ \A id \in ResidentSet' : KernelView'[id] = KernelView[id]
      BY <2>1, <2>2, ViewKept
    <2> QED
      BY <1>1, <1>7, <2>3, KernelViewIs
  <1>10. PICK next : next = Sim!ThrowOut(Making[k], victim)
    OBVIOUS
  <1>11. Simulates(next, KernelView', free', verb.at, Evicted(Counting)) /\ Len(next.held) = Len(Making[k].held) - 1
    <2>1. PICK s, before, after, f, now, o :
            /\ s = Making[k] /\ before = KernelView /\ after = KernelView' /\ f = free
            /\ now = verb.at /\ o = Counting
      OBVIOUS
    <2>2. before = [other \in DOMAIN before |-> before[other]]
      BY <2>1, KernelViewIs
    <2>3. Simulates(s, before, f, now, o) /\ next = Sim!ThrowOut(s, victim)
      BY <1>6, <1>10, <2>1
    <2>4. /\ victim \in DOMAIN before /\ DOMAIN after = DOMAIN before \ {victim}
          /\ \A id \in DOMAIN after : after[id] = before[id]
      BY <1>8, <1>9, <2>1
    <2>5. /\ Simulates(next, after, Give(f, before[victim].at, RoundUp(before[victim].size)), now, Evicted(o))
          /\ Len(next.held) = Len(s.held) - 1
      BY <2>2, <2>3, <2>4, ThrownOut, Zenon
    <2> QED
      BY <1>1, <1>7, <1>8, <2>1, <2>5
  <1>12. Counting' = Evicted(Counting)
    <2>1. PICK o \in SimOut : o = sim.out
      BY SimParts DEF InStepNow
    <2>2. PICK n \in Nat : n = out.evicted
      BY DEF LabTyped, Numbers, OutOf
    <2>3. out'.evicted = n + 1
      BY <1>1, <2>2 DEF LabTyped, Numbers, OutOf, Replaying
    <2>4. Counting = [o EXCEPT !.evicted = n] /\ Counting' = [o EXCEPT !.evicted = n + 1]
      BY <1>1, <2>1, <2>2, <2>3 DEF Counting
    <2>5. [[o EXCEPT !.evicted = n] EXCEPT !.evicted = @ + 1] = [o EXCEPT !.evicted = n + 1]
      BY Zenon DEF SimOut
    <2> QED
      BY <2>4, <2>5 DEF Evicted
  <1>13. Len(sim.held) \in Nat /\ Len(Met.held) = Len(sim.held)
    BY MetHeld DEF InStepNow
  <1>14. k # Len(sim.held)
    <2>1. Making[k].held \in Seq(SimEntry) /\ Lists(Making[k].held, KernelView)
      BY <1>6, SimParts DEF Simulates
    <2>2. Len(Making[k].held) # 0
      <3>1. \E i \in 1 .. Len(Making[k].held) : Making[k].held[i].id = victim
        BY <1>8, <2>1, Zenon DEF Lists
      <3> QED
        BY <3>1
    <2> QED
      BY <1>3, <1>13, <2>2
  <1>15. k + 1 \in 0 .. Len(sim.held) /\ k \in 0 .. Len(Met.held) - 1
    BY <1>13, <1>14
  <1>16. Making[k + 1] = next
    <2>1. Sim!MakeTurn(Making[k], size, policy) = Sim!ThrowOut(Making[k], Named)
      BY <1>1, <1>2, <1>4, <1>6, TurnIs
    <2>2. Making[k + 1] = Sim!MakeTurn(Making[k], size, policy)
      BY <1>5, <1>13, <1>15, TurnsUnfold
    <2> QED
      BY <1>7, <1>10, <2>1, <2>2
  <1>17. /\ Simulates(Making'[k + 1], KernelView', free', verb.at, Counting')
         /\ Len(Making'[k + 1].held) = Len(sim.held) - (k + 1)
    BY <1>3, <1>5, <1>11, <1>12, <1>13, <1>16
  <1>18. /\ out'.hits = out.hits /\ out'.reads = out.reads /\ out'.bytes = out.bytes /\ out'.refused = out.refused
         /\ counts'.hits = counts.hits /\ counts'.fetched = counts.fetched
    BY <1>1 DEF LabTyped, Numbers, OutOf, CountsOf
  <1>19. Sim!IndexOf(sim, job'.id) = 0 /\ job'.phase # "place"
    BY <1>1 DEF InStepNow
  <1> QED
    BY <1>1, <1>2, <1>15, <1>17, <1>18, <1>19, StillFaulting

LEMMA CountingAre ==
  ASSUME LabTyped, sim \in SimRecord
  PROVE  /\ Counting \in SimOut
         /\ Counting.hits = sim.out.hits /\ Counting.reads = sim.out.reads
         /\ Counting.bytes = sim.out.bytes /\ Counting.refused = sim.out.refused
         /\ Counting.fetched = sim.out.fetched /\ Counting.applied = sim.out.applied
         /\ Counting.sessions = sim.out.sessions /\ Counting.evicted = out.evicted
  <1>1. PICK o \in SimOut : o = sim.out
    BY SimParts
  <1>2. PICK n \in Nat : n = out.evicted
    BY DEF LabTyped, Numbers, OutOf
  <1>3. Counting = [o EXCEPT !.evicted = n]
    BY <1>1, <1>2 DEF Counting
  <1> QED
    BY <1>1, <1>2, <1>3 DEF SimOut

\* What the simulator does of an access that it has to fetch.
LEMMA StepsIn ==
  ASSUME LabTyped, Steady, Comparable, InStepNow, Replaying, job.phase = "place", Moved(out')
  PROVE  /\ verb.at <= Len(stream.declared) /\ verb.at \in Nat \ {0} /\ clock = verb.at
         /\ job.id \in Objects /\ job.id = Current /\ job.once /\ Entry(job.id)
         /\ table[job.id].size = Meta0(job.id).size
         /\ Simulates(Made, KernelView, free, verb.at, Counting) /\ Counting \in SimOut
         /\ NextAfter(stream, job.id) \in NextUses
         /\ sim' = Sim!Insert(Made, job.id, verb.at, NextAfter(stream, job.id))
         /\ Abreast /\ Weighed
  <1>1. Faulting /\ job.phase # "room"
    BY DEF Faulting
  <1>2. verb.at <= Len(stream.declared) /\ verb.at \in Nat \ {0} /\ job.id = Current /\ job.once
    BY <1>1, Replays DEF LabTyped, ReplayVerb
  <1>3. clock = verb.at
    BY <1>1 DEF Steady
  <1>4. job.id \in Objects /\ Entry(job.id)
    BY <1>1 DEF LabTyped, Jobs, Idle, DestroyJob
  <1>5. table[job.id].size = Meta0(job.id).size
    BY <1>4 DEF LabTyped, Tables
  <1>6. /\ Simulates(Made, KernelView, free, verb.at, Counting) /\ sim \in SimRecord
        /\ Sim!IndexOf(sim, job.id) = 0 /\ Abreast
    BY <1>1 DEF InStepNow, Halfway
  <1>7. Weighed
    BY <1>2, DoneAre DEF InStepNow
  <1>8. Counting \in SimOut
    BY <1>6, CountingAre
  <1>9. PICK next \in NextUses :
          next = NextAfter(stream, job.id) /\ Sim!WantedAt(Sim!Chain(stream.declared), verb.at) = next
    BY <1>2, ToldNext
  <1>10. sim' = Sim!Insert(Made, job.id, verb.at, next)
    <2>1. sim' = Sim!Step(sim, stream.declared, verb.at, policy)
      BY DEF Moved
    <2>2. stream.declared[verb.at] = job.id
      BY <1>2 DEF Current
    <2>3. Described(job.id).size = table[job.id].size
      BY <1>4, <1>5, WeightBytesAre
    <2> QED
      BY <1>6, <1>9, <2>1, <2>2, <2>3, Zenon DEF Sim!Step, Met, Made
  <1> QED
    BY <1>2, <1>3, <1>4, <1>5, <1>6, <1>7, <1>8, <1>9, <1>10

LEMMA InStepPlaced ==
  ASSUME LabTyped, LabTyped', Steady, Comparable, InStepNow, Replaying, LabPlaced
  PROVE  InStepNow'
  <1>1. PICK id, i : /\ id = job.id /\ i = FirstFit(free, RoundUp(table[job.id].size))
    OBVIOUS
  <1>2. /\ job.phase = "place" /\ ~Faulting' /\ id \in Objects
        /\ i # 0 /\ free' = Take(free, i, RoundUp(table[id].size))
        /\ id \notin ResidentSet /\ ResidentSet' = ResidentSet \cup {id}
        /\ \A o \in Objects : o # id => table'[o] = table[o]
        /\ table'[id].at = Base + free[i].at /\ free[i].at \in Nat
        /\ table'[id].size = table[id].size
        /\ job.once => table'[id].share = 0
        /\ HintSet(id, clock, clock, NextAfter(stream, id))
        /\ counts' = [counts EXCEPT !.fetched = @ + Bytes0(id)]
        /\ Done([out EXCEPT !.reads = @ + 1, !.bytes = @ + table[id].size])
    BY <1>1, PlacedFacts
  <1>3. /\ Moved([out EXCEPT !.reads = @ + 1, !.bytes = @ + table[id].size])
        /\ out' = [out EXCEPT !.reads = @ + 1, !.bytes = @ + table[id].size]
    BY <1>2, DoneFacts DEF Moved
  <1>4. /\ verb.at <= Len(stream.declared) /\ verb.at \in Nat \ {0} /\ clock = verb.at
        /\ job.once /\ table[id].size = Meta0(id).size /\ Entry(id)
        /\ Simulates(Made, KernelView, free, verb.at, Counting) /\ Counting \in SimOut
        /\ NextAfter(stream, id) \in NextUses
        /\ sim' = Sim!Insert(Made, id, verb.at, NextAfter(stream, id))
        /\ Abreast /\ Weighed
    <2>1. Moved(out')
      BY <1>3
    <2> QED
      BY <1>1, <1>2, <2>1, StepsIn
  <1>5. PICK next \in NextUses : next = NextAfter(stream, id)
    BY <1>4
  <1>6. PICK at \in Nat : at = free[i].at
    BY <1>2
  <1>7. KernelEntry(id)' = NewEntry(id, at, verb.at, next)
    <2>1. table'[id].at - Base = at
      BY <1>2, <1>6, ManagerAssumption
    <2>2. table'[id].size = Meta0(id).size /\ table'[id].share = 0
      BY <1>2, <1>4
    <2>3. hints'[id].placed = verb.at /\ hints'[id].used = verb.at /\ hints'[id].next = next
      BY <1>2, <1>4, <1>5 DEF HintSet
    <2>4. KernelEntry(id)' =
            [id |-> id, at |-> table'[id].at - Base, size |-> table'[id].size,
             placed |-> hints'[id].placed, used |-> hints'[id].used, next |-> hints'[id].next,
             reload |-> Costs(id).reload, recompute |-> Costs(id).recompute, share |-> table'[id].share]
      BY DEF KernelEntry
    <2> QED
      BY <2>1, <2>2, <2>3, <2>4 DEF NewEntry
  <1>8. SetsEntry(KernelView', KernelView, NewEntry(id, at, verb.at, next))
    <2>1. KernelView' = [other \in ResidentSet \cup {id} |-> KernelEntry(other)']
      BY <1>2 DEF KernelView
    <2>2. ASSUME NEW other \in ResidentSet \ {id}
          PROVE  KernelView'[other] = KernelView[other]
      <3>1. table'[other] = table[other] /\ hints'[other] = hints[other]
        BY <1>2 DEF HintSet, ResidentSet
      <3> QED
        BY <2>1, <3>1 DEF KernelEntry, KernelView
    <2>3. NewEntry(id, at, verb.at, next).id = id
      BY DEF NewEntry
    <2> QED
      BY <1>2, <1>7, <2>1, <2>2, <2>3, KernelViewIs DEF SetsEntry
  <1>9. Simulates(sim', KernelView', free', verb.at, ReadCounted(Counting, id))
    <2>1. PICK s, view, after, f, o, want :
            /\ s = Made /\ view = KernelView /\ after = KernelView' /\ f = free /\ o = Counting
            /\ want = RoundUp(Meta0(id).size)
      OBVIOUS
    <2>2. i = FirstFit(f, want) /\ free' = Take(f, i, want)
      BY <1>1, <1>2, <1>4, <2>1
    <2>3. Simulates(s, view, f, verb.at, o) /\ id \notin DOMAIN view
      BY <1>2, <1>4, <2>1, KernelViewIs
    <2>4. SetsEntry(after, view, NewEntry(id, f[FirstFit(f, want)].at, verb.at, next))
      BY <1>6, <1>8, <2>1, <2>2
    <2>5. Simulates(Sim!Insert(s, id, verb.at, next), after, Take(f, FirstFit(f, want), want), verb.at,
                    ReadCounted(o, id))
      BY <1>2, <1>4, <2>1, <2>2, <2>3, <2>4, Inserted, Zenon
    <2> QED
      BY <1>4, <1>5, <2>1, <2>2, <2>5
  <1>10. /\ verb'.name = "replay" /\ verb'.at = verb.at + 1 /\ stream'.declared = stream.declared
    BY <1>3 DEF Moved
  <1>11. PICK size \in Nat : size = table[id].size
    BY <1>2, <1>4, EntryTyped DEF LabTyped
  <1>12. /\ out'.hits = out.hits /\ out'.reads = out.reads + 1 /\ out'.bytes = out.bytes + size
         /\ out'.refused = out.refused /\ out'.evicted = out.evicted
         /\ out.hits \in Nat /\ out.reads \in Nat /\ out.refused \in Nat
    BY <1>3, <1>11 DEF LabTyped, Numbers, OutOf
  <1>13. /\ counts'.fetched = counts.fetched + Bytes0(id) /\ counts'.hits = counts.hits
         /\ counts.fetched \in Nat /\ counts.hits \in Nat /\ Bytes0(id) \in Nat
    BY <1>2, Bytes0Typed DEF LabTyped, Numbers, CountsOf
  <1>14. /\ Counting.hits = sim.out.hits /\ Counting.reads = sim.out.reads
         /\ Counting.bytes = sim.out.bytes /\ Counting.refused = sim.out.refused
         /\ Counting.fetched = sim.out.fetched /\ Counting.applied = sim.out.applied
         /\ Counting.sessions = sim.out.sessions /\ Counting.evicted = out.evicted
    BY CountingAre DEF InStepNow
  <1>15. PICK o \in SimOut : o = ReadCounted(Counting, id)
    BY <1>2, <1>4, SimOutMoved, Zenon
  <1>16. /\ o.hits = sim.out.hits /\ o.reads = sim.out.reads + 1 /\ o.bytes = sim.out.bytes + size
         /\ o.evicted = out.evicted /\ o.refused = sim.out.refused
         /\ o.fetched = sim.out.fetched + Bytes0(id)
         /\ o.applied = sim.out.applied + Bytes0(id) /\ o.sessions = sim.out.sessions
    BY <1>2, <1>4, <1>11, <1>14, <1>15, CountedAre
  <1>17. /\ out'.hits = o.hits /\ out'.reads = o.reads /\ out'.bytes = o.bytes /\ out'.refused = o.refused
         /\ out'.evicted = o.evicted
         /\ out'.hits + out'.reads + out'.refused = out.hits + out.reads + out.refused + 1
    BY <1>4, <1>12, <1>16 DEF Abreast
  <1>18. counts'.fetched = o.fetched /\ counts'.fetched + counts'.hits = o.applied
    BY <1>4, <1>13, <1>16 DEF Weighed
  <1> QED
    BY <1>2, <1>4, <1>9, <1>10, <1>15, <1>16, <1>17, <1>18, Arrived

LEMMA InStepNotPlaced ==
  ASSUME LabTyped, LabTyped', Steady, Comparable, InStepNow, Replaying, LabNotPlaced
  PROVE  InStepNow'
  <1>1. PICK id : id = job.id
    OBVIOUS
  <1>2. /\ job.phase = "place" /\ ~Faulting' /\ id \in Objects
        /\ FirstFit(free, RoundUp(table[id].size)) = 0
        /\ ResidentSet' = ResidentSet /\ Done([out EXCEPT !.refused = @ + 1])
        /\ UNCHANGED <<table, free, limit, clock, hints, policy, counts>>
    BY <1>1, NotPlacedFacts
  <1>3. Moved([out EXCEPT !.refused = @ + 1]) /\ out' = [out EXCEPT !.refused = @ + 1]
    BY <1>2, DoneFacts DEF Moved
  <1>4. /\ verb.at <= Len(stream.declared) /\ table[id].size = Meta0(id).size
        /\ Simulates(Made, KernelView, free, verb.at, Counting) /\ Counting \in SimOut
        /\ sim' = Sim!Insert(Made, id, verb.at, NextAfter(stream, id))
        /\ Abreast /\ Weighed
    <2>1. Moved(out')
      BY <1>3
    <2> QED
      BY <1>1, <1>2, <2>1, StepsIn
  <1>5. KernelView' = KernelView
    BY <1>2, ViewKept
  <1>6. Simulates(sim', KernelView', free', verb.at, Refused(Counting))
    BY <1>2, <1>4, <1>5, NotInserted
  <1>7. /\ verb'.name = "replay" /\ verb'.at = verb.at + 1 /\ stream'.declared = stream.declared
    BY <1>3 DEF Moved
  <1>8. /\ out'.hits = out.hits /\ out'.reads = out.reads /\ out'.bytes = out.bytes
        /\ out'.refused = out.refused + 1 /\ out'.evicted = out.evicted
        /\ out.hits \in Nat /\ out.reads \in Nat /\ out.refused \in Nat
    BY <1>3 DEF LabTyped, Numbers, OutOf
  <1>9. /\ Counting.hits = sim.out.hits /\ Counting.reads = sim.out.reads
        /\ Counting.bytes = sim.out.bytes /\ Counting.refused = sim.out.refused
        /\ Counting.fetched = sim.out.fetched /\ Counting.applied = sim.out.applied
        /\ Counting.sessions = sim.out.sessions /\ Counting.evicted = out.evicted
    BY CountingAre DEF InStepNow
  <1>10. PICK o \in SimOut : o = Refused(Counting)
    BY <1>2, <1>4, SimOutMoved
  <1>11. /\ o.hits = sim.out.hits /\ o.reads = sim.out.reads /\ o.bytes = sim.out.bytes
         /\ o.evicted = out.evicted /\ o.refused = sim.out.refused + 1
         /\ o.fetched = sim.out.fetched /\ o.applied = sim.out.applied /\ o.sessions = sim.out.sessions
    BY <1>2, <1>4, <1>9, <1>10, CountedAre
  <1>12. /\ out'.hits = o.hits /\ out'.reads = o.reads /\ out'.bytes = o.bytes /\ out'.refused = o.refused
         /\ out'.evicted = o.evicted
         /\ out'.hits + out'.reads + out'.refused = out.hits + out.reads + out.refused + 1
    BY <1>4, <1>8, <1>11 DEF Abreast
  <1>13. counts'.fetched = o.fetched /\ counts'.fetched + counts'.hits = o.applied
    BY <1>2, <1>4, <1>11 DEF Weighed
  <1> QED
    BY <1>2, <1>4, <1>6, <1>7, <1>10, <1>11, <1>12, <1>13, Arrived

\* Steps between two accesses that the simulator has no part in.
LEMMA StillBetween ==
  ASSUME LabTyped, LabTyped', InStepNow, Replaying, ~Faulting, ~Faulting',
         UNCHANGED <<verb, stream, policy, limit, out, sim>>,
         verb.at <= Len(stream.declared) + 1 => KernelView' = KernelView /\ UNCHANGED <<free, counts>>
  PROVE  InStepNow'
  <1>1. AccessesDone' = AccessesDone
    BY SameReplay DEF SameVerb
  <1>2. Abreast'
    BY <1>1 DEF InStepNow, Abreast
  <1>3. verb'.at <= Len(stream'.declared) + 1 => Weighed'
    BY DEF InStepNow, Weighed
  <1>4. verb'.at <= Len(stream'.declared) + 1 => Mirrors'
    BY DEF InStepNow, Mirrors
  <1>5. SimHeadline' = SimHeadline
    BY DEF SimHeadline
  <1>6. job'.phase # "room" /\ job'.phase # "place"
    BY DEF Faulting
  <1> QED
    BY <1>2, <1>3, <1>4, <1>5, <1>6 DEF InStepNow

LEMMA InStepDestroy ==
  ASSUME LabTyped, LabTyped', InStepNow, Replaying,
         LabDestroyNext \/ \E id \in Objects : LabDestroyObject(id)
  PROVE  InStepNow'
  <1>1. /\ job.phase = "destroy" /\ ~Faulting /\ ~Faulting'
        /\ UNCHANGED <<verb, stream, policy, limit, out, sim>>
    <2>1. CASE LabDestroyNext
      BY <2>1, DestroyNextFacts DEF labvars
    <2>2. CASE \E id \in Objects : LabDestroyObject(id)
      BY <2>2, DestroyFacts
    <2> QED
      BY <2>1, <2>2
  <1>2. verb.at = Len(stream.declared) + 2 /\ Len(stream.declared) \in Nat
    BY <1>1, Replays, DoneAre DEF LabTyped, ReplayVerb
  <1>3. ~(verb.at <= Len(stream.declared) + 1)
    BY <1>2
  <1> QED
    BY <1>1, <1>3, StillBetween

LEMMA InStepEnter ==
  ASSUME LabTyped, LabTyped', InStepNow, Enter
  PROVE  InStepNow'
  <1>1. /\ Replaying /\ ~Faulting /\ ~Faulting' /\ Current \notin ResidentSet /\ ResidentSet' = ResidentSet
        /\ \A o \in Objects : o # Current => table'[o] = table[o]
        /\ HintSet(Current, 0, 0, Never)
        /\ UNCHANGED <<free, limit, stream, policy, counts, verb, out, sim>>
    BY EnterFacts
  <1>2. \A id \in ResidentSet' : table'[id] = table[id] /\ hints'[id] = hints[id]
    BY <1>1 DEF HintSet, ResidentSet
  <1>3. KernelView' = KernelView
    BY <1>1, <1>2, ViewKept
  <1> QED
    BY <1>1, <1>3, StillBetween

\* The headlines, of the last access: the same counts, the same KV bytes and
\* as many sessions.
LEMMA InStepEnds ==
  ASSUME LabTyped, LabTyped', Steady, Comparable, InStepNow, ReplayEnds
  PROVE  InStepNow'
  <1>1. /\ Replaying /\ job = Idle /\ verb.at = Len(stream.declared) + 1
        /\ verb'.name = "replay" /\ verb'.at = verb.at + 1
        /\ verb'.head = Headline(counts.fetched + counts.hits, counts.fetched, KvBytes,
                                 Cardinality(LiveIn(sessions)), limit)
        /\ job'.phase = "destroy"
        /\ UNCHANGED <<table, free, limit, stream, policy, counts, out, sim>>
    BY ReplayEndsTyped
  <1>2. /\ verb.at \in Nat \ {0} /\ Len(stream.declared) \in Nat /\ AccessesDone = Len(stream.declared)
        /\ AccessesDone' = Len(stream.declared)
    <2>1. verb.at \in Nat \ {0} /\ Len(stream.declared) \in Nat
      BY <1>1, DoneAre
    <2>2. AccessesDone = Len(stream.declared)
      BY <1>1, <2>1, DoneAre
    <2> QED
      BY <1>1, <2>1, <2>2, DoneNow
  <1>3. ~Faulting /\ ~Faulting' /\ job'.phase # "room" /\ job'.phase # "place"
    BY <1>1 DEF Faulting, Idle
  <1>4. Mirrors /\ Weighed /\ Abreast /\ sim.out.sessions = Cardinality(NamedIn(stream.declared))
    BY <1>1, <1>2, <1>3 DEF InStepNow
  <1>5. LiveIn(sessions) = NamedIn(stream.declared)
    BY <1>1, <1>2 DEF Steady
  <1>6. verb'.head = SimHeadline'
    <2>1. Sim!KvHeld(sim) = KvBytes
      BY <1>4, KvIsKv
    <2>2. SimHeadline' = SimHeadline
      BY <1>1 DEF SimHeadline
    <2>3. Headline(counts.fetched + counts.hits, counts.fetched, KvBytes, Cardinality(LiveIn(sessions)), limit) =
          Headline(sim.out.applied, sim.out.fetched, Sim!KvHeld(sim), sim.out.sessions, limit)
      BY <1>4, <1>5, <2>1 DEF Weighed
    <2> QED
      BY <1>1, <2>2, <2>3 DEF SimHeadline
  <1>7. Abreast'
    BY <1>1, <1>2, <1>4 DEF Abreast
  <1>8. sim' \in SimRecord /\ sim'.out.sessions = Cardinality(NamedIn(stream'.declared))
        /\ out'.evicted = sim'.out.evicted
    BY <1>1, <1>3 DEF InStepNow
  <1>9. ~(verb'.at <= Len(stream'.declared) + 1)
    BY <1>1, <1>2
  <1> QED
    BY <1>3, <1>6, <1>7, <1>8, <1>9 DEF InStepNow

\* Both begin with nothing resident, one hole and nothing counted.
LEMMA InStepBegins ==
  ASSUME LabTyped, LabTyped', Quiet, clock = 0, limit # 0,
         NEW order \in Traces, NEW name \in Policies, Replay(name, order)
  PROVE  InStepNow'
  <1>1. /\ order \in Seq(Objects) /\ ~Faulting'
        /\ stream'.declared = order /\ out' = Replayed0
        /\ sim' = Sim!Begin(limit, Cardinality(NamedIn(order)))
        /\ verb'.name = "replay" /\ verb'.at = 1
        /\ UNCHANGED <<table, free, limit, clock, hints, ring, counts>>
    BY BeginFacts
  <1>2. /\ \A id \in Objects : ~Resident(id)
        /\ counts.fetched = 0 /\ counts.hits = 0 /\ free = <<[at |-> 0, len |-> limit]>>
    BY QuietIs DEF QuietNow
  <1>3. PICK n \in Nat : n = Cardinality(NamedIn(order))
    <2>1. NamedIn(order) \subseteq SessionIds
      BY <1>1, NamedSessions
    <2>2. IsFiniteSet(SessionIds)
      BY MaxIdAssumption, FS_Interval DEF SessionIds
    <2> QED
      BY <2>1, <2>2, FS_Subset, FS_CardinalityType
  <1>4. PICK f \in Seq(Hole) : f = free
    BY DEF LabTyped, Tables
  <1>5. PICK o \in SimOut : o = [Sim!Outcome0 EXCEPT !.sessions = n]
    BY Zenon DEF SimOut, Sim!Outcome0
  <1>6. /\ o.hits = 0 /\ o.reads = 0 /\ o.bytes = 0 /\ o.evicted = 0 /\ o.refused = 0
        /\ o.applied = 0 /\ o.fetched = 0 /\ o.sessions = n
    BY <1>5 DEF Sim!Outcome0
  <1>7. sim' = [held |-> <<>>, free |-> f, cursor |-> 0, out |-> o]
    BY <1>1, <1>2, <1>3, <1>4, <1>5 DEF Sim!Begin
  <1>8. sim' \in SimRecord /\ sim'.held = <<>> /\ sim'.free = free' /\ sim'.out = o
    <2>1. <<>> \in Seq(SimEntry)
      OBVIOUS
    <2> QED
      BY <1>1, <1>4, <1>7, <2>1 DEF SimRecord
  <1>9. Lists(sim'.held, KernelView')
    <2>1. DOMAIN KernelView' = {}
      BY <1>1, <1>2 DEF KernelView, ResidentSet, Resident, Entry
    <2> QED
      BY <1>8, <2>1, ListsNone
  <1>10. Mirrors'
    BY <1>8, <1>9 DEF Mirrors, Simulates
  <1>11. Weighed'
    BY <1>1, <1>2, <1>6, <1>8 DEF Weighed
  <1>12. Abreast'
    <2>1. AccessesDone' = 0
      BY <1>1, DoneNow
    <2> QED
      BY <1>1, <1>6, <1>8, <2>1 DEF Abreast, Replayed0
  <1>13. out'.evicted = sim'.out.evicted /\ sim'.out.sessions = Cardinality(NamedIn(stream'.declared))
    BY <1>1, <1>3, <1>6, <1>8 DEF Replayed0
  <1>14. verb'.at # Len(stream'.declared) + 2 /\ job'.phase # "room" /\ job'.phase # "place"
    BY <1>1, DoneNow DEF Faulting
  <1> QED
    BY <1>1, <1>8, <1>10, <1>11, <1>12, <1>13, <1>14 DEF InStepNow

LEMMA LabStepInStep ==
  ASSUME LabTyped, LabTyped', Quiet, Steady, InStep, LabSteps
  PROVE  InStep'
  <1> SUFFICES ASSUME Comparable'
               PROVE  InStepNow'
    BY DEF InStep
  <1>1. CASE \E order \in Traces : \E name \in Policies : limit # 0 /\ clock = 0 /\ Replay(name, order)
    BY <1>1, InStepBegins
  <1>2. CASE Comparable /\ Replaying /\ Replayed /\ ~NotEntered
    <2>1. InStepNow
      BY <1>2 DEF InStep
    <2>2. CASE \E lease \in LeaseKinds :
                 /\ Accessing(Current, TRUE) /\ Current \in Objects
                 /\ AcquireHit(Current, lease, TRUE) \/ AcquireMiss(Current, lease, TRUE)
      BY <1>2, <2>1, <2>2, InStepHit, InStepMiss, Zenon
    <2>3. CASE LabRoomFound \/ LabStopEvicting
      BY <1>2, <2>1, <2>3, InStepTurn
    <2>4. CASE LabEvictVictim
      BY <1>2, <2>1, <2>4, InStepVictim
    <2>5. CASE LabPlaced
      BY <1>2, <2>1, <2>5, InStepPlaced
    <2>6. CASE LabNotPlaced
      BY <1>2, <2>1, <2>6, InStepNotPlaced
    <2>7. CASE LabDestroyNext \/ \E id \in Objects : LabDestroyObject(id)
      BY <1>2, <2>1, <2>7, InStepDestroy
    <2>8. CASE Enter
      BY <1>2, <2>1, <2>8, InStepEnter
    <2>9. CASE ReplayEnds
      BY <1>2, <2>1, <2>9, InStepEnds
    <2> QED
      BY <1>2, <2>2, <2>3, <2>4, <2>5, <2>6, <2>7, <2>8, <2>9, Zenon DEF Replayed
  <1> QED
    BY <1>1, <1>2, ComparableSteps

LEMMA LabStutterInStep ==
  ASSUME InStep, UNCHANGED all
  PROVE  InStep'
  <1>1. UNCHANGED <<table, free, job, sessions>> /\ UNCHANGED <<limit, hints, stream, policy, counts, verb, out, sim>>
    BY Zenon DEF all, vars, labvars
  <1>2. /\ Comparable' = Comparable /\ AccessesDone' = AccessesDone /\ Faulting' = Faulting
        /\ KernelView' = KernelView /\ SimHeadline' = SimHeadline
    <2>1. ResidentSet' = ResidentSet
      BY <1>1 DEF ResidentSet, Resident, Entry
    <2> QED
      BY <1>1, <2>1 DEF Comparable, AccessesDone, Faulting, KernelView, KernelEntry, SimHeadline
  <1>3. Mirrors' = Mirrors /\ Weighed' = Weighed /\ Abreast' = Abreast
    BY <1>1, <1>2 DEF Mirrors, Weighed, Abreast
  <1>4. Making' = Making /\ Made' = Made /\ Counting' = Counting
    BY <1>1 DEF Making, Made, Met, Counting
  <1>5. InStepNow' = InStepNow
    BY <1>1, <1>2, <1>3, <1>4 DEF InStepNow, Halfway
  <1> QED
    BY <1>2, <1>5 DEF InStep

\* Where the two are in step, they are what the shell compares.
LEMMA InStepTrue ==
  ASSUME LabTyped, InStep
  PROVE  KernelIsSim
  <1> SUFFICES ASSUME Comparable, job = Idle
               PROVE  /\ \A count \in DOMAIN out : out[count] = sim.out[count]
                      /\ out.hits + out.reads + out.refused = AccessesDone
                      /\ verb.at <= Len(stream.declared) + 1 =>
                           {<<id, table[id].at - Base>> : id \in ResidentSet} =
                           {<<entry.id, entry.at>> : entry \in ToSet(sim.held)}
                      /\ verb.at = Len(stream.declared) + 2 => verb.head = SimHeadline
    BY DEF KernelIsSim
  <1>1. InStepNow /\ ~Faulting
    BY DEF InStep, Faulting, Idle
  <1>2. Abreast /\ out.evicted = sim.out.evicted
    BY <1>1 DEF InStepNow
  <1>3. \A count \in DOMAIN out : out[count] = sim.out[count]
    <2>1. DOMAIN out = {"hits", "reads", "bytes", "evicted", "refused"}
      BY DEF LabTyped, Numbers, OutOf
    <2>2. /\ out["hits"] = sim.out["hits"] /\ out["reads"] = sim.out["reads"]
          /\ out["bytes"] = sim.out["bytes"] /\ out["evicted"] = sim.out["evicted"]
          /\ out["refused"] = sim.out["refused"]
      BY <1>2 DEF Abreast
    <2> QED
      BY <2>1, <2>2
  <1>4. ASSUME verb.at <= Len(stream.declared) + 1
        PROVE  {<<id, table[id].at - Base>> : id \in ResidentSet} =
               {<<entry.id, entry.at>> : entry \in ToSet(sim.held)}
    <2>1. PICK held \in Seq(SimEntry) : held = sim.held /\ Lists(held, KernelView)
      <3>1. Mirrors
        BY <1>1, <1>4 DEF InStepNow
      <3> QED
        BY <3>1, SimParts DEF Mirrors, Simulates
    <2>2. ToSet(held) = {held[k] : k \in 1 .. Len(held)}
      BY DEF ToSet
    <2>3. ASSUME NEW id \in ResidentSet
          PROVE  \E entry \in ToSet(held) : <<id, table[id].at - Base>> = <<entry.id, entry.at>>
      <3>1. PICK k \in 1 .. Len(held) : held[k].id = id
        BY <2>1, <2>3, KernelViewIs, Zenon DEF Lists
      <3>2. held[k] = KernelView[id]
        BY <2>1, <3>1, Zenon DEF Lists
      <3>3. held[k].at = table[id].at - Base
        BY <2>3, <3>2, KernelEntryTyped
      <3> QED
        BY <2>2, <3>1, <3>3
    <2>4. ASSUME NEW entry \in ToSet(held)
          PROVE  \E id \in ResidentSet : <<id, table[id].at - Base>> = <<entry.id, entry.at>>
      <3>1. PICK k \in 1 .. Len(held) : entry = held[k]
        BY <2>2, <2>4
      <3>2. held[k].id \in ResidentSet /\ held[k] = KernelView[held[k].id]
        BY <2>1, KernelViewIs, Zenon DEF Lists
      <3>3. PICK id \in ResidentSet : id = held[k].id
        BY <3>2
      <3>4. entry.at = table[id].at - Base
        BY <3>1, <3>2, <3>3, KernelEntryTyped
      <3> QED
        BY <3>1, <3>3, <3>4
    <2> QED
      BY <2>1, <2>3, <2>4
  <1> QED
    BY <1>1, <1>2, <1>3, <1>4 DEF InStepNow, Abreast

LEMMA LabInStep == LabSpec => []InStep
  <1>1. LabInit => InStep
    <2> SUFFICES ASSUME LabInit PROVE InStep
      OBVIOUS
    <2>1. verb = Waiting
      BY LabInitTyped
    <2> QED
      BY <2>1 DEF InStep, Comparable, Waiting
  <1>2. ASSUME LabTyped, LabTyped', Quiet, Steady, InStep, [LabNext]_all
        PROVE  InStep'
    <2>1. CASE LabNext
      BY <1>2, <2>1, StepOf, LabStepInStep
    <2>2. CASE UNCHANGED all
      BY <1>2, <2>2, LabStutterInStep
    <2> QED
      BY <1>2, <2>1, <2>2
  <1> QED
    BY <1>1, <1>2, LabTypeCorrect, LabBooks, PTL DEF LabSpec

\* mlsh's promise of the kernel and mlos-sim: while a declared order is
\* replayed into a fresh manager, whatever the order, the policy and the
\* budget, after every access the two have hit, read, evicted and refused the
\* same and hold the same objects at the same offsets, and at the end their
\* headlines agree, though one evicts in steps that look into its table and
\* the other in a loop of its own over a vector.
THEOREM ReplayIsSimulated == LabSpec => []KernelIsSim
  <1>1. LabTyped /\ InStep => KernelIsSim
    BY InStepTrue
  <1> QED
    BY <1>1, LabInStep, LabTypeCorrect, PTL
=============================================================================
